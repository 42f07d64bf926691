# Verification of OOTS_lib

TLA+ models of `oots_lib`, the Python library that OOTS applications use to
answer evidence requests: they read a request from Redis, ask a data service
through Trembita, package the documents as evidence and hand the answer back
through Redis. The models are checked with TLC, and all but their liveness is proved
with TLAPS. All paths below are relative to the repository.

## 1. The system

The library runs inside an application's `asyncio` program. It has no process of
its own: its state is in Python objects, in one global, and in Redis.

| Part | Source | State | Operations |
| --- | --- | --- | --- |
| EDM error publication | `oots_lib/lib/exception.py` | `reported`, `reporting_error`, `reporting_task` of an exception; the module's `_reporting_tasks`; key `response:exp`; `QUEUE_OUTCOMING` | constructor (with and without a loop), `report()`, done-callback |
| Evidence handler | `oots_lib/lib/MakeEvidence.py` | `request`, `person`, `evidence`, cached content type; keys `request:edm`, `request:person`, `response:evidence`; the queue | `read_data`, `transform_data`, `load_data_to_redis` |
| Redis queues | `oots_lib/lib/UseRedis.py` | one Redis list per queue | `push_to_queue` (LPUSH), `pop_from_queue` (BRPOP) |
| Global Redis client | `oots_lib/lib/UseRedis.py` | `_redis_instance`, open connections | `get_redis_client`, `initialize_redis`, `close_redis` |
| Values, flags, key prefix | `UseRedis.py`, `redis_keys.py` | Redis keys with TTL | get/save, raw and JSON; flags; delete; prefixing |
| Model serialization | `redis_serde.py`, `models/RequestEDM.py` | one key per record | save and load a model, list or dict format |
| Person | `models/Person.py` | the fields of a person | dictionaries of two generations, XML getter and setter, `from_redis`, save and load |
| Evidences | `models/ResponseEvidences.py` | none | save and load, conversion to the legacy dictionary, the legacy reader |
| SOAP transport | `oots_lib/Transport.py` | `trembita_payload["calls"]`, X-Road client, history | constructor, `response`, `send_error_message` |
| Traceability logger | `oots_lib/lib/toLogger.py` | the shared httpx client; background tasks | `async with`, `log_*`, `log_in_background`, `aclose`, `health` |
| XML, PDF, metadata, error tables, lazy exports | the rest | none | pure construction and parsing |

**Interactions.** `MakeEvidence` and `SOAPTransport` raise `EDMException`, which
publishes itself in the background: it stores the error under `response:exp` and
pushes the `message_id` to `QUEUE_OUTCOMING`. `MakeEvidence` stores evidence under
`response:evidence` and pushes to the same queue. An application's
`generate_data`, called by `transform_data`, uses `SOAPTransport`, which posts its
calls to the traceability service. All of them take their Redis client from
`get_redis_client`. A gateway outside the library writes the request keys and
reads the queue and the response keys.

**What is hard.** Two Redis commands are never one transaction, so the order
store-then-announce must survive every interleaving of publications, handlers and
callers. A command whose reply is lost may have been applied, and the Redis client
repeats it. A publication is a background task that can be overtaken by an explicit
`report()`, cancelled, or fail with nobody awaiting it; what happened must still be
visible. The global client is read before and written after an `await`. BRPOP
removes an entry before its reply arrives. The shared httpx client can be closed
under a request. Applications of two generations write and read the same records,
some through an allowlist of fields, under keys that several of them share on one
server. `response()` blocks the event loop that everything else runs on.
The code persists nothing of its own: a process that stops takes tasks and
exceptions with it, and nothing resumes them.

**What makes it correct.** An announced message has a stored answer; whoever sees
`report()` return knows the message was announced; every publication ends visibly;
a message gets one kind of answer, which belongs to its request, and none is
announced while a preview is pending; queue entries keep their order and are handed
out once; one client is used by everybody, and whatever is open can be closed
through it; a lost log record
is made up for by the next, and never costs a result; a record stays that of one
person, one request or one set of documents through any reading and writing, and
the keys of one prefix are a store of their own.

## 2. Modules

```
Outbox              Delivery         Namespaces      abstract specifications
  ^    ^               ^                 ^
  |    |               |                 |
EDMReport <-- MakeEvidence  RedisQueue  RedisValues  RedisClient
         EXTENDS
                                           Serde
TraceabilityLogger   SOAPTransport         ^   ^
            ^         ^               Person   Evidences
             Tracing                       ^   ^
                                          Records
```

`EDMReportProofs`, `MakeEvidenceProofs`, `RedisQueueProofs`, `RedisClientProofs`,
`RedisValuesProofs`, `RecordsProofs` and `TracingProofs` hold the theorems about the
module they are named for, `ListProofs` what `RecordsProofs` needs to know of
`FlattenSeq`. `RedisValues` also uses `Serde`.

Each `MC...` module only declares model values and constant definitions for TLC.
A definition named `X_Suffix` next to `X` is a deliberately faulty version of `X`
(a dropped guard, a swapped order, a missing reset). Nothing uses these variants;
each shows, when put in place of `X`, that a property would notice the fault.

**Outbox.** What the reader of `QUEUE_OUTCOMING` may rely on: a message is
announced only after a response to it was stored, and announcements are only ever
appended.

**EDMReport** (`exception.py`). One state per run of `report()`: `ready` (the task
has not started), `saving` and `pushing` (the two awaits), `acked` (the LPUSH is
applied, its reply is on the way), `ok`, `failed`, `cancelled`. The runs of an
instance are the constructor's (`Initial`) and the explicit ones (`Calls`).

| Action | Code |
| --- | --- |
| `Construct`, `ConstructSync` | `__init__`, `_on_exception_created` with and without a running loop |
| `Enter` | `report()` up to its first await: the test of `reported` |
| `SaveReply`, `SaveFails` | `_save_exception_data` returns or raises; the check for a queue in `_push_to_queue` |
| `PushApplied`, `PushRetried`, `PushReply`, `PushFails` | `_push_to_queue`; `reported` and `reporting_error` are set after it |
| `Cancel` | the task, or the caller awaiting `report()`, is cancelled |
| `ReportingDone` | `_on_reporting_done` |
| `Expire` | the TTL of `save_to_redis` |

A key that expired differs from one never written (`Expired`, `Absent`): "the
reader finds a record" can only be promised for as long as the TTL allows. A Redis
client repeats a command at most `Retries` times; a repeated SET changes nothing,
so only repeated LPUSHes are steps.

**MakeEvidence** (`MakeEvidence.py`) EXTENDS EDMReport: its errors are EDMReport's
instances, and both write one queue. One action per stretch between two awaits:
`ReadData`, `RequestRead`, `PersonRead`, `As4Read`; `TransformData`, `Generated`
(with the loop over the documents in `Package`), `GenerateFails`, `ServiceFails`;
`LoadDataToRedis`, `EvidenceSaved`, `MessagePushed`, `PushResent`, `PushReturned`;
`Interrupted` is an exception or a cancellation at any await. `Gateway` is the
environment: it writes and removes request keys at any time and lets evidence
expire. A request is its format and preview flag; documents are counted.
`Ordered` restricts the application to the sequence that README.md shows.
`PdfDefaults` says whether documents override `get_pdf` so that it needs no
argument; the library's own `MainBase.get_pdf` does need one.

**Delivery** and **RedisQueue** (`UseRedis.py`). Delivery is a log and the number
of entries taken from it, in order. RedisQueue has a command under way for every
push and pop, which the server applies (`Lpush`, `Brpop`, `BrpopNil`), whose reply
comes back (`PushReturns`, `PopReturns`) or is lost, which the client repeats
(`PushRepeated`, `PopRepeated`), or which ends in an exception (`PushRaises`,
`PopFails`; a `TimeoutError` of a pop becomes `None`). Entries are identified by
their position in the log, so that two entries with one payload differ.

A popped entry is in the reply on its way (`reply`), handed out (`handed`), or lost
with its reply (`lost`).

**Namespaces** and **RedisValues** (`UseRedis.py`, `redis_keys.py`). Namespaces is a
cell for each pair of a prefix and a name. In RedisValues several applications
share one server; each normalizes its prefix (`NormalizePrefix`) and puts it before
a key unless it is there already (`PrefixedKey`). A key is the sequence of its parts
between colons; prefixes are taken without whitespace around them, which `strip()`
would remove. The stored bytes `null` (`Null`) are told from Python's `None`: as raw
bytes they are returned as they are, as JSON they read as `None`. `SaveToRedis`, `SaveRawToRedis`, `SetFlag`, `DeleteFromRedis` write,
`GetFromRedis`, `GetRawFromRedis`, `GetFlag` read any key whatever was written there:
JSON, text that is no JSON, or bytes that are not even UTF-8. The assumption that
one of two applications with different prefixes uses no key that begins with the
other's prefix is the separation a deployment has to provide; without it an
application without a prefix may simply write `app:x`.

**Serde** (`redis_serde.py`), **Person** (`Person.py`) and **Evidences**
(`ResponseEvidences.py`) are definitions: what is stored for a model, what is read
from a dictionary and with which exception reading ends. A dictionary is a function
on the keys it has, None is `None`. Person has both dictionaries (`GetDict`,
`LegacyDict`), the lookup of a field under either name, the elements written
(`GetElement`, `SdgXml`) and the xml setter with what it leaves behind when it
raises. Evidences has the faults of a dictionary, the generated cids and the
legacy conversion in both directions.

**Records** follows one record, a request, a person or evidence: others write it in
either generation and spoil it (`Written`), an application loads it (`Load`,
`FromRedis`), saves it (`Save`), and reads or writes a person as XML
(`SetPersonXml`, `WritePersonXml`), in any order. `origin` remembers whose data was
put where. `RecordsAssumption` describes what others store and send: a person's
dictionary has the names of one generation and tells of each field what the person
has (`DataOf`), or something that cannot be read. A number under `identifier` is
what `from_dict` silently overlooks (Person.py:283), so that it counts as telling
of no identifier. Evidence is made of lists, and a
text has either a language (new generation) or is a dictionary of one (old). That
description is what the theorems assume; the instance for TLC is tested against it
in every run. Two of its conjuncts were found by proving: a dictionary without
documents whose texts are the new generation's has no `exaption`, or else the legacy
reader would take it for an old one and return those texts as they are; and no
language is called "lang", which would make an old text look like a new one. No
dictionary that the library writes is of either kind.

**RedisClient** (`UseRedis.py`). The global, the instances built, those connected,
and what each task awaits and holds. `HealthOk` returns the global of the moment
*after* the await, and `Disconnected` resets whatever the global has become, as the
code does. When `aclose()` raises, `disconnect()` swallows that, and `close_redis`
returns normally and forgets the client (`DisconnectFails`); `abandoned` remembers
such clients. `Orderly` is the usage that README.md and docs/api.md show: one task
initializes before anybody has a client, or nobody does, and it closes when the
others are done.

**TraceabilityLogger** (`toLogger.py`). The client of `async with`, every httpx
client built and still open, and for each call where it is, which client its
request uses and whether the request owns it. `Run`, `Healthy` start a request
(`Connect`); `Posted`, `Unhealthy`, `HttpError`, `OtherError`, `NotConnected`,
`ClientClosed`, `Refused`, `Cancelled` end it, and `Released` is the `finally` of
`_request`. Only `httpx.HTTPError` is caught (`HttpError`); whatever else a request
may raise leaves `_request`, with or without `raise_on_error` and on any client: an
invalid URL, a record without JSON, a client that cannot be built (`NotConnected`),
its `aclose()` in `finally` that raises (`OtherError`). A request begun on a client
that is closed already is refused; one whose client is closed under it may still
succeed, fail as any request, or raise what is no `HTTPError`. `aclose()` calls may
overlap: one that finds the client closed returns at once (`ACloseAgain`), while the
first still waits (`AClosed`).

**SOAPTransport** (`Transport.py`). Its exchanges are numbered; `callLog` is
`trembita_payload["calls"]`, `traced` the payloads the service stored. `Answered`
covers the request, the test for a body and the appended call; `LogAccepted` and
`LogFails` the posting with `log_trembita_sync`; `HistoryFails` the call data that
is computed outside the `try`. The branches for `client is None` are unreachable:
a constructor without a client raises.

**Tracing** puts both in one process: while a transport on the loop's thread
(`OnLoop`) is inside `response()`, no step of the logger happens.

## 3. Runs

| Run | Shows | Bounds |
| --- | --- | --- |
| `EDMReport` | `AnnouncedHasRecord`, `ReturnMeansAnnounced`, `SettledIsVisible`, `StaysQuiet`, `ReportingSettles`, the refinement `ImplementsOutbox` | two exceptions of one message, one without a queue; one explicit `report()` each; one repeat |
| `MakeEvidence` | `PreviewHeldBack`, `OneKindOfAnswer`, `EvidenceOfItsRequest`, `AnswersImplementOutbox`, `EveryMessageSettles` | one ordered handler, four kinds of request, absent and corrupt keys, 0 or 1 document, two exceptions, one repeat |
| `MakeEvidenceFree` | `AnswersImplementOutbox` when methods are called in any order and again | four calls, two kinds of request, one exception, no repeat |
| `RedisQueue` | `InOnePlace`, the refinement `ImplementsDelivery`, `EveryEntryTaken` | two messages, each queued up to twice, two polling consumers, one repeat each |
| `RedisValues` | `NothingMadeUp`, the refinement `ImplementsNamespaces` | three applications, one without a prefix and two whose prefixes begin alike; two keys of one application that mean one name; one document |
| `Records` | `OnePerson`, `SavedComesBack`, `EvidenceKept`, `ReadersAgree`, `HiddenStaysHidden` | three persons that differ in every field, eight sets of evidence and three spoiled ones, three requests, each as a dictionary and inside a list, up to three readings of evidence, every subset of the fields allowed |
| `RedisClient` | `SameInstance`, `CloseReachesAll` | a main task, three others, two instances |
| `Tracing` | `NoClientLeak`, `OwnClientUndisturbed`, `TrueMeansStored`, `EveryLogEnds`, `AcceptedLogCatchesUp`, `TracedWereAnswered` | two logs, two uses of `async with`, one transport with two exchanges on the loop |

*Why these bounds.* Every hazard here takes two parties at most: two runs of one
instance, two instances of one message, a handler and its error, two consumers, a
closer and a request. One message is enough for handlers because nothing relates two messages
except the queue's order, for which `RedisQueue` has two. Two persons show whether
fields of one come from another; a package with an annex and one without a permit
or a cid are what the legacy conversion distinguishes, and a third reading shows a
cid generated by the second. One document
more or less is what the loop in `transform_data` distinguishes (none, or some).
One repeat distinguishes a queued duplicate from none. Two exchanges are needed for
a log to make up for a lost one. `EDMReport` is finite because every run happens
once; the theorems do without all of these bounds.

Deadlock is not checked where calls are bounded and the system stops after them
(all but `RedisQueue`, whose consumers poll for ever).

### Disagreements between the code and its documents

Each has a run in which TLC shows the code violating what the text says.

| Run | What happens |
| --- | --- |
| `EDMReportTwice` | An explicit `report()` that overlaps the constructor's task pushes a second time: `reported` is tested before the first await and set after the last. The test suite calls `report` idempotent, having awaited one before the other. |
| `EDMReportStale` | The callback of a failed or cancelled task writes `reporting_error` on an instance that an explicit `report()` has published. |
| `MakeEvidenceCode` | A failed exchange is published with `EDM:ERR:0006` by the transport and with `EDM:ERR:0004` by `transform_data`, which catches and wraps every exception, under one key; both are announced. |
| `MakeEvidenceUnknown` | A request in an unknown format is answered with empty evidence if there are no documents: the format is tested inside the loop over them. |

More were met while modelling and have no run:

- `transform_data` calls `get_pdf()` without the stylesheet that `MainBase.get_pdf`
  requires (Base.py:116), so the default cannot serve a PDF (`PdfDefaults`).
- `pop_from_queue` reports "the queue is empty" (UseRedis.py:301) after it took an
  entry whose reply was lost: the entry is in `lost`.
- docs/error-handling.md:88 says that `get_from_redis` returns `None` only if there
  is no key, and `RedisDataError` for spoiled JSON, and line 91 that `get_flag`
  returns its default for invalid JSON. A stored `null` (`set_flag(key, None)`) reads
  as `None`, and bytes that are not UTF-8 raise `UnicodeDecodeError` from both
  (`Parsed`, `Flag`).
- `load_model_from_redis` documents `ValueError` for data of a wrong format; a null
  `RepositoryItemRef`, or a number as `eidas_identifier`, raises `AttributeError`.
- `get_legacy_evidences_from_redis` does not unwrap a list as
  `load_model_from_redis` does: it raises `AttributeError` (`GetLegacy`), so that
  `ReadersAgree` is about records stored as dictionaries.
- A dictionary with a number as `identifier` is read as a person without one.
- `close_redis` logs "Redis з'єднання закрито" (connection closed) and drops the
  client although its `aclose()` raised and connections may be open (UseRedis.py:361).
- A log call of a logger without `raise_on_error` raises all the same for what is no
  `httpx.HTTPError` (toLogger.py:151), also on a client of its own (`OtherError`).
- `save_person_to_redis` keeps neither the `schemeID` of an identifier nor that there
  is no `LevelOfAssurance` (`Restored`).
- `TraceabilityLogger` ignores the `base_url` and `api_key` that README.md:108 says
  can be passed. `log_in_background` of a logger with `raise_on_error` raises when
  the service is unavailable, where docs/toLogger.md says `False`.
- With usage outside `Orderly`, `initialize_redis` may return `None` or a client it
  did not check when `close_redis` overlaps it, and clients obtained before it are
  another instance than the global.

## 4. Fairness

Safety needs none. `EDMReport!Fairness` is weak fairness of the loop running a
ready task and a due callback, and of an awaited command ending: the client is
built with `socket_timeout`, so an await ends in a reply or an exception. It
promises neither success nor that anybody calls `report()` or is cancelled.
`MakeEvidenceFairSpec` adds that the application goes on with the sequence in
README.md. `RedisQueue!FairSpec` has consumers that poll in a loop, and strong
fairness of BRPOP arriving at a server that has something, because a poll can be
lost any number of times but not for ever. `TracingFairSpec` lets requests end
(httpx and X-Road timeouts) and the loop run what is ready; `EveryLogEnds` also
uses that exchanges are bounded, since a process that blocks its loop without a
pause starves its logs.

## 5. Theorems

All theorems hold for any values of the constants that satisfy the named
assumption of the module (`EDMReportAssumption`, ...): the maps are well typed, the
distinguished values distinct, bounds natural numbers. Further assumptions are in
the statement.

| Module | Theorem | Statement |
| --- | --- | --- |
| EDMReportProofs | `Inductive` | `Spec => []IInv`, the inductive invariant, which is defined there |
| | `TypeCorrect`, `AnnouncedHasRecordAlways`, `ReturnMeansAnnouncedAlways`, `SettledIsVisibleAlways` | the four invariants of the run |
| | `StaysQuietAlways` | a reported instance with nothing in flight sends nothing again |
| | `Publication` | EDMReport implements Outbox |
| MakeEvidenceProofs | `MakeEvidenceTypes` | type correctness |
| | `AnsweredFirst` | handlers, errors and gateway implement Outbox, in whatever order methods are called |
| | `EvidenceMatchesAlways`, `PreviewHeldAlways` | under `Ordered`: evidence is that of its request; none is announced before its preview |
| | `AnsweredOnce` | under `Ordered`, with one handler per message: evidence or an error, never both |
| RedisQueueProofs | `QueueTypes`, `InOnePlaceAlways`, `QueueDelivers` | every entry is in one place; RedisQueue implements Delivery |
| RedisClientProofs | `ClientTypes` | type correctness, for any order of calls |
| | `SameInstanceAlways`, `CloseReachesAllAlways` | under `Orderly`: one client; every open connection is that of the client `close_redis` will close, or of one whose `aclose()` raised |
| RecordsProofs | `RecordsTypes` | type correctness |
| | `OnePersonAlways` | a person stays one person, for any persons, dictionaries and elements |
| | `SavedComesBackAlways`, `RoundTrip`, `EvidenceReadBack`, `LegacyReadBack`, `XmlRoundTrip` | what was saved or written is read back: a person but for its scheme and a missing LevelOfAssurance, evidence as it is with either reader, an element but for the scheme of an identifier without value |
| | `EvidenceKeptAlways`, `ReadersAgreeAlways` | the main documents survive both readers, in their order, and the readers agree but for `exaption` |
| | `HiddenStaysHiddenAlways` | nothing shown depends on a hidden field |
| RedisValuesProofs | `PrefixedOnce`, `TemplatesApart` | prefixing is idempotent; filled templates never meet |
| | `ValuesTypes`, `ReadingsAreHonest`, `PrefixesSeparate` | `TypeOK`; `NothingMadeUp`; RedisValues implements Namespaces |
| TracingProofs | `NoClientLeakAlways`, `TrueMeansStoredAlways` | no client is left behind; True means stored |
| | `OwnClientUndisturbedAlways` | no `aclose()` ends a request on a client of its own |
| | `LoggerTypesAlways` | its types, with the bound on the clients it builds |
| | `TransportTypes`, `AcceptedLogCatchesUpAlways`, `TracedWereAnsweredAlways` | those of the transport |

*EDMReport.* None of the invariants is inductive alone. That an announced
message has a record (`AnnouncedHasRecord`) is kept by the LPUSH only if the run
that sends it has a stored error behind it, and stays so although other instances
overwrite the key and the TTL empties it: `Stored`. That a return implies an
announcement goes through the `reported` flag, which one run sets and another
reads: `Returned` ties the flag to an applied LPUSH of *some* run, for which
`Counted` ties the progress of a run to how often its LPUSH was applied. That a
settled instance shows its outcome needs that an instance whose task has not ended
is still tracked, and that only instances with a loop are: `Tracked`. `IInv` is
their conjunction with the type invariant. There is one lemma per action, with one
step per conjunct; `SaveReply` is split by whether there is a queue. `StaysQuiet`
and the step simulation of `Publication` follow from `IInv` without further
invariants.

*MakeEvidence.* Handlers write the queue that the errors write, so what `IInv` says
of the queue no longer holds by itself; `Reporting` is what remains of it, and
`Handling` says that a handler on its way to a push has stored its evidence. Both
are kept in any order of calls and give `AnsweredFirst`. Called in order, what a
handler awaits tells which method runs (`Running`), and `Course` says that the
evidence it holds is that of the one request it read; the two invariants about
evidence follow. `Answered` adds whose answer a message has: a record of an error
comes from a handler that ended in one, evidence from a handler that stored it,
and `Running` excludes that one handler is both.

*RedisQueue.* `InOrder` says that the list is the latest part of the log, newest
first, so that an LPUSH extends it and a BRPOP takes the oldest; `Places` says that
every entry before it is in one reply, handed out or lost. BRPOP's entry is the
last one taken, which no reply can hold yet.

*RedisClient.* In an orderly application only one instance is ever built
(`OneInstance`), from which `SameInstance` follows. For `CloseReachesAll`,
`OneInstance` also says that once the global was reset nothing is connected but
what `aclose()` left: no await is under way and nobody sends a command any more. That every await is for an
instance that was built (`Awaited`) needs no order.

*RedisValues.* `Split` and `Joined` relate a key to its prefix and the rest; by the
assumption two slots with one key are one slot, so that a write changes one cell.

*Records.* The invariant `Inv` says of every place, the key, the application's
object and the element, that its data is a rendering of what its origin has:
`PersonInv` with `Tells`, `DataOf` and `ElementOf`, `EvidenceInv` with `Essence`,
`RequestInv` with the keys of a request; and while the key holds what the library
saved, it holds the dictionary of exactly that object. None of the properties is
inductive alone: `OnePerson` speaks of the object only, `EvidenceKept` of the key
only, and each is copied to the other. The lemmas say what one conversion keeps
(`PersonRead`, `PersonWritten`, `XmlRead`, `XmlWritten`, `EvidenceRead`,
`LegacyWritten`, `NormalizedWritten`), for dictionaries of either generation, and a
step only combines two of them. A person that the xml setter left half replaced is
still a person, of which nothing is told (`Torn`). `ReadersAgree` needs no more
than `ReadTwice`: if the new reader understands a dictionary that the legacy reader
takes for an old one, it has neither documents nor texts.

`FlattenSeq` is a recursion over lists of any length (`ListProofs`). `LeastNumber`, that a set of
numbers has a least one, follows from the library's theorem that proper inclusion
of finite sets is well founded; `Induction`, over a set of numbers rather than a
predicate, follows from it, and gives `FlattenHasAll`. That the legacy dictionary
has the documents in their order and none twice (`LegacyWritten`) is an equation of
two lists of lists: `MappedFlatten`, by the same induction, moves "what an item
tells" inside `FlattenSeq`, for the packages and again for the objects of each
(`ItemsTell`), and `FlattenSingles` collects the items of the flat list.

*Tracing.* `Owned` says that a client a request owns is open, is not the shared one
and belongs to that request alone, and that every other open client is the shared
one; `Ends` and `Connect` keep it, whoever closes the shared client meanwhile.
`Kept` relates the calls of a transport's payload, those traced and the results
returned: the payload only grows, in the order of the exchanges, so that whatever
was returned is in the next payload that is accepted.

`Bounded` counts clients: a call never goes back, and each of its at most two
requests builds at most one.

Only model-checked: liveness, which is beyond the prover (`ReportingSettles`,
`EveryMessageSettles`, `EveryEntryTaken`, `EveryLogEnds`).
Every other property that a passing run checks is stated by a theorem. What stays
with TLC besides is that the instances are not empty: that the inputs the
assumptions describe exist, and that every action is taken.

## 6. Not modelled

- Construction and parsing of XML, PDF and metadata: stateless; what a handler can
  tell about them is success or failure, which are outcomes in `Package`. The
  elements of a person are functions on tags; its four names behave alike and its
  five texts do, so one field stands for each kind. Malformed XML is refused
  before a person changes.
- Calls with the key `None` or with data of a refused type: they raise before they
  change anything.
- The error tables (`exceptions.py`), namespaces (`NS.py`), environment and lazy
  exports: constants, or strings put together once.
- Payload builders and `check_service` of the logger: they change no state. A
  payload is not copied deeply, so calls appended after `log_in_background` may be
  part of its record.
- Entering a logger that is open or whose `aclose()` is pending, and the
  interpreter's collection of a background task nobody refers to: assumed away; both
  are listed as hazards.
- Whitespace around a Redis prefix, which `strip()` removes before the colons.
- Two keys read by two commands (request and person) may belong to different
  versions; no text of the repository ties them together.

## 7. Plan

1. Done: `Outbox`, `EDMReport`, `MakeEvidence`; `Delivery`, `RedisQueue`;
   `RedisClient`; `TraceabilityLogger`, `SOAPTransport`, `Tracing`; `Namespaces`,
   `RedisValues`; `Serde`, `Person`, `Evidences`, `Records`; proofs about all of
   them.
2. That a reading after a legacy round trip differs only in cids.
3. Several handlers of one conversation (a preview request and its follow-up).
