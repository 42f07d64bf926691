------------------------- MODULE TraceabilityLogger -------------------------
(***************************************************************************)
(* TraceabilityLogger (oots_lib/lib/toLogger.py): one logger object whose  *)
(* log calls run as tasks of one event loop.  Inside "async with" its      *)
(* requests share one httpx client; outside, every request builds and      *)
(* closes its own.  aclose() may run while requests are under way.  A      *)
(* request on a client already closed, or closed in the middle of it,      *)
(* fails with a RuntimeError, which is no httpx.HTTPError.                 *)
(*                                                                         *)
(* The logger is entered by one "async with" at a time, while no aclose()  *)
(* is pending (the guard of AEnter is that usage: the code has none);      *)
(* calls of aclose() may overlap each other.                               *)
(***************************************************************************)
EXTENDS Naturals, FiniteSets

CONSTANTS
    Logs,           \* calls of log_in_background, or awaited calls of log_...
    RaiseOnError,   \* the raise_on_error attribute
    MaxEntered      \* bound: "async with" is entered while fewer clients exist

ASSUME TraceabilityLoggerAssumption ==
    RaiseOnError \in BOOLEAN /\ MaxEntered \in Nat /\ IsFiniteSet(Logs)

VARIABLES
    client,     \* self._client
    closing,    \* an aclose() awaits the close of the client
    built,      \* how many httpx clients were built
    open,       \* those whose aclose() was not called: it marks a client
                \* closed before it does what may raise
    at,         \* where each call is
    uses,       \* the client of its request
    owns,       \* owns_client of its request
    result,     \* what it returned or raised
    stored      \* the calls whose record the service stored

loggerVars == <<client, closing, built, open, at, uses, owns, result, stored>>
callVars == <<at, uses, owns, result, stored>>

NoClient == 0                           \* clients are numbered from 1
Clients == 1..(MaxEntered + 2 * Cardinality(Logs))
Requests == {"health", "post"}
Results == {"True", "False", "client closed", "raised"}     \* "raised": all else

LoggerTypeOK ==
    /\ client \in {NoClient} \cup Clients
    /\ closing \in BOOLEAN
    /\ built \in {0} \cup Clients
    /\ open \subseteq 1..built
    /\ at \in [Logs -> {"idle", "scheduled", "done"} \cup Requests]
    /\ uses \in [Logs -> {NoClient} \cup Clients]
    /\ owns \in [Logs -> BOOLEAN]
    /\ result \in [Logs -> {"-"} \cup Results]
    /\ stored \subseteq Logs

LoggerInit ==
    /\ client = NoClient /\ closing = FALSE /\ built = 0 /\ open = {}
    /\ at = [l \in Logs |-> "idle"]
    /\ uses = [l \in Logs |-> NoClient]
    /\ owns = [l \in Logs |-> FALSE]
    /\ result = [l \in Logs |-> "-"]
    /\ stored = {}

-----------------------------------------------------------------------------
(* async with *)
AEnter ==
    /\ client \notin open /\ ~closing /\ built < MaxEntered
    /\ client' = built + 1 /\ built' = built + 1
    /\ open' = open \cup {client'}
    /\ UNCHANGED <<closing, callVars>>

AClose ==
    /\ client # NoClient /\ ~closing
    /\ closing' = TRUE
    /\ open' = open \ {client}
    /\ UNCHANGED <<client, built, callVars>>

(* Another aclose() meanwhile finds the client closed and is done at once. *)
ACloseAgain ==
    /\ closing /\ client # NoClient
    /\ client' = NoClient
    /\ UNCHANGED <<closing, built, open, callVars>>

(* The close of the client returns; or it raises, and self._client stays.  *)
AClosed ==
    /\ closing
    /\ closing' = FALSE
    /\ client' \in {NoClient, client}
    /\ UNCHANGED <<built, open, callVars>>

-----------------------------------------------------------------------------
(* _request: the client of the next request of l; rest are the clients     *)
(* that stay open without it.                                              *)
Connect_Kept(l, rest) ==
    /\ client \in open \cup {NoClient}
    /\ owns' = [owns EXCEPT ![l] = client = NoClient]
    /\ IF client # NoClient
       THEN open' = rest /\ UNCHANGED <<client, built>>
       ELSE /\ built' = built + 1 /\ client' = built'
            /\ open' = rest \cup {built'}
    /\ uses' = [uses EXCEPT ![l] = client']
Connect(l, rest) ==
    /\ client \in open \cup {NoClient}
    /\ owns' = [owns EXCEPT ![l] = client = NoClient]
    /\ IF client # NoClient
       THEN open' = rest /\ UNCHANGED built
       ELSE built' = built + 1 /\ open' = rest \cup {built'}
    /\ uses' = [uses EXCEPT ![l] = IF client # NoClient THEN client ELSE built']
    /\ UNCHANGED client

(* The clients left open by the end of a request: "finally".               *)
Released_Post(l) == IF owns[l] /\ at[l] = "post" THEN open \ {uses[l]} ELSE open
Released(l) == IF owns[l] THEN open \ {uses[l]} ELSE open

Ends(l, r) ==
    /\ at' = [at EXCEPT ![l] = "done"]
    /\ result' = [result EXCEPT ![l] = r]
    /\ open' = Released(l)
    /\ UNCHANGED <<client, closing, built, uses>>

-----------------------------------------------------------------------------
LogInBackground(l) ==
    /\ at[l] = "idle"
    /\ at' = [at EXCEPT ![l] = "scheduled"]
    /\ UNCHANGED <<client, closing, built, open, uses, owns, result, stored>>

(* The task runs up to its first await, with or without check_health.      *)
Run(l) ==
    /\ at[l] = "scheduled"
    /\ Connect(l, open)
    /\ \E where \in Requests : at' = [at EXCEPT ![l] = where]
    /\ UNCHANGED <<closing, result, stored>>

(* self._client is closed, but not yet None: the request is refused.       *)
Refused_Waits(l) ==
    /\ at[l] \in {"scheduled", "health"}
    /\ client \notin open \cup {NoClient}
    /\ UNCHANGED loggerVars
Refused(l) ==
    /\ at[l] \in {"scheduled", "health"}
    /\ client \notin open \cup {NoClient}
    /\ owns' = [owns EXCEPT ![l] = FALSE]
    /\ Ends(l, "client closed")
    /\ UNCHANGED stored

(* The construction of a client of its own fails.                          *)
NotConnected(l) ==
    /\ at[l] \in {"scheduled", "health"}
    /\ client = NoClient
    /\ owns' = [owns EXCEPT ![l] = FALSE]
    /\ Ends(l, "raised")
    /\ UNCHANGED stored

(* /health answers 200: the record is posted, with a client of its own     *)
(* choice; or another success, which health() does not accept.             *)
Healthy(l) ==
    /\ at[l] = "health"
    /\ at' = [at EXCEPT ![l] = "post"]
    /\ Connect(l, Released(l))
    /\ UNCHANGED <<closing, result, stored>>

Unhealthy(l) ==
    /\ at[l] = "health"
    /\ Ends(l, "False")
    /\ UNCHANGED <<owns, stored>>

Posted(l) ==
    /\ at[l] = "post"
    /\ stored' = stored \cup {l}
    /\ Ends(l, "True")
    /\ UNCHANGED owns

(* A POST without a success may have been stored all the same.             *)
MayStore(l) == stored' \in {stored} \cup {stored \cup {l} : p \in {"post"} \cap {at[l]}}

(* An error status, a broken connection or a timeout: httpx.HTTPError.     *)
HttpError_Ignored(l) ==
    /\ at[l] \in Requests
    /\ MayStore(l)
    /\ Ends(l, "True")
    /\ UNCHANGED owns
HttpError_Retried(l) ==
    /\ at[l] \in Requests
    /\ MayStore(l)
    /\ at' = [at EXCEPT ![l] = "scheduled"]
    /\ open' = Released(l)
    /\ UNCHANGED <<client, closing, built, uses, owns, result>>
HttpError(l) ==
    /\ at[l] \in Requests
    /\ MayStore(l)
    /\ Ends(l, IF RaiseOnError THEN "raised" ELSE "False")
    /\ UNCHANGED owns

(* Whatever is no httpx.HTTPError leaves _request on any client: an        *)
(* invalid URL, a record that has no JSON, the failing close of its own    *)
(* client, perhaps after the record was stored.                            *)
OtherError(l) ==
    /\ at[l] \in Requests
    /\ MayStore(l)
    /\ Ends(l, "raised")
    /\ UNCHANGED owns

(* aclose() of the shared client in the middle of a request.               *)
ClientClosed(l) ==
    /\ at[l] \in Requests /\ uses[l] \notin open
    /\ MayStore(l)
    /\ Ends(l, "client closed")
    /\ UNCHANGED owns

Cancelled(l) ==
    /\ at[l] \in {"scheduled"} \cup Requests
    /\ MayStore(l)
    /\ Ends(l, "raised")
    /\ UNCHANGED owns

Step(l) ==
    \/ Run(l) \/ Refused(l) \/ NotConnected(l) \/ Healthy(l) \/ Unhealthy(l)
    \/ Posted(l) \/ HttpError(l) \/ OtherError(l) \/ ClientClosed(l)

LoggerNext ==
    \/ AEnter \/ AClose \/ ACloseAgain \/ AClosed
    \/ \E l \in Logs : LogInBackground(l) \/ Step(l) \/ Cancelled(l)

LoggerSpec == LoggerInit /\ [][LoggerNext]_loggerVars

-----------------------------------------------------------------------------
(* Every open client is the one of "async with" or belongs to a request    *)
(* under way: no outcome of a request, no aclose() in the middle of one    *)
(* leaves a client behind that nobody closes ("finally" of _request).      *)
NoClientLeak ==
    open \subseteq {client} \cup {uses[l] : l \in {k \in Logs : at[k] \in Requests /\ owns[k]}}

(* aclose(), of whichever client and however often, never interrupts a     *)
(* request on a client of its own: only requests that share the client of  *)
(* "async with" end because of it.                                         *)
OwnClientUndisturbed ==
    \A l \in Logs : result[l] = "client closed" => ~owns[l]

(* A call that returned True has its record at the service.                *)
TrueMeansStored == \A l \in Logs : result[l] = "True" => l \in stored

(* Every scheduled log ends, however the client is closed meanwhile.       *)
EveryLogEnds == \A l \in Logs : at[l] = "scheduled" ~> at[l] = "done"
=============================================================================
