---------------------------- MODULE MakeEvidence ----------------------------
(***************************************************************************)
(* MakeEvidence (oots_lib/lib/MakeEvidence.py): handlers that answer the   *)
(* messages of the gateway.  The application calls read_data,              *)
(* transform_data and load_data_to_redis on a handler; each suspends at    *)
(* its Redis commands or in the application's generate_data.  A message is *)
(* answered by evidence under its response:evidence key or by an           *)
(* EDMException (module EDMReport) under its response:exp key, and is      *)
(* announced on the one queue QUEUE_OUTCOMING.                             *)
(*                                                                         *)
(* The gateway writes request:edm and request:person at any time, as their *)
(* TTLs remove them: keys are named by conversation, which the follow-up   *)
(* of a preview request shares.  self.as4 is read and used by nobody here. *)
(***************************************************************************)
EXTENDS EDMReport

CONSTANTS
    Handlers,       \* MakeEvidence instances
    HandlerMessage, \* the message_id of each
    Requests,       \* what a request:edm key may hold
    People,         \* what a request:person key may hold
    IfPreview,      \* the IF_PREVIEW environment variable
    PdfDefaults,    \* the documents' get_pdf() needs no xslt_file
    MaxDocs,        \* bound: documents generate_data returns
    Ordered,        \* the application calls as in README.md: read, transform,
                    \* load, once each, and stops at an exception
    MaxCalls,       \* bound: method calls per handler
    None,           \* Python's None
    Corrupt         \* a value its reader cannot parse

Served  == {"pdf", "xml", "json"}
Formats == Served \cup {"other", "none"}
Codes   == {"0003", "0004", "0006"}

Evidence == [format : Formats, preview : BOOLEAN, docs : 0..MaxDocs]

Awaiting == {"request", "person", "as4", "generate", "save", "push", "pushed"}
Outcomes == {"read_data", "transform_data", "load_data_to_redis",
             "EDMException", "raised", "TypeError"}

ASSUME MakeEvidenceAssumption ==
    /\ HandlerMessage \in [Handlers -> Messages]
    /\ Requests \subseteq [format : Formats, preview : BOOLEAN]
    /\ {IfPreview, PdfDefaults, Ordered} \subseteq BOOLEAN
    /\ {MaxDocs, MaxCalls} \subseteq Nat
    /\ {None, Corrupt, Absent} \cap (People \cup Requests) = {}
    /\ {None, Absent, Expired} \cap Evidence = {}
    /\ None \notin Outcomes \cup Formats

VARIABLES
    requestKey, personKey,  \* the gateway's keys of each message
    evid,                   \* the response:evidence key of each message
    at,                     \* what each handler awaits, or "ready"
    last,                   \* how its latest call ended
    calls,                  \* how many calls were made on it
    request, person, ctype, evidence,   \* its attributes
    resent,                 \* how often its LPUSH was repeated
    code                    \* the code of each EDMException

keys  == <<requestKey, personKey>>
attrs == <<request, person, ctype, evidence>>
own   == <<evid, at, last, calls, attrs, resent, code>>
allVars == <<vars, keys, own>>

MakeEvidenceTypeOK ==
    /\ TypeOK
    /\ requestKey \in [Messages -> Requests \cup {Absent, Corrupt}]
    /\ personKey \in [Messages -> People \cup {Absent, Corrupt}]
    /\ evid \in [Messages -> Evidence \cup {Absent, Expired}]
    /\ at \in [Handlers -> Awaiting \cup {"ready"}]
    /\ last \in [Handlers -> Outcomes \cup {None}]
    /\ calls \in [Handlers -> 0..MaxCalls]
    /\ request \in [Handlers -> Requests \cup {None}]
    /\ person \in [Handlers -> People \cup {None}]
    /\ ctype \in [Handlers -> Formats \cup {None}]
    /\ evidence \in [Handlers -> Evidence \cup {None}]
    /\ resent \in [Handlers -> 0..Retries]
    /\ code \in [Errors -> Codes \cup {None}]

MakeEvidenceInit ==
    /\ Init
    /\ requestKey \in [Messages -> Requests \cup {Absent, Corrupt}]
    /\ personKey \in [Messages -> People \cup {Absent, Corrupt}]
    /\ evid = [m \in Messages |-> Absent]
    /\ at = [h \in Handlers |-> "ready"]
    /\ last = [h \in Handlers |-> None]
    /\ calls = [h \in Handlers |-> 0]
    /\ request = [h \in Handlers |-> None]
    /\ person = [h \in Handlers |-> None]
    /\ ctype = [h \in Handlers |-> None]
    /\ evidence = [h \in Handlers |-> None]
    /\ resent = [h \in Handlers |-> 0]
    /\ code = [e \in Errors |-> None]

-----------------------------------------------------------------------------
Before(method) ==
    CASE method = "read_data"          -> None
      [] method = "transform_data"     -> "read_data"
      [] method = "load_data_to_redis" -> "transform_data"

Call(h, method) ==
    /\ at[h] = "ready" /\ calls[h] < MaxCalls
    /\ Ordered => last[h] = Before(method)
    /\ calls' = [calls EXCEPT ![h] = @ + 1]

Await(h, where) == at' = [at EXCEPT ![h] = where] /\ UNCHANGED last

End(h, outcome) ==
    /\ at' = [at EXCEPT ![h] = "ready"]
    /\ last' = [last EXCEPT ![h] = outcome]

Set(attribute, h, value) == attribute' = [attribute EXCEPT ![h] = value]

(* raise self._edm_exception(c, ...): the instance is built in a coroutine. *)
Reject(h, c) ==
    \E e \in Errors :
        /\ MessageOf[e] = HandlerMessage[h]
        /\ Construct({e})
        /\ Set(code, e, c)
        /\ End(h, "EDMException")

NoReport == UNCHANGED <<vars, code>>

NeedsPreview(r) == r.preview \/ IfPreview

ReadData(h) ==
    /\ Call(h, "read_data")
    /\ Await(h, "request")
    /\ UNCHANGED <<vars, keys, evid, attrs, resent, code>>

(* load_model_from_redis: None for a key without a value, or with an empty *)
(* list; Corrupt stands for all it raises on, and for content that Parsing *)
(* raises on.                                                              *)
Loaded(value) == IF value = Absent THEN None ELSE value

(* get_edm_request_from_redis returns; Parsing reads the content.          *)
RequestRead(h) ==
    LET r == Loaded(requestKey[HandlerMessage[h]]) IN
    /\ at[h] = "request"
    /\ \/ r \in Requests /\ Set(request, h, r) /\ Await(h, "person") /\ NoReport
       \/ r = None /\ Reject(h, "0004") /\ UNCHANGED request
       \/ r = Corrupt /\ End(h, "raised") /\ NoReport /\ UNCHANGED request
    /\ UNCHANGED <<keys, evid, calls, person, ctype, evidence, resent>>

PersonRead(h) ==
    LET p == Loaded(personKey[HandlerMessage[h]]) IN
    /\ at[h] = "person"
    /\ \/ p \in People /\ Set(person, h, p) /\ Await(h, "as4") /\ NoReport
       \/ p = None /\ Set(person, h, None) /\ Reject(h, "0004")
       \/ p = Corrupt /\ End(h, "raised") /\ NoReport /\ UNCHANGED person
    /\ UNCHANGED <<keys, evid, calls, request, ctype, evidence, resent>>

As4Read(h) ==
    /\ at[h] = "as4"
    /\ End(h, "read_data")
    /\ UNCHANGED <<vars, keys, evid, calls, attrs, resent, code>>

(* transform_data needs self.data, which the application sets.             *)
TransformData(h) ==
    /\ Call(h, "transform_data")
    /\ Await(h, "generate") \/ (~Ordered /\ End(h, "raised"))
    /\ UNCHANGED <<vars, keys, evid, attrs, resent, code>>

(* request_content_type caches what it first finds in the request.         *)
ContentType(h) == IF ctype[h] # None THEN ctype[h] ELSE request[h].format

(* The loop over the documents of a request in format f; metadata and      *)
(* conversions may raise, the latter for want of a stylesheet.             *)
Package_GlobalFlag(h, f, n) ==
    /\ f \in Served
    /\ Set(evidence, h, [format |-> f, preview |-> IfPreview, docs |-> n])
    /\ End(h, "transform_data") /\ NoReport
Package_NoRaise(h, f, n) ==
    /\ Set(evidence, h,
           [format |-> f, preview |-> NeedsPreview(request[h]), docs |-> n])
    /\ End(h, "transform_data")
    /\ IF n > 0 /\ f \notin Served
       THEN \E e \in Errors : Construct({e}) /\ Set(code, e, "0006")
       ELSE NoReport
Package(h, f, n) ==
    \/ /\ n > 0 /\ End(h, "raised") /\ NoReport /\ UNCHANGED evidence
    \/ /\ n > 0 /\ person[h] # None /\ f \notin Served
       /\ Reject(h, "0006") /\ UNCHANGED evidence
    \/ /\ n > 0 /\ person[h] # None /\ f = "pdf" /\ ~PdfDefaults
       /\ End(h, "TypeError") /\ NoReport /\ UNCHANGED evidence
    \/ /\ n > 0 => person[h] # None /\ f \in Served /\ (f = "pdf" => PdfDefaults)
       /\ Set(evidence, h,
              [format |-> f, preview |-> NeedsPreview(request[h]), docs |-> n])
       /\ End(h, "transform_data") /\ NoReport

(* generate_data returned n documents.                                     *)
Generated(h, n) ==
    /\ at[h] = "generate"
    /\ \/ /\ request[h] = None
          /\ End(h, "raised") /\ NoReport /\ UNCHANGED <<ctype, evidence>>
       \/ /\ request[h] # None /\ ContentType(h) = "none"
          /\ Reject(h, "0003") /\ UNCHANGED <<ctype, evidence>>
       \/ /\ request[h] # None /\ ContentType(h) # "none"
          /\ Set(ctype, h, ContentType(h))
          /\ Package(h, ContentType(h), n)
    /\ UNCHANGED <<keys, evid, calls, request, person, resent>>

(* generate_data raised: "except Exception" answers with _not_found.       *)
GenerateFails_Silent(h) ==
    /\ at[h] = "generate"
    /\ End(h, "EDMException")
    /\ UNCHANGED <<vars, keys, evid, calls, attrs, resent, code>>
GenerateFails(h) ==
    /\ at[h] = "generate"
    /\ Reject(h, "0004")
    /\ UNCHANGED <<keys, evid, calls, attrs, resent>>

(* ... raised the EDMException e1 that SOAPTransport.send_error_message    *)
(* built for the same message: e1 is already being published.              *)
ServiceFails(h) ==
    /\ at[h] = "generate"
    /\ \E e1, e2 \in {e \in Errors : MessageOf[e] = HandlerMessage[h]} :
          /\ e1 # e2
          /\ Construct({e1, e2})
          /\ code' = [code EXCEPT ![e1] = "0006", ![e2] = "0004"]
    /\ End(h, "EDMException")
    /\ UNCHANGED <<keys, evid, calls, attrs, resent>>

LoadDataToRedis(h) ==
    /\ Call(h, "load_data_to_redis")
    /\ \/ evidence[h] # None /\ Await(h, "save")
       \/ evidence[h] = None /\ End(h, "TypeError")
    /\ UNCHANGED <<vars, keys, evid, attrs, resent, code>>

StoreEvidence(h) == Set(evid, HandlerMessage[h], evidence[h])

(* The SET returned: if_preview is computed again.                         *)
EvidenceSaved_PushFirst(h) ==
    /\ at[h] = "save"
    /\ Await(h, "push")
    /\ UNCHANGED <<vars, evid, keys, calls, attrs, resent, code>>
EvidenceSaved_GlobalOnly(h) ==
    /\ at[h] = "save"
    /\ StoreEvidence(h)
    /\ IF IfPreview THEN End(h, "load_data_to_redis") ELSE Await(h, "push")
    /\ UNCHANGED <<vars, keys, calls, attrs, resent, code>>
EvidenceSaved(h) ==
    /\ at[h] = "save"
    /\ StoreEvidence(h)
    /\ IF NeedsPreview(request[h])
       THEN End(h, "load_data_to_redis") ELSE Await(h, "push")
    /\ UNCHANGED <<vars, keys, calls, attrs, resent, code>>

MessagePushed(h) ==
    /\ at[h] = "push"
    /\ queue' = Append(queue, HandlerMessage[h])
    /\ Await(h, "pushed")
    /\ UNCHANGED <<instanceVars, pc, exp, keys, evid, calls, attrs, resent, code>>

PushReturned(h) ==
    /\ at[h] = "pushed"
    /\ End(h, "load_data_to_redis")
    /\ UNCHANGED <<vars, keys, evid, calls, attrs, resent, code>>

PushResent_Unlimited(h) ==
    /\ at[h] = "pushed"
    /\ resent' = [resent EXCEPT ![h] = @ + 1]
    /\ Await(h, "push")
    /\ UNCHANGED <<vars, keys, evid, calls, attrs, code>>
PushResent(h) ==
    /\ at[h] = "pushed" /\ resent[h] < Retries
    /\ resent' = [resent EXCEPT ![h] = @ + 1]
    /\ Await(h, "push")
    /\ UNCHANGED <<vars, keys, evid, calls, attrs, code>>

(* The awaited command raises, or the handler's task is cancelled: nothing *)
(* catches it, and a SET may have been applied all the same.               *)
Interrupted(h) ==
    /\ at[h] # "ready"
    /\ End(h, "raised")
    /\ (at[h] = "save" /\ StoreEvidence(h)) \/ UNCHANGED evid
    /\ UNCHANGED <<vars, keys, calls, attrs, resent, code>>

(* The gateway writes a key, or a TTL removes one.                         *)
Gateway(m) ==
    /\ \/ \E r \in (Requests \cup {Absent, Corrupt}) \ {requestKey[m]} :
             Set(requestKey, m, r) /\ UNCHANGED <<personKey, evid>>
       \/ \E p \in (People \cup {Absent, Corrupt}) \ {personKey[m]} :
             Set(personKey, m, p) /\ UNCHANGED <<requestKey, evid>>
       \/ evid[m] \in Evidence /\ Set(evid, m, Expired) /\ UNCHANGED keys
    /\ UNCHANGED <<vars, at, last, calls, attrs, resent, code>>

-----------------------------------------------------------------------------
Begin(h) == ReadData(h) \/ TransformData(h) \/ LoadDataToRedis(h)

Continue(h) ==
    \/ RequestRead(h) \/ PersonRead(h) \/ As4Read(h)
    \/ \E n \in 0..MaxDocs : Generated(h, n)
    \/ GenerateFails(h) \/ ServiceFails(h)
    \/ EvidenceSaved(h) \/ MessagePushed(h) \/ PushReturned(h)

MakeEvidenceNext ==
    \/ \E h \in Handlers :
          Begin(h) \/ Continue(h) \/ PushResent(h) \/ Interrupted(h)
    \/ ReportStep /\ UNCHANGED <<keys, own>>
    \/ \E m \in Messages : Gateway(m)

MakeEvidenceSpec == MakeEvidenceInit /\ [][MakeEvidenceNext]_allVars

(* The application goes on as README.md shows; awaits end, as in EDMReport. *)
MakeEvidenceFairSpec ==
    /\ MakeEvidenceSpec
    /\ \A h \in Handlers : WF_allVars(Begin(h)) /\ WF_allVars(Continue(h))
    /\ \A e \in Errors :
          /\ WF_allVars(Enter(e, Initial) /\ UNCHANGED <<keys, own>>)
          /\ WF_allVars(ReportingDone(e) /\ UNCHANGED <<keys, own>>)
          /\ WF_allVars(Resume(e, Initial) /\ UNCHANGED <<keys, own>>)

-----------------------------------------------------------------------------
Answers == INSTANCE Outbox WITH
    stored    <- {m \in Messages : exp[m] # Absent \/ evid[m] # Absent},
    announced <- queue

(* A message_id reaches the outgoing queue only after an answer to it was  *)
(* stored, evidence or error, however handlers, their errors and their     *)
(* callers interleave.                                                     *)
AnswersImplementOutbox == Answers!Spec

(* Evidence that awaits the citizen's preview is not announced: the flag   *)
(* stored with the evidence and the flag load_data_to_redis computes after *)
(* the SET agree.                                                          *)
PreviewHeldBack ==
    \A h \in Handlers :
        at[h] \in {"push", "pushed"} => ~evidence[h].preview

(* A message whose handler is called once in order is answered once: by    *)
(* evidence or by an error, never by both.                                 *)
OneKindOfAnswer ==
    \A m \in Messages : exp[m] = Absent \/ evid[m] = Absent

(* Every handler that is called in order ends with its message announced,  *)
(* its evidence held for preview, or a failure the application can see: a  *)
(* raised exception other than EDMException, or a reporting_error.         *)
EveryMessageSettles ==
    \A h \in Handlers :
        calls[h] > 0 ~>
            \/ \E i \in DOMAIN queue : queue[i] = HandlerMessage[h]
            \/ last[h] = "load_data_to_redis" /\ evidence[h].preview
            \/ last[h] \in {"raised", "TypeError"}
            \/ \E e \in Errors : /\ MessageOf[e] = HandlerMessage[h]
                                 /\ error[e] # "None"

(* "Forms Evidences in the format of sdg:Format of the request": evidence  *)
(* has the format and the preview flag of the request its handler holds.   *)
EvidenceOfItsRequest ==
    \A h \in Handlers :
        evidence[h] # None =>
            /\ evidence[h].format = request[h].format
            /\ evidence[h].preview = NeedsPreview(request[h])

(* Code 0006 says the exchange with the data service failed: the reader of *)
(* the response finds it while the error of that exchange is published.    *)
ServiceFailureKeepsCode ==
    \A e \in Errors :
        code[e] = "0006" /\ reported[e] /\ exp[MessageOf[e]] \in Errors
            => code[exp[MessageOf[e]]] = "0006"

(* Code 0006 also answers a request in an unknown format: no evidence is   *)
(* stored for it.                                                          *)
UnknownFormatRejected ==
    \A m \in Messages : evid[m] \in Evidence => evid[m].format \in Served
=============================================================================
