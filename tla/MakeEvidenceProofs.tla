------------------------- MODULE MakeEvidenceProofs -------------------------
(***************************************************************************)
(* Proofs about MakeEvidence, for any handlers, messages, errors, requests *)
(* and bounds.  The invariant has a part for the publications of errors    *)
(* (Reporting), one for the handlers in whatever order they are called     *)
(* (Handling), and for applications that call them in order one that says  *)
(* how far a handler is (Course) and one that says whose answer a message  *)
(* has (Answered).                                                         *)
(***************************************************************************)
EXTENDS MakeEvidence, EDMReportProofs

-----------------------------------------------------------------------------
(* Publications: what EDMReport's invariant says apart from the queue,     *)
(* which handlers append to as well.                                       *)
SavedFirst ==
    \A e \in Errors, r \in Runs :
        pc[e][r] \in {"pushing", "acked"} => exp[MessageOf[e]] # Absent
Idle == \A e \in Errors : ctx[e] = "none" => \A r \in Runs : pc[e][r] = "idle"

Reporting == TypeOK /\ Counted /\ Idle /\ SavedFirst

LEMMA ConstructReporting ==
    ASSUME Reporting, NEW S \in SUBSET Errors, Construct(S)
    PROVE  Reporting'
<1> USE DEF Reporting, TypeOK, Construct
<1>1. TypeOK'
  BY DEF Runs, InFlight, Ended
<1>2. Counted'
  BY DEF Counted, Idle, Runs
<1>3. Idle'
  BY DEF Idle, Runs
<1>4. SavedFirst'
  BY DEF SavedFirst, Runs
<1> QED
  BY <1>1, <1>2, <1>3, <1>4

(* One run moves to s, and Counted still fits.                             *)
LEMMA MoveReporting ==
    ASSUME Reporting, NEW e \in Errors, NEW r \in Runs,
           NEW s \in {"saving"} \cup InFlight \cup Ended,
           Goto(e, r, s), ctx[e] # "none",
           s = "saving" => pushes[e][r] = 0,
           s = "pushing" => pushes[e][r] <= Retries /\ exp'[MessageOf[e]] # Absent,
           s = "acked" => pushes[e][r] > 0 /\ exp'[MessageOf[e]] # Absent,
           UNCHANGED <<ctx, pushes, tracked, queue>>,
           reported' \in [Errors -> BOOLEAN],
           error' \in [Errors -> {"None", "ReportingError", "CancelledError"}],
           exp' \in [Messages -> Errors \cup {Absent, Expired}],
           \A m \in Messages : exp[m] # Absent => exp'[m] # Absent
    PROVE  Reporting'
<1> USE GotoType DEF Reporting, InFlight
<1>1. TypeOK'
  BY DEF TypeOK
<1>2. Counted'
  BY DEF Counted, Ended
<1>3. Idle'
  BY DEF Idle
<1>4. SavedFirst'
  <2>1. ASSUME NEW d \in Errors, NEW q \in Runs, pc'[d][q] \in {"pushing", "acked"}
        PROVE  exp'[MessageOf[d]] # Absent
    <3>1. MessageOf[d] \in Messages
      BY EDMReportAssumption
    <3>2. CASE d = e /\ q = r
      BY <2>1, <3>2 DEF Ended
    <3>3. CASE d # e \/ q # r
      <4>1. pc'[d][q] = pc[d][q]
        BY <3>3 DEF Ended
      <4> QED
        BY <2>1, <3>1, <4>1 DEF SavedFirst
    <3> QED
      BY <3>2, <3>3
  <2> QED
    BY <2>1 DEF SavedFirst
<1> QED
  BY <1>1, <1>2, <1>3, <1>4

LEMMA ReportReporting ==
    ASSUME Reporting, ReportStep
    PROVE  Reporting' /\ UNCHANGED ctx
<1> USE EDMReportAssumption
<1>0. \A e \in Errors, r \in Runs : pc[e][r] # "idle" => ctx[e] # "none"
  BY DEF Reporting, Idle
<1>1. ASSUME NEW e \in Errors, NEW r \in Runs, Enter(e, r)
      PROVE  Reporting' /\ UNCHANGED ctx
  <2>1. ctx[e] # "none" /\ pushes[e][r] = 0
    BY <1>0, <1>1 DEF Enter, Constructed, Reporting, Counted
  <2> QED
    BY <1>1, <2>1, MoveReporting
       DEF Enter, AfterCheck, Reporting, TypeOK, instanceVars, InFlight, Ended
<1>2. ASSUME NEW e \in Errors, NEW r \in Runs, SaveReply(e, r)
      PROVE  Reporting' /\ UNCHANGED ctx
  <2>1. ctx[e] # "none" /\ pushes[e][r] = 0
    BY <1>0, <1>2 DEF SaveReply, Reporting, Counted
  <2>2. /\ exp' \in [Messages -> Errors \cup {Absent, Expired}]
        /\ exp'[MessageOf[e]] # Absent
        /\ \A m \in Messages : exp[m] # Absent => exp'[m] # Absent
    BY <1>2, StoreErrorKeeps DEF SaveReply, Reporting
  <2>3. CASE Goto(e, r, "pushing") /\ UNCHANGED error
    <3>1. /\ UNCHANGED <<ctx, pushes, tracked, queue, reported, error>>
          /\ reported \in [Errors -> BOOLEAN]
          /\ error \in [Errors -> {"None", "ReportingError", "CancelledError"}]
      BY <1>2, <2>3 DEF SaveReply, Reporting, TypeOK
    <3>2. pushes[e][r] <= Retries
      BY <2>1
    <3> QED
      BY <2>1, <2>2, <2>3, <3>1, <3>2, MoveReporting DEF InFlight
  <2>4. CASE Raise(e, r)
    BY <1>2, <2>1, <2>2, <2>4, MoveReporting
       DEF SaveReply, Raise, Reporting, TypeOK, Ended
  <2> QED
    BY <1>2, <2>3, <2>4 DEF SaveReply
<1>3. ASSUME NEW e \in Errors, NEW r \in Runs, SaveFails(e, r)
      PROVE  Reporting' /\ UNCHANGED ctx
  BY <1>0, <1>3, MoveReporting, StoreErrorKeeps
     DEF SaveFails, Raise, Reporting, TypeOK, InFlight, Ended
<1>4. ASSUME NEW e \in Errors, NEW r \in Runs, PushApplied(e, r)
      PROVE  Reporting' /\ UNCHANGED ctx
  <2> USE <1>4 DEF PushApplied, Reporting, TypeOK, Goto
  <2>1. pushes[e][r] + 1 \in 1..(Retries + 1)
    BY DEF Counted
  <2>2. TypeOK'
    <3>1. queue' \in Seq(Messages)
      BY MessageOf[e] \in Messages, queue \in Seq(Messages)
    <3> QED
      BY <2>1, <3>1 DEF InFlight
  <2>3. Counted'
    BY <2>1 DEF Counted
  <2>4. Idle' /\ SavedFirst'
    BY <1>0 DEF Idle, SavedFirst
  <2> QED
    BY <2>2, <2>3, <2>4
<1>5. ASSUME NEW e \in Errors, NEW r \in Runs, PushRetried(e, r)
      PROVE  Reporting' /\ UNCHANGED ctx
  BY <1>0, <1>5, MoveReporting
     DEF PushRetried, Reporting, TypeOK, SavedFirst, instanceVars, InFlight
<1>6. ASSUME NEW e \in Errors, NEW r \in Runs, PushReply(e, r)
      PROVE  Reporting' /\ UNCHANGED ctx
  BY <1>0, <1>6, MoveReporting DEF PushReply, Reporting, TypeOK, Ended
<1>7. ASSUME NEW e \in Errors, NEW r \in Runs, PushFails(e, r)
      PROVE  Reporting' /\ UNCHANGED ctx
  BY <1>0, <1>7, MoveReporting DEF PushFails, Raise, Reporting, TypeOK, Ended
<1>8. ASSUME NEW e \in Errors, NEW r \in Runs, Cancel(e, r)
      PROVE  Reporting' /\ UNCHANGED ctx
  BY <1>0, <1>8, MoveReporting, StoreErrorKeeps
     DEF Cancel, Reporting, TypeOK, instanceVars, InFlight, Ended
<1>9. ASSUME NEW e \in Errors, ReportingDone(e)
      PROVE  Reporting' /\ UNCHANGED ctx
  BY <1>9 DEF ReportingDone, CallbackError, Reporting, TypeOK, Counted, Idle, SavedFirst
<1>10. ASSUME NEW m \in Messages, Expire(m)
       PROVE  Reporting' /\ UNCHANGED ctx
  BY <1>10 DEF Expire, instanceVars, Reporting, TypeOK, Counted, Idle, SavedFirst
<1> QED
  BY <1>1, <1>2, <1>3, <1>4, <1>5, <1>6, <1>7, <1>8, <1>9, <1>10
     DEF ReportStep, Resume

(* What a publication does to the answers: a SET, an LPUSH after a SET, or *)
(* nothing.                                                                *)
LEMMA ReportEffect ==
    ASSUME Reporting, ReportStep
    PROVE  \/ \E e \in Errors : ctx[e] # "none" /\ StoreError(e) /\ UNCHANGED queue
           \/ \E e \in Errors : /\ exp[MessageOf[e]] # Absent
                               /\ queue' = Append(queue, MessageOf[e])
                               /\ UNCHANGED exp
           \/ /\ \A m \in Messages : exp'[m] = Absent <=> exp[m] = Absent
              /\ UNCHANGED queue
<1>0. \A e \in Errors, r \in Runs : pc[e][r] # "idle" => ctx[e] # "none"
  BY DEF Reporting, Idle
<1>1. ASSUME NEW e \in Errors, NEW r \in Runs,
             SaveReply(e, r) \/ SaveFails(e, r) \/ Cancel(e, r)
      PROVE  \/ ctx[e] # "none" /\ StoreError(e) /\ UNCHANGED queue
             \/ UNCHANGED <<exp, queue>>
  BY <1>0, <1>1 DEF SaveReply, SaveFails, Cancel, InFlight
<1>2. ASSUME NEW e \in Errors, NEW r \in Runs, PushApplied(e, r)
      PROVE  /\ exp[MessageOf[e]] # Absent
             /\ queue' = Append(queue, MessageOf[e])
             /\ UNCHANGED exp
  BY <1>2 DEF PushApplied, Reporting, SavedFirst
<1>3. ASSUME NEW e \in Errors, NEW r \in Runs,
             Enter(e, r) \/ PushRetried(e, r) \/ PushReply(e, r) \/ PushFails(e, r)
      PROVE  UNCHANGED <<exp, queue>>
  BY <1>3 DEF Enter, PushRetried, PushReply, PushFails
<1>4. ASSUME NEW e \in Errors, ReportingDone(e)
      PROVE  UNCHANGED <<exp, queue>>
  BY <1>4 DEF ReportingDone
<1>5. ASSUME NEW m \in Messages, Expire(m)
      PROVE  /\ \A n \in Messages : exp'[n] = Absent <=> exp[n] = Absent
             /\ UNCHANGED queue
  BY <1>5, EDMReportAssumption DEF Expire, Reporting, TypeOK
<1> QED
  BY <1>1, <1>2, <1>3, <1>4, <1>5 DEF ReportStep, Resume

-----------------------------------------------------------------------------
(* Handlers, in whatever order their methods are called.                   *)
HandlerTypes ==
    /\ requestKey \in [Messages -> Requests \cup {Absent, Corrupt}]
    /\ personKey \in [Messages -> People \cup {Absent, Corrupt}]
    /\ evid \in [Messages -> Evidence \cup {Absent, Expired}]
    /\ at \in [Handlers -> Awaiting \cup {"ready"}]
    /\ last \in [Handlers -> Outcomes \cup {None}]
    /\ calls \in [Handlers -> 0..MaxCalls]
    /\ request \in [Handlers -> Requests \cup {None}]
    /\ person \in [Handlers -> People \cup {None}]
    /\ ctype \in [Handlers -> Formats \cup {None}]
    /\ evidence \in [Handlers -> Evidence \cup {None}]
    /\ resent \in [Handlers -> 0..Retries]
    /\ code \in [Errors -> Codes \cup {None}]

Backed ==
    \A h \in Handlers :
        /\ at[h] = "save" => evidence[h] # None
        /\ at[h] \in {"push", "pushed"} => evid[HandlerMessage[h]] # Absent

Handling == HandlerTypes /\ Backed

(* A handler that rejects raises one new error of its message.             *)
LEMMA Rejects ==
    ASSUME Reporting, HandlerTypes, NEW h \in Handlers, NEW c \in Codes, Reject(h, c)
    PROVE  /\ Reporting' /\ UNCHANGED <<exp, queue>>
           /\ code' \in [Errors -> Codes \cup {None}]
           /\ End(h, "EDMException")
           /\ \A e \in Errors : ctx[e] # "none" => ctx'[e] # "none"
           /\ \A e \in Errors : ctx'[e] # "none" =>
                 ctx[e] # "none" \/ MessageOf[e] = HandlerMessage[h]
<1> PICK e \in Errors : /\ MessageOf[e] = HandlerMessage[h]
                        /\ Construct({e}) /\ Set(code, e, c)
                        /\ End(h, "EDMException")
  BY DEF Reject
<1>1. Reporting'
  BY ConstructReporting
<1>2. code' \in [Errors -> Codes \cup {None}]
  BY DEF Set, HandlerTypes
<1> QED
  BY <1>1, <1>2 DEF Construct

(* The steps of a handler: the parts that its actions leave alone or set,  *)
(* and what they do to the answers.                                        *)
Effect(h) ==
    \/ evidence[h] # None /\ StoreEvidence(h) /\ UNCHANGED <<exp, queue>>
    \/ /\ evid[HandlerMessage[h]] # Absent
       /\ queue' = Append(queue, HandlerMessage[h])
       /\ UNCHANGED <<exp, evid>>
    \/ UNCHANGED <<exp, evid, queue>>

LEMMA BeginHandling ==
    ASSUME Reporting, Handling, NEW h \in Handlers, Begin(h)
    PROVE  Reporting' /\ Handling' /\ Effect(h)
<1> USE MakeEvidenceAssumption
        DEF Handling, HandlerTypes, Backed, Call, Await, End, Awaiting, Outcomes,
            attrs, keys
<1>0. Begin(h) => UNCHANGED <<vars, evid>> /\ calls'[h] \in 0..MaxCalls
  BY DEF Begin, ReadData, TransformData, LoadDataToRedis
<1>1. Reporting' /\ Effect(h)
  BY <1>0 DEF vars, Reporting, TypeOK, Counted, Idle, SavedFirst, Effect
<1>2. CASE ReadData(h)
  BY <1>1, <1>2 DEF ReadData
<1>3. CASE TransformData(h)
  <2>1. HandlerTypes'
    BY <1>0, <1>3 DEF TransformData
  <2>2. Backed'
    BY <1>3 DEF TransformData
  <2> QED
    BY <1>1, <2>1, <2>2
<1>4. CASE LoadDataToRedis(h)
  <2>1. HandlerTypes'
    BY <1>0, <1>4 DEF LoadDataToRedis
  <2>2. Backed'
    BY <1>4 DEF LoadDataToRedis
  <2> QED
    BY ONLY <1>1, <2>1, <2>2 DEF Handling
<1> QED
  BY <1>2, <1>3, <1>4 DEF Begin

LEMMA Unreported ==
    ASSUME Reporting, UNCHANGED vars
    PROVE  Reporting'
BY DEF vars, Reporting, TypeOK, Counted, Idle, SavedFirst

LEMMA ReadHandling ==
    ASSUME Reporting, Handling, NEW h \in Handlers,
           RequestRead(h) \/ PersonRead(h) \/ As4Read(h)
    PROVE  Reporting' /\ Handling' /\ Effect(h)
<1> USE MakeEvidenceAssumption
        DEF Handling, HandlerTypes, Backed, Await, End, Set, Awaiting, Outcomes,
            attrs, keys
<1>1. ASSUME NEW c \in Codes, Reject(h, c), UNCHANGED <<evid, evidence>>,
             HandlerTypes'
      PROVE  Reporting' /\ Handling' /\ Effect(h)
  BY <1>1, Rejects DEF Effect
<1>2. ASSUME NoReport, UNCHANGED <<evid, evidence>>, HandlerTypes',
             \A g \in Handlers : at'[g] \in {"save", "push", "pushed"} => at'[g] = at[g]
      PROVE  Reporting' /\ Handling' /\ Effect(h)
  BY <1>2, Unreported DEF Effect, NoReport, vars
<1>3. ASSUME RequestRead(h) PROVE Reporting' /\ Handling' /\ Effect(h)
  <2> DEFINE r == Loaded(requestKey[HandlerMessage[h]])
  <2>1. CASE r \in Requests /\ Set(request, h, r) /\ Await(h, "person") /\ NoReport
    BY <1>2, <1>3, <2>1 DEF RequestRead, NoReport
  <2>2. CASE r = None /\ Reject(h, "0004") /\ UNCHANGED request
    <3>1. /\ Reporting' /\ UNCHANGED <<exp, queue>>
          /\ code' \in [Errors -> Codes \cup {None}] /\ End(h, "EDMException")
      BY ONLY Reporting, Handling, <2>2, Rejects DEF Codes, Handling
    <3>2. HandlerTypes' /\ UNCHANGED <<evid, evidence>>
      BY <1>3, <2>2, <3>1 DEF RequestRead
    <3> QED
      BY <1>1, <2>2, <3>2 DEF Codes
  <2>3. CASE End(h, "raised") /\ NoReport /\ UNCHANGED request
    BY <1>2, <1>3, <2>3 DEF RequestRead, NoReport
  <2> QED
    BY <1>3, <2>1, <2>2, <2>3 DEF RequestRead
<1>4. ASSUME PersonRead(h) PROVE Reporting' /\ Handling' /\ Effect(h)
  <2> DEFINE p == Loaded(personKey[HandlerMessage[h]])
  <2>1. CASE p \in People /\ Set(person, h, p) /\ Await(h, "as4") /\ NoReport
    BY <1>2, <1>4, <2>1 DEF PersonRead, NoReport
  <2>2. CASE p = None /\ Set(person, h, None) /\ Reject(h, "0004")
    <3>1. /\ Reporting' /\ UNCHANGED <<exp, queue>>
          /\ code' \in [Errors -> Codes \cup {None}] /\ End(h, "EDMException")
      BY ONLY Reporting, Handling, <2>2, Rejects DEF Codes, Handling
    <3>2. HandlerTypes' /\ UNCHANGED <<evid, evidence>>
      BY <1>4, <2>2, <3>1 DEF PersonRead
    <3> QED
      BY <1>1, <2>2, <3>2 DEF Codes
  <2>3. CASE End(h, "raised") /\ NoReport /\ UNCHANGED person
    BY <1>2, <1>4, <2>3 DEF PersonRead, NoReport
  <2> QED
    BY <1>4, <2>1, <2>2, <2>3 DEF PersonRead
<1>5. ASSUME As4Read(h) PROVE Reporting' /\ Handling' /\ Effect(h)
  BY <1>2, <1>5 DEF As4Read, NoReport
<1> QED
  BY <1>3, <1>4, <1>5

LEMMA GenerateHandling ==
    ASSUME Reporting, Handling, NEW h \in Handlers,
           (\E n \in 0..MaxDocs : Generated(h, n)) \/ GenerateFails(h) \/ ServiceFails(h)
    PROVE  Reporting' /\ Handling' /\ Effect(h)
<1> USE MakeEvidenceAssumption
        DEF Handling, HandlerTypes, Backed, End, Set, Awaiting, Outcomes, attrs, keys
<1>0. ASSUME UNCHANGED evid, HandlerTypes', UNCHANGED <<exp, queue>>,
             at' = [at EXCEPT ![h] = "ready"], Reporting',
             \A g \in Handlers : evidence'[g] # evidence[g] => g = h
      PROVE  Reporting' /\ Handling' /\ Effect(h)
  BY <1>0 DEF Effect
<1>1. ASSUME NEW n \in 0..MaxDocs, Generated(h, n)
      PROVE  Reporting' /\ Handling' /\ Effect(h)
  <2> USE DEF Generated
  <2>1. CASE request[h] = None /\ End(h, "raised") /\ NoReport
             /\ UNCHANGED <<ctype, evidence>>
    BY <1>0, <1>1, <2>1, Unreported DEF NoReport, vars
  <2>2. CASE Reject(h, "0003") /\ UNCHANGED <<ctype, evidence>>
    <3>1. /\ Reporting' /\ UNCHANGED <<exp, queue>>
          /\ code' \in [Errors -> Codes \cup {None}] /\ End(h, "EDMException")
      BY ONLY Reporting, Handling, <2>2, Rejects DEF Codes, Handling
    <3>2. HandlerTypes' /\ UNCHANGED <<evid, evidence>>
      BY <1>1, <2>2, <3>1
    <3> QED
      BY <1>0, <3>1, <3>2
  <2>3. CASE request[h] # None /\ ContentType(h) # "none"
             /\ Set(ctype, h, ContentType(h)) /\ Package(h, ContentType(h), n)
    <3> DEFINE f == ContentType(h)
    <3>1. f \in Formats /\ request[h] \in Requests
      BY <2>3 DEF ContentType
    <3>2. ctype' \in [Handlers -> Formats \cup {None}]
      BY <2>3, <3>1
    <3>3. CASE NoReport /\ UNCHANGED evidence
               /\ (End(h, "raised") \/ End(h, "TypeError"))
      BY <1>0, <1>1, <3>2, <3>3, Unreported DEF NoReport, vars
    <3>4. CASE Reject(h, "0006") /\ UNCHANGED evidence
      <4>1. /\ Reporting' /\ UNCHANGED <<exp, queue>>
            /\ code' \in [Errors -> Codes \cup {None}] /\ End(h, "EDMException")
        BY ONLY Reporting, Handling, <3>4, Rejects DEF Codes, Handling
      <4>2. HandlerTypes' /\ UNCHANGED <<evid, evidence>>
        BY <1>1, <3>2, <3>4, <4>1
      <4> QED
        BY <1>0, <4>1, <4>2
    <3>5. CASE /\ Set(evidence, h, [format |-> f,
                                   preview |-> NeedsPreview(request[h]), docs |-> n])
               /\ End(h, "transform_data") /\ NoReport
      <4>1. NeedsPreview(request[h]) \in BOOLEAN
        BY <3>1 DEF NeedsPreview
      <4>2. [format |-> f, preview |-> NeedsPreview(request[h]), docs |-> n] \in Evidence
        BY <1>1, <3>1, <4>1 DEF Evidence
      <4>3. /\ evidence' \in [Handlers -> Evidence \cup {None}]
            /\ \A g \in Handlers : evidence'[g] # evidence[g] => g = h
        BY <3>5, <4>2
      <4> QED
        BY <1>0, <1>1, <3>2, <3>5, <4>3, Unreported DEF NoReport, vars
    <3> QED
      BY <2>3, <3>3, <3>4, <3>5 DEF Package
  <2> QED
    BY <1>1, <2>1, <2>2, <2>3
<1>2. ASSUME GenerateFails(h) PROVE Reporting' /\ Handling' /\ Effect(h)
  <2>1. Reject(h, "0004") /\ UNCHANGED <<keys, evid, calls, attrs, resent>>
    BY ONLY <1>2 DEF GenerateFails
  <2>2. /\ Reporting' /\ UNCHANGED <<exp, queue>>
        /\ code' \in [Errors -> Codes \cup {None}] /\ End(h, "EDMException")
    BY ONLY Reporting, Handling, <2>1, Rejects DEF Codes, Handling
  <2>3. HandlerTypes' /\ UNCHANGED <<evid, evidence>>
    BY <2>1, <2>2
  <2> QED
    BY <1>0, <2>2, <2>3
<1>3. ASSUME ServiceFails(h) PROVE Reporting' /\ Handling' /\ Effect(h)
  <2>1. PICK d, e \in Errors :
            /\ Construct({d, e})
            /\ code' = [code EXCEPT ![d] = "0006", ![e] = "0004"]
    BY <1>3 DEF ServiceFails
  <2>2. Reporting' /\ UNCHANGED <<exp, queue>>
    <3>1. {d, e} \in SUBSET Errors
      OBVIOUS
    <3>2. Reporting'
      BY <2>1, <3>1, ConstructReporting
    <3> QED
      BY <2>1, <3>2 DEF Construct
  <2>3. code' \in [Errors -> Codes \cup {None}]
    BY <2>1 DEF Codes
  <2> QED
    BY <1>0, <1>3, <2>2, <2>3 DEF ServiceFails
<1> QED
  BY <1>1, <1>2, <1>3

LEMMA LoadHandling ==
    ASSUME Reporting, Handling, NEW h \in Handlers,
           \/ EvidenceSaved(h) \/ MessagePushed(h) \/ PushReturned(h)
           \/ PushResent(h) \/ Interrupted(h)
    PROVE  Reporting' /\ Handling' /\ Effect(h)
<1> USE MakeEvidenceAssumption
        DEF Handling, HandlerTypes, Backed, End, Await, Set, Awaiting, Outcomes,
            attrs, keys
<1>0. HandlerMessage[h] \in Messages /\ at[h] \in Awaiting \cup {"ready"}
  OBVIOUS
<1>1. ASSUME StoreEvidence(h), at[h] = "save"
      PROVE  /\ evid' \in [Messages -> Evidence \cup {Absent, Expired}]
             /\ evid'[HandlerMessage[h]] # Absent
             /\ \A m \in Messages : evid[m] # Absent => evid'[m] # Absent
             /\ evidence[h] # None
  BY <1>0, <1>1 DEF StoreEvidence
<1>2. CASE EvidenceSaved(h)
  <2>1. Reporting' /\ Effect(h)
    BY <1>1, <1>2, Unreported DEF EvidenceSaved, Effect, vars
  <2>2. HandlerTypes'
    BY <1>1, <1>2 DEF EvidenceSaved
  <2>3. Backed'
    BY <1>1, <1>2 DEF EvidenceSaved
  <2> QED
    BY <2>1, <2>2, <2>3
<1>3. CASE MessagePushed(h)
  <2>1. queue' \in Seq(Messages) /\ evid[HandlerMessage[h]] # Absent
    BY <1>0, <1>3 DEF MessagePushed, Reporting, TypeOK
  <2>2. Reporting'
    BY <1>3, <2>1 DEF MessagePushed, instanceVars, Reporting, TypeOK, Counted, Idle, SavedFirst
  <2> QED
    BY <1>3, <2>1, <2>2 DEF MessagePushed, Effect
<1>4. CASE PushReturned(h)
  BY <1>4, Unreported DEF PushReturned, Effect, vars
<1>5. CASE PushResent(h)
  <2>1. resent' \in [Handlers -> 0..Retries]
    BY <1>5, EDMReportAssumption DEF PushResent
  <2> QED
    BY <1>5, <2>1, Unreported DEF PushResent, Effect, vars
<1>6. CASE Interrupted(h)
  <2>1. Reporting' /\ Effect(h)
    BY <1>1, <1>6, Unreported DEF Interrupted, Effect, vars
  <2>2. CASE at[h] = "save" /\ StoreEvidence(h)
    BY <1>1, <1>6, <2>1, <2>2 DEF Interrupted
  <2>3. CASE UNCHANGED evid
    BY <1>6, <2>1, <2>3 DEF Interrupted
  <2> QED
    BY <1>6, <2>2, <2>3 DEF Interrupted
<1> QED
  BY <1>2, <1>3, <1>4, <1>5, <1>6

LEMMA GatewayHandling ==
    ASSUME Reporting, Handling, NEW m \in Messages, Gateway(m)
    PROVE  /\ Reporting' /\ Handling' /\ UNCHANGED <<exp, queue>>
           /\ \A n \in Messages : evid'[n] = Absent <=> evid[n] = Absent
<1> USE MakeEvidenceAssumption DEF Handling, HandlerTypes, Backed, Set, attrs, keys
<1>1. Reporting' /\ UNCHANGED <<exp, queue>>
  BY Unreported DEF Gateway, vars
<1>2. \A n \in Messages : evid'[n] = Absent <=> evid[n] = Absent
  BY EDMReportAssumption DEF Gateway
<1> QED
  BY <1>1, <1>2 DEF Gateway

Handler(h) == Begin(h) \/ Continue(h) \/ PushResent(h) \/ Interrupted(h)

LEMMA HandlerHandling ==
    ASSUME Reporting, Handling, NEW h \in Handlers, Handler(h)
    PROVE  Reporting' /\ Handling' /\ Effect(h)
BY BeginHandling, ReadHandling, GenerateHandling, LoadHandling DEF Handler, Continue

LEMMA NextHandling ==
    ASSUME Reporting, Handling, [MakeEvidenceNext]_allVars
    PROVE  Reporting' /\ Handling'
<1>1. CASE UNCHANGED allVars
  BY <1>1, Unreported DEF allVars, own, keys, attrs, Handling, HandlerTypes, Backed
<1>2. CASE \E h \in Handlers : Handler(h)
  BY <1>2, HandlerHandling
<1>3. CASE ReportStep /\ UNCHANGED <<keys, own>>
  BY <1>3, ReportReporting DEF own, keys, attrs, Handling, HandlerTypes, Backed
<1>4. CASE \E m \in Messages : Gateway(m)
  BY <1>4, GatewayHandling
<1> QED
  BY <1>1, <1>2, <1>3, <1>4 DEF MakeEvidenceNext, Handler

LEMMA InitHandling ==
    ASSUME MakeEvidenceInit
    PROVE  Reporting /\ Handling
<1>1. Reporting
  BY InitIInv DEF MakeEvidenceInit, IInv, Reporting, Tracked, Stored, Idle, SavedFirst
<1>2. Handling
  BY MakeEvidenceAssumption, EDMReportAssumption
     DEF MakeEvidenceInit, Handling, HandlerTypes, Backed, Awaiting
<1> QED
  BY <1>1, <1>2

(* Types, and what handlers and publications have stored before they       *)
(* announce it.                                                            *)
THEOREM HandledAlways == MakeEvidenceSpec => [](Reporting /\ Handling)
<1> QED
  BY InitHandling, NextHandling, PTL DEF MakeEvidenceSpec

(* Type correctness of MakeEvidence.                                       *)
THEOREM MakeEvidenceTypes == MakeEvidenceSpec => []MakeEvidenceTypeOK
<1>1. Reporting /\ Handling => MakeEvidenceTypeOK
  BY DEF Reporting, Handling, HandlerTypes, MakeEvidenceTypeOK
<1> QED
  BY <1>1, HandledAlways, PTL

-----------------------------------------------------------------------------
(* Refinement of Outbox.                                                   *)
AnsweredMessages == {m \in Messages : exp[m] # Absent \/ evid[m] # Absent}

LEMMA AnswersStep ==
    ASSUME Reporting, Handling, [MakeEvidenceNext]_allVars
    PROVE  [Answers!Next]_(Answers!vars)
<1> USE EDMReportAssumption, MakeEvidenceAssumption
<1>1. CASE UNCHANGED allVars
  BY <1>1 DEF allVars, vars, own, Answers!vars
<1>2. ASSUME NEW h \in Handlers, Handler(h) PROVE [Answers!Next]_(Answers!vars)
  <2>0. HandlerMessage[h] \in Messages /\ Effect(h)
    BY <1>2, HandlerHandling
  <2>1. CASE evidence[h] # None /\ StoreEvidence(h) /\ UNCHANGED <<exp, queue>>
    <3>1. evidence[h] # Absent
      BY <2>1 DEF Handling, HandlerTypes
    <3>2. Answers!Store(HandlerMessage[h])
      BY <2>0, <2>1, <3>1 DEF StoreEvidence, Set, Handling, HandlerTypes, Answers!Store
    <3> QED
      BY <2>0, <3>2 DEF Answers!Next
  <2>2. CASE /\ evid[HandlerMessage[h]] # Absent
             /\ queue' = Append(queue, HandlerMessage[h])
             /\ UNCHANGED <<exp, evid>>
    BY <2>0, <2>2 DEF Answers!Announce, Answers!Next
  <2>3. CASE UNCHANGED <<exp, evid, queue>>
    BY <2>3 DEF Answers!vars
  <2> QED
    BY <2>0, <2>1, <2>2, <2>3 DEF Effect
<1>3. CASE ReportStep /\ UNCHANGED <<keys, own>>
  <2>0. UNCHANGED evid
    BY <1>3 DEF own
  <2>1. ASSUME NEW e \in Errors, StoreError(e), UNCHANGED queue
        PROVE  Answers!Next
    <3>1. Answers!Store(MessageOf[e])
      BY <2>0, <2>1 DEF StoreError, Reporting, TypeOK, Answers!Store
    <3> QED
      BY <3>1 DEF Answers!Next
  <2>2. ASSUME NEW e \in Errors, exp[MessageOf[e]] # Absent,
               queue' = Append(queue, MessageOf[e]), UNCHANGED exp
        PROVE  Answers!Next
    BY <2>0, <2>2 DEF Answers!Announce, Answers!Next
  <2>3. CASE (\A m \in Messages : exp'[m] = Absent <=> exp[m] = Absent)
             /\ UNCHANGED queue
    BY <2>0, <2>3 DEF Answers!vars
  <2> QED
    BY <1>3, <2>1, <2>2, <2>3, ReportEffect
<1>4. CASE \E m \in Messages : Gateway(m)
  BY <1>4, GatewayHandling DEF Answers!vars
<1> QED
  BY <1>1, <1>2, <1>3, <1>4 DEF MakeEvidenceNext, Handler

(* In whatever order an application calls its handlers, however often and  *)
(* with however many of them, no message is announced before evidence or   *)
(* an error was stored for it.                                             *)
THEOREM AnsweredFirst == MakeEvidenceSpec => AnswersImplementOutbox
<1>1. MakeEvidenceInit => Answers!Init
  BY DEF MakeEvidenceInit, Init, Answers!Init
<1> QED
  BY <1>1, AnswersStep, HandledAlways, PTL
     DEF MakeEvidenceSpec, AnswersImplementOutbox, Answers!Spec

-----------------------------------------------------------------------------
(* Handlers called in order: what a handler awaits tells which method is   *)
(* running, and what it holds belongs to the one request it has read.      *)
Running ==
    \A h \in Handlers :
        /\ at[h] \in {"request", "person", "as4"} => last[h] = None
        /\ at[h] = "generate" => last[h] = "read_data"
        /\ at[h] \in {"save", "push", "pushed"} => last[h] = "transform_data"

Course ==
    \A h \in Handlers :
        /\ last[h] \in {None, "read_data"} => evidence[h] = None /\ ctype[h] = None
        /\ evidence[h] # None =>
              /\ request[h] # None
              /\ evidence[h].format = request[h].format
              /\ evidence[h].preview = NeedsPreview(request[h])
        /\ at[h] \in {"push", "pushed"} =>
              evidence[h] # None /\ ~NeedsPreview(request[h])

LEMMA BeginCourse ==
    ASSUME Ordered, Handling, Running, Course, NEW h \in Handlers, Begin(h)
    PROVE  Running' /\ Course' /\ last[h] # "EDMException"
<1> USE MakeEvidenceAssumption
        DEF Handling, HandlerTypes, Running, Course, Call, Await, End, Before,
            Awaiting, Outcomes, attrs, keys
<1>1. CASE ReadData(h)
  BY <1>1 DEF ReadData
<1>2. CASE TransformData(h)
  BY <1>2 DEF TransformData
<1>3. CASE LoadDataToRedis(h)
  BY <1>3 DEF LoadDataToRedis
<1> QED
  BY <1>1, <1>2, <1>3 DEF Begin

LEMMA ContinueCourse ==
    ASSUME Ordered, Reporting, Handling, Running, Course, NEW h \in Handlers,
           Continue(h) \/ PushResent(h) \/ Interrupted(h)
    PROVE  Running' /\ Course' /\ last[h] # "EDMException"
<1> USE MakeEvidenceAssumption
        DEF Handling, HandlerTypes, Running, Course, Await, End, Set, attrs, keys
<1>0. at[h] \in Awaiting /\ last[h] # "EDMException"
  BY DEF Continue, RequestRead, PersonRead, As4Read, Generated, GenerateFails,
         ServiceFails, EvidenceSaved, MessagePushed, PushReturned, PushResent,
         Interrupted, Awaiting, Outcomes
<1> HIDE DEF End
<1>1. ASSUME NEW o \in Outcomes \ {"read_data"}, End(h, o),
             UNCHANGED <<request, ctype, evidence>>
      PROVE  Running' /\ Course'
  BY <1>1 DEF End, Awaiting, Outcomes
<1>2. ASSUME NEW c \in Codes, Reject(h, c), UNCHANGED <<request, ctype, evidence>>
      PROVE  Running' /\ Course'
  BY <1>1, <1>2, Rejects DEF Outcomes
<1>3. CASE RequestRead(h) \/ PersonRead(h) \/ As4Read(h)
  <2>1. at[h] \in {"request", "person", "as4"} /\ last[h] = None
        /\ UNCHANGED <<ctype, evidence>>
    BY <1>3 DEF RequestRead, PersonRead, As4Read
  <2>2. (UNCHANGED last /\ \E w \in {"person", "as4"} : at' = [at EXCEPT ![h] = w])
        \/ \E o \in Outcomes \ {"transform_data"} : End(h, o)
    BY <1>3, Rejects DEF RequestRead, PersonRead, As4Read, Outcomes, Codes
  <2>3. \A g \in Handlers : g # h => request'[g] = request[g]
    BY <1>3 DEF RequestRead, PersonRead, As4Read
  <2> QED
    BY <2>1, <2>2, <2>3 DEF End, Outcomes, Awaiting
<1>4. CASE GenerateFails(h) \/ ServiceFails(h)
  BY <1>1, <1>2, <1>4 DEF GenerateFails, ServiceFails, Codes, Outcomes
<1>5. ASSUME NEW n \in 0..MaxDocs, Generated(h, n)
      PROVE  Running' /\ Course'
  <2>0. at[h] = "generate" /\ last[h] = "read_data" /\ ctype[h] = None /\ UNCHANGED request
    BY <1>5 DEF Generated
  <2>1. CASE /\ UNCHANGED <<ctype, evidence>>
             /\ End(h, "raised") \/ Reject(h, "0003")
    BY <1>1, <1>2, <2>0, <2>1 DEF Codes, Outcomes
  <2>2. CASE request[h] # None /\ Set(ctype, h, ContentType(h))
             /\ Package(h, ContentType(h), n)
    <3>1. ContentType(h) = request[h].format
      BY <2>0 DEF ContentType
    <3>2. CASE /\ Set(evidence, h, [format |-> ContentType(h),
                                   preview |-> NeedsPreview(request[h]), docs |-> n])
               /\ End(h, "transform_data")
      BY <2>0, <2>2, <3>1, <3>2 DEF End, Outcomes, Awaiting
    <3>3. ASSUME UNCHANGED evidence, NEW o \in Outcomes \ {"read_data"}, End(h, o)
          PROVE  Running' /\ Course'
      BY <2>0, <2>2, <3>3 DEF End, Outcomes, Awaiting
    <3> QED
      BY <2>2, <3>2, <3>3, Rejects DEF Package, Codes, Outcomes
  <2> QED
    BY <1>5, <2>1, <2>2 DEF Generated
<1>6. CASE EvidenceSaved(h)
  <2>1. CASE NeedsPreview(request[h])
    <3>1. UNCHANGED <<request, ctype, evidence>> /\ End(h, "load_data_to_redis")
      BY <1>6, <2>1 DEF EvidenceSaved
    <3> QED
      BY <1>0, <3>1 DEF End, Awaiting, Outcomes
  <2>2. CASE ~NeedsPreview(request[h])
    <3>1. /\ at[h] = "save" /\ Await(h, "push")
          /\ UNCHANGED <<request, ctype, evidence>>
      BY <1>6, <2>2 DEF EvidenceSaved
    <3>2. evidence[h] # None /\ last[h] = "transform_data"
      BY <3>1 DEF Backed
    <3> QED
      BY <2>2, <3>1, <3>2 DEF Awaiting
  <2> QED
    BY <2>1, <2>2
<1>7. CASE MessagePushed(h) \/ PushResent(h)
  BY <1>7 DEF MessagePushed, PushResent
<1>8. CASE PushReturned(h)
  BY <1>1, <1>8 DEF PushReturned, Outcomes
<1>9. CASE Interrupted(h)
  <2>1. UNCHANGED <<request, ctype, evidence>> /\ End(h, "raised")
    BY <1>9 DEF Interrupted
  <2> QED
    BY <1>0, <2>1 DEF End, Awaiting, Outcomes
<1> QED
  BY <1>0, <1>3, <1>4, <1>5, <1>6, <1>7, <1>8, <1>9 DEF Continue

LEMMA NextCourse ==
    ASSUME Ordered, Reporting, Handling, Running, Course,
           [MakeEvidenceNext]_allVars
    PROVE  Running' /\ Course'
<1>1. CASE UNCHANGED <<own>>
  BY <1>1 DEF own, attrs, Running, Course
<1>2. CASE \E h \in Handlers : Handler(h)
  BY <1>2, BeginCourse, ContinueCourse DEF Handler
<1>3. CASE \E m \in Messages : Gateway(m)
  BY <1>3 DEF Gateway, attrs, Running, Course
<1> QED
  BY <1>1, <1>2, <1>3 DEF MakeEvidenceNext, Handler, allVars

LEMMA InitCourse ==
    ASSUME MakeEvidenceInit
    PROVE  Running /\ Course
BY MakeEvidenceAssumption DEF MakeEvidenceInit, Running, Course

THEOREM CourseAlways ==
    ASSUME Ordered
    PROVE  MakeEvidenceSpec => [](Running /\ Course)
<1>1. Reporting /\ Handling /\ Running /\ Course /\ [MakeEvidenceNext]_allVars
        => (Running /\ Course)'
  BY NextCourse
<1> QED
  BY <1>1, InitCourse, HandledAlways, PTL DEF MakeEvidenceSpec

(* Evidence has the format and the preview flag of the request its handler *)
(* read, whatever the gateway writes meanwhile.                            *)
THEOREM EvidenceMatchesAlways ==
    ASSUME Ordered
    PROVE  MakeEvidenceSpec => []EvidenceOfItsRequest
<1>1. Course => EvidenceOfItsRequest
  BY DEF Course, EvidenceOfItsRequest
<1> QED
  BY <1>1, CourseAlways, PTL

(* Evidence that awaits the citizen's preview is never announced.          *)
THEOREM PreviewHeldAlways ==
    ASSUME Ordered
    PROVE  MakeEvidenceSpec => []PreviewHeldBack
<1>1. Course => PreviewHeldBack
  BY DEF Course, PreviewHeldBack
<1> QED
  BY <1>1, CourseAlways, PTL

-----------------------------------------------------------------------------
(* Handlers called in order, each with a message of its own: whose answer  *)
(* a message has.  Sent is how far a handler that stored evidence is.      *)
Sent(h) == at[h] \in {"push", "pushed"} \/ last[h] \in {"load_data_to_redis", "raised"}

Answered ==
    /\ \A m \in Messages : exp[m] # Absent =>
          \E e \in Errors : MessageOf[e] = m /\ ctx[e] # "none"
    /\ \A e \in Errors : ctx[e] # "none" =>
          \E h \in Handlers : /\ HandlerMessage[h] = MessageOf[e]
                              /\ last[h] = "EDMException"
    /\ \A m \in Messages : evid[m] # Absent =>
          \E h \in Handlers : HandlerMessage[h] = m /\ Sent(h)

(* What a handler's step adds to the errors and to the evidence, and that  *)
(* how it has ended stays.                                                 *)
Owns(h) ==
    /\ UNCHANGED exp
    /\ \A e \in Errors : ctx[e] # "none" => ctx'[e] # "none"
    /\ \A e \in Errors : ctx'[e] # "none" =>
          \/ ctx[e] # "none"
          \/ MessageOf[e] = HandlerMessage[h] /\ last'[h] = "EDMException"
    /\ \A m \in Messages : evid'[m] # Absent =>
          evid[m] # Absent \/ (m = HandlerMessage[h] /\ Sent(h)')
    /\ Sent(h) => Sent(h)'
    /\ \A g \in Handlers \ {h} : at'[g] = at[g] /\ last'[g] = last[g]

LEMMA BeginOwns ==
    ASSUME Ordered, Reporting, Handling, Running, NEW h \in Handlers, Begin(h)
    PROVE  Owns(h)
<1> USE MakeEvidenceAssumption
        DEF Handling, HandlerTypes, Owns, Sent, Call, Await, End, Before, Outcomes
<1>1. CASE ReadData(h)
  BY <1>1 DEF ReadData, vars, instanceVars
<1>2. CASE TransformData(h)
  BY <1>2 DEF TransformData, vars, instanceVars
<1>3. CASE LoadDataToRedis(h)
  BY <1>3 DEF LoadDataToRedis, vars, instanceVars
<1> QED
  BY <1>1, <1>2, <1>3 DEF Begin

LEMMA ContinueOwns ==
    ASSUME Reporting, Handling, Running, NEW h \in Handlers,
           Continue(h) \/ PushResent(h) \/ Interrupted(h)
    PROVE  Owns(h)
<1> USE MakeEvidenceAssumption DEF Handling, HandlerTypes, Running, Set, attrs, keys
<1>1. ASSUME NEW c \in Codes, Reject(h, c), UNCHANGED evid, ~Sent(h)
      PROVE  Owns(h)
  BY <1>1, Rejects DEF Owns, End
<1>2. ASSUME UNCHANGED <<exp, ctx, evid>>, Sent(h) => Sent(h)',
             \A g \in Handlers \ {h} : at'[g] = at[g] /\ last'[g] = last[g]
      PROVE  Owns(h)
  BY <1>2 DEF Owns
<1>3. at[h] \in {"request", "person", "as4", "generate", "save"} => ~Sent(h)
  BY DEF Sent, Outcomes
<1> USE DEF NoReport, vars, instanceVars
<1>4. CASE RequestRead(h) \/ PersonRead(h) \/ As4Read(h)
  BY <1>1, <1>2, <1>3, <1>4
     DEF RequestRead, PersonRead, As4Read, Codes, Await, End
<1>5. ASSUME NEW n \in 0..MaxDocs, Generated(h, n) PROVE Owns(h)
  BY <1>1, <1>2, <1>3, <1>5 DEF Generated, Package, Codes, End
<1>6. CASE GenerateFails(h)
  BY <1>1, <1>3, <1>6 DEF GenerateFails, Codes
<1>7. CASE ServiceFails(h)
  <2>1. PICK d, e \in {e \in Errors : MessageOf[e] = HandlerMessage[h]} : Construct({d, e})
    BY <1>7 DEF ServiceFails
  <2> QED
    BY <1>3, <1>7, <2>1 DEF ServiceFails, Construct, Owns, End
<1>8. CASE EvidenceSaved(h) \/ Interrupted(h)
  <2>1. Sent(h)' /\ (UNCHANGED evid \/ StoreEvidence(h))
        /\ \A g \in Handlers \ {h} : at'[g] = at[g] /\ last'[g] = last[g]
    BY <1>8 DEF EvidenceSaved, Interrupted, Sent, Await, End
  <2> QED
    BY <1>8, <2>1 DEF EvidenceSaved, Interrupted, StoreEvidence, Owns
<1>9. CASE MessagePushed(h) \/ PushReturned(h) \/ PushResent(h)
  BY <1>2, <1>9 DEF MessagePushed, PushReturned, PushResent, Sent, Await, End
<1> QED
  BY <1>4, <1>5, <1>6, <1>7, <1>8, <1>9 DEF Continue

LEMMA NextAnswered ==
    ASSUME Ordered, Reporting, Handling, Running, Course, Answered,
           [MakeEvidenceNext]_allVars
    PROVE  Answered'
<1> USE DEF Answered
<1>1. CASE UNCHANGED allVars
  BY <1>1 DEF allVars, vars, instanceVars, own, Sent
<1>2. ASSUME NEW h \in Handlers, Handler(h) PROVE Answered'
  <2>1. Owns(h) /\ last[h] # "EDMException" /\ HandlerMessage[h] \in Messages
    BY <1>2, BeginOwns, ContinueOwns, BeginCourse, ContinueCourse, MakeEvidenceAssumption
       DEF Handler
  <2>2. \A g \in Handlers : Sent(g) => Sent(g)'
    BY <2>1 DEF Owns, Sent
  <2>3. \A g \in Handlers : last[g] = "EDMException" => last'[g] = "EDMException"
    BY <2>1 DEF Owns
  <2>4. \A e \in Errors : ctx[e] # "none" => ctx'[e] # "none"
    BY <2>1 DEF Owns
  <2> QED
    BY <2>1, <2>2, <2>3, <2>4 DEF Owns
<1>3. CASE ReportStep /\ UNCHANGED <<keys, own>>
  <2>1. UNCHANGED ctx /\ Reporting'
    BY <1>3, ReportReporting
  <2>2. \A m \in Messages : exp'[m] # Absent =>
            \E e \in Errors : MessageOf[e] = m /\ ctx[e] # "none"
    BY <1>3, ReportEffect DEF StoreError, Reporting, TypeOK
  <2> QED
    BY <1>3, <2>1, <2>2 DEF own, Sent
<1>4. CASE \E m \in Messages : Gateway(m)
  <2>1. UNCHANGED <<vars, at, last>>
    BY <1>4 DEF Gateway
  <2>2. \A n \in Messages : evid'[n] = Absent <=> evid[n] = Absent
    BY <1>4, GatewayHandling
  <2> QED
    BY <2>1, <2>2 DEF vars, instanceVars, Sent
<1> QED
  BY <1>1, <1>2, <1>3, <1>4 DEF MakeEvidenceNext, Handler

(* A message whose handler is called once, in order, is answered by        *)
(* evidence or by an error and never by both, however the publications of  *)
(* the errors, resent commands and cancelled tasks interleave.             *)
THEOREM AnsweredOnce ==
    ASSUME Ordered,
           \A g, h \in Handlers : HandlerMessage[g] = HandlerMessage[h] => g = h
    PROVE  MakeEvidenceSpec => []OneKindOfAnswer
<1>1. MakeEvidenceInit => Answered
  BY DEF MakeEvidenceInit, Init, Answered
<1>2. Reporting /\ Handling /\ Running /\ Course /\ Answered /\ [MakeEvidenceNext]_allVars
        => Answered'
  BY NextAnswered
<1>3. Running /\ Answered => OneKindOfAnswer
  <2> SUFFICES ASSUME Running, Answered, NEW m \in Messages,
                      exp[m] # Absent, evid[m] # Absent
               PROVE  FALSE
    BY DEF OneKindOfAnswer
  <2>1. PICK g \in Handlers : HandlerMessage[g] = m /\ last[g] = "EDMException"
    BY DEF Answered
  <2>2. PICK h \in Handlers : HandlerMessage[h] = m /\ Sent(h)
    BY DEF Answered
  <2>3. g = h
    BY <2>1, <2>2
  <2> QED
    BY <2>1, <2>2, <2>3 DEF Running, Sent
<1> QED
  BY <1>1, <1>2, <1>3, CourseAlways, HandledAlways, PTL DEF MakeEvidenceSpec
=============================================================================
