-------------------------- MODULE EDMReportProofs --------------------------
(***************************************************************************)
(* Proofs about EDMReport, for any messages, instances, explicit calls and *)
(* number of retries.  The inductive invariant is IInv: its parts beyond   *)
(* the checked properties say how far a run is and what that implies.      *)
(***************************************************************************)
EXTENDS EDMReport, TLAPS

(* What makes the invariants inductive.  Stored: a run that is past its    *)
(* SET has a stored error behind it.  Counted: how far a run is tells how  *)
(* often its LPUSH may have been applied.  Returned: only the reported     *)
(* flag, set after an applied LPUSH, lets a run return.  Tracked: an       *)
(* instance stays in _reporting_tasks from its construction until its task *)
(* has ended.                                                              *)
Stored ==
    /\ AnnouncedHasRecord
    /\ \A e \in Errors, r \in Runs :
          pc[e][r] \in {"pushing", "acked"} => exp[MessageOf[e]] # Absent

Counted ==
    \A e \in Errors, r \in Runs :
        /\ pc[e][r] \in {"idle", "ready", "saving"} => pushes[e][r] = 0
        /\ pc[e][r] = "pushing" => pushes[e][r] <= Retries
        /\ pc[e][r] = "acked" => pushes[e][r] > 0

Returned ==
    \A e \in Errors :
        /\ reported[e] => \E s \in Runs : pushes[e][s] > 0
        /\ \A r \in Runs : pc[e][r] = "ok" => reported[e]

Tracked ==
    \A e \in Errors :
        /\ ctx[e] = "none" => \A r \in Runs : pc[e][r] = "idle"
        /\ ctx[e] = "async" /\ pc[e][Initial] \notin Ended => e \in tracked
        /\ ctx[e] = "sync" => pc[e][Initial] \notin {"ready", "cancelled"}
        /\ e \in tracked => ctx[e] = "async"

IInv == TypeOK /\ Stored /\ Counted /\ Returned /\ Tracked /\ SettledIsVisible

(* One run moves: the nested function of program counters.                 *)
LEMMA GotoType ==
    ASSUME TypeOK, NEW e \in Errors, NEW r \in Runs,
           NEW s \in {"idle", "ready"} \cup InFlight \cup Ended,
           Goto(e, r, s)
    PROVE  /\ pc' \in [Errors -> [Runs -> {"idle", "ready"} \cup InFlight \cup Ended]]
           /\ pc'[e][r] = s
           /\ \A d \in Errors, q \in Runs :
                 d # e \/ q # r => pc'[d][q] = pc[d][q]
BY DEF TypeOK, Goto

(* A SET leaves no key without a value.                                    *)
LEMMA StoreErrorKeeps ==
    ASSUME TypeOK, NEW e \in Errors, StoreError(e)
    PROVE  /\ exp' \in [Messages -> Errors \cup {Absent, Expired}]
           /\ exp'[MessageOf[e]] # Absent
           /\ \A m \in Messages : exp[m] # Absent => exp'[m] # Absent
BY EDMReportAssumption DEF TypeOK, StoreError

LEMMA StoredKept ==
    ASSUME TypeOK, Stored, queue' = queue,
           \A m \in Messages : exp[m] # Absent => exp'[m] # Absent,
           \A e \in Errors, r \in Runs :
              pc'[e][r] \in {"pushing", "acked"} =>
                 pc[e][r] \in {"pushing", "acked"} \/ exp'[MessageOf[e]] # Absent
    PROVE  Stored'
<1>1. \A i \in DOMAIN queue : queue[i] \in Messages
  BY DEF TypeOK
<1>2. \A e \in Errors : MessageOf[e] \in Messages
  BY EDMReportAssumption
<1> QED
  BY <1>1, <1>2 DEF Stored, AnnouncedHasRecord

(* A run that raises while no loop watches it leaves its trace itself.     *)
LEMMA RaiseVisible ==
    ASSUME TypeOK, Tracked, SettledIsVisible,
           NEW e \in Errors, NEW r \in Runs, pc[e][r] \in InFlight,
           Raise(e, r), UNCHANGED <<ctx, reported, tracked>>
    PROVE  SettledIsVisible'
BY DEF TypeOK, Tracked, SettledIsVisible, Raise, Goto, InFlight, Ended, Runs

(* A run that goes on, or ends otherwise than by cancellation, leaves its  *)
(* task tracked.                                                           *)
LEMMA TrackedKept ==
    ASSUME TypeOK, Tracked, NEW e \in Errors, NEW r \in Runs, pc[e][r] \in InFlight,
           NEW s \in InFlight \cup {"ok", "failed"}, Goto(e, r, s),
           UNCHANGED <<ctx, tracked>>
    PROVE  Tracked'
<1>0. Initial \in Runs /\ ctx[e] # "none"
  BY DEF Tracked, InFlight, Runs
<1>1. /\ pc'[e][r] = s
      /\ \A d \in Errors, q \in Runs : d # e \/ q # r => pc'[d][q] = pc[d][q]
  BY GotoType DEF Ended
<1>2. s \notin {"ready", "cancelled"} /\ pc[e][r] \notin Ended
  BY DEF InFlight, Ended
<1>3. ASSUME NEW d \in Errors, d # e
      PROVE  \A q \in Runs : pc'[d][q] = pc[d][q]
  BY <1>1, <1>3
<1>4. ctx[e] = "sync" => pc'[e][Initial] \notin {"ready", "cancelled"}
  BY <1>0, <1>1, <1>2 DEF Tracked
<1>5. ctx[e] = "async" /\ pc'[e][Initial] \notin Ended => e \in tracked
  <2>1. CASE r = Initial
    BY <1>2, <2>1 DEF Tracked
  <2>2. CASE r # Initial
    BY <1>0, <1>1, <2>2 DEF Tracked
  <2> QED
    BY <2>1, <2>2
<1>6. \A d \in Errors :
         /\ ctx[d] = "none" => \A q \in Runs : pc'[d][q] = "idle"
         /\ ctx[d] = "async" /\ pc'[d][Initial] \notin Ended => d \in tracked
         /\ ctx[d] = "sync" => pc'[d][Initial] \notin {"ready", "cancelled"}
         /\ d \in tracked => ctx[d] = "async"
  BY <1>0, <1>3, <1>4, <1>5 DEF Tracked
<1> QED
  BY <1>6 DEF Tracked

LEMMA InitIInv == ASSUME Init PROVE IInv
<1>1. TypeOK
  BY EDMReportAssumption DEF Init, TypeOK
<1>2. Stored
  BY DEF Init, Stored, AnnouncedHasRecord
<1>3. Counted /\ Returned /\ Tracked /\ SettledIsVisible
  BY DEF Init, Counted, Returned, Tracked, SettledIsVisible, Ended, Initial, Runs
<1> QED
  BY <1>1, <1>2, <1>3 DEF IInv

LEMMA ConstructIInv ==
    ASSUME IInv, NEW S \in SUBSET Errors, Construct(S)
    PROVE  IInv'
<1> USE DEF IInv
<1>1. TypeOK'
  BY DEF TypeOK, Construct, Runs, InFlight, Ended
<1>2. Stored'
  BY DEF TypeOK, Construct, Stored, AnnouncedHasRecord, Runs
<1>3. Counted'
  BY DEF TypeOK, Construct, Counted, Tracked, Runs
<1>4. Returned'
  BY DEF TypeOK, Construct, Returned, Runs
<1>5. Tracked'
  BY DEF TypeOK, Construct, Tracked, Runs, Ended
<1>6. SettledIsVisible'
  BY DEF TypeOK, Construct, SettledIsVisible, Runs, Ended
<1> QED
  BY <1>1, <1>2, <1>3, <1>4, <1>5, <1>6
LEMMA ConstructSyncIInv ==
    ASSUME IInv, NEW e \in Errors, ConstructSync(e)
    PROVE  IInv'
<1> USE EDMReportAssumption DEF IInv, TypeOK, ConstructSync, Goto
<1>1. TypeOK'
  BY DEF Counted, Runs, InFlight, Ended
<1>2. Stored'
  BY DEF Stored, AnnouncedHasRecord
<1>3. Counted'
  BY DEF Counted, Tracked
<1>4. Returned'
  BY DEF Returned, Counted
<1>5. Tracked'
  BY DEF Tracked, Ended, InFlight, Runs
<1>6. SettledIsVisible'
  BY DEF SettledIsVisible, Tracked, Returned, Ended, InFlight, Runs
<1> QED
  BY <1>1, <1>2, <1>3, <1>4, <1>5, <1>6

LEMMA EnterIInv ==
    ASSUME IInv, NEW e \in Errors, NEW r \in Runs, Enter(e, r)
    PROVE  IInv'
<1> USE EDMReportAssumption DEF IInv, TypeOK, Enter, Goto, AfterCheck, Constructed, instanceVars
<1>1. TypeOK'
  BY DEF Counted, Runs, InFlight, Ended
<1>2. Stored'
  BY DEF Stored, AnnouncedHasRecord
<1>3. Counted'
  BY DEF Counted
<1>4. Returned'
  BY DEF Returned, Counted
<1>5. Tracked'
  BY DEF Tracked, Ended, InFlight, Runs
<1>6. SettledIsVisible'
  BY DEF SettledIsVisible, Tracked, Returned, Ended, InFlight, Runs
<1> QED
  BY <1>1, <1>2, <1>3, <1>4, <1>5, <1>6

LEMMA SaveReplyIInv ==
    ASSUME IInv, NEW e \in Errors, NEW r \in Runs, SaveReply(e, r)
    PROVE  IInv'
<1> USE DEF IInv
<1>0. MessageOf[e] \in Messages /\ pc[e][r] = "saving" /\ StoreError(e)
  BY EDMReportAssumption DEF SaveReply
<1>a. CASE e \notin Queueless /\ Goto(e, r, "pushing") /\ UNCHANGED error
  <2> USE <1>0, <1>a, StoreErrorKeeps, GotoType DEF SaveReply, InFlight
  <2>1. TypeOK'
    BY DEF TypeOK
  <2>2. Stored'
    BY StoredKept
  <2>3. Counted'
    BY EDMReportAssumption DEF Counted
  <2>4. Returned'
    BY DEF Returned
  <2>5. Tracked'
    BY ONLY IInv, <1>0, <1>a, SaveReply(e, r), TrackedKept DEF IInv, SaveReply, InFlight
  <2>6. SettledIsVisible'
    BY DEF SettledIsVisible, Ended, Runs
  <2> QED
    BY <2>1, <2>2, <2>3, <2>4, <2>5, <2>6
<1>b. CASE e \in Queueless /\ Raise(e, r)
  <2> USE <1>0, <1>b, StoreErrorKeeps, GotoType DEF SaveReply, Raise, InFlight, Ended
  <2>1. TypeOK'
    BY DEF TypeOK
  <2>2. Stored'
    BY StoredKept
  <2>3. Counted'
    BY DEF Counted
  <2>4. Returned'
    BY DEF Returned
  <2>5. Tracked'
    BY ONLY IInv, <1>0, <1>b, SaveReply(e, r), TrackedKept
       DEF IInv, SaveReply, Raise, InFlight
  <2>6. SettledIsVisible'
    BY RaiseVisible
  <2> QED
    BY <2>1, <2>2, <2>3, <2>4, <2>5, <2>6
<1> QED
  BY <1>a, <1>b DEF SaveReply

LEMMA SaveFailsIInv ==
    ASSUME IInv, NEW e \in Errors, NEW r \in Runs, SaveFails(e, r)
    PROVE  IInv'
<1> USE EDMReportAssumption DEF IInv, TypeOK, SaveFails, StoreError, Raise, Goto
<1>0. /\ exp' \in [Messages -> Errors \cup {Absent, Expired}]
      /\ \A m \in Messages : exp[m] # Absent => exp'[m] # Absent
  BY StoreErrorKeeps
<1>1. TypeOK'
  BY <1>0 DEF Counted, Runs, InFlight, Ended
<1>2. Stored'
  BY <1>0, StoredKept
<1>3. Counted'
  BY DEF Counted
<1>4. Returned'
  BY DEF Returned, Counted
<1>5. Tracked'
  BY DEF Tracked, Ended, InFlight, Runs
<1>6. SettledIsVisible'
  BY DEF SettledIsVisible, Tracked, Returned, Ended, InFlight, Runs
<1> QED
  BY <1>1, <1>2, <1>3, <1>4, <1>5, <1>6

LEMMA PushAppliedIInv ==
    ASSUME IInv, NEW e \in Errors, NEW r \in Runs, PushApplied(e, r)
    PROVE  IInv'
<1> USE EDMReportAssumption DEF IInv, TypeOK, PushApplied, Goto
<1>0. pushes[e][r] \in Nat /\ pushes[e][r] + 1 \in 0..(Retries + 1)
  BY DEF Counted
<1>1. TypeOK'
  <2>1. pushes' \in [Errors -> [Runs -> 0..(Retries + 1)]]
    BY <1>0
  <2>2. queue' \in Seq(Messages)
    BY MessageOf[e] \in Messages, queue \in Seq(Messages)
  <2> QED
    BY <2>1, <2>2 DEF InFlight
<1>2. Stored'
  BY DEF Stored, AnnouncedHasRecord
<1>3. Counted'
  BY DEF Counted
<1>4. Returned'
  BY DEF Returned, Counted
<1>5. Tracked'
  BY DEF Tracked, Ended, InFlight, Runs
<1>6. SettledIsVisible'
  BY DEF SettledIsVisible, Tracked, Returned, Ended, InFlight, Runs
<1> QED
  BY <1>1, <1>2, <1>3, <1>4, <1>5, <1>6

LEMMA PushRetriedIInv ==
    ASSUME IInv, NEW e \in Errors, NEW r \in Runs, PushRetried(e, r)
    PROVE  IInv'
<1> USE EDMReportAssumption DEF IInv, TypeOK, PushRetried, Goto, instanceVars
<1>1. TypeOK'
  BY DEF Counted, Runs, InFlight, Ended
<1>2. Stored'
  BY DEF Stored, AnnouncedHasRecord
<1>3. Counted'
  BY DEF Counted
<1>4. Returned'
  BY DEF Returned, Counted
<1>5. Tracked'
  BY DEF Tracked, Ended, InFlight, Runs
<1>6. SettledIsVisible'
  BY DEF SettledIsVisible, Tracked, Returned, Ended, InFlight, Runs
<1> QED
  BY <1>1, <1>2, <1>3, <1>4, <1>5, <1>6

LEMMA PushReplyIInv ==
    ASSUME IInv, NEW e \in Errors, NEW r \in Runs, PushReply(e, r)
    PROVE  IInv'
<1> USE EDMReportAssumption DEF IInv, TypeOK, PushReply, Goto
<1>1. TypeOK'
  BY DEF Counted, Runs, InFlight, Ended
<1>2. Stored'
  BY DEF Stored, AnnouncedHasRecord
<1>3. Counted'
  BY DEF Counted
<1>4. Returned'
  BY DEF Returned, Counted
<1>5. Tracked'
  BY DEF Tracked, Ended, InFlight, Runs
<1>6. SettledIsVisible'
  BY DEF SettledIsVisible, Tracked, Returned, Ended, InFlight, Runs
<1> QED
  BY <1>1, <1>2, <1>3, <1>4, <1>5, <1>6

LEMMA PushFailsIInv ==
    ASSUME IInv, NEW e \in Errors, NEW r \in Runs, PushFails(e, r)
    PROVE  IInv'
<1> USE EDMReportAssumption DEF IInv, TypeOK, PushFails, Raise, Goto
<1>1. TypeOK'
  BY DEF Counted, Runs, InFlight, Ended
<1>2. Stored'
  BY DEF Stored, AnnouncedHasRecord
<1>3. Counted'
  BY DEF Counted
<1>4. Returned'
  BY DEF Returned, Counted
<1>5. Tracked'
  BY DEF Tracked, Ended, InFlight, Runs
<1>6. SettledIsVisible'
  BY DEF SettledIsVisible, Tracked, Returned, Ended, InFlight, Runs
<1> QED
  BY <1>1, <1>2, <1>3, <1>4, <1>5, <1>6

LEMMA CancelIInv ==
    ASSUME IInv, NEW e \in Errors, NEW r \in Runs, Cancel(e, r)
    PROVE  IInv'
<1> USE EDMReportAssumption DEF IInv, TypeOK, Cancel, StoreError, Goto, instanceVars
<1>0. /\ exp' \in [Messages -> Errors \cup {Absent, Expired}]
      /\ \A m \in Messages : exp[m] # Absent => exp'[m] # Absent
  BY StoreErrorKeeps
<1>1. TypeOK'
  BY <1>0 DEF Counted, Runs, InFlight, Ended
<1>2. Stored'
  BY <1>0, StoredKept
<1>3. Counted'
  BY DEF Counted
<1>4. Returned'
  BY DEF Returned, Counted
<1>5. Tracked'
  BY DEF Tracked, Ended, InFlight, Runs
<1>6. SettledIsVisible'
  BY DEF SettledIsVisible, Tracked, Returned, Ended, InFlight, Runs
<1> QED
  BY <1>1, <1>2, <1>3, <1>4, <1>5, <1>6

LEMMA ReportingDoneIInv ==
    ASSUME IInv, NEW e \in Errors, ReportingDone(e)
    PROVE  IInv'
<1> USE EDMReportAssumption DEF IInv, TypeOK, ReportingDone, CallbackError
<1>1. TypeOK'
  BY DEF Counted, Runs, InFlight, Ended
<1>2. Stored'
  BY DEF Stored, AnnouncedHasRecord
<1>3. Counted'
  BY DEF Counted
<1>4. Returned'
  BY DEF Returned, Counted
<1>5. Tracked'
  BY DEF Tracked, Ended, InFlight, Runs
<1>6. SettledIsVisible'
  BY DEF SettledIsVisible, Tracked, Returned, Ended, InFlight, Runs
<1> QED
  BY <1>1, <1>2, <1>3, <1>4, <1>5, <1>6

LEMMA ExpireIInv ==
    ASSUME IInv, NEW m \in Messages, Expire(m)
    PROVE  IInv'
<1> USE EDMReportAssumption DEF IInv, TypeOK, Expire, instanceVars
<1>1. TypeOK'
  BY DEF Counted, Runs, InFlight, Ended
<1>2. Stored'
  BY DEF Stored, AnnouncedHasRecord
<1>3. Counted'
  BY DEF Counted
<1>4. Returned'
  BY DEF Returned, Counted
<1>5. Tracked'
  BY DEF Tracked, Ended, InFlight, Runs
<1>6. SettledIsVisible'
  BY DEF SettledIsVisible, Tracked, Returned, Ended, InFlight, Runs
<1> QED
  BY <1>1, <1>2, <1>3, <1>4, <1>5, <1>6
LEMMA NextIInv == ASSUME IInv, [Next]_vars PROVE IInv'
<1>1. CASE UNCHANGED vars
  BY <1>1 DEF vars, IInv, TypeOK, Stored, AnnouncedHasRecord, Counted,
              Returned, Tracked, SettledIsVisible
<1>2. CASE \E e \in Errors : Construct({e}) \/ ConstructSync(e)
  BY <1>2, ConstructIInv, ConstructSyncIInv
<1>3. CASE \E e \in Errors, r \in Runs :
             Enter(e, r) \/ Resume(e, r) \/ PushRetried(e, r) \/ Cancel(e, r)
  BY <1>3, EnterIInv, SaveReplyIInv, SaveFailsIInv, PushAppliedIInv, PushReplyIInv,
     PushFailsIInv, PushRetriedIInv, CancelIInv DEF Resume
<1>4. CASE \E e \in Errors : ReportingDone(e)
  BY <1>4, ReportingDoneIInv
<1>5. CASE \E m \in Messages : Expire(m)
  BY <1>5, ExpireIInv
<1> QED
  BY <1>1, <1>2, <1>3, <1>4, <1>5 DEF Next, ReportStep

(* The inductive invariant: every reachable state has the types, and each  *)
(* run of report() is as far as its record, its pushes and the flags of    *)
(* its instance say.                                                       *)
THEOREM Inductive == Spec => []IInv
<1>1. Init => IInv
  BY InitIInv
<1>2. IInv /\ [Next]_vars => IInv'
  BY NextIInv
<1> QED
  BY <1>1, <1>2, PTL DEF Spec

(* Type correctness of the state of EDMException and its Redis keys.       *)
THEOREM TypeCorrect == Spec => []TypeOK
BY Inductive, PTL DEF IInv

(* A message_id on the queue always has an error stored for it: report()   *)
(* saves before it pushes, in every interleaving of every number of runs.  *)
THEOREM AnnouncedHasRecordAlways == Spec => []AnnouncedHasRecord
<1>1. IInv => AnnouncedHasRecord
  BY DEF IInv, Stored
<1> QED
  BY <1>1, Inductive, PTL

(* report() returns only when the message_id was queued by some run of the *)
(* same instance.                                                          *)
THEOREM ReturnMeansAnnouncedAlways == Spec => []ReturnMeansAnnounced
<1>1. IInv => ReturnMeansAnnounced
  BY DEF IInv, Returned, ReturnMeansAnnounced
<1> QED
  BY <1>1, Inductive, PTL

(* After the callback of the constructor's task, the instance tells that   *)
(* it was reported or why not.                                             *)
THEOREM SettledIsVisibleAlways == Spec => []SettledIsVisible
<1>1. IInv => SettledIsVisible
  BY DEF IInv
<1> QED
  BY <1>1, Inductive, PTL

-----------------------------------------------------------------------------
(* A reported instance with nothing in flight sends nothing more.          *)
LEMMA QuietStep ==
    ASSUME IInv, [Next]_vars, NEW e \in Errors, Quiet(e)
    PROVE  Quiet(e)'
<1> USE DEF IInv, Quiet
<1>1. reported[e] /\ \A r \in Runs : pc[e][r] \notin InFlight
  OBVIOUS
<1>2. ctx[e] # "none"
  BY DEF Returned, Tracked, Counted
<1>3. CASE UNCHANGED vars
  BY <1>3 DEF vars
<1>4. ASSUME NEW d \in Errors, Construct({d}) PROVE Quiet(e)'
  BY <1>4 DEF Construct, TypeOK, InFlight, Runs
<1>5. ASSUME NEW d \in Errors, ConstructSync(d) PROVE Quiet(e)'
  BY <1>2, <1>5 DEF ConstructSync, Goto, TypeOK, InFlight
<1>6. ASSUME NEW d \in Errors, NEW r \in Runs, Enter(d, r) PROVE Quiet(e)'
  BY <1>6 DEF Enter, AfterCheck, Goto, TypeOK, InFlight, instanceVars
<1>7. ASSUME NEW d \in Errors, NEW r \in Runs, Resume(d, r) PROVE Quiet(e)'
  BY <1>7 DEF Resume, SaveReply, SaveFails, PushApplied, PushReply, PushFails,
              Raise, Goto, TypeOK, InFlight
<1>8. ASSUME NEW d \in Errors, NEW r \in Runs, PushRetried(d, r) \/ Cancel(d, r)
      PROVE  Quiet(e)'
  <2>1. CASE PushRetried(d, r)
    BY <2>1 DEF PushRetried, Goto, TypeOK, InFlight, instanceVars
  <2>2. CASE Cancel(d, r)
    BY <2>2 DEF Cancel, Goto, TypeOK, InFlight, instanceVars
  <2> QED
    BY <1>8, <2>1, <2>2
<1>9. ASSUME NEW d \in Errors, ReportingDone(d) PROVE Quiet(e)'
  BY <1>9 DEF ReportingDone
<1>10. ASSUME NEW m \in Messages, Expire(m) PROVE Quiet(e)'
  BY <1>10 DEF Expire, instanceVars
<1> QED
  BY <1>3, <1>4, <1>5, <1>6, <1>7, <1>8, <1>9, <1>10 DEF Next, ReportStep

(* A reported instance with no run in flight never sends to Redis again:   *)
(* the sense in which report() is idempotent.                              *)
THEOREM StaysQuietAlways == Spec => StaysQuiet
<1>1. IInv /\ [Next]_vars => [\A e \in Errors : Quiet(e) => Quiet(e)']_vars
  BY QuietStep
<1> QED
  BY <1>1, Inductive, PTL DEF Spec, StaysQuiet

-----------------------------------------------------------------------------
(* Refinement of Outbox: a SET stores, an applied LPUSH announces, and the *)
(* rest stutters.                                                          *)
StoredMessages == {m \in Messages : exp[m] # Absent}

LEMMA StoreStep ==
    ASSUME IInv, NEW e \in Errors, StoreError(e), UNCHANGED queue
    PROVE  Out!Store(MessageOf[e])
BY EDMReportAssumption DEF IInv, TypeOK, StoreError, Out!Store

LEMMA SilentStep ==
    ASSUME UNCHANGED <<exp, queue>>
    PROVE  UNCHANGED Out!vars
BY DEF Out!vars

LEMMA OutStep ==
    ASSUME IInv, [Next]_vars
    PROVE  [Out!Next]_(Out!vars)
<1> USE EDMReportAssumption
<1>1. CASE UNCHANGED vars
  BY <1>1, SilentStep DEF vars
<1>2. CASE \E e \in Errors : Construct({e}) \/ ConstructSync(e)
  BY <1>2, SilentStep DEF Construct, ConstructSync
<1>3. ASSUME NEW e \in Errors, NEW r \in Runs, SaveReply(e, r)
      PROVE  Out!Next
  BY <1>3, StoreStep DEF SaveReply, Out!Next
<1>4. ASSUME NEW e \in Errors, NEW r \in Runs, SaveFails(e, r) \/ Cancel(e, r)
      PROVE  [Out!Next]_(Out!vars)
  BY <1>4, StoreStep, SilentStep DEF SaveFails, Cancel, Out!Next
<1>5. ASSUME NEW e \in Errors, NEW r \in Runs, PushApplied(e, r)
      PROVE  Out!Next
  <2>1. MessageOf[e] \in StoredMessages
    BY <1>5 DEF IInv, Stored, PushApplied, StoredMessages
  <2> QED
    BY <1>5, <2>1 DEF PushApplied, StoredMessages, Out!Announce, Out!Next
<1>6. ASSUME NEW e \in Errors, NEW r \in Runs,
             Enter(e, r) \/ PushRetried(e, r) \/ PushReply(e, r) \/ PushFails(e, r)
      PROVE  UNCHANGED Out!vars
  BY <1>6, SilentStep DEF Enter, PushRetried, PushReply, PushFails
<1>7. CASE \E e \in Errors : ReportingDone(e)
  BY <1>7, SilentStep DEF ReportingDone
<1>8. ASSUME NEW m \in Messages, Expire(m)
      PROVE  UNCHANGED Out!vars
  BY <1>8 DEF Expire, IInv, TypeOK, Out!vars
<1> QED
  BY <1>1, <1>2, <1>3, <1>4, <1>5, <1>6, <1>7, <1>8 DEF Next, ReportStep, Resume

(* Publication implements the outbox: nothing is announced before it is    *)
(* stored, nothing announced is taken back.                                *)
THEOREM Publication == Spec => ImplementsOutbox
<1>1. Init => Out!Init
  BY DEF Init, Out!Init
<1>2. IInv /\ [Next]_vars => [Out!Next]_(Out!vars)
  BY OutStep
<1> QED
  BY <1>1, <1>2, Inductive, PTL DEF Spec, ImplementsOutbox, Out!Spec
=============================================================================
