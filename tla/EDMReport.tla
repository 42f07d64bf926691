----------------------------- MODULE EDMReport -----------------------------
(***************************************************************************)
(* EDMException (oots_lib/lib/exception.py): an exception that publishes   *)
(* itself.  Its constructor starts report(), which stores the error under  *)
(* the response:exp key of its message and then pushes the message_id to   *)
(* QUEUE_OUTCOMING.  With a running event loop report() is a background    *)
(* task watched by a done-callback; without one it runs to its end inside  *)
(* the constructor.  Callers may also await report() themselves, while the *)
(* task runs or after it.                                                  *)
(*                                                                         *)
(* A run of report() is suspended at its two awaits, a SET and an LPUSH on *)
(* pooled connections: the server applies the commands of different runs   *)
(* in any order, and a command whose reply is lost may have been applied.  *)
(* The Redis client repeats a command whose reply is lost up to Retries    *)
(* times: a repeated SET changes nothing, a repeated LPUSH queues the      *)
(* message_id again.                                                       *)
(***************************************************************************)
EXTENDS Naturals, Sequences

CONSTANTS
    Messages,    \* message ids
    Errors,      \* EDMException instances
    MessageOf,   \* the message_id each is constructed with
    Queueless,   \* those built with no queue argument and no QUEUE_OUTCOMING
    Calls,       \* explicit calls of report(), each made once per instance
    Retries,     \* how often the Redis client repeats a command
    Absent,      \* of a key that was never written
    Expired      \* of a key that was written and whose TTL ran out

Initial == "initial"              \* the report() started by the constructor
Runs == {Initial} \cup Calls

ASSUME EDMReportAssumption ==
    /\ MessageOf \in [Errors -> Messages]
    /\ Queueless \subseteq Errors
    /\ Initial \notin Calls
    /\ Retries \in Nat
    /\ Absent \notin Errors /\ Expired \notin Errors /\ Absent # Expired

VARIABLES
    ctx,        \* "none": not constructed; "async", "sync": with, without a loop
    pc,         \* where each run of report() is
    pushes,     \* how often the server applied the LPUSH of each run
    reported,   \* the reported attribute
    error,      \* the reporting_error attribute
    tracked,    \* _reporting_tasks: instances whose task has not called back
    exp,        \* the value under the response:exp key of each message
    queue       \* every LPUSH to QUEUE_OUTCOMING, in order

instanceVars == <<ctx, pushes, reported, error, tracked>>
vars == <<ctx, pc, pushes, reported, error, tracked, exp, queue>>

InFlight == {"saving", "pushing", "acked"}
Ended    == {"ok", "failed", "cancelled"}

TypeOK ==
    /\ ctx \in [Errors -> {"none", "async", "sync"}]
    /\ pc \in [Errors -> [Runs -> {"idle", "ready"} \cup InFlight \cup Ended]]
    /\ pushes \in [Errors -> [Runs -> 0..(Retries + 1)]]
    /\ reported \in [Errors -> BOOLEAN]
    /\ error \in [Errors -> {"None", "ReportingError", "CancelledError"}]
    /\ tracked \subseteq Errors
    /\ exp \in [Messages -> Errors \cup {Absent, Expired}]
    /\ queue \in Seq(Messages)

Init ==
    /\ ctx = [e \in Errors |-> "none"]
    /\ pc = [e \in Errors |-> [r \in Runs |-> "idle"]]
    /\ pushes = [e \in Errors |-> [r \in Runs |-> 0]]
    /\ reported = [e \in Errors |-> FALSE]
    /\ error = [e \in Errors |-> "None"]
    /\ tracked = {}
    /\ exp = [m \in Messages |-> Absent]
    /\ queue = <<>>

-----------------------------------------------------------------------------
Goto(e, r, s) == pc' = [pc EXCEPT ![e][r] = s]

(* The constructors of the instances in S, in a coroutine: one task each.  *)
Construct(S) ==
    /\ \A e \in S : ctx[e] = "none"
    /\ ctx' = [e \in Errors |-> IF e \in S THEN "async" ELSE ctx[e]]
    /\ pc' = [e \in Errors |->
                IF e \in S THEN [pc[e] EXCEPT ![Initial] = "ready"] ELSE pc[e]]
    /\ tracked' = tracked \cup S
    /\ UNCHANGED <<pushes, reported, error, exp, queue>>

(* The constructor with no running loop: asyncio.run starts report() at    *)
(* once, and nobody else holds the instance until it is over.              *)
ConstructSync(e) ==
    /\ ctx[e] = "none"
    /\ ctx' = [ctx EXCEPT ![e] = "sync"]
    /\ Goto(e, Initial, "saving")
    /\ UNCHANGED <<pushes, reported, error, tracked, exp, queue>>

Constructed(e) == ctx[e] = "async" \/ (ctx[e] = "sync" /\ pc[e][Initial] \in Ended)

(* The test of self.reported that opens report().                          *)
AfterCheck_Unguarded(e) == "saving"
AfterCheck_PushFirst(e) == IF reported[e] THEN "ok" ELSE "pushing"
AfterCheck(e) == IF reported[e] THEN "ok" ELSE "saving"

Enter(e, r) ==
    /\ \/ r = Initial /\ pc[e][r] = "ready"
       \/ r \in Calls /\ pc[e][r] = "idle" /\ Constructed(e)
    /\ Goto(e, r, AfterCheck(e))
    /\ UNCHANGED <<instanceVars, exp, queue>>

(* A run ends in an exception.  The constructor without a loop notes it;   *)
(* the task's exception waits for the callback; a caller just receives it. *)
Raise_Swallowed(e, r) == Goto(e, r, "failed") /\ UNCHANGED error
Raise(e, r) ==
    /\ Goto(e, r, "failed")
    /\ error' = IF r = Initial /\ ctx[e] = "sync"
                THEN [error EXCEPT ![e] = "ReportingError"] ELSE error

StoreError(e) == exp' = [exp EXCEPT ![MessageOf[e]] = e]

(* _save_exception_data returned; _push_to_queue needs a queue.            *)
SaveReply_NoPush(e, r) ==
    /\ pc[e][r] = "saving"
    /\ StoreError(e)
    /\ Goto(e, r, "acked")
    /\ UNCHANGED <<instanceVars, queue>>
SaveReply(e, r) ==
    /\ pc[e][r] = "saving"
    /\ StoreError(e)
    /\ \/ e \notin Queueless /\ Goto(e, r, "pushing") /\ UNCHANGED error
       \/ e \in Queueless /\ Raise(e, r)
    /\ UNCHANGED <<ctx, pushes, reported, tracked, queue>>

SaveFails(e, r) ==
    /\ pc[e][r] = "saving"
    /\ StoreError(e) \/ UNCHANGED exp
    /\ Raise(e, r)
    /\ UNCHANGED <<ctx, pushes, reported, tracked, queue>>

PushApplied(e, r) ==
    /\ pc[e][r] = "pushing"
    /\ queue' = Append(queue, MessageOf[e])
    /\ pushes' = [pushes EXCEPT ![e][r] = @ + 1]
    /\ Goto(e, r, "acked")
    /\ UNCHANGED <<ctx, reported, error, tracked, exp>>

PushRetried_Unlimited(e, r) ==
    /\ pc[e][r] = "acked"
    /\ Goto(e, r, "pushing")
    /\ UNCHANGED <<instanceVars, exp, queue>>
PushRetried(e, r) ==
    /\ pc[e][r] = "acked" /\ pushes[e][r] <= Retries
    /\ Goto(e, r, "pushing")
    /\ UNCHANGED <<instanceVars, exp, queue>>

PushReply(e, r) ==
    /\ pc[e][r] = "acked"
    /\ reported' = [reported EXCEPT ![e] = TRUE]
    /\ error' = [error EXCEPT ![e] = "None"]
    /\ Goto(e, r, "ok")
    /\ UNCHANGED <<ctx, pushes, tracked, exp, queue>>

PushFails(e, r) ==
    /\ pc[e][r] \in {"pushing", "acked"}
    /\ Raise(e, r)
    /\ UNCHANGED <<ctx, pushes, reported, tracked, exp, queue>>

(* Cancellation of the task, or of the caller that awaits report(); the    *)
(* command it waited for is applied (before the cancellation) or is not.   *)
Cancel(e, r) ==
    /\ ctx[e] = "async" \/ r \in Calls
    /\ pc[e][r] \in {"ready"} \cup InFlight
    /\ Goto(e, r, "cancelled")
    /\ (pc[e][r] = "saving" /\ StoreError(e)) \/ UNCHANGED exp
    /\ UNCHANGED <<instanceVars, queue>>

(* _on_reporting_done, the callback of the task.                           *)
CallbackError_NoCancel(e) ==
    IF pc[e][Initial] = "failed" THEN "ReportingError" ELSE error[e]
CallbackError(e) ==
    CASE pc[e][Initial] = "cancelled" -> "CancelledError"
      [] pc[e][Initial] = "failed"    -> "ReportingError"
      [] OTHER                     -> error[e]

ReportingDone(e) ==
    /\ e \in tracked /\ pc[e][Initial] \in Ended
    /\ tracked' = tracked \ {e}
    /\ error' = [error EXCEPT ![e] = CallbackError(e)]
    /\ UNCHANGED <<ctx, pc, pushes, reported, exp, queue>>

(* The TTL given to SET by save_to_redis runs out.                         *)
Expire(m) ==
    /\ exp[m] \in Errors
    /\ exp' = [exp EXCEPT ![m] = Expired]
    /\ UNCHANGED <<instanceVars, pc, queue>>

-----------------------------------------------------------------------------
(* The awaited command comes back, or fails.                               *)
Resume(e, r) ==
    \/ SaveReply(e, r) \/ SaveFails(e, r)
    \/ PushApplied(e, r) \/ PushReply(e, r) \/ PushFails(e, r)

ReportStep ==
    \/ \E e \in Errors, r \in Runs :
          Enter(e, r) \/ Resume(e, r) \/ PushRetried(e, r) \/ Cancel(e, r)
    \/ \E e \in Errors : ReportingDone(e)
    \/ \E m \in Messages : Expire(m)

Next ==
    \/ \E e \in Errors : Construct({e}) \/ ConstructSync(e)
    \/ ReportStep

Spec == Init /\ [][Next]_vars

(* The loop runs a ready task and a due callback, and the client's         *)
(* socket_timeout ends every await.  Nothing makes a caller call report(). *)
Fairness ==
    /\ \A e \in Errors : WF_vars(Enter(e, Initial)) /\ WF_vars(ReportingDone(e))
    /\ \A e \in Errors, r \in Runs : WF_vars(Resume(e, r))

FairSpec == Spec /\ Fairness

-----------------------------------------------------------------------------
(* A message_id on the queue leads its reader to a stored error, for as    *)
(* long as the TTL allows: report() stores before it pushes, whichever     *)
(* runs of whichever instances overlap.                                    *)
AnnouncedHasRecord == \A i \in DOMAIN queue : exp[queue[i]] # Absent

(* Whoever sees report() return, the task or a caller, knows the           *)
(* message_id was queued, by this run or by another run of the instance.   *)
ReturnMeansAnnounced ==
    \A e \in Errors, r \in Runs :
        pc[e][r] = "ok" => \E s \in Runs : pushes[e][s] > 0

(* Once the constructor's report() is over and its callback has run, the   *)
(* instance says how publication went: reported, or a reporting_error,     *)
(* even when explicit calls raced with the task or it was cancelled.       *)
SettledIsVisible ==
    \A e \in Errors :
        ctx[e] # "none" /\ pc[e][Initial] \in Ended /\ e \notin tracked
            => reported[e] \/ error[e] # "None"

(* A reported instance with no run in flight stays so: no later report()   *)
(* sends anything to Redis again.                                          *)
Quiet(e) == reported[e] /\ \A r \in Runs : pc[e][r] \notin InFlight

StaysQuiet == [][\A e \in Errors : Quiet(e) => Quiet(e)']_vars

(* Every constructed exception ends up visible: its task is over, its      *)
(* callback has run and the outcome is on the instance.                    *)
ReportingSettles ==
    \A e \in Errors :
        ctx[e] # "none"
            ~> /\ pc[e][Initial] \in Ended /\ e \notin tracked
               /\ reported[e] \/ error[e] # "None"

(* Publication keeps the promise of the outgoing queue.                    *)
Out == INSTANCE Outbox WITH
           stored <- {m \in Messages : exp[m] # Absent}, announced <- queue
ImplementsOutbox == Out!Spec

(* "report is idempotent": of two runs that both return, one at most has   *)
(* pushed the message_id.                                                  *)
ReportIsIdempotent ==
    \A e \in Errors, r, s \in Runs :
        /\ pc[e][r] = "ok" /\ pushes[e][r] > 0
        /\ pc[e][s] = "ok" /\ pushes[e][s] > 0
        => r = s

(* reporting_error says why publication failed, so a reported instance     *)
(* has none.                                                               *)
ReportedHasNoError == \A e \in Errors : reported[e] => error[e] = "None"
=============================================================================
