------------------------------- MODULE Tracing -------------------------------
(***************************************************************************)
(* One process that journals an exchange: the background logs of a         *)
(* TraceabilityLogger run on its event loop, and the generate_data of an   *)
(* application makes its exchanges through SOAPTransports, which block.    *)
(* While one of those on the thread of the loop is inside response(), the  *)
(* loop stands still: no task and no aclose() of the logger moves.         *)
(***************************************************************************)
EXTENDS TraceabilityLogger, SOAPTransport

CONSTANT OnLoop     \* the transports used on the thread of the loop

ASSUME TracingAssumption == OnLoop \subseteq Transports

Busy(s) == soap[s] \in {"requesting", "logging", "parsing"}

LoopIsFree == \A s \in OnLoop : ~Busy(s)

TracingInit == LoggerInit /\ TransportInit

LoopStep(A) == LoopIsFree /\ A /\ UNCHANGED transportVars

TransportStep(s) ==
    /\ s \in OnLoop => \A other \in OnLoop \ {s} : ~Busy(other)
    /\ Transporting(s)
    /\ UNCHANGED loggerVars

TracingNext == LoopStep(LoggerNext) \/ \E s \in Transports : TransportStep(s)

tracingVars == <<loggerVars, transportVars>>

TracingSpec == TracingInit /\ [][TracingNext]_tracingVars

(* Requests end (every socket has a timeout), a ready task is run in the   *)
(* end, and nobody has to be cancelled for that.                           *)
TracingFairSpec ==
    /\ TracingSpec
    /\ \A s \in Transports : WF_tracingVars(Busy(s) /\ TransportStep(s))
    /\ \A l \in Logs : WF_tracingVars(LoopStep(Step(l)))
=============================================================================
