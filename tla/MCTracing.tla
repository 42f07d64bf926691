----------------------------- MODULE MCTracing -----------------------------
(* Instances of Tracing for TLC. *)
EXTENDS Tracing

CONSTANTS l1, l2, s1, s2
=============================================================================
