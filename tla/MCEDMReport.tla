---------------------------- MODULE MCEDMReport ----------------------------
(* Instances of EDMReport for TLC. *)
EXTENDS EDMReport

CONSTANTS m1, e1, e2, c1

\* Every exception is raised for the one message.
OneMessage == [e \in Errors |-> m1]
=============================================================================
