------------------------------ MODULE Delivery ------------------------------
(***************************************************************************)
(* What the Redis list behind push_to_queue and pop_from_queue promises:   *)
(* entries are taken in the order they were queued, and each is handed to  *)
(* at most one consumer, at most once.  An entry that was taken may never  *)
(* be handed to anybody.                                                   *)
(***************************************************************************)
EXTENDS Naturals, Sequences

CONSTANT Messages

VARIABLES
    log,        \* every entry ever queued
    taken,      \* how many of them were taken off the queue
    handed      \* the entries some consumer received, by position in log

vars == <<log, taken, handed>>

Init == log = <<>> /\ taken = 0 /\ handed = {}

Queue(m) == log' = Append(log, m) /\ UNCHANGED <<taken, handed>>

Take == taken < Len(log) /\ taken' = taken + 1 /\ UNCHANGED <<log, handed>>

Hand(i) == i \notin handed /\ handed' = handed \cup {i} /\ UNCHANGED <<log, taken>>

Next == (\E m \in Messages : Queue(m)) \/ Take \/ (\E i \in 1..taken : Hand(i))

Spec == Init /\ [][Next]_vars
=============================================================================
