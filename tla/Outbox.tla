------------------------------- MODULE Outbox -------------------------------
(***************************************************************************)
(* What the library promises the reader of QUEUE_OUTCOMING: a message_id   *)
(* is announced on the queue only after a response for it was stored, and  *)
(* an announcement is never taken back or reordered.                       *)
(*                                                                         *)
(* "stored" holds the messages some response was ever stored for: the TTL  *)
(* may remove the response later, which is no step of this specification.  *)
(***************************************************************************)
EXTENDS Naturals, Sequences

CONSTANT Messages

VARIABLES stored, announced

vars == <<stored, announced>>

Init == stored = {} /\ announced = <<>>

Store(m) == stored' = stored \cup {m} /\ UNCHANGED announced

Announce(m) ==
    /\ m \in stored
    /\ announced' = Append(announced, m)
    /\ UNCHANGED stored

Next == \E m \in Messages : Store(m) \/ Announce(m)

Spec == Init /\ [][Next]_vars
=============================================================================
