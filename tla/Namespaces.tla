----------------------------- MODULE Namespaces -----------------------------
(***************************************************************************)
(* What REDIS_PREFIX promises applications that share a Redis server: the  *)
(* cells of each prefix are a store of its own, in which a name is one     *)
(* cell.  Reading returns what was last written there, or nothing.         *)
(***************************************************************************)
CONSTANTS
    Slots,      \* pairs of a prefix and a name
    Bytes,      \* what can be stored
    Absent      \* of a cell that is empty

VARIABLES
    cells,      \* the content of each slot
    reply       \* what was read last

vars == <<cells, reply>>

Init == cells = [s \in Slots |-> Absent] /\ reply = Absent

Put(s, v) ==
    /\ cells' = [cells EXCEPT ![s] = v]
    /\ UNCHANGED reply

Read(s) == reply' = cells[s] /\ UNCHANGED cells

Next == \E s \in Slots : Read(s) \/ \E v \in Bytes \cup {Absent} : Put(s, v)

Spec == Init /\ [][Next]_vars
=============================================================================
