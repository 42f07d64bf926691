-------------------------- MODULE RedisQueueProofs --------------------------
(***************************************************************************)
(* Proofs about RedisQueue, for any messages, consumers and number of      *)
(* repeats: every entry is in one place, and the list, the replies and     *)
(* what was handed out implement Delivery.                                 *)
(***************************************************************************)
EXTENDS RedisQueue, SequenceTheorems, TLAPS

(* The list holds the latest entries, newest first; the ones before them   *)
(* were taken.                                                             *)
InOrder ==
    /\ Len(list) <= Len(log)
    /\ \A i \in 1..Len(list) : list[i] = Len(log) - i + 1

Taken == 1..(Len(log) - Len(list))

(* An entry that was taken is in a reply, handed out or lost.              *)
Places ==
    /\ \A c \in Consumers : reply[c] # 0 => pop[c] = "answered"
    /\ \A c, d \in Consumers : reply[c] = reply[d] /\ reply[c] # 0 => c = d
    /\ \A c \in Consumers : reply[c] # 0 => reply[c] \in Taken \ (handed \cup lost)
    /\ handed \cap lost = {} /\ handed \cup lost \subseteq Taken
    /\ \A i \in Taken : i \in handed \cup lost \/ \E c \in Consumers : reply[c] = i

QInv == TypeOK /\ InOrder /\ Places

LEMMA InitQInv ==
    ASSUME Init
    PROVE  QInv
BY RedisQueueAssumption DEF Init, QInv, TypeOK, InOrder, Places, Taken, Queued

(* Steps that leave the list alone.                                        *)
LEMMA ProducerStep ==
    ASSUME QInv, NEW m \in Messages,
           Push(m) \/ PushReturns(m) \/ PushRepeated(m) \/ PushRaises(m)
    PROVE  QInv'
<1> USE RedisQueueAssumption
        DEF QInv, TypeOK, InOrder, Places, Taken, Queued, consumers
<1>1. CASE Push(m) \/ PushReturns(m) \/ PushRaises(m)
  <2>1. CASE Push(m)
    BY <2>1 DEF Push
  <2>2. CASE PushReturns(m)
    BY <2>2 DEF PushReturns
  <2>3. CASE PushRaises(m)
    BY <2>3 DEF PushRaises
  <2> QED
    BY <1>1, <2>1, <2>2, <2>3
<1>2. CASE PushRepeated(m)
  <2>1. pushTries' \in [Messages -> 0..Retries]
    BY <1>2 DEF PushRepeated
  <2> QED
    BY <1>2, <2>1 DEF PushRepeated
<1> QED
  BY <1>1, <1>2

LEMMA LpushStep ==
    ASSUME QInv, NEW m \in Messages, Lpush(m)
    PROVE  QInv'
<1> USE DEF QInv, Lpush, consumers
<1>1. /\ log' \in Seq(Messages) /\ Len(log') = Len(log) + 1
      /\ Len(list') = Len(list) + 1 /\ list'[1] = Len(log) + 1
      /\ \A i \in 2..Len(list') : list'[i] = list[i - 1]
      /\ list' \in Seq(1..(Len(log) + 1))
  <2>1. log \in Seq(Messages) /\ list \in Seq(1..(Len(log) + 1)) /\ Len(log) \in Nat
    BY DEF TypeOK, Queued
  <2>2. log' \in Seq(Messages) /\ Len(log') = Len(log) + 1
    BY <2>1
  <2>3. <<Len(log')>> \in Seq(1..(Len(log) + 1)) /\ list' = <<Len(log')>> \o list
    BY <2>1, <2>2
  <2> QED
    BY <2>1, <2>2, <2>3
<1>2. TypeOK'
  BY <1>1 DEF TypeOK, Queued
<1>3. InOrder'
  BY <1>1 DEF InOrder, TypeOK
<1>4. Taken' = Taken
  BY <1>1 DEF Taken, TypeOK
<1>5. Places'
  BY <1>4 DEF Places
<1> QED
  BY <1>2, <1>3, <1>5

LEMMA BrpopStep ==
    ASSUME QInv, NEW c \in Consumers, Brpop(c)
    PROVE  QInv' /\ Len(list') = Len(list) - 1 /\ Len(list) > 0
<1> USE DEF QInv, Brpop, producers
<1>1. /\ list' \in Seq(Queued) /\ Len(list) > 0 /\ Len(list') = Len(list) - 1
      /\ \A i \in 1..Len(list') : list'[i] = list[i]
      /\ Last(list) = Len(log) - Len(list) + 1 /\ Last(list) \in Queued
  <2>1. list \in Seq(Queued) /\ list # <<>> /\ Len(log) \in Nat
    BY DEF TypeOK
  <2>2. Len(list) > 0 /\ Len(list) \in Nat /\ list[Len(list)] \in Queued
    BY <2>1
  <2>3. list' = SubSeq(list, 1, Len(list) - 1)
    BY DEF Front
  <2>4. /\ list' \in Seq(Queued) /\ Len(list') = Len(list) - 1
        /\ \A i \in 1..Len(list') : list'[i] = list[i]
    <3>1. \A i \in 1..(Len(list) - 1) : list[i] \in Queued
      BY <2>1, <2>2
    <3>2. /\ SubSeq(list, 1, Len(list) - 1) \in Seq(Queued)
          /\ Len(SubSeq(list, 1, Len(list) - 1)) = Len(list) - 1
          /\ \A i \in 1..(Len(list) - 1) : SubSeq(list, 1, Len(list) - 1)[i] = list[i]
      <4> DEFINE n == Len(list) - 1
      <4>1. 1 \in Int /\ n \in Int /\ n \in Nat /\ \A i \in 1..n : list[i] \in Queued
        BY <2>2, <3>1
      <4> HIDE DEF QInv, Brpop, n
      <4>2. /\ SubSeq(list, 1, n) \in Seq(Queued)
            /\ Len(SubSeq(list, 1, n)) = IF 1 <= n THEN n - 1 + 1 ELSE 0
            /\ \A i \in 1..(n - 1 + 1) : SubSeq(list, 1, n)[i] = list[1 + i - 1]
        BY <4>1, SubSeqProperties
      <4>3. n - 1 + 1 = n /\ \A i \in 1..n : 1 + i - 1 = i
        BY <4>1
      <4>4. Len(SubSeq(list, 1, n)) = n /\ \A i \in 1..n : SubSeq(list, 1, n)[i] = list[i]
        BY <4>1, <4>2, <4>3
      <4> QED
        BY <4>2, <4>4 DEF n
    <3> QED
      BY <2>3, <3>2
  <2>5. Last(list) = Len(log) - Len(list) + 1
    BY <2>2 DEF InOrder, Last
  <2> QED
    BY <2>2, <2>4, <2>5 DEF Last
<1>2. TypeOK'
  BY <1>1 DEF TypeOK, Queued
<1>3. InOrder'
  BY <1>1 DEF InOrder, TypeOK
<1>4. Taken' = Taken \cup {Last(list)} /\ Last(list) \notin Taken
      /\ Last(list) # 0 /\ 0 \notin Taken
  BY <1>1 DEF Taken, TypeOK, InOrder
<1>5. Places'
  <2>1. /\ reply[c] = 0 /\ pop'[c] = "answered"
        /\ \A d \in Consumers : reply'[d] = IF d = c THEN Last(list) ELSE reply[d]
        /\ \A d \in Consumers \ {c} : pop'[d] = pop[d]
    BY DEF Places, TypeOK
  <2> QED
    BY <1>4, <2>1 DEF Places
<1> QED
  BY <1>1, <1>2, <1>3, <1>5

LEMMA ConsumerStep ==
    ASSUME QInv, NEW c \in Consumers,
           Pop(c) \/ BrpopNil(c) \/ PopReturns(c) \/ PopRepeated(c) \/ PopFails(c)
    PROVE  QInv'
<1> USE RedisQueueAssumption DEF QInv, producers, Carried, Ends
<1>1. UNCHANGED <<log, list>>
  BY DEF Pop, BrpopNil, PopReturns, PopRepeated, PopFails
<1>2. InOrder' /\ Taken' = Taken /\ Queued' = Queued
  BY <1>1 DEF InOrder, Taken, Queued
<1>3. reply[c] # 0 => reply[c] \in Queued
  BY DEF TypeOK
<1>4. ASSUME Places', pop' \in [Consumers -> {"ready", "blocked", "answered"}],
             popTries' \in [Consumers -> 0..Retries],
             reply' \in [Consumers -> {0} \cup Queued],
             lost' \subseteq Queued, handed' \subseteq Queued,
             UNCHANGED producers
      PROVE  QInv'
  BY <1>1, <1>2, <1>4 DEF TypeOK
<1>5. CASE Pop(c) \/ BrpopNil(c)
  <2>1. Places'
    BY <1>2, <1>5 DEF Pop, BrpopNil, Places, TypeOK
  <2>2. popTries' \in [Consumers -> 0..Retries]
    <3>1. 0 \in 0..Retries
      OBVIOUS
    <3> QED
      BY <1>5, <3>1 DEF Pop, BrpopNil, TypeOK
  <2>3. pop' \in [Consumers -> {"ready", "blocked", "answered"}]
    BY <1>5 DEF Pop, BrpopNil, TypeOK
  <2> QED
    BY <1>4, <1>5, <2>1, <2>2, <2>3 DEF Pop, BrpopNil, TypeOK
<1>6. CASE PopReturns(c)
  <2>1. Places'
    BY <1>2, <1>6 DEF PopReturns, Places, TypeOK
  <2> QED
    BY <1>3, <1>4, <1>6, <2>1 DEF PopReturns, TypeOK
<1>7. CASE PopRepeated(c) \/ PopFails(c)
  <2>1. /\ lost' = lost \cup Carried(c) /\ UNCHANGED handed
        /\ \A d \in Consumers : reply'[d] = IF d = c THEN 0 ELSE reply[d]
        /\ \A d \in Consumers \ {c} : pop'[d] = pop[d]
    BY <1>7 DEF PopRepeated, PopFails, TypeOK
  <2>2. Places'
    BY <1>2, <2>1 DEF Places
  <2>3. popTries' \in [Consumers -> 0..Retries]
    BY <1>7 DEF PopRepeated, PopFails, TypeOK
  <2> QED
    BY <1>3, <1>4, <1>7, <2>2, <2>3 DEF PopRepeated, PopFails, TypeOK
<1> QED
  BY <1>5, <1>6, <1>7

LEMMA NextQInv ==
    ASSUME QInv, [Next]_vars
    PROVE  QInv'
<1>1. CASE UNCHANGED vars
  BY <1>1 DEF vars, QInv, TypeOK, InOrder, Places, Taken, Queued
<1>2. CASE Next
  BY <1>2, ProducerStep, LpushStep, BrpopStep, ConsumerStep DEF Next
<1> QED
  BY <1>1, <1>2

(* The list is the newest part of the log, in order, and every entry       *)
(* before it is in one place, in every reachable state.                    *)
THEOREM QueueAlways == Spec => []QInv
<1> QED
  BY InitQInv, NextQInv, PTL DEF Spec

(* Type correctness of RedisQueue.                                         *)
THEOREM QueueTypes == Spec => []TypeOK
<1>1. QInv => TypeOK
  BY DEF QInv
<1> QED
  BY <1>1, QueueAlways, PTL

(* However commands and replies are lost, repeated and raced for, every    *)
(* entry is waiting, under way, handed to one consumer or lost, and is     *)
(* nowhere else.                                                           *)
THEOREM InOnePlaceAlways == Spec => []InOnePlace
<1>1. ASSUME QInv PROVE InOnePlace
  <2> DEFINE waiting == Range(list)
             flying  == UNION {Carried(c) : c \in Consumers}
  <2> USE <1>1 DEF QInv
  <2>1. waiting = Queued \ Taken /\ Taken \subseteq Queued
    <3>1. /\ Len(log) \in Nat /\ Len(list) \in Nat /\ Len(list) <= Len(log)
          /\ DOMAIN list = 1..Len(list)
      BY DEF TypeOK, InOrder
    <3>2. \A i \in 1..Len(list) : list[i] \in Queued \ Taken
      BY <3>1 DEF InOrder, Queued, Taken
    <3>3. \A n \in Queued \ Taken :
              Len(log) - n + 1 \in 1..Len(list) /\ list[Len(log) - n + 1] = n
      BY <3>1 DEF InOrder, Queued, Taken
    <3>4. Taken \subseteq Queued
      BY <3>1 DEF Queued, Taken
    <3> QED
      BY <3>1, <3>2, <3>3, <3>4 DEF Range
  <2>2. IsInjective(list)
    <3>1. DOMAIN list = 1..Len(list) /\ Len(list) \in Nat /\ Len(log) \in Nat
      BY DEF TypeOK
    <3>2. \A i, j \in 1..Len(list) : list[i] = list[j] => i = j
      BY <3>1 DEF InOrder
    <3> QED
      BY <3>1, <3>2 DEF IsInjective
  <2>3. flying \subseteq Taken \ (handed \cup lost)
    BY DEF Carried, Places
  <2>4. Taken \subseteq flying \cup handed \cup lost
    <3>1. \A c \in Consumers : reply[c] \in Taken => reply[c] \in flying
      BY DEF Carried, Taken
    <3> QED
      BY <3>1 DEF Places
  <2> QED
    BY <2>1, <2>2, <2>3, <2>4 DEF InOnePlace, Places
<1> QED
  BY <1>1, QueueAlways, PTL

(* Steps of RedisQueue as steps of Delivery.                               *)
LEMMA DeliveryStep ==
    ASSUME QInv, [Next]_vars
    PROVE  [Promise!Next]_(Promise!vars)
<1> USE DEF QInv, Promise!vars
<1>1. CASE UNCHANGED vars
  BY <1>1 DEF vars
<1>2. ASSUME NEW m \in Messages,
             Push(m) \/ PushReturns(m) \/ PushRepeated(m) \/ PushRaises(m)
      PROVE  UNCHANGED Promise!vars
  BY <1>2 DEF Push, PushReturns, PushRepeated, PushRaises, consumers
<1>3. ASSUME NEW m \in Messages, Lpush(m) PROVE Promise!Queue(m)
  BY <1>3 DEF Lpush, consumers, TypeOK, Promise!Queue
<1>4. ASSUME NEW c \in Consumers, Brpop(c) PROVE Promise!Take
  <2>1. UNCHANGED <<log, handed>> /\ Len(list') = Len(list) - 1 /\ Len(list) > 0
    BY <1>4, BrpopStep DEF Brpop
  <2> QED
    BY <2>1 DEF TypeOK, InOrder, Promise!Take
<1>5. ASSUME NEW c \in Consumers, Pop(c) \/ BrpopNil(c) \/ PopRepeated(c) \/ PopFails(c)
      PROVE  UNCHANGED Promise!vars
  BY <1>5 DEF Pop, BrpopNil, PopRepeated, PopFails, producers
<1>6. ASSUME NEW c \in Consumers, PopReturns(c)
      PROVE  [Promise!Next]_(Promise!vars)
  <2>1. CASE reply[c] = 0
    BY <1>6, <2>1 DEF PopReturns, Carried
  <2>2. CASE reply[c] # 0
    <3>1. Promise!Hand(reply[c])
      BY <1>6, <2>2 DEF PopReturns, Carried, Places, Taken, Promise!Hand
    <3> QED
      BY <2>2, <3>1 DEF Places, Taken, Promise!Next
  <2> QED
    BY <2>1, <2>2
<1> QED
  BY <1>1, <1>2, <1>3, <1>4, <1>5, <1>6 DEF Next, Promise!Next

(* The Redis list behind push_to_queue and pop_from_queue is a queue:      *)
(* entries are taken in the order they were queued and handed out at most  *)
(* once.                                                                   *)
THEOREM QueueDelivers == Spec => ImplementsDelivery
<1>1. Init => Promise!Init
  BY DEF Init, Promise!Init
<1> QED
  BY <1>1, DeliveryStep, QueueAlways, PTL DEF Spec, ImplementsDelivery, Promise!Spec
=============================================================================
