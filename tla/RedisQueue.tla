----------------------------- MODULE RedisQueue -----------------------------
(***************************************************************************)
(* The queue half of UseRedisAsync (oots_lib/lib/UseRedis.py):             *)
(* push_to_queue is an LPUSH, pop_from_queue a BRPOP, on one Redis list.   *)
(* A command travels to the server, is applied, and its reply travels      *)
(* back; either may be lost.  The client then repeats the command up to    *)
(* Retries times before it raises.                                         *)
(***************************************************************************)
EXTENDS Naturals, Sequences, SequencesExt

CONSTANTS
    Messages,   \* each is pushed by one call of push_to_queue
    Consumers,  \* tasks that call pop_from_queue in a loop
    Retries     \* how often the Redis client repeats a command

ASSUME RedisQueueAssumption == Retries \in Nat

VARIABLES
    push,       \* where the push_to_queue of each message is
    pushTries,  \* how often its command was repeated
    log,        \* every entry the server ever queued
    list,       \* the Redis list, its head first; entries by position in log
    pop,        \* where each consumer is
    popTries,   \* how often its command was repeated
    reply,      \* the entry in the reply on its way to it, or 0
    lost,       \* the entries in replies that were lost
    handed      \* the entries that calls returned

vars == <<push, pushTries, log, list, pop, popTries, reply, lost, handed>>
producers == <<push, pushTries>>
consumers == <<pop, popTries, reply, lost, handed>>

\* The entries, by position in log.
Queued == 1..Len(log)

TypeOK ==
    /\ push \in [Messages -> {"idle", "sent", "applied", "ok", "raised"}]
    /\ pushTries \in [Messages -> 0..Retries]
    /\ log \in Seq(Messages)
    /\ list \in Seq(Queued)
    /\ pop \in [Consumers -> {"ready", "blocked", "answered"}]
    /\ popTries \in [Consumers -> 0..Retries]
    /\ reply \in [Consumers -> {0} \cup Queued]
    /\ lost \subseteq Queued
    /\ handed \subseteq Queued

Init ==
    /\ push = [m \in Messages |-> "idle"]
    /\ pushTries = [m \in Messages |-> 0]
    /\ log = <<>> /\ list = <<>>
    /\ pop = [c \in Consumers |-> "ready"]
    /\ popTries = [c \in Consumers |-> 0]
    /\ reply = [c \in Consumers |-> 0]
    /\ lost = {} /\ handed = {}

-----------------------------------------------------------------------------
(* push_to_queue *)
Push(m) ==
    /\ push[m] = "idle"
    /\ push' = [push EXCEPT ![m] = "sent"]
    /\ UNCHANGED <<pushTries, log, list, consumers>>

Lpush_Right(m) ==
    /\ push[m] = "sent"
    /\ push' = [push EXCEPT ![m] = "applied"]
    /\ log' = Append(log, m)
    /\ list' = Append(list, Len(log'))
    /\ UNCHANGED <<pushTries, consumers>>
Lpush(m) ==
    /\ push[m] = "sent"
    /\ push' = [push EXCEPT ![m] = "applied"]
    /\ log' = Append(log, m)
    /\ list' = <<Len(log')>> \o list
    /\ UNCHANGED <<pushTries, consumers>>

PushReturns(m) ==
    /\ push[m] = "applied"
    /\ push' = [push EXCEPT ![m] = "ok"]
    /\ UNCHANGED <<pushTries, log, list, consumers>>

PushRepeated_Unlimited(m) ==
    /\ push[m] \in {"sent", "applied"}
    /\ push' = [push EXCEPT ![m] = "sent"]
    /\ pushTries' = [pushTries EXCEPT ![m] = @ + 1]
    /\ UNCHANGED <<log, list, consumers>>
PushRepeated(m) ==
    /\ push[m] \in {"sent", "applied"} /\ pushTries[m] < Retries
    /\ push' = [push EXCEPT ![m] = "sent"]
    /\ pushTries' = [pushTries EXCEPT ![m] = @ + 1]
    /\ UNCHANGED <<log, list, consumers>>

PushRaises(m) ==
    /\ push[m] \in {"sent", "applied"}
    /\ push' = [push EXCEPT ![m] = "raised"]
    /\ UNCHANGED <<pushTries, log, list, consumers>>

-----------------------------------------------------------------------------
(* pop_from_queue *)
Pop(c) ==
    /\ pop[c] = "ready"
    /\ pop' = [pop EXCEPT ![c] = "blocked"]
    /\ popTries' = [popTries EXCEPT ![c] = 0]
    /\ UNCHANGED <<producers, log, list, reply, lost, handed>>

(* The server removes the last entry and answers with it ...               *)
Brpop_Rotate(c) ==
    /\ pop[c] = "blocked" /\ list # <<>>
    /\ pop' = [pop EXCEPT ![c] = "answered"]
    /\ reply' = [reply EXCEPT ![c] = Last(list)]
    /\ list' = <<Last(list)>> \o Front(list)
    /\ UNCHANGED <<producers, log, popTries, lost, handed>>
Brpop(c) ==
    /\ pop[c] = "blocked" /\ list # <<>>
    /\ pop' = [pop EXCEPT ![c] = "answered"]
    /\ reply' = [reply EXCEPT ![c] = Last(list)]
    /\ list' = Front(list)
    /\ UNCHANGED <<producers, log, popTries, lost, handed>>

(* ... or, with nothing to remove for REDIS_TIMEOUT seconds, with nil.     *)
BrpopNil(c) ==
    /\ pop[c] = "blocked" /\ list = <<>>
    /\ pop' = [pop EXCEPT ![c] = "answered"]
    /\ UNCHANGED <<producers, log, list, popTries, reply, lost, handed>>

Ends(c) ==
    /\ pop' = [pop EXCEPT ![c] = "ready"]
    /\ reply' = [reply EXCEPT ![c] = 0]

\* The entry in the reply on its way to c, if there is one.
Carried(c) == {reply[c]} \ {0}

PopReturns(c) ==
    /\ pop[c] = "answered"
    /\ Ends(c)
    /\ handed' = handed \cup Carried(c)
    /\ UNCHANGED <<producers, log, list, popTries, lost>>

(* The command or its reply is lost: socket_timeout, a broken connection.  *)
PopRepeated_KeepsReply(c) ==
    /\ pop[c] \in {"blocked", "answered"} /\ popTries[c] < Retries
    /\ pop' = [pop EXCEPT ![c] = "blocked"]
    /\ popTries' = [popTries EXCEPT ![c] = @ + 1]
    /\ UNCHANGED <<producers, log, list, reply, lost, handed>>
PopRepeated(c) ==
    /\ pop[c] \in {"blocked", "answered"} /\ popTries[c] < Retries
    /\ lost' = lost \cup Carried(c)
    /\ pop' = [pop EXCEPT ![c] = "blocked"]
    /\ reply' = [reply EXCEPT ![c] = 0]
    /\ popTries' = [popTries EXCEPT ![c] = @ + 1]
    /\ UNCHANGED <<producers, log, list, handed>>

(* pop_from_queue returns None after a TimeoutError, as it does for an     *)
(* empty queue; a ConnectionError and a cancellation are raised.           *)
PopFails(c) ==
    /\ pop[c] \in {"blocked", "answered"}
    /\ lost' = lost \cup Carried(c)
    /\ Ends(c)
    /\ UNCHANGED <<producers, log, list, popTries, handed>>

-----------------------------------------------------------------------------
Next ==
    \/ \E m \in Messages : \/ Push(m) \/ Lpush(m) \/ PushReturns(m)
                           \/ PushRepeated(m) \/ PushRaises(m)
    \/ \E c \in Consumers : \/ Pop(c) \/ Brpop(c) \/ BrpopNil(c)
                            \/ PopReturns(c) \/ PopRepeated(c) \/ PopFails(c)

Spec == Init /\ [][Next]_vars

(* Consumers poll in a loop; the network does not lose every BRPOP before  *)
(* it arrives.                                                             *)
FairSpec ==
    /\ Spec
    /\ \A c \in Consumers :
          /\ WF_vars(Pop(c)) /\ SF_vars(Brpop(c))
          /\ WF_vars(PopReturns(c) \/ PopFails(c))

-----------------------------------------------------------------------------
(* Repeats, lost replies and racing consumers neither reorder entries nor  *)
(* hand one entry out twice.                                               *)
Promise == INSTANCE Delivery WITH taken <- Len(log) - Len(list)
ImplementsDelivery == Promise!Spec

(* Every entry is in exactly one place, once: in the list, in a reply      *)
(* under way, with the consumer it was handed to, or lost with its reply.  *)
InOnePlace ==
    LET waiting == Range(list)
        flying  == UNION {Carried(c) : c \in Consumers}
    IN  /\ IsInjective(list)
        /\ \A c, d \in Consumers : reply[c] = reply[d] /\ reply[c] # 0 => c = d
        /\ Queued = waiting \cup flying \cup handed \cup lost
        /\ waiting \cap (flying \cup handed \cup lost) = {}
        /\ flying \cap (handed \cup lost) = {}
        /\ handed \cap lost = {}

(* Every entry leaves the list while consumers poll.                       *)
Entries == 1..(Cardinality(Messages) * (Retries + 1))
EveryEntryTaken == \A i \in Entries : i \in Range(list) ~> i \notin Range(list)
=============================================================================
