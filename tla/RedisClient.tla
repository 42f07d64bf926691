---------------------------- MODULE RedisClient ----------------------------
(***************************************************************************)
(* The process-wide client of oots_lib/lib/UseRedis.py: get_redis_client,  *)
(* initialize_redis and close_redis share the global _redis_instance, and  *)
(* the latter two suspend between reading it and writing or returning it.  *)
(* Whoever got a client keeps it (MakeEvidence, EDMException and           *)
(* SOAPTransport do in self.redis); a command sent on a closed client      *)
(* opens its connection pool again.                                        *)
(***************************************************************************)
EXTENDS Naturals

CONSTANTS
    Tasks,          \* coroutines of the application
    Main,           \* the task that starts and stops the application
    Orderly,        \* only Main initializes, before anybody has a client, and
                    \* closes, when nobody needs it any more or it could not start
    MaxInstances    \* bound: UseRedisAsync instances ever built

ASSUME RedisClientAssumption ==
    /\ Main \in Tasks /\ MaxInstances \in Nat
    /\ Orderly \in BOOLEAN

None == 0                       \* instances are numbered from 1

VARIABLES
    instance,   \* _redis_instance
    created,    \* how many instances were built
    connected,  \* the instances with open connections
    abandoned,  \* the instances whose aclose() has raised (a history)
    at,         \* "idle", or the await a task is in
    mine,       \* the instance whose health or disconnect it awaits
    holds,      \* the instance a task works with
    returned,   \* what its latest initialize_redis or close_redis ended with
    done        \* the tasks that send no more commands

vars == <<instance, created, connected, abandoned, at, mine, holds, returned, done>>

Instances == 1..MaxInstances

TypeOK ==
    /\ instance \in {None} \cup Instances
    /\ created \in 0..MaxInstances
    /\ connected \subseteq Instances /\ abandoned \subseteq Instances
    /\ at \in [Tasks -> {"idle", "health_check", "disconnect"}]
    /\ mine \in [Tasks -> {None} \cup Instances]
    /\ holds \in [Tasks -> {None} \cup Instances]
    /\ returned \in [Tasks -> {"-", "client", "None", "raised", "closed"}]
    /\ done \subseteq Tasks

Init ==
    /\ instance = None /\ created = 0 /\ connected = {} /\ abandoned = {}
    /\ at = [t \in Tasks |-> "idle"]
    /\ mine = [t \in Tasks |-> None]
    /\ holds = [t \in Tasks |-> None]
    /\ returned = [t \in Tasks |-> "-"]
    /\ done = {}

-----------------------------------------------------------------------------
(* The order an application keeps, when Orderly: README.md initializes     *)
(* first, docs/api.md also lets get_redis_client build the client.         *)
Started == Orderly => at[Main] = "idle" /\ returned[Main] \in {"-", "client"}

MayStart(t) == Orderly => t = Main /\ created = 0 /\ done = {}

MayStop(t) == Orderly => t = Main /\ (returned[t] = "raised" \/ done = Tasks \ {t})

GetRedisClient_Always(t) ==
    /\ at[t] = "idle" /\ t \notin done /\ Started /\ created < MaxInstances
    /\ instance' = created + 1 /\ created' = created + 1
    /\ holds' = [holds EXCEPT ![t] = instance']
    /\ UNCHANGED <<connected, abandoned, at, mine, returned, done>>
GetRedisClient(t) ==
    /\ at[t] = "idle" /\ t \notin done /\ Started
    /\ \/ instance # None /\ UNCHANGED <<instance, created>>
       \/ /\ instance = None /\ created < MaxInstances
          /\ instance' = created + 1 /\ created' = created + 1
    /\ holds' = [holds EXCEPT ![t] = instance']
    /\ UNCHANGED <<connected, abandoned, at, mine, returned, done>>

InitializeRedis(t) ==
    /\ at[t] = "idle" /\ t \notin done /\ MayStart(t) /\ created < MaxInstances
    /\ instance' = created + 1 /\ created' = created + 1
    /\ mine' = [mine EXCEPT ![t] = instance']
    /\ at' = [at EXCEPT ![t] = "health_check"]
    /\ UNCHANGED <<connected, abandoned, holds, returned, done>>

(* The ping was answered: what is returned is the global of this moment.   *)
HealthOk(t) ==
    /\ at[t] = "health_check"
    /\ connected' = connected \cup {mine[t]}
    /\ holds' = [holds EXCEPT ![t] = instance]
    /\ returned' = [returned EXCEPT ![t] = IF instance = None THEN "None" ELSE "client"]
    /\ at' = [at EXCEPT ![t] = "idle"]
    /\ UNCHANGED <<instance, created, abandoned, mine, done>>

HealthFails(t) ==
    /\ at[t] = "health_check"
    /\ connected' \in {connected, connected \cup {mine[t]}}
    /\ returned' = [returned EXCEPT ![t] = "raised"]
    /\ at' = [at EXCEPT ![t] = "idle"]
    /\ UNCHANGED <<instance, created, abandoned, mine, holds, done>>

CloseRedis(t) ==
    /\ at[t] = "idle" /\ t \notin done /\ MayStop(t) /\ instance # None
    /\ mine' = [mine EXCEPT ![t] = instance]
    /\ at' = [at EXCEPT ![t] = "disconnect"]
    /\ UNCHANGED <<instance, created, connected, abandoned, holds, returned, done>>

(* The global becomes None whichever instance it holds by now.             *)
Disconnected_NotAwaited(t) ==
    /\ at[t] = "disconnect"
    /\ instance' = None
    /\ returned' = [returned EXCEPT ![t] = "closed"]
    /\ at' = [at EXCEPT ![t] = "idle"]
    /\ UNCHANGED <<created, connected, abandoned, mine, holds, done>>
Disconnected(t) ==
    /\ at[t] = "disconnect"
    /\ connected' = connected \ {mine[t]}
    /\ instance' = None
    /\ returned' = [returned EXCEPT ![t] = "closed"]
    /\ at' = [at EXCEPT ![t] = "idle"]
    /\ UNCHANGED <<created, abandoned, mine, holds, done>>

(* aclose() raises, with connections closed or not: disconnect() swallows  *)
(* the exception, so that close_redis goes on as if it had succeeded.      *)
DisconnectFails(t) ==
    /\ at[t] = "disconnect"
    /\ connected' \in {connected, connected \ {mine[t]}}
    /\ abandoned' = abandoned \cup {mine[t]}
    /\ instance' = None
    /\ returned' = [returned EXCEPT ![t] = "closed"]
    /\ at' = [at EXCEPT ![t] = "idle"]
    /\ UNCHANGED <<created, mine, holds, done>>

(* A cancelled close_redis keeps the global.                               *)
Cancelled(t) ==
    /\ at[t] # "idle"
    /\ returned' = [returned EXCEPT ![t] = "raised"]
    /\ at' = [at EXCEPT ![t] = "idle"]
    /\ UNCHANGED <<instance, created, connected, abandoned, mine, holds, done>>

(* Any command on the client a task holds.                                 *)
Command_NoClient(t) ==
    /\ at[t] = "idle" /\ t \notin done /\ Started
    /\ connected' = connected \cup {holds[t]}
    /\ UNCHANGED <<instance, created, abandoned, at, mine, holds, returned, done>>
Command(t) ==
    /\ at[t] = "idle" /\ t \notin done /\ Started /\ holds[t] # None
    /\ connected' = connected \cup {holds[t]}
    /\ UNCHANGED <<instance, created, abandoned, at, mine, holds, returned, done>>

Finish(t) ==
    /\ at[t] = "idle" /\ t # Main /\ t \notin done /\ Started
    /\ done' = done \cup {t}
    /\ UNCHANGED <<instance, created, connected, abandoned, at, mine, holds, returned>>

Next ==
    \E t \in Tasks :
        \/ GetRedisClient(t) \/ InitializeRedis(t) \/ CloseRedis(t)
        \/ HealthOk(t) \/ HealthFails(t) \/ Disconnected(t) \/ DisconnectFails(t)
        \/ Cancelled(t) \/ Command(t) \/ Finish(t)

Spec == Init /\ [][Next]_vars

-----------------------------------------------------------------------------
(* "A singleton, the same instance everywhere": any two tasks that hold a  *)
(* client hold the same.                                                   *)
SameInstance ==
    \A t, u \in Tasks : None \notin {holds[t], holds[u]} => holds[t] = holds[u]

(* close_redis can close whatever is open: until aclose() itself raises,   *)
(* every open connection belongs to the client of the global, also after   *)
(* an initialize_redis that raised and a close_redis that was cancelled.   *)
(* So once close_redis has returned, only a failed aclose() leaves any.    *)
CloseReachesAll == connected \subseteq {instance} \cup abandoned
=============================================================================
