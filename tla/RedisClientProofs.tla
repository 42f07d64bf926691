-------------------------- MODULE RedisClientProofs --------------------------
(***************************************************************************)
(* Proofs about RedisClient: for any tasks, an application that keeps the  *)
(* order of README.md (Orderly) works with one client and can close all    *)
(* that is open.  The invariant says that only one instance is ever built. *)
(***************************************************************************)
EXTENDS RedisClient, TLAPS

(* In whatever order tasks initialize, close and work: an await is always  *)
(* for an instance that was built.                                         *)
Awaited == TypeOK /\ \A t \in Tasks : at[t] # "idle" => mine[t] # None

LEMMA AwaitedStep ==
    ASSUME Awaited, [Next]_vars
    PROVE  Awaited'
<1> USE RedisClientAssumption DEF Awaited, TypeOK, Instances, None
<1>1. CASE UNCHANGED vars
  BY <1>1 DEF vars
<1>2. ASSUME NEW t \in Tasks, GetRedisClient(t) \/ InitializeRedis(t)
      PROVE  Awaited'
  <2>1. instance' \in {None} \cup Instances /\ created' \in 0..MaxInstances
    BY <1>2 DEF GetRedisClient, InitializeRedis
  <2>2. InitializeRedis(t) => instance' # None
    BY DEF InitializeRedis
  <2> QED
    <3>1. CASE GetRedisClient(t)
      BY <2>1, <3>1 DEF GetRedisClient
    <3>2. CASE InitializeRedis(t)
      BY <2>1, <2>2, <3>2 DEF InitializeRedis
    <3> QED
      BY <1>2, <3>1, <3>2
<1>3. ASSUME NEW t \in Tasks, HealthOk(t) \/ HealthFails(t)
      PROVE  Awaited'
  <2>1. connected' \subseteq Instances
    <3>1. mine[t] \in Instances
      BY <1>3 DEF HealthOk, HealthFails
    <3>2. connected' \in {connected, connected \cup {mine[t]}}
      BY <1>3 DEF HealthOk, HealthFails
    <3> HIDE DEF Instances
    <3> QED
      BY <3>1, <3>2
  <2>2. CASE HealthOk(t)
    BY <2>1, <2>2 DEF HealthOk
  <2>3. CASE HealthFails(t)
    BY <2>1, <2>3 DEF HealthFails
  <2> QED
    BY <1>3, <2>2, <2>3
<1>4. ASSUME NEW t \in Tasks,
             CloseRedis(t) \/ Disconnected(t) \/ DisconnectFails(t) \/ Cancelled(t)
      PROVE  Awaited'
  <2>1. CASE CloseRedis(t)
    BY <2>1 DEF CloseRedis
  <2>2. CASE Disconnected(t)
    BY <2>2 DEF Disconnected
  <2>3. CASE DisconnectFails(t)
    <3>1. mine[t] \in Instances
      BY <2>3 DEF DisconnectFails
    <3>2. connected' \subseteq Instances /\ abandoned' \subseteq Instances
      BY <2>3, <3>1 DEF DisconnectFails
    <3> HIDE DEF Instances
    <3> QED
      BY <2>3, <3>2 DEF DisconnectFails
  <2>4. CASE Cancelled(t)
    BY <2>4 DEF Cancelled
  <2> QED
    BY <1>4, <2>1, <2>2, <2>3, <2>4
<1>5. ASSUME NEW t \in Tasks, Command(t) \/ Finish(t)
      PROVE  Awaited'
  BY <1>5 DEF Command, Finish
<1> QED
  BY <1>1, <1>2, <1>3, <1>4, <1>5 DEF Next

LEMMA InitAwaited ==
    ASSUME Init
    PROVE  Awaited
BY RedisClientAssumption DEF Init, Awaited, TypeOK, None

(* Type correctness of RedisClient, for applications that keep no order,   *)
(* too.                                                                    *)
THEOREM ClientTypes == Spec => []TypeOK
<1>1. Awaited => TypeOK
  BY DEF Awaited
<1> QED
  BY <1>1, InitAwaited, AwaitedStep, PTL DEF Spec

-----------------------------------------------------------------------------
(* In order, there is one instance, and the global loses it only when Main *)
(* has closed it, after which nobody sends a command.                      *)
OneInstance ==
    /\ created \in {0, 1} /\ instance \in {None, 1} /\ connected \subseteq {1}
    /\ created = 0 => instance = None /\ connected = {} /\ returned[Main] = "-"
    /\ created = 1 /\ instance = None => ~Started
    /\ \A t \in Tasks :
          /\ holds[t] \in {None, 1} /\ mine[t] \in {None, 1}
          /\ holds[t] # None => created = 1
          /\ at[t] # "idle" => t = Main /\ mine[t] = 1 /\ instance = 1
    /\ instance = 1 => created = 1
    /\ instance = None => connected \subseteq abandoned

LEMMA OneInstanceStep ==
    ASSUME Orderly, Awaited, OneInstance, [Next]_vars
    PROVE  OneInstance'
<1> USE RedisClientAssumption DEF Awaited, TypeOK, OneInstance, Started, None
<1>1. CASE UNCHANGED vars
  BY <1>1 DEF vars
<1>2. ASSUME NEW t \in Tasks, GetRedisClient(t)
      PROVE  OneInstance'
  BY <1>2 DEF GetRedisClient
<1>3. ASSUME NEW t \in Tasks, InitializeRedis(t)
      PROVE  OneInstance'
  BY <1>3 DEF InitializeRedis, MayStart
<1>4. ASSUME NEW t \in Tasks, HealthOk(t) \/ HealthFails(t)
      PROVE  OneInstance'
  <2>1. CASE HealthOk(t)
    BY <2>1 DEF HealthOk
  <2>2. CASE HealthFails(t)
    BY <2>2 DEF HealthFails
  <2> QED
    BY <1>4, <2>1, <2>2
<1>5. ASSUME NEW t \in Tasks, CloseRedis(t)
      PROVE  OneInstance'
  BY <1>5 DEF CloseRedis, MayStop
<1>6. ASSUME NEW t \in Tasks, Disconnected(t) \/ DisconnectFails(t)
      PROVE  OneInstance'
  <2>1. CASE Disconnected(t)
    BY <2>1 DEF Disconnected
  <2>2. CASE DisconnectFails(t)
    BY <2>2 DEF DisconnectFails
  <2> QED
    BY <1>6, <2>1, <2>2
<1>7. ASSUME NEW t \in Tasks, Cancelled(t)
      PROVE  OneInstance'
  BY <1>7 DEF Cancelled
<1>8. ASSUME NEW t \in Tasks, Command(t) \/ Finish(t)
      PROVE  OneInstance'
  BY <1>8 DEF Command, Finish
<1> QED
  BY <1>1, <1>2, <1>3, <1>4, <1>5, <1>6, <1>7, <1>8 DEF Next

THEOREM OneInstanceAlways ==
    ASSUME Orderly
    PROVE  Spec => [](Awaited /\ OneInstance)
<1>1. Init => OneInstance
  BY RedisClientAssumption DEF Init, OneInstance, None
<1>2. Awaited /\ OneInstance /\ [Next]_vars => (Awaited /\ OneInstance)'
  BY AwaitedStep, OneInstanceStep
<1> QED
  BY <1>1, <1>2, InitAwaited, PTL DEF Spec

(* In an application that initializes before anybody has a client, or not  *)
(* at all, and closes when nobody needs it any more, any number of tasks   *)
(* work with one instance.                                                 *)
THEOREM SameInstanceAlways ==
    ASSUME Orderly
    PROVE  Spec => []SameInstance
<1>1. OneInstance => SameInstance
  BY DEF OneInstance, SameInstance, None
<1> QED
  BY <1>1, OneInstanceAlways, PTL

(* ... and close_redis can close every connection that is open, until the  *)
(* aclose() of the client has raised.                                      *)
THEOREM CloseReachesAllAlways ==
    ASSUME Orderly
    PROVE  Spec => []CloseReachesAll
<1>1. OneInstance => CloseReachesAll
  BY DEF OneInstance, CloseReachesAll, None
<1> QED
  BY <1>1, OneInstanceAlways, PTL
=============================================================================
