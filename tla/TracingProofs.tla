---------------------------- MODULE TracingProofs ----------------------------
(***************************************************************************)
(* Proofs about Tracing, for any logs, transports and numbers of exchanges *)
(* and uses of "async with".  The invariant of the logger (Owned) tells    *)
(* the clients that requests own from the shared one; that of the          *)
(* transports (Journal) relates the calls of a payload to the exchanges.   *)
(***************************************************************************)
EXTENDS Tracing, FiniteSetTheorems, TLAPS

(* LoggerTypeOK but for the bound on the clients.                          *)
LoggerTypes ==
    /\ built \in Nat /\ client \in 0..built /\ closing \in BOOLEAN
    /\ open \subseteq 1..built
    /\ at \in [Logs -> {"idle", "scheduled", "done"} \cup Requests]
    /\ uses \in [Logs -> 0..built]
    /\ owns \in [Logs -> BOOLEAN]
    /\ result \in [Logs -> {"-"} \cup Results]
    /\ stored \subseteq Logs

Owner(l) == at[l] \in Requests /\ owns[l]

(* A client that a request owns is open, is not the shared one and belongs *)
(* to one request; every other open client is the shared one.              *)
Owned ==
    /\ \A l \in Logs : Owner(l) => uses[l] \in open /\ uses[l] # client
    /\ \A l, k \in Logs : Owner(l) /\ Owner(k) /\ uses[l] = uses[k] => l = k
    /\ \A c \in open : c = client \/ \E l \in Logs : Owner(l) /\ uses[l] = c
    /\ closing => client \notin open
    /\ \A l \in Logs : at[l] # "done" => result[l] = "-"
    /\ \A l \in Logs : at[l] \in {"idle", "scheduled"} => ~owns[l]

Told ==
    /\ \A l \in Logs : result[l] = "client closed" => ~owns[l]
    /\ \A l \in Logs : result[l] = "True" => l \in stored

LoggerInv == LoggerTypes /\ Owned /\ Told

LEMMA InitLogger ==
    ASSUME LoggerInit
    PROVE  LoggerInv
<1>1. \A l \in Logs : at[l] = "idle" /\ owns[l] = FALSE /\ result[l] = "-"
  BY DEF LoggerInit
<1>2. LoggerTypes
  <2>1. /\ built = 0 /\ client = 0 /\ closing = FALSE /\ open = {}
        /\ stored = {}
    BY DEF LoggerInit, NoClient
  <2>2. /\ at \in [Logs -> {"idle", "scheduled", "done"} \cup Requests]
        /\ owns \in [Logs -> BOOLEAN]
        /\ result \in [Logs -> {"-"} \cup Results]
    BY DEF LoggerInit
  <2>3. client \in 0..built /\ uses \in [Logs -> 0..built]
    BY <2>1 DEF LoggerInit, NoClient
  <2>4. built \in Nat /\ closing \in BOOLEAN
    BY <2>1
  <2>5. open \subseteq 1..built /\ stored \subseteq Logs
    BY <2>1
  <2> QED
    BY <2>2, <2>3, <2>4, <2>5 DEF LoggerTypes
<1>3. Owned
  BY <1>1 DEF LoggerInit, Owned, Owner, Requests
<1>4. Told
  BY <1>1 DEF Told
<1> QED
  BY <1>2, <1>3, <1>4 DEF LoggerInv

LEMMA EnterStep ==
    ASSUME LoggerInv, AEnter \/ AClose \/ ACloseAgain \/ AClosed
    PROVE  LoggerInv'
<1>0. /\ UNCHANGED <<at, uses, owns, result, stored>>
      /\ Told' /\ \A l \in Logs : Owner(l)' <=> Owner(l)
  BY DEF AEnter, AClose, ACloseAgain, AClosed, callVars, LoggerInv, Told, Owner
<1> USE DEF LoggerInv, LoggerTypes, NoClient
<1>1. CASE AEnter
  <2>1. /\ built' = built + 1 /\ client' = built' /\ open' = open \cup {built'}
        /\ client \notin open /\ ~closing /\ ~closing'
    BY <1>1 DEF AEnter
  <2>2. /\ 0..built \subseteq 0..built' /\ 1..built \subseteq 1..built'
        /\ built' \in 1..built' /\ built' \in 0..built' /\ built' \notin 0..built
    BY <2>1
  <2>3. uses' \in [Logs -> 0..built']
    BY <1>0, <2>2
  <2>4. \A l \in Logs : uses[l] # client'
    BY <2>1, <2>2
  <2>5. LoggerTypes'
    <3>1. built' \in Nat /\ client' \in 0..built'
      BY <2>1, <2>2
    <3>4. closing' \in BOOLEAN
      BY <1>1 DEF AEnter
    <3>2. open' \subseteq 1..built'
      BY <2>1, <2>2
    <3> QED
      BY <1>0, <2>3, <3>1, <3>2, <3>4
  <2>6. Owned'
    BY <1>0, <2>1, <2>4 DEF Owned
  <2> QED
    BY <1>0, <2>5, <2>6
<1>2. CASE AClose
  <2>1. /\ UNCHANGED <<client, built>> /\ open' = open \ {client} /\ closing'
    BY <1>2 DEF AClose
  <2>2. LoggerTypes'
    BY <1>0, <2>1
  <2>3. Owned'
    BY <1>0, <2>1 DEF Owned
  <2> QED
    BY <1>0, <2>2, <2>3
<1>3. CASE AClosed \/ ACloseAgain
  <2>1. /\ client' \in {NoClient, client} /\ closing /\ closing' \in BOOLEAN
        /\ UNCHANGED <<built, open>>
    BY <1>3 DEF AClosed, ACloseAgain
  <2>2. client' \notin open /\ client' \in 0..built /\ client \notin open
    BY <2>1 DEF Owned
  <2>3. LoggerTypes'
    BY <1>0, <2>1, <2>2
  <2>4. Owned'
    BY <1>0, <2>1, <2>2 DEF Owned
  <2> QED
    BY <1>0, <2>3, <2>4
<1> QED
  BY <1>1, <1>2, <1>3

(* A call ends: its own client goes, the clients of the others stay.       *)
LEMMA EndStep ==
    ASSUME LoggerInv, NEW l \in Logs,
           NEW r \in Results, Ends(l, r),
           at[l] \in {"scheduled"} \cup Requests,
           owns' = owns \/ owns' = [owns EXCEPT ![l] = FALSE],
           stored \subseteq stored', stored' \subseteq stored \cup {l},
           r = "True" => l \in stored',
           r = "client closed" => ~owns'[l]
    PROVE  LoggerInv'
<1> USE DEF LoggerInv, Ends, Requests
<1>1. /\ open' \subseteq open
      /\ \A c \in open : c \in open' <=> ~(Owner(l) /\ c = uses[l])
  BY DEF Released, Owned, Owner, LoggerTypes
<1>2. /\ \A k \in Logs : at'[k] = IF k = l THEN "done" ELSE at[k]
      /\ \A k \in Logs : result'[k] = IF k = l THEN r ELSE result[k]
      /\ \A k \in Logs : k # l => owns'[k] = owns[k]
  BY DEF LoggerTypes
<1>3. \A k \in Logs : Owner(k)' <=> Owner(k) /\ k # l
  <2>1. ~Owner(l)'
    <3>1. at'[l] = "done" /\ "done" \notin {"health", "post"}
      BY <1>2
    <3> QED
      BY ONLY <3>1 DEF Owner, Requests
  <2>2. ASSUME NEW k \in Logs, k # l PROVE Owner(k)' <=> Owner(k)
    BY <1>2, <2>2 DEF Owner
  <2> QED
    BY <2>1, <2>2
<1>4. LoggerTypes'
  BY <1>1 DEF LoggerTypes
<1>5. Owned'
  <2>1. \A k \in Logs : Owner(k)' => uses'[k] \in open' /\ uses'[k] # client'
    BY <1>1, <1>3 DEF Owned
  <2>2. \A k, j \in Logs : Owner(k)' /\ Owner(j)' /\ uses'[k] = uses'[j] => k = j
    BY <1>3 DEF Owned
  <2>3. \A c \in open' : c = client' \/ \E k \in Logs : Owner(k)' /\ uses'[k] = c
    <3>1. SUFFICES ASSUME NEW c \in open', c # client'
                   PROVE  \E k \in Logs : Owner(k)' /\ uses'[k] = c
      OBVIOUS
    <3>2. c \in open /\ c # client /\ ~(Owner(l) /\ c = uses[l]) /\ uses' = uses
      BY <1>1, <3>1
    <3>3. PICK k \in Logs : Owner(k) /\ uses[k] = c
      BY <3>2 DEF Owned
    <3>4. Owner(k)' /\ uses'[k] = c
      BY <1>3, <3>2, <3>3
    <3> QED
      BY <3>4
  <2>4. closing' => client' \notin open'
    BY <1>1 DEF Owned
  <2>5. \A k \in Logs : at'[k] # "done" => result'[k] = "-"
    BY <1>2 DEF Owned
  <2>6. ASSUME NEW k \in Logs, at'[k] \in {"idle", "scheduled"} PROVE ~owns'[k]
    <3>1. k # l /\ at[k] \in {"idle", "scheduled"}
      BY ONLY <1>2, <2>6
    <3> QED
      BY <1>2, <3>1 DEF Owned
  <2> QED
    BY <2>1, <2>2, <2>3, <2>4, <2>5, <2>6 DEF Owned
<1>6. Told'
  <2>1. ASSUME NEW k \in Logs, result'[k] = "client closed" PROVE ~owns'[k]
    <3>1. CASE k = l
      BY ONLY <1>2, <2>1, <3>1, r = "client closed" => ~owns'[l]
    <3>2. CASE k # l
      BY ONLY <1>2, <2>1, <3>2, LoggerInv DEF LoggerInv, Told
    <3> QED
      BY ONLY <3>1, <3>2
  <2>2. ASSUME NEW k \in Logs, result'[k] = "True" PROVE k \in stored'
    BY <1>2, <2>2 DEF Told
  <2> QED
    BY ONLY <2>1, <2>2 DEF Told
<1> QED
  BY <1>4, <1>5, <1>6

(* A call begins a request, on the shared client or on one of its own.     *)
LEMMA ConnectStep ==
    ASSUME LoggerInv, NEW l \in Logs, NEW where \in Requests,
           at[l] \in {"scheduled", "health"}, Connect(l, Released(l)),
           at' = [at EXCEPT ![l] = where],
           UNCHANGED <<closing, result, stored>>
    PROVE  LoggerInv'
<1> USE DEF LoggerInv, Connect, Requests
<1>1. /\ Released(l) \subseteq open
      /\ \A c \in open : c \in Released(l) <=> ~(Owner(l) /\ c = uses[l])
  BY DEF Released, Owned, Owner, LoggerTypes
<1>2. /\ \A k \in Logs : at'[k] = IF k = l THEN where ELSE at[k]
      /\ \A k \in Logs : k # l => owns'[k] = owns[k] /\ uses'[k] = uses[k]
      /\ owns'[l] = (client = NoClient)
  BY DEF LoggerTypes
<1>3. CASE client # NoClient
  <2>1. open' = Released(l) /\ UNCHANGED <<built, client>> /\ ~owns'[l]
    BY <1>2, <1>3
  <2>2. \A k \in Logs : Owner(k)' <=> Owner(k) /\ k # l
    BY <1>2, <2>1 DEF Owner
  <2>3. LoggerTypes'
    BY <1>1, <1>3, <2>1 DEF LoggerTypes
  <2>4. Owned'
    BY <1>1, <1>2, <2>1, <2>2 DEF Owned
  <2>5. Told'
    BY <1>2, <2>1 DEF Told
  <2> QED
    BY <2>3, <2>4, <2>5
<1>4. CASE client = NoClient
  <2>1. /\ built' = built + 1 /\ open' = Released(l) \cup {built'}
        /\ UNCHANGED client /\ owns'[l] /\ uses'[l] = built'
    BY <1>2, <1>4 DEF LoggerTypes
  <2>2. \A k \in Logs : Owner(k)' <=> Owner(k) \/ k = l
    BY <1>2, <2>1 DEF Owner
  <2>3. LoggerTypes'
    <3>0. built \in Nat /\ built' \in Nat
      BY <2>1 DEF LoggerTypes
    <3>1. 0..built \subseteq 0..built' /\ 1..built \subseteq 1..built'
          /\ built' \in 1..built'
      BY <2>1, <3>0
    <3>4. open' \subseteq 1..built'
      BY <1>1, <2>1, <3>1 DEF LoggerTypes
    <3>5. client' \in 0..built'
      BY <2>1, <3>1 DEF LoggerTypes
    <3>2. uses' \in [Logs -> 0..built']
      BY <1>4, <2>1, <3>0, <3>1 DEF LoggerTypes
    <3>3. owns' \in [Logs -> BOOLEAN]
      BY DEF LoggerTypes
    <3> QED
      BY <2>1, <3>0, <3>2, <3>3, <3>4, <3>5 DEF LoggerTypes
  <2>4. built' \notin open /\ built' # client /\ \A k \in Logs : uses[k] # built'
    BY <2>1 DEF LoggerTypes
  <2>5. client \notin open /\ client \notin open'
    BY <1>1, <1>4, <2>1, <2>4 DEF LoggerTypes, NoClient
  <2>6. Owned'
    BY <1>1, <1>2, <2>1, <2>2, <2>4, <2>5 DEF Owned
  <2>7. Told'
    BY <1>2, <2>1 DEF Told, Owned
  <2> QED
    BY <2>3, <2>6, <2>7
<1> QED
  BY <1>3, <1>4

LEMMA LoggerStep ==
    ASSUME LoggerInv, [LoggerNext]_loggerVars
    PROVE  LoggerInv'
<1> USE TraceabilityLoggerAssumption
<1>1. CASE UNCHANGED loggerVars
  BY <1>1 DEF loggerVars, LoggerInv, LoggerTypes, Owned, Owner, Told
<1>2. CASE AEnter \/ AClose \/ ACloseAgain \/ AClosed
  BY <1>2, EnterStep
<1>3. ASSUME NEW l \in Logs, LogInBackground(l) PROVE LoggerInv'
  <2>1. /\ at[l] = "idle" /\ at' = [at EXCEPT ![l] = "scheduled"]
        /\ UNCHANGED <<client, closing, built, open, uses, owns, result, stored>>
        /\ LoggerTypes /\ Owned /\ Told
    BY <1>3 DEF LogInBackground, LoggerInv
  <2>2. LoggerTypes' /\ Told'
    BY <2>1 DEF LoggerTypes, Told
  <2>3. \A k \in Logs : at'[k] = IF k = l THEN "scheduled" ELSE at[k]
    BY <2>1 DEF LoggerTypes
  <2>4. \A k \in Logs : Owner(k)' <=> Owner(k)
    BY <2>1, <2>3 DEF Owner, Requests
  <2>5. Owned'
    BY <2>1, <2>3, <2>4 DEF Owned
  <2> QED
    BY <2>2, <2>5 DEF LoggerInv
<1>4. ASSUME NEW l \in Logs, Run(l) PROVE LoggerInv'
  <2>1. Released(l) = open
    BY <1>4 DEF Run, Released, LoggerInv, Owned
  <2> QED
    BY <1>4, <2>1, ConnectStep DEF Run
<1>5. ASSUME NEW l \in Logs, Healthy(l) PROVE LoggerInv'
  BY <1>5, ConnectStep DEF Healthy, Requests
<1>6. ASSUME NEW l \in Logs, Refused(l) \/ NotConnected(l) PROVE LoggerInv'
  <2>1. owns'[l] = FALSE
    BY <1>6 DEF Refused, NotConnected, LoggerInv, LoggerTypes
  <2>2. CASE Refused(l)
    BY <2>1, <2>2, EndStep DEF Refused, Requests, Results
  <2>3. CASE NotConnected(l)
    BY <2>1, <2>3, EndStep DEF NotConnected, Requests, Results
  <2> QED
    BY <1>6, <2>2, <2>3
<1>7. ASSUME NEW l \in Logs, Unhealthy(l) \/ Posted(l) PROVE LoggerInv'
  BY <1>7, EndStep DEF Unhealthy, Posted, Requests, Results
<1>8. ASSUME NEW l \in Logs, MayStore(l)
      PROVE  stored \subseteq stored' /\ stored' \subseteq stored \cup {l}
  BY <1>8 DEF MayStore
<1>9. ASSUME NEW l \in Logs, HttpError(l) \/ OtherError(l) PROVE LoggerInv'
  BY <1>8, <1>9, EndStep DEF HttpError, OtherError, Results
<1>10. ASSUME NEW l \in Logs, ClientClosed(l) PROVE LoggerInv'
  <2>1. ~owns[l]
    BY <1>10 DEF ClientClosed, LoggerInv, Owned, Owner
  <2> QED
    BY <1>8, <1>10, <2>1, EndStep DEF ClientClosed, Results
<1>11. ASSUME NEW l \in Logs, Cancelled(l) PROVE LoggerInv'
  BY <1>8, <1>11, EndStep DEF Cancelled, Results
<1> QED
  BY <1>1, <1>2, <1>3, <1>4, <1>5, <1>6, <1>7, <1>9, <1>10, <1>11
     DEF LoggerNext, Step

LEMMA TracingKeepsLogger ==
    ASSUME LoggerInv, [TracingNext]_tracingVars
    PROVE  LoggerInv'
<1>1. [LoggerNext]_loggerVars
  BY DEF TracingNext, LoopStep, TransportStep, tracingVars
<1> QED
  BY <1>1, LoggerStep

LEMMA LoggerInvAlways == TracingSpec => []LoggerInv
<1>1. TracingInit => LoggerInv
  BY InitLogger DEF TracingInit
<1>2. LoggerInv /\ [TracingNext]_tracingVars => LoggerInv'
  BY TracingKeepsLogger
<1> QED
  BY <1>1, <1>2, PTL DEF TracingSpec

(* However calls fail, are cancelled or lose the shared client to aclose() *)
(* (the "finally" of _request), no client stays open that neither the      *)
(* logger nor a request under way holds.                                   *)
THEOREM NoClientLeakAlways == TracingSpec => []NoClientLeak
<1>1. LoggerInv => NoClientLeak
  <2> SUFFICES ASSUME LoggerInv, NEW c \in open
               PROVE  c \in {client} \cup
                        {uses[l] : l \in {k \in Logs : at[k] \in Requests /\ owns[k]}}
    BY DEF NoClientLeak
  <2>1. c = client \/ \E l \in Logs : Owner(l) /\ uses[l] = c
    BY DEF LoggerInv, Owned
  <2> QED
    BY <2>1 DEF Owner
<1> QED
  BY <1>1, LoggerInvAlways, PTL

(* No request on a client of its own ends because of aclose(), whenever    *)
(* and however often that is called (_request, aclose).                    *)
THEOREM OwnClientUndisturbedAlways == TracingSpec => []OwnClientUndisturbed
<1>1. LoggerInv => OwnClientUndisturbed
  BY DEF LoggerInv, Told, OwnClientUndisturbed
<1> QED
  BY <1>1, LoggerInvAlways, PTL

(* A call of the logger that returned True was stored by the service.      *)
THEOREM TrueMeansStoredAlways == TracingSpec => []TrueMeansStored
<1>1. LoggerInv => TrueMeansStored
  BY DEF LoggerInv, Told, TrueMeansStored
<1> QED
  BY <1>1, LoggerInvAlways, PTL

(* How many clients there can be: one for every use of "async with", and   *)
(* one for each of the at most two requests of a call.                     *)
Begun == {l \in Logs : at[l] \notin {"idle", "scheduled"}}
Past  == {l \in Logs : at[l] \in {"post", "done"}}

Bounded == built <= MaxEntered + Cardinality(Begun) + Cardinality(Past)

LEMMA Sizes ==
    /\ Cardinality(Begun) \in 0..Cardinality(Logs)
    /\ Cardinality(Past) \in 0..Cardinality(Logs)
    /\ IsFiniteSet(Begun) /\ IsFiniteSet(Past) /\ Cardinality(Logs) \in Nat
<1> USE TraceabilityLoggerAssumption
<1>1. Begun \in SUBSET Logs /\ Past \in SUBSET Logs
  BY DEF Begun, Past
<1> QED
  BY <1>1, FS_Subset, FS_CardinalityType

(* A call never goes back, so neither do the numbers.                      *)
LEMMA Forward ==
    ASSUME Begun \subseteq Begun', Past \subseteq Past'
    PROVE  /\ Cardinality(Begun) <= Cardinality(Begun)'
           /\ Cardinality(Past) <= Cardinality(Past)'
           /\ Cardinality(Begun)' \in Nat /\ Cardinality(Past)' \in Nat
<1> USE TraceabilityLoggerAssumption
<1>1. Begun' \in SUBSET Logs /\ Past' \in SUBSET Logs
  BY DEF Begun, Past
<1>2. IsFiniteSet(Begun') /\ IsFiniteSet(Past')
  BY <1>1, FS_Subset
<1> QED
  BY <1>2, FS_Subset, FS_CardinalityType

LEMMA BoundedStep ==
    ASSUME LoggerInv, Bounded, [LoggerNext]_loggerVars
    PROVE  Bounded'
<1> USE TraceabilityLoggerAssumption
<1>1. /\ at \in [Logs -> {"idle", "scheduled", "done"} \cup Requests]
      /\ built \in Nat
  BY DEF LoggerInv, LoggerTypes
<1>2. CASE UNCHANGED <<at, built>>
  BY <1>2 DEF Bounded, Begun, Past
<1>3. CASE AEnter
  <2>1. built < MaxEntered /\ built' = built + 1 /\ at' = at
    BY <1>3 DEF AEnter, callVars
  <2>2. Begun' = Begun /\ Past' = Past
    BY <2>1 DEF Begun, Past
  <2> QED
    BY <1>1, <2>1, <2>2, Sizes DEF Bounded
<1>4. ASSUME NEW l \in Logs, NEW where, at' = [at EXCEPT ![l] = where],
             built' = built,
             at[l] \notin {"idle", "scheduled"} => where \notin {"idle", "scheduled"},
             at[l] \in {"post", "done"} => where \in {"post", "done"}
      PROVE  Bounded'
  <2>1. Begun \subseteq Begun' /\ Past \subseteq Past'
    BY <1>1, <1>4 DEF Begun, Past
  <2> QED
    BY <1>1, <1>4, <2>1, Forward, Sizes DEF Bounded
<1>5. ASSUME NEW l \in Logs, Run(l) PROVE Bounded'
  <2>1. PICK where \in Requests : at' = [at EXCEPT ![l] = where]
    BY <1>5 DEF Run
  <2>2. Begun' = Begun \cup {l} /\ l \notin Begun /\ Past \subseteq Past'
    BY <1>1, <1>5, <2>1 DEF Run, Begun, Past, Requests
  <2>3. built' \in {built, built + 1}
    BY <1>5 DEF Run, Connect
  <2>4. Cardinality(Begun') = Cardinality(Begun) + 1
    BY <2>2, Sizes, FS_AddElement
  <2> QED
    BY <1>1, <2>2, <2>3, <2>4, Forward, Sizes DEF Bounded
<1>6. ASSUME NEW l \in Logs, Healthy(l) PROVE Bounded'
  <2>1. Past' = Past \cup {l} /\ l \notin Past /\ Begun \subseteq Begun'
    BY <1>1, <1>6 DEF Healthy, Begun, Past, Requests
  <2>2. built' \in {built, built + 1}
    BY <1>6 DEF Healthy, Connect
  <2>3. Cardinality(Past') = Cardinality(Past) + 1
    BY <2>1, Sizes, FS_AddElement
  <2> QED
    BY <1>1, <2>1, <2>2, <2>3, Forward, Sizes DEF Bounded
<1>7. ASSUME NEW l \in Logs, LogInBackground(l) PROVE Bounded'
  BY <1>1, <1>4, <1>7 DEF LogInBackground
<1>8. ASSUME NEW l \in Logs,
             Refused(l) \/ NotConnected(l) \/ Unhealthy(l) \/ Posted(l)
             \/ HttpError(l) \/ OtherError(l) \/ ClientClosed(l) \/ Cancelled(l)
      PROVE  Bounded'
  <2>1. at' = [at EXCEPT ![l] = "done"] /\ built' = built
    BY <1>8 DEF Refused, NotConnected, Unhealthy, Posted, HttpError, OtherError,
               ClientClosed, Cancelled, Ends
  <2> QED
    BY <1>4, <2>1
<1>9. CASE AClose \/ ACloseAgain \/ AClosed
  BY <1>2, <1>9 DEF AClose, ACloseAgain, AClosed, callVars
<1>10. CASE UNCHANGED loggerVars
  BY <1>2, <1>10 DEF loggerVars
<1> QED
  BY <1>3, <1>5, <1>6, <1>7, <1>8, <1>9, <1>10 DEF LoggerNext, Step

(* The types of the logger, and that the clients it ever builds are no     *)
(* more than two for each call and one for each use of "async with".       *)
THEOREM LoggerTypesAlways == TracingSpec => []LoggerTypeOK
<1>1. TracingInit => Bounded
  <2>1. TracingInit => built = 0
    BY DEF TracingInit, LoggerInit
  <2> QED
    BY <2>1, Sizes, TraceabilityLoggerAssumption DEF Bounded
<1>2. LoggerInv /\ Bounded /\ [TracingNext]_tracingVars => Bounded'
  <2>1. [TracingNext]_tracingVars => [LoggerNext]_loggerVars
    BY DEF TracingNext, LoopStep, TransportStep, tracingVars
  <2> QED
    BY <2>1, BoundedStep
<1>3. LoggerInv /\ Bounded => LoggerTypeOK
  <2> SUFFICES ASSUME LoggerInv, Bounded PROVE LoggerTypeOK
    OBVIOUS
  <2>1. built \in 0..(MaxEntered + 2 * Cardinality(Logs))
    BY Sizes, TraceabilityLoggerAssumption DEF LoggerInv, LoggerTypes, Bounded
  <2>2. 0..built \subseteq {NoClient} \cup Clients /\ built \in {0} \cup Clients
    BY <2>1, Sizes, TraceabilityLoggerAssumption DEF NoClient, Clients
  <2> QED
    BY <2>2 DEF LoggerInv, LoggerTypes, LoggerTypeOK
<1> QED
  BY <1>1, <1>2, <1>3, LoggerInvAlways, PTL DEF TracingSpec

-----------------------------------------------------------------------------
(* The calls of a payload are exchanges that were answered, in their order *)
Listed(s, calls) ==
    /\ calls \in Seq(Exchanges)
    /\ \A i \in DOMAIN calls : calls[i] \in answered[s]
    /\ \A i, j \in DOMAIN calls : i < j => calls[i] < calls[j]

(* The calls kept, and those sent, of one transport.                       *)
Kept(s) ==
    /\ Listed(s, callLog[s])
    /\ \A p \in traced[s] : Listed(s, p)
    /\ returned[s] \subseteq ToSet(callLog[s])
    /\ \A i \in DOMAIN callLog[s] : callLog[s][i] \in 1..exchange[s]
    /\ soap[s] = "requesting" => exchange[s] \notin ToSet(callLog[s])
    /\ soap[s] \in {"logging", "parsing"} => exchange[s] \in ToSet(callLog[s])
    /\ soap[s] = "parsing" /\ accepted[s] => callLog[s] \in traced[s]
    /\ accepted[s] => returned[s] \subseteq UNION {ToSet(p) : p \in traced[s]}

Flow ==
    /\ soap \in [Transports ->
                   {"new", "idle", "requesting", "logging", "parsing", "broken"}]
    /\ exchange \in [Transports -> {0} \cup Exchanges]
    /\ answered \in [Transports -> SUBSET Exchanges]
    /\ returned \in [Transports -> SUBSET Exchanges]
    /\ callLog \in [Transports -> Seq(Exchanges)]
    /\ traced \in [Transports -> SUBSET Seq(Exchanges)]
    /\ accepted \in [Transports -> BOOLEAN]
    /\ outcome \in [Transports -> Outcomes]
    /\ \A s \in Transports : soap[s] \in {"requesting", "logging", "parsing"}
           => exchange[s] \in Exchanges

Journal == Flow /\ \A s \in Transports : Kept(s)

LEMMA InitJournal ==
    ASSUME TransportInit
    PROVE  Journal
<1> USE SOAPTransportAssumption
<1>1. Flow
  BY DEF TransportInit, Flow, Exchanges, Outcomes
<1>2. ASSUME NEW s \in Transports PROVE Kept(s)
  <2>1. callLog[s] = <<>> /\ traced[s] = {} /\ returned[s] = {} /\ ~accepted[s]
        /\ soap[s] = "new"
    BY DEF TransportInit
  <2> QED
    BY <2>1 DEF Kept, Listed, ToSet
<1> QED
  BY <1>1, <1>2 DEF Journal

(* The other transports keep what they have.                               *)
LEMMA OthersKeep ==
    ASSUME Journal, NEW s \in Transports, Transporting(s),
           NEW k \in Transports, k # s
    PROVE  Kept(k)'
<1>1. /\ soap'[k] = soap[k] /\ exchange'[k] = exchange[k]
      /\ answered'[k] = answered[k] /\ returned'[k] = returned[k]
      /\ callLog'[k] = callLog[k] /\ traced'[k] = traced[k]
      /\ accepted'[k] = accepted[k]
  BY DEF Journal, Flow, Transporting, Create, Request, Answered, HistoryFails,
         RequestFails, LogAccepted, LogFails, Parsed, ParsingFails, Stores, Goto,
         SendErrorMessage
<1> QED
  BY <1>1 DEF Journal, Kept, Listed

LEMMA FlowStep ==
    ASSUME Journal, NEW s \in Transports, Transporting(s)
    PROVE  Flow'
<1> USE SOAPTransportAssumption DEF Journal, Flow, Goto, SendErrorMessage, Outcomes, Exchanges
<1>1. CASE Create(s)
  BY <1>1 DEF Create
<1>2. CASE Request(s)
  <2>1. exchange[s] \in Nat /\ exchange[s] < MaxExchanges
    BY <1>2 DEF Request
  <2>2. exchange[s] + 1 \in 1..MaxExchanges
    BY <2>1
  <2> QED
    BY <1>2, <2>2 DEF Request
<1>3. CASE Answered(s)
  <2>1. exchange[s] \in Exchanges
    BY <1>3 DEF Answered
  <2>2. Append(callLog[s], exchange[s]) \in Seq(Exchanges)
    BY <2>1
  <2> QED
    BY <1>3, <2>1, <2>2 DEF Answered
<1>4. CASE HistoryFails(s)
  BY <1>4 DEF HistoryFails
<1>5. CASE RequestFails(s)
  BY <1>5 DEF RequestFails
<1>6. CASE LogAccepted(s)
  BY <1>6 DEF LogAccepted, Stores
<1>7. CASE LogFails(s)
  <2>1. traced' \in [Transports -> SUBSET Seq(Exchanges)]
    <3>1. CASE Stores(s)
      BY <3>1 DEF Stores
    <3>2. CASE UNCHANGED traced
      BY <3>2
    <3> QED
      BY <1>7, <3>1, <3>2 DEF LogFails
  <2> QED
    BY <1>7, <2>1 DEF LogFails
<1>8. CASE Parsed(s)
  BY <1>8 DEF Parsed
<1>9. CASE ParsingFails(s)
  BY <1>9 DEF ParsingFails
<1> QED
  BY <1>1, <1>2, <1>3, <1>4, <1>5, <1>6, <1>7, <1>8, <1>9 DEF Transporting

(* The call of an answered exchange comes last, after those of the earlier *)
(* ones; a payload sent is the one kept.                                   *)
LEMMA KeptStep ==
    ASSUME Journal, NEW s \in Transports, Transporting(s)
    PROVE  Kept(s)'
<1>0. Kept(s)
  BY DEF Journal
<1> USE SOAPTransportAssumption DEF Goto, SendErrorMessage
<1>1. CASE Create(s)
  BY <1>0, <1>1 DEF Create, Kept, Listed, Journal, Flow
<1>2. CASE Request(s)
  <2>1. exchange'[s] = exchange[s] + 1 /\ soap'[s] = "requesting"
        /\ exchange[s] \in Nat
    BY <1>2 DEF Request, Journal, Flow, Exchanges
  <2>2. \A i \in DOMAIN callLog[s] :
            callLog[s][i] \in 1..exchange'[s] /\ callLog[s][i] # exchange'[s]
    BY <1>0, <2>1 DEF Kept
  <2> QED
    BY <1>0, <1>2, <2>1, <2>2 DEF Request, Kept, Listed, ToSet
<1>3. CASE Answered(s)
  <2> DEFINE n == exchange[s]
             kept == callLog[s]
             more == Append(kept, n)
  <2>1. /\ n \in Exchanges /\ n \in Nat /\ kept \in Seq(Exchanges)
        /\ soap'[s] = "logging" /\ exchange'[s] = n /\ callLog'[s] = more
        /\ answered'[s] = answered[s] \cup {n} /\ returned'[s] = returned[s]
        /\ traced'[s] = traced[s] /\ accepted'[s] = accepted[s]
    BY <1>3 DEF Answered, Journal, Flow, Exchanges
  <2>2. /\ more \in Seq(Exchanges) /\ DOMAIN more = 1..(Len(kept) + 1)
        /\ DOMAIN kept = 1..Len(kept) /\ Len(kept) \in Nat
        /\ \A i \in DOMAIN kept : more[i] = kept[i]
        /\ more[Len(kept) + 1] = n
    BY <2>1
  <2>3. \A i \in DOMAIN kept : kept[i] \in answered[s] /\ kept[i] \in 1..n /\ kept[i] < n
    BY <1>0, <1>3, <2>1 DEF Kept, Listed, ToSet, Answered
  <2>4. \A i \in DOMAIN more : i \in DOMAIN kept \/ i = Len(kept) + 1
    BY <2>2
  <2>5. \A i, j \in DOMAIN more : i < j => more[i] < more[j]
    BY <1>0, <2>2, <2>3, <2>4 DEF Kept, Listed
  <2>6. Listed(s, callLog[s])'
    BY <2>1, <2>2, <2>3, <2>4, <2>5 DEF Listed
  <2>7. \A p \in traced'[s] : Listed(s, p)'
    BY <1>0, <2>1 DEF Kept, Listed
  <2>8. ToSet(kept) \subseteq ToSet(more) /\ n \in ToSet(more)
    BY <2>2 DEF ToSet
  <2>9. \A i \in DOMAIN more : more[i] \in 1..n
    <3>1. n \in 1..n
      BY <2>1 DEF Exchanges
    <3> QED
      BY <2>2, <2>3, <2>4, <3>1
  <2>10. returned'[s] \subseteq ToSet(more)
    BY <1>0, <2>1, <2>8 DEF Kept
  <2> HIDE DEF more
  <2> QED
    BY <1>0, <2>1, <2>6, <2>7, <2>8, <2>9, <2>10 DEF Kept
<1>4. CASE HistoryFails(s)
  <2>1. /\ soap'[s] = "idle" /\ answered[s] \subseteq answered'[s]
        /\ UNCHANGED <<exchange, returned, callLog, traced, accepted>>
    BY <1>4 DEF HistoryFails, Journal, Flow
  <2> QED
    BY <1>0, <2>1 DEF Kept, Listed
<1>5. CASE RequestFails(s)
  <2>1. /\ soap'[s] = "idle"
        /\ UNCHANGED <<exchange, answered, returned, callLog, traced, accepted>>
    BY <1>5 DEF RequestFails, Journal, Flow
  <2> QED
    BY <1>0, <2>1 DEF Kept, Listed
<1>6. CASE LogAccepted(s)
  <2>1. /\ soap'[s] = "parsing" /\ soap[s] = "logging" /\ accepted'[s]
        /\ traced'[s] = traced[s] \cup {callLog[s]}
        /\ UNCHANGED <<exchange, answered, returned, callLog>>
    BY <1>6 DEF LogAccepted, Stores, Journal, Flow
  <2>2. returned[s] \subseteq UNION {ToSet(p) : p \in traced'[s]}
    BY <1>0, <2>1 DEF Kept
  <2>3. \A p \in traced'[s] : Listed(s, p)'
    BY <1>0, <2>1 DEF Kept, Listed
  <2>4. Listed(s, callLog[s])'
    BY <1>0, <2>1 DEF Kept, Listed
  <2> QED
    BY <1>0, <2>1, <2>2, <2>3, <2>4 DEF Kept
<1>7. CASE LogFails(s)
  <2>1. /\ soap'[s] = "parsing" /\ soap[s] = "logging" /\ ~accepted'[s]
        /\ traced'[s] \subseteq traced[s] \cup {callLog[s]}
        /\ UNCHANGED <<exchange, answered, returned, callLog>>
    BY <1>7 DEF LogFails, Stores, Journal, Flow
  <2> QED
    BY <1>0, <2>1 DEF Kept, Listed
<1>8. CASE Parsed(s)
  <2>1. /\ soap'[s] = "idle" /\ soap[s] = "parsing"
        /\ returned'[s] = returned[s] \cup {exchange[s]}
        /\ UNCHANGED <<exchange, answered, callLog, traced, accepted>>
    BY <1>8 DEF Parsed, Journal, Flow
  <2>2. returned'[s] \subseteq ToSet(callLog[s])
    BY <1>0, <2>1 DEF Kept
  <2>3. accepted[s] => returned'[s] \subseteq UNION {ToSet(p) : p \in traced[s]}
    BY <1>0, <2>1 DEF Kept
  <2> QED
    BY <1>0, <2>1, <2>2, <2>3 DEF Kept, Listed
<1>9. CASE ParsingFails(s)
  <2>1. /\ soap'[s] = "idle"
        /\ UNCHANGED <<exchange, answered, returned, callLog, traced, accepted>>
    BY <1>9 DEF ParsingFails, Journal, Flow
  <2> QED
    BY <1>0, <2>1 DEF Kept, Listed
<1> QED
  BY <1>1, <1>2, <1>3, <1>4, <1>5, <1>6, <1>7, <1>8, <1>9 DEF Transporting

LEMMA TracingKeepsJournal ==
    ASSUME Journal, [TracingNext]_tracingVars
    PROVE  Journal'
<1>1. CASE UNCHANGED transportVars
  BY <1>1 DEF transportVars, Journal, Flow, Kept, Listed
<1>2. ASSUME NEW s \in Transports, Transporting(s) PROVE Journal'
  <2>1. \A k \in Transports : Kept(k)'
    BY <1>2, OthersKeep, KeptStep
  <2> QED
    BY <1>2, <2>1, FlowStep DEF Journal
<1> QED
  BY <1>1, <1>2 DEF TracingNext, LoopStep, TransportStep, tracingVars

LEMMA JournalAlways == TracingSpec => []Journal
<1>1. TracingInit => Journal
  BY InitJournal DEF TracingInit
<1>2. Journal /\ [TracingNext]_tracingVars => Journal'
  BY TracingKeepsJournal
<1> QED
  BY <1>1, <1>2, PTL DEF TracingSpec

(* The variables of the transports keep their types.                       *)
THEOREM TransportTypes == TracingSpec => []TransportTypeOK
<1>1. Journal => TransportTypeOK
  BY DEF Journal, Flow, TransportTypeOK
<1> QED
  BY <1>1, JournalAlways, PTL

(* trembita_payload keeps its calls from exchange to exchange: a log that  *)
(* is accepted brings the service every exchange whose result was          *)
(* returned, those of the lost logs too.                                   *)
THEOREM AcceptedLogCatchesUpAlways == TracingSpec => []AcceptedLogCatchesUp
<1>1. Journal => AcceptedLogCatchesUp
  BY DEF Journal, Kept, AcceptedLogCatchesUp
<1> QED
  BY <1>1, JournalAlways, PTL

(* What the traceability service stores was answered by the data service,  *)
(* each exchange once in a payload and in order.                           *)
THEOREM TracedWereAnsweredAlways == TracingSpec => []TracedWereAnswered
<1>1. Journal => TracedWereAnswered
  BY DEF Journal, Kept, Listed, ToSet, TracedWereAnswered
<1> QED
  BY <1>1, JournalAlways, PTL
=============================================================================
