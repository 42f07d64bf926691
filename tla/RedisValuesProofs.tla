------------------------- MODULE RedisValuesProofs -------------------------
(***************************************************************************)
(* Proofs about RedisValues, for any applications, prefixes and keys that  *)
(* satisfy RedisValuesAssumption: a key is its prefix followed by the name *)
(* the application means, so that two slots have one key only if they are  *)
(* the same slot, and every operation is one on a single cell.             *)
(***************************************************************************)
EXTENDS RedisValues, SequenceTheorems, FiniteSetTheorems, TLAPS

Texts == Seq(STRING)

-----------------------------------------------------------------------------
LEMMA PrefixType ==
    ASSUME NEW a \in Apps
    PROVE  Prefix(a) \in Texts
<1>1. \A p \in Texts : NormalizePrefix(p) \in Texts
  <2> SUFFICES ASSUME NEW p \in Texts PROVE NormalizePrefix(p) \in Texts
    OBVIOUS
  <2> DEFINE leading  == {i \in DOMAIN p : \A j \in 1..i : p[j] = ""}
             trailing == {i \in DOMAIN p : \A j \in i..Len(p) : p[j] = ""}
  <2>1. DOMAIN p = 1..Len(p) /\ Len(p) \in Nat
    BY LenProperties DEF Texts
  <2>2. IsFiniteSet(1..Len(p))
    BY <2>1, FS_Interval
  <2>3. IsFiniteSet(leading) /\ IsFiniteSet(trailing)
    BY <2>1, <2>2, FS_Subset
  <2>4. Cardinality(leading) \in Nat /\ Cardinality(trailing) \in Nat
    BY <2>3, FS_CardinalityType
  <2> HIDE DEF leading, trailing
  <2>5. \A i \in Cardinality(leading) + 1 .. Len(p) - Cardinality(trailing) : p[i] \in STRING
    BY <2>1, <2>4, ElementOfSeq DEF Texts
  <2>6. SubSeq(p, Cardinality(leading) + 1, Len(p) - Cardinality(trailing)) \in Texts
    BY <2>1, <2>4, <2>5, SubSeqProperties DEF Texts
  <2> QED
    BY <2>6 DEF NormalizePrefix, leading, trailing
<1> QED
  BY <1>1, RedisValuesAssumption DEF Prefix, Texts

(* A text that begins with p is p followed by the rest of it.              *)
LEMMA Split ==
    ASSUME NEW p \in Texts, NEW k \in Texts, IsPrefix(p, k)
    PROVE  /\ SubSeq(k, Len(p) + 1, Len(k)) \in Texts
           /\ p \o SubSeq(k, Len(p) + 1, Len(k)) = k
<1>1. SubSeq(k, Len(p) + 1, Len(k)) \in Texts
  BY SubSeqProperties, ElementOfSeq DEF Texts
<1>2. SubSeq(k, 1, Len(p)) = p
  BY SubSeqFull DEF IsPrefix, Texts
<1>3. Len(p) \in 0..Len(k) /\ Len(k) \in Nat
  BY LenProperties DEF IsPrefix, Texts
<1>4. SubSeq(k, 1, Len(p)) \o SubSeq(k, Len(p) + 1, Len(k)) = SubSeq(k, 1, Len(k))
  <2> DEFINE m == 1
             l == Len(p)
  <2>1. m \in 1..Len(k) + 1 /\ l \in m - 1..Len(k) /\ Len(k) \in l..Len(k)
    BY <1>3
  <2>2. SubSeq(k, m, l) \o SubSeq(k, l + 1, Len(k)) = SubSeq(k, m, Len(k))
    <3> HIDE DEF m, l
    <3> QED  BY <2>1, ConcatAdjacentSubSeq DEF Texts
  <2> QED
    BY <2>2
<1> QED
  BY <1>1, <1>2, <1>4, SubSeqFull DEF Texts

LEMMA Joined ==
    ASSUME NEW p \in Texts, NEW k \in Texts
    PROVE  IsPrefix(p, p \o k) /\ (k # <<>> => IsStrictPrefix(p, p \o k))
<1>1. Len(p \o k) = Len(p) + Len(k) /\ p \o k \in Texts
  BY ConcatProperties DEF Texts
<1>2. SubSeq(p \o k, 1, Len(p)) = SubSeq(p, 1, Len(p))
  <2>1. CASE Len(p) = 0
    BY <2>1, <1>1, SubSeqEmpty DEF Texts
  <2>2. CASE Len(p) # 0
    BY <2>2, SubSeqOfConcat1 DEF Texts
  <2> QED
    BY <2>1, <2>2
<1>3. IsPrefix(p, p \o k)
  BY <1>1, <1>2 DEF IsPrefix, Texts
<1> QED
  BY <1>3, ConcatEqualIffEmpty DEF IsStrictPrefix, Texts

-----------------------------------------------------------------------------
(* "Repeated prefixing does not happen" (docs/api.md): a key that is       *)
(* prefixed again stays as it is.                                          *)
THEOREM PrefixedOnce ==
    ASSUME NEW p \in Texts, NEW k \in Texts, k # <<>>
    PROVE  PrefixedKey(p, PrefixedKey(p, k)) = PrefixedKey(p, k)
BY Joined DEF PrefixedKey

LEMMA Tuples ==
    ASSUME NEW S, NEW a \in S, NEW b \in S, NEW c \in S, NEW d \in S
    PROVE  /\ <<a, b>> \in Seq(S) /\ Len(<<a, b>>) = 2 /\ <<a, b>>[2] = b
           /\ <<a, b, c, d>> \in Seq(S) /\ Len(<<a, b, c, d>>) = 4
           /\ <<a, b, c, d>>[2] = b /\ <<a, b, c, d>>[3] = c
           /\ <<a, b, c, d>>[4] = d
OBVIOUS

(* Filled-in templates differ whenever the template or the id differs,     *)
(* whatever the ids are: the keys of one message never meet.               *)
THEOREM TemplatesApart ==
    ASSUME NEW t \in Templates, NEW u \in Templates, NEW i \in Texts, NEW j \in Texts,
           Filled(t, i) = Filled(u, j)
    PROVE  t = u /\ i = j
<1> DEFINE Ways  == {"request", "response"}
           Kinds == {"evidence", "edm", "exp", "as4", "preview", "person", "permit"}
           S     == STRING \cup {"oots", "message", "evidencetype"} \cup Ways \cup Kinds
           Long(x, way, k) == x = <<"oots", "message", way, k>>
           Short(x) == x = <<"oots", "evidencetype">>
<1>1. \A x \in Templates :
        Short(x) \/ \E way \in Ways, k \in Kinds : Long(x, way, k)
  BY DEF Templates
<1>2. /\ {"oots", "message", "evidencetype"} \subseteq S
      /\ Ways \subseteq S /\ Kinds \subseteq S /\ STRING \subseteq S
  OBVIOUS
<1> HIDE DEF S, Ways, Kinds
<1>3. \A x : Short(x) => x \in Seq(S) /\ Len(x) = 2 /\ x[2] = "evidencetype"
  BY <1>2, Tuples
<1>4. \A x : \A way \in Ways, k \in Kinds : Long(x, way, k) =>
        x \in Seq(S) /\ Len(x) = 4 /\ x[2] = "message" /\ x[3] = way /\ x[4] = k
  BY <1>2, Tuples
<1> HIDE DEF Long, Short
<1>5. \A x, y \in Seq(S), n \in Nat : n \in 1..Len(x) => (x \o y)[n] = x[n]
  BY ConcatProperties, LenProperties
<1>6. /\ t \in Seq(S) /\ Len(t) \in {2, 4} /\ i \in Seq(S)
      /\ u \in Seq(S) /\ Len(u) \in {2, 4} /\ j \in Seq(S)
  BY <1>1, <1>2, <1>3, <1>4, SeqMonotonic DEF Texts
<1>7. \A n \in Nat : n \in 1..Len(t) /\ n \in 1..Len(u) => t[n] = u[n]
  BY <1>5, <1>6 DEF Filled
<1>8. t[2] = u[2]
  BY <1>6, <1>7
<1>9. ASSUME Short(t) PROVE t = u
  <2>1. Short(u)
    BY <1>1, <1>3, <1>4, <1>8, <1>9
  <2> QED
    BY <1>9, <2>1 DEF Short
<1>10. ASSUME NEW way \in Ways, NEW k \in Kinds, Long(t, way, k) PROVE t = u
  <2>1. PICK way2 \in Ways, k2 \in Kinds : Long(u, way2, k2)
    BY <1>1, <1>3, <1>4, <1>8, <1>10
  <2>2. Len(t) = 4 /\ Len(u) = 4 /\ t[3] = way /\ t[4] = k /\ u[3] = way2 /\ u[4] = k2
    BY <1>4, <1>10, <2>1
  <2>3. way = way2 /\ k = k2
    <3>1. t[3] = u[3] /\ t[4] = u[4]
      BY <1>7, <2>2
    <3> QED
      BY <2>2, <3>1
  <2> QED
    BY <1>10, <2>1, <2>3 DEF Long
<1>11. t = u
  BY <1>1, <1>9, <1>10
<1>12. \A x, y, z \in Seq(S) : x \o y = x \o z => y = z
  BY ConcatSimplifications
<1> QED
  BY <1>6, <1>11, <1>12 DEF Filled

-----------------------------------------------------------------------------
(* A key is its prefix followed by the name that is meant.                 *)
LEMMA KeySplit ==
    ASSUME NEW a \in Apps, NEW n \in Names[a]
    PROVE  /\ Own(a, n) \in Texts /\ Key(a, n) \in Texts
           /\ Prefix(a) \o Own(a, n) = Key(a, n)
<1>1. n \in Texts /\ n # <<>> /\ Prefix(a) \in Texts
  BY RedisValuesAssumption, PrefixType DEF Texts
<1>2. CASE IsStrictPrefix(Prefix(a), n)
  <2>1. IsPrefix(Prefix(a), n)
    BY <1>2 DEF IsStrictPrefix
  <2> QED
    BY <1>1, <1>2, <2>1, Split DEF Own, Key, PrefixedKey
<1>3. CASE ~IsStrictPrefix(Prefix(a), n)
  <2>1. Prefix(a) # <<>>
    <3>1. IsStrictPrefix(<<>>, <<>> \o n) /\ <<>> \o n = n
      BY <1>1, Joined, EmptySeq, ConcatEmptySeq DEF Texts
    <3> QED
      BY <1>3, <3>1
  <2>2. Prefix(a) \o n \in Texts
    BY <1>1, ConcatProperties DEF Texts
  <2> QED
    BY <1>1, <1>3, <2>1, <2>2 DEF Own, Key, PrefixedKey
<1> QED
  BY <1>2, <1>3

LEMMA SlotPlace ==
    ASSUME NEW a \in Apps, NEW n \in Names[a]
    PROVE  /\ Slot(a, n) \in Slots /\ Key(a, n) \in ServerKeys
           /\ Location(Slot(a, n)) = Key(a, n)
BY KeySplit DEF Slots, Slot, ServerKeys, Location

(* One key, one slot: equal prefixes cancel, and of two different ones the *)
(* assumption says that one does not begin the other application's keys.   *)
LEMMA OneSlot ==
    ASSUME NEW a \in Apps, NEW n \in Names[a], NEW b \in Apps, NEW m \in Names[b],
           Key(a, n) = Key(b, m)
    PROVE  Slot(a, n) = Slot(b, m)
<1>1. /\ Prefix(a) \in Texts /\ Own(a, n) \in Texts
      /\ Prefix(b) \in Texts /\ Own(b, m) \in Texts
      /\ Prefix(a) \o Own(a, n) = Prefix(b) \o Own(b, m)
  BY PrefixType, KeySplit
<1>2. CASE Prefix(a) = Prefix(b)
  <2>1. Own(a, n) = Own(b, m)
    BY <1>1, <1>2, ConcatSimplifications DEF Texts
  <2> QED
    BY <1>2, <2>1 DEF Slot
<1>3. CASE Prefix(a) # Prefix(b)
  <2>1. IsPrefix(Prefix(a), Key(b, m)) /\ IsPrefix(Prefix(b), Key(a, n))
    BY <1>1, Joined, KeySplit
  <2> QED
    BY <1>3, <2>1, RedisValuesAssumption DEF Apart
<1> QED
  BY <1>2, <1>3

-----------------------------------------------------------------------------
(* Every operation is a read or a write of what its application's key      *)
(* holds.                                                                  *)
LEMMA Operation ==
    ASSUME Next
    PROVE  \E a \in Apps : \E n \in Names[a] :
              \/ \E v \in Bytes \cup {Absent} : Set(a, n, v)
              \/ reply' = server[Key(a, n)] /\ UNCHANGED server
<1> DEFINE Op(a, n) ==
        \/ SaveToRedis(a, n) \/ SaveRawToRedis(a, n) \/ SetFlag(a, n)
        \/ DeleteFromRedis(a, n)
        \/ GetFromRedis(a, n) \/ GetRawFromRedis(a, n) \/ GetFlag(a, n)
<1> PICK a \in Apps : \E n \in Names[a] : Op(a, n)
  BY DEF Next
<1> PICK n \in Names[a] : Op(a, n)
  OBVIOUS
<1>1. CASE SaveToRedis(a, n) \/ SaveRawToRedis(a, n) \/ SetFlag(a, n)
  BY <1>1 DEF SaveToRedis, SaveRawToRedis, SetFlag, Bytes, Json
<1>2. CASE DeleteFromRedis(a, n)
  BY <1>2 DEF DeleteFromRedis
<1>3. CASE GetFromRedis(a, n) \/ GetRawFromRedis(a, n) \/ GetFlag(a, n)
  BY <1>3 DEF GetFromRedis, GetRawFromRedis, GetFlag, Reads, Stored
<1> QED
  BY <1>1, <1>2, <1>3

Cells == [s \in Slots |-> server[Location(s)]]

LEMMA StoresStep ==
    ASSUME TypeOK, Next
    PROVE  Stores!Next
<1> PICK a \in Apps :
        \E n \in Names[a] :
            \/ \E v \in Bytes \cup {Absent} : Set(a, n, v)
            \/ reply' = server[Key(a, n)] /\ UNCHANGED server
  BY Operation
<1> PICK n \in Names[a] :
        \/ \E v \in Bytes \cup {Absent} : Set(a, n, v)
        \/ reply' = server[Key(a, n)] /\ UNCHANGED server
  OBVIOUS
<1>1. Slot(a, n) \in Slots /\ Key(a, n) \in ServerKeys /\ Location(Slot(a, n)) = Key(a, n)
  BY SlotPlace
<1>2. ASSUME NEW v \in Bytes \cup {Absent}, Set(a, n, v)
      PROVE  Stores!Put(Slot(a, n), v)
  <2>1. \A s \in Slots : server'[Location(s)] =
                           IF s = Slot(a, n) THEN v ELSE server[Location(s)]
    <3> SUFFICES ASSUME NEW s \in Slots
                 PROVE  server'[Location(s)] =
                          IF s = Slot(a, n) THEN v ELSE server[Location(s)]
      OBVIOUS
    <3>1. PICK b \in Apps : \E m \in Names[b] : s = Slot(b, m)
      BY DEF Slots
    <3>2. PICK m \in Names[b] : s = Slot(b, m)
      BY <3>1
    <3>3. Key(b, m) \in ServerKeys /\ Location(s) = Key(b, m)
      BY <3>2, SlotPlace
    <3>4. Key(b, m) = Key(a, n) => s = Slot(a, n)
      BY <3>2, OneSlot
    <3> QED
      BY <1>1, <1>2, <3>3, <3>4 DEF Set, TypeOK
  <2> QED
    BY <1>1, <1>2, <2>1 DEF Set, Stores!Put
<1>3. ASSUME reply' = server[Key(a, n)], UNCHANGED server
      PROVE  Stores!Read(Slot(a, n))
  BY <1>1, <1>3 DEF Stores!Read
<1> QED
  BY <1>1, <1>2, <1>3 DEF Stores!Next

-----------------------------------------------------------------------------
(* What a reading call returns or raises, given the bytes.                 *)
LEMMA Readings ==
    ASSUME NEW bytes \in Bytes \cup {Absent}, NEW default \in BOOLEAN
    PROVE  /\ Parsed(bytes).value \in Bytes \cup {None}
           /\ Ok(Parsed(bytes)) /\ Parsed(bytes).value = None => bytes \in {Absent, Null}
           /\ ~Ok(Parsed(bytes)) => bytes \in {Garbled, Binary}
           /\ Raw(bytes).value \in Bytes \cup {None} /\ Ok(Raw(bytes))
           /\ Raw(bytes).value = None => bytes \in {Absent, Null}
           /\ Flag(bytes, default).value \in Bytes \cup {None}
           /\ Ok(Flag(bytes, default)) => Flag(bytes, default).value \in {default, bytes} \cap BOOLEAN
           /\ ~Ok(Flag(bytes, default)) => bytes = Binary
<1>1. CASE bytes \in BOOLEAN
  BY <1>1, RedisValuesAssumption DEF Parsed, Raw, Flag, Ok, Returned, Raised, Bytes, Json
<1>2. CASE bytes \notin BOOLEAN
  BY <1>2, RedisValuesAssumption DEF Parsed, Raw, Flag, Ok, Returned, Raised, Bytes, Json
<1> QED
  BY <1>1, <1>2

Good == TypeOK /\ NothingMadeUp

(* The types are kept, and no reading call of any application ever claims  *)
(* what its key does not hold.                                             *)
THEOREM ReadingsAreHonest == Spec => [](TypeOK /\ NothingMadeUp)
<1>1. Init => Good
  BY RedisValuesAssumption
     DEF Init, Good, TypeOK, NothingMadeUp, Bytes, Json, Returned, Ok
<1>2. Good /\ [Next]_vars => Good'
  <2> SUFFICES ASSUME Good, [Next]_vars
               PROVE  Good'
    OBVIOUS
  <2>1. CASE UNCHANGED vars
    BY <2>1 DEF vars, Good, TypeOK, NothingMadeUp
  <2>2. ASSUME NEW a \in Apps, NEW n \in Names[a], NEW v \in Bytes \cup {Absent},
               Set(a, n, v)
        PROVE  Good'
    BY <2>2 DEF Set, Good, TypeOK, NothingMadeUp
  <2>3. ASSUME NEW a \in Apps, NEW n \in Names[a]
        PROVE  server[Key(a, n)] \in Bytes \cup {Absent}
    BY <2>3, SlotPlace DEF Good, TypeOK
  <2>4. ASSUME NEW a \in Apps, NEW n \in Names[a], GetFromRedis(a, n)
        PROVE  Good'
    BY <2>3, <2>4, Readings DEF GetFromRedis, Reads, Stored, Good, TypeOK, NothingMadeUp
  <2>5. ASSUME NEW a \in Apps, NEW n \in Names[a], GetRawFromRedis(a, n)
        PROVE  Good'
    BY <2>3, <2>5, Readings DEF GetRawFromRedis, Reads, Stored, Good, TypeOK, NothingMadeUp
  <2>6. ASSUME NEW a \in Apps, NEW n \in Names[a], GetFlag(a, n)
        PROVE  Good'
    <3>1. PICK default \in BOOLEAN :
              Reads(a, n, default, Flag(Stored(a, n), default))
      BY <2>6 DEF GetFlag
    <3> DEFINE bytes == server[Key(a, n)]
    <3>2. /\ reply' = bytes /\ asked' = default /\ UNCHANGED server
          /\ result' = Flag(bytes, default)
      BY <3>1 DEF Reads, Stored
    <3>3. bytes \in Bytes \cup {Absent}
      BY <2>3
    <3>4. None \notin BOOLEAN
      BY RedisValuesAssumption DEF Bytes, Json
    <3> HIDE DEF bytes
    <3>5. TypeOK'
      BY <3>2, <3>3, Readings DEF Good, TypeOK
    <3>6. NothingMadeUp'
      BY <3>2, <3>3, <3>4, Readings DEF NothingMadeUp
    <3> QED
      BY <3>5, <3>6 DEF Good
  <2>7. ASSUME NEW a \in Apps, NEW n \in Names[a],
               SaveToRedis(a, n) \/ SaveRawToRedis(a, n) \/ SetFlag(a, n)
               \/ DeleteFromRedis(a, n)
        PROVE  Good'
    BY <2>2, <2>7 DEF SaveToRedis, SaveRawToRedis, SetFlag, DeleteFromRedis, Bytes, Json
  <2> QED
    BY <2>1, <2>4, <2>5, <2>6, <2>7 DEF Next
<1> QED
  BY <1>1, <1>2, PTL DEF Spec, Good

(* The types alone: what a call returns is a value of Redis, never the     *)
(* mark of a missing key.                                                  *)
THEOREM ValuesTypes == Spec => []TypeOK
BY ReadingsAreHonest, PTL

(* Whatever prefixes and keys the applications choose within the           *)
(* assumption, each finds in its store what it last put there, or nothing: *)
(* no other application's writing reaches it.                              *)
THEOREM PrefixesSeparate == Spec => ImplementsNamespaces
<1>1. Init => Stores!Init
  <2> SUFFICES ASSUME Init PROVE Cells = [s \in Slots |-> Absent]
    BY DEF Init, Stores!Init, Cells
  <2>1. \A s \in Slots : Location(s) \in ServerKeys
    BY SlotPlace DEF Slots
  <2> QED
    BY <2>1 DEF Init, Cells
<1>2. TypeOK /\ [Next]_vars => [Stores!Next]_(Stores!vars)
  BY StoresStep DEF vars, Stores!vars
<1> QED
  BY <1>1, <1>2, ReadingsAreHonest, PTL DEF Spec, ImplementsNamespaces, Stores!Spec
=============================================================================
