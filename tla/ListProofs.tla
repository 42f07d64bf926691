----------------------------- MODULE ListProofs -----------------------------
(***************************************************************************)
(* Facts about lists that the proofs about models rest on: what FlattenSeq *)
(* returns, for lists of any length.  The induction is that on the size of *)
(* finite sets, applied to the intervals 0..n.                             *)
(***************************************************************************)
EXTENDS SequencesExt, Naturals, SequenceTheorems, FiniteSetTheorems,
        WellFoundedInduction, TLAPS

(* A set of numbers that is not empty has a least one.                     *)
LEMMA LeastNumber ==
    ASSUME NEW T \in SUBSET Nat, T # {}
    PROVE  \E x \in T : \A y \in T : x <= y
<1> DEFINE U == {0..x : x \in T}
<1>1. U \subseteq FiniteSubsetsOf(Nat)
  <2>1. \A x \in T : IsFiniteSet(0..x)
    BY FS_Interval
  <2> QED
    BY <2>1 DEF FiniteSubsetsOf
<1>2. PICK u \in U : \A v \in U : <<v, u>> \notin StrictSubsetOrdering(Nat)
  <2>1. IsWellFoundedOn(StrictSubsetOrdering(Nat), FiniteSubsetsOf(Nat))
    BY FS_StrictSubsetOrderingWellFounded
  <2>2. U # {}
    OBVIOUS
  <2> HIDE DEF U
  <2> QED
    BY ONLY <1>1, <2>1, <2>2, WFMin
<1>3. PICK x \in T : u = 0..x
  OBVIOUS
<1>4. ASSUME NEW y \in T, y < x PROVE FALSE
  <2>1. 0..y \in U /\ 0..y \subseteq 0..x /\ 0..y # 0..x
    BY <1>4
  <2>2. <<0..y, 0..x>> \in StrictSubsetOrdering(Nat)
    BY <2>1 DEF StrictSubsetOrdering
  <2> QED
    BY <1>2, <1>3, <2>1, <2>2
<1> QED
  BY <1>4

LEMMA Induction ==
    ASSUME NEW T \in SUBSET Nat, 0 \in T, \A n \in T : n + 1 \in T
    PROVE  T = Nat
<1> SUFFICES ASSUME Nat \ T # {} PROVE FALSE
  OBVIOUS
<1>1. PICK x \in Nat \ T : \A y \in Nat \ T : x <= y
  BY LeastNumber
<1>2. x # 0 /\ x - 1 \in Nat /\ x - 1 \in T
  BY <1>1
<1> QED
  BY <1>1, <1>2

-----------------------------------------------------------------------------
(* f is the function that FlattenSeq defines on the first n lists of ss.   *)
Flattening(f, ss, n) ==
    f = [i \in 1..n |-> IF i = 1 THEN ss[i] ELSE f[i - 1] \o ss[i]]

LEMMA FlatteningExists ==
    ASSUME NEW ss
    PROVE  \A n \in Nat : \E f : Flattening(f, ss, n)
<1> DEFINE T == {n \in Nat : \E f : Flattening(f, ss, n)}
<1>1. 0 \in T
  <2> DEFINE f == [i \in 1..0 |-> i]
  <2>1. Flattening(f, ss, 0)
    BY DEF Flattening
  <2> QED
    BY <2>1
<1>2. ASSUME NEW n \in T PROVE n + 1 \in T
  <2>1. PICK f : Flattening(f, ss, n)
    OBVIOUS
  <2> DEFINE last == IF n + 1 = 1 THEN ss[n + 1] ELSE f[n] \o ss[n + 1]
             g == [i \in 1..(n + 1) |-> IF i = n + 1 THEN last ELSE f[i]]
  <2>2. \A i \in 1..n : g[i] = f[i] /\ i # n + 1
    OBVIOUS
  <2>3. \A i \in 1..n : f[i] = IF i = 1 THEN ss[i] ELSE f[i - 1] \o ss[i]
    BY <2>1 DEF Flattening
  <2>4. \A i \in 1..n : i = 1 \/ i - 1 \in 1..n
    OBVIOUS
  <2>5. \A i \in 1..n : g[i] = IF i = 1 THEN ss[i] ELSE g[i - 1] \o ss[i]
    <3> HIDE DEF g
    <3> QED
      BY <2>2, <2>3, <2>4
  <2>6. g[n + 1] = IF n + 1 = 1 THEN ss[n + 1] ELSE g[n + 1 - 1] \o ss[n + 1]
    <3>1. n + 1 - 1 = n /\ (n + 1 # 1 => n \in 1..n)
      OBVIOUS
    <3>2. g[n + 1] = last
      OBVIOUS
    <3> HIDE DEF g
    <3> QED
      BY <2>2, <3>1, <3>2
  <2>7. \A i \in 1..(n + 1) : i \in 1..n \/ i = n + 1
    OBVIOUS
  <2>8. g = [i \in 1..(n + 1) |-> g[i]]
    OBVIOUS
  <2>9. Flattening(g, ss, n + 1)
    <3> HIDE DEF g, last
    <3>1. \A i \in 1..(n + 1) : g[i] = IF i = 1 THEN ss[i] ELSE g[i - 1] \o ss[i]
      BY <2>5, <2>6, <2>7
    <3> QED
      BY <2>8, <3>1 DEF Flattening
  <2> QED
    BY <2>9
<1>3. T = Nat
  <2> HIDE DEF T
  <2>1. T \subseteq Nat
    BY DEF T
  <2> QED
    BY <1>1, <1>2, <2>1, Induction
<1> QED
  BY <1>3

LEMMA ToSetConcat ==
    ASSUME NEW S, NEW s \in Seq(S), NEW t \in Seq(S)
    PROVE  s \o t \in Seq(S) /\ ToSet(s \o t) = ToSet(s) \cup ToSet(t)
<1> DEFINE m == Len(s) n == Len(t) u == s \o t
<1>1. /\ m \in Nat /\ n \in Nat
      /\ DOMAIN s = 1..m /\ DOMAIN t = 1..n /\ DOMAIN u = 1..(m + n)
      /\ \A i \in 1..(m + n) : u[i] = IF i <= m THEN s[i] ELSE t[i - m]
      /\ u \in Seq(S)
  BY ConcatProperties, LenProperties
<1> HIDE DEF m, n, u
<1>2. ASSUME NEW i \in 1..(m + n) PROVE u[i] \in ToSet(s) \cup ToSet(t)
  <2>1. CASE i <= m
    <3>1. i \in DOMAIN s /\ u[i] = s[i]
      BY <1>1, <2>1
    <3> QED
      BY <3>1 DEF ToSet
  <2>2. CASE ~(i <= m)
    <3>1. i - m \in DOMAIN t /\ u[i] = t[i - m]
      BY <1>1, <2>2
    <3> QED
      BY <3>1 DEF ToSet
  <2> QED
    BY <2>1, <2>2
<1>3. ASSUME NEW i \in 1..m PROVE s[i] \in ToSet(u)
  BY <1>1 DEF ToSet
<1>4. ASSUME NEW i \in 1..n PROVE t[i] \in ToSet(u)
  <2>1. i + m \in 1..(m + n) /\ ~(i + m <= m) /\ i + m - m = i
    BY <1>1
  <2>2. i + m \in DOMAIN u /\ u[i + m] = t[i]
    BY <1>1, <2>1
  <2> QED
    BY <2>2 DEF ToSet
<1>5. ToSet(u) \subseteq ToSet(s) \cup ToSet(t)
  BY <1>1, <1>2 DEF ToSet
<1>6. ToSet(s) \cup ToSet(t) \subseteq ToSet(u)
  BY <1>1, <1>3, <1>4 DEF ToSet
<1> QED
  BY <1>1, <1>5, <1>6 DEF u

(* FlattenSeq, as to_legacy_evidences_dict uses it to collect the items of *)
(* all packages in one list: it has the elements of every list and no      *)
(* others.                                                                 *)
LEMMA FlattenHasAll ==
    ASSUME NEW S, NEW ss \in Seq(Seq(S))
    PROVE  /\ FlattenSeq(ss) \in Seq(S)
           /\ ToSet(FlattenSeq(ss)) = UNION {ToSet(s) : s \in ToSet(ss)}
<1> DEFINE n == Len(ss)
<1>1. n \in Nat /\ DOMAIN ss = 1..n /\ \A i \in 1..n : ss[i] \in Seq(S)
  BY LenProperties, ElementOfSeq
<1>2. CASE n = 0
  <2>1. ss = <<>>
    BY <1>2, EmptySeq
  <2>2. FlattenSeq(ss) = ss
    BY <1>2 DEF FlattenSeq
  <2>3. <<>> \in Seq(S) /\ ToSet(ss) = {}
    BY <2>1 DEF ToSet
  <2> QED
    BY <2>1, <2>2, <2>3
<1>3. CASE n # 0
  <2> DEFINE f == CHOOSE g : g = [i \in 1..n |-> IF i = 1 THEN ss[i] ELSE g[i-1] \o ss[i]]
  <2>1. FlattenSeq(ss) = f[n]
    BY <1>3 DEF FlattenSeq
  <2>2. f = [i \in 1..n |-> IF i = 1 THEN ss[i] ELSE f[i - 1] \o ss[i]]
    BY <1>1, FlatteningExists DEF Flattening
  <2> DEFINE Elements(i) == UNION {ToSet(ss[j]) : j \in 1..i}
             T == {i \in Nat : i + 1 \in 1..n =>
                        f[i + 1] \in Seq(S) /\ ToSet(f[i + 1]) = Elements(i + 1)}
  <2> HIDE DEF f, n
  <2>3. 0 \in T
    <3>1. 1 \in 1..n /\ f[1] = ss[1]
      BY <1>1, <1>3, <2>2
    <3>2. 1..1 = {1}
      OBVIOUS
    <3>3. Elements(1) = ToSet(ss[1])
      BY <3>2
    <3> QED
      BY <1>1, <3>1, <3>3
  <2>4. ASSUME NEW i \in T, i + 2 \in 1..n
        PROVE  f[i + 2] \in Seq(S) /\ ToSet(f[i + 2]) = Elements(i + 2)
    <3>1. i + 1 \in 1..n /\ i + 2 # 1 /\ i + 2 - 1 = i + 1
      BY <1>1, <2>4
    <3>2. f[i + 2] = f[i + 1] \o ss[i + 2]
      <4>1. \A k \in 1..n : f[k] = IF k = 1 THEN ss[k] ELSE f[k - 1] \o ss[k]
        BY <2>2
      <4>2. f[i + 2] = IF i + 2 = 1 THEN ss[i + 2] ELSE f[i + 2 - 1] \o ss[i + 2]
        BY <2>4, <4>1
      <4> QED
        BY <3>1, <4>2
    <3>3. f[i + 1] \in Seq(S) /\ ToSet(f[i + 1]) = Elements(i + 1)
      BY <3>1
    <3>4. ss[i + 2] \in Seq(S)
      BY <1>1, <2>4
    <3>5. 1..(i + 2) = 1..(i + 1) \cup {i + 2}
      OBVIOUS
    <3>6. Elements(i + 2) = Elements(i + 1) \cup ToSet(ss[i + 2])
      BY <3>5
    <3> HIDE DEF Elements
    <3>7. /\ f[i + 1] \o ss[i + 2] \in Seq(S)
          /\ ToSet(f[i + 1] \o ss[i + 2]) = ToSet(f[i + 1]) \cup ToSet(ss[i + 2])
      BY ONLY <3>3, <3>4, ToSetConcat
    <3> QED
      BY <3>2, <3>3, <3>6, <3>7
  <2>5. T = Nat
    <3>1. T \subseteq Nat
      OBVIOUS
    <3>2. \A i \in T : i + 1 \in T
      <4>1. \A i \in T : i + 1 \in Nat /\ i + 1 + 1 = i + 2
        OBVIOUS
      <4> HIDE DEF Elements
      <4> QED
        BY <2>4, <4>1
    <3> HIDE DEF T
    <3> QED
      BY <2>3, <3>1, <3>2, Induction
  <2>6. n - 1 \in T /\ n - 1 + 1 = n /\ n \in 1..n
    <3>1. n - 1 \in Nat /\ n - 1 + 1 = n /\ n \in 1..n
      BY <1>1, <1>3
    <3> HIDE DEF T
    <3> QED
      BY <2>5, <3>1
  <2>7. f[n] \in Seq(S) /\ ToSet(f[n]) = Elements(n)
    <3> HIDE DEF Elements
    <3> QED
      BY <2>6
  <2>8. Elements(n) = UNION {ToSet(s) : s \in ToSet(ss)}
    <3>1. ToSet(ss) = {ss[j] : j \in 1..n}
      BY <1>1 DEF ToSet
    <3> QED
      BY <3>1
  <2> QED
    BY <2>1, <2>7, <2>8
<1> QED
  BY <1>2, <1>3

-----------------------------------------------------------------------------
(* Mapping the elements of a list commutes with collecting lists.          *)
Maps(S, D) == [S -> D]

Mapped(G, s) == [k \in DOMAIN s |-> G[s[k]]]

\* What FlattenSeq has collected after each of its lists.
LEMMA Collecting ==
    ASSUME NEW ss, NEW n \in Nat, Len(ss) = n, n # 0
    PROVE  \E f : /\ FlattenSeq(ss) = f[n] /\ f[1] = ss[1]
                  /\ \A i \in Nat : i + 2 \in 1..n => f[i + 2] = f[i + 1] \o ss[i + 2]
<1> DEFINE f == CHOOSE g : g = [i \in 1..n |-> IF i = 1 THEN ss[i] ELSE g[i-1] \o ss[i]]
<1>1. FlattenSeq(ss) = f[n]
  BY DEF FlattenSeq
<1>2. f = [i \in 1..n |-> IF i = 1 THEN ss[i] ELSE f[i - 1] \o ss[i]]
  BY FlatteningExists DEF Flattening
<1> HIDE DEF f
<1>3. \A k \in 1..n : f[k] = IF k = 1 THEN ss[k] ELSE f[k - 1] \o ss[k]
  BY <1>2
<1>4. f[1] = ss[1]
  BY <1>3
<1>5. ASSUME NEW i \in Nat, i + 2 \in 1..n PROVE f[i + 2] = f[i + 1] \o ss[i + 2]
  <2>1. f[i + 2] = IF i + 2 = 1 THEN ss[i + 2] ELSE f[i + 2 - 1] \o ss[i + 2]
    BY <1>3, <1>5
  <2>2. i + 2 # 1 /\ i + 2 - 1 = i + 1
    OBVIOUS
  <2> QED
    BY <2>1, <2>2
<1> QED
  BY <1>1, <1>4, <1>5

\* A mapped list is a list of the same length.
LEMMA MappedIsSeq ==
    ASSUME NEW S, NEW D, NEW G \in Maps(S, D), NEW s \in Seq(S)
    PROVE  Mapped(G, s) \in Seq(D) /\ Len(Mapped(G, s)) = Len(s)
           /\ DOMAIN Mapped(G, s) = DOMAIN s
<1>1. Len(s) \in Nat /\ DOMAIN s = 1..Len(s) /\ \A k \in 1..Len(s) : s[k] \in S
  BY LenProperties, ElementOfSeq
<1>2. Mapped(G, s) \in [1..Len(s) -> D]
  BY <1>1 DEF Mapped, Maps
<1>3. Mapped(G, s) \in Seq(D)
  BY <1>1, <1>2, SeqDef
<1>4. Len(Mapped(G, s)) = Len(s)
  BY <1>1, <1>2, <1>3, LenProperties
<1> QED
  BY <1>1, <1>2, <1>3, <1>4

\* Mapping the empty list, and a list of one element.
LEMMA MappedShort ==
    ASSUME NEW S, NEW D, NEW G \in Maps(S, D)
    PROVE  Mapped(G, <<>>) = <<>> /\ \A x \in S : Mapped(G, <<x>>) = <<G[x]>>
<1>1. \A e \in Seq(S) : Mapped(G, e) \in Seq(D) /\ Len(Mapped(G, e)) = Len(e)
  BY MappedIsSeq
<1>2. Mapped(G, <<>>) = <<>>
  <2>1. <<>> \in Seq(S) /\ Len(<<>>) = 0
    BY EmptySeq
  <2>2. Mapped(G, <<>>) \in Seq(D) /\ Len(Mapped(G, <<>>)) = 0
    BY ONLY <1>1, <2>1
  <2> QED
    BY <2>2, EmptySeq
<1>3. ASSUME NEW x \in S PROVE Mapped(G, <<x>>) = <<G[x]>>
  <2>1. \E e : e = <<x>> /\ e \in Seq(S) /\ Len(e) = 1 /\ e[1] = x /\ DOMAIN e = 1..1
    <3>1. <<x>> \in Seq(S) /\ Len(<<x>>) = 1 /\ <<x>>[1] = x /\ DOMAIN <<x>> = 1..1
      OBVIOUS
    <3> WITNESS <<x>>
    <3> QED
      BY <3>1
  <2>2. PICK e : e = <<x>> /\ e \in Seq(S) /\ Len(e) = 1 /\ e[1] = x /\ DOMAIN e = 1..1
    BY <2>1
  <2>3. Mapped(G, e) \in Seq(D) /\ Len(Mapped(G, e)) = 1
    BY ONLY <1>1, <2>2
  <2>4. Mapped(G, e)[1] = G[x] /\ G[x] \in D
    BY <2>2 DEF Mapped, Maps
  <2>5. \E t : t = <<G[x]>> /\ t \in Seq(D) /\ Len(t) = 1 /\ t[1] = G[x]
    <3>1. <<G[x]>> \in Seq(D) /\ Len(<<G[x]>>) = 1 /\ <<G[x]>>[1] = G[x]
      BY <2>4
    <3> WITNESS <<G[x]>>
    <3> QED
      BY <3>1
  <2>6. PICK t : t = <<G[x]>> /\ t \in Seq(D) /\ Len(t) = 1 /\ t[1] = G[x]
    BY <2>5
  <2>7. \A k \in 1..1 : k = 1
    OBVIOUS
  <2>8. Mapped(G, e) = t
    BY ONLY <2>3, <2>4, <2>6, <2>7, SeqEqual
  <2> QED
    BY ONLY <2>2, <2>6, <2>8
<1> QED
  BY <1>2, <1>3

\* Mapping a concatenation is concatenating what was mapped.
LEMMA MappedConcat ==
    ASSUME NEW S, NEW D, NEW G \in Maps(S, D), NEW s \in Seq(S), NEW t \in Seq(S)
    PROVE  Mapped(G, s \o t) = Mapped(G, s) \o Mapped(G, t)
<1> DEFINE m == Len(s) n == Len(t) u == s \o t
           a == Mapped(G, s) b == Mapped(G, t) c == a \o b d == Mapped(G, u)
<1>1. /\ m \in Nat /\ n \in Nat
      /\ DOMAIN s = 1..m /\ DOMAIN t = 1..n /\ DOMAIN u = 1..(m + n)
      /\ \A i \in 1..(m + n) : u[i] = IF i <= m THEN s[i] ELSE t[i - m]
      /\ u \in Seq(S)
  BY ConcatProperties, LenProperties
<1>2. /\ a \in Seq(D) /\ Len(a) = m
      /\ b \in Seq(D) /\ Len(b) = n
  <2>1. Mapped(G, s) \in Seq(D) /\ Len(Mapped(G, s)) = Len(s)
    BY ONLY G \in Maps(S, D), s \in Seq(S), MappedIsSeq
  <2>2. Mapped(G, t) \in Seq(D) /\ Len(Mapped(G, t)) = Len(t)
    BY ONLY G \in Maps(S, D), t \in Seq(S), MappedIsSeq
  <2> QED
    BY ONLY <2>1, <2>2
<1>3. /\ c \in Seq(D) /\ Len(c) = m + n
      /\ \A i \in 1..(m + n) : c[i] = IF i <= m THEN a[i] ELSE b[i - m]
  <2> HIDE DEF a, b, m, n, u, d
  <2> QED
    BY <1>2, ConcatProperties
<1>4. /\ \A i \in 1..m : a[i] = G[s[i]]
      /\ \A i \in 1..n : b[i] = G[t[i]]
      /\ \A i \in 1..(m + n) : d[i] = G[u[i]]
  BY <1>1 DEF Mapped
<1>5. d \in Seq(D) /\ Len(d) = m + n
  <2>1. Len(u) = m + n
    BY <1>1, LenProperties
  <2>2. Mapped(G, u) \in Seq(D) /\ Len(Mapped(G, u)) = Len(u)
    <3>1. u \in Seq(S)
      BY <1>1
    <3> HIDE DEF u
    <3> QED
      BY ONLY G \in Maps(S, D), <3>1, MappedIsSeq
  <2> QED
    BY ONLY <2>1, <2>2
<1> HIDE DEF m, n, u, a, b, c, d
<1>6. \A i \in 1..(m + n) : c[i] = d[i]
  <2>1. ASSUME NEW i \in 1..(m + n), i <= m PROVE c[i] = d[i]
    <3>1. i \in 1..m
      BY <1>1, <2>1
    <3>2. c[i] = a[i] /\ d[i] = G[u[i]] /\ u[i] = s[i]
      BY <1>1, <1>3, <1>4, <2>1
    <3>3. a[i] = G[s[i]]
      BY <1>4, <3>1
    <3> QED
      BY ONLY <3>2, <3>3
  <2>2. ASSUME NEW i \in 1..(m + n), ~(i <= m) PROVE c[i] = d[i]
    <3>1. i - m \in 1..n
      BY <1>1, <2>2
    <3>2. c[i] = b[i - m] /\ d[i] = G[u[i]] /\ u[i] = t[i - m]
      BY <1>1, <1>3, <1>4, <2>2
    <3>3. b[i - m] = G[t[i - m]]
      BY <1>4, <3>1
    <3> QED
      BY ONLY <3>2, <3>3
  <2>3. \A i \in 1..(m + n) : i <= m \/ ~(i <= m)
    OBVIOUS
  <2> QED
    BY ONLY <2>1, <2>2, <2>3
<1>7. c = d
  BY <1>3, <1>5, <1>6, SeqEqual
<1> QED
  BY <1>7 DEF c, d, a, b, u

\* Collecting lists and mapping what was collected is collecting mapped lists,
\* for lists of any length: nothing is dropped, doubled or moved.
LEMMA MappedFlatten ==
    ASSUME NEW S, NEW D, NEW G \in Maps(S, D), NEW ss \in Seq(Seq(S))
    PROVE  Mapped(G, FlattenSeq(ss)) = FlattenSeq([i \in DOMAIN ss |-> Mapped(G, ss[i])])
<1> DEFINE n == Len(ss)
           mm == [i \in DOMAIN ss |-> Mapped(G, ss[i])]
<1>1. n \in Nat /\ DOMAIN ss = 1..n /\ \A i \in 1..n : ss[i] \in Seq(S)
  BY LenProperties, ElementOfSeq
<1>2. mm \in Seq(Seq(D)) /\ Len(mm) = n /\ \A i \in 1..n : mm[i] = Mapped(G, ss[i])
  <2>1. mm \in [1..n -> Seq(D)]
    BY <1>1, MappedIsSeq
  <2>2. mm \in Seq(Seq(D))
    BY <1>1, <2>1, SeqDef
  <2>3. Len(mm) = n
    BY <1>1, <2>1, <2>2, LenProperties
  <2> QED
    BY <1>1, <2>2, <2>3
<1> HIDE DEF mm
<1>3. CASE n = 0
  <2>1. ss = <<>> /\ mm = <<>>
    BY <1>2, <1>3, EmptySeq
  <2>2. FlattenSeq(<<>>) = <<>>
    BY DEF FlattenSeq
  <2>3. Mapped(G, <<>>) = <<>>
    BY ONLY G \in Maps(S, D), MappedShort
  <2> QED
    BY <2>1, <2>2, <2>3 DEF mm
<1>4. CASE n # 0
  <2>1. PICK f : /\ FlattenSeq(ss) = f[n] /\ f[1] = ss[1]
                 /\ \A i \in Nat : i + 2 \in 1..n => f[i + 2] = f[i + 1] \o ss[i + 2]
    BY <1>1, <1>4, Collecting
  <2>2. PICK g : /\ FlattenSeq(mm) = g[n] /\ g[1] = mm[1]
                 /\ \A i \in Nat : i + 2 \in 1..n => g[i + 2] = g[i + 1] \o mm[i + 2]
    BY <1>1, <1>2, <1>4, Collecting
  <2> DEFINE T == {i \in Nat : i + 1 \in 1..n =>
                        f[i + 1] \in Seq(S) /\ g[i + 1] = Mapped(G, f[i + 1])}
  <2> HIDE DEF n
  <2>3. 0 \in T
    <3>1. 1 \in 1..n
      BY <1>1, <1>4
    <3> QED
      BY <1>1, <1>2, <2>1, <2>2, <3>1
  <2>4. ASSUME NEW i \in T, i + 2 \in 1..n
        PROVE  f[i + 2] \in Seq(S) /\ g[i + 2] = Mapped(G, f[i + 2])
    <3>1. i + 1 \in 1..n /\ i \in Nat
      BY <1>1, <2>4
    <3>2. f[i + 2] = f[i + 1] \o ss[i + 2] /\ g[i + 2] = g[i + 1] \o mm[i + 2]
      BY <2>1, <2>2, <2>4, <3>1
    <3>3. f[i + 1] \in Seq(S) /\ g[i + 1] = Mapped(G, f[i + 1])
      BY <3>1
    <3>4. ss[i + 2] \in Seq(S) /\ mm[i + 2] = Mapped(G, ss[i + 2])
      BY <1>1, <1>2, <2>4
    <3>5. /\ f[i + 1] \o ss[i + 2] \in Seq(S)
          /\ Mapped(G, f[i + 1] \o ss[i + 2])
               = Mapped(G, f[i + 1]) \o Mapped(G, ss[i + 2])
      <4>1. f[i + 1] \in Seq(S) /\ ss[i + 2] \in Seq(S)
        BY ONLY <3>3, <3>4
      <4>2. f[i + 1] \o ss[i + 2] \in Seq(S)
        BY ONLY <4>1, ToSetConcat
      <4>3. Mapped(G, f[i + 1] \o ss[i + 2])
               = Mapped(G, f[i + 1]) \o Mapped(G, ss[i + 2])
        <5>1. \A a, b \in Seq(S) :
                 Mapped(G, a \o b) = Mapped(G, a) \o Mapped(G, b)
          BY ONLY G \in Maps(S, D), MappedConcat
        <5> QED
          BY ONLY <4>1, <5>1
      <4> QED
        BY ONLY <4>2, <4>3
    <3> QED
      BY <3>2, <3>3, <3>4, <3>5
  <2>5. T = Nat
    <3>1. T \subseteq Nat
      OBVIOUS
    <3>2. \A i \in T : i + 1 \in T
      <4>1. \A i \in T : i + 1 \in Nat /\ i + 1 + 1 = i + 2
        OBVIOUS
      <4> QED
        BY <2>4, <4>1
    <3> HIDE DEF T
    <3> QED
      BY <2>3, <3>1, <3>2, Induction
  <2>6. n - 1 \in T /\ n - 1 + 1 = n /\ n \in 1..n
    <3>1. n - 1 \in Nat /\ n - 1 + 1 = n /\ n \in 1..n
      BY <1>1, <1>4
    <3> HIDE DEF T
    <3> QED
      BY <2>5, <3>1
  <2>7. g[n] = Mapped(G, f[n])
    BY <2>6
  <2> QED
    BY <2>1, <2>2, <2>7 DEF mm
<1> QED
  BY <1>3, <1>4

(* A list is what is collected from its elements one by one.               *)
LEMMA FlattenSingles ==
    ASSUME NEW S, NEW s \in Seq(S)
    PROVE  FlattenSeq([k \in DOMAIN s |-> <<s[k]>>]) = s
<1> DEFINE n == Len(s)
           mm == [k \in DOMAIN s |-> <<s[k]>>]
<1>1. n \in Nat /\ DOMAIN s = 1..n /\ \A i \in 1..n : s[i] \in S
  BY LenProperties, ElementOfSeq
<1>2. Len(mm) = n /\ mm \in Seq(Seq(S)) /\ \A i \in 1..n : mm[i] = <<s[i]>>
  <2>1. mm \in [1..n -> Seq(S)]
    BY <1>1
  <2>2. mm \in Seq(Seq(S))
    BY <1>1, <2>1, SeqDef
  <2>3. Len(mm) = n
    BY <1>1, <2>1, <2>2, LenProperties
  <2> QED
    BY <1>1, <2>2, <2>3
<1> HIDE DEF mm
<1>3. CASE n = 0
  <2>1. s = <<>> /\ mm = <<>>
    BY <1>2, <1>3, EmptySeq
  <2>2. FlattenSeq(<<>>) = <<>>
    BY DEF FlattenSeq
  <2> QED
    BY <2>1, <2>2 DEF mm
<1>4. CASE n # 0
  <2>1. PICK f : /\ FlattenSeq(mm) = f[n] /\ f[1] = mm[1]
                 /\ \A i \in Nat : i + 2 \in 1..n => f[i + 2] = f[i + 1] \o mm[i + 2]
    BY <1>1, <1>2, <1>4, Collecting
  <2> DEFINE T == {i \in Nat : i + 1 \in 1..n =>
                        /\ f[i + 1] \in Seq(S) /\ Len(f[i + 1]) = i + 1
                        /\ \A k \in 1..(i + 1) : f[i + 1][k] = s[k]}
  <2> HIDE DEF n
  <2>2. 0 \in T
    <3>1. 1 \in 1..n
      BY <1>1, <1>4
    <3>2. f[1] = <<s[1]>> /\ s[1] \in S
      BY <1>1, <1>2, <2>1, <3>1
    <3>3. f[1] \in Seq(S) /\ Len(f[1]) = 1 /\ f[1][1] = s[1]
      BY <3>2
    <3>4. \A k \in 1..1 : k = 1
      OBVIOUS
    <3> QED
      BY <3>3, <3>4
  <2>3. ASSUME NEW i \in T, i + 2 \in 1..n
        PROVE  /\ f[i + 2] \in Seq(S) /\ Len(f[i + 2]) = i + 2
               /\ \A k \in 1..(i + 2) : f[i + 2][k] = s[k]
    <3>1. i + 1 \in 1..n /\ i \in Nat
      BY <1>1, <2>3
    <3>2. f[i + 2] = f[i + 1] \o <<s[i + 2]>> /\ s[i + 2] \in S
      BY <1>1, <1>2, <2>1, <2>3, <3>1
    <3>3. /\ f[i + 1] \in Seq(S) /\ Len(f[i + 1]) = i + 1
          /\ \A k \in 1..(i + 1) : f[i + 1][k] = s[k]
      BY <3>1
    <3>4. <<s[i + 2]>> \in Seq(S) /\ Len(<<s[i + 2]>>) = 1 /\ <<s[i + 2]>>[1] = s[i + 2]
      BY <3>2
    <3>5. /\ f[i + 2] \in Seq(S) /\ Len(f[i + 2]) = i + 2
          /\ \A k \in 1..(i + 2) : f[i + 2][k] =
                IF k <= i + 1 THEN f[i + 1][k] ELSE <<s[i + 2]>>[k - (i + 1)]
      <4>1. \E e : e = <<s[i + 2]>> /\ e \in Seq(S) /\ Len(e) = 1
        <5> WITNESS <<s[i + 2]>>
        <5> QED
          BY <3>4
      <4>2. PICK e : e = <<s[i + 2]>> /\ e \in Seq(S) /\ Len(e) = 1
        BY <4>1
      <4>3. /\ f[i + 1] \o e \in Seq(S) /\ Len(f[i + 1] \o e) = i + 1 + 1
            /\ \A k \in 1..(i + 1 + 1) : (f[i + 1] \o e)[k] =
                  IF k <= i + 1 THEN f[i + 1][k] ELSE e[k - (i + 1)]
        BY ONLY <3>3, <4>2, ConcatProperties
      <4>4. i + 1 + 1 = i + 2
        BY <3>1
      <4> QED
        BY ONLY <3>2, <4>2, <4>3, <4>4
    <3>6. \A k \in 1..(i + 2) : (k \in 1..(i + 1) /\ k <= i + 1)
                                 \/ (k = i + 2 /\ ~(k <= i + 1) /\ k - (i + 1) = 1)
      BY <3>1
    <3>7. ASSUME NEW k \in 1..(i + 2) PROVE f[i + 2][k] = s[k]
      <4>1. CASE k \in 1..(i + 1) /\ k <= i + 1
        BY ONLY <3>3, <3>5, <4>1
      <4>2. CASE k = i + 2 /\ ~(k <= i + 1) /\ k - (i + 1) = 1
        <5>1. f[i + 2][k] = <<s[i + 2]>>[1]
          BY ONLY <3>5, <4>2
        <5> QED
          BY ONLY <3>4, <4>2, <5>1
      <4> QED
        BY ONLY <3>6, <4>1, <4>2
    <3> QED
      BY ONLY <3>5, <3>7
  <2>4. T = Nat
    <3>1. T \subseteq Nat
      OBVIOUS
    <3>2. \A i \in T : i + 1 \in T
      <4>1. \A i \in T : i + 1 \in Nat /\ i + 1 + 1 = i + 2
        OBVIOUS
      <4> QED
        BY <2>3, <4>1
    <3> HIDE DEF T
    <3> QED
      BY <2>2, <3>1, <3>2, Induction
  <2>5. n - 1 \in T /\ n - 1 + 1 = n /\ n \in 1..n
    <3>1. n - 1 \in Nat /\ n - 1 + 1 = n /\ n \in 1..n
      BY <1>1, <1>4
    <3> HIDE DEF T
    <3> QED
      BY <2>4, <3>1
  <2>6. f[n] \in Seq(S) /\ Len(f[n]) = n /\ \A k \in 1..n : f[n][k] = s[k]
    BY <2>5
  <2>7. f[n] = s
    BY <1>1, <2>6, SeqEqual DEF n
  <2> QED
    BY <2>1, <2>7 DEF mm
<1> QED
  BY <1>3, <1>4
=============================================================================
