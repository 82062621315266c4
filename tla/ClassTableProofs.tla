-------------------------- MODULE ClassTableProofs --------------------------
(***************************************************************************)
(* Lemmas about ClassTables: what the loops of fix_class_list and of the   *)
(* loader have built is what the definitions say (Tables), and in a regular *)
(* program both number the fields (FieldsLaid) and the methods (SlotsRight) *)
(* of a class in the same way.                                             *)
(***************************************************************************)
EXTENDS ClassTables, WellFoundedInduction, SequenceTheorems, FiniteSetTheorems, TLAPS

-----------------------------------------------------------------------------
(* Sequences: places in order, parts, concatenations.                      *)

(* A nonempty set of natural numbers has a least element.                  *)
LEMMA LeastOf ==
    ASSUME NEW T \in SUBSET Nat, T # {}
    PROVE  \E n \in T : \A m \in T : n <= m
<1> DEFINE R == OpToRel(<, Nat)
<1>1. \A x, y \in Nat : <<y, x>> \in R <=> y < x
  BY DEF OpToRel
<1>2. IsWellFoundedOn(R, Nat)
  BY NatLessThanWellFounded
<1> HIDE DEF R
<1>3. PICK x \in T : \A y \in T : ~ (<<y, x>> \in R)
  BY <1>2, WFMin
<1>4. \A y \in T : y \in Nat /\ x \in Nat /\ ~ (y < x)
  BY <1>1, <1>3
<1>5. \A y \in T : x <= y
  BY <1>4
<1> QED
  BY <1>5

-----------------------------------------------------------------------------
(* Places in their order.                                                  *)
LEMMA RankIs ==
    ASSUME NEW n \in Nat, NEW T \in SUBSET (1..n)
    PROVE  /\ IsFiniteSet(T) /\ Cardinality(T) \in Nat
           /\ \A p \in T : Rank(T, p) \in 1..Cardinality(T)
           /\ \A p, q \in T : p < q => Rank(T, p) < Rank(T, q)
           /\ \A i \in 1..Cardinality(T) : \E p \in T : Rank(T, p) = i
<1> DEFINE B(p) == {q \in T : q < p}
           k == Cardinality(T)
<1>1. IsFiniteSet(T) /\ k \in Nat
  <2>1. IsFiniteSet(1..n)
    BY FS_Interval
  <2> QED BY <2>1, FS_Subset, FS_CardinalityType
<1>2. \A p \in T : IsFiniteSet(B(p)) /\ Cardinality(B(p)) \in Nat
  BY <1>1, FS_Subset, FS_CardinalityType
<1>3. ASSUME NEW p \in T
      PROVE  Cardinality(B(p)) < k
  <2>1. B(p) \in SUBSET T /\ p \notin B(p)
    OBVIOUS
  <2>2. Cardinality(B(p)) <= k /\ (Cardinality(B(p)) = k => B(p) = T)
    BY <1>1, <2>1, FS_Subset
  <2> QED BY <1>1, <1>2, <2>1, <2>2
<1>4. ASSUME NEW p \in T, NEW q \in T, p < q
      PROVE  Cardinality(B(p)) < Cardinality(B(q))
  <2>1. B(p) \in SUBSET B(q) /\ p \notin B(p) /\ p \in B(q)
    <3>1. p \in Nat /\ q \in Nat /\ \A x \in T : x \in Nat
      OBVIOUS
    <3>2. \A x \in T : x < p => x < q
      BY <1>4, <3>1
    <3>3. p \notin B(p) /\ p \in B(q)
      BY <1>4, <3>1
    <3> QED BY <3>2, <3>3
  <2>2. /\ Cardinality(B(p)) <= Cardinality(B(q))
        /\ (Cardinality(B(q)) = Cardinality(B(p)) => B(p) = B(q))
    BY <1>2, <2>1, FS_Subset
  <2> QED BY <1>2, <2>1, <2>2
<1>5. \A p \in T : Rank(T, p) = 1 + Cardinality(B(p))
  BY DEF Rank
<1> HIDE DEF B, k
<1>6. \A p \in T : Rank(T, p) \in 1..k
  BY <1>1, <1>2, <1>3, <1>5
<1>7. \A p, q \in T : p < q => Rank(T, p) < Rank(T, q)
  BY <1>2, <1>4, <1>5
<1>8. ASSUME NEW i \in 1..k
      PROVE  \E p \in T : Rank(T, p) = i
  <2> DEFINE f == [p \in T |-> Rank(T, p)]
  <2>1. f \in Injection(T, 1..k)
    <3>1. f \in [T -> 1..k]
      BY <1>6
    <3>2. \A p, q \in T : f[p] = f[q] => p = q
      <4> SUFFICES ASSUME NEW p \in T, NEW q \in T, f[p] = f[q] PROVE p = q
        OBVIOUS
      <4>1. p \in Int /\ q \in Int /\ Rank(T, p) = Rank(T, q)
        OBVIOUS
      <4>2. ~(p < q) /\ ~(q < p)
        BY <1>1, <1>6, <1>7, <4>1
      <4> QED BY <4>1, <4>2
    <3> QED BY <3>1, <3>2 DEF Injection, IsInjective
  <2>2. IsFiniteSet(1..k) /\ Cardinality(1..k) = k
    BY <1>1, FS_Interval
  <2>3. f \in Surjection(T, 1..k)
    <3> HIDE DEF f
    <3>1. Cardinality(T) = Cardinality(1..k)
      BY <2>2 DEF k
    <3> QED BY ONLY <2>1, <2>2, <3>1, FS_Injection
  <2> QED BY <2>3 DEF Surjection
<1> QED
  BY <1>1, <1>6, <1>7, <1>8 DEF k

LEMMA InOrderIs ==
    ASSUME NEW n \in Nat, NEW T \in SUBSET (1..n)
    PROVE  /\ InOrder(T) \in Seq(T) /\ Len(InOrder(T)) = Cardinality(T)
           /\ \A i \in 1..Cardinality(T) : InOrder(T)[i] \in T /\ Rank(T, InOrder(T)[i]) = i
           /\ \A p \in T : InOrder(T)[Rank(T, p)] = p
<1> DEFINE k == Cardinality(T)
           P(i) == CHOOSE p \in T : Rank(T, p) = i
<1>1. /\ k \in Nat
      /\ \A p \in T : Rank(T, p) \in 1..k
      /\ \A p, q \in T : p < q => Rank(T, p) < Rank(T, q)
      /\ \A i \in 1..k : \E p \in T : Rank(T, p) = i
  BY RankIs
<1> HIDE DEF k
<1>2. \A i \in 1..k : P(i) \in T /\ Rank(T, P(i)) = i
  BY <1>1
<1>3. InOrder(T) = [i \in 1..k |-> P(i)]
  BY DEF InOrder, k
<1> HIDE DEF P
<1>4. InOrder(T) \in Seq(T) /\ Len(InOrder(T)) = k
  BY <1>1, <1>2, <1>3
<1>5. \A i \in 1..k : InOrder(T)[i] = P(i)
  BY <1>3
<1>6. ASSUME NEW p \in T
      PROVE  InOrder(T)[Rank(T, p)] = p
  <2> DEFINE q == P(Rank(T, p))
  <2>1. q \in T /\ Rank(T, q) = Rank(T, p) /\ Rank(T, p) \in 1..k
    BY <1>1, <1>2
  <2> HIDE DEF q
  <2>2. ~(p < q) /\ ~(q < p)
    BY <1>1, <2>1
  <2>3. p = q
    BY <2>1, <2>2
  <2> QED BY <1>5, <2>1, <2>3 DEF q
<1> QED
  BY <1>2, <1>4, <1>5, <1>6 DEF k

LEMMA SelectedIs ==
    ASSUME NEW S, NEW list \in Seq(S), NEW T \in SUBSET (1..Len(list))
    PROVE  /\ Selected(list, T) \in Seq(S) /\ Len(Selected(list, T)) = Cardinality(T)
           /\ Cardinality(T) \in Nat
           /\ \A p \in T : /\ Rank(T, p) \in 1..Cardinality(T)
                           /\ Selected(list, T)[Rank(T, p)] = list[p]
           /\ \A i \in 1..Cardinality(T) :
                 \E p \in T : Rank(T, p) = i /\ Selected(list, T)[i] = list[p]
<1> DEFINE k == Cardinality(T)
<1>0. Len(list) \in Nat
  OBVIOUS
<1>1. /\ k \in Nat /\ \A p \in T : Rank(T, p) \in 1..k
  BY <1>0, RankIs
<1>2. /\ \A i \in 1..k : InOrder(T)[i] \in T /\ Rank(T, InOrder(T)[i]) = i
      /\ \A p \in T : InOrder(T)[Rank(T, p)] = p
  BY <1>0, InOrderIs
<1>3. Selected(list, T) = [i \in 1..k |-> list[InOrder(T)[i]]]
  BY DEF Selected
<1> HIDE DEF k
<1>4. \A i \in 1..k : list[InOrder(T)[i]] \in S
  <2>1. \A p \in T : p \in 1..Len(list)
    OBVIOUS
  <2>2. \A p \in 1..Len(list) : list[p] \in S
    OBVIOUS
  <2> QED BY ONLY <1>2, <2>1, <2>2
<1>5. \A i \in 1..k : Selected(list, T)[i] = list[InOrder(T)[i]]
  BY <1>3
<1>6. Selected(list, T) \in Seq(S) /\ Len(Selected(list, T)) = k
  BY <1>1, <1>3, <1>4
<1> QED
  BY <1>1, <1>2, <1>5, <1>6 DEF k

-----------------------------------------------------------------------------
(* The first and the last place of a set.                                  *)
LEMMA MinIs ==
    ASSUME NEW I \in SUBSET Nat, I # {}
    PROVE  Min(I) \in I /\ \A m \in I : Min(I) <= m
<1>1. \E x \in I : \A m \in I : x <= m
  BY LeastOf
<1> QED
  BY <1>1 DEF Min

LEMMA MaxIs ==
    ASSUME NEW n \in Nat, NEW I \in SUBSET (1..n), I # {}
    PROVE  Max(I) \in I
<1> DEFINE J == {n - i : i \in I}
<1>1. J \in SUBSET Nat /\ J # {}
  <2>1. \A i \in I : n - i \in Nat
    OBVIOUS
  <2>2. PICK i \in I : TRUE
    OBVIOUS
  <2>3. n - i \in J
    OBVIOUS
  <2> QED BY <2>1, <2>3
<1>2. PICK x \in J : \A m \in J : x <= m
  BY <1>1, LeastOf
<1>3. PICK i \in I : x = n - i
  BY <1>2
<1>4. \A m \in I : i >= m
  <2> SUFFICES ASSUME NEW m \in I PROVE i >= m
    OBVIOUS
  <2>1. n - m \in J
    OBVIOUS
  <2>2. n - i <= n - m
    BY <1>2, <1>3, <2>1
  <2> QED BY <2>2
<1> QED
  BY <1>4 DEF Max

-----------------------------------------------------------------------------
(* Sequences put together.  Parts(g, ss, n): g[i] is that of the first i.  *)
Parts(g, ss, n) ==
    DOMAIN g = 1..n /\ \A i \in 1..n : g[i] = IF i = 1 THEN ss[i] ELSE g[i - 1] \o ss[i]

LEMMA PartsExist ==
    ASSUME NEW S, NEW ss \in Seq(Seq(S)), NEW n \in Nat, n <= Len(ss)
    PROVE  \E g \in [1..n -> Seq(S)] : Parts(g, ss, n)
<1> DEFINE Has(k) == \E g \in [1..k -> Seq(S)] : Parts(g, ss, k)
           T == {k \in 0..n : ~Has(k)}
<1>1. Has(0)
  <2>1. [i \in 1..0 |-> << >>] \in [1..0 -> Seq(S)]
    OBVIOUS
  <2>2. Parts([i \in 1..0 |-> << >>], ss, 0)
    BY DEF Parts
  <2> QED BY <2>1, <2>2
<1>2. ASSUME NEW k \in Nat, k < n, Has(k)
      PROVE  Has(k + 1)
  <2>1. PICK g \in [1..k -> Seq(S)] : Parts(g, ss, k)
    BY <1>2
  <2>2. k + 1 \in 1..Len(ss) /\ ss[k + 1] \in Seq(S)
    BY <1>2
  <2> DEFINE v == IF k = 0 THEN ss[k + 1] ELSE g[k] \o ss[k + 1]
             h == [i \in 1..(k + 1) |-> IF i = k + 1 THEN v ELSE g[i]]
  <2>3. v \in Seq(S)
    <3>1. CASE k = 0
      BY <2>2, <3>1
    <3>2. CASE k # 0
      <4>1. g[k] \in Seq(S)
        BY <1>2, <3>2
      <4> QED BY <2>2, <3>2, <4>1
    <3> QED BY <3>1, <3>2
  <2>4. h \in [1..(k + 1) -> Seq(S)]
    <3> HIDE DEF v
    <3> QED BY <2>3, <1>2
  <2>5. Parts(h, ss, k + 1)
    <3>1. ASSUME NEW i \in 1..(k + 1)
          PROVE  h[i] = IF i = 1 THEN ss[i] ELSE h[i - 1] \o ss[i]
      <4>1. CASE i = k + 1
        <5>1. k # 0 => k \in 1..(k + 1) /\ k # k + 1
          BY <1>2
        <5>2. k # 0 => h[k] = g[k]
          BY <5>1
        <5>3. h[i] = v /\ i - 1 = k /\ (i = 1 <=> k = 0)
          BY <1>2, <4>1
        <5> HIDE DEF h
        <5> QED BY <4>1, <5>2, <5>3
      <4>2. CASE i # k + 1
        <5>1. i \in 1..k /\ (i # 1 => i - 1 \in 1..k /\ i - 1 # k + 1)
          BY <1>2, <4>2
        <5>2. h[i] = g[i] /\ (i # 1 => h[i - 1] = g[i - 1])
          BY <5>1, <4>2
        <5> HIDE DEF h
        <5> QED BY <2>1, <5>1, <5>2 DEF Parts
      <4> QED BY <4>1, <4>2
    <3> QED BY <3>1 DEF Parts
  <2> QED BY <2>4, <2>5
<1>3. T = {}
  <2> SUFFICES ASSUME T # {} PROVE FALSE
    OBVIOUS
  <2>1. PICK k \in T : \A m \in T : k <= m
    <3>1. T \in SUBSET Nat
      OBVIOUS
    <3> HIDE DEF T
    <3> QED BY <3>1, LeastOf
  <2>2. k \in 0..n /\ ~Has(k)
    OBVIOUS
  <2> HIDE DEF Has
  <2>3. k # 0
    BY <1>1, <2>2
  <2>4. k - 1 \in 0..n /\ k - 1 \in Nat /\ k - 1 < n /\ ~(k <= k - 1) /\ k - 1 + 1 = k
    BY <2>2, <2>3
  <2>5. Has(k - 1)
    BY <2>1, <2>4
  <2>6. Has(k - 1 + 1)
    BY ONLY <1>2, <2>4, <2>5
  <2> QED BY <2>2, <2>4, <2>6
<1> HIDE DEF Has
<1>4. Has(n)
  BY <1>3
<1> QED
  BY <1>4 DEF Has

LEMMA FlattenParts ==
    ASSUME NEW S, NEW ss \in Seq(Seq(S)), Len(ss) # 0
    PROVE  \E g \in [1..Len(ss) -> Seq(S)] : Parts(g, ss, Len(ss)) /\ FlattenSeq(ss) = g[Len(ss)]
<1> DEFINE n == Len(ss)
           F(g) == [i \in 1..n |-> IF i = 1 THEN ss[i] ELSE g[i - 1] \o ss[i]]
           h == CHOOSE g : g = F(g)
<1>1. n \in Nat /\ n # 0
  OBVIOUS
<1>2. PICK g \in [1..n -> Seq(S)] : Parts(g, ss, n)
  <2>1. ss \in Seq(Seq(S)) /\ n <= Len(ss)
    BY <1>1
  <2> HIDE DEF n
  <2> QED
    BY ONLY <1>1, <2>1, PartsExist
<1>3. g = F(g)
  BY <1>2 DEF Parts
<1>4. h = F(h)
  BY <1>3
<1>5. FlattenSeq(ss) = h[n]
  BY <1>1 DEF FlattenSeq
<1> HIDE DEF h
<1>6. Parts(h, ss, n)
  BY <1>4 DEF Parts
<1> DEFINE T == {k \in 1..n : h[k] # g[k]}
<1>7. T = {}
  <2> SUFFICES ASSUME T # {} PROVE FALSE
    OBVIOUS
  <2>1. PICK k \in T : \A m \in T : k <= m
    <3>1. T \in SUBSET Nat
      OBVIOUS
    <3> HIDE DEF T
    <3> QED BY <3>1, LeastOf
  <2>2. k \in 1..n /\ h[k] # g[k]
    OBVIOUS
  <2>3. k # 1 => k - 1 \in 1..n /\ ~(k <= k - 1)
    BY <2>2
  <2>4. k # 1 => h[k - 1] = g[k - 1]
    BY <2>1, <2>3
  <2> QED BY <1>2, <1>6, <2>2, <2>4 DEF Parts
<1>8. DOMAIN h = 1..n /\ DOMAIN g = 1..n
  BY <1>2, <1>6 DEF Parts
<1>9. h[n] = g[n]
  <2>1. n \in 1..n
    BY <1>1
  <2>2. \A k \in 1..n : h[k] = g[k]
    BY <1>7
  <2> HIDE DEF n
  <2> QED BY <2>1, <2>2
<1> QED
  BY <1>2, <1>5, <1>9

-----------------------------------------------------------------------------
(* What a sequence of parts put together has in it.                        *)
LEMMA ConcatRange ==
    ASSUME NEW S, NEW a \in Seq(S), NEW b \in Seq(S)
    PROVE  Range(a \o b) = Range(a) \cup Range(b)
<1>1. /\ \A i \in 1..Len(a) : (a \o b)[i] = a[i]
      /\ \A i \in 1..Len(b) : (a \o b)[Len(a) + i] = b[i]
      /\ \A i \in 1..Len(a \o b) : i \in 1..Len(a) \/ (i - Len(a) \in 1..Len(b) /\ (a \o b)[i] = b[i - Len(a)])
      /\ \A i \in 1..Len(a) : i \in 1..Len(a \o b)
      /\ \A i \in 1..Len(b) : Len(a) + i \in 1..Len(a \o b)
  OBVIOUS
<1>2. DOMAIN a = 1..Len(a) /\ DOMAIN b = 1..Len(b) /\ DOMAIN (a \o b) = 1..Len(a \o b)
  OBVIOUS
<1>3. ASSUME NEW x \in Range(a \o b)
      PROVE  x \in Range(a) \cup Range(b)
  BY <1>1, <1>2 DEF Range
<1>4. ASSUME NEW x \in Range(a)
      PROVE  x \in Range(a \o b)
  BY <1>1, <1>2 DEF Range
<1>5. ASSUME NEW x \in Range(b)
      PROVE  x \in Range(a \o b)
  <2>1. PICK i \in 1..Len(b) : x = b[i]
    BY <1>2 DEF Range
  <2>2. Len(a) + i \in DOMAIN (a \o b) /\ (a \o b)[Len(a) + i] = x
    BY <1>1, <1>2, <2>1
  <2> QED BY <2>2 DEF Range
<1> QED
  BY <1>3, <1>4, <1>5

LEMMA RangeOf ==
    /\ Range(<<>>) = {} /\ DOMAIN <<>> = {}
    /\ \A x : Range(<<x>>) = {x}
<1>1. DOMAIN <<>> = {}
  OBVIOUS
<1>2. Range(<<>>) = {}
  BY <1>1 DEF Range
<1>3. \A x : DOMAIN <<x>> = {1} /\ <<x>>[1] = x
  OBVIOUS
<1>4. \A x : Range(<<x>>) = {x}
  BY <1>3 DEF Range
<1> QED
  BY <1>1, <1>2, <1>4

LEMMA SeqOfOne ==
    ASSUME NEW S, NEW s \in Seq(S), s # <<>>, ~(Len(s) > 1)
    PROVE  Len(s) = 1 /\ s = <<s[1]>> /\ DOMAIN s = {1}
<1>1. Len(s) \in Nat /\ Len(s) # 0
  BY EmptySeq
<1>2. Len(s) = 1 /\ s[1] \in S
  <2>1. Len(s) = 1
    <3> DEFINE k == Len(s)
    <3>1. k \in Nat /\ k # 0 /\ ~(k > 1)
      BY <1>1
    <3> HIDE DEF k
    <3>2. k = 1
      BY ONLY <3>1
    <3> QED BY <3>2 DEF k
  <2> QED BY <2>1, ElementOfSeq
<1>3. <<s[1]>> \in Seq(S) /\ Len(<<s[1]>>) = 1 /\ <<s[1]>>[1] = s[1]
  BY <1>2
<1>4. \A i \in 1..1 : s[i] = <<s[1]>>[i]
  BY <1>3
<1>5. s = <<s[1]>>
  BY <1>2, <1>3, <1>4, SeqEqual
<1>6. DOMAIN s = {1}
  BY <1>2
<1> QED
  BY <1>2, <1>5, <1>6

LEMMA RangeIn ==
    ASSUME NEW S, NEW s \in Seq(S)
    PROVE  Range(s) \subseteq S
<1>1. \A i \in DOMAIN s : s[i] \in S
  BY LenProperties, ElementOfSeq
<1> QED
  BY <1>1 DEF Range

LEMMA RangeEmpty ==
    ASSUME NEW S, NEW s \in Seq(S), Range(s) = {}
    PROVE  s = <<>>
<1>1. DOMAIN s = 1..Len(s) /\ Len(s) \in Nat
  BY LenProperties
<1>2. ~ (1 \in DOMAIN s)
  BY DEF Range
<1>3. Len(s) = 0
  <2> DEFINE k == Len(s)
  <2>1. k \in Nat /\ ~(1 \in 1..k)
    BY <1>1, <1>2
  <2> HIDE DEF k
  <2>2. k = 0
    BY <2>1
  <2> QED BY <2>2 DEF k
<1> QED
  BY <1>3, EmptySeq

(* Named, so that the provers match it as one fact.                         *)
Associates(s, t, u) == (s \o t) \o u = s \o (t \o u)
LEMMA Associative == \A s, t, u \in Seq(Int) : Associates(s, t, u)
  BY DEF Associates

LEMMA TailOfCons ==
    ASSUME NEW S, NEW x \in S, NEW r \in Seq(S)
    PROVE  Tail(<<x>> \o r) = r /\ Head(<<x>> \o r) = x /\ <<x>> \o r # <<>>
<1> DEFINE s == <<x>> \o r
<1>1. <<x>> \in Seq(S) /\ Len(<<x>>) = 1 /\ <<x>>[1] = x /\ Len(r) \in Nat
  OBVIOUS
<1>2. /\ s \in Seq(S) /\ Len(s) = 1 + Len(r)
      /\ \A i \in 1..(1 + Len(r)) : s[i] = IF i <= 1 THEN <<x>>[i] ELSE r[i - 1]
  BY <1>1, ConcatProperties
<1> HIDE DEF s
<1>3. s # <<>> /\ s[1] = x
  <2>1. Len(s) # 0
    BY <1>1, <1>2
  <2>2. Len(<<>>) = 0
    OBVIOUS
  <2>3. s[1] = x
    BY <1>1, <1>2
  <2> QED BY <2>1, <2>2, <2>3
<1>4. /\ Tail(s) \in Seq(S) /\ Len(Tail(s)) = Len(s) - 1 /\ Head(s) = s[1]
      /\ \A i \in 1..Len(Tail(s)) : Tail(s)[i] = s[i + 1]
  BY <1>2, <1>3, HeadTailProperties
<1>5. Len(Tail(s)) = Len(r)
  BY <1>1, <1>2, <1>4
<1>6. \A i \in 1..Len(Tail(s)) : Tail(s)[i] = r[i]
  BY <1>1, <1>2, <1>4, <1>5
<1>7. Tail(s) = r
  BY <1>4, <1>5, <1>6, SeqEqual
<1> QED
  BY <1>3, <1>4, <1>7 DEF s

LEMMA FlattenRange ==
    ASSUME NEW S, NEW ss \in Seq(Seq(S))
    PROVE  /\ FlattenSeq(ss) \in Seq(S)
           /\ Range(FlattenSeq(ss)) = UNION {Range(ss[i]) : i \in DOMAIN ss}
<1>1. CASE Len(ss) = 0
  <2>1. ss = <<>> /\ FlattenSeq(ss) = <<>> /\ DOMAIN ss = {}
    BY <1>1 DEF FlattenSeq
  <2>2. FlattenSeq(ss) \in Seq(S) /\ Range(FlattenSeq(ss)) = {}
    <3>1. <<>> \in Seq(S) /\ DOMAIN <<>> = {}
      OBVIOUS
    <3>2. Range(<<>>) = {}
      BY <3>1 DEF Range
    <3> QED BY ONLY <2>1, <3>1, <3>2
  <2>3. UNION {Range(ss[i]) : i \in {}} = {}
    OBVIOUS
  <2> QED BY ONLY <2>1, <2>2, <2>3
<1>2. CASE Len(ss) # 0
  <2> DEFINE n == Len(ss)
             R(k) == UNION {Range(ss[i]) : i \in 1..k}
  <2>1. PICK g \in [1..n -> Seq(S)] : Parts(g, ss, n) /\ FlattenSeq(ss) = g[n]
    BY <1>2, FlattenParts
  <2>2. n \in Nat /\ n # 0 /\ n \in 1..n /\ DOMAIN ss = 1..n /\ \A i \in 1..n : ss[i] \in Seq(S)
    BY <1>2
  <2> DEFINE T == {k \in 1..n : Range(g[k]) # R(k)}
  <2> HIDE DEF n
  <2>3. T = {}
    <3> SUFFICES ASSUME T # {} PROVE FALSE
      OBVIOUS
    <3>1. PICK k \in T : \A m \in T : k <= m
      <4>1. T \in SUBSET Nat
        OBVIOUS
      <4> HIDE DEF T
      <4> QED BY <4>1, LeastOf
    <3>2. k \in 1..n /\ Range(g[k]) # R(k)
      OBVIOUS
    <3>3. CASE k = 1
      <4>1. g[k] = ss[k] /\ 1..k = {1}
        <5>1. g[k] = ss[k]
          BY <2>1, <3>2, <3>3 DEF Parts
        <5>2. 1..1 = {1}
          BY ONLY SMT
        <5> QED BY <3>3, <5>1, <5>2
      <4> QED BY <3>2, <3>3, <4>1
    <3>4. CASE k # 1
      <4>1. k - 1 \in 1..n /\ ~(k <= k - 1) /\ 1..k = (1..(k - 1)) \cup {k}
        BY <2>2, <3>2, <3>4
      <4>2. Range(g[k - 1]) = R(k - 1)
        BY <3>1, <4>1
      <4>3. g[k] = g[k - 1] \o ss[k]
        BY <2>1, <3>2, <3>4 DEF Parts
      <4>4. Range(g[k]) = Range(g[k - 1]) \cup Range(ss[k])
        <5>1. g[k - 1] \in Seq(S) /\ ss[k] \in Seq(S)
          BY <2>1, <2>2, <3>2, <4>1
        <5> QED BY <4>3, <5>1, ConcatRange
      <4>5. R(k) = R(k - 1) \cup Range(ss[k])
        BY <4>1
      <4> QED BY <3>2, <4>2, <4>4, <4>5
    <3> QED BY <3>3, <3>4
  <2>4. Range(g[n]) = R(n) /\ g[n] \in Seq(S)
    BY <2>1, <2>2, <2>3
  <2> QED BY <2>1, <2>2, <2>4
<1> QED
  BY <1>1, <1>2

(* A sequence that starts with another.                                    *)
StartsWith(s, head) == Len(head) <= Len(s) /\ \A j \in 1..Len(head) : s[j] = head[j]

LEMMA ConcatStarts ==
    ASSUME NEW S, NEW a \in Seq(S), NEW b \in Seq(S), NEW head \in Seq(S), StartsWith(a, head)
    PROVE  StartsWith(a \o b, head)
<1>1. Len(head) <= Len(a \o b) /\ \A j \in 1..Len(head) : j \in 1..Len(a) /\ (a \o b)[j] = a[j]
  BY DEF StartsWith
<1> QED
  BY <1>1 DEF StartsWith

LEMMA FlattenStarts ==
    ASSUME NEW S, NEW ss \in Seq(Seq(S)), NEW head \in Seq(S),
           \A i \in DOMAIN ss : ss[i] = <<>> \/ StartsWith(ss[i], head)
    PROVE  FlattenSeq(ss) = <<>> \/ StartsWith(FlattenSeq(ss), head)
<1>1. CASE Len(ss) = 0
  BY <1>1 DEF FlattenSeq
<1>2. CASE Len(ss) # 0
  <2> DEFINE n == Len(ss)
  <2>1. PICK g \in [1..n -> Seq(S)] : Parts(g, ss, n) /\ FlattenSeq(ss) = g[n]
    BY <1>2, FlattenParts
  <2>2. n \in Nat /\ n # 0 /\ n \in 1..n /\ DOMAIN ss = 1..n /\ \A i \in 1..n : ss[i] \in Seq(S)
    BY <1>2
  <2> DEFINE T == {k \in 1..n : ~(g[k] = <<>> \/ StartsWith(g[k], head))}
  <2> HIDE DEF n
  <2>3. T = {}
    <3> SUFFICES ASSUME T # {} PROVE FALSE
      OBVIOUS
    <3>1. PICK k \in T : \A m \in T : k <= m
      <4>1. T \in SUBSET Nat
        OBVIOUS
      <4> HIDE DEF T
      <4> QED BY <4>1, LeastOf
    <3>2. k \in 1..n /\ ~(g[k] = <<>> \/ StartsWith(g[k], head))
      OBVIOUS
    <3>3. CASE k = 1
      <4>1. g[k] = ss[k] /\ k \in DOMAIN ss
        BY <2>1, <2>2, <3>2, <3>3 DEF Parts
      <4> QED BY <3>2, <4>1
    <3>4. CASE k # 1
      <4>1. k - 1 \in 1..n /\ ~(k <= k - 1)
        BY <2>2, <3>2, <3>4
      <4>2. g[k - 1] = <<>> \/ StartsWith(g[k - 1], head)
        BY <3>1, <4>1
      <4>3. g[k] = g[k - 1] \o ss[k]
        BY <2>1, <3>2, <3>4 DEF Parts
      <4>4. g[k - 1] \in Seq(S) /\ ss[k] \in Seq(S)
        BY <2>1, <2>2, <3>2, <4>1
      <4>5. CASE g[k - 1] = <<>>
        <5>1. g[k] = ss[k] /\ k \in DOMAIN ss
          BY <2>2, <3>2, <4>3, <4>4, <4>5
        <5> QED BY <3>2, <5>1
      <4>6. CASE StartsWith(g[k - 1], head)
        <5>1. StartsWith(g[k - 1] \o ss[k], head)
          BY <4>4, <4>6, ConcatStarts
        <5> QED BY <3>2, <4>3, <5>1
      <4> QED BY <4>2, <4>5, <4>6
    <3> QED BY <3>3, <3>4
  <2> QED BY <2>1, <2>2, <2>3
<1> QED
  BY <1>1, <1>2

-----------------------------------------------------------------------------
(* The tables while the loops fill them.                                   *)

(* A sequence of whatever elements, and one more.                          *)
AnySeq(s) == \E S : s \in Seq(S)

LEMMA AppendIs ==
    ASSUME NEW s, NEW x, AnySeq(s)
    PROVE  /\ AnySeq(Append(s, x)) /\ Len(s) \in Nat /\ Len(Append(s, x)) = Len(s) + 1
           /\ \A i \in 1..Len(s) : Append(s, x)[i] = s[i]
           /\ Append(s, x)[Len(s) + 1] = x
<1>1. PICK S : s \in Seq(S)
  BY DEF AnySeq
<1>2. s \in Seq(S \cup {x}) /\ x \in S \cup {x}
  BY <1>1
<1>3. Append(s, x) \in Seq(S \cup {x})
  BY <1>2
<1> HIDE DEF AnySeq
<1>4. AnySeq(Append(s, x))
  BY <1>3 DEF AnySeq
<1> QED
  BY <1>1, <1>2, <1>4

LEMMA ExceptIs ==
    ASSUME NEW s, NEW x, AnySeq(s), NEW i \in 1..Len(s)
    PROVE  LET t == [s EXCEPT ![i] = x]
           IN  /\ AnySeq(t) /\ Len(t) = Len(s) /\ t[i] = x
               /\ \A j \in 1..Len(s) : j # i => t[j] = s[j]
<1>1. PICK S : s \in Seq(S)
  BY DEF AnySeq
<1>2. s \in Seq(S \cup {x}) /\ x \in S \cup {x}
  BY <1>1
<1> HIDE DEF AnySeq
<1>3. /\ [s EXCEPT ![i] = x] \in Seq(S \cup {x}) /\ Len([s EXCEPT ![i] = x]) = Len(s)
      /\ \A j \in 1..Len(s) : [s EXCEPT ![i] = x][j] = IF j = i THEN x ELSE s[j]
  BY <1>2, ExceptSeq
<1>4. AnySeq([s EXCEPT ![i] = x])
  BY <1>3 DEF AnySeq
<1> QED
  BY <1>3, <1>4

LEMMA SeqIsAny ==
    ASSUME NEW S, NEW s \in Seq(S)
    PROVE  AnySeq(s) /\ DOMAIN s = 1..Len(s) /\ Len(s) \in Nat /\ \A i \in DOMAIN s : s[i] \in S
<1>1. DOMAIN s = 1..Len(s) /\ Len(s) \in Nat
  BY LenProperties
<1>2. \A i \in DOMAIN s : s[i] \in S
  BY <1>1, ElementOfSeq
<1> QED
  BY <1>1, <1>2 DEF AnySeq

LEMMA SeqOver ==
    ASSUME NEW S, NEW T, NEW s \in Seq(S), \A i \in DOMAIN s : s[i] \in T
    PROVE  s \in Seq(T)
<1>1. Len(s) \in Nat /\ s \in [1..Len(s) -> S] /\ DOMAIN s = 1..Len(s)
  BY LenProperties
<1>2. s \in [1..Len(s) -> T]
  BY <1>1
<1> QED
  BY <1>1, <1>2, SeqDef

-----------------------------------------------------------------------------
(* What the definitions of a program give.                                 *)
LEMMA DefinitionsAre ==
    ASSUME program \in Programs
    PROVE  /\ cs \in Seq(Definitions(Len(cs))) /\ Len(cs) \in Nat /\ Classes = 1..Len(cs)
           /\ program.start \in Classes
           /\ \A c \in Classes : c \in Nat /\ cs[c] \in Definitions(Len(cs)) /\ IsDefinition(cs, c)
<1>1. /\ cs \in Seq(Definitions(Len(cs))) /\ program.start \in Classes
      /\ \A c \in Classes : IsDefinition(cs, c)
  BY ProgramsAssumption DEF cs, Classes
<1>2. Len(cs) \in Nat /\ Classes = 1..Len(cs)
  BY <1>1 DEF Classes
<1>3. \A c \in 1..Len(cs) : c \in Nat /\ cs[c] \in Definitions(Len(cs))
  BY <1>1
<1> QED
  BY <1>1, <1>2, <1>3

LEMMA ExtendsIs ==
    ASSUME program \in Programs, NEW c \in Classes
    PROVE  /\ c \in Nat /\ cs[c].extends \in Seq(1..(c - 1))
           /\ \A d \in 1..(c - 1) : d \in Classes /\ (cs[d].kind = "class" <=> ~IsInterface(d))
           /\ IsInterface(c) => cs[c].abstract
           /\ cs[c].kind \in {"class", "interface"}
           /\ cs[c].members \in Seq(Members(Len(cs)))
<1>1. /\ cs \in Seq(Definitions(Len(cs))) /\ Len(cs) \in Nat /\ Classes = 1..Len(cs)
      /\ \A d \in Classes : d \in Nat /\ cs[d] \in Definitions(Len(cs)) /\ IsDefinition(cs, d)
  BY DefinitionsAre
<1>2. /\ cs[c].extends \in Seq(1..Len(cs)) /\ cs[c].kind \in {"class", "interface"}
      /\ cs[c].members \in Seq(Members(Len(cs)))
  BY <1>1 DEF Definitions
<1>3. \A d \in Range(cs[c].extends) : d < c
  BY <1>1 DEF IsDefinition
<1>4. cs[c].extends \in Seq(1..(c - 1))
  <2>1. \A i \in DOMAIN cs[c].extends : cs[c].extends[i] \in 1..(c - 1)
    <3>1. \A i \in DOMAIN cs[c].extends : cs[c].extends[i] \in 1..Len(cs) /\ cs[c].extends[i] < c
      BY <1>2, <1>3 DEF Range
    <3> QED BY <1>1, <3>1
  <2> DEFINE e == cs[c].extends
  <2>2. e \in Seq(1..Len(cs)) /\ \A i \in DOMAIN e : e[i] \in 1..(c - 1)
    BY <1>2, <2>1
  <2> HIDE DEF e
  <2>3. e \in Seq(1..(c - 1))
    BY <2>2, SeqOver
  <2> QED BY <2>3 DEF e
<1>5. ASSUME NEW d \in 1..(c - 1) PROVE d \in Classes /\ (cs[d].kind = "class" <=> ~IsInterface(d))
  <2>1. d \in Classes
    BY <1>1
  <2>2. cs[d].kind \in {"class", "interface"}
    BY <1>1, <2>1 DEF Definitions
  <2> QED BY <2>1, <2>2 DEF IsInterface
<1> QED
  BY <1>1, <1>2, <1>4, <1>5 DEF IsDefinition, IsInterface

LEMMA ExtendedAre ==
    ASSUME program \in Programs, NEW c \in Classes, NEW kind
    PROVE  LET those == Selected(cs[c].extends, Extended(c, kind))
           IN  /\ those \in Seq(1..(c - 1))
               /\ Range(those) = {d \in Range(cs[c].extends) : cs[d].kind = kind}
<1> DEFINE e == cs[c].extends
           T == Extended(c, kind)
           those == Selected(e, T)
<1>1. e \in Seq(1..(c - 1))
  BY ExtendsIs
<1>2. T = {i \in DOMAIN e : cs[e[i]].kind = kind}
  BY DEF Extended
<1> HIDE DEF e, T
<1>3. T \in SUBSET (1..Len(e))
  BY <1>1, <1>2
<1>4. /\ those \in Seq(1..(c - 1)) /\ Len(those) = Cardinality(T) /\ Cardinality(T) \in Nat
      /\ \A p \in T : Rank(T, p) \in 1..Cardinality(T) /\ those[Rank(T, p)] = e[p]
      /\ \A i \in 1..Cardinality(T) : \E p \in T : Rank(T, p) = i /\ those[i] = e[p]
  BY <1>1, <1>3, SelectedIs
<1> HIDE DEF those
<1>5. DOMAIN those = 1..Cardinality(T)
  BY <1>4
<1>6. \A i \in DOMAIN those : those[i] \in Range(e) /\ cs[those[i]].kind = kind
  <2> SUFFICES ASSUME NEW i \in DOMAIN those PROVE those[i] \in Range(e) /\ cs[those[i]].kind = kind
    OBVIOUS
  <2>1. PICK p \in T : those[i] = e[p]
    BY <1>4, <1>5
  <2>2. p \in DOMAIN e /\ cs[e[p]].kind = kind
    BY <1>2
  <2> QED BY <2>1, <2>2 DEF Range
<1>7. ASSUME NEW d \in Range(e), cs[d].kind = kind PROVE d \in Range(those)
  <2>1. PICK p \in DOMAIN e : d = e[p]
    BY DEF Range
  <2>2. p \in T
    BY <1>2, <1>7, <2>1
  <2>3. Rank(T, p) \in DOMAIN those /\ those[Rank(T, p)] = d
    BY <1>4, <1>5, <2>1, <2>2
  <2> QED BY <2>3 DEF Range
<1>8. Range(those) = {d \in Range(e) : cs[d].kind = kind}
  <2>1. \A d \in Range(those) : d \in Range(e) /\ cs[d].kind = kind
    BY <1>6 DEF Range
  <2> QED BY <1>7, <2>1
<1> QED
  BY <1>4, <1>8 DEF those, e, T

LEMMA KindsExtended ==
    ASSUME program \in Programs, NEW c \in Classes
    PROVE  /\ ClassesIn(c) \in Seq(1..(c - 1)) /\ InterfacesIn(c) \in Seq(1..(c - 1))
           /\ \A d \in Range(ClassesIn(c)) : d \in 1..(c - 1) /\ ~IsInterface(d)
           /\ \A d \in Range(InterfacesIn(c)) : d \in 1..(c - 1) /\ IsInterface(d)
           /\ Range(cs[c].extends) = Range(ClassesIn(c)) \cup Range(InterfacesIn(c))
<1>1. /\ ClassesIn(c) \in Seq(1..(c - 1)) /\ InterfacesIn(c) \in Seq(1..(c - 1))
      /\ Range(ClassesIn(c)) = {d \in Range(cs[c].extends) : cs[d].kind = "class"}
      /\ Range(InterfacesIn(c)) = {d \in Range(cs[c].extends) : cs[d].kind = "interface"}
  BY ExtendedAre DEF ClassesIn, InterfacesIn
<1>2. \A d \in Range(cs[c].extends) : d \in 1..(c - 1)
  BY ExtendsIs DEF Range
<1>3. \A d \in 1..(c - 1) : cs[d].kind = "class" <=> ~IsInterface(d)
  BY ExtendsIs
<1>4. \A d \in Range(cs[c].extends) : cs[d].kind = "class" \/ cs[d].kind = "interface"
  BY <1>2, <1>3 DEF IsInterface
<1> QED
  BY <1>1, <1>2, <1>3, <1>4 DEF IsInterface

-----------------------------------------------------------------------------
(* What the loops keep: each entry of the tables is what its step made it. *)
ChainOf(c) ==
    /\ ~ExtendsError(c) /\ \A m \in Range(cs[c].members) : ~MemberError(c, m)
    /\ chain[c] = IF ClassesIn(c) = <<>> THEN <<>>
                  ELSE ClassesIn(c) \o chain[ClassesIn(c)[1]]

MembersOf(c) ==
    /\ interfaces[c] = InterfacesIn(c) \o AddedInterfaces(c)
    /\ members[c] = add_default_constructor(c)
    /\ order[c] = <<c>> \o (IF SuperClass(c) = NoClass THEN <<>> ELSE order[SuperClass(c)])
                       \o interfaces[c]

IndicesOf(c) ==
    /\ index[c] = [p \in DOMAIN members[c] |-> IndexOf(c, p)]
    /\ \A m \in Range(members[c]) : ~BodyError(c, m) /\ ~OverrideError(c, m)
    /\ ~cs[c].abstract => \A m \in Range(members[c]) : ~(m.kind = "method" /\ m.abstract)

Inherited(c) == IF SuperClass(c) = NoClass THEN <<>> ELSE class[SuperClass(c)]
LoadedAs(c) ==
    /\ layout[c] = FieldLayout(c)
    /\ class[c] = Replaced(c, Inherited(c)) \o Added(c, Inherited(c))
    /\ interface[c] = InterfaceTables(c)

(* The loops come one after the other.                                     *)
Sizes ==
    /\ program \in Programs
    /\ AnySeq(chain) /\ AnySeq(interfaces) /\ AnySeq(members) /\ AnySeq(order)
    /\ AnySeq(index) /\ AnySeq(layout) /\ AnySeq(class) /\ AnySeq(interface)
    /\ Len(interfaces) = Len(chain) /\ Len(order) = Len(members)
    /\ Len(layout) = Len(class) /\ Len(interface) = Len(class)
    /\ Len(chain) <= Len(cs) /\ Len(members) <= Len(cs)
    /\ Len(index) <= Len(cs) /\ Len(class) <= Len(cs)
    /\ Len(members) # 0 => Len(chain) = Len(cs)
    /\ Len(index) # 0 => Len(members) = Len(cs)
    /\ Len(class) # 0 => Len(index) = Len(cs)

Tables ==
    /\ Sizes
    /\ \A c \in 1..Len(chain) : ChainOf(c)
    /\ \A c \in 1..Len(chain) : c > Len(members) => interfaces[c] = InterfacesIn(c)
    /\ \A c \in 1..Len(members) : MembersOf(c)
    /\ \A c \in 1..Len(index) : IndicesOf(c)
    /\ \A c \in 1..Len(class) : LoadedAs(c)

LEMMA SameProgram ==
    ASSUME program' = program
    PROVE  /\ cs' = cs /\ Classes' = Classes
           /\ \A c : /\ ClassesIn(c)' = ClassesIn(c) /\ InterfacesIn(c)' = InterfacesIn(c)
                     /\ IsInterface(c)' = IsInterface(c)
                     /\ ExtendsError(c)' = ExtendsError(c)
                     /\ \A m : MemberError(c, m)' = MemberError(c, m) /\ Declared(c, m)' = Declared(c, m)
<1>1. cs' = cs /\ Classes' = Classes
  BY DEF cs, Classes
<1>2. ASSUME NEW c
      PROVE  ClassesIn(c)' = ClassesIn(c) /\ InterfacesIn(c)' = InterfacesIn(c)
  BY DEF ClassesIn, InterfacesIn, cs, Extended, Selected, InOrder, Rank
<1>3. ASSUME NEW c
      PROVE  IsInterface(c)' = IsInterface(c)
  BY <1>1 DEF IsInterface
<1>4. ASSUME NEW c
      PROVE  ExtendsError(c)' = ExtendsError(c)
  BY <1>1, <1>2, <1>3 DEF ExtendsError
<1>5. ASSUME NEW c, NEW m
      PROVE  Declared(c, m)' = Declared(c, m)
  BY <1>3 DEF Declared
<1>6. ASSUME NEW c, NEW m
      PROVE  MemberError(c, m)' = MemberError(c, m)
  BY <1>5 DEF MemberError
<1> QED
  BY <1>1, <1>2, <1>3, <1>4, <1>5, <1>6

-----------------------------------------------------------------------------
(* Chains.                                                                 *)
LEMMA ChainStep ==
    ASSUME Tables, NEW c \in 1..Len(chain)
    PROVE  /\ program \in Programs /\ Len(chain) \in Nat /\ c \in Nat /\ c \in Classes
           /\ \/ ClassesIn(c) = <<>> /\ chain[c] = <<>>
              \/ \E d \in 1..(c - 1) :
                    /\ ClassesIn(c) = <<d>> /\ chain[c] = <<d>> \o chain[d]
                    /\ d \in 1..Len(chain) /\ ~IsInterface(d) /\ cs[d].abstract
<1>1. program \in Programs /\ AnySeq(chain) /\ Len(chain) <= Len(cs) /\ ChainOf(c)
  BY DEF Tables, Sizes
<1>2. Len(cs) \in Nat /\ Classes = 1..Len(cs)
  BY <1>1, DefinitionsAre
<1>3. Len(chain) \in Nat
  BY <1>1 DEF AnySeq
<1>4. c \in Classes /\ c \in Nat
  BY <1>1, <1>2, <1>3
<1>5. /\ ClassesIn(c) \in Seq(1..(c - 1))
      /\ \A d \in Range(ClassesIn(c)) : d \in 1..(c - 1) /\ ~IsInterface(d)
  BY <1>1, <1>4, KindsExtended
<1>6. ASSUME ClassesIn(c) # <<>>
      PROVE  \E d \in 1..(c - 1) :
                    /\ ClassesIn(c) = <<d>> /\ chain[c] = <<d>> \o chain[d]
                    /\ d \in 1..Len(chain) /\ ~IsInterface(d) /\ cs[d].abstract
  <2> DEFINE e == ClassesIn(c)
             d == e[1]
  <2>1. /\ ~(Len(e) > 1) /\ \A x \in Range(e) : cs[x].abstract
        /\ chain[c] = e \o chain[d]
    BY <1>1, <1>6 DEF ChainOf, ExtendsError
  <2>2. e \in Seq(1..(c - 1)) /\ e # <<>>
    BY <1>5, <1>6
  <2> HIDE DEF e
  <2>3. Len(e) = 1 /\ e = <<e[1]>> /\ 1 \in DOMAIN e
    BY <2>1, <2>2, SeqOfOne
  <2>4. d \in Range(e)
    BY <2>3 DEF Range
  <2>5. d \in 1..(c - 1) /\ ~IsInterface(d) /\ cs[d].abstract
    BY <1>5, <2>1, <2>4 DEF e
  <2>6. d \in 1..Len(chain)
    BY <1>3, <1>4, <2>5
  <2> QED BY <2>1, <2>3, <2>5, <2>6 DEF e
<1>7. ClassesIn(c) = <<>> => chain[c] = <<>>
  BY <1>1 DEF ChainOf
<1> QED
  BY <1>1, <1>3, <1>4, <1>6, <1>7

LEMMA ChainTyped ==
    ASSUME Tables
    PROVE  \A c \in 1..Len(chain) : chain[c] \in Seq(1..(c - 1))
<1> DEFINE T == {c \in 1..Len(chain) : chain[c] \notin Seq(1..(c - 1))}
<1> SUFFICES ASSUME T # {} PROVE FALSE
  OBVIOUS
<1>1. PICK c \in T : \A m \in T : c <= m
  <2>1. T \in SUBSET Nat
    OBVIOUS
  <2> HIDE DEF T
  <2> QED BY <2>1, LeastOf
<1>2. c \in 1..Len(chain) /\ c \in Nat /\ chain[c] \notin Seq(1..(c - 1))
  OBVIOUS
<1>3. PICK d \in 1..(c - 1) : chain[c] = <<d>> \o chain[d] /\ d \in 1..Len(chain)
  <2>1. chain[c] # <<>>
    BY <1>2, EmptySeq
  <2> QED BY <1>2, <2>1, ChainStep
<1>4. d \notin T
  BY <1>1, <1>2, <1>3
<1>5. chain[d] \in Seq(1..(d - 1))
  BY <1>3, <1>4
<1>6. chain[d] \in Seq(1..(c - 1))
  <2>1. 1..(d - 1) \subseteq 1..(c - 1)
    BY <1>2, <1>3
  <2> QED BY <1>5, <2>1, SeqMonotonic
<1>7. chain[c] \in Seq(1..(c - 1))
  BY <1>3, <1>6
<1> QED
  BY <1>2, <1>7

LEMMA ChainIs ==
    ASSUME Tables, NEW c \in 1..Len(chain)
    PROVE  /\ program \in Programs /\ Len(chain) \in Nat /\ c \in Nat /\ c \in Classes
           /\ chain[c] \in Seq(1..(c - 1))
           /\ SuperClass(c) = NoClass => chain[c] = <<>> /\ ClassesIn(c) = <<>>
           /\ SuperClass(c) # NoClass =>
                 /\ SuperClass(c) \in 1..(c - 1) /\ SuperClass(c) \in 1..Len(chain)
                 /\ chain[c] = <<SuperClass(c)>> \o chain[SuperClass(c)]
                 /\ ClassesIn(c) = <<SuperClass(c)>>
                 /\ ~IsInterface(SuperClass(c)) /\ cs[SuperClass(c)].abstract
<1>1. /\ program \in Programs /\ Len(chain) \in Nat /\ c \in Nat /\ c \in Classes
      /\ chain[c] \in Seq(1..(c - 1))
  BY ChainStep, ChainTyped
<1>2. CASE ClassesIn(c) = <<>> /\ chain[c] = <<>>
  BY <1>1, <1>2 DEF SuperClass
<1>3. CASE \E d \in 1..(c - 1) :
                    /\ ClassesIn(c) = <<d>> /\ chain[c] = <<d>> \o chain[d]
                    /\ d \in 1..Len(chain) /\ ~IsInterface(d) /\ cs[d].abstract
  <2>1. PICK d \in 1..(c - 1) :
                    /\ ClassesIn(c) = <<d>> /\ chain[c] = <<d>> \o chain[d]
                    /\ d \in 1..Len(chain) /\ ~IsInterface(d) /\ cs[d].abstract
    BY <1>3
  <2>2. chain[d] \in Seq(1..(d - 1))
    BY <2>1, ChainTyped
  <2>3. chain[c] # <<>> /\ Head(chain[c]) = d /\ d # NoClass
    BY <2>1, <2>2 DEF NoClass
  <2>4. SuperClass(c) = d
    BY <2>3 DEF SuperClass
  <2> QED BY <1>1, <2>1, <2>3, <2>4
<1> QED
  BY <1>2, <1>3, ChainStep

(* What a class is below.                                                  *)
LEMMA ChainRange ==
    ASSUME Tables, NEW c \in 1..Len(chain)
    PROVE  /\ Range(chain[c]) = IF SuperClass(c) = NoClass THEN {} ELSE Range(Ancestry(SuperClass(c)))
           /\ Range(Ancestry(c)) = {c} \cup Range(chain[c])
           /\ Range(chain[c]) \subseteq 1..(c - 1)
           /\ Ancestry(c) \in Seq(1..c)
<1>1. c \in Nat /\ chain[c] \in Seq(1..(c - 1))
  BY ChainIs
<1>2. chain[c] \in Seq(1..c) /\ <<c>> \in Seq(1..c)
  <2>1. 1..(c - 1) \subseteq 1..c /\ c \in 1..c
    BY <1>1
  <2> QED BY <1>1, <2>1, SeqMonotonic
<1>3. Range(<<c>>) = {c}
  BY RangeOf
<1>4. Range(Ancestry(c)) = {c} \cup Range(chain[c]) /\ Ancestry(c) \in Seq(1..c)
  <2>1. <<c>> \o chain[c] \in Seq(1..c)
    BY <1>2, ConcatProperties
  <2>2. Range(<<c>> \o chain[c]) = Range(<<c>>) \cup Range(chain[c])
    BY <1>2, ConcatRange
  <2> QED BY <1>3, <2>1, <2>2 DEF Ancestry
<1>5. Range(chain[c]) \subseteq 1..(c - 1)
  BY <1>1 DEF Range
<1>6. SuperClass(c) = NoClass => Range(chain[c]) = {}
  BY ChainIs, RangeOf
<1>7. SuperClass(c) # NoClass => Range(chain[c]) = Range(Ancestry(SuperClass(c)))
  BY ChainIs DEF Ancestry
<1> QED
  BY <1>4, <1>5, <1>6, <1>7

LEMMA ChainTransitive ==
    ASSUME Tables
    PROVE  \A c \in 1..Len(chain) : \A s \in Range(Ancestry(c)) :
              /\ s \in 1..Len(chain)
              /\ Range(Ancestry(s)) \subseteq Range(Ancestry(c))
              /\ s \in Range(chain[c]) => /\ ~IsInterface(s) /\ cs[s].abstract
                                          /\ Range(Ancestry(s)) \subseteq Range(chain[c])
<1> DEFINE Good(c, s) ==
              /\ s \in 1..Len(chain)
              /\ Range(Ancestry(s)) \subseteq Range(Ancestry(c))
              /\ s \in Range(chain[c]) => /\ ~IsInterface(s) /\ cs[s].abstract
                                          /\ Range(Ancestry(s)) \subseteq Range(chain[c])
           T == {c \in 1..Len(chain) : \E s \in Range(Ancestry(c)) : ~Good(c, s)}
<1> SUFFICES ASSUME T # {} PROVE FALSE
  OBVIOUS
<1>1. PICK c \in T : \A m \in T : c <= m
  <2>1. T \in SUBSET Nat
    OBVIOUS
  <2> HIDE DEF T
  <2> QED BY <2>1, LeastOf
<1>2. c \in 1..Len(chain) /\ c \in Nat
  OBVIOUS
<1>3. PICK s \in Range(Ancestry(c)) : ~Good(c, s)
  OBVIOUS
<1>4. \A d \in 1..Len(chain) : d < c => \A e \in Range(Ancestry(d)) : Good(d, e)
  <2>1. \A d \in 1..Len(chain) : d < c => d \notin T
    BY <1>1, <1>2
  <2> QED BY <2>1
<1> HIDE DEF T
<1>5. Range(Ancestry(c)) = {c} \cup Range(chain[c]) /\ Range(chain[c]) \subseteq 1..(c - 1)
  BY <1>2, ChainRange
<1>6. CASE s = c
  BY <1>2, <1>3, <1>5, <1>6
<1>7. CASE s # c
  <2> DEFINE d == SuperClass(c)
  <2>1. s \in Range(chain[c])
    BY <1>5, <1>7
  <2>2. d # NoClass /\ Range(chain[c]) = Range(Ancestry(d))
    BY <1>2, <2>1, ChainRange
  <2>3. d \in 1..(c - 1) /\ d \in 1..Len(chain) /\ ~IsInterface(d) /\ cs[d].abstract
    BY <1>2, <2>2, ChainIs
  <2> HIDE DEF d
  <2>4. Good(d, s)
    BY <1>2, <1>4, <2>1, <2>2, <2>3
  <2>5. s # d => s \in Range(chain[d])
    BY <2>1, <2>2, <2>3, ChainRange
  <2>6. Good(c, s)
    BY <1>5, <2>2, <2>3, <2>4, <2>5
  <2> QED BY <1>3, <2>6
<1> QED
  BY <1>6, <1>7

-----------------------------------------------------------------------------
(* The first member of a name.                                             *)
LEMMA PositionIs ==
    ASSUME NEW c, NEW name, AnySeq(members[c])
    PROVE  /\ PositionIn(c, name) = 0 => \A p \in DOMAIN members[c] : members[c][p].name # name
           /\ PositionIn(c, name) # 0 => /\ PositionIn(c, name) \in DOMAIN members[c]
                                         /\ members[c][PositionIn(c, name)].name = name
<1> DEFINE I == {i \in 1..Len(members[c]) : members[c][i].name = name}
<1>1. DOMAIN members[c] = 1..Len(members[c])
  BY DEF AnySeq
<1>2. PositionIn(c, name) = IF I # {} THEN Min(I) ELSE 0
  BY DEF PositionIn, SelectInSeq
<1>3. I \in SUBSET Nat /\ 0 \notin I
  OBVIOUS
<1>4. I # {} => Min(I) \in I
  <2> HIDE DEF I
  <2> QED BY <1>3, MinIs
<1> QED
  BY <1>1, <1>2, <1>3, <1>4

LEMMA FirstIs ==
    ASSUME NEW list, NEW name, AnySeq(list)
    PROVE  \/ /\ FirstMember(list, name) = NotFound
              /\ \A d \in Range(list) : PositionIn(d, name) = 0
           \/ /\ FirstMember(list, name) # NotFound
              /\ \E i \in DOMAIN list :
                    /\ PositionIn(list[i], name) # 0
                    /\ \A j \in DOMAIN list : j < i => PositionIn(list[j], name) = 0
                    /\ FirstMember(list, name) =
                          [class |-> list[i], position |-> PositionIn(list[i], name)]
<1> DEFINE I == {i \in 1..Len(list) : PositionIn(list[i], name) # 0}
           at == IF I # {} THEN Min(I) ELSE 0
<1>1. DOMAIN list = 1..Len(list)
  BY DEF AnySeq
<1>2. FirstMember(list, name) =
        IF at = 0 THEN NotFound
        ELSE [class |-> list[at], position |-> PositionIn(list[at], name)]
  BY DEF FirstMember, SelectInSeq
<1>3. I \in SUBSET Nat /\ 0 \notin I
  OBVIOUS
<1>4. CASE I = {}
  BY <1>1, <1>2, <1>4 DEF Range
<1>5. CASE I # {}
  <2> DEFINE i == Min(I)
  <2>1. i \in I /\ \A m \in I : i <= m
    <3> HIDE DEF I
    <3> QED BY <1>3, <1>5, MinIs
  <2>2. at = i /\ i # 0
    BY <1>3, <1>5, <2>1
  <2> HIDE DEF at, i
  <2>3. i \in DOMAIN list /\ PositionIn(list[i], name) # 0
    BY <1>1, <2>1
  <2>4. FirstMember(list, name) = [class |-> list[i], position |-> PositionIn(list[i], name)]
    BY <1>2, <2>2
  <2>5. FirstMember(list, name) # NotFound
    BY <2>3, <2>4 DEF NotFound
  <2>6. \A j \in DOMAIN list : j < i => PositionIn(list[j], name) = 0
    BY <1>1, <2>1
  <2> QED BY <2>3, <2>4, <2>5, <2>6
<1> QED
  BY <1>4, <1>5

LEMMA FirstAt ==
    ASSUME NEW list, NEW name, AnySeq(list), NEW i \in DOMAIN list,
           PositionIn(list[i], name) # 0,
           \A j \in DOMAIN list : j < i => PositionIn(list[j], name) = 0
    PROVE  FirstMember(list, name) = [class |-> list[i], position |-> PositionIn(list[i], name)]
<1>1. list[i] \in Range(list)
  BY DEF Range
<1>2. PICK k \in DOMAIN list :
                    /\ PositionIn(list[k], name) # 0
                    /\ \A j \in DOMAIN list : j < k => PositionIn(list[j], name) = 0
                    /\ FirstMember(list, name) =
                          [class |-> list[k], position |-> PositionIn(list[k], name)]
  BY <1>1, FirstIs
<1>3. ~(k < i) /\ ~(i < k)
  BY <1>2
<1>4. i \in Int /\ k \in Int
  BY DEF AnySeq
<1>5. i = k
  BY <1>3, <1>4
<1> QED
  BY <1>2, <1>5

LEMMA FirstOfConcat ==
    ASSUME NEW S, NEW a \in Seq(S), NEW b \in Seq(S), NEW name
    PROVE  FirstMember(a \o b, name) =
              IF FirstMember(a, name) # NotFound THEN FirstMember(a, name) ELSE FirstMember(b, name)
<1> DEFINE ab == a \o b
<1>1. AnySeq(a) /\ AnySeq(b) /\ AnySeq(ab)
  BY DEF AnySeq
<1>2. /\ DOMAIN a = 1..Len(a) /\ DOMAIN b = 1..Len(b) /\ DOMAIN ab = 1..(Len(a) + Len(b))
      /\ Len(a) \in Nat /\ Len(b) \in Nat
      /\ \A i \in 1..Len(a) : ab[i] = a[i]
      /\ \A i \in 1..Len(b) : ab[Len(a) + i] = b[i]
      /\ \A i \in 1..(Len(a) + Len(b)) : i > Len(a) => ab[i] = b[i - Len(a)]
  OBVIOUS
<1> HIDE DEF ab
<1>3. CASE FirstMember(a, name) # NotFound
  <2>1. PICK i \in DOMAIN a :
                    /\ PositionIn(a[i], name) # 0
                    /\ \A j \in DOMAIN a : j < i => PositionIn(a[j], name) = 0
                    /\ FirstMember(a, name) =
                          [class |-> a[i], position |-> PositionIn(a[i], name)]
    BY <1>1, <1>3, FirstIs
  <2>2. i \in DOMAIN ab /\ ab[i] = a[i] /\ \A j \in DOMAIN ab : j < i => j \in DOMAIN a /\ ab[j] = a[j]
    BY <1>2
  <2>3. FirstMember(ab, name) = [class |-> ab[i], position |-> PositionIn(ab[i], name)]
    BY <1>1, <2>1, <2>2, FirstAt
  <2> QED BY <1>3, <2>1, <2>2, <2>3 DEF ab
<1>4. CASE FirstMember(a, name) = NotFound
  <2>1. \A d \in Range(a) : PositionIn(d, name) = 0
    BY <1>1, <1>4, FirstIs
  <2>2. \A j \in DOMAIN a : PositionIn(a[j], name) = 0
    BY <2>1 DEF Range
  <2>3. CASE FirstMember(b, name) # NotFound
    <3>1. PICK i \in DOMAIN b :
                    /\ PositionIn(b[i], name) # 0
                    /\ \A j \in DOMAIN b : j < i => PositionIn(b[j], name) = 0
                    /\ FirstMember(b, name) =
                          [class |-> b[i], position |-> PositionIn(b[i], name)]
      BY <1>1, <2>3, FirstIs
    <3> DEFINE k == Len(a) + i
    <3>2. k \in DOMAIN ab /\ ab[k] = b[i]
      BY <1>2
    <3>3. \A j \in DOMAIN ab : j < k => PositionIn(ab[j], name) = 0
      <4> SUFFICES ASSUME NEW j \in DOMAIN ab, j < k PROVE PositionIn(ab[j], name) = 0
        OBVIOUS
      <4>1. CASE j \in DOMAIN a
        BY <1>2, <2>2, <4>1
      <4>2. CASE j \notin DOMAIN a
        <5>1. j - Len(a) \in DOMAIN b /\ j - Len(a) < i /\ ab[j] = b[j - Len(a)]
          BY <1>2, <4>2
        <5> QED BY <3>1, <5>1
      <4> QED BY <4>1, <4>2
    <3>4. FirstMember(ab, name) = [class |-> ab[k], position |-> PositionIn(ab[k], name)]
      <4> HIDE DEF k
      <4> QED BY <1>1, <3>1, <3>2, <3>3, FirstAt
    <3> QED BY <1>4, <3>1, <3>2, <3>4 DEF ab
  <2>4. CASE FirstMember(b, name) = NotFound
    <3>1. \A d \in Range(b) : PositionIn(d, name) = 0
      BY <1>1, <2>4, FirstIs
    <3>2. Range(ab) = Range(a) \cup Range(b)
      BY ConcatRange DEF ab
    <3>3. FirstMember(ab, name) = NotFound
      <4>1. \A i \in DOMAIN ab : ab[i] \in Range(ab)
        BY DEF Range
      <4> QED BY <1>1, <2>1, <3>1, <3>2, <4>1, FirstIs
    <3> QED BY <1>4, <2>4, <3>3 DEF ab
  <2> QED BY <2>3, <2>4
<1> QED
  BY <1>3, <1>4

-----------------------------------------------------------------------------
(* Interfaces and the order of the search.                                 *)
LEMMA MembersStep ==
    ASSUME Tables, NEW c \in 1..Len(members)
    PROVE  /\ Len(members) \in Nat /\ Len(chain) = Len(cs) /\ 1..Len(members) \subseteq 1..Len(chain)
           /\ c \in 1..Len(chain) /\ c \in Nat /\ MembersOf(c)
<1>1. /\ Len(members) # 0 => Len(chain) = Len(cs)
      /\ Len(members) <= Len(cs) /\ program \in Programs /\ AnySeq(members) /\ MembersOf(c)
  BY DEF Tables, Sizes
<1>2. Len(members) \in Nat
  BY <1>1 DEF AnySeq
<1>3. Len(cs) \in Nat
  BY <1>1, DefinitionsAre
<1> QED
  BY <1>1, <1>2, <1>3

LEMMA PartsOfInterfaces ==
    ASSUME Tables, NEW c \in 1..Len(chain),
           \A s \in Range(chain[c]) : interfaces[s] \in Seq(1..(c - 1))
    PROVE  /\ [i \in DOMAIN chain[c] |-> interfaces[chain[c][i]]] \in Seq(Seq(1..(c - 1)))
           /\ AddedInterfaces(c) \in Seq(1..(c - 1))
           /\ Range(AddedInterfaces(c)) = UNION {Range(interfaces[s]) : s \in Range(chain[c])}
<1> DEFINE e == chain[c]
           ss == [i \in DOMAIN e |-> interfaces[e[i]]]
<1>1. e \in Seq(1..(c - 1))
  BY ChainIs
<1>2. \A i \in DOMAIN e : interfaces[e[i]] \in Seq(1..(c - 1))
  BY DEF Range
<1>3. AddedInterfaces(c) = FlattenSeq(ss)
  BY DEF AddedInterfaces
<1> HIDE DEF e
<1>4. ss \in Seq(Seq(1..(c - 1)))
  <2>1. DOMAIN e = 1..Len(e) /\ Len(e) \in Nat
    BY <1>1
  <2>2. ss \in [1..Len(e) -> Seq(1..(c - 1))]
    BY <1>2, <2>1
  <2> QED BY <2>1, <2>2, SeqDef
<1>5. DOMAIN ss = DOMAIN e /\ \A i \in DOMAIN e : ss[i] = interfaces[e[i]]
  OBVIOUS
<1>6. FlattenSeq(ss) \in Seq(1..(c - 1)) /\ Range(FlattenSeq(ss)) = UNION {Range(ss[i]) : i \in DOMAIN ss}
  BY <1>4, FlattenRange
<1> HIDE DEF ss
<1>7. UNION {Range(ss[i]) : i \in DOMAIN ss} = UNION {Range(interfaces[s]) : s \in Range(e)}
  BY <1>5 DEF Range
<1> QED
  BY <1>3, <1>4, <1>6, <1>7 DEF e, ss

LEMMA InterfacesAre ==
    ASSUME Tables
    PROVE  \A c \in 1..Len(chain) :
              /\ interfaces[c] \in Seq(1..(c - 1))
              /\ \A d \in Range(interfaces[c]) : d \in 1..(c - 1) /\ IsInterface(d)
<1> DEFINE Good(c) == /\ interfaces[c] \in Seq(1..(c - 1))
                      /\ \A d \in Range(interfaces[c]) : d \in 1..(c - 1) /\ IsInterface(d)
           T == {c \in 1..Len(chain) : ~Good(c)}
<1> SUFFICES ASSUME T # {} PROVE FALSE
  OBVIOUS
<1>1. PICK c \in T : \A m \in T : c <= m
  <2>1. T \in SUBSET Nat
    OBVIOUS
  <2> HIDE DEF T
  <2> QED BY <2>1, LeastOf
<1>2. c \in 1..Len(chain) /\ c \in Nat /\ ~Good(c)
  OBVIOUS
<1>3. \A d \in 1..Len(chain) : d < c => Good(d)
  <2>1. \A d \in 1..Len(chain) : d < c => d \notin T
    BY <1>1, <1>2
  <2> QED BY <2>1
<1> HIDE DEF T
<1>4. /\ InterfacesIn(c) \in Seq(1..(c - 1))
      /\ \A d \in Range(InterfacesIn(c)) : d \in 1..(c - 1) /\ IsInterface(d)
  BY <1>2, ChainIs, KindsExtended
<1>5. CASE c > Len(members)
  <2>1. interfaces[c] = InterfacesIn(c)
    BY <1>2, <1>5 DEF Tables
  <2> QED BY <1>2, <1>4, <2>1
<1>6. CASE ~(c > Len(members))
  <2>1. MembersOf(c)
    <3>1. c \in 1..Len(members)
      <4>1. Len(members) \in Nat
        BY DEF Tables, Sizes, AnySeq
      <4> QED BY <1>2, <1>6, <4>1
    <3> QED BY <3>1 DEF Tables
  <2>2. \A s \in Range(chain[c]) : s \in 1..(c - 1) /\ s < c /\ s \in 1..Len(chain)
    <3>1. Len(chain) \in Nat
      BY <1>2, ChainIs
    <3>2. Range(chain[c]) \subseteq 1..(c - 1)
      BY <1>2, ChainRange
    <3> QED BY <1>2, <3>1, <3>2
  <2>3. \A s \in Range(chain[c]) : interfaces[s] \in Seq(1..(c - 1))
    <3> SUFFICES ASSUME NEW s \in Range(chain[c]) PROVE interfaces[s] \in Seq(1..(c - 1))
      OBVIOUS
    <3>1. interfaces[s] \in Seq(1..(s - 1))
      BY <1>3, <2>2
    <3>2. 1..(s - 1) \subseteq 1..(c - 1)
      BY <1>2, <2>2
    <3> QED BY <3>1, <3>2, SeqMonotonic
  <2>4. /\ AddedInterfaces(c) \in Seq(1..(c - 1))
        /\ Range(AddedInterfaces(c)) = UNION {Range(interfaces[s]) : s \in Range(chain[c])}
    BY <1>2, <2>3, PartsOfInterfaces
  <2>5. interfaces[c] = InterfacesIn(c) \o AddedInterfaces(c)
    BY <2>1 DEF MembersOf
  <2>6. interfaces[c] \in Seq(1..(c - 1))
    BY <1>4, <2>4, <2>5, ConcatProperties
  <2>7. Range(interfaces[c]) = Range(InterfacesIn(c)) \cup Range(AddedInterfaces(c))
    BY <1>4, <2>4, <2>5, ConcatRange
  <2>8. \A s \in Range(chain[c]) : \A d \in Range(interfaces[s]) : IsInterface(d)
    BY <1>3, <2>2
  <2>9. \A d \in Range(interfaces[c]) : d \in 1..(c - 1)
    BY <2>6, RangeIn
  <2> QED BY <1>2, <1>4, <2>4, <2>6, <2>7, <2>8, <2>9
<1> QED
  BY <1>5, <1>6

(* A class has the interfaces of its supers and those it names.            *)
LEMMA InterfacesOf ==
    ASSUME Tables, NEW c \in 1..Len(members)
    PROVE  /\ interfaces[c] \in Seq(1..(c - 1))
           /\ Range(interfaces[c]) =
                 Range(InterfacesIn(c)) \cup UNION {Range(interfaces[s]) : s \in Range(chain[c])}
           /\ [i \in DOMAIN chain[c] |-> interfaces[chain[c][i]]] \in Seq(Seq(1..(c - 1)))
           /\ AddedInterfaces(c) \in Seq(1..(c - 1))
<1>1. c \in 1..Len(chain) /\ c \in Nat /\ Len(chain) \in Nat
  BY MembersStep, ChainIs
<1>2. \A s \in Range(chain[c]) : interfaces[s] \in Seq(1..(c - 1))
  <2> SUFFICES ASSUME NEW s \in Range(chain[c]) PROVE interfaces[s] \in Seq(1..(c - 1))
    OBVIOUS
  <2>1. s \in 1..(c - 1) /\ s \in 1..Len(chain)
    <3>1. Range(chain[c]) \subseteq 1..(c - 1)
      BY <1>1, ChainRange
    <3> QED BY <1>1, <3>1
  <2>2. interfaces[s] \in Seq(1..(s - 1))
    BY <2>1, InterfacesAre
  <2>3. 1..(s - 1) \subseteq 1..(c - 1)
    BY <1>1, <2>1
  <2> QED BY <2>2, <2>3, SeqMonotonic
<1>3. /\ AddedInterfaces(c) \in Seq(1..(c - 1))
      /\ Range(AddedInterfaces(c)) = UNION {Range(interfaces[s]) : s \in Range(chain[c])}
      /\ [i \in DOMAIN chain[c] |-> interfaces[chain[c][i]]] \in Seq(Seq(1..(c - 1)))
  BY <1>1, <1>2, PartsOfInterfaces
<1>4. InterfacesIn(c) \in Seq(1..(c - 1))
  BY <1>1, ChainIs, KindsExtended
<1>5. interfaces[c] = InterfacesIn(c) \o AddedInterfaces(c)
  BY MembersStep DEF MembersOf
<1> QED
  BY <1>1, <1>3, <1>4, <1>5, ConcatRange, InterfacesAre

LEMMA OrderTyped ==
    ASSUME Tables
    PROVE  \A c \in 1..Len(members) : order[c] \in Seq(1..c)
<1> DEFINE T == {c \in 1..Len(members) : order[c] \notin Seq(1..c)}
<1> SUFFICES ASSUME T # {} PROVE FALSE
  OBVIOUS
<1>1. PICK c \in T : \A m \in T : c <= m
  <2>1. T \in SUBSET Nat
    OBVIOUS
  <2> HIDE DEF T
  <2> QED BY <2>1, LeastOf
<1>2. c \in 1..Len(members) /\ c \in Nat /\ order[c] \notin Seq(1..c)
  OBVIOUS
<1>3. \A d \in 1..Len(members) : d < c => d \notin T
  BY <1>1, <1>2
<1>4. \A d \in 1..Len(members) : d < c => order[d] \in Seq(1..d)
  BY <1>3
<1> HIDE DEF T
<1> DEFINE d == SuperClass(c)
           o == IF d = NoClass THEN <<>> ELSE order[d]
<1>5. c \in 1..Len(chain) /\ Len(members) \in Nat
  BY <1>2, MembersStep
<1>6. o \in Seq(1..c)
  <2>1. CASE d = NoClass
    BY <2>1, EmptySeq
  <2>2. CASE d # NoClass
    <3>1. d \in 1..(c - 1) /\ d \in 1..Len(members) /\ d < c
      <4>1. d \in 1..(c - 1)
        BY <1>5, <2>2, ChainIs
      <4> QED BY <1>2, <1>5, <4>1
    <3>2. order[d] \in Seq(1..d) /\ 1..d \subseteq 1..c
      <4> HIDE DEF d
      <4> QED BY <1>2, <1>4, <3>1
    <3>3. order[d] \in Seq(1..c)
      BY <3>2, SeqMonotonic
    <3> QED BY <2>2, <3>3
  <2> QED BY <2>1, <2>2
<1>7. interfaces[c] \in Seq(1..c)
  <2>1. interfaces[c] \in Seq(1..(c - 1))
    BY <1>2, InterfacesOf
  <2>2. 1..(c - 1) \subseteq 1..c
    BY <1>2
  <2> QED BY <2>1, <2>2, SeqMonotonic
<1>8. order[c] = <<c>> \o o \o interfaces[c]
  BY <1>2, MembersStep DEF MembersOf
<1>9. <<c>> \in Seq(1..c)
  BY <1>2
<1> HIDE DEF o
<1>10. order[c] \in Seq(1..c)
  BY <1>6, <1>7, <1>8, <1>9, ConcatProperties
<1> QED
  BY <1>2, <1>10

LEMMA OrderIs ==
    ASSUME Tables, NEW c \in 1..Len(members)
    PROVE  LET above == IF SuperClass(c) = NoClass THEN <<>> ELSE order[SuperClass(c)]
           IN  /\ above \in Seq(1..(c - 1)) /\ interfaces[c] \in Seq(1..(c - 1))
               /\ Tail(order[c]) = above \o interfaces[c]
               /\ order[c] = <<c>> \o Tail(order[c])
               /\ Tail(order[c]) \in Seq(1..(c - 1))
               /\ SuperClass(c) # NoClass => SuperClass(c) \in 1..Len(members)
<1> DEFINE d == SuperClass(c)
           o == IF d = NoClass THEN <<>> ELSE order[d]
<1>1. c \in 1..Len(chain) /\ c \in Nat /\ Len(members) \in Nat
  BY MembersStep
<1>2. d # NoClass => d \in 1..(c - 1) /\ d \in 1..Len(members)
  <2>1. d # NoClass => d \in 1..(c - 1)
    BY <1>1, ChainIs
  <2> HIDE DEF d
  <2> QED BY <1>1, <2>1
<1>3. o \in Seq(1..(c - 1))
  <2>1. CASE d = NoClass
    BY <2>1, EmptySeq
  <2>2. CASE d # NoClass
    <3>1. order[d] \in Seq(1..d)
      BY <1>2, <2>2, OrderTyped
    <3>2. 1..d \subseteq 1..(c - 1)
      <4> HIDE DEF d
      <4> QED BY <1>1, <1>2, <2>2
    <3>3. order[d] \in Seq(1..(c - 1))
      BY <3>1, <3>2, SeqMonotonic
    <3> QED BY <2>2, <3>3
  <2> QED BY <2>1, <2>2
<1>4. interfaces[c] \in Seq(1..(c - 1))
  BY InterfacesOf
<1>5. order[c] = <<c>> \o o \o interfaces[c]
  BY MembersStep DEF MembersOf
<1> DEFINE r == o \o interfaces[c]
<1>6. r \in Seq(1..(c - 1))
  BY <1>3, <1>4, ConcatProperties
<1>7. order[c] = <<c>> \o r
  <2>1. o \in Seq(Int) /\ interfaces[c] \in Seq(Int) /\ <<c>> \in Seq(Int)
    <3>1. 1..(c - 1) \subseteq Int
      OBVIOUS
    <3> QED BY <1>1, <1>3, <1>4, <3>1, SeqMonotonic
  <2> DEFINE a == <<c>>
             b == interfaces[c]
  <2>2. a \in Seq(Int) /\ o \in Seq(Int) /\ b \in Seq(Int)
    BY <2>1
  <2> HIDE DEF o, a, b
  <2>3. (a \o o) \o b = a \o (o \o b)
    <3>1. Associates(a, o, b)
      BY ONLY <2>2, Associative
    <3> QED
      BY ONLY <3>1 DEF Associates
  <2> QED BY <1>5, <2>3 DEF a, b
<1>8. Tail(order[c]) = r
  <2> HIDE DEF r
  <2>1. r \in Seq(Int) /\ c \in Int
    <3>1. 1..(c - 1) \subseteq Int
      OBVIOUS
    <3> QED BY <1>1, <1>6, <3>1, SeqMonotonic
  <2> QED BY <1>7, <2>1, TailOfCons
<1> QED
  BY <1>2, <1>3, <1>4, <1>6, <1>7, <1>8

-----------------------------------------------------------------------------
(* Each loop keeps the entries that it and the loops before it have made.  *)
LEMMA SameChain ==
    ASSUME program' = program, chain' = chain
    PROVE  \A c : /\ SuperClass(c)' = SuperClass(c)
                  /\ add_default_constructor(c)' = add_default_constructor(c)
<1> SUFFICES ASSUME NEW c
             PROVE  /\ SuperClass(c)' = SuperClass(c)
                    /\ add_default_constructor(c)' = add_default_constructor(c)
  OBVIOUS
<1>1. SuperClass(c)' = SuperClass(c)
  BY DEF SuperClass
<1>2. ConstructorOf(c)' = ConstructorOf(c)
  BY <1>1 DEF ConstructorOf
<1>3. IsInterface(c)' = IsInterface(c) /\ cs' = cs /\ \A m : Declared(c, m)' = Declared(c, m)
  BY SameProgram
<1>4. add_default_constructor(c)' = add_default_constructor(c)
  BY <1>2, <1>3 DEF add_default_constructor
<1> QED
  BY <1>1, <1>4

LEMMA SameMembers ==
    ASSUME program' = program, chain' = chain, interfaces' = interfaces,
           members' = members, order' = order
    PROVE  /\ \A c, name : PositionIn(c, name)' = PositionIn(c, name)
           /\ \A c, name : search_member_in_super(c, name)' = search_member_in_super(c, name)
           /\ \A c, name : dkc_search_member(c, name)' = dkc_search_member(c, name)
           /\ \A found : Member(found)' = Member(found)
           /\ \A c, kind : OfKind(c, kind)' = OfKind(c, kind)
           /\ \A c, m : OverrideError(c, m)' = OverrideError(c, m)
           /\ \A c, m : BodyError(c, m)' = BodyError(c, m)
           /\ \A c, p : NewBefore(c, p)' = NewBefore(c, p)
<1>1. \A c, name : PositionIn(c, name)' = PositionIn(c, name)
  BY DEF PositionIn, SelectInSeq
<1>2. \A list, name : FirstMember(list, name)' = FirstMember(list, name)
  <2> SUFFICES ASSUME NEW list, NEW name
               PROVE  FirstMember(list, name)' = FirstMember(list, name)
    OBVIOUS
  <2> QED BY <1>1 DEF FirstMember, SelectInSeq, NotFound
<1>3. \A c, name : /\ search_member_in_super(c, name)' = search_member_in_super(c, name)
                   /\ dkc_search_member(c, name)' = dkc_search_member(c, name)
  BY <1>2 DEF search_member_in_super, dkc_search_member
<1>4. \A found : Member(found)' = Member(found)
  BY DEF Member
<1>5. \A c, kind : OfKind(c, kind)' = OfKind(c, kind)
  BY DEF OfKind
<1>6. \A child, parent : is_super_class(child, parent)' = is_super_class(child, parent)
  BY DEF is_super_class
<1>7. ASSUME NEW c, NEW m
      PROVE  OverrideError(c, m)' = OverrideError(c, m)
  <2>1. \A a, b : check_type_compatibility(a, b)' = check_type_compatibility(a, b)
    BY <1>6 DEF check_type_compatibility
  <2> QED BY <1>3, <1>4, <2>1 DEF OverrideError
<1>8. ASSUME NEW c, NEW m
      PROVE  BodyError(c, m)' = BodyError(c, m)
  <2>1. \A a, b : AssignError(a, b)' = AssignError(a, b)
    BY <1>6 DEF AssignError
  <2>2. \A a, b, name : Callable(a, b, name)' = Callable(a, b, name)
    BY <1>3, <1>4 DEF Callable, Accessible
  <2>3. SuperClass(c)' = SuperClass(c) /\ Classes' = Classes
    BY SameChain, SameProgram
  <2> QED BY <2>1, <2>2, <2>3 DEF BodyError
<1>9. ASSUME NEW c, NEW p
      PROVE  NewBefore(c, p)' = NewBefore(c, p)
  BY <1>3, <1>5 DEF NewBefore
<1> QED
  BY <1>1, <1>3, <1>4, <1>5, <1>7, <1>8, <1>9

LEMMA ChainKept ==
    ASSUME Tables, program' = program, NEW c \in 1..Len(chain),
           \A d \in 1..Len(chain) : chain'[d] = chain[d]
    PROVE  ChainOf(c)'
<1>1. ~ExtendsError(c) /\ \A m \in Range(cs[c].members) : ~MemberError(c, m)
  BY DEF Tables, ChainOf
<1>2. /\ cs' = cs /\ ClassesIn(c)' = ClassesIn(c) /\ ExtendsError(c)' = ExtendsError(c)
      /\ \A m : MemberError(c, m)' = MemberError(c, m)
  BY SameProgram
<1>3. chain'[c] = IF ClassesIn(c) = <<>> THEN <<>> ELSE ClassesIn(c) \o chain'[ClassesIn(c)[1]]
  <2>1. CASE ClassesIn(c) = <<>> /\ chain[c] = <<>>
    BY <2>1
  <2>2. CASE \E d \in 1..(c - 1) : /\ ClassesIn(c) = <<d>> /\ chain[c] = <<d>> \o chain[d]
                                   /\ d \in 1..Len(chain)
    BY <2>2
  <2> QED BY <2>1, <2>2, ChainStep
<1>4. \A m \in Range(cs'[c].members) : ~MemberError(c, m)'
  BY <1>1, <1>2
<1> QED
  BY <1>1, <1>2, <1>3, <1>4 DEF ChainOf

LEMMA MembersKept ==
    ASSUME Tables, program' = program, chain' = chain, NEW c \in 1..Len(members),
           \A d \in 1..Len(members) : /\ interfaces'[d] = interfaces[d]
                                      /\ members'[d] = members[d] /\ order'[d] = order[d]
    PROVE  MembersOf(c)'
<1>1. MembersOf(c) /\ c \in 1..Len(chain) /\ c \in Nat /\ Len(members) \in Nat
  BY MembersStep
<1>2. InterfacesIn(c)' = InterfacesIn(c)
  BY SameProgram
<1>3. /\ SuperClass(c)' = SuperClass(c)
      /\ add_default_constructor(c)' = add_default_constructor(c)
  BY SameChain
<1>4. AddedInterfaces(c)' = AddedInterfaces(c)
  <2>1. \A i \in DOMAIN chain[c] : chain[c][i] \in 1..Len(members)
    <3>1. \A i \in DOMAIN chain[c] : chain[c][i] \in 1..(c - 1)
      <4>1. Range(chain[c]) \subseteq 1..(c - 1)
        BY <1>1, ChainRange
      <4> QED BY <4>1 DEF Range
    <3> QED BY <1>1, <3>1
  <2>2. [i \in DOMAIN chain'[c] |-> interfaces'[chain'[c][i]]]
          = [i \in DOMAIN chain[c] |-> interfaces[chain[c][i]]]
    BY <2>1
  <2> QED BY <2>2 DEF AddedInterfaces
<1>5. SuperClass(c) # NoClass => SuperClass(c) \in 1..Len(members)
  BY OrderIs
<1> QED
  BY <1>1, <1>2, <1>3, <1>4, <1>5 DEF MembersOf, NoClass

(* What a member of the supers is found to be, is of an earlier class.     *)
LEMMA FoundAbove ==
    ASSUME Tables, NEW c \in 1..Len(members), NEW name,
           search_member_in_super(c, name) # NotFound
    PROVE  LET found == search_member_in_super(c, name)
           IN  /\ found.class \in 1..(c - 1) /\ found.class \in 1..Len(members)
               /\ found.class \in Range(Tail(order[c]))
               /\ found.position = PositionIn(found.class, name) /\ found.position # 0
               /\ found = [class |-> found.class, position |-> found.position]
<1>1. c \in Nat /\ Len(members) \in Nat
  BY MembersStep
<1>2. Tail(order[c]) \in Seq(1..(c - 1))
  BY OrderIs
<1> DEFINE list == Tail(order[c])
<1>3. AnySeq(list) /\ \A i \in DOMAIN list : list[i] \in 1..(c - 1)
  BY <1>2, SeqIsAny
<1>4. FirstMember(list, name) # NotFound
  BY DEF search_member_in_super
<1> HIDE DEF list
<1>5. PICK i \in DOMAIN list :
                    /\ PositionIn(list[i], name) # 0
                    /\ FirstMember(list, name) =
                          [class |-> list[i], position |-> PositionIn(list[i], name)]
  BY <1>3, <1>4, FirstIs
<1>6. list[i] \in 1..(c - 1) /\ list[i] \in 1..Len(members) /\ list[i] \in Range(list)
  BY <1>1, <1>3 DEF Range
<1> QED
  BY <1>5, <1>6 DEF search_member_in_super, list

LEMMA IndicesStep ==
    ASSUME Tables, NEW c \in 1..Len(index)
    PROVE  /\ Len(index) \in Nat /\ Len(members) = Len(cs) /\ 1..Len(index) \subseteq 1..Len(members)
           /\ c \in 1..Len(members) /\ c \in Nat /\ IndicesOf(c)
<1>1. /\ Len(index) # 0 => Len(members) = Len(cs)
      /\ Len(index) <= Len(cs) /\ program \in Programs /\ AnySeq(index) /\ IndicesOf(c)
  BY DEF Tables, Sizes
<1>2. Len(index) \in Nat
  BY <1>1 DEF AnySeq
<1>3. Len(cs) \in Nat
  BY <1>1, DefinitionsAre
<1> QED
  BY <1>1, <1>2, <1>3

LEMMA SameIndex ==
    ASSUME Tables, program' = program, chain' = chain, interfaces' = interfaces,
           members' = members, order' = order, NEW c \in 1..Len(members),
           \A d \in 1..(c - 1) : index'[d] = index[d]
    PROVE  \A p : IndexOf(c, p)' = IndexOf(c, p)
<1> SUFFICES ASSUME NEW p PROVE IndexOf(c, p)' = IndexOf(c, p)
  OBVIOUS
<1>1. \A kind : Used(c, kind)' = Used(c, kind)
  <2> SUFFICES ASSUME NEW kind PROVE Used(c, kind)' = Used(c, kind)
    OBVIOUS
  <2>1. \A s \in Range(chain[c]) : s \in 1..(c - 1)
    BY MembersStep, ChainRange
  <2>2. \A s : OfKind(s, kind)' = OfKind(s, kind)
    BY SameMembers
  <2> DEFINE V(s) == {index'[s][q] : q \in OfKind(s, kind)'}
             W(s) == {index[s][q] : q \in OfKind(s, kind)}
  <2>3. \A s \in Range(chain[c]) : V(s) = W(s)
    BY <2>1, <2>2
  <2>4. Used(c, kind)' = UNION {V(s) : s \in Range(chain[c])}
    BY DEF Used
  <2>5. Used(c, kind) = UNION {W(s) : s \in Range(chain[c])}
    BY DEF Used
  <2> HIDE DEF V, W
  <2>6. UNION {V(s) : s \in Range(chain[c])} = UNION {W(s) : s \in Range(chain[c])}
    <3> DEFINE R == Range(chain[c])
    <3> HIDE DEF R
    <3>1. \A s \in R : V(s) = W(s)
      BY <2>3 DEF R
    <3>2. UNION {V(s) : s \in R} = UNION {W(s) : s \in R}
      BY ONLY <3>1
    <3> QED BY <3>2 DEF R
  <2> QED BY <2>4, <2>5, <2>6
<1>2. /\ search_member_in_super(c, members[c][p].name)' = search_member_in_super(c, members[c][p].name)
      /\ NewBefore(c, p)' = NewBefore(c, p)
  BY SameMembers
<1>3. LET found == search_member_in_super(c, members[c][p].name)
      IN  found # NotFound => index'[found.class] = index[found.class]
  BY FoundAbove
<1>4. \A used : Largest(used)' = Largest(used)
  OBVIOUS
<1>5. Largest({-1} \cup Used(c, members[c][p].kind))' = Largest({-1} \cup Used(c, members[c][p].kind))
  BY <1>1 DEF Largest
<1> QED
  BY <1>2, <1>3, <1>5 DEF IndexOf, NotFound

LEMMA IndicesKept ==
    ASSUME Tables, program' = program, chain' = chain, interfaces' = interfaces,
           members' = members, order' = order, NEW c \in 1..Len(index),
           \A d \in 1..Len(index) : index'[d] = index[d]
    PROVE  IndicesOf(c)'
<1>1. IndicesOf(c) /\ c \in 1..Len(members) /\ c \in Nat /\ Len(index) \in Nat
  BY IndicesStep
<1>2. \A p : IndexOf(c, p)' = IndexOf(c, p)
  BY <1>1, SameIndex
<1>3. cs' = cs /\ \A m : OverrideError(c, m)' = OverrideError(c, m) /\ BodyError(c, m)' = BodyError(c, m)
  BY SameMembers, SameProgram
<1> QED
  BY <1>1, <1>2, <1>3 DEF IndicesOf

LEMMA SameLoaded ==
    ASSUME program' = program, chain' = chain, interfaces' = interfaces,
           members' = members, order' = order
    PROVE  /\ \A c : FieldsOf(c)' = FieldsOf(c) /\ InterfaceTables(c)' = InterfaceTables(c)
           /\ \A c, inherited : /\ Replaced(c, inherited)' = Replaced(c, inherited)
                                /\ Added(c, inherited)' = Added(c, inherited)
<1>1. /\ \A c, name : PositionIn(c, name)' = PositionIn(c, name)
      /\ \A c, kind : OfKind(c, kind)' = OfKind(c, kind)
  BY SameMembers
<1>2. \A c, name : Function(c, name)' = Function(c, name)
  BY <1>1 DEF Function
<1>3. ASSUME NEW c PROVE FieldsOf(c)' = FieldsOf(c)
  <2> DEFINE places == OfKind(c, "field")
  <2>1. places' = places
    BY <1>1
  <2>2. Selected(members[c], places)' = Selected(members[c], places)
    <3> HIDE DEF places
    <3> QED BY <2>1 DEF Selected, InOrder, Rank
  <2> QED BY <2>2 DEF FieldsOf
<1>4. \A c : Methods(c)' = Methods(c)
  <2> SUFFICES ASSUME NEW c PROVE Methods(c)' = Methods(c)
    OBVIOUS
  <2> DEFINE places == OfKind(c, "method")
  <2>1. places' = places
    BY <1>1
  <2>2. Selected(members[c], places)' = Selected(members[c], places)
    <3> HIDE DEF places
    <3> QED BY <2>1 DEF Selected, InOrder, Rank
  <2> QED BY <2>2 DEF Methods
<1>5. \A c, methods : Slots(c, methods)' = Slots(c, methods)
  BY <1>2 DEF Slots
<1>6. ASSUME NEW c PROVE InterfaceTables(c)' = InterfaceTables(c)
  BY <1>4, <1>5 DEF InterfaceTables
<1>7. ASSUME NEW c, NEW inherited
      PROVE  Replaced(c, inherited)' = Replaced(c, inherited)
  BY <1>2, <1>4 DEF Replaced, IsNamed
<1>8. ASSUME NEW c, NEW inherited
      PROVE  Added(c, inherited)' = Added(c, inherited)
  <2> DEFINE places == {p \in OfKind(c, "method") :
                ~IsNamed(inherited, members[c][p].name) /\ ~members[c][p].override}
  <2>1. places' = places
    BY <1>1 DEF IsNamed
  <2>2. Selected(members[c], places)' = Selected(members[c], places)
    <3> HIDE DEF places
    <3> QED BY <2>1 DEF Selected, InOrder, Rank
  <2> QED BY <1>5, <2>2 DEF Added
<1> QED
  BY <1>3, <1>6, <1>7, <1>8

LEMMA LoadedKept ==
    ASSUME Tables, program' = program, chain' = chain, interfaces' = interfaces,
           members' = members, order' = order, NEW c \in 1..Len(class),
           \A d \in 1..Len(class) : /\ layout'[d] = layout[d] /\ class'[d] = class[d]
                                    /\ interface'[d] = interface[d]
    PROVE  LoadedAs(c)'
<1>1. LoadedAs(c) /\ Len(class) \in Nat /\ Len(class) <= Len(cs)
  BY DEF Tables, Sizes, AnySeq
<1>2. c \in 1..Len(chain)
  <2>1. Len(cs) \in Nat /\ Len(class) # 0 => Len(chain) = Len(cs)
    <3>1. program \in Programs
      BY DEF Tables, Sizes
    <3>2. Len(cs) \in Nat
      BY <3>1, DefinitionsAre
    <3>3. /\ Len(class) # 0 => Len(index) = Len(cs)
          /\ Len(index) # 0 => Len(members) = Len(cs)
          /\ Len(members) # 0 => Len(chain) = Len(cs)
      BY DEF Tables, Sizes
    <3> QED BY <1>1, <3>2, <3>3
  <2> QED BY <1>1, <2>1
<1>3. SuperClass(c)' = SuperClass(c) /\ (SuperClass(c) # NoClass => SuperClass(c) \in 1..Len(class))
  <2>1. SuperClass(c) # NoClass => SuperClass(c) \in 1..(c - 1)
    BY <1>2, ChainIs
  <2>2. SuperClass(c)' = SuperClass(c)
    BY SameChain
  <2> QED BY <1>1, <2>1, <2>2
<1>4. Inherited(c)' = Inherited(c)
  BY <1>3 DEF Inherited, NoClass
<1>5. FieldLayout(c)' = FieldLayout(c)
  <2>1. FieldsOf(c)' = FieldsOf(c)
    BY SameLoaded
  <2> QED BY <1>3, <2>1 DEF FieldLayout, NoClass
<1>6. /\ InterfaceTables(c)' = InterfaceTables(c)
      /\ \A inherited : /\ Replaced(c, inherited)' = Replaced(c, inherited)
                        /\ Added(c, inherited)' = Added(c, inherited)
  BY SameLoaded
<1>7. Replaced(c, Inherited(c))' = Replaced(c, Inherited(c)) /\ Added(c, Inherited(c))' = Added(c, Inherited(c))
  BY <1>4, <1>6
<1> QED
  BY <1>1, <1>5, <1>6, <1>7 DEF LoadedAs

-----------------------------------------------------------------------------
(* The loops keep the tables.                                              *)
LEMMA TablesStart == SourceInit => Tables
<1> SUFFICES ASSUME SourceInit PROVE Tables
  OBVIOUS
<1>1. /\ program \in Programs
      /\ chain = <<>> /\ interfaces = <<>> /\ members = <<>> /\ order = <<>> /\ index = <<>>
      /\ layout = <<>> /\ class = <<>> /\ interface = <<>>
  BY DEF SourceInit
<1>2. AnySeq(<<>>) /\ Len(<<>>) = 0
  <2>1. <<>> \in Seq({})
    BY EmptySeq
  <2> QED BY <2>1 DEF AnySeq
<1>3. Len(cs) \in Nat
  BY <1>1, DefinitionsAre
<1>4. Sizes
  BY <1>1, <1>2, <1>3 DEF Sizes
<1>5. 1..0 = {}
  OBVIOUS
<1> QED
  BY <1>1, <1>2, <1>4, <1>5 DEF Tables

LEMMA TablesSame ==
    ASSUME Tables, UNCHANGED <<program, compiled, loaded>>
    PROVE  Tables'
<1>1. /\ program' = program /\ chain' = chain /\ interfaces' = interfaces /\ members' = members
      /\ order' = order /\ index' = index /\ layout' = layout /\ class' = class
      /\ interface' = interface
  BY DEF compiled, loaded
<1>2. Sizes'
  <2>1. Sizes
    BY DEF Tables
  <2> QED BY <1>1, <2>1 DEF Sizes, cs, AnySeq
<1>3. \A c \in 1..Len(chain) : ChainOf(c)'
  BY <1>1, ChainKept
<1>4. \A c \in 1..Len(members) : MembersOf(c)'
  BY <1>1, MembersKept
<1>5. \A c \in 1..Len(index) : IndicesOf(c)'
  BY <1>1, IndicesKept
<1>6. \A c \in 1..Len(class) : LoadedAs(c)'
  BY <1>1, LoadedKept
<1>7. \A c : InterfacesIn(c)' = InterfacesIn(c)
  BY <1>1, SameProgram
<1>8. \A c \in 1..Len(chain) : c > Len(members) => interfaces[c] = InterfacesIn(c)
  BY DEF Tables
<1> QED
  BY <1>1, <1>2, <1>3, <1>4, <1>5, <1>6, <1>7, <1>8 DEF Tables

LEMMA SizesAre ==
    ASSUME Sizes
    PROVE  /\ program \in Programs /\ Len(cs) \in Nat /\ Classes = 1..Len(cs)
           /\ Len(chain) \in Nat /\ Len(members) \in Nat /\ Len(index) \in Nat /\ Len(class) \in Nat
<1>1. program \in Programs
  BY DEF Sizes
<1>2. Len(cs) \in Nat /\ Classes = 1..Len(cs)
  BY <1>1, DefinitionsAre
<1>3. Len(chain) \in Nat /\ Len(members) \in Nat /\ Len(index) \in Nat /\ Len(class) \in Nat
  BY DEF Sizes, AnySeq
<1> QED
  BY <1>1, <1>2, <1>3

LEMMA FixExtendsKeeps == Tables /\ FixExtends => Tables'
<1> SUFFICES ASSUME Tables, FixExtends PROVE Tables'
  OBVIOUS
<1>0. PICK c : c = Len(chain) + 1
  OBVIOUS
<1>1. CASE Rejected
  BY <1>1, TablesSame DEF Rejected
<1>2. CASE ~Rejected
  <2>1. /\ c \in Classes /\ ~ExtendsError(c) /\ ~\E m \in Range(cs[c].members) : MemberError(c, m)
        /\ chain' = Append(chain, IF ClassesIn(c) = <<>> THEN <<>>
                                  ELSE ClassesIn(c) \o chain[ClassesIn(c)[1]])
        /\ interfaces' = Append(interfaces, InterfacesIn(c))
        /\ UNCHANGED <<program, members, order, index, loaded, outcome>>
    BY <1>0, <1>2 DEF FixExtends
  <2>2. /\ program' = program /\ members' = members
        /\ order' = order /\ index' = index /\ layout' = layout /\ class' = class
        /\ interface' = interface
    BY <2>1 DEF loaded
  <2>3. Sizes
    BY DEF Tables
  <2>4. /\ program \in Programs /\ Len(cs) \in Nat /\ Classes = 1..Len(cs)
        /\ Len(chain) \in Nat /\ Len(members) \in Nat /\ Len(index) \in Nat /\ Len(class) \in Nat
    BY <2>3, SizesAre
  <2>5. Len(chain) < Len(cs) /\ Len(members) = 0 /\ Len(index) = 0 /\ Len(class) = 0
    <3>1. Len(chain) < Len(cs)
      BY <1>0, <2>1, <2>4
    <3> QED BY <2>3, <2>4, <3>1 DEF Sizes
  <2>6. AnySeq(chain) /\ AnySeq(interfaces) /\ Len(interfaces) = Len(chain)
    BY <2>3 DEF Sizes
  <2>7. /\ AnySeq(chain') /\ Len(chain') = c /\ \A i \in 1..Len(chain) : chain'[i] = chain[i]
        /\ chain'[c] = IF ClassesIn(c) = <<>> THEN <<>> ELSE ClassesIn(c) \o chain[ClassesIn(c)[1]]
    BY <1>0, <2>1, <2>6, AppendIs
  <2>8. /\ AnySeq(interfaces') /\ Len(interfaces') = c
        /\ \A i \in 1..Len(chain) : interfaces'[i] = interfaces[i]
        /\ interfaces'[c] = InterfacesIn(c)
    BY <1>0, <2>1, <2>6, AppendIs
  <2>9. c \in Nat /\ \A d \in 1..Len(chain') : d \in 1..Len(chain) \/ d = c
    BY <1>0, <2>4, <2>7
  <2>10. cs' = cs /\ \A d : InterfacesIn(d)' = InterfacesIn(d)
    BY <2>2, SameProgram
  <2>11. Sizes'
    <3>1. Len(chain') <= Len(cs') /\ Len(members') = 0 /\ Len(index') = 0 /\ Len(class') = 0
      BY <1>0, <2>2, <2>4, <2>5, <2>7, <2>10
    <3>2. /\ AnySeq(members') /\ AnySeq(order') /\ AnySeq(index') /\ AnySeq(layout')
          /\ AnySeq(class') /\ AnySeq(interface')
          /\ Len(order') = Len(members') /\ Len(layout') = Len(class') /\ Len(interface') = Len(class')
          /\ program' \in Programs
      BY <2>2, <2>3 DEF Sizes
    <3>3. Len(cs') \in Nat
      BY <2>4, <2>10
    <3> QED BY <2>7, <2>8, <3>1, <3>2, <3>3 DEF Sizes
  <2>12. \A d \in 1..Len(chain') : ChainOf(d)'
    <3>1. ASSUME NEW d \in 1..Len(chain) PROVE ChainOf(d)'
      BY <2>2, <2>7, ChainKept
    <3>2. ChainOf(c)'
      <4>1. /\ ClassesIn(c)' = ClassesIn(c) /\ ExtendsError(c)' = ExtendsError(c)
            /\ \A m : MemberError(c, m)' = MemberError(c, m)
        BY <2>2, SameProgram
      <4>2. ClassesIn(c) # <<>> => ClassesIn(c)[1] \in 1..Len(chain)
        <5> DEFINE e == ClassesIn(c)
        <5>1. e \in Seq(1..(c - 1))
          BY <2>1, <2>4, KindsExtended
        <5>2. ASSUME e # <<>> PROVE e[1] \in 1..(c - 1)
          <6> HIDE DEF e
          <6>1. Len(e) \in Nat /\ Len(e) # 0
            BY <5>1, <5>2, EmptySeq
          <6>2. 1 \in 1..Len(e)
            BY <6>1
          <6> QED BY <5>1, <6>2, ElementOfSeq
        <5>3. 1..(c - 1) = 1..Len(chain)
          BY <1>0, <2>4
        <5> QED BY <5>2, <5>3
      <4>3. ClassesIn(c) # <<>> => chain'[ClassesIn(c)[1]] = chain[ClassesIn(c)[1]]
        BY <2>7, <4>2
      <4>5. chain'[c] = IF ClassesIn(c) = <<>> THEN <<>> ELSE ClassesIn(c) \o chain'[ClassesIn(c)[1]]
        BY <2>7, <4>3
      <4> QED BY <2>1, <2>10, <4>1, <4>5 DEF ChainOf
    <3> QED BY <2>9, <3>1, <3>2
  <2>13. \A d \in 1..Len(chain') : d > Len(members') => interfaces'[d] = InterfacesIn(d)'
    <3>1. \A d \in 1..Len(chain) : interfaces[d] = InterfacesIn(d)
      <4>1. \A d \in 1..Len(chain) : d > Len(members)
        BY <2>5
      <4> QED BY <4>1 DEF Tables
    <3> QED BY <2>8, <2>9, <2>10, <3>1
  <2>14. /\ \A d \in 1..Len(members') : MembersOf(d)'
         /\ \A d \in 1..Len(index') : IndicesOf(d)'
         /\ \A d \in 1..Len(class') : LoadedAs(d)'
    BY <2>2, <2>5
  <2> QED BY <2>11, <2>12, <2>13, <2>14 DEF Tables
<1> QED
  BY <1>1, <1>2

LEMMA AddSuperInterfacesKeeps == Tables /\ AddSuperInterfaces => Tables'
<1> SUFFICES ASSUME Tables, AddSuperInterfaces PROVE Tables'
  OBVIOUS
<1>0. PICK c : c = Len(members) + 1
  OBVIOUS
<1>1. /\ Len(chain) = Len(cs) /\ c \in Classes
      /\ interfaces' = [interfaces EXCEPT ![c] = @ \o AddedInterfaces(c)]
      /\ members' = Append(members, add_default_constructor(c))
      /\ order' = Append(order,
               <<c>> \o (IF SuperClass(c) = NoClass THEN <<>> ELSE order[SuperClass(c)])
                     \o interfaces'[c])
      /\ UNCHANGED <<program, chain, index, loaded, outcome>>
  BY <1>0 DEF AddSuperInterfaces
<1>2. /\ program' = program /\ chain' = chain
      /\ index' = index /\ layout' = layout /\ class' = class /\ interface' = interface
  BY <1>1 DEF loaded
<1>3. Sizes
  BY DEF Tables
<1>4. /\ program \in Programs /\ Len(cs) \in Nat /\ Classes = 1..Len(cs)
      /\ Len(chain) \in Nat /\ Len(members) \in Nat /\ Len(index) \in Nat /\ Len(class) \in Nat
  BY <1>3, SizesAre
<1>5. Len(members) < Len(cs) /\ Len(index) = 0 /\ Len(class) = 0 /\ Len(cs) # 0
  <2>1. Len(members) < Len(cs)
    BY <1>0, <1>1, <1>4
  <2> QED BY <1>3, <1>4, <2>1 DEF Sizes
<1>6. /\ AnySeq(members) /\ AnySeq(interfaces) /\ AnySeq(order)
      /\ Len(interfaces) = Len(chain) /\ Len(order) = Len(members)
  BY <1>3 DEF Sizes
<1>7. /\ AnySeq(members') /\ Len(members') = c /\ \A i \in 1..Len(members) : members'[i] = members[i]
      /\ members'[c] = add_default_constructor(c)
  BY <1>0, <1>1, <1>6, AppendIs
<1>8. /\ AnySeq(order') /\ Len(order') = c /\ \A i \in 1..Len(members) : order'[i] = order[i]
      /\ order'[c] = <<c>> \o (IF SuperClass(c) = NoClass THEN <<>> ELSE order[SuperClass(c)])
                           \o interfaces'[c]
  <2> DEFINE x == <<c>> \o (IF SuperClass(c) = NoClass THEN <<>> ELSE order[SuperClass(c)])
                       \o interfaces'[c]
  <2>1. order' = Append(order, x)
    BY <1>1
  <2> HIDE DEF x
  <2>2. /\ AnySeq(order') /\ Len(order') = c /\ \A i \in 1..Len(members) : order'[i] = order[i]
        /\ order'[c] = x
    BY <1>0, <1>6, <2>1, AppendIs
  <2> QED BY <2>2 DEF x
<1>9. /\ AnySeq(interfaces') /\ Len(interfaces') = Len(chain)
      /\ \A i \in 1..Len(chain) : i # c => interfaces'[i] = interfaces[i]
      /\ interfaces'[c] = interfaces[c] \o AddedInterfaces(c)
  <2>1. c \in 1..Len(interfaces)
    BY <1>1, <1>4, <1>6
  <2> DEFINE x == interfaces[c] \o AddedInterfaces(c)
  <2>2. interfaces' = [interfaces EXCEPT ![c] = x]
    BY <1>1
  <2> HIDE DEF x
  <2>3. /\ AnySeq(interfaces') /\ Len(interfaces') = Len(interfaces)
        /\ \A i \in 1..Len(interfaces) : i # c => interfaces'[i] = interfaces[i]
        /\ interfaces'[c] = x
    <3> DEFINE t == [interfaces EXCEPT ![c] = x]
    <3>0. AnySeq(interfaces)
      BY <1>6
    <3>1. /\ AnySeq(t) /\ Len(t) = Len(interfaces) /\ t[c] = x
          /\ \A i \in 1..Len(interfaces) : i # c => t[i] = interfaces[i]
      BY ONLY <3>0, <2>1, ExceptIs
    <3> HIDE DEF t
    <3>2. interfaces' = t
      BY <2>2 DEF t
    <3> QED BY <3>1, <3>2
  <2> QED BY <1>6, <2>3 DEF x
<1>10. /\ c \in Nat /\ c \in 1..Len(chain) /\ c \notin 1..Len(members)
       /\ \A d \in 1..Len(members') : d \in 1..Len(members) \/ d = c
       /\ \A d \in 1..Len(members) : d \in 1..Len(chain)
  BY <1>0, <1>1, <1>4, <1>7
<1>11. cs' = cs /\ \A d : InterfacesIn(d)' = InterfacesIn(d)
  BY <1>2, SameProgram
<1>12. Sizes'
  <2>1. Len(members') <= Len(cs') /\ Len(index') = 0 /\ Len(class') = 0 /\ Len(chain') = Len(cs')
    BY <1>0, <1>1, <1>2, <1>4, <1>5, <1>7, <1>11
  <2>2. /\ AnySeq(chain') /\ AnySeq(index') /\ AnySeq(layout')
        /\ AnySeq(class') /\ AnySeq(interface')
        /\ Len(layout') = Len(class') /\ Len(interface') = Len(class')
        /\ program' \in Programs
    BY <1>2, <1>3 DEF Sizes
  <2>3. Len(cs') \in Nat
    BY <1>4, <1>11
  <2> QED BY <1>2, <1>7, <1>8, <1>9, <2>1, <2>2, <2>3 DEF Sizes
<1>13. \A d \in 1..Len(chain') : ChainOf(d)'
  BY <1>2, ChainKept
<1>14. interfaces[c] = InterfacesIn(c)
  <2>1. c > Len(members)
    BY <1>0, <1>4
  <2> QED BY <1>10, <2>1 DEF Tables
<1>15. \A d \in 1..Len(members) : /\ interfaces'[d] = interfaces[d]
                                  /\ members'[d] = members[d] /\ order'[d] = order[d]
  BY <1>7, <1>8, <1>9, <1>10
<1>16. MembersOf(c)'
  <2>1. /\ SuperClass(c)' = SuperClass(c)
        /\ add_default_constructor(c)' = add_default_constructor(c)
    BY <1>2, SameChain
  <2>2. \A s \in Range(chain[c]) : s \in 1..Len(members)
    <3>1. Range(chain[c]) \subseteq 1..(c - 1)
      BY <1>10, ChainRange
    <3>2. 1..(c - 1) = 1..Len(members)
      BY <1>0, <1>4
    <3> QED BY <3>1, <3>2
  <2>3. AddedInterfaces(c)' = AddedInterfaces(c)
    <3>1. \A i \in DOMAIN chain[c] : chain[c][i] \in 1..Len(members)
      BY <2>2 DEF Range
    <3>2. [i \in DOMAIN chain'[c] |-> interfaces'[chain'[c][i]]]
            = [i \in DOMAIN chain[c] |-> interfaces[chain[c][i]]]
      BY <1>2, <1>15, <3>1
    <3> QED BY <3>2 DEF AddedInterfaces
  <2>4. SuperClass(c) # NoClass => SuperClass(c) \in 1..Len(members)
    <3>1. SuperClass(c) # NoClass => SuperClass(c) \in 1..(c - 1)
      BY <1>10, ChainIs
    <3> QED BY <1>0, <1>4, <3>1
  <2>5. SuperClass(c) # NoClass => order'[SuperClass(c)] = order[SuperClass(c)]
    BY <1>15, <2>4
  <2>6. order'[c] = <<c>> \o (IF SuperClass(c) = NoClass THEN <<>> ELSE order'[SuperClass(c)])
                          \o interfaces'[c]
    BY <1>8, <2>5
  <2>7. interfaces'[c] = InterfacesIn(c)' \o AddedInterfaces(c)'
    BY <1>9, <1>11, <1>14, <2>3
  <2> QED BY <1>7, <2>1, <2>6, <2>7 DEF MembersOf, NoClass
<1>17. \A d \in 1..Len(members') : MembersOf(d)'
  <2>1. ASSUME NEW d \in 1..Len(members) PROVE MembersOf(d)'
    BY <1>2, <1>15, MembersKept
  <2> QED BY <1>10, <1>16, <2>1
<1>18. \A d \in 1..Len(chain') : d > Len(members') => interfaces'[d] = InterfacesIn(d)'
  <2>1. \A d \in 1..Len(chain) : d > c => d # c /\ d > Len(members)
    BY <1>0, <1>4
  <2>2. \A d \in 1..Len(chain) : d > Len(members) => interfaces[d] = InterfacesIn(d)
    BY DEF Tables
  <2> QED BY <1>2, <1>7, <1>9, <1>11, <2>1, <2>2
<1>19. /\ \A d \in 1..Len(index') : IndicesOf(d)'
       /\ \A d \in 1..Len(class') : LoadedAs(d)'
  BY <1>2, <1>5
<1> QED
  BY <1>12, <1>13, <1>17, <1>18, <1>19 DEF Tables

LEMMA FixMembersKeeps == Tables /\ FixMembers => Tables'
<1> SUFFICES ASSUME Tables, FixMembers PROVE Tables'
  OBVIOUS
<1>0. PICK c : c = Len(index) + 1
  OBVIOUS
<1>1. CASE Rejected
  BY <1>1, TablesSame DEF Rejected
<1>2. CASE ~Rejected
  <2>1. /\ Len(members) = Len(cs) /\ c \in Classes
        /\ ~ \/ \E m \in Range(members[c]) : BodyError(c, m) \/ OverrideError(c, m)
             \/ ~cs[c].abstract /\ \E m \in Range(members[c]) : m.kind = "method" /\ m.abstract
        /\ index' = Append(index, [p \in DOMAIN members[c] |-> IndexOf(c, p)])
        /\ UNCHANGED <<program, chain, interfaces, members, order, loaded, outcome>>
    BY <1>0, <1>2 DEF FixMembers
  <2>2. /\ program' = program /\ chain' = chain /\ interfaces' = interfaces /\ members' = members
        /\ order' = order /\ layout' = layout /\ class' = class /\ interface' = interface
    BY <2>1 DEF loaded
  <2>3. Sizes
    BY DEF Tables
  <2>4. /\ program \in Programs /\ Len(cs) \in Nat /\ Classes = 1..Len(cs)
        /\ Len(chain) \in Nat /\ Len(members) \in Nat /\ Len(index) \in Nat /\ Len(class) \in Nat
    BY <2>3, SizesAre
  <2>5. Len(index) < Len(cs) /\ Len(class) = 0
    <3>1. Len(index) < Len(cs)
      BY <1>0, <2>1, <2>4
    <3> QED BY <2>3, <2>4, <3>1 DEF Sizes
  <2>6. AnySeq(index)
    BY <2>3 DEF Sizes
  <2>7. /\ AnySeq(index') /\ Len(index') = c /\ \A i \in 1..Len(index) : index'[i] = index[i]
        /\ index'[c] = [p \in DOMAIN members[c] |-> IndexOf(c, p)]
    BY <1>0, <2>1, <2>6, AppendIs
  <2>8. /\ c \in Nat /\ c \in 1..Len(members)
        /\ \A d \in 1..Len(index') : d \in 1..Len(index) \/ d = c
        /\ \A d \in 1..(c - 1) : d \in 1..Len(index)
    BY <1>0, <2>1, <2>4, <2>7
  <2>9. cs' = cs /\ \A d : InterfacesIn(d)' = InterfacesIn(d)
    BY <2>2, SameProgram
  <2>10. Sizes'
    <3>1. Len(index') <= Len(cs') /\ Len(class') = 0 /\ Len(members') = Len(cs')
      BY <1>0, <2>1, <2>2, <2>4, <2>5, <2>7, <2>9
    <3>2. /\ AnySeq(chain') /\ AnySeq(interfaces') /\ AnySeq(members') /\ AnySeq(order')
          /\ AnySeq(layout') /\ AnySeq(class') /\ AnySeq(interface')
          /\ Len(interfaces') = Len(chain') /\ Len(order') = Len(members')
          /\ Len(layout') = Len(class') /\ Len(interface') = Len(class')
          /\ program' \in Programs
      BY <2>2, <2>3 DEF Sizes
    <3>3. Len(chain') <= Len(cs') /\ (Len(members') # 0 => Len(chain') = Len(cs'))
      BY <2>2, <2>3, <2>9 DEF Sizes
    <3>4. Len(cs') \in Nat
      BY <2>4, <2>9
    <3> QED BY <2>7, <3>1, <3>2, <3>3, <3>4 DEF Sizes
  <2>11. \A d \in 1..Len(chain') : ChainOf(d)'
    BY <2>2, ChainKept
  <2>12. \A d \in 1..Len(members') : MembersOf(d)'
    BY <2>2, MembersKept
  <2>13. \A d \in 1..Len(chain') : d > Len(members') => interfaces'[d] = InterfacesIn(d)'
    <3>1. \A d \in 1..Len(chain) : d > Len(members) => interfaces[d] = InterfacesIn(d)
      BY DEF Tables
    <3> QED BY <2>2, <2>9, <3>1
  <2>14. IndicesOf(c)'
    <3>1. \A p : IndexOf(c, p)' = IndexOf(c, p)
      BY <2>2, <2>7, <2>8, SameIndex
    <3>2. \A m : OverrideError(c, m)' = OverrideError(c, m) /\ BodyError(c, m)' = BodyError(c, m)
      BY <2>2, SameMembers
    <3> QED BY <2>1, <2>2, <2>7, <2>9, <3>1, <3>2 DEF IndicesOf
  <2>15. \A d \in 1..Len(index') : IndicesOf(d)'
    <3>1. ASSUME NEW d \in 1..Len(index) PROVE IndicesOf(d)'
      BY <2>2, <2>7, IndicesKept
    <3> QED BY <2>8, <2>14, <3>1
  <2>16. \A d \in 1..Len(class') : LoadedAs(d)'
    BY <2>2, <2>5
  <2> QED BY <2>10, <2>11, <2>12, <2>13, <2>15, <2>16 DEF Tables
<1> QED
  BY <1>1, <1>2

LEMMA AddClassKeeps == Tables /\ AddClass => Tables'
<1> SUFFICES ASSUME Tables, AddClass PROVE Tables'
  OBVIOUS
<1>0. PICK c : c = Len(class) + 1
  OBVIOUS
<1>1. /\ Len(index) = Len(cs) /\ c \in Classes
      /\ layout' = Append(layout, FieldLayout(c))
      /\ class' = Append(class, Replaced(c, Inherited(c)) \o Added(c, Inherited(c)))
      /\ interface' = Append(interface, InterfaceTables(c))
      /\ UNCHANGED <<program, compiled, outcome>>
  BY <1>0 DEF AddClass, Inherited
<1>2. /\ program' = program /\ chain' = chain /\ interfaces' = interfaces /\ members' = members
      /\ order' = order /\ index' = index
  BY <1>1 DEF compiled
<1>3. Sizes
  BY DEF Tables
<1>4. /\ program \in Programs /\ Len(cs) \in Nat /\ Classes = 1..Len(cs)
      /\ Len(chain) \in Nat /\ Len(members) \in Nat /\ Len(index) \in Nat /\ Len(class) \in Nat
  BY <1>3, SizesAre
<1>5. Len(class) < Len(cs)
  BY <1>0, <1>1, <1>4
<1>6. /\ AnySeq(layout) /\ AnySeq(class) /\ AnySeq(interface)
      /\ Len(layout) = Len(class) /\ Len(interface) = Len(class)
  BY <1>3 DEF Sizes
<1>7. /\ AnySeq(layout') /\ Len(layout') = c /\ \A i \in 1..Len(class) : layout'[i] = layout[i]
      /\ layout'[c] = FieldLayout(c)
  BY <1>0, <1>1, <1>6, AppendIs
<1>8. /\ AnySeq(class') /\ Len(class') = c /\ \A i \in 1..Len(class) : class'[i] = class[i]
      /\ class'[c] = Replaced(c, Inherited(c)) \o Added(c, Inherited(c))
  BY <1>0, <1>1, <1>6, AppendIs
<1>9. /\ AnySeq(interface') /\ Len(interface') = c /\ \A i \in 1..Len(class) : interface'[i] = interface[i]
      /\ interface'[c] = InterfaceTables(c)
  BY <1>0, <1>1, <1>6, AppendIs
<1>10. /\ c \in Nat /\ \A d \in 1..Len(class') : d \in 1..Len(class) \/ d = c
       /\ \A d \in 1..(c - 1) : d \in 1..Len(class)
  BY <1>0, <1>4, <1>8
<1>11. cs' = cs /\ \A d : InterfacesIn(d)' = InterfacesIn(d)
  BY <1>2, SameProgram
<1>12. c \in 1..Len(chain)
  <2>1. Len(cs) # 0 /\ Len(chain) = Len(cs)
    BY <1>1, <1>3, <1>4, <1>5 DEF Sizes
  <2> QED BY <1>1, <1>4, <2>1
<1>13. Sizes'
  <2>1. Len(class') <= Len(cs') /\ Len(index') = Len(cs')
    BY <1>0, <1>1, <1>2, <1>4, <1>5, <1>8, <1>11
  <2>2. /\ AnySeq(chain') /\ AnySeq(interfaces') /\ AnySeq(members') /\ AnySeq(order')
        /\ AnySeq(index')
        /\ Len(interfaces') = Len(chain') /\ Len(order') = Len(members')
        /\ program' \in Programs
    BY <1>2, <1>3 DEF Sizes
  <2>3. /\ Len(chain') <= Len(cs') /\ (Len(members') # 0 => Len(chain') = Len(cs'))
        /\ Len(members') <= Len(cs') /\ (Len(index') # 0 => Len(members') = Len(cs'))
        /\ Len(index') <= Len(cs')
    BY <1>2, <1>3, <1>11 DEF Sizes
  <2> QED BY <1>7, <1>8, <1>9, <2>1, <2>2, <2>3 DEF Sizes
<1>14. \A d \in 1..Len(chain') : ChainOf(d)'
  BY <1>2, ChainKept
<1>15. \A d \in 1..Len(members') : MembersOf(d)'
  BY <1>2, MembersKept
<1>16. \A d \in 1..Len(chain') : d > Len(members') => interfaces'[d] = InterfacesIn(d)'
  <2>1. \A d \in 1..Len(chain) : d > Len(members) => interfaces[d] = InterfacesIn(d)
    BY DEF Tables
  <2> QED BY <1>2, <1>11, <2>1
<1>17. \A d \in 1..Len(index') : IndicesOf(d)'
  BY <1>2, IndicesKept
<1>18. LoadedAs(c)'
  <2>1. /\ FieldsOf(c)' = FieldsOf(c) /\ InterfaceTables(c)' = InterfaceTables(c)
        /\ \A inherited : /\ Replaced(c, inherited)' = Replaced(c, inherited)
                          /\ Added(c, inherited)' = Added(c, inherited)
    BY <1>2, SameLoaded
  <2>2. SuperClass(c)' = SuperClass(c) /\ (SuperClass(c) # NoClass => SuperClass(c) \in 1..Len(class))
    <3>1. SuperClass(c) # NoClass => SuperClass(c) \in 1..(c - 1)
      BY <1>12, ChainIs
    <3>2. SuperClass(c)' = SuperClass(c)
      BY <1>2, SameChain
    <3> QED BY <1>10, <3>1, <3>2
  <2>3. Inherited(c)' = Inherited(c)
    BY <1>8, <2>2 DEF Inherited, NoClass
  <2>4. FieldLayout(c)' = FieldLayout(c)
    BY <1>7, <2>1, <2>2 DEF FieldLayout, NoClass
  <2>5. /\ Replaced(c, Inherited(c))' = Replaced(c, Inherited(c))
        /\ Added(c, Inherited(c))' = Added(c, Inherited(c))
    BY <2>1, <2>3
  <2> QED BY <1>7, <1>8, <1>9, <2>1, <2>4, <2>5 DEF LoadedAs
<1>19. \A d \in 1..Len(class') : LoadedAs(d)'
  <2>1. ASSUME NEW d \in 1..Len(class) PROVE LoadedAs(d)'
    BY <1>2, <1>7, <1>8, <1>9, LoadedKept
  <2> QED BY <1>10, <1>18, <2>1
<1> QED
  BY <1>13, <1>14, <1>15, <1>16, <1>17, <1>19 DEF Tables

-----------------------------------------------------------------------------
(* The tables when they are done.                                          *)

(* All the loops are done.                                                 *)
Ready == Tables /\ Len(class) = Len(cs)

LEMMA ReadyIs ==
    ASSUME Ready
    PROVE  /\ Tables /\ program \in Programs /\ Len(cs) \in Nat /\ Classes = 1..Len(cs)
           /\ Len(chain) = Len(cs) /\ Len(members) = Len(cs) /\ Len(index) = Len(cs)
           /\ Len(class) = Len(cs)
           /\ \A c \in Classes : /\ c \in Nat /\ ChainOf(c) /\ MembersOf(c) /\ IndicesOf(c)
                                 /\ LoadedAs(c)
                                 /\ c \in 1..Len(chain) /\ c \in 1..Len(members)
                                 /\ c \in 1..Len(index) /\ c \in 1..Len(class)
<1>1. Tables /\ Sizes /\ Len(class) = Len(cs)
  BY DEF Ready, Tables
<1>2. program \in Programs /\ Len(cs) \in Nat /\ Classes = 1..Len(cs)
  BY <1>1, SizesAre
<1>3. Len(cs) # 0
  <2>1. program.start \in Classes
    BY <1>2, DefinitionsAre
  <2> QED BY <1>2, <2>1
<1>4. Len(index) = Len(cs)
  BY <1>1, <1>3 DEF Sizes
<1>5. Len(members) = Len(cs)
  BY <1>1, <1>3, <1>4 DEF Sizes
<1>6. Len(chain) = Len(cs)
  BY <1>1, <1>3, <1>5 DEF Sizes
<1>7. \A c \in Classes : ChainOf(c) /\ MembersOf(c) /\ IndicesOf(c) /\ LoadedAs(c)
  BY <1>1, <1>2, <1>4, <1>5, <1>6 DEF Tables
<1> QED
  BY <1>1, <1>2, <1>4, <1>5, <1>6, <1>7

(* A class and its supers.                                                 *)
LEMMA Hierarchy ==
    ASSUME Ready, NEW c \in Classes
    PROVE  /\ c \in Nat /\ chain[c] \in Seq(1..(c - 1)) /\ Ancestry(c) \in Seq(1..c)
           /\ SuperClass(c) = NoClass => chain[c] = <<>> /\ Range(chain[c]) = {}
           /\ SuperClass(c) # NoClass =>
                 /\ SuperClass(c) \in Classes /\ SuperClass(c) < c
                 /\ ~IsInterface(SuperClass(c)) /\ cs[SuperClass(c)].abstract
                 /\ chain[c] = Ancestry(SuperClass(c))
                 /\ Range(chain[c]) = Range(Ancestry(SuperClass(c)))
           /\ Range(Ancestry(c)) = {c} \cup Range(chain[c])
           /\ c \notin Range(chain[c])
           /\ \A s \in Range(chain[c]) : s \in Classes /\ s < c /\ ~IsInterface(s) /\ cs[s].abstract
           /\ \A s \in Range(Ancestry(c)) : s \in Classes /\ Range(Ancestry(s)) \subseteq Range(Ancestry(c))
           /\ IsInterface(c) => SuperClass(c) = NoClass /\ InterfacesIn(c) = <<>>
<1>1. Tables /\ program \in Programs /\ c \in 1..Len(chain) /\ c \in Nat /\ ChainOf(c) /\ Classes = 1..Len(chain)
  BY ReadyIs
<1>2. chain[c] \in Seq(1..(c - 1)) /\ Ancestry(c) \in Seq(1..c)
  BY <1>1, ChainIs, ChainRange
<1>3. /\ SuperClass(c) = NoClass => chain[c] = <<>>
      /\ Range(chain[c]) = IF SuperClass(c) = NoClass THEN {} ELSE Range(Ancestry(SuperClass(c)))
      /\ Range(Ancestry(c)) = {c} \cup Range(chain[c])
      /\ Range(chain[c]) \subseteq 1..(c - 1)
  BY <1>1, ChainIs, ChainRange
<1>4. SuperClass(c) # NoClass =>
                 /\ SuperClass(c) \in 1..(c - 1) /\ SuperClass(c) \in 1..Len(chain)
                 /\ ~IsInterface(SuperClass(c)) /\ cs[SuperClass(c)].abstract
                 /\ chain[c] = <<SuperClass(c)>> \o chain[SuperClass(c)]
  BY <1>1, ChainIs
<1>5. SuperClass(c) # NoClass => chain[c] = Ancestry(SuperClass(c)) /\ SuperClass(c) < c /\ SuperClass(c) \in Classes
  BY <1>1, <1>4 DEF Ancestry
<1>6. \A s \in Range(Ancestry(c)) :
              /\ s \in 1..Len(chain)
              /\ Range(Ancestry(s)) \subseteq Range(Ancestry(c))
              /\ s \in Range(chain[c]) => ~IsInterface(s) /\ cs[s].abstract
  BY <1>1, ChainTransitive
<1>7. \A s \in Range(chain[c]) : s < c /\ s # c
  BY <1>1, <1>3
<1>8. ASSUME IsInterface(c) PROVE SuperClass(c) = NoClass /\ InterfacesIn(c) = <<>>
  <2>1. cs[c].extends = <<>>
    BY <1>1, <1>8 DEF ChainOf, ExtendsError
  <2>2. Range(cs[c].extends) = {}
    BY <2>1, RangeOf
  <2>3. /\ ClassesIn(c) \in Seq(1..(c - 1)) /\ InterfacesIn(c) \in Seq(1..(c - 1))
        /\ Range(ClassesIn(c)) = {} /\ Range(InterfacesIn(c)) = {}
    BY <1>1, <2>2, KindsExtended
  <2>4. ClassesIn(c) = <<>> /\ InterfacesIn(c) = <<>>
    BY <2>3, RangeEmpty
  <2>5. chain[c] = <<>>
    BY <1>1, <2>4 DEF ChainOf
  <2> QED BY <2>4, <2>5 DEF SuperClass
<1> QED
  BY <1>1, <1>2, <1>3, <1>4, <1>5, <1>6, <1>7, <1>8

LEMMA Interfaces ==
    ASSUME Ready, NEW c \in Classes
    PROVE  /\ interfaces[c] \in Seq(1..(c - 1))
           /\ \A d \in Range(interfaces[c]) :
                 /\ d \in Classes /\ d < c /\ IsInterface(d) /\ cs[d].abstract /\ interfaces[d] = <<>>
                 /\ SuperClass(d) = NoClass
           /\ \A s \in Range(Ancestry(c)) : Range(interfaces[s]) \subseteq Range(interfaces[c])
           /\ IsInterface(c) => interfaces[c] = <<>>
           /\ Range(interfaces[c]) =
                 Range(InterfacesIn(c)) \cup UNION {Range(interfaces[s]) : s \in Range(chain[c])}
<1>1. Tables /\ program \in Programs /\ c \in 1..Len(chain) /\ c \in 1..Len(members) /\ c \in Nat
  BY ReadyIs
<1>2. /\ interfaces[c] \in Seq(1..(c - 1))
      /\ \A d \in Range(interfaces[c]) : d \in 1..(c - 1) /\ IsInterface(d)
  BY <1>1, InterfacesAre
<1>3. Range(interfaces[c]) =
                 Range(InterfacesIn(c)) \cup UNION {Range(interfaces[s]) : s \in Range(chain[c])}
  BY <1>1, InterfacesOf
<1>4. \A s \in Range(Ancestry(c)) : Range(interfaces[s]) \subseteq Range(interfaces[c])
  <2>1. \A s \in Range(Ancestry(c)) : s = c \/ s \in Range(chain[c])
    BY Hierarchy
  <2> QED BY <1>3, <2>1
<1>5. ASSUME NEW d \in Classes, IsInterface(d) PROVE interfaces[d] = <<>> /\ SuperClass(d) = NoClass
  <2>1. /\ SuperClass(d) = NoClass /\ InterfacesIn(d) = <<>> /\ Range(chain[d]) = {}
    BY <1>5, Hierarchy
  <2>2. d \in 1..Len(members) /\ d \in 1..Len(chain)
    BY ReadyIs
  <2>3. Range(interfaces[d]) = Range(InterfacesIn(d)) \cup UNION {Range(interfaces[s]) : s \in Range(chain[d])}
    BY <1>1, <2>2, InterfacesOf
  <2>4. Range(interfaces[d]) = {}
    BY <2>1, <2>3, RangeOf
  <2>5. interfaces[d] \in Seq(1..(d - 1))
    BY <1>1, <2>2, InterfacesAre
  <2> QED BY <2>1, <2>4, <2>5, RangeEmpty
<1>6. \A d \in Range(interfaces[c]) : d \in Classes /\ d < c /\ cs[d].abstract
  <2>1. \A d \in Range(interfaces[c]) : d \in Classes /\ d < c
    <3>1. Classes = 1..Len(cs) /\ c \in 1..Len(cs)
      BY ReadyIs
    <3> QED BY <1>1, <1>2, <3>1
  <2> QED BY <1>1, <1>2, <2>1, ExtendsIs
<1> QED
  BY <1>2, <1>3, <1>4, <1>5, <1>6

-----------------------------------------------------------------------------
(* The members of a class.                                                 *)
Texts == STRING \cup {DefaultConstructor}
Code  == [calls : Seq([target : {"this", "super"}, name : Texts]), returns : -1..Len(cs)]
DeclaredMembers ==
    [name : Texts, kind : {"method", "field"}, constructor : BOOLEAN, type : 0..Len(cs),
     body : Code, access : {"public", "private", "file"}, override : BOOLEAN,
     abstract : BOOLEAN, virtual : BOOLEAN]

Sound(c, m) ==
    /\ m \in DeclaredMembers
    /\ m.kind = "method" => (m.abstract <=> m.body = NoBody)
    /\ m.constructor => m.kind = "method" /\ m.type = NoClass
    /\ m.body # NoBody => m.body.returns # -1 /\ (m.body.returns = NoClass <=> m.type = NoClass)
    /\ m.body.returns \in Classes => ~cs[m.body.returns].abstract
    /\ IsInterface(c) => m.abstract

LEMMA BodiesAreCode == Bodies(Len(cs)) \subseteq Code
<1> SUFFICES ASSUME NEW b \in Bodies(Len(cs)) PROVE b \in Code
  OBVIOUS
<1> DEFINE A == [target : {"this", "super"}, name : STRING]
           B == [target : {"this", "super"}, name : Texts]
<1>1. b = [calls |-> b.calls, returns |-> b.returns] /\ b.calls \in Seq(A) /\ b.returns \in -1..Len(cs)
  BY DEF Bodies
<1>2. A \subseteq B
  BY DEF Texts
<1>3. b.calls \in Seq(B)
  <2> HIDE DEF A, B
  <2> QED BY <1>1, <1>2, SeqMonotonic
<1> QED
  BY <1>1, <1>3 DEF Code

LEMMA DeclaredSound ==
    ASSUME Ready, NEW c \in Classes, NEW m \in Range(cs[c].members)
    PROVE  Sound(c, Declared(c, m))
<1>1. program \in Programs /\ ChainOf(c)
  BY ReadyIs
<1>2. cs[c].members \in Seq(Members(Len(cs))) /\ IsDefinition(cs, c)
  BY <1>1, ExtendsIs, DefinitionsAre
<1>3. m \in Members(Len(cs))
  BY <1>2, RangeIn
<1>4. /\ m.constructor => m.kind = "method" /\ m.type = NoClass
      /\ m.body # NoBody => m.body.returns # -1 /\ (m.body.returns = NoClass <=> m.type = NoClass)
      /\ m.body.returns \in DOMAIN cs => ~cs[m.body.returns].abstract
  BY <1>2 DEF IsDefinition
<1>5. ~MemberError(c, m)
  BY <1>1 DEF ChainOf
<1>6. conv_access_modifier(m.modifiers) \in {"public", "private", "file"}
  BY DEF conv_access_modifier
<1> DEFINE d == Declared(c, m)
<1>7. /\ d.name = m.name /\ d.kind = m.kind /\ d.constructor = m.constructor /\ d.type = m.type
      /\ d.body = m.body
      /\ d.abstract = (Contains(m.modifiers, "abstract") \/ IsInterface(c))
  BY DEF Declared
<1>8. d \in DeclaredMembers
  <2>1. /\ Contains(m.modifiers, "abstract") \in BOOLEAN /\ Contains(m.modifiers, "override") \in BOOLEAN
        /\ Contains(m.modifiers, "virtual") \in BOOLEAN /\ IsInterface(c) \in BOOLEAN
    BY DEF Contains, IsInterface
  <2>2. /\ m.name \in STRING /\ m.kind \in {"method", "field"} /\ m.constructor \in BOOLEAN
        /\ m.type \in 0..Len(cs) /\ m.body \in Bodies(Len(cs))
    BY <1>3 DEF Members
  <2>3. m.body \in Code /\ m.name \in Texts
    BY <2>2, BodiesAreCode DEF Texts
  <2> QED BY <1>6, <2>1, <2>2, <2>3 DEF Declared, DeclaredMembers
<1>9. d.kind = "method" => (d.abstract <=> d.body = NoBody)
  BY <1>5, <1>7 DEF MemberError
<1> HIDE DEF d
<1>10. Sound(c, d)
  BY <1>4, <1>7, <1>8, <1>9 DEF Sound, Classes
<1> QED
  BY <1>10 DEF d

LEMMA ConstructorSound ==
    ASSUME Ready, NEW c \in Classes, ~IsInterface(c)
    PROVE  Sound(c, ConstructorOf(c))
<1> DEFINE m == ConstructorOf(c)
           calls == IF SuperClass(c) # NoClass
                    THEN <<[target |-> "super", name |-> DefaultConstructor]>> ELSE <<>>
<1>1. /\ m.name = DefaultConstructor /\ m.kind = "method" /\ m.constructor = TRUE /\ m.type = NoClass
      /\ m.abstract = FALSE /\ m.virtual = TRUE /\ m.override = (SuperClass(c) # NoClass)
      /\ m.access = (IF SuperClass(c) # NoClass THEN "public" ELSE "file")
      /\ m.body = [calls |-> calls, returns |-> NoClass]
  BY DEF ConstructorOf
<1>2. Len(cs) \in Nat
  BY ReadyIs
<1>3. calls \in Seq([target : {"this", "super"}, name : Texts])
  <2> DEFINE A == [target : {"this", "super"}, name : Texts]
             x == [target |-> "super", name |-> DefaultConstructor]
  <2>1. x \in A
    BY DEF Texts
  <2>2. calls = IF SuperClass(c) # NoClass THEN <<x>> ELSE <<>>
    OBVIOUS
  <2> HIDE DEF A, x, calls
  <2>3. <<x>> \in Seq(A) /\ <<>> \in Seq(A)
    BY <2>1, EmptySeq
  <2> QED BY <2>2, <2>3 DEF A
<1> HIDE DEF calls
<1>4. m.body \in Code /\ m.body.returns = NoClass
  <2>1. NoClass \in -1..Len(cs)
    BY <1>2 DEF NoClass
  <2> QED BY <1>1, <1>3, <2>1 DEF Code
<1>5. m \in DeclaredMembers
  <2> DEFINE o == (SuperClass(c) # NoClass)
             a == IF o THEN "public" ELSE "file"
  <2>1. NoClass \in 0..Len(cs) /\ DefaultConstructor \in Texts
    BY <1>2 DEF NoClass, Texts
  <2>2. m = [name |-> DefaultConstructor, kind |-> "method", constructor |-> TRUE,
             type |-> NoClass, abstract |-> FALSE, virtual |-> TRUE,
             override |-> o, access |-> a, body |-> m.body]
    BY DEF ConstructorOf
  <2>3. o \in BOOLEAN /\ a \in {"public", "private", "file"}
    OBVIOUS
  <2> DEFINE b == m.body
             r == [name |-> DefaultConstructor, kind |-> "method", constructor |-> TRUE,
                   type |-> NoClass, abstract |-> FALSE, virtual |-> TRUE,
                   override |-> o, access |-> a, body |-> b]
  <2>4. b \in Code /\ m = r
    BY <1>4, <2>2
  <2> HIDE DEF m, o, a, b
  <2>5. r \in DeclaredMembers
    BY <2>1, <2>3, <2>4 DEF DeclaredMembers
  <2> QED BY <2>4, <2>5
<1>6. m.body # NoBody /\ m.body.returns # -1 /\ NoClass \notin Classes
  <2>1. NoClass # -1
    BY DEF NoClass
  <2>2. NoBody.returns = -1
    BY DEF NoBody
  <2>3. NoClass \notin Classes
    BY ReadyIs DEF NoClass
  <2> QED BY <1>4, <2>1, <2>2, <2>3
<1> HIDE DEF m
<1>7. Sound(c, m)
  BY <1>1, <1>4, <1>5, <1>6 DEF Sound
<1> QED
  BY <1>7 DEF m

LEMMA MembersAre ==
    ASSUME Ready, NEW c \in Classes
    PROVE  /\ members[c] \in Seq(DeclaredMembers)
           /\ DOMAIN members[c] = 1..Len(members[c]) /\ Len(members[c]) \in Nat
           /\ \A p \in DOMAIN members[c] : Sound(c, members[c][p])
<1> DEFINE own == [i \in DOMAIN cs[c].members |-> Declared(c, cs[c].members[i])]
<1>1. members[c] = IF IsInterface(c) \/ \E i \in DOMAIN own : own[i].constructor THEN own
                   ELSE Append(own, ConstructorOf(c))
  BY ReadyIs DEF MembersOf, add_default_constructor
<1>2. cs[c].members \in Seq(Members(Len(cs)))
  BY ReadyIs, ExtendsIs
<1>3. \A i \in DOMAIN own : Sound(c, own[i])
  <2> SUFFICES ASSUME NEW i \in DOMAIN cs[c].members PROVE Sound(c, Declared(c, cs[c].members[i]))
    OBVIOUS
  <2>1. cs[c].members[i] \in Range(cs[c].members)
    BY DEF Range
  <2> QED BY <2>1, DeclaredSound
<1>4. DOMAIN own = 1..Len(cs[c].members) /\ Len(cs[c].members) \in Nat
  BY <1>2, LenProperties
<1> HIDE DEF own
<1>5. \A i \in DOMAIN own : own[i] \in DeclaredMembers
  BY <1>3 DEF Sound
<1>6. own \in Seq(DeclaredMembers)
  <2>1. own = [i \in DOMAIN own |-> own[i]]
    BY DEF own
  <2>2. own \in [1..Len(cs[c].members) -> DeclaredMembers]
    BY <1>4, <1>5, <2>1
  <2> QED BY <1>4, <2>2, SeqDef
<1>7. CASE IsInterface(c) \/ \E i \in DOMAIN own : own[i].constructor
  <2>1. members[c] = own
    BY <1>1, <1>7
  <2> QED BY <1>3, <1>6, <2>1, LenProperties
<1>8. CASE ~(IsInterface(c) \/ \E i \in DOMAIN own : own[i].constructor)
  <2> DEFINE k == ConstructorOf(c)
  <2>1. Sound(c, k) /\ members[c] = Append(own, k)
    BY <1>1, <1>8, ConstructorSound
  <2> HIDE DEF k
  <2>2. k \in DeclaredMembers
    BY <2>1 DEF Sound
  <2>3. members[c] \in Seq(DeclaredMembers)
    BY <1>6, <2>1, <2>2
  <2>4. AnySeq(own) /\ DOMAIN own = 1..Len(own)
    BY <1>6, SeqIsAny
  <2>5. /\ Len(own) \in Nat /\ Len(Append(own, k)) = Len(own) + 1
        /\ \A i \in 1..Len(own) : Append(own, k)[i] = own[i]
        /\ Append(own, k)[Len(own) + 1] = k
    BY <2>4, AppendIs
  <2>6. DOMAIN members[c] = 1..Len(members[c]) /\ Len(members[c]) = Len(own) + 1
    BY <2>1, <2>3, <2>5, LenProperties
  <2>7. \A p \in DOMAIN members[c] : p \in 1..Len(own) \/ p = Len(own) + 1
    BY <2>5, <2>6
  <2>8. \A p \in DOMAIN members[c] : Sound(c, members[c][p])
    BY <1>3, <2>1, <2>4, <2>5, <2>7
  <2> QED BY <2>3, <2>5, <2>6, <2>8
<1> QED
  BY <1>7, <1>8

(* The place of a name.                                                    *)
LEMMA Place ==
    ASSUME Ready, NEW c \in Classes, NEW name
    PROVE  /\ PositionIn(c, name) = 0 => \A p \in DOMAIN members[c] : members[c][p].name # name
           /\ PositionIn(c, name) # 0 => /\ PositionIn(c, name) \in DOMAIN members[c]
                                         /\ members[c][PositionIn(c, name)].name = name
<1>1. members[c] \in Seq(DeclaredMembers)
  BY MembersAre
<1>2. AnySeq(members[c])
  BY <1>1, SeqIsAny
<1> QED
  BY <1>2, PositionIs

-----------------------------------------------------------------------------
(* The search for a member goes up class by class.                         *)
Found(d, name) == [class |-> d, position |-> PositionIn(d, name)]

LEMMA FoundIsNot ==
    ASSUME NEW d, NEW name, PositionIn(d, name) # 0
    PROVE  Found(d, name) # NotFound
<1>1. Found(d, name).position = PositionIn(d, name) /\ NotFound.position = 0
  BY DEF Found, NotFound
<1> QED
  BY <1>1

LEMMA FirstOfOne ==
    ASSUME NEW d, NEW name
    PROVE  FirstMember(<<d>>, name) = IF PositionIn(d, name) # 0 THEN Found(d, name) ELSE NotFound
<1> DEFINE list == <<d>>
<1>1. DOMAIN list = {1} /\ list[1] = d
  OBVIOUS
<1>2. list \in Seq({d}) /\ Range(list) = {d}
  BY RangeOf
<1> HIDE DEF list
<1>5. AnySeq(list)
  BY <1>2, SeqIsAny
<1>3. CASE PositionIn(d, name) # 0
  <2>1. /\ 1 \in DOMAIN list /\ PositionIn(list[1], name) # 0
        /\ \A j \in DOMAIN list : j < 1 => PositionIn(list[j], name) = 0
    BY <1>1, <1>3
  <2>2. FirstMember(list, name) = [class |-> list[1], position |-> PositionIn(list[1], name)]
    BY <1>5, <2>1, FirstAt
  <2> QED BY <1>1, <1>3, <2>2 DEF Found, list
<1>4. CASE PositionIn(d, name) = 0
  <2>1. \A i \in DOMAIN list : PositionIn(list[i], name) = 0
    BY <1>1, <1>4
  <2>2. FirstMember(list, name) = NotFound
    BY <1>5, <2>1, FirstIs
  <2> QED BY <1>4, <2>2 DEF list
<1> QED
  BY <1>3, <1>4 DEF list

LEMMA Search ==
    ASSUME Ready, NEW c \in Classes, NEW name
    PROVE  /\ dkc_search_member(c, name) =
                 IF PositionIn(c, name) # 0 THEN Found(c, name) ELSE search_member_in_super(c, name)
           /\ search_member_in_super(c, name) =
                 IF SuperClass(c) # NoClass /\ dkc_search_member(SuperClass(c), name) # NotFound
                 THEN dkc_search_member(SuperClass(c), name)
                 ELSE FirstMember(interfaces[c], name)
<1> DEFINE d == SuperClass(c)
           above == IF d = NoClass THEN <<>> ELSE order[d]
           t == Tail(order[c])
<1>1. Tables /\ c \in 1..Len(members) /\ c \in Nat
  BY ReadyIs
<1>2. /\ above \in Seq(1..(c - 1)) /\ interfaces[c] \in Seq(1..(c - 1))
      /\ t = above \o interfaces[c] /\ order[c] = <<c>> \o t
      /\ t \in Seq(1..(c - 1))
  BY <1>1, OrderIs
<1>3. dkc_search_member(c, name) =
                 IF PositionIn(c, name) # 0 THEN Found(c, name) ELSE search_member_in_super(c, name)
  <2> HIDE DEF t
  <2>1. <<c>> \in Seq(Nat) /\ t \in Seq(Nat)
    <3>1. 1..(c - 1) \subseteq Nat
      OBVIOUS
    <3> QED BY <1>1, <1>2, <3>1, SeqMonotonic
  <2>2. FirstMember(<<c>> \o t, name) =
          IF FirstMember(<<c>>, name) # NotFound THEN FirstMember(<<c>>, name) ELSE FirstMember(t, name)
    <3> DEFINE a == <<c>>
    <3>1. a \in Seq(Nat)
      BY <2>1
    <3> HIDE DEF a
    <3>2. FirstMember(a \o t, name) =
            IF FirstMember(a, name) # NotFound THEN FirstMember(a, name) ELSE FirstMember(t, name)
      BY <2>1, <3>1, FirstOfConcat
    <3> QED BY <3>2 DEF a
  <2>3. FirstMember(<<c>>, name) = IF PositionIn(c, name) # 0 THEN Found(c, name) ELSE NotFound
    BY FirstOfOne
  <2>4. search_member_in_super(c, name) = FirstMember(t, name)
    BY DEF search_member_in_super, t
  <2>5. dkc_search_member(c, name) = FirstMember(<<c>> \o t, name)
    BY <1>2 DEF dkc_search_member
  <2>6. PositionIn(c, name) # 0 => Found(c, name) # NotFound
    BY FoundIsNot
  <2> QED BY <2>2, <2>3, <2>4, <2>5, <2>6
<1>4. search_member_in_super(c, name) =
                 IF d # NoClass /\ dkc_search_member(d, name) # NotFound
                 THEN dkc_search_member(d, name)
                 ELSE FirstMember(interfaces[c], name)
  <2>1. search_member_in_super(c, name) = FirstMember(above \o interfaces[c], name)
    BY <1>2 DEF search_member_in_super
  <2>2. FirstMember(above \o interfaces[c], name) =
          IF FirstMember(above, name) # NotFound THEN FirstMember(above, name)
          ELSE FirstMember(interfaces[c], name)
    <3> HIDE DEF above
    <3> QED BY <1>2, FirstOfConcat
  <2>3. CASE d = NoClass
    <3>1. above = <<>> /\ AnySeq(above)
      BY <1>2, <2>3, SeqIsAny
    <3>2. FirstMember(above, name) = NotFound
      <4> HIDE DEF above
      <4> QED BY <3>1, RangeOf, FirstIs
    <3> QED BY <2>1, <2>2, <2>3, <3>2
  <2>4. CASE d # NoClass
    <3>1. FirstMember(above, name) = dkc_search_member(d, name)
      BY <2>4 DEF dkc_search_member
    <3> HIDE DEF above, d
    <3> QED BY <2>1, <2>2, <2>4, <3>1
  <2> QED BY <2>3, <2>4
<1> QED
  BY <1>3, <1>4

(* Where a member is found: in the class or a super, and if not, in one of *)
(* the interfaces.                                                         *)
Finds(c, name) ==
    LET found == dkc_search_member(c, name)
    IN  \/ /\ found = NotFound
           /\ \A d \in Range(Ancestry(c)) \cup Range(interfaces[c]) : PositionIn(d, name) = 0
        \/ /\ found # NotFound /\ found.class \in Range(Ancestry(c))
           /\ PositionIn(found.class, name) # 0 /\ found = Found(found.class, name)
        \/ /\ found # NotFound /\ found.class \in Range(interfaces[c])
           /\ PositionIn(found.class, name) # 0 /\ found = Found(found.class, name)
           /\ \A d \in Range(Ancestry(c)) : PositionIn(d, name) = 0

LEMMA FirstInterface ==
    ASSUME Ready, NEW c \in Classes, NEW name
    PROVE  LET found == FirstMember(interfaces[c], name)
           IN  \/ found = NotFound /\ \A d \in Range(interfaces[c]) : PositionIn(d, name) = 0
               \/ /\ found # NotFound /\ found.class \in Range(interfaces[c])
                  /\ PositionIn(found.class, name) # 0 /\ found = Found(found.class, name)
<1> DEFINE list == interfaces[c]
<1>1. AnySeq(list)
  <2>1. interfaces[c] \in Seq(1..(c - 1))
    BY Interfaces
  <2> QED BY <2>1, SeqIsAny
<1> HIDE DEF list
<1>2. CASE FirstMember(list, name) = NotFound
  BY <1>1, <1>2, FirstIs DEF list
<1>3. CASE FirstMember(list, name) # NotFound
  <2>1. PICK i \in DOMAIN list : PositionIn(list[i], name) # 0 /\ FirstMember(list, name) = Found(list[i], name)
    BY <1>1, <1>3, FirstIs DEF Found
  <2>2. Found(list[i], name).class = list[i]
    BY DEF Found
  <2>3. list[i] \in Range(list)
    BY DEF Range
  <2> QED BY <1>3, <2>1, <2>2, <2>3 DEF list
<1> QED
  BY <1>2, <1>3

LEMMA FindsAll == ASSUME Ready PROVE \A c \in Classes : \A name : Finds(c, name)
<1> DEFINE T == {c \in Classes : \E name : ~Finds(c, name)}
<1> SUFFICES ASSUME T # {} PROVE FALSE
  OBVIOUS
<1>1. Classes \subseteq Nat
  BY ReadyIs
<1>2. PICK c \in T : \A m \in T : c <= m
  <2>1. T \in SUBSET Nat
    BY <1>1
  <2> HIDE DEF T
  <2> QED BY <2>1, LeastOf
<1>3. c \in Classes /\ c \in Nat
  BY <1>1
<1>4. PICK name : ~Finds(c, name)
  OBVIOUS
<1>5. \A d \in Classes : d < c => Finds(d, name)
  <2>1. \A d \in Classes : d < c => d \notin T
    BY <1>1, <1>2
  <2> QED BY <2>1
<1> HIDE DEF T
<1> DEFINE s == SuperClass(c)
<1>6. /\ Range(Ancestry(c)) = {c} \cup Range(chain[c])
      /\ s = NoClass => Range(chain[c]) = {}
      /\ s # NoClass => s \in Classes /\ s < c /\ Range(chain[c]) = Range(Ancestry(s)) /\ s \in Range(Ancestry(c))
  <2>1. s # NoClass => s \in Classes /\ s < c /\ Range(chain[c]) = Range(Ancestry(s))
    BY <1>3, Hierarchy
  <2>2. s # NoClass => s \in Range(Ancestry(s))
    BY <2>1, Hierarchy
  <2> QED BY <1>3, <2>1, <2>2, Hierarchy
<1>7. s # NoClass => Range(interfaces[s]) \subseteq Range(interfaces[c])
  BY <1>3, <1>6, Interfaces
<1>8. /\ dkc_search_member(c, name) =
                 IF PositionIn(c, name) # 0 THEN Found(c, name) ELSE search_member_in_super(c, name)
      /\ search_member_in_super(c, name) =
                 IF s # NoClass /\ dkc_search_member(s, name) # NotFound
                 THEN dkc_search_member(s, name)
                 ELSE FirstMember(interfaces[c], name)
  BY <1>3, Search
<1> HIDE DEF s
<1>9. CASE PositionIn(c, name) # 0
  <2>1. Found(c, name).class = c /\ Found(c, name) # NotFound
    BY <1>9, FoundIsNot DEF Found
  <2> QED BY <1>4, <1>6, <1>8, <1>9, <2>1 DEF Finds
<1>10. CASE PositionIn(c, name) = 0 /\ s # NoClass /\ dkc_search_member(s, name) # NotFound
  <2>1. Finds(s, name) /\ dkc_search_member(c, name) = dkc_search_member(s, name)
    BY <1>5, <1>6, <1>8, <1>10
  <2>2. \A d \in Range(Ancestry(c)) : d = c \/ d \in Range(Ancestry(s))
    BY <1>6, <1>10
  <2> QED BY <1>4, <1>6, <1>7, <1>10, <2>1, <2>2 DEF Finds
<1>11. CASE PositionIn(c, name) = 0 /\ ~(s # NoClass /\ dkc_search_member(s, name) # NotFound)
  <2>1. dkc_search_member(c, name) = FirstMember(interfaces[c], name)
    BY <1>8, <1>11
  <2>2. s # NoClass => \A d \in Range(Ancestry(s)) : PositionIn(d, name) = 0
    BY <1>5, <1>6, <1>11 DEF Finds
  <2>3. \A d \in Range(Ancestry(c)) : PositionIn(d, name) = 0
    BY <1>6, <1>11, <2>2
  <2> QED BY <1>3, <1>4, <2>1, <2>3, FirstInterface DEF Finds
<1> QED
  BY <1>9, <1>10, <1>11

(* What search_member_in_super finds is declared above, and by no class    *)
(* nearer.                                                                 *)
LEMMA FindsAbove ==
    ASSUME Ready, NEW c \in Classes, NEW name
    PROVE  LET found == search_member_in_super(c, name)
           IN  \/ /\ found = NotFound
                  /\ \A d \in Range(chain[c]) \cup Range(interfaces[c]) : PositionIn(d, name) = 0
               \/ /\ found # NotFound /\ PositionIn(found.class, name) # 0
                  /\ found = Found(found.class, name)
                  /\ found.class \in Range(chain[c]) \cup Range(interfaces[c])
                  /\ found.class \in Classes /\ found.class < c
<1> DEFINE s == SuperClass(c)
<1>1. /\ s = NoClass => Range(chain[c]) = {}
      /\ s # NoClass => s \in Classes /\ Range(chain[c]) = Range(Ancestry(s)) /\ s \in Range(Ancestry(c))
  <2>1. s # NoClass => s \in Classes /\ s < c /\ Range(chain[c]) = Range(Ancestry(s))
    BY Hierarchy
  <2>2. \A x \in Classes : x \in Range(Ancestry(x))
    BY Hierarchy
  <2> QED BY <2>1, <2>2, Hierarchy
<1>2. s # NoClass => Range(interfaces[s]) \subseteq Range(interfaces[c])
  BY <1>1, Interfaces
<1>3. search_member_in_super(c, name) =
                 IF s # NoClass /\ dkc_search_member(s, name) # NotFound
                 THEN dkc_search_member(s, name)
                 ELSE FirstMember(interfaces[c], name)
  BY Search
<1>4. \A d \in Range(chain[c]) \cup Range(interfaces[c]) : d \in Classes /\ d < c
  BY Hierarchy, Interfaces
<1> HIDE DEF s
<1>5. CASE s # NoClass /\ dkc_search_member(s, name) # NotFound
  <2>1. Finds(s, name) /\ search_member_in_super(c, name) = dkc_search_member(s, name)
    BY <1>1, <1>3, <1>5, FindsAll
  <2> QED BY <1>1, <1>2, <1>4, <1>5, <2>1 DEF Finds
<1>6. CASE ~(s # NoClass /\ dkc_search_member(s, name) # NotFound)
  <2>1. search_member_in_super(c, name) = FirstMember(interfaces[c], name)
    BY <1>3, <1>6
  <2>2. s # NoClass => \A d \in Range(Ancestry(s)) : PositionIn(d, name) = 0
    BY <1>1, <1>6, FindsAll DEF Finds
  <2>3. \A d \in Range(chain[c]) : PositionIn(d, name) = 0
    BY <1>1, <2>2
  <2> QED BY <1>4, <2>1, <2>3, FirstInterface
<1> QED
  BY <1>5, <1>6

(* The implementation, class by class.                                     *)
LEMMA ImplementationIs ==
    ASSUME Ready, NEW c \in Classes, NEW name
    PROVE  Implementation(c, name) =
              IF PositionIn(c, name) # 0 THEN Function(c, name)
              ELSE IF SuperClass(c) = NoClass THEN NoFunction
              ELSE Implementation(SuperClass(c), name)
<1>1. ASSUME NEW d \in Classes
      PROVE  Implementation(d, name) =
                LET found == FirstMember(Ancestry(d), name)
                IN  IF found = NotFound THEN NoFunction ELSE Function(found.class, name)
  <2> DEFINE list == Ancestry(d)
             at == SelectInSeq(list, LAMBDA x : PositionIn(x, name) # 0)
  <2>1. /\ FirstMember(list, name) =
             IF at = 0 THEN NotFound ELSE [class |-> list[at], position |-> PositionIn(list[at], name)]
        /\ Implementation(d, name) = IF at = 0 THEN NoFunction ELSE Function(list[at], name)
    BY DEF FirstMember, Implementation
  <2>2. AnySeq(list)
    <3>1. list \in Seq(1..d)
      BY Hierarchy
    <3> QED BY <3>1, SeqIsAny
  <2> HIDE DEF list, at
  <2>3. CASE at = 0
    BY <2>1, <2>3 DEF list
  <2>4. CASE at # 0
    <3>1. FirstMember(list, name).class = list[at]
      BY <2>1, <2>4
    <3>2. FirstMember(list, name) # NotFound
      <4> DEFINE I == {i \in 1..Len(list) : PositionIn(list[i], name) # 0}
      <4>1. at = IF I # {} THEN Min(I) ELSE 0
        BY DEF at, SelectInSeq
      <4>2. I \in SUBSET Nat
        OBVIOUS
      <4>3. at \in I
        <5> HIDE DEF I
        <5> QED BY <2>4, <4>1, <4>2, MinIs
      <4>4. PositionIn(list[at], name) # 0
        BY <4>3
      <4> QED BY <2>1, <2>4, <4>4 DEF NotFound
    <3> QED BY <2>1, <2>4, <3>1, <3>2 DEF list
  <2> QED BY <2>3, <2>4
<1>2. CASE SuperClass(c) = NoClass
  <2>1. Ancestry(c) = <<c>>
    <3>1. chain[c] = <<>>
      BY <1>2, Hierarchy
    <3>2. <<c>> \in Seq({c})
      OBVIOUS
    <3> QED BY <3>1, <3>2, ConcatEmptySeq DEF Ancestry
  <2>2. FirstMember(Ancestry(c), name) = IF PositionIn(c, name) # 0 THEN Found(c, name) ELSE NotFound
    BY <2>1, FirstOfOne
  <2>3. Found(c, name).class = c
    BY DEF Found
  <2> QED BY <1>1, <1>2, <2>2, <2>3, FoundIsNot
<1>3. CASE SuperClass(c) # NoClass
  <2> DEFINE s == SuperClass(c)
             a == <<c>>
             b == chain[c]
  <2>1. s \in Classes /\ b = Ancestry(s) /\ b \in Seq(1..(c - 1)) /\ c \in Nat
    BY <1>3, Hierarchy
  <2>2. a \in Seq(Nat) /\ b \in Seq(Nat)
    <3>1. 1..(c - 1) \subseteq Nat
      OBVIOUS
    <3> HIDE DEF b
    <3> QED BY <2>1, <3>1, SeqMonotonic
  <2>3. Ancestry(c) = a \o b
    BY DEF Ancestry
  <2>4. FirstMember(a, name) = IF PositionIn(c, name) # 0 THEN Found(c, name) ELSE NotFound
    BY FirstOfOne
  <2> HIDE DEF a, b, s
  <2>5. FirstMember(a \o b, name) =
          IF FirstMember(a, name) # NotFound THEN FirstMember(a, name) ELSE FirstMember(b, name)
    BY <2>2, FirstOfConcat
  <2>6. Found(c, name).class = c
    BY DEF Found
  <2>7. CASE PositionIn(c, name) # 0
    <3>1. FirstMember(Ancestry(c), name) = Found(c, name) /\ Found(c, name) # NotFound
      BY <2>3, <2>4, <2>5, <2>7, FoundIsNot
    <3> QED BY <1>1, <2>6, <2>7, <3>1
  <2>8. CASE PositionIn(c, name) = 0
    <3>1. FirstMember(Ancestry(c), name) = FirstMember(Ancestry(s), name)
      BY <2>1, <2>3, <2>4, <2>5, <2>8
    <3>2. Implementation(c, name) = Implementation(s, name)
      BY <1>1, <2>1, <3>1
    <3> QED BY <1>3, <2>8, <3>2 DEF s
  <2> QED BY <2>7, <2>8
<1> QED
  BY <1>2, <1>3

-----------------------------------------------------------------------------
(* The fields of an object.                                                *)

(* The members that nothing above declares.                                *)
Fresh(c, kind) ==
    {q \in OfKind(c, kind) : search_member_in_super(c, members[c][q].name) = NotFound}

LEMMA LargestIs ==
    ASSUME NEW n \in Nat, NEW used, \A u \in used : u \in Nat /\ u < n, n # 0 => n - 1 \in used
    PROVE  Largest({-1} \cup used) = n - 1
<1> DEFINE all == {-1} \cup used
<1>1. n - 1 \in all /\ \A u \in all : u <= n - 1 /\ u \in Int
  OBVIOUS
<1>2. \A m \in all : (\A u \in all : u <= m) => m = n - 1
  <2> SUFFICES ASSUME NEW m \in all, \A u \in all : u <= m PROVE m = n - 1
    OBVIOUS
  <2>1. n - 1 <= m /\ m <= n - 1 /\ m \in Int
    BY <1>1
  <2> QED BY <2>1
<1> HIDE DEF all
<1>3. Largest(all) \in all /\ \A u \in all : u <= Largest(all)
  BY <1>1 DEF Largest
<1> QED
  BY <1>2, <1>3 DEF all

(* The index of a new member comes after those of the supers.              *)
LEMMA KindsAre ==
    ASSUME Ready, NEW c \in Classes
    PROVE  /\ AnySeq(members[c]) /\ DOMAIN members[c] = 1..Len(members[c]) /\ Len(members[c]) \in Nat
           /\ OfKind(c, "method") \in SUBSET (1..Len(members[c]))
           /\ OfKind(c, "field") \in SUBSET (1..Len(members[c]))
           /\ \A p \in DOMAIN members[c] : p \in OfKind(c, "method") <=> p \notin OfKind(c, "field")
           /\ Fresh(c, "field") \in SUBSET (1..Len(members[c]))
           /\ Fresh(c, "method") \in SUBSET (1..Len(members[c]))
           /\ \A p \in OfKind(c, "method") : members[c][p].kind = "method"
           /\ \A p \in OfKind(c, "field") : members[c][p].kind = "field"
<1>1. members[c] \in Seq(DeclaredMembers) /\ DOMAIN members[c] = 1..Len(members[c]) /\ Len(members[c]) \in Nat
  BY MembersAre
<1>2. AnySeq(members[c])
  BY <1>1, SeqIsAny
<1>3. \A p \in DOMAIN members[c] : members[c][p].kind \in {"method", "field"}
  <2>1. \A p \in DOMAIN members[c] : members[c][p] \in DeclaredMembers
    BY <1>1, SeqIsAny
  <2> QED BY <2>1 DEF DeclaredMembers
<1>4. \A kind : OfKind(c, kind) = {p \in DOMAIN members[c] : members[c][p].kind = kind}
  BY DEF OfKind
<1>5. \A kind : Fresh(c, kind) \subseteq OfKind(c, kind)
  BY DEF Fresh
<1> QED
  BY <1>1, <1>2, <1>3, <1>4, <1>5

LEMMA IndexOfNew ==
    ASSUME Ready, NEW c \in Classes, NEW kind \in {"method", "field"}, NEW p \in Fresh(c, kind)
    PROVE  /\ p \in DOMAIN members[c] /\ Rank(Fresh(c, kind), p) \in 1..Cardinality(Fresh(c, kind))
           /\ index[c][p] = Largest({-1} \cup Used(c, kind)) + Rank(Fresh(c, kind), p)
              \/ Largest({-1} \cup Used(c, kind)) \notin Int
<1>1. Fresh(c, kind) \in SUBSET (1..Len(members[c])) /\ Len(members[c]) \in Nat
      /\ DOMAIN members[c] = 1..Len(members[c])
  BY KindsAre
<1>2. p \in DOMAIN members[c] /\ members[c][p].kind = kind
      /\ search_member_in_super(c, members[c][p].name) = NotFound
  BY DEF Fresh, OfKind
<1>3. Rank(Fresh(c, kind), p) \in 1..Cardinality(Fresh(c, kind)) /\ Cardinality(Fresh(c, kind)) \in Nat
  BY <1>1, RankIs
<1>4. IndicesOf(c)
  BY ReadyIs
<1>5. index[c][p] = IndexOf(c, p)
  BY <1>2, <1>4 DEF IndicesOf
<1>6. IndexOf(c, p) = 1 + Largest({-1} \cup Used(c, kind)) + Cardinality(NewBefore(c, p))
  BY <1>2 DEF IndexOf
<1>7. NewBefore(c, p) = {q \in Fresh(c, kind) : q < p}
  BY <1>2 DEF NewBefore, Fresh
<1>8. Rank(Fresh(c, kind), p) = 1 + Cardinality(NewBefore(c, p))
  BY <1>7 DEF Rank
<1>9. Cardinality(NewBefore(c, p)) \in Nat
  <2>1. IsFiniteSet(Fresh(c, kind))
    BY <1>1, RankIs
  <2>2. NewBefore(c, p) \subseteq Fresh(c, kind)
    BY <1>7
  <2> QED BY <2>1, <2>2, FS_Subset, FS_CardinalityType
<1> DEFINE l == Largest({-1} \cup Used(c, kind))
           r == Rank(Fresh(c, kind), p)
           k == Cardinality(NewBefore(c, p))
<1>10. index[c][p] = 1 + l + k /\ r = 1 + k /\ k \in Nat
  BY <1>5, <1>6, <1>8, <1>9
<1> HIDE DEF l, r, k
<1>11. index[c][p] = l + r \/ l \notin Int
  BY <1>10
<1> QED
  BY <1>2, <1>3, <1>11 DEF l, r

(* A member that overrides has the index of what it overrides, a method of *)
(* a class or an interface above.                                          *)
LEMMA IndexOfOverride ==
    ASSUME Ready, NEW c \in Classes, NEW p \in DOMAIN members[c],
           search_member_in_super(c, members[c][p].name) # NotFound
    PROVE  LET found == search_member_in_super(c, members[c][p].name)
               name  == members[c][p].name
           IN  /\ index[c][p] = index[found.class][found.position]
               /\ found.position = PositionIn(found.class, name)
               /\ found.position \in DOMAIN members[found.class]
               /\ members[found.class][found.position].name = name
               /\ members[found.class][found.position] = Member(found)
               /\ members[c][p].kind = "method" /\ found.position \in OfKind(found.class, "method")
               /\ found.class \in Classes /\ found.class < c
               /\ found.class \in Range(chain[c]) \cup Range(interfaces[c])
               /\ PositionIn(found.class, name) # 0
               /\ members[c][p].override
               /\ ~members[c][p].constructor =>
                     check_type_compatibility(Member(found).type, members[c][p].type)
<1> DEFINE name == members[c][p].name
           found == search_member_in_super(c, name)
<1>1. found # NotFound
  OBVIOUS
<1>2. /\ PositionIn(found.class, name) # 0 /\ found = Found(found.class, name)
      /\ found.class \in Range(chain[c]) \cup Range(interfaces[c])
      /\ found.class \in Classes /\ found.class < c
  BY <1>1, FindsAbove
<1>3. found.position = PositionIn(found.class, name)
  BY <1>2 DEF Found
<1>4. found.position \in DOMAIN members[found.class] /\ members[found.class][found.position].name = name
  BY <1>2, <1>3, Place
<1>5. IndicesOf(c)
  BY ReadyIs
<1>6. index[c][p] = index[found.class][found.position]
  BY <1>1, <1>5 DEF IndicesOf, IndexOf
<1>7. ~OverrideError(c, members[c][p])
  BY <1>5 DEF IndicesOf, Range
<1>8. /\ members[c][p].kind # "field" /\ Member(found).kind # "field" /\ members[c][p].override
      /\ ~members[c][p].constructor => check_type_compatibility(Member(found).type, members[c][p].type)
  BY <1>1, <1>7 DEF OverrideError
<1>9. members[c][p].kind = "method"
  BY <1>8, KindsAre DEF OfKind
<1>10. found.position \in OfKind(found.class, "method") /\ members[found.class][found.position] = Member(found)
  <2>1. members[found.class][found.position] = Member(found)
    BY DEF Member
  <2> HIDE DEF found
  <2> QED BY <1>2, <1>4, <1>8, <2>1, KindsAre DEF OfKind
<1> QED
  BY <1>2, <1>3, <1>4, <1>6, <1>8, <1>9, <1>10

(* A field is always new.                                                  *)
LEMMA FieldsAreNew ==
    ASSUME Ready, NEW c \in Classes
    PROVE  Fresh(c, "field") = OfKind(c, "field")
<1> SUFFICES ASSUME NEW p \in OfKind(c, "field"), search_member_in_super(c, members[c][p].name) # NotFound
             PROVE FALSE
  BY DEF Fresh
<1>1. p \in DOMAIN members[c] /\ members[c][p].kind = "field"
  BY DEF OfKind
<1> QED
  BY <1>1, IndexOfOverride

-----------------------------------------------------------------------------
(* The fields of an object: each field of the class and its supers is at   *)
(* its index, and there is nothing else.                                   *)
Laid(c) ==
    /\ AnySeq(layout[c]) /\ Len(layout[c]) \in Nat
    /\ \A s \in Range(Ancestry(c)) : \A q \in OfKind(s, "field") :
          /\ index[s][q] \in Nat /\ index[s][q] < Len(layout[c])
          /\ layout[c][index[s][q] + 1] = <<s, members[s][q].name>>
    /\ Len(layout[c]) # 0 =>
          \E s \in Range(Ancestry(c)) : \E q \in OfKind(s, "field") : index[s][q] = Len(layout[c]) - 1

LEMMA FieldsOfIs ==
    ASSUME Ready, NEW c \in Classes
    PROVE  /\ AnySeq(FieldsOf(c)) /\ Len(FieldsOf(c)) = Cardinality(OfKind(c, "field"))
           /\ Cardinality(OfKind(c, "field")) \in Nat
           /\ FieldsOf(c) \in Seq(Classes \X Texts)
           /\ \A p \in OfKind(c, "field") :
                 /\ Rank(OfKind(c, "field"), p) \in 1..Cardinality(OfKind(c, "field"))
                 /\ FieldsOf(c)[Rank(OfKind(c, "field"), p)] = <<c, members[c][p].name>>
           /\ \A i \in 1..Cardinality(OfKind(c, "field")) :
                 \E p \in OfKind(c, "field") : Rank(OfKind(c, "field"), p) = i
<1> DEFINE list == members[c]
           T == OfKind(c, "field")
           fields == Selected(list, T)
           n == Cardinality(T)
<1>1. list \in Seq(DeclaredMembers) /\ T \in SUBSET (1..Len(list))
  BY MembersAre, KindsAre
<1>2. FieldsOf(c) = [i \in DOMAIN fields |-> <<c, fields[i].name>>]
  BY DEF FieldsOf
<1> HIDE DEF T
<1>3. /\ fields \in Seq(DeclaredMembers) /\ Len(fields) = n /\ n \in Nat
      /\ \A p \in T : Rank(T, p) \in 1..n /\ fields[Rank(T, p)] = list[p]
      /\ \A i \in 1..n : \E p \in T : Rank(T, p) = i /\ fields[i] = list[p]
  BY <1>1, SelectedIs
<1> HIDE DEF fields, n, list
<1>4. DOMAIN fields = 1..n
  BY <1>3, LenProperties
<1>5. \A i \in 1..n : fields[i] \in DeclaredMembers
  BY <1>3, <1>4, SeqIsAny
<1>6. \A i \in 1..n : <<c, fields[i].name>> \in Classes \X Texts
  BY <1>5 DEF DeclaredMembers
<1>7. FieldsOf(c) \in [1..n -> Classes \X Texts]
  BY <1>2, <1>4, <1>6
<1>8. FieldsOf(c) \in Seq(Classes \X Texts)
  BY <1>3, <1>7, SeqDef
<1>9. Len(FieldsOf(c)) = n
  BY <1>3, <1>7, <1>8, LenProperties
<1>10. \A p \in T : FieldsOf(c)[Rank(T, p)] = <<c, list[p].name>>
  BY <1>2, <1>3, <1>4
<1> QED
  BY <1>3, <1>8, <1>9, <1>10, SeqIsAny DEF n, T, list

LEMMA FieldsLaid == ASSUME Ready PROVE \A c \in Classes : Laid(c) /\ layout[c] \in Seq(Classes \X Texts)
<1> DEFINE Good(c) == Laid(c) /\ layout[c] \in Seq(Classes \X Texts)
           T == {c \in Classes : ~Good(c)}
<1> SUFFICES ASSUME T # {} PROVE FALSE
  OBVIOUS
<1>1. Classes \subseteq Nat
  BY ReadyIs
<1>2. PICK c \in T : \A m \in T : c <= m
  <2>1. T \in SUBSET Nat
    BY <1>1
  <2> HIDE DEF T
  <2> QED BY <2>1, LeastOf
<1>3. c \in Classes /\ c \in Nat /\ ~Good(c)
  BY <1>1
<1>4. \A d \in Classes : d < c => Good(d)
  <2>1. \A d \in Classes : d < c => d \notin T
    BY <1>1, <1>2
  <2> QED BY <2>1
<1> HIDE DEF T
<1> DEFINE d == SuperClass(c)
           base == IF d = NoClass THEN <<>> ELSE layout[d]
           own == FieldsOf(c)
           n == Len(base)
           F == OfKind(c, "field")
           used == Used(c, "field")
<1>5. layout[c] = base \o own
  <2>1. LoadedAs(c)
    BY <1>3, ReadyIs
  <2> QED BY <2>1 DEF LoadedAs, FieldLayout
<1>6. /\ own \in Seq(Classes \X Texts) /\ Len(own) = Cardinality(F) /\ Cardinality(F) \in Nat
      /\ \A p \in F : Rank(F, p) \in 1..Cardinality(F) /\ own[Rank(F, p)] = <<c, members[c][p].name>>
      /\ \A i \in 1..Cardinality(F) : \E p \in F : Rank(F, p) = i
  BY <1>3, FieldsOfIs
<1>7. /\ Range(Ancestry(c)) = {c} \cup Range(chain[c])
      /\ d = NoClass => Range(chain[c]) = {}
      /\ d # NoClass => d \in Classes /\ d < c /\ Range(chain[c]) = Range(Ancestry(d))
  BY <1>3, Hierarchy
<1> HIDE DEF d, own, F
<1>8. /\ base \in Seq(Classes \X Texts) /\ n \in Nat
      /\ \A s \in Range(chain[c]) : \A q \in OfKind(s, "field") :
            index[s][q] \in Nat /\ index[s][q] < n /\ base[index[s][q] + 1] = <<s, members[s][q].name>>
      /\ n # 0 => \E s \in Range(chain[c]) : \E q \in OfKind(s, "field") : index[s][q] = n - 1
  <2>1. CASE d = NoClass
    <3>1. base = <<>>
      BY <2>1
    <3>2. base \in Seq(Classes \X Texts) /\ n = 0
      BY <3>1, EmptySeq
    <3> QED BY <1>7, <2>1, <3>2
  <2>2. CASE d # NoClass
    <3>1. base = layout[d] /\ Good(d)
      BY <1>4, <1>7, <2>2
    <3> QED BY <1>7, <2>2, <3>1 DEF Laid
  <2> QED BY <2>1, <2>2
<1> HIDE DEF base
<1>9. /\ \A u \in used : u \in Nat /\ u < n
      /\ n # 0 => n - 1 \in used
  BY <1>8 DEF Used
<1> HIDE DEF used, n
<1>10. Largest({-1} \cup used) = n - 1
  BY <1>8, <1>9, LargestIs
<1>11. \A p \in F : index[c][p] = n - 1 + Rank(F, p)
  <2> SUFFICES ASSUME NEW p \in F PROVE index[c][p] = n - 1 + Rank(F, p)
    OBVIOUS
  <2>1. Fresh(c, "field") = F
    BY <1>3, FieldsAreNew DEF F
  <2>2. p \in Fresh(c, "field")
    BY <2>1
  <2>3. index[c][p] = Largest({-1} \cup Used(c, "field")) + Rank(Fresh(c, "field"), p)
              \/ Largest({-1} \cup Used(c, "field")) \notin Int
    BY <1>3, <2>2, IndexOfNew
  <2> QED BY <1>8, <1>10, <2>1, <2>3 DEF used
<1> DEFINE all == layout[c]
<1>12. /\ all \in Seq(Classes \X Texts) /\ Len(all) = n + Cardinality(F)
       /\ \A i \in 1..n : all[i] = base[i]
       /\ \A i \in 1..Cardinality(F) : all[n + i] = own[i]
  <2> HIDE DEF all
  <2>1. all = base \o own
    BY <1>5 DEF all
  <2>2. Len(base) = n
    BY DEF n
  <2> QED BY <1>6, <1>8, <2>1, <2>2
<1> HIDE DEF all
<1>13. ASSUME NEW s \in Range(chain[c]), NEW q \in OfKind(s, "field")
       PROVE  index[s][q] \in Nat /\ index[s][q] < Len(all) /\ all[index[s][q] + 1] = <<s, members[s][q].name>>
  <2>1. index[s][q] \in Nat /\ index[s][q] < n /\ base[index[s][q] + 1] = <<s, members[s][q].name>>
    BY <1>8
  <2>2. index[s][q] + 1 \in 1..n
    BY <1>8, <2>1
  <2> QED BY <1>6, <1>8, <1>12, <2>1, <2>2
<1>14. ASSUME NEW q \in F
       PROVE  index[c][q] \in Nat /\ index[c][q] < Len(all) /\ all[index[c][q] + 1] = <<c, members[c][q].name>>
  <2> DEFINE r == Rank(F, q)
  <2>1. r \in 1..Cardinality(F) /\ own[r] = <<c, members[c][q].name>> /\ index[c][q] = n - 1 + r
    BY <1>6, <1>11
  <2> HIDE DEF r
  <2>2. index[c][q] + 1 = n + r
    BY <1>6, <1>8, <2>1
  <2> QED BY <1>6, <1>8, <1>12, <2>1, <2>2
<1>15. ASSUME Len(all) # 0
       PROVE  \E s \in Range(Ancestry(c)) : \E q \in OfKind(s, "field") : index[s][q] = Len(all) - 1
  <2>1. CASE Cardinality(F) = 0
    BY <1>7, <1>8, <1>12, <1>15, <2>1
  <2>2. CASE Cardinality(F) # 0
    <3>1. PICK p \in F : Rank(F, p) = Cardinality(F)
      BY <1>6, <2>2
    <3>2. index[c][p] = n - 1 + Cardinality(F)
      BY <1>11, <3>1
    <3> QED BY <1>6, <1>7, <1>8, <1>12, <3>2 DEF F
  <2> QED BY <2>1, <2>2
<1>16. Good(c)
  <2>1. AnySeq(all) /\ Len(all) \in Nat
    BY <1>12, SeqIsAny
  <2>2. \A s \in Range(Ancestry(c)) : \A q \in OfKind(s, "field") :
          /\ index[s][q] \in Nat /\ index[s][q] < Len(all)
          /\ all[index[s][q] + 1] = <<s, members[s][q].name>>
    BY <1>7, <1>13, <1>14 DEF F
  <2> QED BY <1>12, <1>15, <2>1, <2>2 DEF Laid, all
<1> QED
  BY <1>3, <1>16

-----------------------------------------------------------------------------
(* The slots of a class_table.                                             *)

(* In a regular program the new methods are those not marked as overriding.*)
LEMMA RegularIs ==
    ASSUME Regular, NEW c \in Classes
    PROVE  /\ Implements(c) /\ NoGaps(c) /\ Apart(c) /\ SameInterfaces(c)
           /\ SameResult(c) /\ ThisIsWhole(c) /\ SuperIsNear(c) /\ SuperHas(c)
  BY DEF Regular

LEMMA NewArePlain ==
    ASSUME Ready, Regular, NEW c \in Classes
    PROVE  {q \in OfKind(c, "method") : ~members[c][q].override} = Fresh(c, "method")
<1>1. NoGaps(c)
  BY RegularIs
<1>2. ASSUME NEW q \in OfKind(c, "method"), ~members[c][q].override
      PROVE  search_member_in_super(c, members[c][q].name) = NotFound
  BY <1>2, IndexOfOverride DEF OfKind
<1>3. ASSUME NEW q \in OfKind(c, "method"), search_member_in_super(c, members[c][q].name) = NotFound
      PROVE  ~members[c][q].override
  <2> SUFFICES ASSUME members[c][q].override PROVE FALSE
    OBVIOUS
  <2> DEFINE list == members[c]
             T == OfKind(c, "method")
  <2>1. list \in Seq(DeclaredMembers) /\ T \in SUBSET (1..Len(list))
    BY MembersAre, KindsAre
  <2>2. Methods(c) = Selected(list, T)
    BY DEF Methods
  <2> HIDE DEF list, T
  <2>3. /\ Selected(list, T) \in Seq(DeclaredMembers) /\ Len(Selected(list, T)) = Cardinality(T)
        /\ q \in T => /\ Rank(T, q) \in 1..Cardinality(T)
                      /\ Selected(list, T)[Rank(T, q)] = list[q]
    BY <2>1, SelectedIs
  <2>4. q \in T
    BY DEF T
  <2>5. Rank(T, q) \in DOMAIN Methods(c) /\ Methods(c)[Rank(T, q)] = list[q]
    BY <2>2, <2>3, <2>4, LenProperties
  <2>6. list[q] \in Range(Methods(c))
    BY <2>5 DEF Range
  <2> QED BY <1>1, <1>3, <2>6 DEF NoGaps, list
<1> QED
  BY <1>2, <1>3 DEF Fresh

LEMMA MethodsAre ==
    ASSUME Ready, NEW c \in Classes
    PROVE  /\ Methods(c) \in Seq(DeclaredMembers)
           /\ Len(Methods(c)) = Cardinality(OfKind(c, "method")) /\ Len(Methods(c)) \in Nat
           /\ \A p \in OfKind(c, "method") :
                 /\ Rank(OfKind(c, "method"), p) \in 1..Len(Methods(c))
                 /\ Methods(c)[Rank(OfKind(c, "method"), p)] = members[c][p]
                 /\ members[c][p] \in Range(Methods(c))
           /\ \A i \in 1..Len(Methods(c)) :
                 \E p \in OfKind(c, "method") :
                    Rank(OfKind(c, "method"), p) = i /\ Methods(c)[i] = members[c][p]
           /\ \A name : IsNamed(Methods(c), name) <=>
                           \E p \in OfKind(c, "method") : members[c][p].name = name
<1> DEFINE list == members[c]
           T == OfKind(c, "method")
           n == Cardinality(T)
           ms == Selected(list, T)
<1>1. list \in Seq(DeclaredMembers) /\ T \in SUBSET (1..Len(list)) /\ Methods(c) = ms
  BY MembersAre, KindsAre DEF Methods
<1> HIDE DEF list, T
<1>2. /\ ms \in Seq(DeclaredMembers) /\ Len(ms) = n /\ n \in Nat
      /\ \A p \in T : Rank(T, p) \in 1..n /\ ms[Rank(T, p)] = list[p]
      /\ \A i \in 1..n : \E p \in T : Rank(T, p) = i /\ ms[i] = list[p]
  BY <1>1, SelectedIs
<1> HIDE DEF ms, n
<1>3. DOMAIN ms = 1..n
  BY <1>2, LenProperties
<1>4. \A p \in T : list[p] \in Range(ms)
  BY <1>2, <1>3 DEF Range
<1>5. \A name : IsNamed(ms, name) <=> \E p \in T : list[p].name = name
  BY <1>2, <1>3 DEF IsNamed
<1> QED
  BY <1>1, <1>2, <1>4, <1>5 DEF list, T, n

(* A method of an interface has its place in the interface's table.        *)
LEMMA IndexOfInterface ==
    ASSUME Ready, NEW d \in Classes, IsInterface(d), NEW p \in OfKind(d, "method")
    PROVE  /\ index[d][p] = Rank(OfKind(d, "method"), p) - 1
           /\ search_member_in_super(d, members[d][p].name) = NotFound
<1>1. Range(chain[d]) = {} /\ Range(interfaces[d]) = {}
  BY Hierarchy, Interfaces, RangeOf
<1>2. \A name : search_member_in_super(d, name) = NotFound
  BY <1>1, FindsAbove
<1>3. Fresh(d, "method") = OfKind(d, "method")
  BY <1>2 DEF Fresh
<1>4. Used(d, "method") = {}
  BY <1>1 DEF Used
<1>5. Largest({-1} \cup Used(d, "method")) = 0 - 1
  BY <1>4, LargestIs
<1>6. Rank(OfKind(d, "method"), p) \in Nat
  <2>1. OfKind(d, "method") \in SUBSET (1..Len(members[d])) /\ Len(members[d]) \in Nat
    BY KindsAre
  <2> DEFINE T == OfKind(d, "method")
  <2> HIDE DEF T
  <2>2. Rank(T, p) \in 1..Cardinality(T) /\ Cardinality(T) \in Nat
    BY <2>1, RankIs DEF T
  <2> QED BY <2>2 DEF T
<1>7. p \in Fresh(d, "method")
  BY <1>3
<1>8. index[d][p] = Largest({-1} \cup Used(d, "method")) + Rank(Fresh(d, "method"), p)
              \/ Largest({-1} \cup Used(d, "method")) \notin Int
  BY <1>7, IndexOfNew
<1>9. index[d][p] = (0 - 1) + Rank(OfKind(d, "method"), p)
  BY <1>3, <1>5, <1>8
<1> QED
  BY <1>2, <1>6, <1>9

-----------------------------------------------------------------------------
(* The slots of a class.                                                   *)
Slot == [name : Texts, index : {NoFunction} \cup (Classes \X Texts)]

LEMMA FunctionIs ==
    ASSUME Ready, NEW c \in Classes, NEW name \in Texts
    PROVE  Function(c, name) \in {NoFunction} \cup (Classes \X Texts)
  BY DEF Function

LEMMA SlotsAre ==
    ASSUME Ready, NEW c \in Classes, NEW ms \in Seq(DeclaredMembers)
    PROVE  /\ Slots(c, ms) \in Seq(Slot) /\ Len(Slots(c, ms)) = Len(ms)
           /\ \A i \in 1..Len(ms) : /\ Slots(c, ms)[i].name = ms[i].name
                                    /\ Slots(c, ms)[i].index = Function(c, ms[i].name)
<1>1. DOMAIN ms = 1..Len(ms) /\ Len(ms) \in Nat /\ \A i \in DOMAIN ms : ms[i] \in DeclaredMembers
  BY SeqIsAny
<1>2. \A i \in DOMAIN ms : ms[i].name \in Texts
  BY <1>1 DEF DeclaredMembers
<1>3. \A i \in DOMAIN ms : [name |-> ms[i].name, index |-> Function(c, ms[i].name)] \in Slot
  BY <1>2, FunctionIs DEF Slot
<1>4. Slots(c, ms) = [i \in 1..Len(ms) |-> [name |-> ms[i].name, index |-> Function(c, ms[i].name)]]
  BY <1>1 DEF Slots
<1>5. Slots(c, ms) \in [1..Len(ms) -> Slot]
  BY <1>1, <1>3, <1>4
<1>6. Slots(c, ms) \in Seq(Slot) /\ Len(Slots(c, ms)) = Len(ms)
  BY <1>1, <1>5, SeqDef, LenProperties
<1> QED
  BY <1>4, <1>6

LEMMA ReplacedAre ==
    ASSUME Ready, NEW c \in Classes, NEW inherited \in Seq(Slot)
    PROVE  /\ Replaced(c, inherited) \in Seq(Slot) /\ Len(Replaced(c, inherited)) = Len(inherited)
           /\ \A j \in 1..Len(inherited) :
                 LET slot == Replaced(c, inherited)[j]
                 IN  /\ slot.name = inherited[j].name
                     /\ slot.index = IF IsNamed(Methods(c), inherited[j].name)
                                     THEN Function(c, inherited[j].name) ELSE inherited[j].index
<1> DEFINE At(j) == IF IsNamed(Methods(c), inherited[j].name)
                    THEN [inherited[j] EXCEPT !.index = Function(c, inherited[j].name)]
                    ELSE inherited[j]
<1>1. DOMAIN inherited = 1..Len(inherited) /\ Len(inherited) \in Nat
      /\ \A j \in DOMAIN inherited : inherited[j] \in Slot
  BY SeqIsAny
<1>2. \A j \in DOMAIN inherited :
        /\ At(j) \in Slot /\ At(j).name = inherited[j].name
        /\ At(j).index = IF IsNamed(Methods(c), inherited[j].name)
                         THEN Function(c, inherited[j].name) ELSE inherited[j].index
  <2> SUFFICES ASSUME NEW j \in DOMAIN inherited
               PROVE  /\ At(j) \in Slot /\ At(j).name = inherited[j].name
                      /\ At(j).index = IF IsNamed(Methods(c), inherited[j].name)
                                       THEN Function(c, inherited[j].name) ELSE inherited[j].index
    OBVIOUS
  <2>1. inherited[j] \in Slot
    BY <1>1
  <2>2. Function(c, inherited[j].name) \in {NoFunction} \cup (Classes \X Texts)
    BY <2>1, FunctionIs DEF Slot
  <2> QED BY <2>1, <2>2 DEF Slot
<1>3. Replaced(c, inherited) = [j \in 1..Len(inherited) |-> At(j)]
  BY <1>1 DEF Replaced
<1> HIDE DEF At
<1>4. Replaced(c, inherited) \in [1..Len(inherited) -> Slot]
  BY <1>1, <1>2, <1>3
<1>5. Replaced(c, inherited) \in Seq(Slot) /\ Len(Replaced(c, inherited)) = Len(inherited)
  BY <1>1, <1>4, SeqDef, LenProperties
<1>6. \A j \in 1..Len(inherited) : Replaced(c, inherited)[j] = At(j)
  BY <1>3
<1> QED
  BY <1>1, <1>2, <1>5, <1>6

Below(c, n) ==
    \A s \in Range(Ancestry(c)) : \A q \in OfKind(s, "method") : index[s][q] \in Nat /\ index[s][q] < n

(* Every new method has a slot of its own, with its name, in the class and *)
(* in the sub classes; every slot has the function the class inherits.     *)
Slotted(c) ==
    /\ class[c] \in Seq(Slot) /\ Len(class[c]) \in Nat
    /\ \A s \in Range(Ancestry(c)) : \A q \in Fresh(s, "method") :
          /\ index[s][q] \in Nat /\ index[s][q] < Len(class[c])
          /\ class[c][index[s][q] + 1].name = members[s][q].name
    /\ Len(class[c]) # 0 =>
          \E s \in Range(Ancestry(c)) : \E q \in Fresh(s, "method") : index[s][q] = Len(class[c]) - 1
    /\ \A j \in 1..Len(class[c]) :
          /\ class[c][j].index = Implementation(c, class[c][j].name)
          /\ \E s \in Range(Ancestry(c)) : PositionIn(s, class[c][j].name) # 0
    /\ IsFiniteSet(NewMethods(c)) /\ Cardinality(NewMethods(c)) = Len(class[c])
    /\ SuperClass(c) # NoClass =>
          /\ Below(SuperClass(c), Len(class[SuperClass(c)]))
          /\ Len(class[SuperClass(c)]) \in Nat /\ Len(class[SuperClass(c)]) <= Len(class[c])
          /\ \A j \in 1..Len(class[SuperClass(c)]) : class[c][j].name = class[SuperClass(c)][j].name

LEMMA SelfAbove == ASSUME Ready PROVE \A x \in Classes : x \in Range(Ancestry(x))
<1> SUFFICES ASSUME NEW x \in Classes PROVE x \in Range(Ancestry(x))
  OBVIOUS
<1>1. Range(Ancestry(x)) = {x} \cup Range(chain[x])
  BY Hierarchy
<1> QED BY <1>1

(* What a class is: its supers, its interfaces and theirs.                 *)
LEMMA KindsAreOf ==
    ASSUME Ready, NEW c \in Classes
    PROVE  KindsOf(c) = Range(Ancestry(c)) \cup Range(interfaces[c])
<1>1. ASSUME NEW d \in Classes
      PROVE  {d} \cup Range(cs[d].extends) = {d} \cup Range(InterfacesIn(d)) \cup
                (IF SuperClass(d) = NoClass THEN {} ELSE {SuperClass(d)})
  <2>1. /\ Range(cs[d].extends) = Range(ClassesIn(d)) \cup Range(InterfacesIn(d))
        /\ d \in 1..Len(chain) /\ Tables
    BY ReadyIs, KindsExtended
  <2>2. /\ SuperClass(d) = NoClass => ClassesIn(d) = <<>>
        /\ SuperClass(d) # NoClass => ClassesIn(d) = <<SuperClass(d)>>
    BY <2>1, ChainIs
  <2>3. Range(ClassesIn(d)) = IF SuperClass(d) = NoClass THEN {} ELSE {SuperClass(d)}
    BY <2>2, RangeOf
  <2> QED BY <2>1, <2>3
<1>2. ASSUME NEW d \in Range(Ancestry(c)), SuperClass(d) # NoClass
      PROVE  SuperClass(d) \in Range(Ancestry(c))
  <2>1. d \in Classes /\ Range(Ancestry(d)) \subseteq Range(Ancestry(c))
    BY Hierarchy
  <2>2. SuperClass(d) \in Classes /\ Range(chain[d]) = Range(Ancestry(SuperClass(d)))
    BY <1>2, <2>1, Hierarchy
  <2>3. SuperClass(d) \in Range(Ancestry(SuperClass(d)))
    BY <2>2, SelfAbove
  <2>4. Range(chain[d]) \subseteq Range(Ancestry(d))
    BY <2>1, Hierarchy
  <2> QED BY <2>1, <2>2, <2>3, <2>4
<1>3. Range(interfaces[c]) =
                 Range(InterfacesIn(c)) \cup UNION {Range(interfaces[s]) : s \in Range(chain[c])}
  BY Interfaces
<1>4. \A d \in Range(Ancestry(c)) : d \in Classes /\ (d = c \/ d \in Range(chain[c]))
  BY Hierarchy
<1>5. \A d \in Classes : Range(InterfacesIn(d)) \subseteq Range(interfaces[d])
  BY Interfaces
<1>6. KindsOf(c) \subseteq Range(Ancestry(c)) \cup Range(interfaces[c])
  <2> SUFFICES ASSUME NEW d \in Range(Ancestry(c)), NEW x \in {d} \cup Range(cs[d].extends)
               PROVE  x \in Range(Ancestry(c)) \cup Range(interfaces[c])
    BY DEF KindsOf
  <2>1. x = d \/ x \in Range(InterfacesIn(d)) \/ (SuperClass(d) # NoClass /\ x = SuperClass(d))
    BY <1>1, <1>4
  <2> QED BY <1>2, <1>3, <1>4, <1>5, <2>1
<1>7. Range(Ancestry(c)) \subseteq KindsOf(c)
  BY DEF KindsOf
<1>8. \A d \in Range(Ancestry(c)) : Range(InterfacesIn(d)) \subseteq KindsOf(c)
  BY <1>1, <1>4 DEF KindsOf
<1>9. ASSUME NEW x \in Range(interfaces[c]) PROVE x \in KindsOf(c)
  <2> DEFINE Good(y) == Range(interfaces[y]) \subseteq UNION {Range(InterfacesIn(d)) : d \in Range(Ancestry(y))}
  <2>1. \A y \in Classes : Good(y)
    <3> DEFINE T == {y \in Classes : ~Good(y)}
    <3> SUFFICES ASSUME T # {} PROVE FALSE
      OBVIOUS
    <3>1. PICK y \in T : \A m \in T : y <= m
      <4>1. T \in SUBSET Nat
        BY ReadyIs
      <4> HIDE DEF T
      <4> QED BY <4>1, LeastOf
    <3>2. y \in Classes /\ y \in Nat /\ ~Good(y)
      BY ReadyIs
    <3>3. \A z \in Classes : z < y => z \notin T
      <4>1. \A z \in Classes : z \in Nat
        BY ReadyIs
      <4> QED BY <3>1, <3>2, <4>1
    <3>4. \A z \in Classes : z < y => Good(z)
      BY <3>3
    <3> HIDE DEF T
    <3>5. /\ Range(interfaces[y]) =
                 Range(InterfacesIn(y)) \cup UNION {Range(interfaces[s]) : s \in Range(chain[y])}
          /\ Range(Ancestry(y)) = {y} \cup Range(chain[y])
          /\ \A s \in Range(chain[y]) : s \in Classes /\ s < y
          /\ \A s \in Range(Ancestry(y)) : Range(Ancestry(s)) \subseteq Range(Ancestry(y))
      BY <3>2, Hierarchy, Interfaces
    <3>6. \A s \in Range(chain[y]) : Good(s) /\ Range(Ancestry(s)) \subseteq Range(Ancestry(y))
      BY <3>4, <3>5
    <3>7. Good(y)
      <4> SUFFICES ASSUME NEW w \in Range(interfaces[y])
                   PROVE  \E d \in Range(Ancestry(y)) : w \in Range(InterfacesIn(d))
        OBVIOUS
      <4>1. CASE w \in Range(InterfacesIn(y))
        BY <3>5, <4>1
      <4>2. CASE \E s \in Range(chain[y]) : w \in Range(interfaces[s])
        <5>1. PICK s \in Range(chain[y]) : w \in Range(interfaces[s])
          BY <4>2
        <5>2. \E d \in Range(Ancestry(s)) : w \in Range(InterfacesIn(d))
          BY <3>6, <5>1
        <5> QED BY <3>6, <5>2
      <4> QED BY <3>5, <4>1, <4>2
    <3> QED BY <3>2, <3>7
  <2>2. Good(c)
    BY <2>1
  <2>3. PICK d \in Range(Ancestry(c)) : x \in Range(InterfacesIn(d))
    BY <1>9, <2>2
  <2> QED BY <1>8, <2>3
<1> QED
  BY <1>6, <1>7, <1>9

(* In a class that is extended no method has an index past the table.      *)
LEMMA BelowSlots ==
    ASSUME Ready, Regular, NEW c \in Classes, NEW e \in Classes, c \in Range(chain[e]), Slotted(c)
    PROVE  Below(c, Len(class[c]))
<1> SUFFICES ASSUME NEW s \in Range(Ancestry(c)), NEW q \in OfKind(s, "method")
             PROVE  index[s][q] \in Nat /\ index[s][q] < Len(class[c])
  BY DEF Below
<1> DEFINE n == Len(class[c])
           d == SuperClass(c)
<1>1. /\ Range(Ancestry(c)) = {c} \cup Range(chain[c])
      /\ d # NoClass => d \in Classes /\ Range(chain[c]) = Range(Ancestry(d))
      /\ d = NoClass => Range(chain[c]) = {}
  BY Hierarchy
<1>2. n \in Nat /\ (d # NoClass => Below(d, Len(class[d])) /\ Len(class[d]) \in Nat /\ Len(class[d]) <= n)
  BY DEF Slotted
<1> HIDE DEF d, n
<1>3. ASSUME NEW t \in Range(chain[c]), NEW r \in OfKind(t, "method")
      PROVE  index[t][r] \in Nat /\ index[t][r] < n
  <2>1. d # NoClass /\ t \in Range(Ancestry(d))
    BY <1>1
  <2>2. /\ index[t][r] \in Nat /\ index[t][r] < Len(class[d])
        /\ Len(class[d]) \in Nat /\ Len(class[d]) <= n
    BY <1>2, <2>1 DEF Below
  <2> QED BY <1>2, <2>2
<1>4. CASE s \in Range(chain[c])
  BY <1>3, <1>4 DEF n
<1>5. CASE s = c
  <2>1. CASE search_member_in_super(c, members[c][q].name) = NotFound
    <3>1. q \in Fresh(s, "method")
      BY <1>5, <2>1 DEF Fresh
    <3> QED BY <3>1 DEF Slotted
  <2>2. CASE search_member_in_super(c, members[c][q].name) # NotFound
    <3> DEFINE found == search_member_in_super(c, members[c][q].name)
    <3>1. q \in DOMAIN members[c]
      BY <1>5 DEF OfKind
    <3>2. /\ index[c][q] = index[found.class][found.position]
          /\ found.position \in OfKind(found.class, "method")
          /\ found.class \in Classes
          /\ found.class \in Range(chain[c]) \cup Range(interfaces[c])
      BY <2>2, <3>1, IndexOfOverride
    <3> HIDE DEF found
    <3>3. CASE found.class \in Range(chain[c])
      BY <1>3, <1>5, <3>2, <3>3 DEF n
    <3>4. CASE found.class \in Range(interfaces[c])
      <4> DEFINE b == found.class
                 p == found.position
                 T == OfKind(b, "method")
      <4>1. IsInterface(b) /\ b \in KindsOf(c)
        BY <3>4, Interfaces, KindsAreOf
      <4>2. index[b][p] = Rank(T, p) - 1 /\ Rank(T, p) \in 1..Len(Methods(b)) /\ Len(Methods(b)) \in Nat
        BY <3>2, <4>1, IndexOfInterface, MethodsAre
      <4>3. Len(Methods(b)) <= Cardinality(NewMethods(c))
        BY <4>1, RegularIs DEF NoGaps
      <4>4. Cardinality(NewMethods(c)) = n
        BY DEF Slotted, n
      <4> HIDE DEF b, p, T
      <4>5. index[b][p] \in Nat /\ index[b][p] < n
        BY <1>2, <4>2, <4>3, <4>4
      <4> QED BY <1>5, <3>2, <4>5 DEF b, p, n
    <3> QED BY <3>2, <3>3, <3>4
  <2> QED BY <2>1, <2>2
<1> QED
  BY <1>1, <1>4, <1>5

(* The names of the slots a class adds are those of its new methods.       *)
LEMMA AddedAre ==
    ASSUME Ready, Regular, NEW c \in Classes, NEW inherited \in Seq(Slot),
           \A j \in 1..Len(inherited) :
              \E s \in Range(chain[c]) : PositionIn(s, inherited[j].name) # 0
    PROVE  /\ Added(c, inherited) \in Seq(Slot)
           /\ Len(Added(c, inherited)) = Cardinality(Fresh(c, "method"))
           /\ \A p \in Fresh(c, "method") :
                 Added(c, inherited)[Rank(Fresh(c, "method"), p)].name = members[c][p].name
           /\ \A i \in 1..Cardinality(Fresh(c, "method")) :
                 \E p \in Fresh(c, "method") :
                    /\ Rank(Fresh(c, "method"), p) = i
                    /\ Added(c, inherited)[i].name = members[c][p].name
                    /\ Added(c, inherited)[i].index = Function(c, members[c][p].name)
<1> DEFINE list == members[c]
           T == {p \in OfKind(c, "method") : ~IsNamed(inherited, list[p].name) /\ ~list[p].override}
           N == Fresh(c, "method")
<1>1. T = N
  <2>1. {q \in OfKind(c, "method") : ~list[q].override} = N
    BY NewArePlain
  <2>2. ASSUME NEW p \in N PROVE ~IsNamed(inherited, list[p].name)
    <3>1. search_member_in_super(c, list[p].name) = NotFound
      BY DEF Fresh
    <3>2. \A s \in Range(chain[c]) : PositionIn(s, list[p].name) = 0
      BY <3>1, FindsAbove
    <3>3. DOMAIN inherited = 1..Len(inherited)
      BY LenProperties
    <3> QED BY <3>2, <3>3 DEF IsNamed
  <2> HIDE DEF N
  <2> QED BY <2>1, <2>2
<1>2. Added(c, inherited) = Slots(c, Selected(list, T))
  BY DEF Added
<1>3. list \in Seq(DeclaredMembers) /\ N \in SUBSET (1..Len(list))
  BY MembersAre, KindsAre
<1> HIDE DEF list, T, N
<1> DEFINE ms == Selected(list, N)
<1>4. /\ ms \in Seq(DeclaredMembers) /\ Len(ms) = Cardinality(N) /\ Cardinality(N) \in Nat
      /\ \A p \in N : Rank(N, p) \in 1..Cardinality(N) /\ ms[Rank(N, p)] = list[p]
      /\ \A i \in 1..Cardinality(N) : \E p \in N : Rank(N, p) = i /\ ms[i] = list[p]
  BY <1>3, SelectedIs
<1>5. Added(c, inherited) = Slots(c, ms)
  BY <1>1, <1>2
<1> HIDE DEF ms
<1>6. /\ Slots(c, ms) \in Seq(Slot) /\ Len(Slots(c, ms)) = Len(ms)
      /\ \A i \in 1..Len(ms) : /\ Slots(c, ms)[i].name = ms[i].name
                               /\ Slots(c, ms)[i].index = Function(c, ms[i].name)
  BY <1>4, SlotsAre
<1>7. \A p \in N : Slots(c, ms)[Rank(N, p)].name = list[p].name
  BY <1>4, <1>6
<1>8. \A i \in 1..Cardinality(N) : \E p \in N :
         /\ Rank(N, p) = i /\ Slots(c, ms)[i].name = list[p].name
         /\ Slots(c, ms)[i].index = Function(c, list[p].name)
  <2> SUFFICES ASSUME NEW i \in 1..Cardinality(N)
               PROVE  \E p \in N : /\ Rank(N, p) = i /\ Slots(c, ms)[i].name = list[p].name
                                   /\ Slots(c, ms)[i].index = Function(c, list[p].name)
    OBVIOUS
  <2>1. PICK p \in N : Rank(N, p) = i /\ ms[i] = list[p]
    BY <1>4
  <2> QED BY <1>4, <1>6, <2>1
<1> QED
  BY <1>4, <1>5, <1>6, <1>7, <1>8 DEF N, list

(* What a class declares is a method if something above it has the name.   *)
LEMMA NamedAsAbove ==
    ASSUME Ready, NEW c \in Classes, NEW name,
           \E s \in Range(chain[c]) \cup Range(interfaces[c]) : PositionIn(s, name) # 0
    PROVE  IsNamed(Methods(c), name) <=> PositionIn(c, name) # 0
<1>1. IsNamed(Methods(c), name) <=> \E p \in OfKind(c, "method") : members[c][p].name = name
  BY MethodsAre
<1>2. ASSUME NEW p \in OfKind(c, "method"), members[c][p].name = name PROVE PositionIn(c, name) # 0
  BY <1>2, Place DEF OfKind
<1>3. ASSUME PositionIn(c, name) # 0 PROVE \E p \in OfKind(c, "method") : members[c][p].name = name
  <2> DEFINE p == PositionIn(c, name)
  <2>1. p \in DOMAIN members[c] /\ members[c][p].name = name
    BY <1>3, Place
  <2>2. search_member_in_super(c, name) # NotFound
    BY FindsAbove
  <2> HIDE DEF p
  <2>3. members[c][p].kind = "method"
    BY <2>1, <2>2, IndexOfOverride
  <2> QED BY <2>1, <2>3 DEF OfKind
<1> QED
  BY <1>1, <1>2, <1>3

LEMMA NewCounted ==
    ASSUME Ready, Regular, NEW c \in Classes,
           SuperClass(c) # NoClass => IsFiniteSet(NewMethods(SuperClass(c)))
    PROVE  /\ IsFiniteSet(NewMethods(c))
           /\ Cardinality(NewMethods(c)) = Cardinality(Fresh(c, "method")) +
                 IF SuperClass(c) = NoClass THEN 0 ELSE Cardinality(NewMethods(SuperClass(c)))
<1> DEFINE d == SuperClass(c)
           Of(s) == {<<s, p>> : p \in Fresh(s, "method")}
           above == IF d = NoClass THEN {} ELSE NewMethods(d)
<1>1. /\ Range(Ancestry(c)) = {c} \cup Range(chain[c]) /\ c \notin Range(chain[c])
      /\ d # NoClass => d \in Classes /\ Range(chain[c]) = Range(Ancestry(d))
      /\ d = NoClass => Range(chain[c]) = {}
      /\ \A s \in Range(Ancestry(c)) : s \in Classes
  BY Hierarchy
<1>2. \A x \in Classes :
        NewMethods(x) = UNION {{<<s, p>> : p \in {q \in OfKind(s, "method") : ~members[s][q].override}} :
                               s \in Range(Ancestry(x))}
  BY DEF NewMethods
<1>3. \A s \in Range(Ancestry(c)) : {q \in OfKind(s, "method") : ~members[s][q].override} = Fresh(s, "method")
  BY <1>1, NewArePlain
<1> HIDE DEF d
<1>4. \A x : x \in NewMethods(c) <=> \E s \in Range(Ancestry(c)) : x \in Of(s)
  BY <1>2, <1>3
<1>5. d # NoClass => \A x : x \in NewMethods(d) <=> \E s \in Range(chain[c]) : x \in Of(s)
  BY <1>1, <1>2, <1>3
<1>6. \A x : x \in above <=> \E s \in Range(chain[c]) : x \in Of(s)
  BY <1>1, <1>5
<1> DEFINE N == Fresh(c, "method")
           f == [p \in N |-> <<c, p>>]
<1>7. \A x \in Of(c) : x[1] = c
  OBVIOUS
<1>8. \A s : \A x \in Of(s) : x[1] = s
  OBVIOUS
<1>9. Of(c) = {f[p] : p \in N}
  OBVIOUS
<1> HIDE DEF Of, above
<1>10. NewMethods(c) = Of(c) \cup above /\ Of(c) \cap above = {}
  BY <1>1, <1>4, <1>6, <1>8
<1>11. IsFiniteSet(N) /\ Cardinality(N) \in Nat
  BY KindsAre, RankIs
<1>12. IsFiniteSet(Of(c)) /\ Cardinality(Of(c)) = Cardinality(N)
  <2>1. f \in [N -> Of(c)]
    BY <1>9
  <2>2. f \in Bijection(N, Of(c))
    BY <1>9, <2>1 DEF Bijection, Injection, Surjection, IsInjective
  <2>3. ExistsBijection(N, Of(c))
    BY <2>2 DEF ExistsBijection
  <2> HIDE DEF N
  <2> QED BY <1>11, <2>3, FS_Bijection
<1>13. IsFiniteSet(above)
  BY FS_EmptySet DEF above, d
<1>14. Cardinality(above) = IF d = NoClass THEN 0 ELSE Cardinality(NewMethods(d))
  BY FS_EmptySet DEF above
<1>15. /\ IsFiniteSet(NewMethods(c))
       /\ Cardinality(NewMethods(c)) = Cardinality(Of(c)) + Cardinality(above) - Cardinality({})
  BY <1>10, <1>12, <1>13, FS_Union
<1>16. Cardinality({}) = 0 /\ Cardinality(above) \in Nat
  BY <1>13, FS_EmptySet, FS_CardinalityType
<1> QED
  BY <1>11, <1>12, <1>14, <1>15, <1>16 DEF d, N

LEMMA SlotsRight == ASSUME Ready, Regular PROVE \A c \in Classes : Slotted(c)
<1> DEFINE T == {c \in Classes : ~Slotted(c)}
<1> SUFFICES ASSUME T # {} PROVE FALSE
  OBVIOUS
<1>1. Classes \subseteq Nat
  BY ReadyIs
<1>2. PICK c \in T : \A m \in T : c <= m
  <2>1. T \in SUBSET Nat
    BY <1>1
  <2> HIDE DEF T
  <2> QED BY <2>1, LeastOf
<1>3. c \in Classes /\ c \in Nat /\ ~Slotted(c)
  BY <1>1
<1>4. \A d \in Classes : d < c => Slotted(d)
  <2>1. \A d \in Classes : d < c => d \notin T
    BY <1>1, <1>2
  <2> QED BY <2>1
<1> HIDE DEF T
<1> DEFINE d == SuperClass(c)
           base == Inherited(c)
           n == Len(base)
           N == Fresh(c, "method")
           k == Cardinality(N)
           used == Used(c, "method")
           all == class[c]
           left == Replaced(c, base)
           right == Added(c, base)
<1>5. all = left \o right
  <2>1. LoadedAs(c)
    BY <1>3, ReadyIs
  <2> QED BY <2>1 DEF LoadedAs
<1>6. /\ Range(Ancestry(c)) = {c} \cup Range(chain[c])
      /\ d = NoClass => Range(chain[c]) = {}
      /\ d # NoClass => d \in Classes /\ d < c /\ Range(chain[c]) = Range(Ancestry(d)) /\ d \in Range(chain[c])
  <2>1. /\ Range(Ancestry(c)) = {c} \cup Range(chain[c])
        /\ d = NoClass => Range(chain[c]) = {}
        /\ d # NoClass => d \in Classes /\ d < c /\ Range(chain[c]) = Range(Ancestry(d))
    BY <1>3, Hierarchy
  <2> QED BY <2>1, SelfAbove
<1> HIDE DEF d
<1>7. d # NoClass => Slotted(d) /\ Below(d, Len(class[d])) /\ base = class[d]
  <2>1. ASSUME d # NoClass PROVE Slotted(d) /\ Below(d, Len(class[d]))
    BY <1>3, <1>4, <1>6, <2>1, BelowSlots
  <2>2. d # NoClass => base = class[d]
    BY DEF Inherited, d
  <2> QED BY <2>1, <2>2
<1>8. d = NoClass => base = <<>> /\ n = 0
  <2>1. d = NoClass => base = <<>>
    BY DEF Inherited, d
  <2> HIDE DEF base
  <2> QED BY <2>1, EmptySeq
<1> HIDE DEF base
<1>9. base \in Seq(Slot) /\ n \in Nat
  BY <1>7, <1>8, EmptySeq DEF Slotted
<1>10. \A s \in Range(chain[c]) : \A q \in Fresh(s, "method") :
          index[s][q] \in Nat /\ index[s][q] < n /\ base[index[s][q] + 1].name = members[s][q].name
  BY <1>6, <1>7 DEF Slotted
<1>11. n # 0 => \E s \in Range(chain[c]) : \E q \in Fresh(s, "method") : index[s][q] = n - 1
  BY <1>6, <1>7, <1>8 DEF Slotted
<1>12. \A j \in 1..n : \E s \in Range(chain[c]) : PositionIn(s, base[j].name) # 0
  BY <1>6, <1>7, <1>8 DEF Slotted
<1>13. \A s \in Range(chain[c]) : \A q \in OfKind(s, "method") : index[s][q] \in Nat /\ index[s][q] < n
  BY <1>6, <1>7 DEF Below
<1>14. \A j \in 1..n : d # NoClass /\ base[j].index = Implementation(d, base[j].name)
  BY <1>7, <1>8 DEF Slotted
<1>15. /\ left \in Seq(Slot) /\ Len(left) = n
       /\ \A j \in 1..n : /\ left[j].name = base[j].name
                          /\ left[j].index = IF IsNamed(Methods(c), base[j].name)
                                             THEN Function(c, base[j].name) ELSE base[j].index
  BY <1>3, <1>9, ReplacedAre
<1>16. /\ right \in Seq(Slot) /\ Len(right) = k
       /\ \A p \in N : right[Rank(N, p)].name = members[c][p].name
       /\ \A i \in 1..k : \E p \in N :
             Rank(N, p) = i /\ right[i].name = members[c][p].name
             /\ right[i].index = Function(c, members[c][p].name)
  BY <1>3, <1>9, <1>12, AddedAre
<1> HIDE DEF left, right, n
<1>17. /\ all \in Seq(Slot) /\ Len(all) = n + k
       /\ \A i \in 1..n : all[i] = left[i]
       /\ \A i \in 1..k : all[n + i] = right[i]
  <2> HIDE DEF all, k
  <2>1. left \in Seq(Slot) /\ right \in Seq(Slot) /\ Len(left) = n /\ Len(right) = k /\ all = left \o right
    BY <1>5, <1>15, <1>16
  <2>2. /\ all \in Seq(Slot) /\ Len(all) = Len(left) + Len(right)
        /\ \A i \in 1..Len(left) : all[i] = left[i]
        /\ \A i \in 1..Len(right) : all[Len(left) + i] = right[i]
    <3>1. left \in Seq(Slot) /\ right \in Seq(Slot) /\ all = left \o right
      BY <2>1
    <3> QED BY ONLY <3>1
  <2> QED BY <2>1, <2>2
<1>18. N \in SUBSET (1..Len(members[c])) /\ Len(members[c]) \in Nat
  BY <1>3, KindsAre
<1>19. /\ k \in Nat /\ \A p \in N : Rank(N, p) \in 1..k
       /\ \A i \in 1..k : \E p \in N : Rank(N, p) = i
  <2> HIDE DEF N
  <2> QED BY <1>18, RankIs
<1>20. Largest({-1} \cup used) = n - 1
  <2>1. /\ \A u \in used : u \in Nat /\ u < n
        /\ n # 0 => n - 1 \in used
    BY <1>11, <1>13 DEF Used, Fresh
  <2> HIDE DEF used
  <2> QED BY <1>9, <2>1, LargestIs DEF n
<1>21. \A p \in N : index[c][p] = n - 1 + Rank(N, p)
  <2> SUFFICES ASSUME NEW p \in N PROVE index[c][p] = n - 1 + Rank(N, p)
    OBVIOUS
  <2>1. index[c][p] = Largest({-1} \cup used) + Rank(N, p) \/ Largest({-1} \cup used) \notin Int
    BY <1>3, IndexOfNew
  <2>2. n \in Nat
    BY <1>9 DEF n
  <2> HIDE DEF N, used
  <2> QED BY <1>20, <2>1, <2>2
<1>22. \A s \in Range(Ancestry(c)) : \A q \in Fresh(s, "method") :
          /\ index[s][q] \in Nat /\ index[s][q] < Len(all)
          /\ all[index[s][q] + 1].name = members[s][q].name
  <2> SUFFICES ASSUME NEW s \in Range(Ancestry(c)), NEW q \in Fresh(s, "method")
               PROVE  /\ index[s][q] \in Nat /\ index[s][q] < Len(all)
                      /\ all[index[s][q] + 1].name = members[s][q].name
    OBVIOUS
  <2>0. n \in Nat
    BY <1>9 DEF n
  <2>1. CASE s \in Range(chain[c])
    <3>1. index[s][q] \in Nat /\ index[s][q] < n /\ base[index[s][q] + 1].name = members[s][q].name
      BY <1>10, <2>1
    <3>2. index[s][q] + 1 \in 1..n
      BY <2>0, <3>1
    <3> HIDE DEF all, k
    <3> QED BY <1>15, <1>17, <1>19, <2>0, <3>1, <3>2
  <2>2. CASE s = c
    <3> DEFINE r == Rank(N, q)
    <3>1. r \in 1..k /\ right[r].name = members[c][q].name /\ index[c][q] = n - 1 + r
      BY <1>16, <1>19, <1>21, <2>2
    <3> HIDE DEF r, all, k
    <3>2. index[c][q] + 1 = n + r
      BY <1>19, <2>0, <3>1
    <3>3. index[c][q] \in Nat /\ index[c][q] < n + k
      BY <1>19, <2>0, <3>1
    <3> QED BY <1>17, <2>2, <3>1, <3>2, <3>3
  <2> QED BY <1>6, <2>1, <2>2
<1>23. ASSUME Len(all) # 0
       PROVE  \E s \in Range(Ancestry(c)) : \E q \in Fresh(s, "method") : index[s][q] = Len(all) - 1
  <2>0. n \in Nat
    BY <1>9 DEF n
  <2>1. CASE k = 0
    <3>1. Len(all) = n
      <4> HIDE DEF all, k
      <4> QED BY <1>17, <2>0, <2>1
    <3> HIDE DEF all
    <3> QED BY <1>6, <1>11, <1>23, <3>1
  <2>2. CASE k # 0
    <3>1. PICK p \in N : Rank(N, p) = k
      BY <1>19, <2>2
    <3>2. index[c][p] = n - 1 + k
      BY <1>21, <3>1
    <3>3. index[c][p] = Len(all) - 1
      <4> HIDE DEF all, k
      <4> QED BY <1>17, <1>19, <2>0, <3>2
    <3> QED BY <1>6, <3>3
  <2> QED BY <2>1, <2>2
<1>24. ASSUME NEW j \in 1..n
       PROVE  all[j].name = base[j].name /\ all[j].index = Implementation(c, all[j].name)
  <2>1. /\ all[j] = left[j] /\ left[j].name = base[j].name
        /\ left[j].index = IF IsNamed(Methods(c), base[j].name)
                           THEN Function(c, base[j].name) ELSE base[j].index
    BY <1>15, <1>17
  <2>2. IsNamed(Methods(c), base[j].name) <=> PositionIn(c, base[j].name) # 0
    BY <1>3, <1>12, NamedAsAbove
  <2>3. Implementation(c, base[j].name) =
              IF PositionIn(c, base[j].name) # 0 THEN Function(c, base[j].name)
              ELSE IF d = NoClass THEN NoFunction
              ELSE Implementation(d, base[j].name)
    BY <1>3, ImplementationIs DEF d
  <2> HIDE DEF all
  <2> QED BY <1>14, <2>1, <2>2, <2>3
<1>25. ASSUME NEW i \in 1..k
       PROVE  /\ all[n + i].index = Implementation(c, all[n + i].name)
              /\ PositionIn(c, all[n + i].name) # 0
  <2>1. PICK p \in N : right[i].name = members[c][p].name /\ right[i].index = Function(c, members[c][p].name)
    BY <1>16
  <2>2. PositionIn(c, members[c][p].name) # 0
    <3>1. p \in DOMAIN members[c]
      BY DEF Fresh, OfKind
    <3> QED BY <1>3, <3>1, Place
  <2>3. Implementation(c, members[c][p].name) = Function(c, members[c][p].name)
    BY <1>3, <2>2, ImplementationIs
  <2>4. all[n + i] = right[i]
    BY <1>17
  <2> HIDE DEF all
  <2> QED BY <2>1, <2>2, <2>3, <2>4
<1>26. \A j \in 1..Len(all) :
          /\ all[j].index = Implementation(c, all[j].name)
          /\ \E s \in Range(Ancestry(c)) : PositionIn(s, all[j].name) # 0
  <2> SUFFICES ASSUME NEW j \in 1..Len(all)
               PROVE  /\ all[j].index = Implementation(c, all[j].name)
                      /\ \E s \in Range(Ancestry(c)) : PositionIn(s, all[j].name) # 0
    OBVIOUS
  <2>0. n \in Nat /\ k \in Nat /\ Len(all) = n + k
    BY <1>9, <1>17, <1>19 DEF n
  <2>1. CASE j \in 1..n
    <3>1. all[j].name = base[j].name /\ all[j].index = Implementation(c, all[j].name)
      BY <1>24, <2>1
    <3>2. \E s \in Range(chain[c]) : PositionIn(s, base[j].name) # 0
      BY <1>12, <2>1
    <3> HIDE DEF all
    <3> QED BY <1>6, <3>1, <3>2
  <2>2. CASE j \notin 1..n
    <3>1. j - n \in 1..k /\ j = n + (j - n)
      <4> HIDE DEF all, k
      <4> QED BY <2>0, <2>2
    <3>2. all[j].index = Implementation(c, all[j].name) /\ PositionIn(c, all[j].name) # 0
      BY <1>25, <3>1
    <3> HIDE DEF all
    <3> QED BY <1>6, <3>2
  <2> QED BY <2>1, <2>2
<1>27. IsFiniteSet(NewMethods(c)) /\ Cardinality(NewMethods(c)) = Len(all)
  <2>0. n \in Nat /\ k \in Nat /\ Len(all) = n + k
    BY <1>9, <1>17, <1>19 DEF n
  <2>1. d # NoClass => IsFiniteSet(NewMethods(d)) /\ Cardinality(NewMethods(d)) = n
    BY <1>7 DEF Slotted, n
  <2>2. /\ IsFiniteSet(NewMethods(c))
        /\ Cardinality(NewMethods(c)) = k + IF d = NoClass THEN 0 ELSE Cardinality(NewMethods(d))
    BY <1>3, <2>1, NewCounted DEF d
  <2> HIDE DEF all, k
  <2> QED BY <1>8, <2>0, <2>1, <2>2
<1>28. d # NoClass =>
          /\ Below(d, Len(class[d])) /\ Len(class[d]) \in Nat /\ Len(class[d]) <= Len(all)
          /\ \A j \in 1..Len(class[d]) : all[j].name = class[d][j].name
  <2>0. n \in Nat /\ k \in Nat /\ Len(all) = n + k
    BY <1>9, <1>17, <1>19 DEF n
  <2>1. d # NoClass => Len(class[d]) = n /\ Below(d, Len(class[d])) /\ base = class[d]
    BY <1>7 DEF n
  <2>2. n <= Len(all)
    <3> HIDE DEF all, k
    <3> QED BY <2>0
  <2> HIDE DEF all
  <2> QED BY <1>24, <2>0, <2>1, <2>2
<1>29. Slotted(c)
  <2>1. Len(all) \in Nat
    BY <1>17, LenProperties
  <2> QED BY <1>17, <1>22, <1>23, <1>26, <1>27, <1>28, <2>1 DEF Slotted, d
<1> QED
  BY <1>3, <1>29

=============================================================================
