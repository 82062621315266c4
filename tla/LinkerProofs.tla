---------------------------- MODULE LinkerProofs ----------------------------
(***************************************************************************)
(* Theorems about Linker, for all programs and any nesting of calls, and   *)
(* the lemmas they rest on about its operators: what Only keeps of a       *)
(* sequence, what Index finds in a table, and which names the tables of    *)
(* functions and constants of a unit hold.                                 *)
(*                                                                         *)
(* The induction theorems of the library take an operator as parameter,    *)
(* which the provers cannot instantiate; an induction is therefore made by *)
(* taking the least counterexample (LeastElement).                         *)
(***************************************************************************)
EXTENDS Linker, WellFoundedInduction, SequenceTheorems, FiniteSetTheorems, TLAPS

(* A nonempty set of naturals has a least element.                         *)
LEMMA LeastElement ==
    ASSUME NEW T \in SUBSET Nat, T # {}
    PROVE  \E n \in T : \A m \in T : n <= m
<1> DEFINE R == OpToRel(<, Nat)
<1>1. \A x, y \in Nat : <<y, x>> \in R <=> y < x
  BY DEF OpToRel
<1>2. IsWellFoundedOn(R, Nat)
  BY NatLessThanWellFounded
<1> HIDE DEF R
<1>3. PICK x \in T : \A y \in T : ~ (<<y, x>> \in R)
  BY <1>2, WFMin
<1>4. \A y \in T : y \in Nat /\ x \in Nat /\ ~ (y < x)
  BY <1>1, <1>3
<1>5. \A y \in T : x <= y
  BY <1>4
<1> QED
  BY <1>5

-----------------------------------------------------------------------------
(* The function that Only is defined with.                                 *)
IsKept(f, n, seq, positions) ==
    f = [i \in 0..n |->
            IF i = 0 THEN <<>>
            ELSE IF i \in positions THEN Append(f[i - 1], seq[i]) ELSE f[i - 1]]

(* It exists for every length.                                             *)
LEMMA KeptExists ==
    ASSUME NEW seq, NEW positions, NEW n \in Nat
    PROVE  \E f : IsKept(f, n, seq, positions)
<1> DEFINE Has(m) == \E f : IsKept(f, m, seq, positions)
           Lacking == {m \in Nat : ~Has(m)}
<1>1. Has(0)
  <2>1. IsKept([i \in 0..0 |-> <<>>], 0, seq, positions)
    BY DEF IsKept
  <2> QED BY <2>1
<1>2. ASSUME NEW m \in Nat, Has(m)
      PROVE  Has(m + 1)
  <2>1. PICK f : IsKept(f, m, seq, positions)
    BY <1>2
  <2> DEFINE last == IF m + 1 \in positions THEN Append(f[m], seq[m + 1]) ELSE f[m]
             g == [i \in 0..(m + 1) |-> IF i = m + 1 THEN last ELSE f[i]]
             h == [i \in 0..(m + 1) |->
                     IF i = 0 THEN <<>>
                     ELSE IF i \in positions THEN Append(g[i - 1], seq[i]) ELSE g[i - 1]]
  <2>2. ASSUME NEW i \in 0..(m + 1)
        PROVE  g[i] = h[i]
    <3>1. CASE i = m + 1
      <4>1. i - 1 = m /\ m \in 0..(m + 1) /\ m # m + 1 /\ i # 0
        BY <3>1
      <4>2. g[i - 1] = f[m]
        BY <4>1
      <4> HIDE DEF g
      <4>3. g[i] = last
        BY <3>1 DEF g
      <4> QED BY <3>1, <4>1, <4>2, <4>3
    <3>2. CASE i # m + 1
      <4>1. i \in 0..m /\ g[i] = f[i]
        BY <3>2
      <4>2. f[i] = IF i = 0 THEN <<>>
                   ELSE IF i \in positions THEN Append(f[i - 1], seq[i]) ELSE f[i - 1]
        BY <2>1, <4>1 DEF IsKept
      <4>3. i # 0 => g[i - 1] = f[i - 1]
        BY <4>1
      <4> HIDE DEF g
      <4> QED BY <4>1, <4>2, <4>3
    <3> QED BY <3>1, <3>2
  <2>3. g = h
    BY <2>2
  <2>4. IsKept(g, m + 1, seq, positions)
    BY <2>3 DEF IsKept
  <2> QED BY <2>4
<1>3. Lacking = {}
  <2> SUFFICES ASSUME Lacking # {} PROVE FALSE
    OBVIOUS
  <2> HIDE DEF Has
  <2>1. PICK m \in Lacking : \A k \in Lacking : m <= k
    BY LeastElement
  <2>2. m \in Nat \ {0} /\ ~Has(m)
    BY <2>1, <1>1
  <2>3. Has(m - 1)
    BY <2>1, <2>2
  <2>4. m - 1 \in Nat /\ (m - 1) + 1 = m
    BY <2>2
  <2> QED BY <1>2, <2>2, <2>3, <2>4
<1> QED BY <1>3

LEMMA OnlyKept ==
    ASSUME NEW S, NEW seq \in Seq(S), NEW positions
    PROVE  \E f : IsKept(f, Len(seq), seq, positions) /\ Only(seq, positions) = f[Len(seq)]
<1> DEFINE f == CHOOSE h : IsKept(h, Len(seq), seq, positions)
<1>1. Only(seq, positions) = f[Len(seq)]
  BY DEF Only, IsKept
<1>2. IsKept(f, Len(seq), seq, positions)
  BY KeptExists
<1> QED BY <1>1, <1>2

(* Only keeps exactly the elements at the positions.                       *)
LEMMA OnlyRange ==
    ASSUME NEW S, NEW seq \in Seq(S), NEW positions
    PROVE  /\ Only(seq, positions) \in Seq(S)
           /\ \A i \in DOMAIN Only(seq, positions) :
                \E j \in DOMAIN seq : j \in positions /\ Only(seq, positions)[i] = seq[j]
           /\ \A j \in DOMAIN seq : j \in positions =>
                \E i \in DOMAIN Only(seq, positions) : Only(seq, positions)[i] = seq[j]
<1>1. PICK f : IsKept(f, Len(seq), seq, positions) /\ Only(seq, positions) = f[Len(seq)]
  BY OnlyKept
<1> DEFINE Right(n) ==
             /\ f[n] \in Seq(S)
             /\ \A i \in DOMAIN f[n] :
                  \E j \in 1..n : j \in positions /\ f[n][i] = seq[j]
             /\ \A j \in 1..n : j \in positions => \E i \in DOMAIN f[n] : f[n][i] = seq[j]
           Wrong == {n \in 0..Len(seq) : ~Right(n)}
<1>2. Len(seq) \in Nat /\ DOMAIN seq = 1..Len(seq)
  OBVIOUS
<1>3. f[0] = <<>>
  BY <1>1, <1>2 DEF IsKept
<1>4. Right(0)
  BY <1>3
<1>5. ASSUME NEW n \in Nat, n + 1 <= Len(seq), Right(n)
      PROVE  Right(n + 1)
  <2>1. n + 1 \in 0..Len(seq) /\ n + 1 # 0 /\ (n + 1) - 1 = n
    BY <1>2, <1>5
  <2>2. f[n + 1] = IF n + 1 \in positions THEN Append(f[n], seq[n + 1]) ELSE f[n]
    BY <1>1, <2>1 DEF IsKept
  <2>3. n + 1 \in DOMAIN seq /\ seq[n + 1] \in S
    BY <1>2, <1>5
  <2>4. CASE n + 1 \in positions
    <3>1. f[n + 1] = Append(f[n], seq[n + 1])
      BY <2>2, <2>4
    <3>2. /\ f[n + 1] \in Seq(S) /\ DOMAIN f[n + 1] = 1..(Len(f[n]) + 1)
          /\ DOMAIN f[n] = 1..Len(f[n]) /\ Len(f[n]) \in Nat
          /\ f[n + 1][Len(f[n]) + 1] = seq[n + 1]
          /\ \A i \in DOMAIN f[n] : f[n + 1][i] = f[n][i]
      BY <3>1, <2>3, <1>5
    <3>3. \A i \in DOMAIN f[n + 1] :
             \E j \in 1..(n + 1) : j \in positions /\ f[n + 1][i] = seq[j]
      <4> TAKE i \in DOMAIN f[n + 1]
      <4>1. CASE i = Len(f[n]) + 1
        BY <3>2, <4>1, <2>4, <1>5
      <4>2. CASE i # Len(f[n]) + 1
        <5>1. i \in DOMAIN f[n] /\ f[n + 1][i] = f[n][i]
          BY <3>2, <4>2
        <5>2. PICK j \in 1..n : j \in positions /\ f[n][i] = seq[j]
          BY <5>1, <1>5
        <5> QED BY <5>1, <5>2, <1>5
      <4> QED BY <4>1, <4>2
    <3>4. \A j \in 1..(n + 1) : j \in positions =>
             \E i \in DOMAIN f[n + 1] : f[n + 1][i] = seq[j]
      <4> TAKE j \in 1..(n + 1)
      <4>1. CASE j = n + 1
        <5>1. Len(f[n]) + 1 \in DOMAIN f[n + 1]
          BY <3>2
        <5> QED BY <3>2, <4>1, <5>1
      <4>2. CASE j # n + 1
        <5>1. j \in 1..n
          BY <4>2, <1>5
        <5>2. \A i \in DOMAIN f[n] : i \in DOMAIN f[n + 1] /\ f[n + 1][i] = f[n][i]
          BY <3>2
        <5> QED BY <5>1, <5>2, <1>5
      <4> QED BY <4>1, <4>2
    <3> QED BY <3>2, <3>3, <3>4
  <2>5. CASE n + 1 \notin positions
    <3>1. f[n + 1] = f[n]
      BY <2>2, <2>5
    <3>2. \A j \in 1..(n + 1) : j \in positions => j \in 1..n
      BY <2>5
    <3>3. 1..n \subseteq 1..(n + 1)
      OBVIOUS
    <3> QED BY <1>5, <3>1, <3>2, <3>3
  <2> QED BY <2>4, <2>5
<1>6. Wrong = {}
  <2> SUFFICES ASSUME Wrong # {} PROVE FALSE
    OBVIOUS
  <2> HIDE DEF Right
  <2>0. Wrong \in SUBSET Nat
    BY <1>2
  <2>1. PICK n \in Wrong : \A k \in Wrong : n <= k
    <3> HIDE DEF Wrong
    <3> QED BY <2>0, LeastElement
  <2>2. n \in Nat \ {0} /\ n <= Len(seq) /\ ~Right(n)
    BY <2>1, <1>2, <1>4
  <2>3. n - 1 \in Nat /\ (n - 1) + 1 = n
    BY <2>2
  <2>4. Right(n - 1)
    BY <2>1, <2>2, <2>3, <1>2
  <2> QED BY <1>5, <2>2, <2>3, <2>4
<1>7. Right(Len(seq))
  BY <1>2, <1>6
<1> QED BY <1>1, <1>2, <1>7

-----------------------------------------------------------------------------
(* Index finds the first entry of a name, or 0 if there is none.           *)
LEMMA IndexFinds ==
    ASSUME NEW S, NEW table \in Seq(S), NEW q
    PROVE  /\ Index(table, q) = 0 <=> \A k \in DOMAIN table : table[k].name # q
           /\ Index(table, q) # 0 => /\ Index(table, q) \in DOMAIN table
                                      /\ table[Index(table, q)].name = q
<1> DEFINE I == {i \in 1..Len(table) : table[i].name = q}
<1>1. Index(table, q) = IF I # {} THEN Min(I) ELSE 0
  BY DEF Index, SelectInSeq
<1>2. DOMAIN table = 1..Len(table) /\ Len(table) \in Nat
  OBVIOUS
<1>3. I \in SUBSET Nat /\ I \subseteq DOMAIN table
  BY <1>2
<1>4. CASE I = {}
  BY <1>1, <1>2, <1>4
<1>5. CASE I # {}
  <2>1. \E n \in I : \A m \in I : n <= m
    <3> HIDE DEF I
    <3> QED BY <1>3, <1>5, LeastElement
  <2>2. Min(I) \in I
    <3> HIDE DEF I
    <3> QED BY <2>1 DEF Min
  <2>3. Min(I) # 0
    BY <2>2
  <2> QED BY <1>1, <1>2, <1>5, <2>2, <2>3
<1> QED BY <1>4, <1>5

(* What is missing in a table are the names without an entry.              *)
LEMMA MissingNames ==
    ASSUME NEW S, NEW table \in Seq(S), NEW T, NEW names \in Seq(T)
    PROVE  /\ Missing(table, names) \in Seq(T)
           /\ \A i \in DOMAIN Missing(table, names) :
                /\ Missing(table, names)[i] \in Range(names)
                /\ \A k \in DOMAIN table : table[k].name # Missing(table, names)[i]
           /\ \A q \in Range(names) :
                \/ \E k \in DOMAIN table : table[k].name = q
                \/ q \in Range(Missing(table, names))
<1> DEFINE P == {i \in DOMAIN names : Index(table, names[i]) = 0}
<1>1. Missing(table, names) = Only(names, P)
  BY DEF Missing
<1>2. /\ Only(names, P) \in Seq(T)
      /\ \A i \in DOMAIN Only(names, P) :
            \E j \in DOMAIN names : j \in P /\ Only(names, P)[i] = names[j]
      /\ \A j \in DOMAIN names : j \in P =>
            \E i \in DOMAIN Only(names, P) : Only(names, P)[i] = names[j]
  <2> HIDE DEF P
  <2> QED BY OnlyRange
<1>3. \A q : /\ Index(table, q) = 0 => \A k \in DOMAIN table : table[k].name # q
             /\ Index(table, q) # 0 => \E k \in DOMAIN table : table[k].name = q
  BY IndexFinds
<1>4. ASSUME NEW i \in DOMAIN Only(names, P)
      PROVE  /\ Only(names, P)[i] \in Range(names)
             /\ \A k \in DOMAIN table : table[k].name # Only(names, P)[i]
  <2>1. PICK j \in DOMAIN names : j \in P /\ Only(names, P)[i] = names[j]
    BY <1>2
  <2>2. Index(table, names[j]) = 0
    BY <2>1
  <2> QED BY <2>1, <2>2, <1>3 DEF Range
<1>5. ASSUME NEW q \in Range(names)
      PROVE  \/ \E k \in DOMAIN table : table[k].name = q
             \/ q \in Range(Only(names, P))
  <2>1. PICK j \in DOMAIN names : q = names[j]
    BY DEF Range
  <2>2. CASE Index(table, q) = 0
    <3>1. j \in P
      BY <2>1, <2>2
    <3>2. PICK i \in DOMAIN Only(names, P) : Only(names, P)[i] = names[j]
      BY <1>2, <3>1
    <3> QED BY <2>1, <3>2 DEF Range
  <2>3. CASE Index(table, q) # 0
    BY <1>3, <2>3
  <2> QED BY <2>2, <2>3
<1> HIDE DEF P
<1> QED BY <1>1, <1>2, <1>4, <1>5

LEMMA ConcatElements ==
    ASSUME NEW S, NEW s \in Seq(S), NEW t \in Seq(S)
    PROVE  /\ s \o t \in Seq(S)
           /\ \A i \in DOMAIN (s \o t) :
                \/ \E j \in DOMAIN s : (s \o t)[i] = s[j]
                \/ \E j \in DOMAIN t : (s \o t)[i] = t[j]
           /\ \A j \in DOMAIN s : j \in DOMAIN (s \o t) /\ (s \o t)[j] = s[j]
           /\ \A j \in DOMAIN t : /\ Len(s) + j \in DOMAIN (s \o t)
                                  /\ (s \o t)[Len(s) + j] = t[j]
           /\ DOMAIN (s \o t) = 1..(Len(s) + Len(t))
<1>1. /\ s \o t \in Seq(S) /\ Len(s \o t) = Len(s) + Len(t)
      /\ Len(s) \in Nat /\ Len(t) \in Nat
      /\ DOMAIN s = 1..Len(s) /\ DOMAIN t = 1..Len(t)
      /\ DOMAIN (s \o t) = 1..(Len(s) + Len(t))
  OBVIOUS
<1>2. \A i \in 1..(Len(s) + Len(t)) :
         (s \o t)[i] = IF i <= Len(s) THEN s[i] ELSE t[i - Len(s)]
  OBVIOUS
<1>3. ASSUME NEW i \in DOMAIN (s \o t)
      PROVE  \/ \E j \in DOMAIN s : (s \o t)[i] = s[j]
             \/ \E j \in DOMAIN t : (s \o t)[i] = t[j]
  <2>1. CASE i <= Len(s)
    <3>1. i \in DOMAIN s
      BY <1>1, <2>1
    <3> QED BY <3>1, <1>1, <1>2, <2>1
  <2>2. CASE ~(i <= Len(s))
    <3>1. i - Len(s) \in DOMAIN t
      BY <1>1, <2>2
    <3> QED BY <3>1, <1>1, <1>2, <2>2
  <2> QED BY <2>1, <2>2, <1>1
<1>4. ASSUME NEW j \in DOMAIN t
      PROVE  /\ Len(s) + j \in DOMAIN (s \o t)
             /\ (s \o t)[Len(s) + j] = t[j]
  BY <1>1, <1>2
<1>5. ASSUME NEW j \in DOMAIN s
      PROVE  j \in DOMAIN (s \o t) /\ (s \o t)[j] = s[j]
  BY <1>1, <1>2
<1> QED BY <1>1, <1>3, <1>4, <1>5

(* A sequence used as a stack, with its top in front: its parts, another   *)
(* element for the top, one more on top.                                   *)
LEMMA StackParts ==
    ASSUME NEW S, NEW s \in Seq(S), s # <<>>
    PROVE  /\ Len(s) \in Nat \ {0} /\ DOMAIN s = 1..Len(s)
           /\ Head(s) = s[1] /\ Head(s) \in S
           /\ Tail(s) \in Seq(S) /\ Len(Tail(s)) = Len(s) - 1
           /\ \A i \in 1..(Len(s) - 1) : Tail(s)[i] = s[i + 1]
           /\ Len(s) > 1 => Tail(s) # <<>>
<1>1. /\ Len(s) \in Nat \ {0} /\ DOMAIN s = 1..Len(s)
      /\ Head(s) = s[1] /\ Head(s) \in S
      /\ Tail(s) \in Seq(S) /\ Len(Tail(s)) = Len(s) - 1
      /\ \A i \in 1..(Len(s) - 1) : Tail(s)[i] = s[i + 1]
  BY HeadTailProperties
<1> DEFINE t == Tail(s)
<1>2. t \in Seq(S) /\ Len(t) = Len(s) - 1
  BY <1>1
<1> HIDE DEF t
<1>3. Len(s) > 1 => t # <<>>
  BY <1>1, <1>2
<1> QED
  BY <1>1, <1>3 DEF t

LEMMA StackReplace ==
    ASSUME NEW S, NEW s \in Seq(S), s # <<>>, NEW e \in S
    PROVE  /\ <<e>> \o Tail(s) \in Seq(S) /\ Len(<<e>> \o Tail(s)) = Len(s)
           /\ <<e>> \o Tail(s) # <<>> /\ (<<e>> \o Tail(s))[1] = e
           /\ \A i \in 2..Len(s) : (<<e>> \o Tail(s))[i] = s[i]
<1>1. Tail(s) \in Seq(S) /\ Len(Tail(s)) = Len(s) - 1 /\ Len(s) \in Nat \ {0}
      /\ \A i \in 1..(Len(s) - 1) : Tail(s)[i] = s[i + 1]
  BY StackParts
<1>2. <<e>> \in Seq(S) /\ Len(<<e>>) = 1 /\ <<e>>[1] = e
  OBVIOUS
<1>3. /\ <<e>> \o Tail(s) \in Seq(S) /\ Len(<<e>> \o Tail(s)) = 1 + Len(Tail(s))
      /\ \A i \in 1..(1 + Len(Tail(s))) :
            (<<e>> \o Tail(s))[i] = IF i <= 1 THEN <<e>>[i] ELSE Tail(s)[i - 1]
  BY <1>1, <1>2, ConcatProperties
<1> QED
  BY <1>1, <1>2, <1>3

LEMMA StackPush ==
    ASSUME NEW S, NEW s \in Seq(S), NEW e \in S
    PROVE  /\ <<e>> \o s \in Seq(S) /\ Len(<<e>> \o s) = Len(s) + 1
           /\ <<e>> \o s # <<>> /\ (<<e>> \o s)[1] = e
           /\ \A i \in 1..Len(s) : (<<e>> \o s)[i + 1] = s[i]
<1>1. <<e>> \in Seq(S) /\ Len(<<e>>) = 1 /\ <<e>>[1] = e /\ Len(s) \in Nat
  OBVIOUS
<1>2. /\ <<e>> \o s \in Seq(S) /\ Len(<<e>> \o s) = 1 + Len(s)
      /\ \A i \in 1..(1 + Len(s)) :
            (<<e>> \o s)[i] = IF i <= 1 THEN <<e>>[i] ELSE s[i - 1]
  BY <1>1, ConcatProperties
<1> QED
  BY <1>1, <1>2

-----------------------------------------------------------------------------
(* What the tables of a unit hold.                                         *)

LEMMA UnitKinds ==
    /\ MainUnit \in Unit /\ MainUnit.package = Main /\ MainUnit.required = FALSE
    /\ \A p \in Package : /\ Header(p) \in Unit /\ Header(p).package = p
                           /\ Header(p).required = TRUE
                           /\ Implementation(p) \in Unit /\ Implementation(p).package = p
                           /\ Implementation(p).required = FALSE
    /\ \A u \in Unit : u = MainUnit \/ \E p \in Package : u \in {Header(p), Implementation(p)}
    /\ \A u \in Unit : u.package \in Package \cup {Main} /\ u.required \in BOOLEAN
    /\ \A p, q : Header(p) = Header(q) => p = q
<1>1. \A p, q : Header(p) = Header(q) => p = q
  <2> TAKE p, q
  <2>1. Header(p).package = p /\ Header(q).package = q
    BY DEF Header
  <2> QED BY <2>1
<1>2. \A p : /\ Header(p).package = p /\ Header(p).required = TRUE
             /\ Implementation(p).package = p /\ Implementation(p).required = FALSE
  BY DEF Header, Implementation
<1>3. MainUnit.package = Main /\ MainUnit.required = FALSE
  BY DEF MainUnit
<1>4. \A u \in Unit : u = MainUnit \/ \E p \in Package : u \in {Header(p), Implementation(p)}
  <2> HIDE DEF MainUnit, Header, Implementation
  <2> QED BY DEF Unit
<1>5. /\ MainUnit \in Unit
      /\ \A p \in Package : Header(p) \in Unit /\ Implementation(p) \in Unit
  BY DEF Unit
<1>6. \A u \in Unit : u.package \in Package \cup {Main} /\ u.required \in BOOLEAN
  <2> TAKE u \in Unit
  <2>1. CASE u = MainUnit
    BY <2>1, <1>3
  <2>2. CASE \E p \in Package : u \in {Header(p), Implementation(p)}
    BY <2>2, <1>2
  <2> QED BY <2>1, <2>2, <1>4
<1> QED
  BY <1>1, <1>2, <1>3, <1>4, <1>5, <1>6

LEMMA ProgramTypes ==
    ASSUME source \in Programs, NEW u \in Unit
    PROVE  /\ source.requires[u] \in Seq(Package)
           /\ source.functions[u] \in Seq(Declaration)
           /\ source.constants[u] \in Seq(Definition)
           /\ source.calls[u] \in Uses /\ source.reads[u] \in Uses
           /\ source.files \subseteq Unit
<1>1. source \in [requires : [Unit -> Seq(Package)], functions : [Unit -> Seq(Declaration)],
                  constants : [Unit -> Seq(Definition)], calls : [Unit -> Uses],
                  reads : [Unit -> Uses], files : SUBSET Unit]
  BY ProgramAssumption
<1> QED
  BY <1>1

LEMMA RequireListType ==
    ASSUME source \in Programs, NEW u \in Unit
    PROVE  /\ RequireList(u) \in Seq(Package)
           /\ \A p \in Range(RequireList(u)) : p \in Package
<1>1. source.requires[u] \in Seq(Package)
  BY ProgramTypes
<1>2. <<DefaultPackage>> \in Seq(Package)
  BY PackageAssumption
<1>3. RequireList(u) \in Seq(Package)
  BY <1>1, <1>2 DEF RequireList
<1> QED
  BY <1>3 DEF Range

(* The functions that u enters in its table under its own package.         *)
Declares(u, q) ==
    \E i \in DOMAIN source.functions[u] :
        /\ source.functions[u][i].class = NoName \/ source.functions[u][i].body
        /\ q = Qualified(u, source.functions[u][i])

LEMMA FunctionsDeclared ==
    ASSUME NEW u, NEW name \in Functions(u)
    PROVE  Declares(u, [package |-> u.package, class |-> NoName, name |-> name])
  BY DEF Functions, Declares, Qualified

LEMMA ImplementsDeclares ==
    ASSUME NEW u, NEW q, Implements(u, q)
    PROVE  Declares(u, q)
  BY DEF Implements, Declares

(* A name in sight is found in a unit in sight that declares it.           *)
LEMMA SearchFunctionFinds ==
    ASSUME source \in Programs, NEW u \in Unit, NEW name,
           \E v \in Visible(u) : name \in Functions(v)
    PROVE  \E v \in Visible(u) : name \in Functions(v) /\ SearchFunction(u, name) = v.package
<1>1. CASE name \in Functions(u)
  BY <1>1 DEF Visible, SearchFunction
<1>2. CASE name \notin Functions(u)
  <2> DEFINE reqs == RequireList(u)
             I == {i \in 1..Len(reqs) : name \in Functions(Header(reqs[i]))}
             k == SelectInSeq(reqs, LAMBDA p : name \in Functions(Header(p)))
  <2>0. reqs \in Seq(Package) /\ DOMAIN reqs = 1..Len(reqs) /\ Len(reqs) \in Nat
    BY RequireListType
  <2>1. k = IF I # {} THEN Min(I) ELSE 0
    BY DEF SelectInSeq
  <2>2. I # {}
    <3>1. PICK v \in Visible(u) : name \in Functions(v)
      OBVIOUS
    <3>2. PICK p \in Range(reqs) : v = Header(p)
      BY <1>2, <3>1 DEF Visible
    <3>3. PICK i \in DOMAIN reqs : p = reqs[i]
      BY <3>2 DEF Range
    <3> QED BY <2>0, <3>1, <3>2, <3>3
  <2>3. \E n \in I : \A m \in I : n <= m
    <3>1. I \in SUBSET Nat
      BY <2>0
    <3> HIDE DEF I
    <3> QED BY <3>1, <2>2, LeastElement
  <2>4. k \in I
    <3> HIDE DEF I
    <3> QED BY <2>1, <2>2, <2>3 DEF Min
  <2>5. SearchFunction(u, name) = reqs[k]
    BY <1>2 DEF SearchFunction
  <2> HIDE DEF k
  <2>6. reqs[k] \in Range(reqs) /\ reqs[k] \in Package
    BY <2>0, <2>4 DEF Range
  <2>7. Header(reqs[k]) \in Visible(u) /\ Header(reqs[k]).package = reqs[k]
    BY <2>6, UnitKinds DEF Visible
  <2>8. name \in Functions(Header(reqs[k]))
    BY <2>4
  <2> QED BY <2>5, <2>7, <2>8
<1> QED BY <1>1, <1>2

FunctionUse == [package : Package \cup {Main}, class : Identifier \cup {NoName}, name : Identifier,
                body : BOOLEAN]

(* An entry before the names are reserved: it stands for a function that   *)
(* some unit in sight declares, unless it is a method without a body.      *)
Stands(u, f) ==
    f.class = NoName \/ f.body =>
        \E v \in Visible(u) :
            Declares(v, [package |-> f.package, class |-> f.class, name |-> f.name])

LEMMA VisibleUnits ==
    ASSUME source \in Programs, NEW u \in Unit, NEW v \in Visible(u)
    PROVE  v \in Unit
  BY RequireListType, UnitKinds DEF Visible

LEMMA UsedStand ==
    ASSUME source \in Programs, NEW u \in Unit, NEW names \in Seq(Identifier),
           \A name \in Range(names) : \E v \in Visible(u) : name \in Functions(v)
    PROVE  /\ Used(u, names) \in Seq(FunctionUse)
           /\ \A i \in DOMAIN Used(u, names) : Stands(u, Used(u, names)[i])
<1>1. ASSUME NEW i \in DOMAIN names
      PROVE  /\ Used(u, names)[i] \in FunctionUse
             /\ Stands(u, Used(u, names)[i])
  <2>1. names[i] \in Identifier /\ names[i] \in Range(names)
    BY DEF Range
  <2>2. PICK v \in Visible(u) :
            names[i] \in Functions(v) /\ SearchFunction(u, names[i]) = v.package
    BY <2>1, SearchFunctionFinds
  <2>3. Used(u, names)[i] = [package |-> v.package, class |-> NoName, name |-> names[i],
                             body |-> TRUE]
    BY <2>2 DEF Used
  <2>4. v.package \in Package \cup {Main}
    BY VisibleUnits, UnitKinds
  <2>5. Declares(v, [package |-> v.package, class |-> NoName, name |-> names[i]])
    BY <2>2, FunctionsDeclared
  <2> DEFINE f == Used(u, names)[i]
  <2>6. f.package = v.package /\ f.class = NoName /\ f.name = names[i]
    BY <2>3
  <2>7. f \in FunctionUse
    BY <2>1, <2>3, <2>4 DEF FunctionUse
  <2> HIDE DEF f
  <2>8. Stands(u, f)
    BY <2>5, <2>6 DEF Stands
  <2> QED BY <2>7, <2>8 DEF f
<1>2. Used(u, names) = [i \in 1..Len(names) |-> Used(u, names)[i]] /\ Len(names) \in Nat
  BY DEF Used
<1>3. DOMAIN Used(u, names) = DOMAIN names /\ DOMAIN names = 1..Len(names)
  BY DEF Used
<1>4. Used(u, names) \in Seq(FunctionUse)
  BY <1>1, <1>2, <1>3, IsASeq
<1> QED BY <1>1, <1>3, <1>4

LEMMA OwnStand ==
    ASSUME source \in Programs, NEW u \in Unit
    PROVE  /\ Own(u) \in Seq(FunctionUse)
           /\ \A i \in DOMAIN Own(u) : Stands(u, Own(u)[i])
           /\ DOMAIN Own(u) = DOMAIN source.functions[u]
<1> DEFINE fs == source.functions[u]
<1>1. fs \in Seq(Declaration) /\ DOMAIN fs = 1..Len(fs) /\ Len(fs) \in Nat
  BY ProgramTypes
<1>2. ASSUME NEW i \in DOMAIN fs
      PROVE  Own(u)[i] \in FunctionUse /\ Stands(u, Own(u)[i])
  <2>1. fs[i] \in Declaration
    BY <1>1
  <2>2. Own(u)[i] = [package |-> u.package, class |-> fs[i].class, name |-> fs[i].name,
                     body |-> fs[i].body]
    BY DEF Own
  <2>3. u.package \in Package \cup {Main}
    BY UnitKinds
  <2>4. Own(u)[i] \in FunctionUse
    BY <2>1, <2>2, <2>3 DEF FunctionUse, Declaration
  <2>5. ASSUME fs[i].class = NoName \/ fs[i].body
        PROVE  Declares(u, [package |-> u.package, class |-> fs[i].class, name |-> fs[i].name])
    BY <2>5 DEF Declares, Qualified
  <2>6. u \in Visible(u)
    BY DEF Visible
  <2> DEFINE f == Own(u)[i]
  <2>7. /\ f.package = u.package /\ f.class = fs[i].class /\ f.name = fs[i].name
        /\ f.body = fs[i].body
    BY <2>2
  <2> HIDE DEF f, fs
  <2>8. Stands(u, f)
    BY <2>5, <2>6, <2>7 DEF Stands
  <2> QED BY <2>4, <2>8 DEF f
<1>3. Own(u) = [i \in 1..Len(fs) |-> Own(u)[i]] /\ DOMAIN Own(u) = DOMAIN fs
  BY <1>1 DEF Own
<1>4. Own(u) \in Seq(FunctionUse)
  <2> HIDE DEF fs
  <2> QED BY <1>1, <1>2, <1>3, IsASeq
<1> QED BY <1>2, <1>3, <1>4

(* Every name in the table of a unit without unknown identifiers is        *)
(* declared by the unit itself or by the header of a package it requires.  *)
LEMMA FunctionTableNames ==
    ASSUME source \in Programs, NEW u \in Unit, ~IdentifierNotFound(u)
    PROVE  /\ FunctionTable(u) \in Seq(QualifiedName)
           /\ \A i \in DOMAIN FunctionTable(u) :
                \E v \in Visible(u) : Declares(v, FunctionTable(u)[i])
<1> DEFINE early == source.calls[u].early
           late == source.calls[u].late
           functs == Used(u, early) \o Own(u) \o Used(u, late)
           P == {i \in DOMAIN functs : /\ functs[i].class = NoName \/ functs[i].body
                                       /\ ~Known(functs, i)}
           kept == Only(functs, P)
<1>1. early \in Seq(Identifier) /\ late \in Seq(Identifier)
  BY ProgramTypes DEF Uses
<1>2. /\ \A name \in Range(early) : \E v \in Visible(u) : name \in Functions(v)
      /\ \A name \in Range(late) : \E v \in Visible(u) : name \in Functions(v)
  <2>1. \A name \in Range(early \o late) : \E v \in Visible(u) : name \in Functions(v)
    BY DEF IdentifierNotFound
  <2>2. Range(early) \subseteq Range(early \o late) /\ Range(late) \subseteq Range(early \o late)
    <3> HIDE DEF early, late
    <3>1. /\ \A j \in DOMAIN early : /\ j \in DOMAIN (early \o late)
                                      /\ (early \o late)[j] = early[j]
          /\ \A j \in DOMAIN late : /\ Len(early) + j \in DOMAIN (early \o late)
                                     /\ (early \o late)[Len(early) + j] = late[j]
      BY <1>1, ConcatElements
    <3> QED BY <3>1 DEF Range
  <2> QED BY <2>1, <2>2
<1>3. /\ Used(u, early) \in Seq(FunctionUse) /\ Used(u, late) \in Seq(FunctionUse)
      /\ Own(u) \in Seq(FunctionUse)
      /\ \A i \in DOMAIN Used(u, early) : Stands(u, Used(u, early)[i])
      /\ \A i \in DOMAIN Used(u, late) : Stands(u, Used(u, late)[i])
      /\ \A i \in DOMAIN Own(u) : Stands(u, Own(u)[i])
  BY <1>1, <1>2, UsedStand, OwnStand
<1>4. /\ functs \in Seq(FunctionUse)
      /\ \A i \in DOMAIN functs : Stands(u, functs[i])
  <2> DEFINE first == Used(u, early) \o Own(u)
  <2>1. /\ first \in Seq(FunctionUse)
        /\ \A i \in DOMAIN first : Stands(u, first[i])
    <3> HIDE DEF early, late
    <3> QED BY <1>3, ConcatElements
  <2> HIDE DEF first, early, late
  <2>2. /\ first \o Used(u, late) \in Seq(FunctionUse)
        /\ \A i \in DOMAIN (first \o Used(u, late)) : Stands(u, (first \o Used(u, late))[i])
    BY <1>3, <2>1, ConcatElements
  <2> QED BY <2>2 DEF first
<1>5. /\ kept \in Seq(FunctionUse)
      /\ \A i \in DOMAIN kept : \E j \in DOMAIN functs : j \in P /\ kept[i] = functs[j]
  <2> HIDE DEF functs, P
  <2> QED BY <1>4, OnlyRange
<1>6. FunctionTable(u) = Reserve(kept)
  BY DEF FunctionTable, ReserveFunctionIndex
<1> HIDE DEF kept
<1>7. DOMAIN kept = 1..Len(kept) /\ Len(kept) \in Nat
  <2> HIDE DEF functs, P
  <2> QED BY <1>5
<1>8. ASSUME NEW i \in DOMAIN kept
      PROVE  /\ Reserve(kept)[i] \in QualifiedName
             /\ \E v \in Visible(u) : Declares(v, Reserve(kept)[i])
  <2>1. PICK j \in DOMAIN functs : j \in P /\ kept[i] = functs[j]
    BY <1>5
  <2>2. kept[i] \in FunctionUse
    BY <1>5
  <2> HIDE DEF functs
  <2>3. Stands(u, kept[i]) /\ (kept[i].class = NoName \/ kept[i].body)
    BY <1>4, <2>1
  <2>4. Reserve(kept)[i] = [package |-> kept[i].package, class |-> kept[i].class,
                            name |-> kept[i].name]
    BY DEF Reserve
  <2> QED BY <2>2, <2>3, <2>4 DEF Stands, FunctionUse, QualifiedName
<1>9. Reserve(kept) = [i \in 1..Len(kept) |-> Reserve(kept)[i]] /\ DOMAIN Reserve(kept) = DOMAIN kept
  BY <1>7 DEF Reserve
<1>10. Reserve(kept) \in Seq(QualifiedName)
  BY <1>7, <1>8, <1>9, IsASeq
<1> QED BY <1>6, <1>8, <1>9, <1>10

(* A unit whose functions are all found has what it implements in its      *)
(* table.                                                                  *)
LEMMA ImplementsInTable ==
    ASSUME NEW u, ~FunctionMissing(u), NEW q, Declares(u, q)
    PROVE  q \in Range(FunctionTable(u))
  BY DEF Declares, FunctionMissing
(* A constant in sight is found in a unit in sight that defines it.        *)
LEMMA SearchConstantFinds ==
    ASSUME source \in Programs, NEW u \in Unit, NEW name,
           \E v \in Visible(u) : name \in Constants(v)
    PROVE  \E v \in Visible(u) : name \in Constants(v) /\ SearchConstant(u, name) = v.package
<1>1. CASE name \in Constants(u)
  BY <1>1 DEF Visible, SearchConstant
<1>2. CASE name \notin Constants(u)
  <2> DEFINE reqs == RequireList(u)
             I == {i \in 1..Len(reqs) : name \in Constants(Header(reqs[i]))}
             k == SelectInSeq(reqs, LAMBDA p : name \in Constants(Header(p)))
  <2>0. reqs \in Seq(Package) /\ DOMAIN reqs = 1..Len(reqs) /\ Len(reqs) \in Nat
    BY RequireListType
  <2>1. k = IF I # {} THEN Min(I) ELSE 0
    BY DEF SelectInSeq
  <2>2. I # {}
    <3>1. PICK v \in Visible(u) : name \in Constants(v)
      OBVIOUS
    <3>2. PICK p \in Range(reqs) : v = Header(p)
      BY <1>2, <3>1 DEF Visible
    <3>3. PICK i \in DOMAIN reqs : p = reqs[i]
      BY <3>2 DEF Range
    <3> QED BY <2>0, <3>1, <3>2, <3>3
  <2>3. \E n \in I : \A m \in I : n <= m
    <3>1. I \in SUBSET Nat
      BY <2>0
    <3> HIDE DEF I
    <3> QED BY <3>1, <2>2, LeastElement
  <2>4. k \in I
    <3> HIDE DEF I
    <3> QED BY <2>1, <2>2, <2>3 DEF Min
  <2>5. SearchConstant(u, name) = reqs[k]
    BY <1>2 DEF SearchConstant
  <2> HIDE DEF k
  <2>6. reqs[k] \in Range(reqs) /\ reqs[k] \in Package
    BY <2>0, <2>4 DEF Range
  <2>7. Header(reqs[k]) \in Visible(u) /\ Header(reqs[k]).package = reqs[k]
    BY <2>6, UnitKinds DEF Visible
  <2>8. name \in Constants(Header(reqs[k]))
    BY <2>4
  <2> QED BY <2>5, <2>7, <2>8
<1> QED BY <1>1, <1>2

(* The constants that u defines, by their qualified names.                 *)
LEMMA OwnConstantsType ==
    ASSUME source \in Programs, NEW u \in Unit
    PROVE  /\ OwnConstants(u) \in Seq(QualifiedName)
           /\ DOMAIN OwnConstants(u) = DOMAIN source.constants[u]
           /\ \A name \in Constants(u) :
                 [package |-> u.package, class |-> NoName, name |-> name] \in Range(OwnConstants(u))
<1> DEFINE cs == source.constants[u]
<1>1. cs \in Seq(Definition) /\ DOMAIN cs = 1..Len(cs) /\ Len(cs) \in Nat
  BY ProgramTypes
<1>2. /\ OwnConstants(u) = [i \in 1..Len(cs) |-> OwnConstants(u)[i]]
      /\ DOMAIN OwnConstants(u) = DOMAIN cs
      /\ \A i \in DOMAIN cs : OwnConstants(u)[i] = [package |-> u.package, class |-> NoName,
                                                    name |-> cs[i].name]
  BY <1>1 DEF OwnConstants
<1>3. \A i \in DOMAIN cs : OwnConstants(u)[i] \in QualifiedName
  <2> TAKE i \in DOMAIN cs
  <2>1. cs[i].name \in Identifier
    <3>1. cs[i] \in Definition
      BY <1>1
    <3> HIDE DEF cs
    <3> QED BY <3>1 DEF Definition
  <2>2. u.package \in Package \cup {Main}
    BY UnitKinds
  <2>3. OwnConstants(u)[i] = [package |-> u.package, class |-> NoName, name |-> cs[i].name]
    BY <1>2
  <2> HIDE DEF cs
  <2> QED BY <2>1, <2>2, <2>3 DEF QualifiedName
<1>4. OwnConstants(u) \in Seq(QualifiedName)
  <2> HIDE DEF cs
  <2> QED BY <1>1, <1>2, <1>3, IsASeq
<1>5. \A name \in Constants(u) :
         [package |-> u.package, class |-> NoName, name |-> name] \in Range(OwnConstants(u))
  BY <1>2 DEF Constants, Range
<1> QED BY <1>2, <1>4, <1>5

(* A constant that is used is one that a unit in sight defines.            *)
LEMMA ConstantsUsedType ==
    ASSUME source \in Programs, NEW u \in Unit, NEW names \in Seq(Identifier),
           \A name \in Range(names) : \E v \in Visible(u) : name \in Constants(v)
    PROVE  /\ ConstantsUsed(u, names) \in Seq(QualifiedName)
           /\ \A i \in DOMAIN ConstantsUsed(u, names) :
                 \E v \in Visible(u) : ConstantsUsed(u, names)[i] \in Range(OwnConstants(v))
<1>1. ASSUME NEW i \in DOMAIN names
      PROVE  /\ ConstantsUsed(u, names)[i] \in QualifiedName
             /\ \E v \in Visible(u) : ConstantsUsed(u, names)[i] \in Range(OwnConstants(v))
  <2>1. names[i] \in Identifier /\ names[i] \in Range(names)
    BY DEF Range
  <2>2. PICK v \in Visible(u) :
            names[i] \in Constants(v) /\ SearchConstant(u, names[i]) = v.package
    BY <2>1, SearchConstantFinds
  <2>3. ConstantsUsed(u, names)[i] = [package |-> v.package, class |-> NoName, name |-> names[i]]
    BY <2>2 DEF ConstantsUsed
  <2>4. v \in Unit /\ v.package \in Package \cup {Main}
    BY VisibleUnits, UnitKinds
  <2>5. ConstantsUsed(u, names)[i] \in QualifiedName
    BY <2>1, <2>3, <2>4 DEF QualifiedName
  <2> QED BY <2>2, <2>3, <2>4, <2>5, OwnConstantsType
<1>2. /\ ConstantsUsed(u, names) = [i \in 1..Len(names) |-> ConstantsUsed(u, names)[i]]
      /\ DOMAIN ConstantsUsed(u, names) = 1..Len(names)
      /\ Len(names) \in Nat /\ DOMAIN names = 1..Len(names)
  BY DEF ConstantsUsed
<1>3. ConstantsUsed(u, names) \in Seq(QualifiedName)
  BY <1>1, <1>2, IsASeq
<1> QED BY <1>1, <1>2, <1>3

(* The functions that ReserveAll and FixConstantList are defined with, and *)
(* that they exist for every length.                                       *)
IsReserved(f, n, table, names) ==
    f = [i \in 0..n |-> IF i = 0 THEN table ELSE ReserveConstantIndex(f[i - 1], names[i])]

LEMMA ReservedExists ==
    ASSUME NEW table, NEW names, NEW n \in Nat
    PROVE  \E f : IsReserved(f, n, table, names)
<1> DEFINE Has(m) == \E f : IsReserved(f, m, table, names)
           Lacking == {m \in Nat : ~Has(m)}
<1>1. Has(0)
  <2>1. IsReserved([i \in 0..0 |-> table], 0, table, names)
    BY DEF IsReserved
  <2> QED BY <2>1
<1>2. ASSUME NEW m \in Nat, Has(m)
      PROVE  Has(m + 1)
  <2>1. PICK f : IsReserved(f, m, table, names)
    BY <1>2
  <2> DEFINE last == ReserveConstantIndex(f[m], names[m + 1])
             g == [i \in 0..(m + 1) |-> IF i = m + 1 THEN last ELSE f[i]]
             h == [i \in 0..(m + 1) |->
                     IF i = 0 THEN table ELSE ReserveConstantIndex(g[i - 1], names[i])]
  <2>2. ASSUME NEW i \in 0..(m + 1)
        PROVE  g[i] = h[i]
    <3>1. CASE i = m + 1
      <4>1. i - 1 = m /\ m \in 0..(m + 1) /\ m # m + 1 /\ i # 0
        BY <3>1
      <4>2. g[i - 1] = f[m]
        BY <4>1
      <4> HIDE DEF g
      <4>3. g[i] = last
        BY <3>1 DEF g
      <4> QED BY <3>1, <4>1, <4>2, <4>3
    <3>2. CASE i # m + 1
      <4>1. i \in 0..m /\ g[i] = f[i]
        BY <3>2
      <4>2. f[i] = IF i = 0 THEN table ELSE ReserveConstantIndex(f[i - 1], names[i])
        BY <2>1, <4>1 DEF IsReserved
      <4>3. i # 0 => g[i - 1] = f[i - 1]
        BY <4>1
      <4> HIDE DEF g
      <4> QED BY <4>1, <4>2, <4>3
    <3> QED BY <3>1, <3>2
  <2>3. g = h
    BY <2>2
  <2>4. IsReserved(g, m + 1, table, names)
    BY <2>3 DEF IsReserved
  <2> QED BY <2>4
<1>3. Lacking = {}
  <2> SUFFICES ASSUME Lacking # {} PROVE FALSE
    OBVIOUS
  <2> HIDE DEF Has
  <2>1. PICK m \in Lacking : \A k \in Lacking : m <= k
    BY LeastElement
  <2>2. m \in Nat \ {0} /\ ~Has(m)
    BY <2>1, <1>1
  <2>3. m - 1 \in Nat /\ (m - 1) + 1 = m
    BY <2>2
  <2>4. Has(m - 1)
    BY <2>1, <2>2
  <2> QED BY <1>2, <2>2, <2>3, <2>4
<1> QED BY <1>3

FixedFirst(u) == ReserveAll(<<>>, ConstantsUsed(u, source.reads[u].early))
FixedNext(u, table, i) ==
    ReserveAll(ReserveConstantIndex(table, OwnConstants(u)[i]),
               ConstantsUsed(u, source.constants[u][i].reads))
IsFixed(f, n, u) ==
    f = [i \in 0..n |-> IF i = 0 THEN FixedFirst(u) ELSE FixedNext(u, f[i - 1], i)]

LEMMA FixedExists ==
    ASSUME NEW u, NEW n \in Nat
    PROVE  \E f : IsFixed(f, n, u)
<1> DEFINE Has(m) == \E f : IsFixed(f, m, u)
           Lacking == {m \in Nat : ~Has(m)}
<1>1. Has(0)
  <2>1. IsFixed([i \in 0..0 |-> FixedFirst(u)], 0, u)
    BY DEF IsFixed
  <2> QED BY <2>1
<1>2. ASSUME NEW m \in Nat, Has(m)
      PROVE  Has(m + 1)
  <2>1. PICK f : IsFixed(f, m, u)
    BY <1>2
  <2> DEFINE last == FixedNext(u, f[m], m + 1)
             g == [i \in 0..(m + 1) |-> IF i = m + 1 THEN last ELSE f[i]]
             h == [i \in 0..(m + 1) |->
                     IF i = 0 THEN FixedFirst(u) ELSE FixedNext(u, g[i - 1], i)]
  <2>2. ASSUME NEW i \in 0..(m + 1)
        PROVE  g[i] = h[i]
    <3>1. CASE i = m + 1
      <4>1. i - 1 = m /\ m \in 0..(m + 1) /\ m # m + 1 /\ i # 0
        BY <3>1
      <4>2. g[i - 1] = f[m]
        BY <4>1
      <4> HIDE DEF g
      <4>3. g[i] = last
        BY <3>1 DEF g
      <4> QED BY <3>1, <4>1, <4>2, <4>3
    <3>2. CASE i # m + 1
      <4>1. i \in 0..m /\ g[i] = f[i]
        BY <3>2
      <4>2. f[i] = IF i = 0 THEN FixedFirst(u) ELSE FixedNext(u, f[i - 1], i)
        BY <2>1, <4>1 DEF IsFixed
      <4>3. i # 0 => g[i - 1] = f[i - 1]
        BY <4>1
      <4> HIDE DEF g
      <4> QED BY <4>1, <4>2, <4>3
    <3> QED BY <3>1, <3>2
  <2>3. g = h
    BY <2>2
  <2>4. IsFixed(g, m + 1, u)
    BY <2>3 DEF IsFixed
  <2> QED BY <2>4
<1>3. Lacking = {}
  <2> SUFFICES ASSUME Lacking # {} PROVE FALSE
    OBVIOUS
  <2> HIDE DEF Has
  <2>1. PICK m \in Lacking : \A k \in Lacking : m <= k
    BY LeastElement
  <2>2. m \in Nat \ {0} /\ ~Has(m)
    BY <2>1, <1>1
  <2>3. m - 1 \in Nat /\ (m - 1) + 1 = m
    BY <2>2
  <2>4. Has(m - 1)
    BY <2>1, <2>2
  <2> QED BY <1>2, <2>2, <2>3, <2>4
<1> QED BY <1>3

LEMMA FixConstantListIs ==
    ASSUME source \in Programs, NEW u \in Unit
    PROVE  IsFixed(FixConstantList(u), Len(source.constants[u]), u)
<1> DEFINE n == Len(source.constants[u])
           f == CHOOSE h : IsFixed(h, n, u)
<1>1. n \in Nat
  BY ProgramTypes
<1>2. FixConstantList(u) = f
  BY DEF FixConstantList, IsFixed, FixedFirst, FixedNext
<1> HIDE DEF n
<1>3. IsFixed(f, n, u)
  BY <1>1, FixedExists
<1> QED BY <1>2, <1>3 DEF n

(* Table t is s with those of names that it lacks at its end.              *)
Extends(s, t, names) ==
    /\ t \in Seq(QualifiedName)
    /\ Len(s) <= Len(t) /\ \A i \in 1..Len(s) : t[i] = s[i]
    /\ Range(t) = Range(s) \cup names
    /\ names \subseteq Range(s) => t = s

LEMMA ExtendsOn ==
    ASSUME NEW r \in Seq(QualifiedName), NEW s, NEW t, NEW before, NEW names,
           Extends(r, s, before), Extends(s, t, names)
    PROVE  Extends(r, t, before \cup names)
<1>1. Len(r) \in Nat /\ Len(s) \in Nat /\ Len(t) \in Nat
  BY DEF Extends
<1>2. \A i \in 1..Len(r) : t[i] = r[i]
  BY <1>1 DEF Extends
<1> QED BY <1>1, <1>2 DEF Extends

LEMMA ReserveExtends ==
    ASSUME NEW table \in Seq(QualifiedName), NEW q \in QualifiedName
    PROVE  /\ Extends(table, ReserveConstantIndex(table, q), {q})
           /\ q \notin Range(table) => ReserveConstantIndex(table, q) = Append(table, q)
<1> DEFINE t == ReserveConstantIndex(table, q)
<1>1. CASE q \in Range(table)
  <2>1. table = t
    BY <1>1 DEF ReserveConstantIndex
  <2>2. Extends(table, table, {q})
    <3>1. Len(table) \in Nat /\ Range(table) = Range(table) \cup {q}
      BY <1>1
    <3> QED BY <3>1 DEF Extends
  <2>3. Extends(table, t, {q})
    <3> HIDE DEF t
    <3> QED BY ONLY <2>1, <2>2, Zenon
  <2> QED BY <1>1, <2>3 DEF t
<1>2. CASE q \notin Range(table)
  <2>1. t = Append(table, q)
    BY <1>2 DEF ReserveConstantIndex
  <2> HIDE DEF t
  <2>2. /\ t \in Seq(QualifiedName) /\ Len(t) = Len(table) + 1 /\ Len(table) \in Nat
        /\ \A i \in 1..Len(table) : t[i] = table[i]
        /\ t[Len(table) + 1] = q
        /\ DOMAIN t = 1..(Len(table) + 1) /\ DOMAIN table = 1..Len(table)
    BY <2>1, AppendProperties
  <2>3. Range(t) = Range(table) \cup {q}
    BY <2>2 DEF Range
  <2>4. Extends(table, t, {q})
    BY <1>2, <2>2, <2>3 DEF Extends
  <2> QED BY <2>1, <2>4 DEF t
<1> QED BY <1>1, <1>2

LEMMA ReserveAllExtends ==
    ASSUME NEW table \in Seq(QualifiedName), NEW names \in Seq(QualifiedName)
    PROVE  Extends(table, ReserveAll(table, names), Range(names))
<1> DEFINE f == CHOOSE h : IsReserved(h, Len(names), table, names)
           Right(n) == Extends(table, f[n], {names[i] : i \in 1..n})
           Wrong == {n \in 0..Len(names) : ~Right(n)}
<1>1. /\ Len(names) \in Nat /\ DOMAIN names = 1..Len(names)
      /\ Range(names) = {names[i] : i \in 1..Len(names)}
  BY DEF Range
<1>2. ReserveAll(table, names) = f[Len(names)]
  BY DEF ReserveAll, IsReserved
<1>3. IsReserved(f, Len(names), table, names)
  BY <1>1, ReservedExists
<1> HIDE DEF f
<1>4. Right(0)
  <2>1. f[0] = table
    BY <1>1, <1>3 DEF IsReserved
  <2>2. {names[i] : i \in 1..0} = {}
    OBVIOUS
  <2> QED BY <2>1, <2>2 DEF Extends
<1>5. ASSUME NEW n \in Nat, n + 1 <= Len(names), Right(n)
      PROVE  Right(n + 1)
  <2>1. n + 1 \in 0..Len(names) /\ n + 1 # 0 /\ (n + 1) - 1 = n
    BY <1>1, <1>5
  <2>2. f[n + 1] = ReserveConstantIndex(f[n], names[n + 1])
    BY <1>3, <2>1 DEF IsReserved
  <2>3. names[n + 1] \in QualifiedName
    BY <1>1, <1>5
  <2>4. Extends(f[n], f[n + 1], {names[n + 1]})
    <3>1. f[n] \in Seq(QualifiedName)
      BY <1>5 DEF Extends
    <3> QED BY <2>2, <2>3, <3>1, ReserveExtends
  <2>5. Extends(table, f[n + 1], {names[i] : i \in 1..n} \cup {names[n + 1]})
    BY <1>5, <2>4, ExtendsOn
  <2>6. {names[i] : i \in 1..n} \cup {names[n + 1]} = {names[i] : i \in 1..(n + 1)}
    <3>1. 1..(n + 1) = (1..n) \cup {n + 1}
      BY <1>5
    <3> QED BY <3>1
  <2> QED BY <2>5, <2>6
<1>6. Wrong = {}
  <2> SUFFICES ASSUME Wrong # {} PROVE FALSE
    OBVIOUS
  <2> HIDE DEF Right
  <2>0. Wrong \in SUBSET Nat
    BY <1>1
  <2>1. PICK n \in Wrong : \A m \in Wrong : n <= m
    <3> HIDE DEF Wrong
    <3> QED BY <2>0, LeastElement
  <2>2. n \in Nat \ {0} /\ n <= Len(names) /\ ~Right(n)
    BY <2>1, <1>1, <1>4
  <2>3. n - 1 \in Nat /\ (n - 1) + 1 = n
    BY <2>2
  <2>4. Right(n - 1)
    BY <2>1, <2>2, <2>3, <1>1
  <2> QED BY <1>5, <2>2, <2>3, <2>4
<1>7. Right(Len(names))
  <2> HIDE DEF Right
  <2>1. Len(names) \in 0..Len(names)
    BY <1>1
  <2> QED BY <1>6, <2>1
<1> QED BY <1>1, <1>2, <1>7

(* Names of constants in sight of u, and their qualified names.            *)
InSight(u, q) == \E v \in Visible(u) : q \in Range(OwnConstants(v))

LEMMA NamesInSight ==
    ASSUME source \in Programs, NEW u \in Unit, ~IdentifierNotFound(u), NEW names,
           \/ names = source.reads[u].early \/ names = source.reads[u].late
           \/ \E i \in DOMAIN source.constants[u] : names = source.constants[u][i].reads
    PROVE  /\ names \in Seq(Identifier) /\ ConstantsUsed(u, names) \in Seq(QualifiedName)
           /\ \A q \in Range(ConstantsUsed(u, names)) : InSight(u, q)
<1> DEFINE early == source.reads[u].early
           late == source.reads[u].late
<1>1. /\ early \in Seq(Identifier) /\ late \in Seq(Identifier)
      /\ \A i \in DOMAIN source.constants[u] : source.constants[u][i].reads \in Seq(Identifier)
  <2>1. source.reads[u] \in Uses /\ source.constants[u] \in Seq(Definition)
    BY ProgramTypes
  <2>2. \A i \in DOMAIN source.constants[u] : source.constants[u][i] \in Definition
    BY <2>1
  <2> QED BY <2>1, <2>2 DEF Uses, Definition
<1>2. /\ \A name \in Range(early) : \E v \in Visible(u) : name \in Constants(v)
      /\ \A name \in Range(late) : \E v \in Visible(u) : name \in Constants(v)
  <2>1. \A name \in Range(early \o late) : \E v \in Visible(u) : name \in Constants(v)
    BY DEF IdentifierNotFound
  <2>2. Range(early) \subseteq Range(early \o late) /\ Range(late) \subseteq Range(early \o late)
    <3> HIDE DEF early, late
    <3>1. /\ \A j \in DOMAIN early : /\ j \in DOMAIN (early \o late)
                                      /\ (early \o late)[j] = early[j]
          /\ \A j \in DOMAIN late : /\ Len(early) + j \in DOMAIN (early \o late)
                                     /\ (early \o late)[Len(early) + j] = late[j]
      BY <1>1, ConcatElements
    <3> QED BY <3>1 DEF Range
  <2> QED BY <2>1, <2>2
<1>3. \A i \in DOMAIN source.constants[u] : \A name \in Range(source.constants[u][i].reads) :
         \E v \in Visible(u) : name \in Constants(v)
  BY DEF IdentifierNotFound
<1>4. names \in Seq(Identifier) /\ \A name \in Range(names) : \E v \in Visible(u) : name \in Constants(v)
  BY <1>1, <1>2, <1>3
<1> QED BY <1>4, ConstantsUsedType DEF Range, InSight

(* The table after the i-th constant of u holds the first i constants of   *)
(* u, and besides them only constants in sight.                            *)
FixedTo(u, i) ==
    LET table == FixConstantList(u)[i]
    IN  /\ table \in Seq(QualifiedName)
        /\ \A q \in Range(table) : InSight(u, q)
        /\ \A j \in 1..i : OwnConstants(u)[j] \in Range(table)

LEMMA FixConstantListStep ==
    ASSUME source \in Programs, NEW u \in Unit, ~IdentifierNotFound(u)
    PROVE  /\ FixedTo(u, 0)
           /\ \A i \in DOMAIN source.constants[u] : FixedTo(u, i - 1) =>
                /\ FixedTo(u, i)
                /\ Extends(ReserveConstantIndex(FixConstantList(u)[i - 1], OwnConstants(u)[i]),
                           FixConstantList(u)[i],
                           Range(ConstantsUsed(u, source.constants[u][i].reads)))
<1> DEFINE cs == source.constants[u]
           own == OwnConstants(u)
           f == FixConstantList(u)
<1>1. /\ cs \in Seq(Definition) /\ DOMAIN cs = 1..Len(cs) /\ Len(cs) \in Nat
      /\ own \in Seq(QualifiedName) /\ DOMAIN own = DOMAIN cs
  BY ProgramTypes, OwnConstantsType
<1>2. /\ f[0] = FixedFirst(u)
      /\ \A i \in 1..Len(cs) : f[i] = FixedNext(u, f[i - 1], i)
  <2>1. IsFixed(f, Len(cs), u)
    BY FixConstantListIs
  <2> HIDE DEF f
  <2>2. 0 \in 0..Len(cs) /\ \A i \in 1..Len(cs) : i \in 0..Len(cs) /\ i # 0
    BY <1>1
  <2> HIDE DEF cs
  <2> QED BY <2>1, <2>2 DEF IsFixed
<1> HIDE DEF f
<1>3. FixedTo(u, 0)
  <2> DEFINE before == ConstantsUsed(u, source.reads[u].early)
  <2>1. before \in Seq(QualifiedName) /\ \A q \in Range(before) : InSight(u, q)
    BY NamesInSight
  <2>2. f[0] = ReserveAll(<<>>, before)
    BY <1>2 DEF FixedFirst
  <2> HIDE DEF before
  <2>3. Extends(<<>>, f[0], Range(before))
    <3>1. <<>> \in Seq(QualifiedName)
      OBVIOUS
    <3> QED BY <2>1, <2>2, <3>1, ReserveAllExtends
  <2>4. f[0] \in Seq(QualifiedName) /\ Range(f[0]) = Range(before)
    BY <2>3 DEF Extends, Range
  <2> QED BY <2>1, <2>4 DEF FixedTo, f
<1>4. ASSUME NEW i \in DOMAIN cs, FixedTo(u, i - 1)
      PROVE  /\ FixedTo(u, i)
             /\ Extends(ReserveConstantIndex(f[i - 1], own[i]), f[i],
                        Range(ConstantsUsed(u, cs[i].reads)))
  <2> DEFINE read == ConstantsUsed(u, cs[i].reads)
             entered == ReserveConstantIndex(f[i - 1], own[i])
  <2>1. read \in Seq(QualifiedName) /\ \A q \in Range(read) : InSight(u, q)
    BY NamesInSight
  <2>2. f[i] = ReserveAll(entered, read)
    BY <1>1, <1>2 DEF FixedNext
  <2>3. /\ f[i - 1] \in Seq(QualifiedName) /\ \A q \in Range(f[i - 1]) : InSight(u, q)
        /\ \A j \in 1..(i - 1) : own[j] \in Range(f[i - 1])
    BY <1>4 DEF FixedTo, f
  <2>4. own[i] \in QualifiedName /\ InSight(u, own[i])
    <3>1. own[i] \in Range(own)
      BY <1>1 DEF Range
    <3> QED BY <1>1, <3>1 DEF InSight, Visible
  <2> HIDE DEF read
  <2>5. Extends(f[i - 1], entered, {own[i]})
    BY <2>3, <2>4, ReserveExtends
  <2>6. entered \in Seq(QualifiedName)
    BY <2>5 DEF Extends
  <2>7. Extends(entered, f[i], Range(read))
    <3> HIDE DEF entered
    <3> QED BY <2>1, <2>2, <2>6, ReserveAllExtends
  <2> HIDE DEF entered
  <2>8. /\ f[i] \in Seq(QualifiedName)
        /\ Range(f[i]) = Range(f[i - 1]) \cup {own[i]} \cup Range(read)
    BY <2>5, <2>7 DEF Extends
  <2>9. \A j \in 1..i : j \in 1..(i - 1) \/ j = i
    BY <1>1
  <2>10. FixedTo(u, i)
    BY <2>1, <2>3, <2>4, <2>8, <2>9 DEF FixedTo, f
  <2> QED BY <2>7, <2>10 DEF read, entered
<1> QED BY <1>3, <1>4 DEF f

LEMMA FixConstantListNames ==
    ASSUME source \in Programs, NEW u \in Unit, ~IdentifierNotFound(u)
    PROVE  \A i \in 0..Len(source.constants[u]) : FixedTo(u, i)
<1> DEFINE n == Len(source.constants[u])
           Wrong == {i \in 0..n : ~FixedTo(u, i)}
<1>1. n \in Nat /\ DOMAIN source.constants[u] = 1..n
  BY ProgramTypes
<1> HIDE DEF n
<1>2. Wrong = {}
  <2> SUFFICES ASSUME Wrong # {} PROVE FALSE
    OBVIOUS
  <2>0. Wrong \in SUBSET Nat
    BY <1>1
  <2>1. PICK i \in Wrong : \A m \in Wrong : i <= m
    <3> HIDE DEF Wrong
    <3> QED BY <2>0, LeastElement
  <2>2. i \in 1..n /\ ~FixedTo(u, i)
    BY <1>1, <2>1, FixConstantListStep
  <2>3. i - 1 \in 0..n /\ ~(i <= i - 1)
    BY <1>1, <2>2
  <2>4. FixedTo(u, i - 1)
    BY <2>1, <2>3
  <2> QED BY <1>1, <2>2, <2>4, FixConstantListStep
<1> QED BY <1>2 DEF n

(* Every name in the table of constants of a unit without unknown          *)
(* identifiers is a constant that a unit in sight defines.                 *)
LEMMA ConstantTableNames ==
    ASSUME source \in Programs, NEW u \in Unit, ~IdentifierNotFound(u)
    PROVE  /\ ConstantTable(u) \in Seq(QualifiedName)
           /\ \A i \in DOMAIN ConstantTable(u) :
                 \E v \in Visible(u) : ConstantTable(u)[i] \in Range(OwnConstants(v))
           /\ Range(OwnConstants(u)) \subseteq Range(ConstantTable(u))
           /\ Extends(FixConstantList(u)[Len(source.constants[u])], ConstantTable(u),
                      Range(ConstantsUsed(u, source.reads[u].late)))
<1> DEFINE after == ConstantsUsed(u, source.reads[u].late)
           n == Len(source.constants[u])
           fixed == FixConstantList(u)[n]
<1>1. after \in Seq(QualifiedName) /\ \A q \in Range(after) : InSight(u, q)
  BY NamesInSight
<1>2. /\ n \in Nat /\ DOMAIN OwnConstants(u) = 1..n
  BY ProgramTypes, OwnConstantsType
<1>3. FixedTo(u, n)
  BY <1>2, FixConstantListNames
<1>4. /\ fixed \in Seq(QualifiedName) /\ \A q \in Range(fixed) : InSight(u, q)
      /\ \A j \in 1..n : OwnConstants(u)[j] \in Range(fixed)
  BY <1>3 DEF FixedTo
<1>5. ConstantTable(u) = ReserveAll(fixed, after)
  BY DEF ConstantTable
<1> HIDE DEF after, fixed, n
<1>6. Extends(fixed, ConstantTable(u), Range(after))
  BY <1>1, <1>4, <1>5, ReserveAllExtends
<1> DEFINE t == ConstantTable(u)
<1> HIDE DEF t
<1>7. t \in Seq(QualifiedName) /\ Range(t) = Range(fixed) \cup Range(after)
  BY <1>6 DEF Extends, t
<1>8. \A i \in DOMAIN t : InSight(u, t[i])
  BY <1>1, <1>4, <1>7 DEF Range
<1>9. Range(OwnConstants(u)) \subseteq Range(t)
  BY <1>2, <1>4, <1>7 DEF Range
<1> QED BY <1>6, <1>7, <1>8, <1>9 DEF t, fixed, after, n, InSight

(* The constants a unit defines come first in its table, in order, if its  *)
(* methods read none, it defines none twice, and all but the last of their *)
(* initializers read only constants of the unit that come before.          *)
OwnFirst(u) ==
    LET cs == source.constants[u]
    IN  /\ source.reads[u].early = <<>>
        /\ \A i, j \in DOMAIN cs : cs[i].name = cs[j].name => i = j
        /\ \A i \in DOMAIN cs : i < Len(cs) =>
              \A name \in Range(cs[i].reads) : \E j \in 1..i : cs[j].name = name

LEMMA OwnReads ==
    ASSUME source \in Programs, NEW u \in Unit, OwnFirst(u), NEW i \in DOMAIN source.constants[u],
           i < Len(source.constants[u])
    PROVE  Range(ConstantsUsed(u, source.constants[u][i].reads))
              \subseteq {OwnConstants(u)[j] : j \in 1..i}
<1> DEFINE cs == source.constants[u]
           names == cs[i].reads
<1>1. /\ cs \in Seq(Definition) /\ DOMAIN cs = 1..Len(cs) /\ Len(cs) \in Nat
      /\ names \in Seq(Identifier) /\ DOMAIN names = 1..Len(names)
  <2>1. cs \in Seq(Definition) /\ cs[i] \in Definition
    BY ProgramTypes
  <2> HIDE DEF cs
  <2>2. names \in Seq(Identifier)
    BY <2>1 DEF Definition
  <2> HIDE DEF names
  <2> QED BY <2>1, <2>2
<1> SUFFICES ASSUME NEW k \in DOMAIN names
             PROVE  ConstantsUsed(u, names)[k] \in {OwnConstants(u)[j] : j \in 1..i}
  BY DEF ConstantsUsed, Range
<1>2. PICK j \in 1..i : cs[j].name = names[k]
  BY DEF OwnFirst, Range
<1>3. j \in DOMAIN cs
  BY <1>1
<1>4. names[k] \in Constants(u)
  BY <1>2, <1>3 DEF Constants
<1>5. SearchConstant(u, names[k]) = u.package
  BY <1>4 DEF SearchConstant
<1>6. ConstantsUsed(u, names)[k] = [package |-> u.package, class |-> NoName, name |-> names[k]]
  BY <1>5 DEF ConstantsUsed
<1>7. OwnConstants(u)[j] = [package |-> u.package, class |-> NoName, name |-> cs[j].name]
  BY <1>3 DEF OwnConstants
<1> HIDE DEF names, cs
<1> QED BY <1>2, <1>6, <1>7

(* The table after the i-th constant is made of the first i constants, but *)
(* for what the last initializer reads.                                    *)
BeginsOwn(u, i) ==
    LET table == FixConstantList(u)[i]
    IN  /\ i <= Len(table) /\ \A j \in 1..i : table[j] = OwnConstants(u)[j]
        /\ i < Len(source.constants[u]) => Len(table) = i

LEMMA BeginsOwnStep ==
    ASSUME source \in Programs, NEW u \in Unit, ~IdentifierNotFound(u), OwnFirst(u),
           NEW i \in DOMAIN source.constants[u], BeginsOwn(u, i - 1)
    PROVE  BeginsOwn(u, i)
<1> DEFINE cs == source.constants[u]
           own == OwnConstants(u)
           before == FixConstantList(u)[i - 1]
           table == FixConstantList(u)[i]
           entered == ReserveConstantIndex(before, own[i])
           read == Range(ConstantsUsed(u, cs[i].reads))
<1>1. /\ cs \in Seq(Definition) /\ DOMAIN cs = 1..Len(cs) /\ Len(cs) \in Nat
      /\ own \in Seq(QualifiedName) /\ DOMAIN own = DOMAIN cs
  BY ProgramTypes, OwnConstantsType
<1>2. i \in 1..Len(cs) /\ i \in Nat /\ i - 1 \in 0..Len(cs) /\ i - 1 < Len(cs)
  BY <1>1
<1>3. FixedTo(u, i - 1)
  <2> HIDE DEF cs
  <2> QED BY <1>2, FixConstantListNames DEF cs
<1>4. before \in Seq(QualifiedName) /\ Extends(entered, table, read)
  BY <1>3, FixConstantListStep DEF FixedTo
<1>5. Len(before) = i - 1 /\ \A j \in 1..(i - 1) : before[j] = own[j]
  BY <1>2 DEF BeginsOwn
<1>6. own[i] \in QualifiedName
  BY <1>1
<1>7. own[i] \notin Range(before)
  <2> SUFFICES ASSUME NEW j \in DOMAIN before, before[j] = own[i]
               PROVE  FALSE
    BY DEF Range
  <2>1. j \in 1..(i - 1) /\ j \in DOMAIN cs /\ j # i
    BY <1>1, <1>2, <1>4, <1>5
  <2>2. own[j] = own[i]
    BY <1>5, <2>1
  <2>3. cs[j].name = cs[i].name
    BY <2>1, <2>2 DEF OwnConstants
  <2> QED BY <2>1, <2>3 DEF OwnFirst
<1> HIDE DEF before, own
<1>8. entered = Append(before, own[i])
  BY <1>4, <1>6, <1>7, ReserveExtends
<1> HIDE DEF entered
<1>9. /\ Len(entered) = i /\ \A j \in 1..i : entered[j] = own[j]
      /\ DOMAIN entered = 1..i
  <2>1. /\ entered \in Seq(QualifiedName) /\ Len(entered) = i
        /\ \A j \in 1..(i - 1) : entered[j] = own[j]
        /\ entered[i] = own[i]
    BY <1>2, <1>4, <1>5, <1>6, <1>8, AppendProperties
  <2>2. \A j \in 1..i : j \in 1..(i - 1) \/ j = i
    BY <1>2
  <2> QED BY <2>1, <2>2
<1> HIDE DEF table
<1>10. /\ i <= Len(table) /\ \A j \in 1..i : table[j] = own[j]
  BY <1>4, <1>9 DEF Extends
<1>11. ASSUME i < Len(cs)
       PROVE  Len(table) = i
  <2>1. read \subseteq {own[j] : j \in 1..i}
    BY <1>11, OwnReads DEF own
  <2> HIDE DEF read
  <2>2. read \subseteq Range(entered)
    BY <1>9, <2>1 DEF Range
  <2>3. table = entered
    BY <1>4, <2>2 DEF Extends
  <2> QED BY <1>9, <2>3
<1> QED BY <1>10, <1>11 DEF BeginsOwn, table, own

LEMMA OwnConstantsFirst ==
    ASSUME source \in Programs, NEW u \in Unit, ~IdentifierNotFound(u), OwnFirst(u)
    PROVE  \A i \in DOMAIN OwnConstants(u) :
              i \in DOMAIN ConstantTable(u) /\ ConstantTable(u)[i] = OwnConstants(u)[i]
<1> DEFINE n == Len(source.constants[u])
           Wrong == {i \in 0..n : ~BeginsOwn(u, i)}
<1>1. n \in Nat /\ DOMAIN source.constants[u] = 1..n /\ DOMAIN OwnConstants(u) = 1..n
  BY ProgramTypes, OwnConstantsType
<1>2. BeginsOwn(u, 0)
  <2>1. FixedTo(u, 0) /\ IsFixed(FixConstantList(u), n, u)
    BY FixConstantListStep, FixConstantListIs
  <2>2. FixConstantList(u)[0] = FixedFirst(u)
    <3>1. 0 \in 0..n
      BY <1>1
    <3> HIDE DEF n
    <3> QED BY <2>1, <3>1 DEF IsFixed
  <2>3. ConstantsUsed(u, <<>>) = <<>>
    BY DEF ConstantsUsed
  <2>4. FixConstantList(u)[0] = ReserveAll(<<>>, <<>>)
    BY <2>2, <2>3 DEF FixedFirst, OwnFirst
  <2>5. Extends(<<>>, ReserveAll(<<>>, <<>>), Range(<<>>))
    <3>1. <<>> \in Seq(QualifiedName)
      OBVIOUS
    <3> QED BY <3>1, ReserveAllExtends
  <2>6. ReserveAll(<<>>, <<>>) = <<>>
    BY <2>5 DEF Extends, Range
  <2> QED BY <2>4, <2>6 DEF BeginsOwn
<1>3. Wrong = {}
  <2> SUFFICES ASSUME Wrong # {} PROVE FALSE
    OBVIOUS
  <2>0. Wrong \in SUBSET Nat
    BY <1>1
  <2>1. PICK i \in Wrong : \A m \in Wrong : i <= m
    <3> HIDE DEF Wrong
    <3> QED BY <2>0, LeastElement
  <2> HIDE DEF n
  <2>2. i \in 1..n /\ ~BeginsOwn(u, i)
    BY <1>1, <1>2, <2>1
  <2>3. i - 1 \in 0..n /\ ~(i <= i - 1)
    BY <1>1, <2>2
  <2>4. BeginsOwn(u, i - 1)
    BY <2>1, <2>3
  <2> QED BY <1>1, <2>2, <2>4, BeginsOwnStep
<1>4. BeginsOwn(u, n)
  BY <1>1, <1>3
<1> DEFINE fixed == FixConstantList(u)[n]
           t == ConstantTable(u)
<1>5. /\ n <= Len(fixed) /\ \A j \in 1..n : fixed[j] = OwnConstants(u)[j]
  BY <1>4 DEF BeginsOwn
<1>6. fixed \in Seq(QualifiedName)
  <2>1. FixedTo(u, n)
    BY <1>1, FixConstantListNames
  <2> QED BY <2>1 DEF FixedTo
<1>7. /\ t \in Seq(QualifiedName) /\ Len(fixed) <= Len(t) /\ \A j \in 1..Len(fixed) : t[j] = fixed[j]
  BY ConstantTableNames DEF Extends
<1> HIDE DEF n, fixed, t
<1>8. \A i \in 1..n : i \in DOMAIN t /\ t[i] = fixed[i]
  BY <1>1, <1>5, <1>6, <1>7
<1> QED BY <1>1, <1>5, <1>8 DEF t

-----------------------------------------------------------------------------
(* The program does not change, and neither does what depends on it alone. *)

LEMMA SourceFixed ==
    ASSUME [Next]_vars
    PROVE  source' = source
<1>1. CASE UNCHANGED vars
  BY <1>1 DEF vars
<1>2. CASE Parse
  BY <1>2 DEF Parse, Fail
<1>3. CASE Require
  BY <1>3 DEF Require, Fail
<1>4. CASE Generate \/ NullType
  BY <1>4 DEF Generate, NullType, Fail
<1>5. CASE Link
  BY <1>5 DEF Link, Fail
<1>6. CASE Dispose
  BY <1>6 DEF Dispose
<1>7. CASE Start
  BY <1>7 DEF Start
<1>8. ASSUME NEW i, Call(i)
      PROVE  source' = source
  BY <1>8 DEF Call, Load
<1>9. CASE Return
  BY <1>9 DEF Return
<1> QED
  BY <1>1, <1>2, <1>3, <1>4, <1>5, <1>6, <1>7, <1>8, <1>9 DEF Next, Loading

(* What each unit requires.                                                *)
Requires == [u \in Unit |-> RequireList(u)]

LEMMA RequiresTypes ==
    ASSUME source \in Programs
    PROVE  /\ Requires \in [Unit -> Seq(Package)]
           /\ \A u \in Unit : /\ Requires[u] = RequireList(u)
                              /\ DOMAIN Requires[u] = 1..Len(Requires[u])
                              /\ Len(Requires[u]) \in Nat
                              /\ \A n \in DOMAIN Requires[u] :
                                    /\ n \in Nat \ {0}
                                    /\ Requires[u][n] \in Package
                                    /\ Header(Requires[u][n]) \in Unit
<1>1. \A u \in Unit : RequireList(u) \in Seq(Package)
  BY RequireListType
<1>2. Requires \in [Unit -> Seq(Package)] /\ \A u \in Unit : Requires[u] = RequireList(u)
  BY <1>1 DEF Requires
<1> QED
  BY <1>1, <1>2, UnitKinds

LEMMA RequiresFixed ==
    ASSUME source' = source
    PROVE  Requires' = Requires
  BY SMT DEF Requires, RequireList

-----------------------------------------------------------------------------
(* The order of linking.                                                   *)

(* An activation of do_compile, and steps of the innermost one.            *)
Compilation == [unit : Unit, next : Nat]

LEMMA CompilerParts ==
    ASSUME compiling \in Seq(Compilation), compiling # <<>>
    PROVE  /\ Compiler \in Compilation /\ Compiler = compiling[1]
           /\ Compiler.unit \in Unit /\ Compiler.next \in Nat
           /\ \A n \in Nat : /\ [Compiler EXCEPT !.next = n] \in Compilation
                             /\ [Compiler EXCEPT !.next = n].unit = Compiler.unit
                             /\ [Compiler EXCEPT !.next = n].next = n
<1>1. Compiler \in Compilation /\ Compiler = compiling[1]
  BY StackParts DEF Compiler
<1>2. \A c \in Compilation : /\ c.unit \in Unit /\ c.next \in Nat
                             /\ \A n \in Nat : /\ [c EXCEPT !.next = n] \in Compilation
                                               /\ [c EXCEPT !.next = n].unit = c.unit
                                               /\ [c EXCEPT !.next = n].next = n
  BY DEF Compilation
<1> QED
  BY <1>1, <1>2

LEMMA FirstCompilation ==
    ASSUME NEW u \in Unit
    PROVE  /\ [unit |-> u, next |-> 0] \in Compilation
           /\ [unit |-> u, next |-> 0].unit = u /\ [unit |-> u, next |-> 0].next = 0
           /\ <<[unit |-> u, next |-> 0]>> \in Seq(Compilation)
           /\ <<[unit |-> u, next |-> 0]>> # <<>>
           /\ Len(<<[unit |-> u, next |-> 0]>>) = 1
           /\ <<[unit |-> u, next |-> 0]>>[1] = [unit |-> u, next |-> 0]
  BY DEF Compilation

(* The executables that are linked are the first ones of the list, and     *)
(* linking goes on where it stopped.                                       *)
Order ==
    /\ source \in Programs /\ known \in Seq(Package)
    /\ phase \in {"compile", "link", "run", "error"}
    /\ compiling \in Seq(Compilation)
    /\ list \in Seq(Unit) /\ entries \in Seq(Unit) /\ linking \in Nat
    /\ Len(entries) <= Len(list)
    /\ \A i \in 1..Len(entries) : entries[i] = list[i]
    /\ phase \in {"compile", "link"} => linking = Len(entries) + 1
    /\ phase = "compile" => compiling # <<>>
    /\ phase = "run" => Len(entries) = Len(list)

LEMMA OrderInit ==
    ASSUME Init
    PROVE  Order
<1>1. MainUnit \in Unit
  BY UnitKinds
<1>2. compiling = <<[unit |-> MainUnit, next |-> 0]>> /\ phase = "compile"
  BY DEF Init
<1>3. compiling \in Seq(Compilation) /\ compiling # <<>>
  BY <1>1, <1>2, FirstCompilation
<1>4. /\ source \in Programs /\ list = <<>> /\ entries = <<>> /\ linking = 1 /\ known = <<>>
  BY DEF Init
<1> QED
  BY <1>2, <1>3, <1>4 DEF Order

(* An error leaves everything else as it is.                               *)
LEMMA OrderFail ==
    ASSUME Order, NEW reason, Fail(reason)
    PROVE  Order'
  BY DEF Order, Fail

LEMMA OrderNext ==
    ASSUME Order, [Next]_vars
    PROVE  Order'
<1>0. /\ source \in Programs /\ known \in Seq(Package) /\ compiling \in Seq(Compilation)
      /\ list \in Seq(Unit) /\ entries \in Seq(Unit) /\ linking \in Nat
      /\ Len(entries) <= Len(list) /\ Len(entries) \in Nat /\ Len(list) \in Nat
  BY DEF Order
<1>1. CASE UNCHANGED vars
  BY <1>1 DEF Order, vars
<1>2. CASE Parse
  <2>1. CASE RequireError(Compiler.unit)
    BY <1>2, <2>1, OrderFail DEF Parse
  <2>2. CASE ~RequireError(Compiler.unit)
    <3>1. /\ phase = "compile" /\ compiling' = <<[Compiler EXCEPT !.next = 1]>> \o Tail(compiling)
          /\ UNCHANGED <<source, phase, known, list, linking, entries>>
      BY <1>2, <2>2 DEF Parse
    <3>2. compiling # <<>> /\ [Compiler EXCEPT !.next = 1] \in Compilation
      BY <1>0, <3>1, CompilerParts DEF Order
    <3>3. compiling' \in Seq(Compilation) /\ compiling' # <<>>
      BY <1>0, <3>1, <3>2, StackReplace
    <3> QED BY <3>1, <3>3 DEF Order
  <2> QED BY <2>1, <2>2
<1>3. CASE Require
  <2>1. ASSUME Fail("require") PROVE Order'
    BY <2>1, OrderFail
  <2>2. phase = "compile" /\ Compiler.next \in DOMAIN RequireList(Compiler.unit)
    BY <1>3 DEF Require
  <2>3. /\ compiling # <<>> /\ [Compiler EXCEPT !.next = @ + 1] \in Compilation
        /\ Compiler.unit \in Unit
    <3>1. compiling # <<>>
      BY <2>2 DEF Order
    <3>2. Compiler.next \in Nat /\ Compiler.unit \in Unit
      BY <1>0, <3>1, CompilerParts
    <3>3. Compiler.next + 1 \in Nat
      BY <3>2
    <3> QED BY <1>0, <3>1, <3>2, <3>3, CompilerParts
  <2> DEFINE p == Required(Compiler)
             rest == <<[Compiler EXCEPT !.next = @ + 1]>> \o Tail(compiling)
  <2>4. rest \in Seq(Compilation) /\ rest # <<>>
    BY <1>0, <2>3, StackReplace
  <2>5. p \in Package /\ [unit |-> Header(p), next |-> 0] \in Compilation
    <3>1. RequireList(Compiler.unit) \in Seq(Package)
      BY <1>0, <2>3, RequireListType
    <3>2. p \in Package
      BY <2>2, <3>1 DEF Required
    <3> QED BY <3>2, UnitKinds, FirstCompilation
  <2> HIDE DEF rest, p
  <2>6. <<[unit |-> Header(p), next |-> 0]>> \o rest \in Seq(Compilation)
    BY <2>4, <2>5, StackPush
  <2>7. <<[unit |-> Header(p), next |-> 0]>> \o rest # <<>>
    BY <2>4, <2>5, StackPush
  <2>8. ASSUME compiling' = rest \/ compiling' = <<[unit |-> Header(p), next |-> 0]>> \o rest,
               known' = known \/ known' = Append(known, p),
               UNCHANGED <<source, phase, list, linking, entries>>
        PROVE  Order'
    <3>1. Append(known, p) \in Seq(Package)
      BY <1>0, <2>5, AppendProperties
    <3>2. known' \in Seq(Package)
      BY <1>0, <2>8, <3>1
    <3> QED BY <2>4, <2>6, <2>7, <2>8, <3>2 DEF Order
  <2> QED BY <1>3, <2>1, <2>8 DEF Require, rest, p
<1>4. CASE Generate
  <2>1. ASSUME NEW reason, Fail(reason) PROVE Order'
    BY <2>1, OrderFail
  <2>2. CASE ~IdentifierNotFound(Compiler.unit) /\ ~FunctionMissing(Compiler.unit)
    <3>1. /\ phase = "compile" /\ list' = AddToList(Compiler.unit)
          /\ compiling' = Tail(compiling)
          /\ IF Len(compiling) > 1 THEN phase' = phase ELSE phase' = "link"
          /\ known' \in {known, <<>>}
          /\ UNCHANGED <<source, linking, entries>>
      BY <1>4, <2>2 DEF Generate, ReadyToGenerate
    <3>2. /\ Compiler.unit \in Unit /\ Tail(compiling) \in Seq(Compilation)
          /\ Len(compiling) > 1 => Tail(compiling) # <<>>
      <4>1. compiling # <<>>
        BY <3>1 DEF Order
      <4> QED BY <1>0, <4>1, StackParts, CompilerParts
    <3>3. list' \in Seq(Unit) /\ Len(entries) <= Len(list')
          /\ \A i \in 1..Len(entries) : list'[i] = list[i]
      <4>1. CASE list' = list
        BY <4>1, <1>0
      <4>2. CASE list' = Append(list, Compiler.unit)
        BY <4>2, <1>0, <3>2
      <4> QED BY <3>1, <4>1, <4>2 DEF AddToList
    <3>4. known' \in Seq(Package)
      <4>1. <<>> \in Seq(Package)
        OBVIOUS
      <4> QED BY <1>0, <3>1, <4>1
    <3> QED BY <3>1, <3>2, <3>3, <3>4 DEF Order
  <2> QED BY <1>4, <2>1, <2>2 DEF Generate
<1>11. CASE NullType
  BY <1>11, OrderFail DEF NullType
<1>5. CASE Link
  <2>1. ASSUME NEW reason, Fail(reason) PROVE Order'
    BY <2>1, OrderFail
  <2>2. CASE ~MultipleDefine(list[linking])
    <3>1. /\ phase = "link" /\ linking \in DOMAIN list
          /\ entries' = Append(entries, list[linking]) /\ linking' = linking + 1
          /\ UNCHANGED <<source, phase, compiling, known, list>>
      BY <1>5, <2>2 DEF Link, ReadyToLink
    <3>2. linking = Len(entries) + 1 /\ linking <= Len(list) /\ list[linking] \in Unit
      BY <1>0, <3>1 DEF Order
    <3>3. /\ entries' \in Seq(Unit) /\ Len(entries') = Len(entries) + 1
          /\ \A i \in 1..Len(entries') : entries'[i] = list[i]
      BY <1>0, <3>1, <3>2 DEF Order
    <3> QED BY <1>0, <3>1, <3>2, <3>3 DEF Order
  <2> QED BY <1>5, <2>1, <2>2 DEF Link
<1>6. CASE Dispose
  BY <1>6 DEF Order, Dispose
<1>7. CASE Start
  <2>1. /\ phase = "link" /\ linking \notin DOMAIN list /\ phase' = "run"
        /\ UNCHANGED <<source, compiling, known, list, linking, entries>>
    BY <1>7 DEF Start
  <2>2. linking = Len(entries) + 1
    BY <2>1 DEF Order
  <2>3. Len(entries) = Len(list)
    BY <1>0, <2>1, <2>2
  <2> QED BY <2>1, <2>3 DEF Order
<1>8. ASSUME NEW i, Call(i)
      PROVE  Order'
  <2> DEFINE k == Callee(Head(running).unit, i)
  <2>1. CASE functions[k].implemented
    BY <1>8, <2>1 DEF Order, Call
  <2>2. CASE ~functions[k].implemented
    <3>1. phase = "run" /\ Load(k)
      BY <1>8, <2>2 DEF Call
    <3> DEFINE p == functions[k].name.package
    <3>2. CASE p = Main \/ Implementation(p) \notin source.files
      BY <3>1, <3>2 DEF Load, Order
    <3>3. CASE ~(p = Main \/ Implementation(p) \notin source.files)
      <4>1. /\ phase' = "compile" /\ linking' = Len(list) + 1
            /\ compiling' = <<[unit |-> Implementation(p), next |-> 0]>>
            /\ UNCHANGED <<source, known, list, entries>>
        BY <3>1, <3>3 DEF Load, AddTop
      <4>2. Implementation(p) \in Unit
        BY <3>3, <1>0, ProgramTypes, UnitKinds
      <4> HIDE DEF p
      <4>3. compiling' \in Seq(Compilation) /\ compiling' # <<>>
        BY <4>1, <4>2, FirstCompilation
      <4>4. Len(entries) = Len(list)
        BY <3>1 DEF Order
      <4> QED BY <1>0, <4>1, <4>3, <4>4 DEF Order
    <3> QED BY <3>2, <3>3
  <2> QED BY <2>1, <2>2
<1>9. CASE Return
  BY <1>9 DEF Order, Return
<1> QED
  BY <1>1, <1>2, <1>3, <1>4, <1>5, <1>6, <1>7, <1>8, <1>9, <1>11 DEF Next, Loading

LEMMA OrderLinked ==
    ASSUME Order
    PROVE  LinkedInOrder
<1>1. /\ entries \in Seq(Unit) /\ list \in Seq(Unit) /\ Len(entries) <= Len(list)
      /\ \A i \in 1..Len(entries) : entries[i] = list[i]
      /\ phase = "run" => Len(entries) = Len(list)
  BY DEF Order
<1>2. SubSeq(entries, 1, Len(entries)) = SubSeq(list, 1, Len(entries))
  BY <1>1
<1>3. Len(entries) = Len(list) => entries = list
  BY <1>1, SeqEqual
<1> QED
  BY <1>1, <1>2, <1>3 DEF LinkedInOrder, IsPrefix

(* Every executable that the compiler kept is linked exactly once, in the  *)
(* order of the list, and all of them before code runs, whatever the       *)
(* program requires and however often it loads.                            *)
THEOREM InOrder == Spec => []LinkedInOrder
<1>1. Init => Order
  BY OrderInit
<1>2. Order /\ [Next]_vars => Order'
  BY OrderNext
<1>3. Order => LinkedInOrder
  BY OrderLinked
<1> QED
  BY <1>1, <1>2, <1>3, PTL DEF Spec

-----------------------------------------------------------------------------
(* Suppliers come first.                                                   *)

(* Headers do not require each other in a circle: some header of every set *)
(* of packages requires none of the set.                                   *)
HeadersOrdered ==
    \A P \in SUBSET Package : P # {} =>
        \E p \in P : \A n \in DOMAIN Requires[Header(p)] : Requires[Header(p)][n] \notin P

(* What is being compiled is required by what waits beneath it, and the    *)
(* outermost compilation is not one of a header.                           *)
Beneath ==
    phase = "compile" =>
        /\ compiling[Len(compiling)].unit.required = FALSE
        /\ \A i \in 1..(Len(compiling) - 1) :
              /\ compiling[i + 1].next - 1 \in DOMAIN Requires[compiling[i + 1].unit]
              /\ compiling[i].unit =
                    Header(Requires[compiling[i + 1].unit][compiling[i + 1].next - 1])

(* The headers a unit requires are in the list as far as its compilation   *)
(* has gone through them, but for the one that is being compiled.          *)
Passed ==
    phase = "compile" =>
        \A i \in DOMAIN compiling : \A n \in DOMAIN Requires[compiling[i].unit] :
            n < compiling[i].next /\ (i # 1 => n # compiling[i].next - 1) =>
                Header(Requires[compiling[i].unit][n]) \in Range(list)

(* A header that has a compiler is in the list or being compiled.          *)
KnownHeaders ==
    /\ phase = "compile" =>
          \A k \in DOMAIN known :
              \/ Header(known[k]) \in Range(list)
              \/ \E i \in 1..(Len(compiling) - 1) : compiling[i].unit = Header(known[k])
    /\ phase \in {"link", "run"} => known = <<>>

(* The list has no unit twice, and the headers a unit requires are before  *)
(* it.                                                                     *)
Sorted ==
    /\ \A i, j \in DOMAIN list : list[i] = list[j] => i = j
    /\ \A i \in DOMAIN list : \A n \in DOMAIN Requires[list[i]] :
          \E j \in 1..(i - 1) : list[j] = Header(Requires[list[i]][n])

Supply == Order /\ HeadersOrdered /\ Beneath /\ Passed /\ KnownHeaders /\ Sorted

LEMMA SupplyInit ==
    ASSUME Init, HeadersOrdered
    PROVE  Supply
<1>1. /\ compiling = <<[unit |-> MainUnit, next |-> 0]>> /\ list = <<>> /\ known = <<>>
      /\ phase = "compile" /\ source \in Programs
  BY DEF Init
<1>2. /\ Len(compiling) = 1 /\ compiling[1].unit = MainUnit /\ compiling[1].next = 0
      /\ DOMAIN compiling = {1} /\ MainUnit \in Unit /\ MainUnit.required = FALSE
  BY <1>1, UnitKinds, FirstCompilation
<1>3. Beneath
  BY <1>1, <1>2 DEF Beneath
<1>4. Passed
  BY <1>1, <1>2, RequiresTypes DEF Passed
<1>5. KnownHeaders /\ Sorted
  BY <1>1 DEF KnownHeaders, Sorted
<1> QED
  BY <1>3, <1>4, <1>5, OrderInit DEF Supply

(* Facts that every step needs.                                            *)
LEMMA SupplyTypes ==
    ASSUME Supply, [Next]_vars
    PROVE  /\ source \in Programs /\ compiling \in Seq(Compilation)
           /\ Len(compiling) \in Nat /\ DOMAIN compiling = 1..Len(compiling)
           /\ \A i \in DOMAIN compiling : compiling[i].unit \in Unit /\ compiling[i].next \in Nat
           /\ list \in Seq(Unit) /\ Len(list) \in Nat /\ DOMAIN list = 1..Len(list)
           /\ Requires' = Requires
           /\ Order' /\ HeadersOrdered'
           /\ phase = "compile" => compiling # <<>>
<1>1. Order /\ source' = source
  BY SourceFixed DEF Supply
<1>2. /\ source \in Programs /\ compiling \in Seq(Compilation) /\ list \in Seq(Unit)
      /\ phase = "compile" => compiling # <<>>
  BY <1>1 DEF Order
<1>3. \A i \in DOMAIN compiling : compiling[i].unit \in Unit /\ compiling[i].next \in Nat
  <2> TAKE i \in DOMAIN compiling
  <2>1. compiling[i] \in Compilation
    BY <1>2
  <2> QED BY <2>1 DEF Compilation
<1>4. Order' /\ Requires' = Requires
  BY <1>1, OrderNext, RequiresFixed
<1>5. HeadersOrdered'
  BY <1>4 DEF Supply, HeadersOrdered
<1> QED
  BY <1>2, <1>3, <1>4, <1>5

(* What the innermost compilation requires next is not being compiled: it  *)
(* would be part of a circle.                                              *)
LEMMA NoCircle ==
    ASSUME Supply, phase = "compile", Compiler.next \in DOMAIN Requires[Compiler.unit],
           NEW i \in 1..(Len(compiling) - 1),
           compiling[i].unit = Header(Requires[Compiler.unit][Compiler.next])
    PROVE  FALSE
<1> DEFINE P == {q \in Package : \E j \in 1..i : compiling[j].unit = Header(q)}
<1>1. /\ compiling \in Seq(Compilation) /\ compiling # <<>> /\ source \in Programs
      /\ Len(compiling) \in Nat /\ HeadersOrdered /\ Beneath
  BY DEF Supply, Order
<1>2. Compiler = compiling[1] /\ Compiler.unit \in Unit
  BY <1>1, CompilerParts
<1>3. Requires[Compiler.unit][Compiler.next] \in P
  BY <1>1, <1>2, RequiresTypes
<1>4. ASSUME NEW q \in P
      PROVE  \E n \in DOMAIN Requires[Header(q)] : Requires[Header(q)][n] \in P
  <2>1. PICK j \in 1..i : compiling[j].unit = Header(q)
    OBVIOUS
  <2>2. CASE j = 1
    BY <1>2, <1>3, <2>1, <2>2
  <2>3. CASE j # 1
    <3> DEFINE n == compiling[j].next - 1
    <3>1. j - 1 \in 1..(Len(compiling) - 1) /\ (j - 1) + 1 = j /\ j - 1 \in 1..i
      BY <1>1, <2>3
    <3>2. /\ n \in DOMAIN Requires[Header(q)]
          /\ compiling[j - 1].unit = Header(Requires[Header(q)][n])
      BY <1>1, <2>1, <3>1 DEF Beneath
    <3>3. Requires[Header(q)][n] \in Package
      BY <1>1, <3>2, RequiresTypes, UnitKinds
    <3> QED BY <3>1, <3>2, <3>3
  <2> QED BY <2>2, <2>3
<1> HIDE DEF P
<1>5. P \in SUBSET Package
  BY DEF P
<1> QED
  BY <1>1, <1>3, <1>4, <1>5 DEF HeadersOrdered

LEMMA SupplyFail ==
    ASSUME Supply, [Next]_vars, NEW reason, Fail(reason)
    PROVE  Supply'
<1>1. phase' = "error" /\ list' = list
  BY DEF Fail
<1>2. Sorted'
  BY <1>1, SupplyTypes DEF Supply, Sorted
<1> QED
  BY <1>1, <1>2, SupplyTypes DEF Supply, Beneath, Passed, KnownHeaders

LEMMA SupplyParse ==
    ASSUME Supply, [Next]_vars, Parse
    PROVE  Supply'
<1>1. CASE RequireError(Compiler.unit)
  BY <1>1, SupplyFail DEF Parse
<1>2. CASE ~RequireError(Compiler.unit)
  <2> DEFINE e == [Compiler EXCEPT !.next = 1]
  <2>1. /\ phase = "compile" /\ compiling' = <<e>> \o Tail(compiling)
        /\ UNCHANGED <<phase, known, list>>
    BY <1>2 DEF Parse
  <2>2. /\ compiling \in Seq(Compilation) /\ compiling # <<>>
        /\ e \in Compilation /\ e.unit = compiling[1].unit /\ e.next = 1
    BY <2>1, SupplyTypes, CompilerParts
  <2> HIDE DEF e
  <2>3. /\ compiling' \in Seq(Compilation) /\ Len(compiling') = Len(compiling)
        /\ DOMAIN compiling' = DOMAIN compiling /\ Len(compiling) \in Nat \ {0}
        /\ compiling'[1] = e
        /\ \A i \in 2..Len(compiling) : compiling'[i] = compiling[i]
    BY <2>1, <2>2, StackReplace
  <2>4. Beneath'
    <3>1. /\ compiling'[Len(compiling)].unit = compiling[Len(compiling)].unit
          /\ \A i \in 1..(Len(compiling) - 1) :
                /\ compiling'[i + 1] = compiling[i + 1]
                /\ compiling'[i].unit = compiling[i].unit
      BY <2>2, <2>3
    <3> QED BY <2>1, <2>3, <3>1, SupplyTypes DEF Supply, Beneath
  <2>5. Passed'
    <3> SUFFICES ASSUME NEW i \in DOMAIN compiling, NEW n \in DOMAIN Requires[compiling'[i].unit],
                        n < compiling'[i].next, i # 1 => n # compiling'[i].next - 1
                 PROVE  Header(Requires[compiling'[i].unit][n]) \in Range(list)
      BY <2>1, <2>3, SupplyTypes DEF Passed
    <3>1. n \in Nat \ {0}
      BY <2>2, <2>3, SupplyTypes, RequiresTypes
    <3>2. i # 1 /\ compiling'[i] = compiling[i]
      BY <2>2, <2>3, <3>1, SupplyTypes
    <3> QED BY <2>1, <3>2 DEF Supply, Passed
  <2>6. KnownHeaders'
    <3>1. \A i \in 1..(Len(compiling) - 1) : compiling'[i].unit = compiling[i].unit
      BY <2>2, <2>3
    <3> QED BY <2>1, <2>3, <3>1 DEF Supply, KnownHeaders
  <2>7. Sorted'
    BY <2>1, SupplyTypes DEF Supply, Sorted
  <2> QED BY <2>4, <2>5, <2>6, <2>7, SupplyTypes DEF Supply
<1> QED BY <1>1, <1>2

LEMMA SupplyRequire ==
    ASSUME Supply, [Next]_vars, Require
    PROVE  Supply'
<1> DEFINE p == Required(Compiler)
           e == [Compiler EXCEPT !.next = @ + 1]
           rest == <<e>> \o Tail(compiling)
           c == [unit |-> Header(p), next |-> 0]
<1>1. /\ phase = "compile" /\ compiling \in Seq(Compilation) /\ compiling # <<>>
      /\ source \in Programs /\ known \in Seq(Package)
  BY SupplyTypes DEF Require, Supply, Order
<1>2. /\ Compiler = compiling[1] /\ Compiler.unit \in Unit /\ Compiler.next \in Nat
      /\ Compiler.next \in DOMAIN Requires[Compiler.unit]
      /\ p = Requires[Compiler.unit][Compiler.next] /\ p \in Package
  BY <1>1, CompilerParts, RequiresTypes DEF Require, Required
<1>3. /\ e \in Compilation /\ e.unit = compiling[1].unit /\ e.next = compiling[1].next + 1
      /\ c \in Compilation /\ c.unit = Header(p) /\ c.next = 0
  BY <1>1, <1>2, CompilerParts, FirstCompilation, UnitKinds
<1>4. /\ rest \in Seq(Compilation) /\ Len(rest) = Len(compiling) /\ rest # <<>>
      /\ Len(compiling) \in Nat \ {0} /\ rest[1] = e
      /\ \A i \in 2..Len(compiling) : rest[i] = compiling[i]
  BY <1>1, <1>3, StackReplace
<1>5. /\ Len(<<c>> \o rest) = Len(compiling) + 1 /\ <<c>> \o rest \in Seq(Compilation)
      /\ (<<c>> \o rest)[1] = c
      /\ \A i \in 1..Len(compiling) : (<<c>> \o rest)[i + 1] = rest[i]
  BY <1>3, <1>4, StackPush
<1>6. Header(p) \in Range(list) \/ p \notin Range(known)
  <2> SUFFICES ASSUME NEW k \in DOMAIN known, known[k] = p
               PROVE  Header(p) \in Range(list)
    BY DEF Range
  <2>1. \A i \in 1..(Len(compiling) - 1) : compiling[i].unit # Header(p)
    BY <1>1, <1>2, NoCircle
  <2> QED BY <1>1, <2>1 DEF Supply, KnownHeaders
<1>7. CASE p \in Range(known)
  <2>1. compiling' = rest /\ UNCHANGED <<phase, known, list>>
    BY <1>7 DEF Require
  <2>2. DOMAIN compiling' = DOMAIN compiling
    BY <1>1, <1>4, <2>1
  <2> HIDE DEF rest, e, p, c
  <2>3. Beneath'
    <3>1. /\ compiling'[Len(compiling)].unit = compiling[Len(compiling)].unit
          /\ \A i \in 1..(Len(compiling) - 1) :
                /\ compiling'[i + 1] = compiling[i + 1]
                /\ compiling'[i].unit = compiling[i].unit
      BY <1>3, <1>4, <2>1
    <3> QED BY <1>1, <1>4, <2>1, <3>1, SupplyTypes DEF Supply, Beneath
  <2>4. Passed'
    <3> SUFFICES ASSUME NEW i \in DOMAIN compiling, NEW n \in DOMAIN Requires[rest[i].unit],
                        n < rest[i].next, i # 1 => n # rest[i].next - 1
                 PROVE  Header(Requires[rest[i].unit][n]) \in Range(list)
      BY <2>1, <2>2, SupplyTypes DEF Passed
    <3>1. CASE i = 1
      <4>1. n \in Nat /\ n \in DOMAIN Requires[compiling[1].unit]
        BY <1>1, <1>2, <1>3, <1>4, <3>1, RequiresTypes
      <4>2. CASE n = compiling[1].next
        BY <1>2, <1>3, <1>4, <1>6, <1>7, <3>1, <4>2
      <4>3. CASE n # compiling[1].next
        <5>1. n < compiling[1].next
          BY <1>2, <1>3, <1>4, <3>1, <4>1, <4>3
        <5> QED BY <1>1, <1>3, <1>4, <3>1, <4>1, <5>1 DEF Supply, Passed
      <4> QED BY <4>2, <4>3
    <3>2. CASE i # 1
      <4>1. rest[i] = compiling[i]
        BY <1>1, <1>4, <3>2
      <4> QED BY <1>1, <3>2, <4>1 DEF Supply, Passed
    <3> QED BY <3>1, <3>2
  <2>5. KnownHeaders'
    <3>1. \A i \in 1..(Len(compiling) - 1) : compiling'[i].unit = compiling[i].unit
      BY <1>3, <1>4, <2>1
    <3> QED BY <1>1, <1>4, <2>1, <3>1 DEF Supply, KnownHeaders
  <2>6. Sorted'
    BY <2>1, SupplyTypes DEF Supply, Sorted
  <2> QED BY <2>3, <2>4, <2>5, <2>6, SupplyTypes DEF Supply
<1>8. CASE p \notin Range(known) /\ Header(p) \in source.files
  <2>1. /\ compiling' = <<c>> \o rest /\ known' = Append(known, p)
        /\ UNCHANGED <<phase, list>>
    BY <1>8 DEF Require
  <2> DEFINE cs == <<c>> \o rest
  <2>2. /\ cs \in Seq(Compilation) /\ Len(cs) = Len(compiling) + 1
        /\ DOMAIN cs = 1..(Len(compiling) + 1) /\ Len(compiling) \in Nat \ {0}
        /\ cs[1].unit = Header(p) /\ cs[1].next = 0
        /\ cs[2].unit = compiling[1].unit /\ cs[2].next = compiling[1].next + 1
        /\ \A i \in 3..(Len(compiling) + 1) : cs[i] = compiling[i - 1]
    <3> HIDE DEF rest, e, p, c
    <3>1. cs[2] = rest[1]
      BY <1>4, <1>5
    <3>2. ASSUME NEW i \in 3..(Len(compiling) + 1)
          PROVE  cs[i] = compiling[i - 1]
      <4>1. i - 1 \in 2..Len(compiling) /\ (i - 1) + 1 = i /\ i - 1 \in 1..Len(compiling)
        BY <1>4
      <4> QED BY <1>4, <1>5, <4>1
    <3> QED BY <1>3, <1>4, <1>5, <3>1, <3>2
  <2>3. compiling' = cs
    BY <2>1
  <2> HIDE DEF cs, rest, e, p, c
  <2>4. Beneath'
    <3>1. cs[Len(compiling) + 1].unit = compiling[Len(compiling)].unit
      BY <2>2
    <3>2. ASSUME NEW i \in 1..Len(compiling)
          PROVE  /\ cs[i + 1].next - 1 \in DOMAIN Requires[cs[i + 1].unit]
                 /\ cs[i].unit = Header(Requires[cs[i + 1].unit][cs[i + 1].next - 1])
      <4>1. CASE i = 1
        BY <1>2, <2>2, <4>1
      <4>2. CASE i # 1
        <5> DEFINE k == i - 1
        <5>1. k \in 1..(Len(compiling) - 1) /\ i = k + 1
          BY <2>2, <4>2
        <5>2. cs[i + 1] = compiling[k + 1] /\ cs[i].unit = compiling[k].unit
          BY <2>2, <5>1
        <5> QED BY <1>1, <5>1, <5>2 DEF Supply, Beneath
      <4> QED BY <4>1, <4>2
    <3>3. compiling[Len(compiling)].unit.required = FALSE
      BY <1>1 DEF Supply, Beneath
    <3>4. Len(compiling') = Len(compiling) + 1 /\ Len(compiling') - 1 = Len(compiling)
      BY <2>2, <2>3
    <3> QED BY <2>3, <3>1, <3>2, <3>3, <3>4, SupplyTypes DEF Beneath
  <2>5. Passed'
    <3> SUFFICES ASSUME NEW i \in DOMAIN cs, NEW n \in DOMAIN Requires[cs[i].unit],
                        n < cs[i].next, i # 1 => n # cs[i].next - 1
                 PROVE  Header(Requires[cs[i].unit][n]) \in Range(list)
      BY <2>1, <2>3, SupplyTypes DEF Passed
    <3>1. n \in Nat \ {0}
      <4>1. cs[i] \in Compilation
        BY <2>2
      <4>2. cs[i].unit \in Unit
        BY <4>1 DEF Compilation
      <4> QED BY <1>1, <4>2, RequiresTypes
    <3>2. CASE i = 1
      BY <2>2, <3>1, <3>2
    <3>3. CASE i = 2
      <4>1. n < compiling[1].next
        BY <1>2, <2>2, <3>1, <3>3
      <4> QED BY <1>1, <2>2, <3>3, <4>1 DEF Supply, Passed
    <3>4. CASE i \notin {1, 2}
      <4>1. i - 1 \in DOMAIN compiling /\ i - 1 # 1 /\ cs[i] = compiling[i - 1]
        BY <1>1, <2>2, <3>4
      <4> QED BY <1>1, <4>1 DEF Supply, Passed
    <3> QED BY <3>2, <3>3, <3>4
  <2>6. KnownHeaders'
    <3> SUFFICES ASSUME NEW k \in DOMAIN known'
                 PROVE  \/ Header(known'[k]) \in Range(list)
                        \/ \E i \in 1..Len(compiling) : cs[i].unit = Header(known'[k])
      <4>1. Len(compiling') - 1 = Len(compiling) /\ phase' = "compile" /\ list' = list
        BY <1>1, <2>1, <2>2, <2>3
      <4> QED BY <2>3, <4>1 DEF KnownHeaders
    <3>1. CASE k = Len(known) + 1
      <4>1. known'[k] = p
        BY <1>1, <1>2, <2>1, <3>1
      <4> QED BY <2>2, <4>1
    <3>2. CASE k # Len(known) + 1
      <4>1. k \in DOMAIN known /\ known'[k] = known[k]
        BY <1>1, <1>2, <2>1, <3>2
      <4>2. CASE Header(known[k]) \in Range(list)
        BY <4>1, <4>2
      <4>3. ASSUME NEW i \in 1..(Len(compiling) - 1), compiling[i].unit = Header(known[k])
            PROVE  i + 1 \in 1..Len(compiling) /\ cs[i + 1].unit = Header(known[k])
        BY <2>2, <4>3
      <4> QED BY <1>1, <4>1, <4>2, <4>3 DEF Supply, KnownHeaders
    <3> QED BY <3>1, <3>2
  <2>7. Sorted'
    BY <2>1, SupplyTypes DEF Supply, Sorted
  <2> QED BY <2>4, <2>5, <2>6, <2>7, SupplyTypes DEF Supply
<1>9. CASE p \notin Range(known) /\ Header(p) \notin source.files
  BY <1>9, SupplyFail DEF Require
<1> QED BY <1>7, <1>8, <1>9
LEMMA SupplyGenerate ==
    ASSUME Supply, [Next]_vars, Generate
    PROVE  Supply'
<1> DEFINE u == Compiler.unit
<1>1. /\ phase = "compile" /\ compiling \in Seq(Compilation) /\ compiling # <<>>
      /\ source \in Programs /\ list \in Seq(Unit) /\ known \in Seq(Package)
      /\ Compiler.next = Len(Requires[Compiler.unit]) + 1
  <2>1. /\ phase = "compile" /\ compiling \in Seq(Compilation) /\ compiling # <<>>
        /\ source \in Programs /\ list \in Seq(Unit) /\ known \in Seq(Package)
        /\ Compiler.next = Len(RequireList(Compiler.unit)) + 1
    BY SupplyTypes DEF Generate, ReadyToGenerate, Supply, Order
  <2>2. Compiler.unit \in Unit
    BY <2>1, CompilerParts
  <2> QED BY <2>1, <2>2, RequiresTypes
<1>2. u \in Unit /\ u = compiling[1].unit /\ Compiler.next = compiling[1].next
  BY <1>1, CompilerParts
<1>3. /\ Len(compiling) \in Nat \ {0} /\ DOMAIN compiling = 1..Len(compiling)
      /\ Tail(compiling) \in Seq(Compilation) /\ Len(Tail(compiling)) = Len(compiling) - 1
      /\ \A i \in 1..(Len(compiling) - 1) : Tail(compiling)[i] = compiling[i + 1]
  BY <1>1, StackParts
<1>4. CASE IdentifierNotFound(u)
  BY <1>4, SupplyFail DEF Generate
<1>5. CASE ~IdentifierNotFound(u) /\ FunctionMissing(u)
  BY <1>5, SupplyFail DEF Generate
<1>6. CASE ~IdentifierNotFound(u) /\ ~FunctionMissing(u)
  <2>1. /\ list' = AddToList(u) /\ compiling' = Tail(compiling)
        /\ IF Len(compiling) > 1 THEN phase' = phase /\ known' = known
           ELSE phase' = "link" /\ known' = <<>>
    BY <1>6 DEF Generate
  <2> HIDE DEF u
  (* All that u requires is in the list. *)
  <2>2. \A n \in DOMAIN Requires[u] : Header(Requires[u][n]) \in Range(list)
    <3> TAKE n \in DOMAIN Requires[u]
    <3>1. n < compiling[1].next
      BY <1>1, <1>2, RequiresTypes DEF u
    <3> QED BY <1>1, <1>2, <1>3, <3>1 DEF Supply, Passed
  <2>3. /\ list' \in Seq(Unit) /\ Len(list) \in Nat /\ Len(list') \in Nat
        /\ DOMAIN list = 1..Len(list) /\ DOMAIN list' = 1..Len(list')
        /\ \A j \in DOMAIN list : j \in DOMAIN list' /\ list'[j] = list[j]
        /\ \A j \in DOMAIN list' : j \in DOMAIN list \/ (j = Len(list) + 1 /\ list'[j] = u)
        /\ u \in Range(list')
        /\ (Len(list) + 1 \in DOMAIN list' => u \notin Range(list))
    <3>1. CASE u \in Range(list)
      BY <1>1, <2>1, <3>1 DEF AddToList
    <3>2. CASE u \notin Range(list)
      <4>1. list' = Append(list, u)
        BY <2>1, <3>2 DEF AddToList
      <4>2. /\ list' \in Seq(Unit) /\ Len(list) \in Nat /\ Len(list') = Len(list) + 1
            /\ DOMAIN list = 1..Len(list) /\ DOMAIN list' = 1..Len(list')
            /\ list'[Len(list) + 1] = u
            /\ \A j \in 1..Len(list) : list'[j] = list[j]
        BY <1>1, <1>2, <4>1, AppendProperties
      <4>3. Len(list) + 1 \in DOMAIN list'
        BY <4>2
      <4>4. u \in Range(list')
        BY <4>2, <4>3 DEF Range
      <4> QED BY <3>2, <4>2, <4>4
    <3> QED BY <3>1, <3>2
  <2>4. Range(list) \subseteq Range(list')
    BY <2>3 DEF Range
  <2>5. Sorted'
    <3>1. ASSUME NEW i \in DOMAIN list', NEW j \in DOMAIN list', list'[i] = list'[j]
          PROVE  i = j
      <4>1. \A k \in DOMAIN list : list[k] \in Range(list)
        BY DEF Range
      <4>2. CASE i \in DOMAIN list /\ j \in DOMAIN list
        BY <2>3, <3>1, <4>2 DEF Supply, Sorted
      <4>3. CASE i \in DOMAIN list /\ j \notin DOMAIN list
        BY <2>3, <3>1, <4>1, <4>3
      <4>4. CASE i \notin DOMAIN list /\ j \in DOMAIN list
        BY <2>3, <3>1, <4>1, <4>4
      <4>5. CASE i \notin DOMAIN list /\ j \notin DOMAIN list
        BY <2>3, <4>5
      <4> QED BY <4>2, <4>3, <4>4, <4>5
    <3>2. ASSUME NEW i \in DOMAIN list', NEW n \in DOMAIN Requires[list'[i]]
          PROVE  \E j \in 1..(i - 1) : list'[j] = Header(Requires[list'[i]][n])
      <4>1. CASE i \in DOMAIN list
        <5>1. PICK j \in 1..(i - 1) : list[j] = Header(Requires[list[i]][n])
          BY <2>3, <3>2, <4>1 DEF Supply, Sorted
        <5>2. j \in DOMAIN list
          BY <2>3, <4>1
        <5> QED BY <2>3, <4>1, <5>1, <5>2
      <4>2. CASE i \notin DOMAIN list
        <5>1. i = Len(list) + 1 /\ list'[i] = u
          BY <2>3, <4>2
        <5>2. PICK j \in DOMAIN list : list[j] = Header(Requires[u][n])
          BY <2>2, <3>2, <5>1 DEF Range
        <5>3. j \in 1..(i - 1)
          BY <2>3, <5>1
        <5> QED BY <2>3, <5>1, <5>2, <5>3
      <4> QED BY <4>1, <4>2
    <3> QED BY <3>1, <3>2, SupplyTypes DEF Sorted
  <2>6. CASE Len(compiling) > 1
    <3> DEFINE cs == Tail(compiling)
               m == Len(compiling) - 1
    <3>1. /\ cs \in Seq(Compilation) /\ Len(cs) = m /\ m \in Nat \ {0} /\ DOMAIN cs = 1..m
          /\ \A i \in 1..m : cs[i] = compiling[i + 1] /\ i + 1 \in 1..(m + 1)
          /\ m + 1 = Len(compiling)
      BY <1>3, <2>6
    <3>2. compiling' = cs /\ phase' = "compile" /\ known' = known
      BY <1>1, <2>1, <2>6
    <3> HIDE DEF cs
    <3>3. Beneath'
      <4>1. cs[m].unit.required = FALSE
        BY <1>1, <3>1 DEF Supply, Beneath
      <4>2. ASSUME NEW i \in 1..(m - 1)
            PROVE  /\ cs[i + 1].next - 1 \in DOMAIN Requires[cs[i + 1].unit]
                   /\ cs[i].unit = Header(Requires[cs[i + 1].unit][cs[i + 1].next - 1])
        <5>1. i + 1 \in 1..(Len(compiling) - 1)
          BY <3>1
        <5>2. cs[i] = compiling[i + 1] /\ cs[i + 1] = compiling[(i + 1) + 1]
          BY <3>1
        <5> QED BY <1>1, <5>1, <5>2 DEF Supply, Beneath
      <4> QED BY <3>1, <3>2, <4>1, <4>2, SupplyTypes DEF Beneath
    <3>4. Passed'
      <4> SUFFICES ASSUME NEW i \in DOMAIN cs, NEW n \in DOMAIN Requires[cs[i].unit],
                          n < cs[i].next, i # 1 => n # cs[i].next - 1
                   PROVE  Header(Requires[cs[i].unit][n]) \in Range(list')
        BY <3>2, SupplyTypes DEF Passed
      <4>1. cs[i] = compiling[i + 1] /\ i + 1 \in DOMAIN compiling /\ i + 1 # 1
        BY <1>3, <3>1
      <4>2. CASE n # cs[i].next - 1
        BY <1>1, <2>4, <4>1, <4>2 DEF Supply, Passed
      <4>3. CASE n = cs[i].next - 1
        <5>1. i = 1
          BY <4>3
        <5>2. 1 \in 1..(Len(compiling) - 1) /\ cs[1] = compiling[1 + 1]
          BY <3>1
        <5>3. compiling[1].unit = Header(Requires[compiling[1 + 1].unit][compiling[1 + 1].next - 1])
          BY <1>1, <5>2 DEF Supply, Beneath
        <5>4. Header(Requires[cs[i].unit][n]) = u
          BY <1>2, <4>3, <5>1, <5>2, <5>3
        <5> QED BY <2>3, <5>4
      <4> QED BY <4>2, <4>3
    <3>5. KnownHeaders'
      <4> SUFFICES ASSUME NEW k \in DOMAIN known
                   PROVE  \/ Header(known[k]) \in Range(list')
                          \/ \E i \in 1..(m - 1) : cs[i].unit = Header(known[k])
        BY <3>1, <3>2 DEF KnownHeaders
      <4>1. CASE Header(known[k]) \in Range(list)
        BY <2>4, <4>1
      <4>2. ASSUME NEW i \in 1..m, compiling[i].unit = Header(known[k])
            PROVE  \/ Header(known[k]) \in Range(list')
                   \/ \E j \in 1..(m - 1) : cs[j].unit = Header(known[k])
        <5>1. CASE i = 1
          BY <1>2, <2>3, <4>2, <5>1
        <5>2. CASE i # 1
          <6>1. i - 1 \in 1..(m - 1) /\ i - 1 \in 1..m /\ (i - 1) + 1 = i
            BY <3>1, <5>2
          <6>2. cs[i - 1] = compiling[i]
            BY <3>1, <6>1
          <6> QED BY <4>2, <6>1, <6>2
        <5> QED BY <5>1, <5>2
      <4> QED BY <1>1, <3>1, <4>1, <4>2 DEF Supply, KnownHeaders
    <3> QED BY <2>5, <3>3, <3>4, <3>5, SupplyTypes DEF Supply
  <2>7. CASE ~(Len(compiling) > 1)
    <3>1. phase' = "link" /\ known' = <<>>
      BY <2>1, <2>7
    <3> QED BY <2>5, <3>1, SupplyTypes DEF Supply, Beneath, Passed, KnownHeaders
  <2> QED BY <2>6, <2>7
<1> QED BY <1>4, <1>5, <1>6

LEMMA SupplyNext ==
    ASSUME Supply, [Next]_vars
    PROVE  Supply'
<1>1. ASSUME phase' \in {"link", "run", "error"}, list' = list,
             phase' # "error" => phase \in {"link", "run"} /\ known' = known
      PROVE  Supply'
  <2>1. Sorted'
    BY <1>1, SupplyTypes DEF Supply, Sorted
  <2>2. KnownHeaders'
    BY <1>1 DEF Supply, KnownHeaders
  <2> QED BY <1>1, <2>1, <2>2, SupplyTypes DEF Supply, Beneath, Passed
<1>2. CASE UNCHANGED vars
  <2>1. UNCHANGED <<phase, compiling, known, list>>
    BY <1>2 DEF vars
  <2>2. Beneath'
    BY <2>1, SupplyTypes DEF Supply, Beneath
  <2>3. Passed'
    BY <2>1, SupplyTypes DEF Supply, Passed
  <2>4. KnownHeaders'
    BY <2>1 DEF Supply, KnownHeaders
  <2>5. Sorted'
    BY <2>1, SupplyTypes DEF Supply, Sorted
  <2> QED BY <2>2, <2>3, <2>4, <2>5, SupplyTypes DEF Supply
<1>3. CASE Parse
  BY <1>3, SupplyParse
<1>4. CASE Require
  BY <1>4, SupplyRequire
<1>5. CASE Generate
  BY <1>5, SupplyGenerate
<1>11. CASE NullType
  BY <1>11, SupplyFail DEF NullType
<1>6. CASE Link
  BY <1>1, <1>6 DEF Link, ReadyToLink, Fail
<1>7. CASE Dispose
  BY <1>1, <1>7 DEF Dispose
<1>8. CASE Start
  BY <1>1, <1>8 DEF Start
<1>9. ASSUME NEW i, Call(i)
      PROVE  Supply'
  <2> DEFINE k == Callee(Head(running).unit, i)
             p == functions[k].name.package
  <2>1. CASE functions[k].implemented
    BY <1>1, <1>9, <2>1 DEF Call
  <2>2. CASE ~functions[k].implemented /\ (p = Main \/ Implementation(p) \notin source.files)
    BY <1>1, <1>9, <2>2 DEF Call, Load
  <2>3. CASE ~functions[k].implemented /\ ~(p = Main \/ Implementation(p) \notin source.files)
    <3>1. /\ compiling' = <<[unit |-> Implementation(p), next |-> 0]>>
          /\ phase = "run" /\ phase' = "compile" /\ UNCHANGED <<known, list>>
      BY <1>9, <2>3 DEF Call, Load
    <3>2. Implementation(p) \in Unit /\ Implementation(p).required = FALSE
      BY <2>3, SupplyTypes, ProgramTypes, UnitKinds DEF Implementation
    <3> HIDE DEF k, p
    <3>3. /\ Len(compiling') = 1 /\ compiling'[1].unit = Implementation(p)
          /\ compiling'[1].next = 0 /\ DOMAIN compiling' = {1}
      BY <3>1, <3>2, FirstCompilation
    <3>4. known' = <<>>
      BY <3>1 DEF Supply, KnownHeaders
    <3>5. Beneath'
      BY <3>1, <3>2, <3>3 DEF Beneath
    <3>6. Passed'
      BY <3>1, <3>2, <3>3, SupplyTypes, RequiresTypes DEF Passed
    <3>7. KnownHeaders'
      BY <3>1, <3>4 DEF KnownHeaders
    <3>8. Sorted'
      BY <3>1, SupplyTypes DEF Supply, Sorted
    <3> QED BY <3>5, <3>6, <3>7, <3>8, SupplyTypes DEF Supply
  <2> QED BY <2>1, <2>2, <2>3
<1>10. CASE Return
  BY <1>1, <1>10 DEF Return
<1> QED
  BY <1>2, <1>3, <1>4, <1>5, <1>6, <1>7, <1>8, <1>9, <1>10, <1>11 DEF Next, Loading

LEMMA SupplySuppliers ==
    ASSUME Supply
    PROVE  SuppliersFirst
<1>1. /\ source \in Programs /\ entries \in Seq(Unit) /\ list \in Seq(Unit)
      /\ Len(entries) <= Len(list)
      /\ \A i \in 1..Len(entries) : entries[i] = list[i]
  BY DEF Supply, Order
<1>2. ASSUME NEW i \in DOMAIN entries, NEW p \in Range(RequireList(entries[i]))
      PROVE  \E j \in 1..(i - 1) : entries[j] = Header(p)
  <2>1. /\ i \in DOMAIN list /\ entries[i] = list[i] /\ list[i] \in Unit
        /\ DOMAIN entries = 1..Len(entries) /\ Len(entries) \in Nat
    BY <1>1
  <2>2. PICK n \in DOMAIN Requires[list[i]] : p = Requires[list[i]][n]
    BY <1>1, <2>1, RequiresTypes DEF Range
  <2>3. PICK j \in 1..(i - 1) : list[j] = Header(p)
    BY <2>1, <2>2 DEF Supply, Sorted
  <2>4. j \in 1..Len(entries)
    BY <2>1
  <2> QED BY <1>1, <2>3, <2>4
<1> QED
  BY <1>2 DEF SuppliersFirst

(* If headers do not require each other in a circle, a header is linked    *)
(* before everything that requires it, also when part of it was loaded     *)
(* earlier and the rest when a function was first called.                  *)
THEOREM Suppliers == Spec /\ HeadersOrdered => []SuppliersFirst
<1>1. Init /\ HeadersOrdered => Supply
  BY SupplyInit
<1>2. Supply /\ [Next]_vars => Supply'
  BY SupplyNext
<1>3. Supply => SuppliersFirst
  BY SupplySuppliers
<1> QED
  BY <1>1, <1>2, <1>3, PTL DEF Spec
=============================================================================
