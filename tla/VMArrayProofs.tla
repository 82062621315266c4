---------------------------- MODULE VMArrayProofs ----------------------------
(***************************************************************************)
(* The methods of arrays do what they mean to the sequence of the          *)
(* elements, and keep the block right, for every ARRAY_ALLOC_SIZE, every   *)
(* array and all arguments; and when exactly resize does not.              *)
(***************************************************************************)
EXTENDS VMArray, SequenceTheorems, TLAPS

(* An array as the machine has it: the elements are in the block, which is *)
(* at most ARRAY_ALLOC_SIZE larger, and the heap is charged for it.        *)
Array == [cells : Seq(Int), size : Nat, charged : Int]
InBlock(array) ==
    /\ array \in Array
    /\ array.size <= Allocated(array)
    /\ array.charged = Allocated(array)
Whole(array) == InBlock(array) /\ Allocated(array) - array.size <= ArrayAllocSize

(* A method has done what it means: it raises when it should, and leaves   *)
(* the array whole, with the elements that the meaning has.                *)
Right(done, says) ==
    /\ ~done.overrun
    /\ done.raises = says.raises /\ done.result = says.result
    /\ Whole(done.array) /\ Elements(done.array) = says.elements

-----------------------------------------------------------------------------
(* Sequences.                                                              *)

LEMMA ElementsAre ==
    ASSUME NEW array, InBlock(array)
    PROVE  /\ Elements(array) \in Seq(Int) /\ Len(Elements(array)) = array.size
           /\ \A i \in 1..array.size : Elements(array)[i] = array.cells[i]
           /\ \A i \in 1..array.size : i \in 1..Allocated(array)
  BY DEF InBlock, Array, Elements, Allocated

LEMMA InsertedAt ==
    ASSUME NEW s \in Seq(Int), NEW p \in 1..(Len(s) + 1), NEW e \in Int
    PROVE  /\ InsertAt(s, p, e) \in Seq(Int) /\ Len(InsertAt(s, p, e)) = Len(s) + 1
           /\ \A i \in 1..(Len(s) + 1) :
                 InsertAt(s, p, e)[i] = IF i < p THEN s[i] ELSE IF i = p THEN e ELSE s[i - 1]
<1> DEFINE f == SubSeq(s, 1, p - 1)
           g == SubSeq(s, p, Len(s))
<1>1. /\ f \in Seq(Int) /\ Len(f) = p - 1 /\ \A i \in 1..(p - 1) : f[i] = s[i]
  OBVIOUS
<1>2. /\ g \in Seq(Int) /\ Len(g) = Len(s) - p + 1
      /\ \A i \in 1..(Len(s) - p + 1) : g[i] = s[p + i - 1]
  OBVIOUS
<1>3. InsertAt(s, p, e) = (f \o <<e>>) \o g
  BY DEF InsertAt
<1> HIDE DEF f, g
<1> DEFINE h == f \o <<e>>
<1>4. /\ h \in Seq(Int) /\ Len(h) = p
      /\ \A i \in 1..p : h[i] = IF i < p THEN s[i] ELSE e
  BY <1>1
<1> HIDE DEF h
<1>5. /\ h \o g \in Seq(Int) /\ Len(h \o g) = Len(s) + 1
      /\ \A i \in 1..(Len(s) + 1) : (h \o g)[i] = IF i <= p THEN h[i] ELSE g[i - p]
  <2>1. /\ h \o g \in Seq(Int) /\ Len(h \o g) = Len(h) + Len(g)
        /\ \A i \in 1..(Len(h) + Len(g)) :
              (h \o g)[i] = IF i <= Len(h) THEN h[i] ELSE g[i - Len(h)]
    BY <1>2, <1>4, ConcatProperties
  <2>2. Len(h) + Len(g) = Len(s) + 1
    BY <1>2, <1>4
  <2> QED BY <1>4, <2>1, <2>2
<1>6. ASSUME NEW i \in 1..(Len(s) + 1)
      PROVE  (h \o g)[i] = IF i < p THEN s[i] ELSE IF i = p THEN e ELSE s[i - 1]
  BY <1>2, <1>4, <1>5, SMTT(60)
<1> QED
  BY <1>3, <1>5, <1>6 DEF h

LEMMA RemovedAt ==
    ASSUME NEW s \in Seq(Int), NEW p \in 1..Len(s)
    PROVE  /\ RemoveAt(s, p) \in Seq(Int) /\ Len(RemoveAt(s, p)) = Len(s) - 1
           /\ \A i \in 1..(Len(s) - 1) :
                 RemoveAt(s, p)[i] = IF i < p THEN s[i] ELSE s[i + 1]
<1> DEFINE f == SubSeq(s, 1, p - 1)
           g == SubSeq(s, p + 1, Len(s))
<1>1. /\ f \in Seq(Int) /\ Len(f) = p - 1 /\ \A i \in 1..(p - 1) : f[i] = s[i]
  OBVIOUS
<1>2. /\ g \in Seq(Int) /\ Len(g) = Len(s) - p
      /\ \A i \in 1..(Len(s) - p) : g[i] = s[p + i]
  OBVIOUS
<1>3. RemoveAt(s, p) = f \o g
  BY DEF RemoveAt
<1> HIDE DEF f, g
<1>4. /\ f \o g \in Seq(Int) /\ Len(f \o g) = Len(s) - 1
      /\ \A i \in 1..(Len(s) - 1) :
            (f \o g)[i] = IF i <= p - 1 THEN f[i] ELSE g[i - (p - 1)]
  <2>1. /\ f \o g \in Seq(Int) /\ Len(f \o g) = Len(f) + Len(g)
        /\ \A i \in 1..(Len(f) + Len(g)) :
              (f \o g)[i] = IF i <= Len(f) THEN f[i] ELSE g[i - Len(f)]
    BY <1>1, <1>2, ConcatProperties
  <2>2. Len(f) + Len(g) = Len(s) - 1
    BY <1>1, <1>2
  <2> QED BY <1>1, <2>1, <2>2
<1>5. ASSUME NEW i \in 1..(Len(s) - 1)
      PROVE  (f \o g)[i] = IF i < p THEN s[i] ELSE s[i + 1]
  BY <1>1, <1>2, <1>4, SMTT(60)
<1> QED
  BY <1>3, <1>4, <1>5

(* Two sequences of one length with the same elements are the same.        *)
LEMMA SameSequence ==
    ASSUME NEW s \in Seq(Int), NEW t \in Seq(Int), Len(s) = Len(t),
           \A i \in 1..Len(s) : s[i] = t[i]
    PROVE  s = t
  BY SeqEqual

LEMMA InsertedLast ==
    ASSUME NEW s \in Seq(Int), NEW e \in Int
    PROVE  InsertAt(s, Len(s) + 1, e) = Append(s, e)
<1> DEFINE t == InsertAt(s, Len(s) + 1, e)
           u == Append(s, e)
<1>1. Len(s) \in Nat /\ Len(s) + 1 \in 1..(Len(s) + 1)
  OBVIOUS
<1>2. /\ t \in Seq(Int) /\ Len(t) = Len(s) + 1
      /\ \A i \in 1..(Len(s) + 1) :
            t[i] = IF i < Len(s) + 1 THEN s[i] ELSE IF i = Len(s) + 1 THEN e ELSE s[i - 1]
  <2> DEFINE p == Len(s) + 1
  <2>1. p \in 1..(Len(s) + 1)
    BY <1>1
  <2> HIDE DEF p
  <2>2. /\ InsertAt(s, p, e) \in Seq(Int) /\ Len(InsertAt(s, p, e)) = Len(s) + 1
        /\ \A i \in 1..(Len(s) + 1) : InsertAt(s, p, e)[i] =
              IF i < p THEN s[i] ELSE IF i = p THEN e ELSE s[i - 1]
    BY <2>1, InsertedAt
  <2> QED BY <2>2 DEF p
<1>3. /\ u \in Seq(Int) /\ Len(u) = Len(s) + 1
      /\ \A i \in 1..(Len(s) + 1) : u[i] = IF i < Len(s) + 1 THEN s[i] ELSE e
  OBVIOUS
<1> HIDE DEF t, u
<1>4. \A i \in 1..Len(t) : t[i] = u[i]
  BY <1>1, <1>2, <1>3
<1>5. t = u
  BY <1>2, <1>3, <1>4, SameSequence
<1> QED
  BY <1>5 DEF t, u

-----------------------------------------------------------------------------
(* The size of the new block.                                              *)

(* The size that resize_array is asked for fits, unless the block is       *)
(* larger than ARRAY_ALLOC_SIZE and is to grow by more than that, but to   *)
(* twice its size at most.                                                 *)
TooLarge(alloc_size, new_size) ==
    /\ alloc_size > ArrayAllocSize
    /\ new_size > alloc_size + ArrayAllocSize
    /\ new_size <= 2 * alloc_size

LEMMA NewAllocFits ==
    ASSUME NEW a \in Nat, NEW n \in Nat
    PROVE  /\ NewAllocSize(a, n) \in Nat
           /\ NewAllocSize(a, n) - n <= ArrayAllocSize
           /\ n <= NewAllocSize(a, n) <=> ~TooLarge(a, n)
<1>1. ArrayAllocSize \in Nat \ {0}
  BY ArrayAllocSizeAssumption
<1>2. CASE n > a
  <2>1. CASE 2 * a < n
    <3>1. NewAllocSize(a, n) = n + ArrayAllocSize
      BY <1>2, <2>1 DEF NewAllocSize
    <3> QED BY <1>1, <2>1, <3>1 DEF TooLarge
  <2>2. CASE 2 * a >= n /\ a > ArrayAllocSize
    <3>1. NewAllocSize(a, n) = a + ArrayAllocSize
      BY <1>2, <2>2 DEF NewAllocSize
    <3> QED BY <1>1, <1>2, <2>2, <3>1 DEF TooLarge
  <2>3. CASE 2 * a >= n /\ a <= ArrayAllocSize
    <3>1. NewAllocSize(a, n) = 2 * a
      BY <1>1, <1>2, <2>3 DEF NewAllocSize
    <3> QED BY <1>1, <1>2, <2>3, <3>1 DEF TooLarge
  <2> QED BY <1>1, <2>1, <2>2, <2>3
<1>3. CASE n <= a /\ a - n > ArrayAllocSize
  <2>1. NewAllocSize(a, n) = n
    BY <1>3 DEF NewAllocSize
  <2> QED BY <1>1, <1>3, <2>1 DEF TooLarge
<1>4. CASE n <= a /\ a - n <= ArrayAllocSize
  <2>1. NewAllocSize(a, n) = a
    BY <1>1, <1>4 DEF NewAllocSize
  <2> QED BY <1>1, <1>4, <2>1 DEF TooLarge
<1> QED
  BY <1>1, <1>2, <1>3, <1>4

(* resize_array keeps what fits into the new block, and the size.          *)
LEMMA Resized ==
    ASSUME NEW array, InBlock(array), NEW n \in Nat
    PROVE  LET r == resize_array(array, n)
           IN  /\ r \in Array /\ r.size = array.size
               /\ Allocated(r) = NewAllocSize(Allocated(array), n)
               /\ r.charged = Allocated(r)
               /\ \A i \in 1..Allocated(r) :
                     r.cells[i] = IF i <= Allocated(array) THEN array.cells[i] ELSE Garbage
<1> DEFINE r == resize_array(array, n)
           alloc == NewAllocSize(Allocated(array), n)
           cells == [i \in 1..alloc |-> IF i <= Allocated(array) THEN array.cells[i] ELSE Garbage]
<1>1. Allocated(array) \in Nat /\ Allocated(array) = Len(array.cells)
      /\ array.cells \in Seq(Int) /\ array.size \in Nat /\ array.charged = Allocated(array)
  BY DEF InBlock, Array, Allocated
<1>2. alloc \in Nat
  BY <1>1, NewAllocFits
<1>3. cells \in Seq(Int) /\ Len(cells) = alloc
  <2> HIDE DEF alloc
  <2> QED BY <1>1, <1>2 DEF Garbage
<1>4. r = [array EXCEPT !.cells = cells, !.charged = array.charged + alloc - Allocated(array)]
  BY DEF resize_array
<1>5. array \in Array
  BY DEF InBlock
<1> HIDE DEF alloc, r, cells
<1>6. r \in Array /\ r.cells = cells /\ r.size = array.size /\ r.charged = alloc
  <2>1. array.charged + alloc - Allocated(array) = alloc
    BY <1>1, <1>2
  <2>2. r = [array EXCEPT !.cells = cells, !.charged = alloc]
    BY <1>4, <2>1
  <2>3. r = [cells |-> cells, size |-> array.size, charged |-> alloc]
    BY <1>5, <2>2 DEF Array
  <2>4. r \in Array
    BY <1>1, <1>2, <1>3, <2>3 DEF Array
  <2> QED BY <2>3, <2>4
<1>7. Allocated(r) = alloc
  BY <1>3, <1>6 DEF Allocated
<1>8. \A i \in 1..Allocated(r) :
         r.cells[i] = IF i <= Allocated(array) THEN array.cells[i] ELSE Garbage
  BY <1>6, <1>7 DEF cells
<1> QED
  BY <1>6, <1>7, <1>8 DEF r, alloc

-----------------------------------------------------------------------------
(* The methods.                                                            *)

(* What an array must be to hold the elements of s.                        *)
LEMMA Holds ==
    ASSUME NEW a \in Array, a.charged = Len(a.cells), NEW s \in Seq(Int),
           a.size = Len(s), Len(s) <= Len(a.cells), Len(a.cells) - Len(s) <= ArrayAllocSize,
           \A i \in 1..Len(s) : a.cells[i] = s[i]
    PROVE  Whole(a) /\ Elements(a) = s
<1>1. Whole(a)
  BY DEF Whole, InBlock, Allocated
<1>2. /\ Elements(a) \in Seq(Int) /\ Len(Elements(a)) = Len(s)
      /\ \A i \in 1..Len(s) : Elements(a)[i] = s[i]
  BY <1>1, ElementsAre DEF Whole
<1> QED
  BY <1>1, <1>2, SameSequence

LEMMA DoneRight ==
    ASSUME NEW a, NEW s, NEW x, Whole(a), Elements(a) = s
    PROVE  Right(Done(a, x), Meant(s, x))
  BY DEF Right, Done, Meant

(* insert moves the elements behind the place up by one: the block that    *)
(* resize_array gives always has room for one more.                        *)
LEMMA InsertRight ==
    ASSUME NEW array, Whole(array), NEW pos \in 0..array.size, NEW value \in Int
    PROVE  Right(DVM_array_insert(array, pos, value),
                 Meant(InsertAt(Elements(array), pos + 1, value), Garbage))
<1> DEFINE n == array.size + 1
           r == resize_array(array, n)
           cells == [i \in DOMAIN r.cells |->
                        CASE i = pos + 1 -> value
                          [] i \in pos + 2 .. array.size + 1 -> r.cells[i - 1]
                          [] OTHER -> r.cells[i]]
           a == [r EXCEPT !.size = n, !.cells = cells]
           s == InsertAt(Elements(array), pos + 1, value)
<1>1. /\ InBlock(array) /\ array.size \in Nat /\ Allocated(array) \in Nat
      /\ array.size <= Allocated(array) /\ array.cells \in Seq(Int)
      /\ Allocated(array) = Len(array.cells) /\ n \in Nat
  BY DEF Whole, InBlock, Array, Allocated
<1>2. /\ r \in Array /\ r.size = array.size /\ r.charged = Allocated(r)
      /\ Allocated(r) = NewAllocSize(Allocated(array), n)
      /\ \A i \in 1..Allocated(r) :
            r.cells[i] = IF i <= Allocated(array) THEN array.cells[i] ELSE Garbage
  BY <1>1, Resized
<1> HIDE DEF r
<1>3. /\ Allocated(r) \in Nat /\ n <= Allocated(r) /\ Allocated(r) - n <= ArrayAllocSize
  <2>1. ~TooLarge(Allocated(array), n)
    BY <1>1, ArrayAllocSizeAssumption DEF TooLarge
  <2> QED BY <1>1, <1>2, <2>1, NewAllocFits
<1>4. /\ r.cells \in Seq(Int) /\ Len(r.cells) = Allocated(r) /\ DOMAIN r.cells = 1..Allocated(r)
  BY <1>2 DEF Array, Allocated
<1>5. /\ cells \in Seq(Int) /\ Len(cells) = Allocated(r)
      /\ \A i \in 1..Allocated(r) :
            cells[i] = IF i = pos + 1 THEN value
                       ELSE IF i \in pos + 2 .. array.size + 1 THEN r.cells[i - 1]
                       ELSE r.cells[i]
  <2>1. \A i \in 1..Allocated(r) :
            cells[i] = IF i = pos + 1 THEN value
                       ELSE IF i \in pos + 2 .. array.size + 1 THEN r.cells[i - 1]
                       ELSE r.cells[i]
    BY <1>4
  <2>2. \A i \in 1..Allocated(r) : cells[i] \in Int
    BY <1>3, <1>4, <2>1
  <2> HIDE DEF cells
  <2>3. DOMAIN cells = 1..Allocated(r) /\ cells = [i \in 1..Allocated(r) |-> cells[i]]
    BY <1>4 DEF cells
  <2>4. cells \in Seq(Int) /\ Len(cells) = Allocated(r)
    BY <1>3, <2>2, <2>3
  <2> QED BY <2>1, <2>4
<1>6. /\ s \in Seq(Int) /\ Len(s) = n
      /\ \A i \in 1..n : s[i] = IF i < pos + 1 THEN Elements(array)[i]
                                ELSE IF i = pos + 1 THEN value ELSE Elements(array)[i - 1]
  <2> DEFINE e == Elements(array)
  <2>1. e \in Seq(Int) /\ Len(e) = array.size /\ pos + 1 \in 1..(Len(e) + 1)
    BY <1>1, ElementsAre
  <2> HIDE DEF e
  <2>2. /\ InsertAt(e, pos + 1, value) \in Seq(Int) /\ Len(InsertAt(e, pos + 1, value)) = Len(e) + 1
        /\ \A i \in 1..(Len(e) + 1) : InsertAt(e, pos + 1, value)[i] =
              IF i < pos + 1 THEN e[i] ELSE IF i = pos + 1 THEN value ELSE e[i - 1]
    BY <2>1, InsertedAt
  <2> QED BY <1>1, <2>1, <2>2 DEF e
<1> HIDE DEF cells, s
<1>7. ASSUME NEW i \in 1..n
      PROVE  cells[i] = s[i]
  <2>1. \A j \in 1..array.size : Elements(array)[j] = r.cells[j]
    <3> TAKE j \in 1..array.size
    <3>1. Elements(array)[j] = array.cells[j]
      BY <1>1, ElementsAre
    <3>2. j \in 1..Allocated(r) /\ j <= Allocated(array)
      BY <1>1, <1>3
    <3> QED BY <1>2, <3>1, <3>2
  <2>2. i \in 1..Allocated(r)
    BY <1>1, <1>3
  <2>3. CASE i < pos + 1
    <3>1. i \in 1..array.size /\ i # pos + 1 /\ i \notin pos + 2 .. array.size + 1
      BY <1>1, <2>3
    <3>2. cells[i] = r.cells[i]
      BY <1>5, <2>2, <3>1
    <3>3. s[i] = Elements(array)[i]
      BY <1>6, <2>3
    <3> QED BY <2>1, <3>1, <3>2, <3>3
  <2>4. CASE i = pos + 1
    BY <1>5, <1>6, <2>2, <2>4
  <2>5. CASE i > pos + 1
    <3>1. i \in pos + 2 .. array.size + 1 /\ i - 1 \in 1..array.size
      BY <1>1, <2>5
    <3>2. cells[i] = r.cells[i - 1]
      BY <1>5, <2>2, <2>5, <3>1
    <3>3. s[i] = Elements(array)[i - 1]
      BY <1>6, <2>5
    <3> QED BY <2>1, <3>1, <3>2, <3>3
  <2> QED BY <2>3, <2>4, <2>5
<1>8. /\ a \in Array /\ a.size = n /\ a.cells = cells /\ a.charged = Allocated(r)
  <2>1. r \in Array /\ n \in Nat /\ cells \in Seq(Int) /\ r.charged = Allocated(r)
    BY <1>1, <1>2, <1>5
  <2> HIDE DEF n
  <2>2. a = [r EXCEPT !.size = n, !.cells = cells]
    OBVIOUS
  <2> HIDE DEF a
  <2>3. a = [cells |-> cells, size |-> n, charged |-> r.charged]
    BY <2>1, <2>2 DEF Array
  <2>4. a \in Array
    BY <2>1, <2>3 DEF Array
  <2> QED BY <2>1, <2>3, <2>4
<1>9. DVM_array_insert(array, pos, value) = Done(a, Garbage)
  <2>1. ~(array.size + 1 > Allocated(r))
    BY <1>1, <1>3
  <2>2. DVM_array_insert(array, pos, value) =
          IF array.size + 1 > Allocated(r) THEN Overruns(array)
          ELSE Done([r EXCEPT !.size = r.size + 1, !.cells = cells], Garbage)
    BY Zenon DEF DVM_array_insert, r, cells
  <2> QED BY <1>2, <2>1, <2>2
<1> HIDE DEF a
<1>10. Whole(a) /\ Elements(a) = s
  BY <1>3, <1>5, <1>6, <1>7, <1>8, Holds
<1> QED
  BY <1>9, <1>10, DoneRight DEF s

(* remove moves the elements behind the place down by one.                 *)
LEMMA RemoveRight ==
    ASSUME NEW array, Whole(array), NEW pos \in 0..(array.size - 1)
    PROVE  Right(DVM_array_remove(array, pos),
                 Meant(RemoveAt(Elements(array), pos + 1), Garbage))
<1> DEFINE n == array.size - 1
           cells == [i \in DOMAIN array.cells |->
                        IF i \in pos + 1 .. array.size - 1 THEN array.cells[i + 1]
                        ELSE array.cells[i]]
           moved == [array EXCEPT !.cells = cells]
           r == resize_array(moved, n)
           a == [r EXCEPT !.size = n]
           s == RemoveAt(Elements(array), pos + 1)
<1>1. /\ InBlock(array) /\ array.size \in Nat /\ Allocated(array) \in Nat
      /\ array.size <= Allocated(array) /\ array.cells \in Seq(Int) /\ array \in Array
      /\ Allocated(array) = Len(array.cells) /\ DOMAIN array.cells = 1..Allocated(array)
      /\ array.charged = Allocated(array) /\ n \in Nat
  BY DEF Whole, InBlock, Array, Allocated
<1>2. /\ cells \in Seq(Int) /\ Len(cells) = Allocated(array)
      /\ \A i \in 1..Allocated(array) :
            cells[i] = IF i \in pos + 1 .. array.size - 1 THEN array.cells[i + 1]
                       ELSE array.cells[i]
  <2> DEFINE value(i) == IF i \in pos + 1 .. array.size - 1 THEN array.cells[i + 1]
                         ELSE array.cells[i]
  <2>1. ASSUME NEW i \in 1..Allocated(array)
        PROVE  value(i) \in Int
    <3>1. i \in pos + 1 .. array.size - 1 => i + 1 \in 1..Len(array.cells)
      BY <1>1
    <3>2. i \in 1..Len(array.cells)
      BY <1>1
    <3>3. \A j \in 1..Len(array.cells) : array.cells[j] \in Int
      BY <1>1, ElementOfSeq
    <3> QED
      BY <3>1, <3>2, <3>3
  <2>2. cells = [i \in 1..Allocated(array) |-> value(i)]
    BY <1>1
  <2> HIDE DEF value
  <2>3. cells \in Seq(Int) /\ Len(cells) = Allocated(array)
        /\ \A i \in 1..Allocated(array) : cells[i] = value(i)
    <3> HIDE DEF cells
    <3> QED
      BY <1>1, <2>1, <2>2
  <2> QED
    BY <2>3 DEF value
<1> HIDE DEF cells
<1>3. /\ moved \in Array /\ moved.size = array.size /\ moved.cells = cells
      /\ moved.charged = array.charged
  <2>1. moved = [cells |-> cells, size |-> array.size, charged |-> array.charged]
    BY <1>1 DEF Array
  <2>2. moved \in Array
    BY <1>1, <1>2, <2>1 DEF Array
  <2> QED BY <2>1, <2>2
<1> HIDE DEF moved
<1>4. InBlock(moved) /\ Allocated(moved) = Allocated(array)
  BY <1>1, <1>2, <1>3 DEF InBlock, Allocated
<1>5. /\ r \in Array /\ r.size = array.size /\ r.charged = Allocated(r)
      /\ Allocated(r) = NewAllocSize(Allocated(array), n)
      /\ \A i \in 1..Allocated(r) :
            r.cells[i] = IF i <= Allocated(array) THEN cells[i] ELSE Garbage
  BY <1>1, <1>3, <1>4, Resized
<1> HIDE DEF r
<1>6. /\ Allocated(r) \in Nat /\ n <= Allocated(r) /\ Allocated(r) - n <= ArrayAllocSize
  <2>1. ~TooLarge(Allocated(array), n)
    BY <1>1, ArrayAllocSizeAssumption DEF TooLarge
  <2> QED BY <1>1, <1>5, <2>1, NewAllocFits
<1>7. /\ a \in Array /\ a.size = n /\ a.cells = r.cells /\ a.charged = Allocated(r)
  <2>1. a = [cells |-> r.cells, size |-> n, charged |-> r.charged]
    BY <1>5 DEF Array
  <2>2. a \in Array
    BY <1>1, <1>5, <2>1 DEF Array
  <2> QED BY <1>5, <2>1, <2>2
<1>8. r.cells \in Seq(Int) /\ Len(r.cells) = Allocated(r)
  BY <1>5 DEF Array, Allocated
<1>9. /\ s \in Seq(Int) /\ Len(s) = n
      /\ \A i \in 1..n : s[i] = IF i < pos + 1 THEN Elements(array)[i]
                                ELSE Elements(array)[i + 1]
  <2> DEFINE e == Elements(array)
  <2>1. e \in Seq(Int) /\ Len(e) = array.size /\ pos + 1 \in 1..Len(e)
    BY <1>1, ElementsAre
  <2> HIDE DEF e
  <2>2. /\ RemoveAt(e, pos + 1) \in Seq(Int) /\ Len(RemoveAt(e, pos + 1)) = Len(e) - 1
        /\ \A i \in 1..(Len(e) - 1) :
              RemoveAt(e, pos + 1)[i] = IF i < pos + 1 THEN e[i] ELSE e[i + 1]
    BY <2>1, RemovedAt
  <2> QED BY <1>1, <2>1, <2>2 DEF e
<1> HIDE DEF s
<1>10. ASSUME NEW i \in 1..n
       PROVE  r.cells[i] = s[i]
  <2>1. \A j \in 1..array.size : Elements(array)[j] = array.cells[j]
    BY <1>1, ElementsAre
  <2>2. i \in 1..Allocated(r) /\ i <= Allocated(array)
    BY <1>1, <1>6
  <2>3. r.cells[i] = cells[i]
    BY <1>5, <2>2
  <2>4. CASE i < pos + 1
    <3>1. cells[i] = array.cells[i] /\ i \in 1..array.size
      BY <1>1, <1>2, <2>2, <2>4
    <3>2. s[i] = Elements(array)[i]
      BY <1>9, <2>4
    <3> QED BY <2>1, <2>3, <3>1, <3>2
  <2>5. CASE i >= pos + 1
    <3>1. i \in pos + 1 .. array.size - 1 /\ i + 1 \in 1..array.size
      BY <1>1, <2>5
    <3>2. cells[i] = array.cells[i + 1]
      BY <1>2, <2>2, <3>1
    <3>3. s[i] = Elements(array)[i + 1]
      BY <1>9, <2>5
    <3> QED BY <2>1, <2>3, <3>1, <3>2, <3>3
  <2> QED BY <1>1, <2>4, <2>5
<1>11. DVM_array_remove(array, pos) = Done(a, Garbage)
  <2>1. DVM_array_remove(array, pos) = Done([r EXCEPT !.size = r.size - 1], Garbage)
    BY DEF DVM_array_remove, r, moved, cells
  <2> QED BY <1>5, <2>1
<1> HIDE DEF a
<1>12. Whole(a) /\ Elements(a) = s
  BY <1>6, <1>7, <1>8, <1>9, <1>10, Holds
<1> QED
  BY <1>11, <1>12, DoneRight DEF s

(* resize sets the new elements to zero, if the block has room for them.   *)
LEMMA ResizeRight ==
    ASSUME NEW array, Whole(array), NEW n \in Nat, ~TooLarge(Allocated(array), n)
    PROVE  Right(DVM_array_resize(array, n), MeantCall("resize", Elements(array), <<n>>))
<1> DEFINE r == resize_array(array, n)
           cells == [i \in DOMAIN r.cells |->
                        IF i \in array.size + 1 .. n THEN 0 ELSE r.cells[i]]
           a == [r EXCEPT !.size = n, !.cells = cells]
           e == Elements(array)
           s == [i \in 1..n |-> IF i <= Len(e) THEN e[i] ELSE 0]
<1>1. /\ InBlock(array) /\ array.size \in Nat /\ Allocated(array) \in Nat
      /\ array.size <= Allocated(array) /\ array.cells \in Seq(Int)
      /\ Allocated(array) = Len(array.cells)
  BY DEF Whole, InBlock, Array, Allocated
<1>2. /\ r \in Array /\ r.size = array.size /\ r.charged = Allocated(r)
      /\ Allocated(r) = NewAllocSize(Allocated(array), n)
      /\ \A i \in 1..Allocated(r) :
            r.cells[i] = IF i <= Allocated(array) THEN array.cells[i] ELSE Garbage
  BY <1>1, Resized
<1> HIDE DEF r
<1>3. /\ Allocated(r) \in Nat /\ n <= Allocated(r) /\ Allocated(r) - n <= ArrayAllocSize
  BY <1>1, <1>2, NewAllocFits
<1>4. r.cells \in Seq(Int) /\ Len(r.cells) = Allocated(r) /\ DOMAIN r.cells = 1..Allocated(r)
  BY <1>2 DEF Array, Allocated
<1>5. /\ cells \in Seq(Int) /\ Len(cells) = Allocated(r)
      /\ \A i \in 1..Allocated(r) :
            cells[i] = IF i \in array.size + 1 .. n THEN 0 ELSE r.cells[i]
  BY <1>3, <1>4
<1>6. /\ e \in Seq(Int) /\ Len(e) = array.size
      /\ \A i \in 1..array.size : e[i] = array.cells[i]
  BY <1>1, ElementsAre
<1> HIDE DEF cells, e
<1>7. /\ s \in Seq(Int) /\ Len(s) = n
      /\ \A i \in 1..n : s[i] = IF i <= array.size THEN e[i] ELSE 0
  BY <1>6
<1> HIDE DEF s
<1>8. ASSUME NEW i \in 1..n
      PROVE  cells[i] = s[i]
  <2>1. i \in 1..Allocated(r)
    BY <1>3
  <2>2. CASE i <= array.size
    <3>1. i \notin array.size + 1 .. n /\ i \in 1..array.size /\ i <= Allocated(array)
      BY <1>1, <2>2
    <3>2. cells[i] = array.cells[i]
      BY <1>2, <1>5, <2>1, <3>1
    <3> QED BY <1>6, <1>7, <2>2, <3>1, <3>2
  <2>3. CASE i > array.size
    <3>1. i \in array.size + 1 .. n
      BY <1>1, <2>3
    <3>2. cells[i] = 0
      BY <1>5, <2>1, <3>1
    <3>3. s[i] = 0
      BY <1>1, <1>7, <2>3
    <3> QED BY <3>2, <3>3
  <2> QED BY <1>1, <2>2, <2>3
<1>9. /\ a \in Array /\ a.size = n /\ a.cells = cells /\ a.charged = Allocated(r)
  <2>1. r \in Array /\ cells \in Seq(Int) /\ r.charged = Allocated(r)
    BY <1>2, <1>5
  <2>2. a = [r EXCEPT !.size = n, !.cells = cells]
    OBVIOUS
  <2> HIDE DEF a
  <2>3. a = [cells |-> cells, size |-> n, charged |-> r.charged]
    BY <2>1, <2>2 DEF Array
  <2>4. a \in Array
    BY <2>1, <2>3 DEF Array
  <2> QED BY <2>1, <2>3, <2>4
<1>10. DVM_array_resize(array, n) = Done(a, Garbage)
  <2>1. ~(n > Allocated(r))
    BY <1>3
  <2>2. DVM_array_resize(array, n) =
          IF n > Allocated(r) THEN Overruns(array) ELSE Done(a, Garbage)
    BY Zenon DEF DVM_array_resize, r, cells
  <2> QED BY <2>1, <2>2
<1> HIDE DEF a
<1>11. Whole(a) /\ Elements(a) = s
  BY <1>3, <1>5, <1>7, <1>8, <1>9, Holds
<1>12. MeantCall("resize", Elements(array), <<n>>) = Meant(s, Garbage)
  BY DEF MeantCall, s, e
<1> QED
  BY <1>10, <1>11, <1>12, DoneRight

-----------------------------------------------------------------------------
(* The theorems.                                                           *)

(* A call never leaves the array other than its method means: size,        *)
(* insert, remove and add of native.c give the result, or raise, and leave *)
(* the elements as they should, whatever the index and the value are, and  *)
(* never write past the block; the block is never more than                *)
(* ARRAY_ALLOC_SIZE too large, and charged for.  As this holds of a new    *)
(* array and is kept, it holds after every sequence of such calls.         *)
THEOREM ArrayMethods ==
    /\ \A elements \in Seq(Int) :
          Whole(NewArray(elements)) /\ Elements(NewArray(elements)) = elements
    /\ \A array : Whole(array) =>
          LET e == Elements(array)
          IN  /\ Right(nv_array_size_proc(array), MeantCall("size", e, << >>))
              /\ \A pos, value \in Int :
                    /\ Right(nv_array_insert_proc(array, pos, value),
                             MeantCall("insert", e, <<pos, value>>))
                    /\ Right(nv_array_remove_proc(array, pos), MeantCall("remove", e, <<pos>>))
                    /\ Right(nv_array_add_proc(array, value), MeantCall("add", e, <<value>>))
<1>1. ASSUME NEW elements \in Seq(Int)
      PROVE  Whole(NewArray(elements)) /\ Elements(NewArray(elements)) = elements
  <2> DEFINE a == NewArray(elements)
  <2>1. a = [cells |-> elements, size |-> Len(elements), charged |-> Len(elements)]
    BY DEF NewArray
  <2>2. a \in Array /\ a.cells = elements /\ a.size = Len(elements) /\ a.charged = Len(elements)
    BY <2>1 DEF Array
  <2> HIDE DEF a
  <2>3. Whole(a) /\ Elements(a) = elements
    BY <2>2, Holds, ArrayAllocSizeAssumption
  <2> QED BY <2>3 DEF a
<1>2. ASSUME NEW array, Whole(array)
      PROVE  LET e == Elements(array)
             IN  /\ Right(nv_array_size_proc(array), MeantCall("size", e, << >>))
                 /\ \A pos, value \in Int :
                       /\ Right(nv_array_insert_proc(array, pos, value),
                                MeantCall("insert", e, <<pos, value>>))
                       /\ Right(nv_array_remove_proc(array, pos),
                                MeantCall("remove", e, <<pos>>))
                       /\ Right(nv_array_add_proc(array, value),
                                MeantCall("add", e, <<value>>))
  <2> DEFINE e == Elements(array)
  <2>1. e \in Seq(Int) /\ Len(e) = array.size /\ array.size \in Nat
    BY <1>2, ElementsAre DEF Whole, InBlock, Array
  <2>2. Right(Raises(array), MeantRaise(e))
    BY <1>2 DEF Right, Raises, MeantRaise
  <2>3. Right(nv_array_size_proc(array), MeantCall("size", e, << >>))
    <3>1. MeantCall("size", e, << >>) = Meant(e, array.size)
      BY <2>1 DEF MeantCall
    <3> QED BY <1>2, <3>1, DoneRight DEF nv_array_size_proc
  <2> HIDE DEF e
  <2>4. ASSUME NEW pos \in Int, NEW value \in Int
        PROVE  Right(nv_array_insert_proc(array, pos, value),
                     MeantCall("insert", e, <<pos, value>>))
    <3>1. CASE pos \in 0..array.size
      <4>1. nv_array_insert_proc(array, pos, value) = DVM_array_insert(array, pos, value)
        BY <2>1, <3>1 DEF nv_array_insert_proc
      <4>2. MeantCall("insert", e, <<pos, value>>) = Meant(InsertAt(e, pos + 1, value), Garbage)
        BY <2>1, <3>1 DEF MeantCall
      <4> QED BY <1>2, <3>1, <4>1, <4>2, InsertRight DEF e
    <3>2. CASE pos \notin 0..array.size
      <4>1. nv_array_insert_proc(array, pos, value) = Raises(array)
        BY <2>1, <3>2 DEF nv_array_insert_proc
      <4>2. MeantCall("insert", e, <<pos, value>>) = MeantRaise(e)
        BY <2>1, <3>2 DEF MeantCall
      <4> QED BY <2>2, <4>1, <4>2
    <3> QED BY <3>1, <3>2
  <2>5. ASSUME NEW pos \in Int
        PROVE  Right(nv_array_remove_proc(array, pos), MeantCall("remove", e, <<pos>>))
    <3>1. CASE pos \in 0..array.size - 1
      <4>1. nv_array_remove_proc(array, pos) = DVM_array_remove(array, pos)
        BY <2>1, <3>1 DEF nv_array_remove_proc
      <4>2. MeantCall("remove", e, <<pos>>) = Meant(RemoveAt(e, pos + 1), Garbage)
        BY <2>1, <3>1 DEF MeantCall
      <4> QED BY <1>2, <3>1, <4>1, <4>2, RemoveRight DEF e
    <3>2. CASE pos \notin 0..array.size - 1
      <4>1. nv_array_remove_proc(array, pos) = Raises(array)
        BY <2>1, <3>2 DEF nv_array_remove_proc
      <4>2. MeantCall("remove", e, <<pos>>) = MeantRaise(e)
        BY <2>1, <3>2 DEF MeantCall
      <4> QED BY <2>2, <4>1, <4>2
    <3> QED BY <3>1, <3>2
  <2>6. ASSUME NEW value \in Int
        PROVE  Right(nv_array_add_proc(array, value), MeantCall("add", e, <<value>>))
    <3>1. InsertAt(e, array.size + 1, value) = Append(e, value)
      BY <2>1, InsertedLast
    <3>2. MeantCall("add", e, <<value>>) = Meant(Append(e, value), Garbage)
      BY DEF MeantCall
    <3>3. array.size \in 0..array.size
      BY <2>1
    <3> QED BY <1>2, <3>1, <3>2, <3>3, InsertRight DEF nv_array_add_proc, e
  <2> QED BY <2>3, <2>4, <2>5, <2>6 DEF e
<1> QED
  BY <1>1, <1>2

(* resize does what it means exactly when the new block has room: it fails *)
(* to when the block is larger than ARRAY_ALLOC_SIZE and the new size      *)
(* larger by more than that, but at most twice the block, as resize_array  *)
(* then adds ARRAY_ALLOC_SIZE only and DVM_array_resize writes past it.    *)
THEOREM ArrayResize ==
    ASSUME NEW array, Whole(array), NEW new_size \in Nat
    PROVE  IF TooLarge(Allocated(array), new_size)
           THEN nv_array_resize_proc(array, new_size).overrun
           ELSE Right(nv_array_resize_proc(array, new_size),
                      MeantCall("resize", Elements(array), <<new_size>>))
<1>1. CASE TooLarge(Allocated(array), new_size)
  <2>1. InBlock(array) /\ Allocated(array) \in Nat
    BY DEF Whole, InBlock, Array, Allocated
  <2>2. /\ Allocated(resize_array(array, new_size)) = NewAllocSize(Allocated(array), new_size)
        /\ NewAllocSize(Allocated(array), new_size) \in Nat
        /\ ~(new_size <= NewAllocSize(Allocated(array), new_size))
    BY <1>1, <2>1, Resized, NewAllocFits
  <2>3. new_size > Allocated(resize_array(array, new_size))
    BY <2>2
  <2>4. DVM_array_resize(array, new_size) = Overruns(array)
    BY <2>3, Zenon DEF DVM_array_resize
  <2> QED BY <1>1, <2>4 DEF nv_array_resize_proc, Overruns
<1>2. CASE ~TooLarge(Allocated(array), new_size)
  BY <1>2, ResizeRight DEF nv_array_resize_proc
<1> QED
  BY <1>1, <1>2
=============================================================================
