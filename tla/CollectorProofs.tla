--------------------------- MODULE CollectorProofs --------------------------
(***************************************************************************)
(* Proofs about what the collector of Heap gives back: after a collection  *)
(* the objects that are left are those the roots lead to (CollectsAll),    *)
(* between collections the heap never outgrows its threshold by more than  *)
(* the object that was being allocated (OvershootsByOne), and its size is  *)
(* that of the objects (HeapSizeExact).                                    *)
(*                                                                         *)
(* And Heap implements HeapSpec: what the instructions, the native         *)
(* functions and the steps of a collection do to the objects in use is,    *)
(* step by step, a Mutate, an Allocate or a Reclaim of the abstract heap,  *)
(* or no change at all (Refinement).                                       *)
(***************************************************************************)
EXTENDS HeapProofs, FiniteSetTheorems, WellFoundedInduction

-----------------------------------------------------------------------------
(* Reachability. *)

(* The roots reach themselves. *)
LEMMA ReachRoots ==
    ASSUME NEW R \in SUBSET Obj
    PROVE  R \subseteq Reach(R)
BY DEF Reach

(* What is reached leads only to what is reached. *)
LEMMA ReachClosed ==
    ASSUME NEW R, field \in [Obj -> [Field -> Ref]], NEW o \in Reach(R)
    PROVE  Children(o) \subseteq Reach(R)
<1>1. Children(o) \subseteq Obj
    BY DEF Reach, Children, Ref
<1>2. \A S \in SUBSET Obj :
        (R \subseteq S /\ \A p \in S : Children(p) \subseteq S)
            => Children(o) \subseteq S
    BY DEF Reach
<1> QED BY <1>1, <1>2 DEF Reach

(* Freeing an object that is not in a closed set around the roots changes  *)
(* nothing in what they reach.                                             *)
LEMMA ReachKept ==
    ASSUME NEW R, NEW M \in SUBSET Obj, R \subseteq M,
           \A p \in M : Children(p) \subseteq M,
           \A p \in M : Children(p)' = Children(p)
    PROVE  \A x \in Reach(R) : \A S \in SUBSET Obj :
             (R \subseteq S /\ \A p \in S : Children(p)' \subseteq S) => x \in S
<1> SUFFICES ASSUME NEW x \in Reach(R), NEW S \in SUBSET Obj, R \subseteq S,
                    \A p \in S : Children(p)' \subseteq S
             PROVE  x \in S
    OBVIOUS
<1>1. S \cap M \in SUBSET Obj /\ R \subseteq S \cap M
    OBVIOUS
<1>2. \A p \in S \cap M : Children(p) \subseteq S \cap M
    OBVIOUS
<1>3. x \in S \cap M
    BY <1>1, <1>2 DEF Reach
<1> QED BY <1>3

-----------------------------------------------------------------------------
(* The marking marks no more than it must. *)

(* What is marked or waits to be marked can be reached, and the sweep has  *)
(* still to look at live objects only.                                     *)
MarksExact ==
    /\ phase = "mark" => marked \cup todo \subseteq Reach(Roots)
    /\ phase = "sweep" => marked \subseteq Reach(Roots) /\ unswept \subseteq live

(* gc_mark_objects starts from the roots and no marks. *)
LEMMA StartMarkExact ==
    ASSUME IInv, IInv', phase # "run", StartMark
    PROVE  MarksExact'
<1>1. /\ Roots' = Roots /\ phase' = "mark" /\ marked' = {} /\ todo' = Roots
    BY CollectorAction DEF StartMark
<1>2. Roots \in SUBSET Obj
    BY DEF IInv, RootsLive, TypeOK
<1>3. field' = field
    BY DEF StartMark
<1>4. Reach(Roots)' = Reach(Roots)
    BY <1>1, <1>3 DEF Reach, Children
<1> QED BY <1>1, <1>2, <1>4, ReachRoots DEF MarksExact

(* Every step of the machine keeps the marks exact. *)
LEMMA MarksExactNext ==
    ASSUME IInv, IInv', MarksExact, [Next]_vars
    PROVE  MarksExact'
<1>0. field \in [Obj -> [Field -> Ref]]
    BY DEF IInv, TypeOK
<1>1. ASSUME phase' \notin {"mark", "sweep"}
      PROVE  MarksExact'
    BY <1>1 DEF MarksExact
<1>2. CASE \/ Instructions \/ NativeCode \/ Complete
           \/ \E o \in Obj : ChangeArray(o) \/ RequestResize(o)
    <2>1. phase' \notin {"mark", "sweep"}
        BY <1>2 DEF Instructions, NativeCode, Complete, AllocObject, ResizeArray,
            ChangeArray, RequestResize, PushNull, Push, Pop, Throw, Rethrow,
            InitReturn, PushStatic, PopStatic, PushField, PopField, Duplicate, Allocate, AllocateInField, Request, Running,
            InvokeNative, AllocateInNative, AllocateInNativeField,
            SetException, ReturnNative
    <2> QED BY <1>1, <2>1
<1>3. CASE CheckGC
    BY <1>1, <1>3, StartMarkExact DEF CheckGC
<1>4. ASSUME NEW o \in Obj, GcMark(o)
      PROVE  MarksExact'
    <2>1. /\ phase = "mark" /\ phase' = "mark" /\ o \in todo
          /\ UNCHANGED <<field, rootVars>>
          /\ todo' \subseteq todo \cup Children(o)
          /\ marked' \subseteq marked \cup {o}
        BY <1>4 DEF GcMark
    <2>2. Roots' = Roots /\ Reach(Roots)' = Reach(Roots)
        BY <2>1, SameRoots DEF Reach, Children
    <2>3. Children(o) \subseteq Reach(Roots)
        BY <1>0, <2>1, ReachClosed DEF MarksExact
    <2> QED BY <2>1, <2>2, <2>3 DEF MarksExact
<1>5. CASE StartSweep
    <2>1. /\ phase = "mark" /\ phase' = "sweep" /\ unswept' = live
          /\ UNCHANGED <<live, field, marked, rootVars>>
        BY <1>5 DEF StartSweep, heapVars
    <2>2. Roots' = Roots /\ Reach(Roots)' = Reach(Roots)
        BY <2>1, SameRoots DEF Reach, Children
    <2> QED BY <2>1, <2>2 DEF MarksExact
<1>6. ASSUME NEW o \in Obj, GcSweep(o)
      PROVE  MarksExact'
    <2>1. /\ phase = "sweep" /\ phase' = "sweep" /\ unswept' = unswept \ {o}
          /\ live \ {o} \subseteq live' /\ UNCHANGED <<marked, rootVars>>
          /\ field' = IF o \in marked THEN field
                      ELSE [field EXCEPT ![o] = NoFields]
        BY <1>6 DEF GcSweep
    <2>2. Roots' = Roots
        BY <2>1, SameRoots
    <2>3. /\ marked \in SUBSET Obj /\ Roots \subseteq marked
          /\ \A p \in marked : Children(p) \subseteq marked
        BY <2>1 DEF IInv, TypeOK, Sweeping
    <2>4. \A p \in marked : Children(p)' = Children(p)
        BY <1>0, <2>1, <2>3 DEF Children
    <2>5. \A x \in Reach(Roots) : \A S \in SUBSET Obj :
            (Roots \subseteq S /\ \A p \in S : Children(p)' \subseteq S) => x \in S
        BY <2>3, <2>4, ReachKept
    <2>6. Reach(Roots) \subseteq Reach(Roots)'
        BY <2>2, <2>5 DEF Reach
    <2> QED BY <2>1, <2>2, <2>6 DEF MarksExact
<1>7. CASE EndSweep
    BY <1>1, <1>7, StartMarkExact DEF EndSweep
<1>8. CASE UNCHANGED vars
    <2>1. UNCHANGED <<phase, marked, todo, unswept, live, field, rootVars>>
        BY <1>8 DEF vars, heapVars, sweepVars
    <2>2. Roots' = Roots /\ Reach(Roots)' = Reach(Roots)
        BY <2>1, SameRoots DEF Reach, Children
    <2> QED BY <2>1, <2>2 DEF MarksExact
<1> QED BY <1>2, <1>3, <1>4, <1>5, <1>6, <1>7, <1>8 DEF Next, Collect

(* The end of a sweep leaves what is marked, which the roots lead to. *)
LEMMA EndSweepCollects ==
    ASSUME IInv, MarksExact, [Next]_vars, phase = "sweep", phase' = "alloc"
    PROVE  live' \subseteq Reach(Roots)
<1>1. EndSweep
    BY DEF Next, vars, Instructions, NativeCode, Collect, Complete, AllocObject,
        ResizeArray, ChangeArray, RequestResize, Request, PushNull,
        Push, Pop, Throw, Rethrow, InitReturn, PushStatic, PopStatic,
        PushField, PopField, Duplicate, Allocate, AllocateInField, Running,
        InvokeNative, AllocateInNative, AllocateInNativeField, SetException,
        ReturnNative, CheckGC, GcMark, StartSweep, GcSweep
<1>2. live' = live /\ unswept = {}
    BY <1>1 DEF EndSweep, StartMark
<1> QED BY <1>2 DEF IInv, Sweeping, MarksExact

(* A collection leaves no garbage: when dvm_garbage_collect returns, every *)
(* object still on the list can be reached from the roots, for every heap  *)
(* and every program that does not call substr.                            *)
THEOREM Completeness ==
    ASSUME NoSubstr
    PROVE  Spec => CollectsAll
<1>1. Init => MarksExact
    BY DEF Init, MarksExact
<1>2. IInv /\ IInv' /\ MarksExact /\ [Next]_vars => MarksExact'
    BY MarksExactNext
<1>3. IInv /\ MarksExact /\ [Next]_vars =>
        [phase = "sweep" /\ phase' = "alloc" => live' \subseteq Reach(Roots)]_vars
    BY EndSweepCollects
<1> QED BY <1>1, <1>2, <1>3, Invariance, PTL DEF Spec, CollectsAll

-----------------------------------------------------------------------------
(* The size of the heap and its threshold. *)

(* What the comparison of DVM_check_gc guarantees: between requests the    *)
(* heap is at most one object over the threshold, and when an object is    *)
(* about to be added it is not over it.                                    *)
RequestTyped ==
    request.kind \in Kind /\ (request.to = "resize" => request.obj \in Obj)
SizesBounded ==
    /\ kind \in [Obj -> Kind] /\ RequestTyped
    /\ heapSize \in Int /\ threshold \in Int
    /\ OvershootsByOne
    /\ phase = "alloc" => heapSize <= threshold

(* A step that leaves sizes and threshold alone, and starts no allocation. *)
LEMMA SameSizes ==
    ASSUME SizesBounded, UNCHANGED <<kind, heapSize, threshold>>,
           RequestTyped', phase' # "alloc"
    PROVE  SizesBounded'
BY DEF SizesBounded, OvershootsByOne, Charge

(* Every step keeps the sizes bounded, in every program. *)
LEMMA SizesBoundedNext ==
    ASSUME SizesBounded, [Next]_vars
    PROVE  SizesBounded'
<1>1. CASE UNCHANGED vars
    BY <1>1 DEF vars, heapVars, SizesBounded, RequestTyped, OvershootsByOne,
        Charge
<1>2. CASE Instructions \/ NativeCode
    <2>1. phase' # "alloc" /\ UNCHANGED <<kind, heapSize, threshold>>
        BY <1>2 DEF Instructions, NativeCode, PushNull, Push, Pop,
            Throw, Rethrow, InitReturn, PushStatic, PopStatic, PushField,
            PopField, Duplicate, Allocate, AllocateInField, Request, Running,
            InvokeNative, AllocateInNative, AllocateInNativeField,
            SetException, ReturnNative, heapVars
    <2>2. RequestTyped'
        <3>1. RequestTyped
            BY DEF SizesBounded
        <3>2. \A op \in Opcodes : Instruction[op].kind \in Kind
            BY OpcodeAssumption DEF Instruction, Kind
        <3>3. \A n \in Natives : NativeKind[n] \in Kind
            BY OpcodeAssumption DEF NativeKind, Kind
        <3>4. CASE Instructions
            BY <3>1, <3>2, <3>4 DEF RequestTyped, Instructions, PushNull, Push,
                Pop, Throw, Rethrow, InitReturn, PushStatic, PopStatic,
                PushField, PopField, Duplicate, Allocate, AllocateInField,
                Request, NoRequest, Kind
        <3>5. CASE NativeCode
            BY <3>1, <3>3, <3>5 DEF RequestTyped, NativeCode, Request,
                InvokeNative, AllocateInNative, AllocateInNativeField,
                SetException, ReturnNative, NoRequest, Kind
        <3> QED BY <1>2, <3>4, <3>5
    <2> QED BY <2>1, <2>2, SameSizes
<1>3. CASE CheckGC \/ StartSweep \/ \E o \in Obj : GcMark(o)
    <2>1. /\ UNCHANGED <<kind, heapSize, threshold, request>>
          /\ phase' = "alloc" => heapSize <= threshold
        BY <1>3 DEF CheckGC, StartMark, StartSweep, GcMark, heapVars, SizesBounded
    <2> QED BY <2>1 DEF SizesBounded, RequestTyped, OvershootsByOne, Charge
<1>4. ASSUME NEW o \in Obj, GcSweep(o)
      PROVE  SizesBounded'
    <2>1. /\ phase' = "sweep" /\ UNCHANGED <<threshold, request>>
          /\ \/ UNCHANGED <<kind, heapSize>>
             \/ /\ kind' = [kind EXCEPT ![o] = "literal"]
                /\ heapSize' = heapSize - Refund(kind[o])
        BY <1>4 DEF GcSweep
    <2>2. Refund(kind[o]) \in Nat
        BY SizeType DEF SizesBounded
    <2>3. heapSize' \in Int /\ heapSize' <= heapSize /\ kind' \in [Obj -> Kind]
        BY <2>1, <2>2 DEF SizesBounded, Kind
    <2>4. PICK k \in Kind : heapSize <= threshold + Charge(k)
        BY DEF SizesBounded, OvershootsByOne
    <2>5. Charge(k) \in Nat
        BY SizeType
    <2>6. heapSize' <= threshold' + Charge(k)
        BY <2>1, <2>3, <2>4, <2>5 DEF SizesBounded
    <2>7. OvershootsByOne'
        BY <2>6 DEF OvershootsByOne, Charge
    <2> QED BY <2>1, <2>3, <2>7 DEF SizesBounded, RequestTyped
<1>5. CASE EndSweep
    <2>1. CASE again
        BY <1>5, <2>1, SameSizes DEF EndSweep, StartMark, SizesBounded, RequestTyped
    <2>2. CASE ~again
        <3>1. /\ UNCHANGED <<kind, heapSize, request>>
              /\ threshold' = heapSize + ThresholdStep
            BY <1>5, <2>2 DEF EndSweep
        <3>2. threshold' \in Int /\ heapSize' <= threshold' /\ heapSize' \in Int
            BY <3>1, SizeAssumption DEF SizesBounded
        <3>3. Charge("literal") \in Nat /\ "literal" \in Kind
            BY SizeType DEF Kind
        <3>4. heapSize' <= threshold' + Charge("literal")
            BY <3>2, <3>3
        <3>5. OvershootsByOne'
            BY <3>3, <3>4 DEF OvershootsByOne, Charge
        <3> QED BY <3>1, <3>2, <3>5 DEF SizesBounded, RequestTyped
    <2> QED BY <2>1, <2>2
<1>6. ASSUME NEW o \in Obj, AllocObject(o)
      PROVE  SizesBounded'
    <2>1. /\ phase = "alloc" /\ phase' = "run" /\ request' = NoRequest
          /\ kind' = [kind EXCEPT ![o] = request.kind]
          /\ heapSize' = heapSize + Charge(request.kind)
          /\ threshold' = threshold
        BY <1>6 DEF AllocObject
    <2>2. /\ heapSize <= threshold /\ request.kind \in Kind
          /\ Charge(request.kind) \in Nat
        BY <2>1, SizeType DEF SizesBounded, RequestTyped
    <2>3. /\ heapSize' \in Int /\ kind' \in [Obj -> Kind]
          /\ heapSize' <= threshold' + Charge(request.kind)
        BY <2>1, <2>2 DEF SizesBounded
    <2>4. OvershootsByOne'
        BY <2>2, <2>3 DEF OvershootsByOne, Charge
    <2> QED BY <2>1, <2>3, <2>4 DEF SizesBounded, RequestTyped, NoRequest, Kind
<1>7. CASE ResizeArray
    <2>1. /\ phase = "alloc" /\ phase' = "run" /\ request' = NoRequest
          /\ kind' = [kind EXCEPT ![request.obj] = request.kind]
          /\ heapSize' = heapSize + Charge(request.kind) - Charge(kind[request.obj])
          /\ threshold' = threshold
        BY <1>7 DEF ResizeArray
    <2> DEFINE new == Charge(request.kind)
               old == Charge(kind[request.obj])
    <2>2. /\ heapSize <= threshold /\ request.kind \in Kind /\ new \in Nat
        BY <2>1, SizeType DEF SizesBounded, RequestTyped
    <2>3. old \in Nat
        <3>1. request.obj \in Obj
            BY <1>7 DEF SizesBounded, RequestTyped, ResizeArray
        <3> QED BY <3>1, SizeType DEF SizesBounded
    <2>4. kind' \in [Obj -> Kind]
        BY <2>1, <2>2 DEF SizesBounded
    <2>5. heapSize' = heapSize + new - old /\ heapSize \in Int /\ threshold \in Int
        BY <2>1 DEF SizesBounded
    <2> HIDE DEF new, old
    <2>6. heapSize' \in Int /\ heapSize' <= threshold + new
        BY <2>2, <2>3, <2>5
    <2>7. OvershootsByOne'
        BY <2>1, <2>2, <2>6 DEF OvershootsByOne, Charge, new
    <2> QED BY <2>1, <2>4, <2>5, <2>6, <2>7
            DEF SizesBounded, RequestTyped, NoRequest, Kind
<1>8. ASSUME NEW o \in Obj, ChangeArray(o) \/ RequestResize(o)
      PROVE  SizesBounded'
    <2>1. /\ phase' # "alloc" /\ UNCHANGED <<kind, heapSize, threshold>>
          /\ \/ request' = request
             \/ /\ kind[o] \in DOMAIN OtherBlock /\ request'.obj = o
                /\ request'.kind = OtherBlock[kind[o]]
        BY <1>8 DEF ChangeArray, RequestResize, Request, Resizable, Running,
            NoRequest, heapVars
    <2>2. RequestTyped'
        BY <2>1 DEF SizesBounded, RequestTyped, OtherBlock, Kind
    <2> QED BY <2>1, <2>2, SameSizes
<1> QED BY <1>1, <1>2, <1>3, <1>4, <1>5, <1>6, <1>7, <1>8
        DEF Next, Collect, Complete

(* The heap outgrows its threshold by one object at most, in every program *)
(* (substr included): alloc_object checks before it adds.                  *)
THEOREM Bounded == Spec => []OvershootsByOne
<1>1. Init => SizesBounded
    <2>1. ASSUME Init PROVE SizesBounded
        <3>1. /\ heapSize = 0 /\ threshold = ThresholdStep /\ phase = "run"
              /\ kind \in [Obj -> Kind] /\ RequestTyped
            BY <2>1 DEF Init, RequestTyped, Kind, NoRequest
        <3>2. Charge("literal") \in Nat /\ "literal" \in Kind
            BY SizeType DEF Kind
        <3>3. ThresholdStep \in Nat
            BY SizeAssumption
        <3> QED BY <3>1, <3>2, <3>3 DEF SizesBounded, OvershootsByOne
    <2> QED BY <2>1
<1>2. SizesBounded /\ [Next]_vars => SizesBounded'
    BY SizesBoundedNext
<1>3. SizesBounded => OvershootsByOne
    BY DEF SizesBounded
<1> QED BY <1>1, <1>2, <1>3, PTL DEF Spec

-----------------------------------------------------------------------------
(* The sum that HeapSizeExact compares the size with.                      *)

(* An induction over the size of a set is made by taking the least one for *)
(* which the claim fails.                                                  *)
LEMMA LeastSize ==
    ASSUME NEW T \in SUBSET Nat, T # {}
    PROVE  \E n \in T : \A m \in T : n <= m
<1> DEFINE R == OpToRel(<, Nat)
<1>1. \A x, y \in Nat : <<y, x>> \in R <=> y < x
    BY DEF OpToRel
<1>2. IsWellFoundedOn(R, Nat)
    BY NatLessThanWellFounded
<1> HIDE DEF R
<1>3. PICK x \in T : \A y \in T : ~(<<y, x>> \in R)
    BY <1>2, WFMin
<1>4. \A y \in T : y \in Nat /\ x \in Nat /\ ~(y < x)
    BY <1>1, <1>3
<1>5. \A y \in T : x <= y
    BY <1>4
<1> QED BY <1>5

(* An object of a set of objects; the charges of the objects of S, if f    *)
(* adds them for those of smaller sets, when k is their types.             *)
Some(S) == CHOOSE x \in S : TRUE
Sum(f, k, S) == IF S = {} THEN 0 ELSE Charge(k[Some(S)]) + f[S \ {Some(S)}]
IsSum(f, k) == f = [S \in SUBSET Obj |-> Sum(f, k, S)]
Total(k) == CHOOSE f : IsSum(f, k)

LEMMA SomeIn ==
    ASSUME IsFiniteSet(Obj), NEW S \in SUBSET Obj
    PROVE  /\ IsFiniteSet(S) /\ Cardinality(S) \in Nat
           /\ S # {} <=> Cardinality(S) > 0
           /\ S # {} => Some(S) \in S
           /\ \A x \in S : /\ S \ {x} \in SUBSET Obj
                           /\ Cardinality(S \ {x}) = Cardinality(S) - 1
<1>1. IsFiniteSet(S) /\ Cardinality(S) \in Nat
    BY FS_Subset, FS_CardinalityType
<1>2. S # {} <=> Cardinality(S) > 0
    BY <1>1, FS_EmptySet
<1>3. \A x \in S : Cardinality(S \ {x}) = Cardinality(S) - 1
    BY <1>1, FS_RemoveElement
<1> QED BY <1>1, <1>2, <1>3 DEF Some

(* There is such a function when memory is finite.                         *)
LEMMA TotalExists ==
    ASSUME IsFiniteSet(Obj), NEW k
    PROVE  IsSum(Total(k), k)
<1> DEFINE Small(n) == {S \in SUBSET Obj : Cardinality(S) <= n}
           Adds(f, n) == f = [S \in Small(n) |-> Sum(f, k, S)]
           Failing == {n \in Nat : ~\E f : Adds(f, n)}
<1>1. \E f : Adds(f, 0)
    <2> DEFINE f == [S \in Small(0) |-> 0]
    <2>1. \A S \in Small(0) : S = {}
        BY SomeIn
    <2>2. f = [S \in Small(0) |-> Sum(f, k, S)]
        BY <2>1 DEF Sum
    <2> QED BY <2>2
<1>2. ASSUME NEW n \in Nat, NEW g, Adds(g, n)
      PROVE  \E f : Adds(f, n + 1)
    <2> DEFINE f == [S \in Small(n + 1) |-> Sum(g, k, S)]
    <2>1. \A S \in Small(n + 1) : S # {} => S \ {Some(S)} \in Small(n)
        BY SomeIn
    <2>2. \A S \in Small(n) : S \in Small(n + 1)
        BY SomeIn
    <2>3. \A S \in Small(n) : g[S] = Sum(g, k, S)
        BY <1>2
    <2>4. \A S \in Small(n) : f[S] = g[S]
        BY <2>2, <2>3
    <2>5. ASSUME NEW S \in Small(n + 1)
          PROVE  Sum(f, k, S) = Sum(g, k, S)
        <3>1. S # {} => f[S \ {Some(S)}] = g[S \ {Some(S)}]
            BY <2>1, <2>4
        <3> HIDE DEF f
        <3> QED BY <3>1 DEF Sum
    <2>6. f = [S \in Small(n + 1) |-> Sum(f, k, S)]
        BY <2>5
    <2> QED BY <2>6
<1>3. Failing = {}
    <2> SUFFICES ASSUME Failing # {} PROVE FALSE
        OBVIOUS
    <2> HIDE DEF Adds
    <2>1. PICK n \in Failing : \A m \in Failing : n <= m
        BY LeastSize
    <2>2. n \in Nat \ {0}
        BY <2>1, <1>1
    <2>3. n - 1 \in Nat /\ (n - 1) + 1 = n /\ n - 1 \notin Failing
        BY <2>1, <2>2
    <2>4. PICK g : Adds(g, n - 1)
        BY <2>3
    <2>5. \E f : Adds(f, (n - 1) + 1)
        BY <1>2, <2>3, <2>4
    <2> QED BY <2>1, <2>3, <2>5
<1>4. Small(Cardinality(Obj)) = SUBSET Obj
    BY FS_Subset
<1>5. Cardinality(Obj) \in Nat
    BY FS_CardinalityType
<1>6. \E f : Adds(f, Cardinality(Obj))
    BY <1>3, <1>5
<1>7. \E f : IsSum(f, k)
    BY <1>4, <1>6 DEF IsSum
<1> QED BY <1>7 DEF Total

(* It may be computed by taking away any object: the order does not        *)
(* matter.                                                                 *)
LEMMA TotalStep ==
    ASSUME IsFiniteSet(Obj), NEW k \in [Obj -> Kind],
           NEW S \in SUBSET Obj
    PROVE  /\ Total(k)[S] \in Int
           /\ \A x \in S : Total(k)[S] = Charge(k[x]) + Total(k)[S \ {x}]
<1> DEFINE f == Total(k)
           Right(T) == /\ f[T] \in Int
                       /\ \A x \in T : f[T] = Charge(k[x]) + f[T \ {x}]
           Wrong == {n \in Nat : \E T \in SUBSET Obj : Cardinality(T) = n /\ ~Right(T)}
<1>1. \A T \in SUBSET Obj : f[T] = Sum(f, k, T)
    BY TotalExists DEF IsSum
<1> HIDE DEF f
<1>2. \A x \in Obj : Charge(k[x]) \in Int
    BY SizeType
<1>3. ASSUME NEW T \in SUBSET Obj,
             \A U \in SUBSET Obj : Cardinality(U) < Cardinality(T) => Right(U)
      PROVE  Right(T)
    <2>1. CASE T = {}
        BY <1>1, <2>1 DEF Sum
    <2>2. CASE T # {}
        <3> DEFINE y == Some(T)
        <3>1. y \in T /\ f[T] = Charge(k[y]) + f[T \ {y}]
            BY <1>1, <2>2, SomeIn DEF Sum
        <3> HIDE DEF y
        <3>2. ASSUME NEW x \in T
              PROVE  T \ {x} \in SUBSET Obj /\ Right(T \ {x})
            <4>1. /\ T \ {x} \in SUBSET Obj /\ Cardinality(T) \in Nat
                  /\ Cardinality(T \ {x}) = Cardinality(T) - 1
                BY SomeIn
            <4> HIDE DEF Right
            <4>2. Cardinality(T \ {x}) < Cardinality(T)
                BY <4>1
            <4> QED BY <1>3, <4>1, <4>2
        <3>3. f[T] \in Int
            BY <1>2, <3>1, <3>2
        <3>4. ASSUME NEW x \in T, x # y
              PROVE  f[T] = Charge(k[x]) + f[T \ {x}]
            <4>1. x \in T \ {y} /\ y \in T \ {x}
                BY <3>1, <3>4
            <4>2. /\ f[T \ {y}] = Charge(k[x]) + f[(T \ {y}) \ {x}]
                  /\ f[T \ {x}] = Charge(k[y]) + f[(T \ {x}) \ {y}]
                BY <3>1, <3>2, <4>1
            <4>3. (T \ {y}) \ {x} = (T \ {x}) \ {y} /\ (T \ {x}) \ {y} \in SUBSET Obj
                BY <4>1
            <4>4. /\ f[(T \ {x}) \ {y}] \in Int /\ f[T \ {x}] \in Int /\ f[T \ {y}] \in Int
                  /\ Charge(k[x]) \in Int /\ Charge(k[y]) \in Int
                <5> DEFINE U == T \ {x}
                <5>1. /\ U \in SUBSET Obj /\ y \in U
                      /\ Cardinality(T) \in Nat /\ Cardinality(U) = Cardinality(T) - 1
                    BY <4>1, SomeIn
                <5> HIDE DEF U, Right
                <5>2. /\ U \ {y} \in SUBSET Obj /\ Cardinality(U) \in Nat
                      /\ Cardinality(U \ {y}) = Cardinality(U) - 1
                    BY <5>1, SomeIn
                <5>3. Right(U \ {y})
                    BY <1>3, <5>1, <5>2
                <5> USE DEF Right
                <5>4. f[U \ {y}] \in Int
                    BY <5>3
                <5>5. f[T \ {x}] \in Int /\ f[T \ {y}] \in Int
                    BY <3>1, <3>2
                <5>6. Charge(k[x]) \in Int /\ Charge(k[y]) \in Int
                    BY <1>2, <3>1
                <5> HIDE DEF Right
                <5> QED BY <5>4, <5>5, <5>6 DEF U
            <4> HIDE DEF Right
            <4>5. f[T \ {y}] = Charge(k[x]) + f[(T \ {x}) \ {y}]
                BY <4>2, <4>3
            <4>6. Charge(k[y]) + f[T \ {y}] = Charge(k[x]) + f[T \ {x}]
                BY <4>2, <4>4, <4>5
            <4> QED BY <3>1, <4>6
        <3> QED BY <3>1, <3>3, <3>4
    <2> QED BY <2>1, <2>2
<1>4. Wrong = {}
    <2> SUFFICES ASSUME Wrong # {} PROVE FALSE
        OBVIOUS
    <2> HIDE DEF Right
    <2>1. PICK n \in Wrong : \A m \in Wrong : n <= m
        BY LeastSize
    <2>2. PICK T \in SUBSET Obj : Cardinality(T) = n /\ ~Right(T)
        BY <2>1
    <2>3. \A U \in SUBSET Obj : Cardinality(U) \in Nat
        BY SomeIn
    <2>4. \A U \in SUBSET Obj : Cardinality(U) < n => Right(U)
        BY <2>1, <2>3
    <2> QED BY <1>3, <2>2, <2>4
<1>5. Right(S)
    BY <1>4, SomeIn
<1> QED BY <1>5 DEF f

(* Objects outside the set do not count.                                   *)
LEMMA TotalAgrees ==
    ASSUME IsFiniteSet(Obj), NEW k \in [Obj -> Kind], NEW l \in [Obj -> Kind],
           NEW S \in SUBSET Obj, \A x \in S : k[x] = l[x]
    PROVE  Total(k)[S] = Total(l)[S]
<1> DEFINE Same(T) == Total(k)[T] = Total(l)[T]
           Wrong == {n \in Nat : \E T \in SUBSET S : Cardinality(T) = n /\ ~Same(T)}
<1>1. ASSUME NEW T \in SUBSET S,
             \A U \in SUBSET S : Cardinality(U) < Cardinality(T) => Same(U)
      PROVE  Same(T)
    <2>1. T \in SUBSET Obj
        OBVIOUS
    <2>2. CASE T = {}
        BY <2>1, <2>2, TotalExists DEF IsSum, Sum
    <2>3. CASE T # {}
        <3>1. PICK x : x \in T
            BY <2>3
        <3>2. T \ {x} \in SUBSET S /\ Same(T \ {x})
            BY <1>1, <2>1, <3>1, SomeIn
        <3>3. /\ Total(k)[T] = Charge(k[x]) + Total(k)[T \ {x}]
              /\ Total(l)[T] = Charge(l[x]) + Total(l)[T \ {x}]
            BY <2>1, <3>1, TotalStep
        <3> QED BY <3>1, <3>2, <3>3
    <2> QED BY <2>2, <2>3
<1>2. Wrong = {}
    <2> SUFFICES ASSUME Wrong # {} PROVE FALSE
        OBVIOUS
    <2> HIDE DEF Same
    <2>1. PICK n \in Wrong : \A m \in Wrong : n <= m
        BY LeastSize
    <2>2. PICK T \in SUBSET S : Cardinality(T) = n /\ ~Same(T)
        BY <2>1
    <2>3. \A U \in SUBSET S : Cardinality(U) \in Nat
        BY SomeIn
    <2>4. \A U \in SUBSET S : Cardinality(U) < n => Same(U)
        BY <2>1, <2>3
    <2> QED BY <1>1, <2>2, <2>4
<1>3. Cardinality(S) \in Nat
    BY SomeIn
<1> QED BY <1>2, <1>3

(* HeapSizeExact compares with this sum.                                   *)
LEMMA ExactTotal == HeapSizeExact <=> heapSize = Total(kind)[live]
BY DEF HeapSizeExact, Total, IsSum, Sum, Some

(* The same after a step.                                                  *)
LEMMA ExactTotalNext == (HeapSizeExact <=> heapSize = Total(kind)[live])'
BY ExactTotal, PTL

(* What an object that comes to a set adds to its sum, what it takes off   *)
(* when it leaves, whatever becomes of its type.                           *)
LEMMA TotalChanges ==
    ASSUME IsFiniteSet(Obj), NEW k \in [Obj -> Kind], NEW S \in SUBSET Obj,
           NEW o \in Obj, NEW t \in Kind
    PROVE  /\ o \notin S =>
                Total([k EXCEPT ![o] = t])[S \cup {o}] = Total(k)[S] + Charge(t)
           /\ o \in S =>
                Total([k EXCEPT ![o] = t])[S \ {o}] = Total(k)[S] - Charge(k[o])
<1> DEFINE l == [k EXCEPT ![o] = t]
<1>1. l \in [Obj -> Kind] /\ l[o] = t /\ \A x \in Obj \ {o} : l[x] = k[x]
    OBVIOUS
<1> HIDE DEF l
<1>2. Charge(t) \in Int /\ Charge(k[o]) \in Int
    BY SizeType
<1>3. ASSUME o \notin S
      PROVE  Total(l)[S \cup {o}] = Total(k)[S] + Charge(t)
    <2>1. (S \cup {o}) \ {o} = S
        BY <1>3
    <2>2. Total(l)[S \cup {o}] = Charge(l[o]) + Total(l)[S]
        BY <1>1, <2>1, TotalStep
    <2>3. Total(l)[S] = Total(k)[S]
        BY <1>1, <1>3, TotalAgrees
    <2>4. Total(k)[S] \in Int
        BY TotalStep
    <2> QED BY <1>1, <1>2, <2>1, <2>2, <2>3, <2>4
<1>4. ASSUME o \in S
      PROVE  Total(l)[S \ {o}] = Total(k)[S] - Charge(k[o])
    <2>1. Total(k)[S] = Charge(k[o]) + Total(k)[S \ {o}]
        BY <1>4, TotalStep
    <2>2. S \ {o} \in SUBSET Obj /\ \A x \in S \ {o} : l[x] = k[x]
        BY <1>1
    <2>3. Total(l)[S \ {o}] = Total(k)[S \ {o}]
        BY <1>1, <2>2, TotalAgrees
    <2>4. Total(k)[S \ {o}] \in Int
        BY <2>2, TotalStep
    <2> QED BY <1>2, <2>1, <2>3, <2>4
<1> QED BY <1>3, <1>4 DEF l

-----------------------------------------------------------------------------
(* The accounting.                                                         *)

(* The types of objects a program makes; an exception, which is a class    *)
(* object, gets its message and its stack trace, and arrays are resized.   *)
Asked == {Instruction[op].kind : op \in Opcodes} \cup {NativeKind[n] : n \in Natives}
New   == Asked \cup (IF "class" \in Asked THEN {"string", "objectArray"} ELSE {})
Made  == New \cup {OtherBlock[k] : k \in New \cap DOMAIN OtherBlock}

(* Each of them gives back what it was charged.                            *)
ChargesMatch == \A k \in Made : Charge(k) = Refund(k)

(* The size is exact, objects and requests are of the types the program    *)
(* makes (or of the type that stands for none), and gc_sweep_objects has   *)
(* only live objects before it.                                            *)
Accounted ==
    /\ live \in SUBSET Obj
    /\ kind \in [Obj -> Made \cup {"literal"}]
    /\ request.kind \in Made \cup {"literal"}
    /\ phase = "sweep" => unswept \subseteq live
    /\ HeapSizeExact

LEMMA MadeKinds ==
    /\ Made \subseteq Kind /\ "literal" \in Kind
    /\ \A op \in Opcodes : Instruction[op].kind \in Made
    /\ \A n \in Natives : NativeKind[n] \in Made
    /\ "class" \in Made => "string" \in Made /\ "objectArray" \in Made
    /\ \A k \in Made \cap DOMAIN OtherBlock : OtherBlock[k] \in Made
    /\ Charge("literal") = Refund("literal")
<1>1. \A op \in Opcodes : Instruction[op].kind \in Kind
    BY OpcodeAssumption DEF Instruction, Kind
<1>2. \A n \in Natives : NativeKind[n] \in Kind
    BY OpcodeAssumption DEF NativeKind, Kind
<1>3. Charge("literal") = Refund("literal")
    BY DEF Charge, Refund
<1>4. New \subseteq Kind
    BY <1>1, <1>2 DEF New, Asked, Kind
<1>5. \A k \in DOMAIN OtherBlock : /\ OtherBlock[k] \in Kind \cap DOMAIN OtherBlock
                                   /\ OtherBlock[OtherBlock[k]] = k
                                   /\ OtherBlock[k] # "class"
    BY DEF OtherBlock, Kind
<1>6. Made \subseteq Kind /\ "literal" \in Kind
    BY <1>4, <1>5 DEF Made, Kind
<1>7. \A k \in Made \cap DOMAIN OtherBlock : OtherBlock[k] \in Made
    BY <1>5 DEF Made
<1>8. "class" \in Made => "string" \in Made /\ "objectArray" \in Made
    <2>1. "class" \in Made => "class" \in New
        BY <1>5 DEF Made
    <2>2. "class" \in New => "class" \in Asked
        BY DEF New
    <2> QED BY <2>1, <2>2 DEF Made, New
<1>9. Asked \subseteq Made
    BY DEF Made, New
<1> QED BY <1>3, <1>6, <1>7, <1>8, <1>9 DEF Asked

(* A step that makes and frees nothing.                                    *)
LEMMA SameObjects ==
    ASSUME Accounted, UNCHANGED <<live, kind, heapSize>>,
           request'.kind \in Made \cup {"literal"},
           phase' = "sweep" => unswept' \subseteq live
    PROVE  Accounted'
BY DEF Accounted, HeapSizeExact, Charge

LEMMA AccountedNext ==
    ASSUME IsFiniteSet(Obj), ChargesMatch, Accounted, IInv, [Next]_vars
    PROVE  Accounted'
<1>0. TypeOK
    BY DEF IInv
<1>1. CASE UNCHANGED vars
    BY <1>1, SameObjects DEF vars, heapVars, sweepVars, Accounted
<1>2. CASE Instructions \/ NativeCode
    <2>1. phase' # "sweep" /\ UNCHANGED <<live, kind, heapSize>>
        BY <1>2 DEF Instructions, NativeCode, PushNull, Push, Pop,
            Throw, Rethrow, InitReturn, PushStatic, PopStatic, PushField,
            PopField, Duplicate, Allocate, AllocateInField, Request, Running,
            InvokeNative, AllocateInNative, AllocateInNativeField,
            SetException, ReturnNative, heapVars
    <2>2. ASSUME NEW o \in Obj, kind[o] = "class"
          PROVE  "string" \in Made /\ "objectArray" \in Made
        BY <2>2, MadeKinds DEF Accounted
    <2>3. ASSUME NEW f \in Field, NEW k \in {"string", "objectArray"}, AllocateInField(k, f)
          PROVE  request'.kind \in Made
        <3>1. Len(stack) \in Nat /\ Len(stack) > Floor /\ stack \in Seq(Slot)
            BY <1>0, <2>3 DEF AllocateInField, TypeOK
        <3>2. Floor \in Nat
            <4>1. CASE frame = <<>>
                BY <4>1 DEF Floor
            <4>2. CASE frame # <<>>
                <5>1. frame \in Seq(Frame) /\ Len(frame) \in 1..Len(frame)
                    BY <1>0, <4>2 DEF TypeOK
                <5>2. frame[Len(frame)] \in Frame
                    BY <5>1
                <5> QED BY <4>2, <5>2 DEF Floor, Frame
            <4> QED BY <4>1, <4>2
        <3>3. Top.ref \in Ref
            <4>1. Len(stack) \in 1..Len(stack)
                BY <3>1, <3>2
            <4>2. Top \in Slot
                BY <3>1, <4>1 DEF Top
            <4> QED BY <4>2 DEF Slot
        <3>4. Top.ref \in Obj /\ kind[Top.ref] = "class"
            BY <2>3, <3>3 DEF AllocateInField, Ref
        <3>5. request'.kind = k
            BY <2>3 DEF AllocateInField, Request, NoRequest
        <3> QED BY <2>2, <3>4, <3>5
    <2>4. ASSUME NEW o \in Obj, NEW f \in Field, NEW k \in {"string", "objectArray"},
                 AllocateInNativeField(k, o, f)
          PROVE  request'.kind \in Made
        <3>1. kind[o] = "class" /\ request'.kind = k
            BY <2>4 DEF AllocateInNativeField, Request, NoRequest
        <3> QED BY <2>2, <3>1
    <2>5. request'.kind \in Made \cup {"literal"}
        <3>1. request.kind \in Made \cup {"literal"}
            BY DEF Accounted
        <3>2. ASSUME NEW op \in Opcodes, Allocate(op)
              PROVE  request'.kind \in Made
            BY <3>2, MadeKinds DEF Allocate, Request, NoRequest
        <3>3. ASSUME NEW n \in Natives, AllocateInNative(n)
              PROVE  request'.kind \in Made
            BY <3>3, MadeKinds DEF AllocateInNative, Request, NoRequest
        <3>4. CASE Instructions
            BY <2>3, <3>1, <3>2, <3>4 DEF Instructions, PushNull, Push, Pop,
                Throw, Rethrow, InitReturn, PushStatic, PopStatic, PushField,
                PopField, Duplicate
        <3>5. CASE NativeCode
            BY <2>4, <3>1, <3>3, <3>5 DEF NativeCode, InvokeNative,
                SetException, ReturnNative
        <3> QED BY <1>2, <3>4, <3>5
    <2> QED BY <2>1, <2>5, SameObjects
<1>3. CASE CheckGC \/ StartSweep \/ EndSweep \/ \E o \in Obj : GcMark(o)
    <2>1. /\ UNCHANGED <<live, kind, heapSize, request>>
          /\ phase' = "sweep" => unswept' \subseteq live
        BY <1>3 DEF CheckGC, StartMark, StartSweep, EndSweep, GcMark, heapVars
    <2> QED BY <2>1, SameObjects DEF Accounted
<1>4. ASSUME NEW o \in Obj, GcSweep(o)
      PROVE  Accounted'
    <2>1. CASE o \in marked
        <3>1. /\ UNCHANGED <<live, kind, heapSize, request>>
              /\ phase = "sweep" /\ unswept' \subseteq unswept
            BY <1>4, <2>1 DEF GcSweep
        <3> QED BY <3>1, SameObjects DEF Accounted
    <2>2. CASE o \notin marked
        <3>1. /\ phase = "sweep" /\ o \in unswept /\ unswept' = unswept \ {o}
              /\ live' = live \ {o} /\ kind' = [kind EXCEPT ![o] = "literal"]
              /\ heapSize' = heapSize - Refund(kind[o]) /\ request' = request
            BY <1>4, <2>2 DEF GcSweep
        <3>2. /\ live \in SUBSET Obj /\ o \in live /\ unswept' \subseteq live'
              /\ kind \in [Obj -> Made \cup {"literal"}] /\ kind \in [Obj -> Kind]
            BY <3>1, MadeKinds DEF Accounted
        <3>3. Refund(kind[o]) = Charge(kind[o])
            BY <3>2, MadeKinds DEF ChargesMatch
        <3>4. Total(kind')[live'] = Total(kind)[live] - Charge(kind[o])
            <4>1. "literal" \in Kind
                BY MadeKinds
            <4>2. Total([kind EXCEPT ![o] = "literal"])[live \ {o}]
                    = Total(kind)[live] - Charge(kind[o])
                BY <3>2, <4>1, TotalChanges
            <4> QED BY <3>1, <4>2
        <3>5. heapSize = Total(kind)[live]
            BY ExactTotal DEF Accounted
        <3>6. heapSize' = Total(kind')[live']
            BY <3>1, <3>3, <3>4, <3>5
        <3>7. HeapSizeExact'
            BY <3>6, ExactTotalNext
        <3> QED BY <3>1, <3>2, <3>7 DEF Accounted
    <2> QED BY <2>1, <2>2
<1>5. ASSUME NEW o \in Obj, AllocObject(o)
      PROVE  Accounted'
    <2>1. /\ o \notin live /\ live' = live \cup {o}
          /\ kind' = [kind EXCEPT ![o] = request.kind]
          /\ heapSize' = heapSize + Charge(request.kind)
          /\ phase' = "run" /\ request' = NoRequest
        BY <1>5 DEF AllocObject
    <2>2. /\ live \in SUBSET Obj /\ request.kind \in Made \cup {"literal"}
          /\ kind \in [Obj -> Made \cup {"literal"}] /\ kind \in [Obj -> Kind]
          /\ request.kind \in Kind
        BY MadeKinds DEF Accounted
    <2>3. Total(kind')[live'] = Total(kind)[live] + Charge(request.kind)
        <3>1. Total([kind EXCEPT ![o] = request.kind])[live \cup {o}]
                = Total(kind)[live] + Charge(request.kind)
            BY <2>1, <2>2, TotalChanges
        <3> QED BY <2>1, <3>1
    <2>4. heapSize' = Total(kind')[live']
        BY <2>1, <2>3, ExactTotal DEF Accounted
    <2>5. HeapSizeExact'
        BY <2>4, ExactTotalNext
    <2> QED BY <2>1, <2>2, <2>5 DEF Accounted, NoRequest
<1>6. CASE ResizeArray
    <2> DEFINE o == request.obj
               rest == live \ {o}
    <2>1. /\ live' = live /\ phase = "alloc" /\ phase' = "run"
          /\ kind' = [kind EXCEPT ![o] = request.kind]
          /\ heapSize' = heapSize + Charge(request.kind) - Charge(kind[o])
          /\ request' = NoRequest
        BY <1>6 DEF ResizeArray
    <2>2. o \in live
        BY <1>6, <2>1, ResizeFacts DEF ResizeArray
    <2>3. /\ live \in SUBSET Obj /\ request.kind \in Made \cup {"literal"}
          /\ kind \in [Obj -> Made \cup {"literal"}] /\ kind \in [Obj -> Kind]
          /\ request.kind \in Kind /\ kind[o] \in Kind
        BY <2>2, MadeKinds DEF Accounted
    <2>4. rest \in SUBSET Obj /\ o \notin rest /\ rest \cup {o} = live /\ o \in Obj
        BY <2>2, <2>3
    <2> HIDE DEF o, rest
    <2>5. Total(kind')[live] = Total(kind)[rest] + Charge(request.kind)
        BY <2>1, <2>3, <2>4, TotalChanges
    <2>6. Total(kind)[live] = Charge(kind[o]) + Total(kind)[rest]
        BY <2>2, <2>3, <2>4, TotalStep DEF rest
    <2>7. /\ heapSize = Total(kind)[live] /\ Total(kind)[rest] \in Int
          /\ Charge(kind[o]) \in Nat /\ Charge(request.kind) \in Nat
        BY <2>3, <2>4, ExactTotal, TotalStep, SizeType DEF Accounted
    <2>8. heapSize' = Total(kind')[live']
        BY <2>1, <2>5, <2>6, <2>7
    <2>9. HeapSizeExact'
        BY <2>8, ExactTotalNext
    <2> QED BY <2>1, <2>3, <2>4, <2>9 DEF Accounted, NoRequest
<1>7. ASSUME NEW o \in Obj, ChangeArray(o) \/ RequestResize(o)
      PROVE  Accounted'
    <2>1. /\ phase' # "sweep" /\ UNCHANGED <<live, kind, heapSize>>
          /\ \/ request' = request
             \/ kind[o] \in DOMAIN OtherBlock /\ request'.kind = OtherBlock[kind[o]]
        BY <1>7 DEF ChangeArray, RequestResize, Request, Resizable, Running,
            NoRequest, heapVars
    <2>2. "literal" \notin DOMAIN OtherBlock
        BY DEF OtherBlock
    <2>3. request'.kind \in Made \cup {"literal"}
        BY <2>1, <2>2, MadeKinds DEF Accounted
    <2> QED BY <2>1, <2>3, SameObjects
<1> QED BY <1>1, <1>2, <1>3, <1>4, <1>5, <1>6, <1>7 DEF Next, Collect, Complete

(* current_heap_size is at any time the sum of what the live objects were  *)
(* charged, for every program that makes only objects that are refunded    *)
(* what they were charged, and does not call substr.                       *)
THEOREM Accounting ==
    ASSUME IsFiniteSet(Obj), NoSubstr, ChargesMatch
    PROVE  Spec => []HeapSizeExact
<1>1. Init => Accounted
    <2> SUFFICES ASSUME Init PROVE Accounted
        OBVIOUS
    <2>1. Total(kind)[{}] = 0
        BY TotalExists DEF IsSum, Sum
    <2>2. HeapSizeExact
        BY <2>1, ExactTotal DEF Init
    <2> QED BY <2>2 DEF Init, Accounted, NoRequest
<1>2. Accounted /\ IInv /\ [Next]_vars => Accounted'
    BY AccountedNext
<1>3. Accounted => HeapSizeExact
    BY DEF Accounted
<1> QED BY <1>1, <1>2, <1>3, Invariance, PTL DEF Spec

-----------------------------------------------------------------------------
(* The abstract heap.                                                      *)

(* The variables of HeapSpec under the refinement mapping. *)
abstractVars == <<live, field, InUse>>
AbstractStep == Abstract!Next \/ UNCHANGED abstractVars

(* Without substr the roots of the collector are just what is in use. *)
LEMMA InUseIsRoots == IInv => InUse = Roots
<1>1. Roots \subseteq InUse
    BY DEF Roots, InUse, Flagged, Operands
<1> QED BY <1>1, InUseRoots

(* The same after a step. *)
LEMMA InUseIsRootsNext == (IInv => InUse = Roots)'
BY InUseIsRoots, PTL

(* What is in use is reached, and the abstract reachability is that of the *)
(* collector.                                                              *)
LEMMA InUseReach ==
    ASSUME IInv
    PROVE  /\ InUse = Roots /\ Roots \subseteq Obj
           /\ Roots \subseteq Reach(Roots)
           /\ Abstract!Reach = Reach(Roots)
           /\ \A o \in Reach(Roots) : Children(o) \subseteq Reach(Roots)
<1>1. InUse = Roots /\ Roots \in SUBSET Obj
    BY InUseIsRoots DEF IInv, RootsLive, TypeOK
<1>2. Abstract!Reach = Reach(InUse)
    BY DEF Abstract!Reach, Abstract!Children, Reach, Children
<1>3. field \in [Obj -> [Field -> Ref]]
    BY InvFacts
<1> QED BY <1>1, <1>2, <1>3, ReachRoots, ReachClosed

(* A step that frees and makes no object, and changes only the fields of   *)
(* objects that can be reached to what can be reached.                     *)
LEMMA MutateStep ==
    ASSUME IInv, IInv', live' = live,
           Roots' \subseteq Reach(Roots),
           \A o \in Obj : field'[o] # field[o] =>
               o \in Reach(Roots) /\ Children(o)' \subseteq Reach(Roots)
    PROVE  AbstractStep
<1>1. InUse' = Roots'
    BY InUseIsRootsNext
<1>2. Abstract!Mutate
    BY <1>1, InUseReach DEF Abstract!Mutate, Abstract!Children, Children
<1> QED BY <1>2 DEF AbstractStep, Abstract!Next

(* A step that gives the running code a reference it could reach.          *)
LEMMA PlacedStep ==
    ASSUME IInv, IInv', NEW r \in Reach(Roots) \cup {Null}, Placed(r),
           UNCHANGED <<live, field, static>>, exception' \in {exception, Null, r}
    PROVE  AbstractStep
<1>1. Roots' \subseteq Roots \cup {r}
    BY DEF Placed, Roots
<1>2. Roots' \subseteq Reach(Roots)
    BY <1>1, InUseReach DEF Roots
<1> QED BY <1>2, MutateStep

(* A step that leaves the roots and the objects alone. *)
LEMMA StutterStep ==
    ASSUME UNCHANGED <<live, field, rootVars>>
    PROVE  AbstractStep
<1>1. InUse' = InUse
    BY SameRoots
<1> QED BY <1>1 DEF AbstractStep, abstractVars

-----------------------------------------------------------------------------
(* The instructions. *)

(* An instruction that cuts the stack back to n slots. *)
LEMMA CutStep ==
    ASSUME IInv, IInv', NEW n, Cut(n), frame' = frame, live' = live,
           {static'[v] : v \in Static} \cup {exception'}
               \subseteq Reach(Roots) \cup {Null},
           \A o \in Obj : field'[o] # field[o] =>
               o \in Reach(Roots) /\ Children(o)' \subseteq Reach(Roots)
    PROVE  AbstractStep
<1>1. Flagged' \subseteq Flagged
    BY InvFacts, CutRoots DEF IInv
<1>2. InContext' = InContext
    BY DEF InContext
<1>3. Roots' \subseteq Reach(Roots) \cup Roots
    BY <1>1, <1>2 DEF Roots
<1> QED BY <1>3, InUseReach, MutateStep

(* An instruction that writes a reference it could reach over the first n  *)
(* slots.                                                                  *)
LEMMA OverStep ==
    ASSUME IInv, IInv', NEW n, NEW x, Over(n, x), x.flag \/ x.ref = Null,
           x.ref \in Reach(Roots) \cup {Null},
           UNCHANGED <<live, field, static, frame>>,
           exception' \in {exception, Null}
    PROVE  AbstractStep
<1>1. Flagged' \subseteq Flagged \cup {x.ref}
    BY InvFacts, OverRoots DEF IInv
<1>2. InContext' = InContext
    BY DEF InContext
<1>3. Roots' \subseteq Reach(Roots) \cup Roots
    BY <1>1, <1>2 DEF Roots
<1> QED BY <1>3, InUseReach, MutateStep

(* What the statics and the current exception refer to is reached. *)
LEMMA OldRoots ==
    ASSUME IInv
    PROVE  {static[v] : v \in Static} \cup {exception}
             \subseteq Reach(Roots) \cup {Null}
BY InUseReach DEF Roots

(* Pushing a root. *)
LEMMA PushStep ==
    ASSUME IInv, IInv', NEW r \in Roots \cup {Null}, Push(r)
    PROVE  AbstractStep
<1>1. r \in Ref /\ r \in Reach(Roots) \cup {Null}
    BY InUseReach DEF Ref
<1>2. SubSeq(stack, 1, Len(stack)) = stack
    BY InvFacts, SubSeqFull
<1>3. Over(Len(stack), ObjSlot(r))
    BY <1>1, <1>2, ObjSlotType, InvFacts DEF Over, Push
<1> QED BY <1>1, <1>3, OverStep, ObjSlotType DEF Push, heapVars

(* The instructions that move references about copy what they can reach. *)
LEMMA MoveStep ==
    ASSUME IInv, IInv',
           \/ PushNull \/ Pop
           \/ \E v \in Static : PushStatic(v) \/ PopStatic(v)
           \/ \E f \in Field : PushField(f) \/ PopField(f)
           \/ \E i \in 1..StackMax : Duplicate(i)
    PROVE  AbstractStep
<1>1. CASE PushNull
    BY <1>1, PushStep DEF PushNull
<1>2. CASE Pop
    <2>1. Cut(Len(stack) - 1)
        BY <1>2, PopCuts, InvFacts DEF Pop
    <2> QED BY <1>2, <2>1, CutStep, OldRoots DEF Pop, heapVars
<1>3. ASSUME NEW v \in Static, PushStatic(v)
      PROVE  AbstractStep
    BY <1>3, PushStep DEF PushStatic, Roots
<1>4. ASSUME NEW v \in Static, PopStatic(v)
      PROVE  AbstractStep
    <2>1. Cut(Len(stack) - 1) /\ Top.ref \in Roots \cup {Null}
        BY <1>4, PopCuts, InvFacts, TopLive DEF PopStatic
    <2>2. \A w \in Static : static'[w] \in {static[w], Top.ref}
        BY <1>4, InvFacts DEF PopStatic
    <2>3. {static'[w] : w \in Static} \cup {exception'}
            \subseteq Reach(Roots) \cup {Null}
        BY <1>4, <2>1, <2>2, OldRoots, InUseReach DEF PopStatic
    <2> QED BY <1>4, <2>1, <2>3, CutStep DEF PopStatic, heapVars
<1>5. ASSUME NEW f \in Field, PushField(f)
      PROVE  AbstractStep
    <2>1. Top.ref \in Roots /\ Top.ref \in Obj /\ Len(stack) \in 1..Len(stack)
        BY <1>5, TopLive, InvFacts DEF PushField
    <2>2. field[Top.ref][f] \in Reach(Roots) \cup {Null}
        BY <2>1, InUseReach DEF Children
    <2>3. field[Top.ref][f] \in Ref
        BY <2>1, InvFacts
    <2>4. Over(Len(stack) - 1, ObjSlot(field[Top.ref][f]))
        BY <1>5, <2>1, <2>3, InvFacts, ObjSlotType DEF Over, PushField, PopN
    <2> QED BY <1>5, <2>2, <2>3, <2>4, OverStep, ObjSlotType
            DEF PushField, heapVars
<1>6. ASSUME NEW f \in Field, PopField(f)
      PROVE  AbstractStep
    <2> DEFINE r == stack[Len(stack) - 1].ref
    <2>1. /\ Top.ref \in Roots /\ Top.ref \in Obj
          /\ Len(stack) - 1 \in 1..Len(stack) /\ 2 <= Len(stack)
        BY <1>6, TopLive, InvFacts DEF PopField
    <2>2. r \in Roots \cup {Null}
        BY <2>1, OperandLive
    <2>3. Cut(Len(stack) - 2)
        BY <1>6, <2>1, PopCuts DEF PopField
    <2>4. PICK o \in Obj : o = Top.ref
        BY <2>1
    <2>5. field' = [field EXCEPT ![o][f] = r]
        BY <1>6, <2>4 DEF PopField
    <2>6. \A p \in Obj : field'[p] # field[p] => p = o
        BY <2>5, InvFacts
    <2>7. \A g \in Field : field'[o][g] \in {field[o][g], r}
        BY <2>5, InvFacts
    <2>8. Children(o)' \subseteq Children(o) \cup {r}
        BY <2>7 DEF Children
    <2> QED BY <1>6, <2>1, <2>2, <2>3, <2>4, <2>6, <2>8, CutStep, OldRoots,
               InUseReach, NullAssumption DEF PopField, Children
<1>7. ASSUME NEW i \in 1..StackMax, Duplicate(i)
      PROVE  AbstractStep
    <2>1. /\ i \in 1..Len(stack) /\ stack[i] \in Slot
          /\ stack[i].flag \/ stack[i].ref = Null
          /\ stack[i].ref \in Roots \cup {Null}
        BY <1>7, InvFacts, StackType, OperandLive
           DEF Duplicate, IInv, SlotsFlagged
    <2>2. Over(Len(stack), stack[i])
        BY <1>7, <2>1, InvFacts, SubSeqFull DEF Over, Duplicate
    <2> QED BY <1>7, <2>1, <2>2, OverStep, InUseReach DEF Duplicate, heapVars
<1> QED BY <1>1, <1>2, <1>3, <1>4, <1>5, <1>6, <1>7

(* A handler gets the exception, which the code that threw it could reach. *)
LEMMA HandleStep ==
    ASSUME IInv, IInv', NEW r \in Roots, Handle(r),
           UNCHANGED <<heapVars, static, frame>>
    PROVE  AbstractStep
<1>1. r \in Ref /\ r \in Reach(Roots)
    BY InUseReach DEF Ref
<1>0. Floor..Len(stack) \subseteq 0..Len(stack)
    BY InvFacts
<1>2. PICK n \in 0..Len(stack) :
        \/ stack' = Append(SubSeq(stack, 1, n), ObjSlot(r)) /\ exception' = Null
        \/ stack' = SubSeq(stack, 1, n) /\ exception' = r
    BY <1>0 DEF Handle
<1>3. CASE stack' = Append(SubSeq(stack, 1, n), ObjSlot(r)) /\ exception' = Null
    <2>1. Over(n, ObjSlot(r))
        BY <1>1, <1>2, <1>3, ObjSlotType DEF Over
    <2> QED BY <1>1, <1>3, <2>1, OverStep, ObjSlotType DEF heapVars
<1>4. CASE stack' = SubSeq(stack, 1, n) /\ exception' = r
    <2>1. Cut(n)
        BY <1>2, <1>4 DEF Cut
    <2>2. {static'[v] : v \in Static} \cup {exception'}
            \subseteq Reach(Roots) \cup {Null}
        BY <1>1, <1>4, OldRoots
    <2> QED BY <2>1, <2>2, CutStep DEF heapVars
<1> QED BY <1>2, <1>3, <1>4

(* throw, and an exception that goes on to the next handler. *)
LEMMA ThrowStep ==
    ASSUME IInv, IInv', Throw \/ Rethrow
    PROVE  AbstractStep
<1>1. CASE Throw
    BY <1>1, TopLive, HandleStep DEF Throw
<1>2. CASE Rethrow
    <2>1. exception \in Roots
        BY <1>2 DEF Rethrow, Roots
    <2> QED BY <1>2, <2>1, HandleStep DEF Rethrow
<1> QED BY <1>1, <1>2

(* A request for an object changes nothing in what is in use. *)
LEMMA RequestStep ==
    ASSUME \/ \E op \in Opcodes : Allocate(op)
           \/ \E f \in Field, k \in {"string", "objectArray"} :
                AllocateInField(k, f)
           \/ \E n \in Natives : AllocateInNative(n)
           \/ \E o \in Obj, f \in Field, k \in {"string", "objectArray"} :
                AllocateInNativeField(k, o, f)
           \/ \E o \in Obj : RequestResize(o)
    PROVE  AbstractStep
<1>1. UNCHANGED <<live, field, rootVars>>
    BY DEF Allocate, AllocateInField, AllocateInNative, AllocateInNativeField,
           RequestResize, Request, heapVars
<1> QED BY <1>1, StutterStep

(* A method of arrays changes an array its user could reach, and stores in *)
(* it what its user could reach.                                           *)
LEMMA ElementsStep ==
    ASSUME IInv, IInv', NEW o \in live, MoveElements(o),
           o \in Roots \/ InException(o), Inserted \subseteq Roots \cup {Null},
           UNCHANGED <<live, rootVars>>
    PROVE  AbstractStep
<1>1. o \in Obj /\ Roots' = Roots
    BY InvFacts, SameRoots
<1>2. o \in Reach(Roots)
    <2>1. InException(o) => exception \in Roots /\ o \in Children(exception)
        BY DEF InException, Roots
    <2> QED BY <2>1, InUseReach
<1>3. Children(o)' \subseteq Reach(Roots)
    <2>1. Children(o)' \subseteq Children(o) \cup Inserted
        BY <1>1, InvFacts, MoveElementsKept
    <2>2. Null \notin Children(o)'
        BY DEF Children
    <2> QED BY <1>2, <2>1, <2>2, InUseReach
<1>4. \A p \in Obj : field'[p] # field[p] => p = o
    BY <1>1, InvFacts, MoveElementsKept
<1> QED BY <1>1, <1>2, <1>3, <1>4, MutateStep, InUseReach

(* So do the methods that stay in the block and resize_array.              *)
LEMMA ArrayStep ==
    ASSUME IInv, IInv', ResizeArray \/ \E o \in Obj : ChangeArray(o)
    PROVE  AbstractStep
<1>1. CASE ResizeArray
    BY <1>1, ResizeFacts, ElementsStep DEF ResizeArray
<1>2. ASSUME NEW o \in Obj, ChangeArray(o)
      PROVE  AbstractStep
    BY <1>2, ResizableLive, ElementsStep DEF ChangeArray
<1> QED BY <1>1, <1>2

(* The entry and the return of native code and of field initializers. *)
LEMMA FrameStepUse ==
    ASSUME IInv, IInv',
           \/ InitReturn
           \/ \E argc \in 0..2 : InvokeNative(argc)
           \/ \E o \in Obj : SetException(o)
           \/ \E r \in Ref : ReturnNative(r)
    PROVE  AbstractStep
<1>1. CASE InitReturn
    <2>1. Placed(Top.ref) /\ Top.ref \in Reach(Roots)
        BY <1>1, InitReturnPlaced, InUseReach
    <2> QED BY <1>1, <2>1, PlacedStep DEF InitReturn, heapVars
<1>2. ASSUME NEW argc \in 0..2, InvokeNative(argc)
      PROVE  AbstractStep
    BY <1>2, InvokeNativePlaced, PlacedStep DEF InvokeNative, heapVars
<1>3. ASSUME NEW o \in Obj, SetException(o)
      PROVE  AbstractStep
    <2>0. Len(frame) \in 1..Len(frame)
        BY <1>3, InvFacts, FrameType DEF SetException, InNative
    <2>1. o \in InContext /\ o \in Roots
        BY <1>3, <2>0, NullAssumption DEF SetException, InContext, Roots
    <2>2. Flagged' = Flagged /\ InContext' = InContext
        BY <1>3 DEF SetException, Flagged, InContext
    <2>3. Roots' \subseteq Roots
        BY <1>3, <2>1, <2>2 DEF SetException, Roots
    <2> QED BY <1>3, <2>3, InUseReach, MutateStep DEF SetException, heapVars
<1>4. ASSUME NEW r \in Ref, ReturnNative(r)
      PROVE  AbstractStep
    <2>1. Placed(r) /\ r \in InContext \cup {Null}
        BY <1>4, ReturnNativePlaced
    <2>2. r \in Reach(Roots) \cup {Null}
        BY <2>1, InUseReach DEF Roots
    <2> QED BY <1>4, <2>1, <2>2, PlacedStep DEF ReturnNative, heapVars
<1> QED BY <1>1, <1>2, <1>3, <1>4

-----------------------------------------------------------------------------
(* The collection. *)

(* gc_sweep_objects reclaims what nothing in use leads to. *)
LEMMA SweepStep ==
    ASSUME IInv, MarksExact, NEW o \in Obj, GcSweep(o)
    PROVE  AbstractStep
<1>1. UNCHANGED rootVars
    BY DEF GcSweep
<1>2. CASE o \in marked
    BY <1>1, <1>2, StutterStep DEF GcSweep
<1>3. CASE o \notin marked
    <2>1. /\ live' = live \ {o} /\ field' = [field EXCEPT ![o] = NoFields]
          /\ o \in unswept /\ phase = "sweep"
        BY <1>3 DEF GcSweep
    <2>2. o \in live
        BY <2>1 DEF MarksExact
    <2>3. /\ marked \in SUBSET Obj /\ Roots \subseteq marked
          /\ \A p \in marked : Children(p) \subseteq marked
        BY <2>1 DEF IInv, TypeOK, Sweeping
    <2>4. Reach(Roots) \subseteq marked
        BY <2>3, ReachSubset
    <2>5. o \in live \ Abstract!Reach
        BY <1>3, <2>2, <2>4, InUseReach
    <2>6. \A p \in live' : field'[p] = field[p]
        BY <2>1, InvFacts
    <2>7. InUse' = InUse
        BY <1>1, SameRoots
    <2>8. Abstract!Reclaim(o)
        BY <2>1, <2>5, <2>6, <2>7 DEF Abstract!Reclaim
    <2> QED BY <2>8 DEF AbstractStep, Abstract!Next
<1> QED BY <1>2, <1>3

(* The other steps of a collection change nothing for its users. *)
LEMMA CollectStep ==
    ASSUME IInv, MarksExact, Collect
    PROVE  AbstractStep
<1>1. CASE CheckGC \/ StartSweep \/ EndSweep \/ \E o \in Obj : GcMark(o)
    <2>1. UNCHANGED <<live, field, rootVars>>
        BY <1>1 DEF CheckGC, StartSweep, EndSweep, GcMark, StartMark, heapVars
    <2> QED BY <2>1, StutterStep
<1> QED BY <1>1, SweepStep DEF Collect

(* alloc_object makes a new object; it leads to nothing its users could    *)
(* not reach, and at most one object of theirs leads to it.                *)
LEMMA AllocStep ==
    ASSUME IInv, IInv', NEW o \in Obj, AllocObject(o)
    PROVE  AbstractStep
<1>1. phase = "alloc" /\ o \notin live /\ live' = live \cup {o}
    BY DEF AllocObject
<1>2. Flagged' \subseteq Flagged \cup {o} /\ InContext' \subseteq InContext \cup {o}
    BY AllocPlaced DEF Placed
<1>3. Roots' \subseteq Roots \cup {o}
    BY <1>2 DEF AllocObject, Roots
<1>4. InUse' \subseteq Reach(Roots) \cup {o}
    BY <1>3, InUseReach, InUseIsRootsNext
<1>5. NoFields \in [Field -> Ref] /\ \A g \in Field : NoFields[g] = Null
    BY DEF NoFields, Ref
<1>6. \A p \in Obj : field'[p] # field[p] =>
        p \in Reach(Roots) \cup {o} /\ Children(p)' \subseteq Reach(Roots) \cup {o}
    <2>1. CASE request.to = "field"
        <3>1. PICK q \in Obj : q = request.obj /\ q \in Roots
            BY <1>1, <2>1, InUseReach DEF IInv, RequestOK
        <3>2. field' = [field EXCEPT ![o] = NoFields, ![q][request.f] = o]
            BY <2>1, <3>1 DEF AllocObject
        <3>3. q # o
            BY <1>1, <3>1 DEF IInv, RootsLive
        <3>4. \A p \in Obj : field'[p] # field[p] => p \in {o, q}
            BY <3>2, InvFacts
        <3>5. \A g \in Field : /\ field'[o][g] = Null
                               /\ field'[q][g] \in {field[q][g], o}
            BY <1>5, <3>2, <3>3, InvFacts
        <3>6. Children(o)' = {} /\ Children(q)' \subseteq Children(q) \cup {o}
            BY <3>5 DEF Children
        <3> QED BY <3>1, <3>4, <3>6, InUseReach
    <2>2. CASE request.to # "field"
        <3> DEFINE n == request.take
        <3>1. /\ field' = [field EXCEPT ![o] = Captured(n)]
              /\ n \in Nat /\ n <= Len(stack)
            BY <1>1, <2>2, AllocFacts DEF AllocObject, RequestType
        <3>2. ASSUME NEW g \in Field
              PROVE  Captured(n)[g] \in Roots \cup {Null}
            <4>1. g <= n => Len(stack) - n + g \in 1..Len(stack)
                BY <3>1, InvFacts DEF Field
            <4>2. g <= n => stack[Len(stack) - n + g].ref \in Roots \cup {Null}
                BY <4>1, OperandLive
            <4> QED BY <4>2 DEF Captured
        <3>3. \A p \in Obj : field'[p] # field[p] => p = o
            BY <3>1, InvFacts
        <3>4. \A g \in Field : field'[o][g] \in Roots \cup {Null}
            BY <3>1, <3>2, InvFacts
        <3>5. Children(o)' \subseteq Roots
            BY <3>4 DEF Children
        <3> QED BY <3>3, <3>5, InUseReach
    <2> QED BY <2>1, <2>2
<1>7. Abstract!Allocate(o)
    BY <1>1, <1>4, <1>6, InUseReach
       DEF Abstract!Allocate, Abstract!Children, Children
<1> QED BY <1>7 DEF AbstractStep, Abstract!Next

-----------------------------------------------------------------------------
(* The theorem. *)

(* Every step of the machine is a step of HeapSpec or changes nothing.     *)
LEMMA NextAbstract ==
    ASSUME IInv, IInv', MarksExact, [Next]_vars
    PROVE  [Abstract!Next]_abstractVars
<1>1. CASE UNCHANGED vars
    BY <1>1, StutterStep DEF vars, heapVars, AbstractStep
<1>2. CASE Next
    BY <1>2, MoveStep, ThrowStep, RequestStep, FrameStepUse, CollectStep,
       AllocStep, ArrayStep
       DEF Next, Instructions, NativeCode, Complete, AbstractStep
<1> QED BY <1>1, <1>2

(* The heap keeps what it promises: whatever the instructions, the native  *)
(* functions and the collector do, in every heap and every program that    *)
(* does not call substr, is what HeapSpec allows, so that an object is     *)
(* only reclaimed when nothing in use leads to it.                         *)
THEOREM Refinement ==
    ASSUME NoSubstr
    PROVE  Spec => ImplementsHeapSpec
<1>1. Init => Abstract!Init
    <2>1. ASSUME Init PROVE Abstract!Init
        <3>1. live = {} /\ field = [o \in Obj |-> [f \in Field |-> Null]]
            BY <2>1 DEF Init, NoFields
        <3>2. stack = <<>> /\ frame = <<>> /\ Len(stack) = 0 /\ Len(frame) = 0
            BY <2>1 DEF Init
        <3>3. InUse = {}
            BY <2>1, <3>2 DEF Init, InUse, Operands, Held, InContext
        <3> QED BY <3>1, <3>3 DEF Abstract!Init
    <2> QED BY <2>1
<1>2. Init => MarksExact
    BY DEF Init, MarksExact
<1>3. IInv /\ IInv' /\ MarksExact /\ [Next]_vars => MarksExact'
    BY MarksExactNext
<1>4. IInv /\ IInv' /\ MarksExact /\ [Next]_vars =>
        [Abstract!Next]_abstractVars
    BY NextAbstract
<1> QED BY <1>1, <1>2, <1>3, <1>4, Invariance, PTL
        DEF Spec, ImplementsHeapSpec, Abstract!Spec, abstractVars
=============================================================================
