-------------------------------- MODULE Heap --------------------------------
(***************************************************************************)
(* The heap of the Diksam virtual machine and its garbage collector        *)
(* (heap.c), with the roots the interpreter and the native functions give  *)
(* it (execute.c, nativeif.c).                                             *)
(*                                                                         *)
(* Every allocation is a sequence of steps: the request, DVM_check_gc, the *)
(* collection it may start (mark, sweep, again while a finalizer ran), and *)
(* only then the new object.  What the interpreter still needs must be     *)
(* reachable during all of them.                                           *)
(*                                                                         *)
(* Abstractions: an object is its type and the references it holds; an     *)
(* operand that is not a reference is a slot holding Null; the recursion   *)
(* of gc_mark is the set of references it has still to visit; the object   *)
(* list is the set of its members.                                         *)
(***************************************************************************)
EXTENDS Integers, Sequences, FiniteSets

CONSTANTS
    Obj,            \* the addresses MEM_malloc can return for a DVM_Object
    Null,           \* dvm_null_object_ref
    NField,         \* fields of a class object, elements of an object array
    Static,         \* the static variables of a reference type
    Opcodes,        \* the allocating instructions the program uses
    Natives,        \* the allocating native functions the program uses
    StackMax, FrameMax,         \* bounds of the stack and of nested calls
    HeapBound,                  \* bound of |current_heap_size|
    ThresholdStep,              \* HEAP_THRESHOLD_SIZE
    ArrayGrowth,                \* the elements a resized array has more
    ObjectSize, StringSize, IntSize, RefSize, PointerSize, ValueSize

ASSUME NullAssumption == Null \notin Obj
ASSUME SizeAssumption ==
    /\ NField \in Nat \ {0}
    /\ {ThresholdStep, StackMax, FrameMax, HeapBound} \subseteq Nat
    /\ {ObjectSize, StringSize, IntSize, ArrayGrowth} \subseteq Nat
    /\ {RefSize, PointerSize, ValueSize} \subseteq Nat

Ref   == Obj \cup {Null}
Field == 1..NField
Kind  == {"literal", "string", "intArray", "longIntArray", "objectArray",
          "longObjectArray", "class", "pointer", "delegate"}

(* An array has one of two blocks, and resize_array takes it from one to   *)
(* the other (VMArray has the sizes).                                      *)
OtherBlock == [intArray    |-> "longIntArray",    longIntArray    |-> "intArray",
               objectArray |-> "longObjectArray", longObjectArray |-> "objectArray"]
ObjectArrays == {"objectArray", "longObjectArray"}

(* What a free address holds does not matter: it is set to one value. *)
NoFields == [f \in Field |-> Null]

Slot      == [ref: Ref, flag: BOOLEAN]
ObjSlot(r) == [ref |-> r, flag |-> TRUE]

(* The allocating instructions: the type of the new object and the number  *)
(* of operands that it replaces.                                           *)
Instruction ==
    [push_string              |-> [kind |-> "literal",     drop |-> 0],
     add_string               |-> [kind |-> "string",      drop |-> 2],
     cast_int_to_string       |-> [kind |-> "string",      drop |-> 1],
     new                      |-> [kind |-> "class",       drop |-> 0],
     new_array_int            |-> [kind |-> "intArray",    drop |-> 1],
     new_array_object         |-> [kind |-> "objectArray", drop |-> 1],
     new_array_literal_object |-> [kind |-> "objectArray", drop |-> NField],
     push_delegate            |-> [kind |-> "delegate",    drop |-> 0],
     push_method_delegate     |-> [kind |-> "delegate",    drop |-> 1]]

(* The instructions whose operands become the references of the object.    *)
Capturing == {"new_array_literal_object", "push_method_delegate"}

(* What the native functions create.  All but substr use the DVM_create_*  *)
(* functions, which add the object to the native's context, and all but    *)
(* substr are registered with return_pointer TRUE if they return it.  The  *)
(* DVM_create_array_* functions add no reference; they are for native      *)
(* functions that others write, and no function of native.c calls them.    *)
NativeKind ==
    [fopen |-> "pointer", fgets |-> "string",
     set_exception |-> "class", substr |-> "string"]
(* Faulty variant: fgets forgets its context reference. *)
AddsReferenceNotFgets == {"fopen", "set_exception"}
AddsReference == {"fopen", "fgets", "set_exception"}

ASSUME OpcodeAssumption ==
    /\ Opcodes \subseteq DOMAIN Instruction
    /\ Natives \subseteq DOMAIN NativeKind

VARIABLES
    live,       \* the objects on the list dvm->heap.header
    kind,       \* the type of each object
    field,      \* the references each object holds
    marked,     \* the objects whose marked bit is set
    heapSize,   \* dvm->heap.current_heap_size
    threshold,  \* dvm->heap.current_threshold
    stack,      \* the operand stack with its pointer_flags
    static,     \* the static variables of the executables
    exception,  \* dvm->current_exception
    frame,      \* the native functions and field initializers in progress
    phase,      \* run, or a step of the allocation in progress
    request,    \* what that allocation makes
    todo,       \* the references gc_mark has still to visit
    unswept,    \* the objects gc_sweep_objects has still to look at
    again       \* call_finalizer of dvm_garbage_collect

heapVars  == <<live, kind, field, marked, heapSize, threshold>>
rootVars  == <<stack, static, exception, frame>>
sweepVars == <<todo, unswept, again>>
vars == <<heapVars, rootVars, phase, request, sweepVars>>

-----------------------------------------------------------------------------
(* References and reachability. *)

(* Faulty variant: a null field is visited. *)
ChildrenOrNull(o) == {field[o][f] : f \in Field}
Children(o) == {field[o][f] : f \in Field} \ {Null}

Flagged == {stack[i].ref : i \in {j \in 1..Len(stack) : stack[j].flag}}
Operands == {stack[i].ref : i \in 1..Len(stack)}
InContext == UNION {frame[i].refs : i \in 1..Len(frame)}
Held == UNION {frame[i].args \cup frame[i].local : i \in 1..Len(frame)}

(* Faulty variant: the native contexts are not visited. *)
RootsWithoutContexts ==
    ({static[v] : v \in Static} \cup Flagged \cup {exception}) \ {Null}

(* gc_mark_objects: statics, flagged stack slots, the current exception    *)
(* and the contexts of the native functions in progress.                   *)
Roots ==
    ({static[v] : v \in Static} \cup Flagged \cup {exception} \cup InContext)
        \ {Null}

(* The least set that contains R and the references of its members. *)
Reach(R) ==
    {o \in Obj : \A S \in SUBSET Obj :
        (R \subseteq S /\ \A p \in S : Children(p) \subseteq S) => o \in S}

(* What the interpreter and the native functions can still use. *)
InUse ==
    ({static[v] : v \in Static} \cup Operands \cup {exception} \cup Held
        \cup InContext) \ {Null}

-----------------------------------------------------------------------------
(* What an object adds to current_heap_size, and what its disposal takes   *)
(* off: object arrays are charged by reference and released by pointer,    *)
(* the fields of a class object are released and never charged.            *)
Charge(k) ==
    ObjectSize + [literal |-> 0, string |-> StringSize,
                  intArray |-> NField * IntSize,
                  longIntArray |-> (NField + ArrayGrowth) * IntSize,
                  objectArray |-> NField * RefSize,
                  longObjectArray |-> (NField + ArrayGrowth) * RefSize,
                  class |-> 0, pointer |-> 0, delegate |-> 0][k]

(* Faulty variant: a literal is refunded its characters. *)
RefundLiterals(k) ==
    ObjectSize + [literal |-> StringSize, string |-> StringSize,
                  intArray |-> NField * IntSize,
                  longIntArray |-> (NField + ArrayGrowth) * IntSize,
                  objectArray |-> NField * PointerSize,
                  longObjectArray |-> (NField + ArrayGrowth) * PointerSize,
                  class |-> NField * ValueSize, pointer |-> 0,
                  delegate |-> 0][k]

Refund(k) ==
    ObjectSize + [literal |-> 0, string |-> StringSize,
                  intArray |-> NField * IntSize,
                  longIntArray |-> (NField + ArrayGrowth) * IntSize,
                  objectArray |-> NField * PointerSize,
                  longObjectArray |-> (NField + ArrayGrowth) * PointerSize,
                  class |-> NField * ValueSize, pointer |-> 0,
                  delegate |-> 0][k]

-----------------------------------------------------------------------------
(* The part of the stack the running code may use, and who is running. *)
Floor    == IF frame = <<>> THEN 0 ELSE frame[Len(frame)].sp
InNative == frame # <<>> /\ frame[Len(frame)].tag = "native"
Running  == phase = "run" /\ ~InNative
Top      == stack[Len(stack)]
PopN(n)  == SubSeq(stack, 1, Len(stack) - n)

NoRequest == [kind |-> "literal", take |-> 0, drop |-> 0, to |-> "push",
              obj |-> Null, f |-> 1]

Init ==
    /\ live = {} /\ marked = {}
    /\ kind = [o \in Obj |-> "literal"]
    /\ field = [o \in Obj |-> NoFields]
    /\ heapSize = 0 /\ threshold = ThresholdStep
    /\ stack = <<>> /\ frame = <<>>
    /\ static = [v \in Static |-> Null]
    /\ exception = Null
    /\ phase = "run" /\ request = NoRequest
    /\ todo = {} /\ unswept = {} /\ again = FALSE

-----------------------------------------------------------------------------
(* Instructions that move references. *)

Push(r) ==
    /\ Running /\ Len(stack) < StackMax
    /\ stack' = Append(stack, ObjSlot(r))
    /\ UNCHANGED <<heapVars, static, exception, frame, phase, request,
                   sweepVars>>

PushNull == Push(Null)
PushStatic(v) == Push(static[v])

Pop ==
    /\ Running /\ Len(stack) > Floor
    /\ stack' = PopN(1)
    /\ UNCHANGED <<heapVars, static, exception, frame, phase, request,
                   sweepVars>>

Duplicate(i) ==
    /\ Running /\ Len(stack) < StackMax
    /\ i \in 1..Len(stack)
    /\ stack' = Append(stack, stack[i])
    /\ UNCHANGED <<heapVars, static, exception, frame, phase, request,
                   sweepVars>>

PopStatic(v) ==
    /\ Running /\ Len(stack) > Floor
    /\ static' = [static EXCEPT ![v] = Top.ref]
    /\ stack' = PopN(1)
    /\ UNCHANGED <<heapVars, exception, frame, phase, request, sweepVars>>

(* A null object throws instead (throw_null_pointer_exception). *)
PushField(f) ==
    /\ Running /\ Len(stack) > Floor
    /\ Top.ref # Null /\ kind[Top.ref] \in {"class"} \cup ObjectArrays
    /\ stack' = Append(PopN(1), ObjSlot(field[Top.ref][f]))
    /\ UNCHANGED <<heapVars, static, exception, frame, phase, request,
                   sweepVars>>

PopField(f) ==
    /\ Running /\ Len(stack) > Floor + 1
    /\ Top.ref # Null /\ kind[Top.ref] \in {"class"} \cup ObjectArrays
    /\ field' = [field EXCEPT ![Top.ref][f] = stack[Len(stack) - 1].ref]
    /\ stack' = PopN(2)
    /\ UNCHANGED <<live, kind, marked, heapSize, threshold, static,
                   exception, frame, phase, request, sweepVars>>

-----------------------------------------------------------------------------
(* Exceptions: do_throw and throw_in_try cut the stack back to the frame   *)
(* of the handler, which gets the exception as an operand (catch) or       *)
(* leaves it in current_exception (finally, or do_return on the way out).  *)
(* In a field initializer the handler is in a function that it calls; an   *)
(* exception that leaves the initializer itself is not modelled: it is     *)
(* looked up in the try table of the top level (func is NULL), or ends the *)
(* program.                                                                *)
Handle(r) ==
    \E n \in Floor..Len(stack) :
        \/ /\ n < StackMax
           /\ stack' = Append(SubSeq(stack, 1, n), ObjSlot(r))
           /\ exception' = Null
        \/ /\ stack' = SubSeq(stack, 1, n)
           /\ exception' = r

Throw ==
    /\ Running /\ Len(stack) > Floor
    /\ Top.ref # Null /\ kind[Top.ref] = "class"
    /\ Handle(Top.ref)
    /\ UNCHANGED <<heapVars, static, frame, phase, request, sweepVars>>

(* FINALLY_END with an exception pending, or the return of a native        *)
(* function that set one.                                                  *)
Rethrow ==
    /\ Running /\ exception # Null
    /\ Handle(exception)
    /\ UNCHANGED <<heapVars, static, frame, phase, request, sweepVars>>

-----------------------------------------------------------------------------
(* Allocation requests. *)

Request(r) ==
    /\ live # Obj \/ r.to = "resize"
    /\ heapSize \in -HeapBound..HeapBound
    /\ request' = r
    /\ phase' = "check"
    /\ UNCHANGED <<heapVars, rootVars, sweepVars>>

Allocate(op) ==
    LET i == Instruction[op] IN
    /\ Running
    /\ Len(stack) >= Floor + i.drop
    /\ Len(stack) - i.drop < StackMax
    /\ i.kind = "class" => Len(frame) < FrameMax
    /\ op = "push_method_delegate" => Top.ref # Null
    /\ Request([NoRequest EXCEPT !.kind = i.kind, !.drop = i.drop,
                   !.take = IF op \in Capturing THEN i.drop ELSE 0])

(* dvm_create_exception and add_stack_trace: a string or an array stored   *)
(* at once in a field of the object on top of the stack.                   *)
AllocateInField(k, f) ==
    /\ Running /\ Len(stack) > Floor
    /\ Top.ref # Null /\ kind[Top.ref] = "class"
    /\ Request([NoRequest EXCEPT !.kind = k, !.to = "field",
                   !.obj = Top.ref, !.f = f])

(* A native function; only an exception's constructor runs inside one.     *)
AllocateInNative(n) ==
    /\ phase = "run" /\ InNative /\ frame[Len(frame)].local = {}
    /\ NativeKind[n] = "class" => Len(frame) < FrameMax
                                  /\ Len(stack) < StackMax
    /\ Request([NoRequest EXCEPT !.kind = NativeKind[n],
                   !.to = IF n \in AddsReference THEN "native" ELSE "local"])

(* DVM_set_exception: the message and the stack trace of the exception.    *)
AllocateInNativeField(k, o, f) ==
    /\ phase = "run" /\ InNative
    /\ o \in frame[Len(frame)].refs /\ kind[o] = "class"
    /\ Request([NoRequest EXCEPT !.kind = k, !.to = "field",
                   !.obj = o, !.f = f])

(* The arrays that are resized: the argument of a native method of arrays, *)
(* or the trace of the current exception, to which add_stack_trace adds    *)
(* the object it has on top of the stack.                                  *)
InException(o) == exception # Null /\ o \in Children(exception)
Resizable(o) ==
    /\ kind[o] \in DOMAIN OtherBlock
    /\ \/ InNative /\ o \in frame[Len(frame)].args
       \/ Running /\ Len(stack) > Floor /\ InException(o)
Inserted == IF InNative THEN frame[Len(frame)].args ELSE {Top.ref}

(* The elements of an array move, go, or are inserted. *)
MoveElements(o) ==
    IF kind[o] \in ObjectArrays
    THEN \E e \in [Field -> Children(o) \cup Inserted \cup {Null}] :
            field' = [field EXCEPT ![o] = e]
    ELSE UNCHANGED field

(* DVM_array_insert, DVM_array_remove, DVM_array_resize: in the block the  *)
(* array has, or in another, which is asked for with DVM_check_gc.         *)
ChangeArray(o) ==
    /\ phase = "run" /\ Resizable(o)
    /\ MoveElements(o)
    /\ UNCHANGED <<live, kind, marked, heapSize, threshold, rootVars, phase,
                   request, sweepVars>>

RequestResize(o) ==
    /\ phase = "run" /\ Resizable(o)
    /\ Request([NoRequest EXCEPT !.kind = OtherBlock[kind[o]],
                   !.to = "resize", !.obj = o])

-----------------------------------------------------------------------------
(* DVM_check_gc and dvm_garbage_collect. *)

(* Faulty variant: the marks are not reset. *)
StartMarkKeepingMarks ==
    /\ UNCHANGED marked
    /\ todo' = Roots
    /\ phase' = "mark"
    /\ UNCHANGED <<live, kind, field, heapSize, threshold, rootVars, request,
                   unswept, again>>

StartMark ==
    /\ marked' = {}
    /\ todo' = Roots
    /\ phase' = "mark"
    /\ UNCHANGED <<live, kind, field, heapSize, threshold, rootVars, request,
                   unswept, again>>

(* Faulty variant: the comparison with the threshold is reversed. *)
CheckGCTooLate ==
    /\ phase = "check"
    /\ IF heapSize < threshold
       THEN StartMark
       ELSE phase' = "alloc" /\ UNCHANGED <<heapVars, rootVars, request,
                                            sweepVars>>

CheckGC ==
    /\ phase = "check"
    /\ IF heapSize > threshold
       THEN StartMark
       ELSE phase' = "alloc" /\ UNCHANGED <<heapVars, rootVars, request,
                                            sweepVars>>

(* Faulty variant: the fields of an object are not visited. *)
GcMarkShallow(o) ==
    /\ phase = "mark" /\ o \in todo
    /\ todo' = todo \ {o} /\ marked' = marked \cup {o}
    /\ UNCHANGED <<live, kind, field, heapSize, threshold, rootVars, phase,
                   request, unswept, again>>

GcMark(o) ==
    /\ phase = "mark" /\ o \in todo
    /\ IF o \in marked
       THEN todo' = todo \ {o} /\ UNCHANGED marked
       ELSE todo' = (todo \ {o}) \cup Children(o) /\ marked' = marked \cup {o}
    /\ UNCHANGED <<live, kind, field, heapSize, threshold, rootVars, phase,
                   request, unswept, again>>

(* Faulty variant: the finalizer flag is not reset. *)
StartSweepStillAgain ==
    /\ phase = "mark" /\ todo = {}
    /\ phase' = "sweep"
    /\ unswept' = live
    /\ UNCHANGED <<heapVars, rootVars, request, todo, again>>

StartSweep ==
    /\ phase = "mark" /\ todo = {}
    /\ phase' = "sweep"
    /\ unswept' = live
    /\ again' = FALSE
    /\ UNCHANGED <<heapVars, rootVars, request, todo>>

GcSweep(o) ==
    /\ phase = "sweep" /\ o \in unswept
    /\ unswept' = unswept \ {o}
    /\ IF o \in marked
       THEN UNCHANGED <<live, kind, field, heapSize, again>>
       ELSE /\ live' = live \ {o}
            /\ kind' = [kind EXCEPT ![o] = "literal"]
            /\ field' = [field EXCEPT ![o] = NoFields]
            /\ heapSize' = heapSize - Refund(kind[o])
            /\ again' = (again \/ kind[o] = "pointer")
    /\ UNCHANGED <<marked, threshold, rootVars, phase, request, todo>>

EndSweep ==
    /\ phase = "sweep" /\ unswept = {}
    /\ IF again
       THEN StartMark
       ELSE /\ phase' = "alloc"
            /\ threshold' = heapSize + ThresholdStep
            /\ again' = FALSE
            /\ UNCHANGED <<live, kind, field, marked, heapSize, rootVars,
                           request, todo, unswept>>

Collect == CheckGC \/ StartSweep \/ EndSweep
           \/ \E o \in Obj : GcMark(o) \/ GcSweep(o)

-----------------------------------------------------------------------------
(* alloc_object and what its caller does with the new object. *)

Captured(n) ==
    [f \in Field |-> IF f <= n THEN stack[Len(stack) - n + f].ref ELSE Null]

NewFrame(tag, sp, argc, args) ==
    [tag |-> tag, sp |-> sp, argc |-> argc, args |-> args,
     refs |-> {}, local |-> {}]

(* Where the object goes: onto the stack, into a field, or to the native   *)
(* function that asked for it, which adds it to its context or does not.   *)
Deliver(o) ==
    \/ /\ request.to = "push"
       /\ stack' = Append(PopN(request.drop), ObjSlot(o))
       /\ UNCHANGED frame
    \/ /\ request.to = "field"
       /\ UNCHANGED <<stack, frame>>
    \/ /\ request.to \in {"native", "local"}
       /\ frame' = IF request.to = "native"
                   THEN [frame EXCEPT ![Len(frame)].refs = @ \cup {o}]
                   ELSE [frame EXCEPT ![Len(frame)].local = @ \cup {o}]
       /\ UNCHANGED stack

AllocObject(o) ==
    /\ phase = "alloc" /\ request.to # "resize" /\ o \notin live
    /\ live' = live \cup {o}
    /\ marked' = marked \ {o}
    /\ kind' = [kind EXCEPT ![o] = request.kind]
    /\ heapSize' = heapSize + Charge(request.kind)
    /\ field' = IF request.to = "field"
                THEN [field EXCEPT ![o] = NoFields,
                                   ![request.obj][request.f] = o]
                ELSE [field EXCEPT ![o] = Captured(request.take)]
    /\ IF request.kind = "class"
       THEN \* initialize_fields pushes the object and runs its initializer
            /\ stack' = Append(stack, ObjSlot(o))
            /\ frame' = Append(frame,
                              NewFrame("init", Len(stack) + 1, 1, {o}))
       ELSE Deliver(o)
    /\ phase' = "run" /\ request' = NoRequest
    /\ UNCHANGED <<threshold, static, exception, sweepVars>>

(* The rest of resize_array and of the function that called it. *)
ResizeArray ==
    /\ phase = "alloc" /\ request.to = "resize"
    /\ MoveElements(request.obj)
    /\ kind' = [kind EXCEPT ![request.obj] = request.kind]
    /\ heapSize' = heapSize + Charge(request.kind) - Charge(kind[request.obj])
    /\ phase' = "run" /\ request' = NoRequest
    /\ UNCHANGED <<live, marked, threshold, rootVars, sweepVars>>

(* The field initializer is done: dvm_pop_object, and the object goes to   *)
(* the instruction or the native function that created it.                 *)
InitReturn ==
    /\ Running /\ frame # <<>> /\ Len(stack) = Floor
    /\ LET o == Top.ref
           n == Len(frame) - 1 IN
       IF n > 0 /\ frame[n].tag = "native"
       THEN /\ stack' = PopN(1)
            /\ frame' = [SubSeq(frame, 1, n) EXCEPT ![n].refs = @ \cup {o}]
       ELSE /\ stack' = Append(PopN(1), ObjSlot(o))
            /\ frame' = SubSeq(frame, 1, n)
    /\ UNCHANGED <<heapVars, static, exception, phase, request, sweepVars>>

-----------------------------------------------------------------------------
(* Native functions: INVOKE, invoke_native_function, the context. *)

InvokeNative(argc) ==
    /\ Running /\ Len(frame) < FrameMax
    /\ Len(stack) >= Floor + argc /\ Len(stack) - argc < StackMax
    /\ frame' = Append(frame, NewFrame("native", Len(stack), argc,
                    {stack[i].ref : i \in Len(stack)-argc+1..Len(stack)}
                        \ {Null}))
    /\ exception' = Null
    /\ UNCHANGED <<heapVars, stack, static, phase, request, sweepVars>>

(* DVM_set_exception's last assignment. *)
SetException(o) ==
    /\ phase = "run" /\ InNative
    /\ o \in frame[Len(frame)].refs /\ kind[o] = "class"
    /\ exception' = o
    /\ UNCHANGED <<heapVars, stack, static, frame, phase, request, sweepVars>>

ReturnNative(r) ==
    LET top == frame[Len(frame)] IN
    /\ phase = "run" /\ InNative
    /\ r \in top.refs \cup top.local \cup {Null}
    /\ stack' = Append(PopN(top.argc), [ref |-> r, flag |-> r \notin top.local])
    /\ frame' = SubSeq(frame, 1, Len(frame) - 1)
    /\ UNCHANGED <<heapVars, static, exception, phase, request, sweepVars>>

-----------------------------------------------------------------------------
Instructions ==
    \/ PushNull \/ Pop \/ Throw \/ Rethrow \/ InitReturn
    \/ \E v \in Static : PushStatic(v) \/ PopStatic(v)
    \/ \E f \in Field : PushField(f) \/ PopField(f)
    \/ \E i \in 1..StackMax : Duplicate(i)
    \/ \E op \in Opcodes : Allocate(op)
    \/ \E f \in Field, k \in {"string", "objectArray"} : AllocateInField(k, f)

NativeCode ==
    \/ \E argc \in 0..2 : InvokeNative(argc)
    \/ \E n \in Natives : AllocateInNative(n)
    \/ \E o \in Obj, f \in Field, k \in {"string", "objectArray"} :
        AllocateInNativeField(k, o, f)
    \/ \E o \in Obj : SetException(o)
    \/ \E r \in Ref : ReturnNative(r)

(* The end of an allocation. *)
Complete == ResizeArray \/ \E o \in Obj : AllocObject(o)

Next == \/ Instructions \/ NativeCode \/ Collect \/ Complete
        \/ \E o \in Obj : ChangeArray(o) \/ RequestResize(o)

Spec == Init /\ [][Next]_vars

(* An allocation in progress is one C call: nothing can suspend it. *)
FairSpec == Spec /\ WF_vars(Collect) /\ WF_vars(Complete)

-----------------------------------------------------------------------------
(* Properties. *)

Frame == [tag: {"native", "init"}, sp: Nat, argc: Nat, args: SUBSET Obj,
          refs: SUBSET Obj, local: SUBSET Obj]

(* Every variable has its type; no request is left over from its sweep. *)
TypeOK ==
    /\ live \subseteq Obj /\ marked \subseteq Obj
    /\ kind \in [Obj -> Kind]
    /\ field \in [Obj -> [Field -> Ref]]
    /\ heapSize \in Int /\ threshold \in Int
    /\ stack \in Seq(Slot) /\ static \in [Static -> Ref]
    /\ exception \in Ref /\ frame \in Seq(Frame)
    /\ phase \in {"run", "check", "mark", "sweep", "alloc"}
    /\ request \in [kind: Kind, take: Nat, drop: Nat, obj: Ref, f: Field,
                     to: {"push", "field", "native", "local", "resize"}]
    /\ todo \subseteq Obj /\ unswept \subseteq Obj /\ again \in BOOLEAN

(* No dangling reference: whatever the interpreter or a native function    *)
(* still uses, on the stack, in a static, as the current exception, in a   *)
(* context or in a local variable of native code, and all that is          *)
(* reachable from it, has not been freed (gc_mark_objects marks enough).   *)
NoDangling == Reach(InUse) \subseteq live

(* A collection leaves no garbage: when dvm_garbage_collect returns, the   *)
(* objects on the heap are those that the roots lead to.                   *)
CollectsAll ==
    [][phase = "sweep" /\ phase' = "alloc" => live' \subseteq Reach(Roots)]_vars

(* current_heap_size is the sum of what the live objects were charged.     *)
(* (True of a program without class objects and object arrays only.)       *)
HeapSizeExact ==
    LET sum[S \in SUBSET Obj] ==
            IF S = {} THEN 0
            ELSE LET o == CHOOSE x \in S : TRUE
                 IN Charge(kind[o]) + sum[S \ {o}]
    IN heapSize = sum[live]

(* The heap outgrows the threshold by one object at most, whatever is      *)
(* allocated in between: every allocation checks before it adds.           *)
OvershootsByOne ==
    \E k \in Kind : heapSize <= threshold + Charge(k)

(* Every allocation ends: the do-while of dvm_garbage_collect stops.       *)
AllocationEnds == phase = "check" ~> phase = "run"

(* What the program uses is never reclaimed under it. *)
Abstract == INSTANCE HeapSpec WITH inUse <- InUse
ImplementsHeapSpec == Abstract!Spec

-----------------------------------------------------------------------------
(* The inductive invariant. *)

(* An unflagged slot holds no reference (substr's result would be one). *)
SlotsFlagged == \A i \in 1..Len(stack) : stack[i].flag \/ stack[i].ref = Null
NoLocals ==
    request.to # "local" /\ \A i \in 1..Len(frame) : frame[i].local = {}

(* The frames lie one above the other, and the operands of each (arguments *)
(* of a native function, the object of a field initializer) stay on the    *)
(* stack until it returns.                                                 *)
FrameOnStack(i) ==
    /\ frame[i].argc <= frame[i].sp
    /\ frame[i].args \subseteq
         {stack[j].ref : j \in frame[i].sp - frame[i].argc + 1..frame[i].sp}
    /\ frame[i].tag = "init" => frame[i].argc = 1 /\ frame[i].args # {}
    /\ \A j \in 1..i-1 : frame[j].sp <= frame[i].sp - frame[i].argc
    /\ i > 1 /\ frame[i-1].tag = "native" =>
            /\ frame[i].tag = "init"
            /\ frame[i-1].sp = frame[i].sp - frame[i].argc

FramesOnStack ==
    /\ Floor <= Len(stack)
    /\ InNative => Len(stack) = Floor
    /\ \A i \in 1..Len(frame) : FrameOnStack(i)

(* What an allocation in progress relies on. *)
RequestOK ==
    phase # "run" =>
        /\ request.take \in {0, request.drop}
        /\ request.drop <= Len(stack) - Floor
        /\ request.to \in {"native", "local"} => InNative
        /\ InNative => request.drop = 0
        /\ request.to = "push" => ~InNative
        /\ request.to = "field" => request.obj \in Roots /\ request.kind # "class"
        /\ request.to = "resize" =>
            /\ request.obj \in Roots \/ InException(request.obj)
            /\ InNative \/ Len(stack) > Floor

RootsLive  == Roots \subseteq live
FieldsLive == \A o \in live : Children(o) \subseteq live

(* The tri-colour invariant of the marking, and its outcome. *)
Marking ==
    phase = "mark" =>
        /\ marked \subseteq live /\ todo \subseteq live
        /\ Roots \subseteq marked \cup todo
        /\ \A o \in marked : Children(o) \subseteq marked \cup todo

Sweeping ==
    phase = "sweep" =>
        /\ marked \subseteq live /\ Roots \subseteq marked
        /\ \A o \in marked : Children(o) \subseteq marked
        /\ live \subseteq marked \cup unswept

IInv ==
    /\ TypeOK
    /\ SlotsFlagged /\ NoLocals
    /\ FramesOnStack
    /\ RequestOK
    /\ RootsLive
    /\ phase # "sweep" => FieldsLive
    /\ Marking
    /\ Sweeping
=============================================================================
