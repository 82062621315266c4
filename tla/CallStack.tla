----------------------------- MODULE CallStack -----------------------------
(***************************************************************************)
(* The stack of the virtual machine: calls of functions, methods and       *)
(* delegates, native functions, among them the methods of arrays, native   *)
(* functions that call back, and the growth of the stack (execute.c),      *)
(* against frames that have their own parameters, variables and operands.  *)
(*                                                                         *)
(* A value is <<type, number>>: an integer, an array or object (0: null),  *)
(* a delegate by its place in Delegates.  A program maps function numbers, *)
(* 0 the top level, to [kind, method, parameters, locals, type, proc,      *)
(* return_pointer, code]; return_pointer is what a native function was     *)
(* registered with, and an instruction is [op, n].                         *)
(***************************************************************************)
EXTENDS VMArray, FiniteSets

CONSTANTS
    Programs,           \* functions from 0..n to functions
    Arrays,             \* the initial elements of array 1, 2, ...
    Delegates,          \* [object, function], object 0: of a function
    StackAllocSize,     \* STACK_ALLOC_SIZE
    CallInfoSize        \* CALL_INFO_ALIGN_SIZE
ASSUME ProgramsAssumption ==
    \A p \in Programs :
        /\ DOMAIN p \subseteq Nat
        /\ \A f \in DOMAIN p :
              /\ p[f] \in [kind : {"diksam", "native"}, method : BOOLEAN, parameters : Seq(STRING),
                          locals : Seq(STRING), type : STRING, proc : STRING,
                          return_pointer : BOOLEAN, code : Seq([op : STRING, n : Int])]
              /\ p[f].kind = "native" => p[f].locals = <<>> /\ p[f].code = <<>>
        /\ 0 \in DOMAIN p /\ p[0].kind = "diksam" /\ ~p[0].method
        /\ p[0].parameters = <<>> /\ p[0].locals = <<>>
ASSUME ArraysAssumption    == Arrays \in Seq(Seq(Int))
ASSUME DelegatesAssumption == Delegates \in Seq([object : Nat, function : Nat])
ASSUME StackAllocSizeAssumption == StackAllocSize \in Nat \ {0} /\ CallInfoSize \in Nat \ {0}

VARIABLES program,      \* the functions
    stack, pointer_flags, sp,            \* dvm->stack; Len(stack) is alloc_size
    moved,              \* how often the block of the stack was reallocated
    func, pc, base,     \* locals of dvm_execute_i
    native,             \* the native functions that run, and the activations of
                        \* dvm_execute_i below each
    array,              \* the arrays
    meant, elements,    \* the frames and the arrays as the program means them
    outcome
machine == <<stack, pointer_flags, sp, moved, func, pc, base, native, array>>
vars    == <<program, machine, meant, elements, outcome>>

Top          == 0       \* the function NULL
CallFromNative == -1    \* CALL_FROM_NATIVE
Uninitialised == <<"garbage", 0>>
IntValue(n)  == <<"int", n>>
Zero(type) == <<type, 0>>       \* dvm_initialize_value

IsPointer(type) == type \in {"array", "object", "delegate"}

-----------------------------------------------------------------------------
(* Functions.                                                              *)
Fun(f) == program[f]
WithThis(f) == Len(Fun(f).parameters) + (IF Fun(f).method THEN 1 ELSE 0)

Pushes == {"int", "array", "load", "function", "delegate"}
calc_need_stack_size(f) == Cardinality({i \in DOMAIN Fun(f).code : Fun(f).code[i].op \in Pushes})

(* Faulty variant: this is counted among the local variables.              *)
ConvertedForFunctions(f, index) ==
    IF index >= Len(Fun(f).parameters) THEN index + CallInfoSize ELSE index

(* convert_code: parameters and this lie below the call information, the   *)
(* local variables above.                                                  *)
Converted(f, index) == IF index >= WithThis(f) THEN index + CallInfoSize ELSE index

-----------------------------------------------------------------------------
(* The block of the stack.  Indices count from 0.                          *)
Alloc == Len(stack)
At(s, i) == s[i + 1]
Written(s, i, value) == [s EXCEPT ![i + 1] = value]
WriteAll(s, from, values) ==
    [i \in DOMAIN s |-> IF i - 1 \in from .. from + Len(values) - 1 THEN values[i - from] ELSE s[i]]

(* Faulty variant: only the code of the function is counted.               *)
ExpandForCode(rest, need, locals) ==
    IF rest <= need - locals - CallInfoSize THEN ((rest \div StackAllocSize) + 1) * StackAllocSize ELSE 0

(* dvm_expand_stack: by the rest, rounded up.                              *)
Expansion(rest, need, locals) ==
    IF rest <= need THEN ((rest \div StackAllocSize) + 1) * StackAllocSize ELSE 0

Grown(s, by, fill) == s \o [i \in 1..by |-> fill]

CallInfo(caller, address, frame) ==
    <<<<"call", caller, address, frame>>>> \o [i \in 1 .. CallInfoSize - 1 |-> Uninitialised]
Caller(info)        == info[2]
CallerAddress(info) == info[3]
CallerBase(info)    == info[4]
NoPointers(n) == [i \in 1..n |-> FALSE]
Initial(f) == [i \in DOMAIN Fun(f).locals |-> Zero(Fun(f).locals[i])]

(* Faulty variant: the flags of the slots stay as the last frame there     *)
(* left them, unless the variable is a pointer.                            *)
FlagsOnlySet(f, old) == [i \in DOMAIN Fun(f).locals |-> old[i] \/ IsPointer(Fun(f).locals[i])]

(* initialize_local_variables: the flags.                                  *)
LocalFlags(f, old) == [i \in DOMAIN Fun(f).locals |-> IsPointer(Fun(f).locals[i])]

-----------------------------------------------------------------------------
(* Meaning: a frame is [function, first, variables, operands, pc], where   *)
(* first is the slot after the frame below.                                *)
Frame(f, first, variables, operands, next) ==
    [function |-> f, first |-> first, variables |-> variables, operands |-> operands, pc |-> next]
Began(f, first, variables) == Frame(f, first, variables, <<>>, 1)
InfoSize(frame) == IF frame.function = Top THEN 0 ELSE CallInfoSize
End(frame) == frame.first + InfoSize(frame) + Len(frame.variables) + Len(frame.operands)
TopFrame == meant[Len(meant)]
Lower(frames, n) == SubSeq(frames, 1, Len(frames) - n)
MeantNext(variables, operands) ==
    Append(Lower(meant, 1),
           Frame(TopFrame.function, TopFrame.first, variables, operands, TopFrame.pc + 1))
MeantTop(operands) == MeantNext(TopFrame.variables, operands)
Taken(operands, n) == SubSeq(operands, 1, Len(operands) - n)
LastOf(operands, n) == SubSeq(operands, Len(operands) - n + 1, Len(operands))

Init ==
    /\ program \in Programs
    /\ moved = 0
    /\ stack = Grown(<<>>, StackAllocSize + Expansion(StackAllocSize, calc_need_stack_size(Top), 0),
                     Uninitialised)
    /\ pointer_flags = [i \in DOMAIN stack |-> FALSE]
    /\ sp = 0 /\ func = Top /\ pc = 1 /\ base = 0
    /\ native = <<>>
    /\ array = [i \in DOMAIN Arrays |-> NewArray(Arrays[i])]
    /\ meant = <<Began(Top, 0, <<>>)>>
    /\ elements = Arrays
    /\ outcome = "running"

Running == outcome = "running" /\ pc <= Len(Fun(func).code)
Code == Fun(func).code[pc]

(* A program ends here; outcome is the model's own record of why: done, an *)
(* exception, a write past a block, or a case that is left to the C code.  *)
Stops(why) ==
    /\ outcome' = why
    /\ UNCHANGED <<program, machine, meant, elements>>

-----------------------------------------------------------------------------
(* The instructions that push and pop.                                     *)
Pushed ==
    CASE Code.op = "int" -> IntValue(Code.n)
      [] Code.op = "array" -> <<"array", Code.n>>
      [] Code.op = "function" -> IntValue(Code.n)
      [] Code.op = "delegate" -> <<"delegate", Code.n>>
      [] Code.op = "load" -> At(stack, base + Converted(func, Code.n))
MeantPush ==
    CASE Code.op = "load" -> TopFrame.variables[Code.n + 1]
      [] Code.op # "load" -> Pushed

(* STI_WRITE and STO_WRITE: which opcode it is depends on the type.        *)
Push ==
    /\ Running /\ Code.op \in Pushes
    /\ IF sp >= Alloc THEN Stops("overrun")
       ELSE /\ stack' = Written(stack, sp, Pushed)
            /\ pointer_flags' = Written(pointer_flags, sp, IsPointer(MeantPush[1]))
            /\ sp' = sp + 1 /\ pc' = pc + 1
            /\ meant' = MeantTop(Append(TopFrame.operands, MeantPush))
            /\ UNCHANGED <<program, moved, func, base, native, array, elements, outcome>>

Store ==
    LET slot == base + Converted(func, Code.n)
    IN  /\ Running /\ Code.op = "store"
        /\ stack' = Written(stack, slot, At(stack, sp - 1))
        /\ pointer_flags' = Written(pointer_flags, slot, IsPointer(Last(TopFrame.operands)[1]))
        /\ sp' = sp - 1 /\ pc' = pc + 1
        /\ meant' = MeantNext([TopFrame.variables EXCEPT ![Code.n + 1] = Last(TopFrame.operands)],
                              Front(TopFrame.operands))
        /\ UNCHANGED <<program, moved, func, base, native, array, elements, outcome>>

Pop ==
    /\ Running /\ Code.op = "pop"
    /\ sp' = sp - 1 /\ pc' = pc + 1
    /\ meant' = MeantTop(Front(TopFrame.operands))
    /\ UNCHANGED <<program, stack, pointer_flags, moved, func, base, native, array, elements, outcome>>

-----------------------------------------------------------------------------
(* INVOKE and INVOKE_DELEGATE find the function; the object of a delegate  *)
(* replaces it, and a slot is left for the index of the function.          *)
DelegateOf(value) == Delegates[value[2]]
OfMethod(value)   == value[1] = "delegate" /\ DelegateOf(value).object # 0
Callee(value)     == IF value[1] = "delegate" THEN DelegateOf(value).function ELSE value[2]
This(value) == IF OfMethod(value) THEN <<<<"object", DelegateOf(value).object>>>> ELSE <<>>

Called       == Callee(At(stack, sp - 1))
CalledStack  == IF OfMethod(At(stack, sp - 1)) THEN Written(stack, sp - 1, This(At(stack, sp - 1))[1])
                ELSE stack
CalledSp     == IF OfMethod(At(stack, sp - 1)) THEN sp + 1 ELSE sp
Invoking     == Running /\ Code.op = "invoke"

MeantCallee    == Callee(Last(TopFrame.operands))
MeantThis      == This(Last(TopFrame.operands))
MeantArity     == Len(Fun(MeantCallee).parameters)
MeantArguments == LastOf(Front(TopFrame.operands), MeantArity)
(* An array is this of its methods, pushed as the last argument.           *)
MeantRest      == Taken(TopFrame.operands, MeantArity + 1)
MeantVariables == MeantArguments \o MeantThis \o Initial(MeantCallee)
Below          == MeantTop(MeantRest)

FrameBase(f, top) == top - WithThis(f) - 1

(* invoke_diksam_function: the call information begins in the slot of the  *)
(* function's index.                                                       *)
InvokeDiksam ==
    /\ Invoking /\ Fun(Called).kind = "diksam"
    /\ LET locals == Len(Fun(Called).locals)
           by    == Expansion(Alloc - CalledSp,
                             CallInfoSize + locals + calc_need_stack_size(Called), locals)
           grown == Grown(CalledStack, by, Uninitialised)
           flags == Grown(pointer_flags, by, FALSE)
           first == CalledSp + CallInfoSize - 1
       IN  IF first + locals > Len(grown) THEN Stops("overrun")
           ELSE /\ stack' = WriteAll(WriteAll(grown, CalledSp - 1, CallInfo(func, pc, base)),
                                     first, Initial(Called))
                /\ pointer_flags' =
                     WriteAll(WriteAll(flags, CalledSp - 1, NoPointers(CallInfoSize)),
                              first, LocalFlags(Called, SubSeq(flags, first + 1, first + locals)))
                /\ sp' = first + locals
                /\ moved' = moved + (IF by > 0 THEN 1 ELSE 0)
                /\ func' = Called /\ pc' = 1 /\ base' = FrameBase(Called, CalledSp)
                /\ meant' = Append(Below, Began(MeantCallee, End(Last(Below)), MeantVariables))
                /\ UNCHANGED <<program, native, array, elements, outcome>>

(* do_return and return_function; NativeReturns if the caller is native.   *)
ReturnInfo  == At(stack, base + WithThis(func))
ReturnValue == At(stack, sp - 1)
MeantCaller(n, result) ==
    LET frames == Lower(meant, n)
    IN  Append(Lower(frames, 1), [Last(frames) EXCEPT !.operands = Append(@, result)])

Return ==
    /\ Running /\ Code.op = "return" /\ CallerAddress(ReturnInfo) # CallFromNative
    /\ stack' = Written(stack, base, ReturnValue)
    /\ pointer_flags' = Written(pointer_flags, base, IsPointer(Fun(func).type))
    /\ sp' = base + 1
    /\ func' = Caller(ReturnInfo) /\ pc' = CallerAddress(ReturnInfo) + 1
    /\ base' = CallerBase(ReturnInfo)
    /\ meant' = MeantCaller(1, Last(TopFrame.operands))
    /\ UNCHANGED <<program, moved, native, array, elements, outcome>>

-----------------------------------------------------------------------------
(* Native functions: the arguments stay where they are, below the call     *)
(* information, for which the stack is not expanded.                       *)
NativeSp     == sp - 1 + CallInfoSize
Argument(n)  == At(stack, sp - 1 - WithThis(Called) + n - 1)
NativeStack  == WriteAll(stack, sp - 1, CallInfo(func, pc, base))
NativeFlags  == WriteAll(pointer_flags, sp - 1, NoPointers(CallInfoSize))
MeantNativeThis == TopFrame.operands[Len(TopFrame.operands) - 1]
NativeRest   == Taken(TopFrame.operands, MeantArity + 1 + (IF Fun(MeantCallee).method THEN 1 ELSE 0))

ArrayProc(proc, at) ==
    CASE proc = "size"   -> nv_array_size_proc(at)
      [] proc = "resize" -> nv_array_resize_proc(at, Argument(1)[2])
      [] proc = "insert" -> nv_array_insert_proc(at, Argument(1)[2], Argument(2)[2])
      [] proc = "remove" -> nv_array_remove_proc(at, Argument(1)[2])
      [] proc = "add"    -> nv_array_add_proc(at, Argument(1)[2])
Result(proc, n) == IF proc = "size" THEN IntValue(n) ELSE Uninitialised

(* A method of an array; PUSH_METHOD looked at its object before.          *)
InvokeArrayMethod ==
    /\ Invoking /\ Fun(Called).kind = "native" /\ Fun(Called).method
    /\ LET proc == Fun(Called).proc
           this == Argument(WithThis(Called))[2]
           slot == sp - 1 - WithThis(Called)
           done == ArrayProc(proc, array[this])
           its  == MeantNativeThis[2]
           says == MeantCall(proc, elements[its],
                       [i \in 1..MeantArity |->
                           TopFrame.operands[Len(TopFrame.operands) - 2 - MeantArity + i][2]])
       IN  IF NativeSp > Alloc \/ done.overrun THEN Stops("overrun")
           ELSE IF done.raises THEN Stops(IF says.raises THEN "exception" ELSE "wrong exception")
           ELSE /\ stack' = Written(NativeStack, slot, Result(proc, done.result))
                /\ pointer_flags' = Written(NativeFlags, slot, Fun(Called).return_pointer)
                /\ sp' = slot + 1 /\ pc' = pc + 1
                /\ array' = [array EXCEPT ![this] = done.array]
                /\ elements' = [elements EXCEPT ![its] = says.elements]
                /\ meant' = MeantTop(Append(NativeRest, Result(proc, says.result)))
                /\ UNCHANGED <<program, moved, func, base, native, outcome>>

(* test_native calls its delegate with 13: invoke_diksam_function_from_    *)
(* native pushes the argument and the object and begins another            *)
(* dvm_execute_i.  It does not expand the stack; a program for which the   *)
(* rest is too small stops here.                                           *)
CallBack ==
    /\ Invoking /\ Fun(Called).kind = "native" /\ ~Fun(Called).method
    /\ LET delegate == Argument(1)
           f      == Callee(delegate)
           pushed == <<IntValue(13)>> \o This(delegate)
           first  == NativeSp + Len(pushed) + CallInfoSize
           locals == Len(Fun(f).locals)
           args   == WriteAll(NativeStack, NativeSp, pushed)
           argFlags == WriteAll(NativeFlags, NativeSp, [i \in DOMAIN pushed |-> IsPointer(pushed[i][1])])
       IN  IF first + locals + calc_need_stack_size(f) > Alloc THEN Stops("no room")
           ELSE /\ stack' = WriteAll(WriteAll(args, first - CallInfoSize,
                                              CallInfo(Called, CallFromNative, 0)),
                                     first, Initial(f))
                /\ pointer_flags' =
                     WriteAll(WriteAll(argFlags, first - CallInfoSize, NoPointers(CallInfoSize)),
                              first, LocalFlags(f, SubSeq(pointer_flags, first + 1, first + locals)))
                /\ sp' = first + locals
                /\ func' = f /\ pc' = 1 /\ base' = NativeSp
                /\ native' = Append(native, [function |-> Called, func |-> func, pc |-> pc,
                                             base |-> base, moved |-> moved])
                /\ LET its    == Callee(MeantArguments[1])
                       caller == Began(MeantCallee, End(Last(Below)), MeantArguments)
                   IN  meant' = Below \o <<caller, Began(its, End(caller),
                                    <<IntValue(13)>> \o This(MeantArguments[1]) \o Initial(its))>>
                /\ UNCHANGED <<program, moved, array, elements, outcome>>

(* The called back function returns, its value is dropped, and the native  *)
(* function writes its own through the address of the stack it had before: *)
(* a program that has moved the stack meanwhile stops here.                *)
ReturnToNative ==
    /\ Running /\ Code.op = "return" /\ CallerAddress(ReturnInfo) = CallFromNative
    /\ LET n    == Last(native)
           slot == base - CallInfoSize - WithThis(n.function)
       IN  IF moved # n.moved THEN Stops("moved")
           ELSE /\ stack' = Written(Written(stack, base, ReturnValue), slot, Uninitialised)
                /\ pointer_flags' = Written(Written(pointer_flags, base, IsPointer(Fun(func).type)),
                                            slot, Fun(n.function).return_pointer)
                /\ sp' = slot + 1
                /\ func' = n.func /\ pc' = n.pc + 1 /\ base' = n.base
                /\ native' = Front(native)
                /\ meant' = MeantCaller(2, Uninitialised)
                /\ UNCHANGED <<program, moved, array, elements, outcome>>

Finish ==
    /\ outcome = "running" /\ pc > Len(Fun(func).code)
    /\ outcome' = "done"
    /\ UNCHANGED <<program, machine, meant, elements>>

Next ==
    \/ Push \/ Store \/ Pop
    \/ InvokeDiksam \/ Return
    \/ InvokeArrayMethod \/ CallBack \/ ReturnToNative
    \/ Finish

Spec == Init /\ [][Next]_vars

-----------------------------------------------------------------------------
(* Where a frame has its contents: this and the parameters below the call  *)
(* information, which is at InfoAt, the rest above it.                     *)
Contents(frame)  == frame.variables \o frame.operands
InfoAt(frame)    == frame.first + WithThis(frame.function)
SlotOf(frame, i) ==
    frame.first + i - 1 + (IF i <= WithThis(frame.function) THEN 0 ELSE InfoSize(frame))

Held(frame) == \A i \in DOMAIN Contents(frame) : At(stack, SlotOf(frame, i)) = Contents(frame)[i]

IsNative(frame) == Fun(frame.function).kind = "native"
NativesTo(k)    == {j \in 1..k : IsNative(meant[j])}

(* What is kept of the frame below the k-th: in the call information, or   *)
(* by the native function whose frame the k-th is.                         *)
Links(k) ==
    LET info  == At(stack, InfoAt(meant[k]))
        below == meant[k - 1]
    IN  /\ IsNative(below) <=> CallerAddress(info) = CallFromNative
        /\ ~IsNative(below) => /\ Caller(info) = below.function
                               /\ CallerAddress(info) + 1 = below.pc
                               /\ CallerBase(info) = below.first
        /\ IsNative(meant[k]) =>
              LET n == native[Cardinality(NativesTo(k))]
              IN  /\ n.function = meant[k].function /\ n.func = below.function
                  /\ n.pc + 1 = below.pc /\ n.base = below.first

(* Every frame, of the running function and of all that wait for it, has   *)
(* the parameters, this, local variables and operands that the program     *)
(* means, and goes on where it called; through delegates, natives that     *)
(* call back, and a stack that grows.                                      *)
FramesIntact ==
    outcome \in {"running", "done"} =>
        /\ func = TopFrame.function /\ pc = TopFrame.pc
        /\ base = TopFrame.first /\ sp = End(TopFrame)
        /\ Len(native) = Cardinality(NativesTo(Len(meant)))
        /\ \A k \in DOMAIN meant : Held(meant[k]) /\ (k > 1 => Links(k))

(* The stack and the arrays are never written past the end of their block: *)
(* the expansion at a call is enough for all the callee does.              *)
NeverOverrun == outcome # "overrun" /\ sp \in 0..Alloc

(* The flag of a slot tells whether it holds a reference, which is what    *)
(* the collector marks.                                                    *)
FlagsRight ==
    \A i \in 0 .. sp - 1 :
        At(pointer_flags, i) = IsPointer(At(stack, i)[1])

(* An array holds the elements that its methods mean, whatever the size of *)
(* the block, and a method raises for the indices it should.               *)
ArraysAgree ==
    /\ outcome # "wrong exception"
    /\ \A a \in DOMAIN array : Elements(array[a]) = elements[a]

(* The block of an array that began exact is at most ARRAY_ALLOC_SIZE      *)
(* larger than the array, and the heap is charged for all of it.           *)
BlockFits ==
    \A a \in DOMAIN array :
        /\ Allocated(array[a]) - array[a].size \in 0..ArrayAllocSize
        /\ array[a].charged = Allocated(array[a])
=============================================================================
