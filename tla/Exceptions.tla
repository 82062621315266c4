----------------------------- MODULE Exceptions -----------------------------
(***************************************************************************)
(* The virtual machine running code with try, catch and finally            *)
(* (execute.c): one action per opcode, and do_throw in steps, each of      *)
(* which looks for a handler in the function at hand or leaves it.         *)
(*                                                                         *)
(* Abstractions: a call frame is a CallInfo in one slot (functions have no *)
(* parameters, see CallStack for those); an exception is its class; the    *)
(* variables of the top level, which are static, are the variables of no   *)
(* frame; the native functions only raise or return.                       *)
(***************************************************************************)
EXTENDS TryMeaning

CONSTANTS
    Programs,   \* the programs that are run
    Fuel        \* how often a condition may come out true

ASSUME FuelAssumption == Fuel \in Nat

VARIABLES
    program,    \* the source
    exe,        \* its code
    func,       \* the function that runs, "top" for the top level
    pc, base,
    stack,      \* dvm->stack.stack up to the stack pointer
    static,     \* the variables of the top level
    exception,  \* dvm->current_exception
    mode,       \* run, throw (in do_throw), or halted
    fuel, trace \* what the conditions and the marks depend on and leave

vars == <<program, exe, func, pc, base, stack, static, exception, mode, fuel,
          trace>>

Value          == [is |-> "value"]
Boolean(b)     == [is |-> "boolean", true |-> b]
Address(a)     == [is |-> "address", pc |-> a]
Function(f)    == [is |-> "function", func |-> f]
Exception(c)   == [is |-> "exception", class |-> c]
CallInfo(f, a, b) == [is |-> "call", caller |-> f, address |-> a, base |-> b]

Block == exe[func]
At(op) == mode = "run" /\ pc <= Len(Block.code) /\ Block.code[pc].op = op
Arg == Block.code[pc].arg
Top == Last(stack)
Popped == Front(stack)

(* The slots below the operands of the function: its CallInfo and its      *)
(* local variables.                                                        *)
Floor == IF func = "top" THEN 0 ELSE base + 1 + Block.nvar

Init ==
    /\ program \in Programs
    /\ exe = Generate(program)
    /\ func = "top" /\ pc = 1 /\ base = 0
    /\ stack = <<>>
    /\ static = [v \in 1..exe["top"].nvar |-> Value]
    /\ exception = None
    /\ mode = "run" /\ fuel = Fuel /\ trace = <<>>

-----------------------------------------------------------------------------
(* Instructions that stay in the function. *)

Operate(newStack, newPc) ==
    /\ stack' = newStack /\ pc' = newPc
    /\ UNCHANGED <<program, exe, func, base, exception, mode>>

MarkIt ==
    /\ At("mark")
    /\ trace' = Append(trace, Arg)
    /\ Operate(stack, pc + 1) /\ UNCHANGED <<static, fuel>>

Condition ==
    /\ At("condition")
    /\ fuel' = IF fuel = 0 THEN 0 ELSE fuel - 1
    /\ Operate(Append(stack, Boolean(fuel > 0)), pc + 1)
    /\ UNCHANGED <<static, trace>>

Push ==
    /\ \/ At("push") /\ Operate(Append(stack, Value), pc + 1)
       \/ At("push_function") /\ Operate(Append(stack, Function(Arg)), pc + 1)
       \/ At("new") /\ Operate(Append(stack, Exception(Arg)), pc + 1)
    /\ UNCHANGED <<static, fuel, trace>>

PopOne ==
    /\ At("pop") /\ Operate(Popped, pc + 1)
    /\ UNCHANGED <<static, fuel, trace>>

PushVariable ==
    /\ At("push_variable")
    /\ Operate(Append(stack, IF func = "top" THEN static[Arg]
                             ELSE stack[base + 1 + Arg]), pc + 1)
    /\ UNCHANGED <<static, fuel, trace>>

PopVariable ==
    /\ At("pop_variable")
    /\ IF func = "top"
       THEN Operate(Popped, pc + 1) /\ static' = [static EXCEPT ![Arg] = Top]
       ELSE /\ Operate([Popped EXCEPT ![base + 1 + Arg] = Top], pc + 1)
            /\ UNCHANGED static
    /\ UNCHANGED <<fuel, trace>>

Jump ==
    /\ \/ At("jump") /\ Operate(stack, Arg)
       \/ At("jump_if_true")
          /\ Operate(Popped, IF Top.true THEN Arg ELSE pc + 1)
       \/ At("jump_if_false")
          /\ Operate(Popped, IF Top.true THEN pc + 1 ELSE Arg)
    /\ UNCHANGED <<static, fuel, trace>>

GoFinally ==
    /\ At("go_finally") /\ Operate(Append(stack, Address(pc)), Arg)
    /\ UNCHANGED <<static, fuel, trace>>

-----------------------------------------------------------------------------
(* Calls. *)

InvokeDiksam ==
    LET callee == Top.func.name IN
    /\ At("invoke") /\ Top.func.kind = "diksam"
    /\ stack' = Append(Popped, CallInfo(func, pc, base))
                    \o [v \in 1..exe[callee].nvar |-> Value]
    /\ base' = Len(stack) - 1
    /\ func' = callee /\ pc' = 1
    /\ UNCHANGED <<program, exe, static, exception, mode, fuel, trace>>

(* The native function returns a value even if it raises; do_throw starts  *)
(* if it left an exception.                                                *)
InvokeNative ==
    LET raised == Top.func.name IN
    /\ At("invoke") /\ Top.func.kind = "native"
    /\ stack' = Append(Popped, Value)
    /\ exception' = raised
    /\ IF raised = None
       THEN pc' = pc + 1 /\ UNCHANGED mode
       ELSE mode' = "throw" /\ UNCHANGED pc
    /\ UNCHANGED <<program, exe, func, base, static, fuel, trace>>

(* do_return: back to the caller, behind the call. *)
Leave(result) ==
    LET info == stack[base + 1] IN
    /\ stack' = SubSeq(stack, 1, base) \o result
    /\ func' = info.caller /\ pc' = info.address + 1 /\ base' = info.base

ReturnFunction ==
    /\ At("return") /\ Leave(<<Top>>)
    /\ UNCHANGED <<program, exe, static, exception, mode, fuel, trace>>

-----------------------------------------------------------------------------
(* Exceptions. *)

ThrowIt ==
    /\ At("throw") \/ At("rethrow")
    /\ exception' = Top.class
    /\ mode' = "throw"
    /\ UNCHANGED <<program, exe, func, pc, base, stack, static, fuel, trace>>

(* At the end of a finally clause: on with the exception, or back to       *)
(* behind the GO_FINALLY.                                                  *)
(* Faulty variant: returns to the GO_FINALLY, not behind it. *)
FinallyEndToCaller ==
    /\ At("finally_end")
    /\ IF exception # None
       THEN mode' = "throw" /\ UNCHANGED <<pc, stack>>
       ELSE pc' = Top.pc /\ stack' = Popped /\ UNCHANGED mode
    /\ UNCHANGED <<program, exe, func, base, static, exception, fuel, trace>>

FinallyEnd ==
    /\ At("finally_end")
    /\ IF exception # None
       THEN mode' = "throw" /\ UNCHANGED <<pc, stack>>
       ELSE pc' = Top.pc + 1 /\ stack' = Popped /\ UNCHANGED mode
    /\ UNCHANGED <<program, exe, func, base, static, exception, fuel, trace>>

Within(a, range) == range.start <= a /\ a <= range.end

(* throw_in_try: the first try of the table whose try clause contains pc.  *)
(* (pc in a catch clause makes no difference.)                             *)
Handlers(block, a) == {t \in 1..Len(block.try) : Within(a, block.try[t])}

(* Faulty variant: a super class does not match. *)
MatchingSameClass(try, class) ==
    {c \in 1..Len(try.catches) : class = try.catches[c].class}
Matching(try, class) ==
    {c \in 1..Len(try.catches) : InstanceOf(class, try.catches[c].class)}

(* Faulty variant: the local variables are cut off. *)
ResetStackWithoutLocals == SubSeq(stack, 1, IF func = "top" THEN 0 ELSE base + 1)
ResetStack == SubSeq(stack, 1, Floor)

First(S) == CHOOSE i \in S : \A j \in S : i <= j

(* Faulty variant: current_exception is not cleared. *)
CatchKeepingException(clause) ==
    /\ pc' = clause.start
    /\ stack' = Append(ResetStack, Exception(exception))
    /\ UNCHANGED exception

CatchIt(clause) ==
    /\ pc' = clause.start
    /\ stack' = Append(ResetStack, Exception(exception))
    /\ exception' = None

ThrowInTry ==
    /\ mode = "throw" /\ Handlers(Block, pc) # {}
    /\ LET try == Block.try[First(Handlers(Block, pc))]
           clauses == Matching(try, exception)
       IN IF clauses # {}
          THEN CatchIt(try.catches[First(clauses)])
          ELSE /\ pc' = try.finally
               /\ stack' = ResetStack
               /\ UNCHANGED exception
    /\ mode' = "run"
    /\ UNCHANGED <<program, exe, func, base, static, fuel, trace>>

Unwind ==
    /\ mode = "throw" /\ Handlers(Block, pc) = {} /\ func # "top"
    /\ Leave(<<>>)
    /\ UNCHANGED <<program, exe, static, exception, mode, fuel, trace>>

(* The stack trace is printed and the process exits. *)
Exit ==
    /\ mode = "throw" /\ Handlers(Block, pc) = {} /\ func = "top"
    /\ mode' = "halted"
    /\ UNCHANGED <<program, exe, func, pc, base, stack, static, exception, fuel,
                   trace>>

(* dvm_execute_i's loop ends with the code. *)
EndOfCode ==
    /\ mode = "run" /\ pc > Len(Block.code)
    /\ mode' = "halted"
    /\ UNCHANGED <<program, exe, func, pc, base, stack, static, exception, fuel,
                   trace>>

-----------------------------------------------------------------------------
Next ==
    \/ MarkIt \/ Condition \/ Push \/ PopOne \/ PushVariable \/ PopVariable
    \/ Jump \/ GoFinally \/ FinallyEnd
    \/ InvokeDiksam \/ InvokeNative \/ ReturnFunction
    \/ ThrowIt \/ ThrowInTry \/ Unwind \/ Exit \/ EndOfCode

Spec == Init /\ [][Next]_vars

(* The machine does nothing else until the program ends. *)
FairSpec == Spec /\ WF_vars(Next)
-----------------------------------------------------------------------------
(* Properties. *)

Slots == {"value", "boolean", "address", "function", "exception", "call"}

(* Every variable has its type; in particular no jump and no return leaves *)
(* the code of the function that runs.                                     *)
TypeOK ==
    /\ program \in Programs
    /\ func \in Functions /\ pc \in 1..Len(Block.code) + 1
    /\ base \in 0..Len(stack)
    /\ \A i \in 1..Len(stack) : stack[i].is \in Slots
    /\ \A v \in 1..Len(static) : static[v].is \in {"value", "exception"}
    /\ exception \in Class \cup {None}
    /\ mode \in {"run", "throw", "halted"}
    /\ fuel \in 0..Fuel /\ trace \in Seq(Nat)

(* The code and the machine do what the source means: when the program     *)
(* ends, the marks it left, the conditions it evaluated and the exception  *)
(* that ended it are those of the reference.                               *)
Agrees ==
    mode = "halted" =>
        [trace |-> trace, fuel |-> fuel, uncaught |-> exception]
            = Meaning(program, Fuel)

InFinally(f, a) ==
    \E t \in 1..Len(exe[f].try) :
        a \in exe[f].try[t].finally..exe[f].try[t].finallyEnd

(* An exception is pending (current_exception is set while code runs) only *)
(* during a finally clause, of this function or of one that waits for it.  *)
PendingOnlyInFinally ==
    mode = "run" /\ exception # None =>
        \/ InFinally(func, pc)
        \/ \E i \in 1..Len(stack) :
              stack[i].is = "call" /\ InFinally(stack[i].caller, stack[i].address)

(* Without a pending exception FINALLY_END finds on the stack the address  *)
(* of a GO_FINALLY of this function that came to this finally clause.      *)
ReturnAddress ==
    At("finally_end") /\ exception = None =>
        /\ Len(stack) > Floor /\ Top.is = "address"
        /\ Block.code[Top.pc].op = "go_finally"
        /\ \E t \in 1..Len(Block.try) :
              /\ pc = Block.try[t].finallyEnd
              /\ Block.code[Top.pc].arg = Block.try[t].finally

(* The stack pointer never falls into the local variables, and the call    *)
(* information the function returns by is under them, however it was left. *)
FrameIntact ==
    /\ Len(stack) >= Floor
    /\ func # "top" => stack[base + 1].is = "call"
    /\ mode = "run" /\ pc > Len(Block.code) => func = "top" /\ stack = <<>>

(* dvm_expand_stack makes room for need_stack_size operands per call:      *)
(* there are never more, in whatever order the code runs.                  *)
StackFits == Len(stack) <= Floor + Block.need

(* The assertion of dvm_execute_i (default: of its switch): pc is always   *)
(* at an opcode of the code block, or at its end.                          *)
OpcodeValid == mode = "run" => pc \in 1..Len(Block.code) + 1

(* Every program ends: no finally clause returns to itself, no exception   *)
(* is thrown for ever.                                                     *)
Terminates == <>(mode = "halted")

(* "This function returns DVM_TRUE, if exception happen in try or catch    *)
(* clause" (throw_in_try): such an exception goes on in the same function. *)
InTryOrCatch ==
    \E t \in 1..Len(Block.try) :
        \/ Within(pc, Block.try[t])
        \/ \E c \in 1..Len(Block.try[t].catches) :
              Within(pc, Block.try[t].catches[c])
HandlesTryAndCatch ==
    [][mode = "throw" /\ InTryOrCatch => mode' = "run" /\ func' = func]_vars
=============================================================================
