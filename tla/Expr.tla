-------------------------------- MODULE Expr --------------------------------
(***************************************************************************)
(* The virtual machine running the code of one expression (dvm_execute_i), *)
(* as a statement of its own or for its value, against what the expression *)
(* means (ExprMeaning).                                                    *)
(*                                                                         *)
(* A stack slot is a union: m tells the member last written ("i", "d" or   *)
(* "o"), v its value, p the pointer flag the collector goes by.  Reading   *)
(* another member, using an object of another kind, or executing at an     *)
(* address where no instruction starts has no defined result: no action is *)
(* enabled then (NeverUndefined).  An exception ends the run: what    *)
(* follows a throw is modelled in Exceptions.  A called function records   *)
(* its arguments and returns a fixed value.                                *)
(***************************************************************************)
EXTENDS ExprMeaning

CONSTANTS Programs,     \* the source expressions, each with its mode
          InitialStore, \* variable -> raw value
          InitialHeap   \* the objects the variables refer to

VARIABLES src, unit, pc, stack, heap, store, calls, outcome, high
vars == <<src, unit, pc, stack, heap, store, calls, outcome, high>>

Slot(member, v) == [m |-> member, v |-> v, p |-> member = "o"]
Variable(name)  == Slot(Member(Declarations[name].type), InitialStore[name])

Fixed(program) == fix_expression(program.e)
Compiled(program) ==
    CodeBlock(IF program.mode = "statement" THEN generate_expression_statement(Fixed(program))
              ELSE generate_expression(EmptyBuf, Fixed(program)))

(* Every program the compiler accepts. *)
Init ==
    /\ src \in {p \in Programs : Fixed(p) # Error}
    /\ unit = Compiled(src)
    /\ pc = 0
    /\ stack = <<>>
    /\ heap = InitialHeap
    /\ store = [name \in DOMAIN Declarations |-> Variable(name)]
    /\ calls = <<>>
    /\ outcome = "running"
    /\ high = 0

-----------------------------------------------------------------------------
sp == Len(stack)
At(k)  == stack[sp + 1 + k]                  \* STI, STD, STO: At(-1) is the top
Val(k) == At(k).v
Below(n) == SubSeq(stack, 1, sp - n)         \* the stack without n slots
Op == Mnemonic(unit.code[pc + 1])
Operand == Two(unit.code, pc + 1)
Byte    == unit.code[pc + 2]

(* What an instruction reads from the top of the stack: i, d, o: a member; *)
(* s: a string or null; t: a string; a: an array or null; c: a class       *)
(* object or null.                                                         *)
Kind(raw) == IF raw = 0 THEN "null" ELSE heap[raw].k
Fits(need, slot) ==
    CASE need \in {"i", "d", "o"} -> slot.m = need
      [] need = "s" -> slot.m = "o" /\ Kind(slot.v) \in {"string", "null"}
      [] need = "t" -> slot.m = "o" /\ Kind(slot.v) = "string"
      [] need \in {"ai", "ad", "ao"} ->
           /\ slot.m = "o"
           /\ Kind(slot.v) \in {"array", "null"}
           /\ slot.v # 0 => heap[slot.v].m = SubSeq(need, 2, 2)
      [] need = "c" -> slot.m = "o" /\ Kind(slot.v) \in {"class", "null"}

IntOps    == {x \o "_int" : x \in Math \cup Compares} \cup BitOps \cup Logics
DoubleOps == {x \o "_double" : x \in Math \cup Compares}
Callee == CHOOSE f \in DOMAIN Functions : Functions[f].index = Val(-1)
Needs ==
    CASE Op \in IntOps    -> <<"i", "i">>
      [] Op \in DoubleOps -> <<"d", "d">>
      [] Op = "add_string" -> <<"s", "s">>
      [] Op \in {x \o "_string" : x \in Compares} -> <<"t", "t">>
      [] Op \in {"eq_object", "ne_object"} -> <<"o", "o">>
      [] Op \in {"minus_int", "bit_not", "logical_not", "increment", "decrement",
                 "cast_int_to_double", "cast_int_to_string", "cast_boolean_to_string",
                 "cast_enum_to_string", "jump_if_true", "jump_if_false",
                 "pop_stack_int", "pop_static_int"} -> <<"i">>
      [] Op \in {"minus_double", "cast_double_to_int", "cast_double_to_string",
                 "pop_stack_double", "pop_static_double"} -> <<"d">>
      [] Op \in {"pop_stack_object", "pop_static_object"} -> <<"o">>
      [] Op = "push_array_int"    -> <<"ai", "i">>
      [] Op = "push_array_double" -> <<"ad", "i">>
      [] Op = "push_array_object" -> <<"ao", "i">>
      [] Op = "pop_array_int"     -> <<"i", "ai", "i">>
      [] Op = "pop_array_double"  -> <<"d", "ad", "i">>
      [] Op = "pop_array_object"  -> <<"o", "ao", "i">>
      [] Op = "push_character_in_string" -> <<"s", "i">>
      [] Op \in {"push_field_int", "push_field_double", "push_field_object"} -> <<"c">>
      [] Op = "pop_field_int"    -> <<"i", "c">>
      [] Op = "pop_field_double" -> <<"d", "c">>
      [] Op = "pop_field_object" -> <<"o", "c">>
      [] Op = "new_array" -> [i \in 1..Byte |-> "i"]
      [] Op = "new_array_literal_int"    -> [i \in 1..Operand |-> "i"]
      [] Op = "new_array_literal_double" -> [i \in 1..Operand |-> "d"]
      [] Op = "new_array_literal_object" -> [i \in 1..Operand |-> "o"]
      [] OTHER -> <<>>
Readable(need) == /\ Len(need) <= sp
                  /\ \A i \in 1..Len(need) : Fits(need[i], stack[sp - Len(need) + i])

Ended == pc >= Len(unit.code)
Defined ==
    /\ pc \in ToSet(Addresses(unit.code, 0))
    /\ unit.code[pc + 1] \in 1..OpcodeCount
    /\ Readable(Needs)
    /\ Op = "invoke" => /\ sp > 0 /\ At(-1).m = "i"
                        /\ \E f \in DOMAIN Functions : Functions[f].index = Val(-1)
                        /\ sp > Len(Functions[Callee].params)
    /\ Op \in {"mod_int"} => Val(-1) # 0

Running == outcome = "running" /\ ~Ended /\ Defined
Is(ops) == Running /\ Op \in ops

Next1(n, s) == /\ pc' = pc + n
               /\ stack' = s
               /\ high' = IF Len(s) > high THEN Len(s) ELSE high
Keep == UNCHANGED <<src, unit, outcome>>
Pure == Keep /\ UNCHANGED <<heap, store, calls>>
Throw(x) == /\ outcome' = x
            /\ UNCHANGED <<src, unit, pc, stack, heap, store, calls, high>>
New(object) == heap' = Append(heap, object)
Fresh == Slot("o", Len(heap) + 1)
IntSlot(v) == Slot("i", v)
(* A result assigned without writing the pointer flag. *)
Unflagged(member, v, k) == [m |-> member, v |-> v, p |-> At(k).p]

-----------------------------------------------------------------------------
(* Pushing literals, null and function indices. *)
PushInt ==
    /\ Is({"push_int_1byte", "push_int_2byte", "push_int"})
    /\ CASE Op = "push_int_1byte" -> Next1(2, Append(stack, IntSlot(Byte)))
         [] Op = "push_int_2byte" -> Next1(3, Append(stack, IntSlot(Operand)))
         [] OTHER                 -> Next1(3, Append(stack, IntSlot(unit.pool[Operand + 1])))
    /\ Pure

PushDouble ==
    /\ Is({"push_double_0", "push_double_1", "push_double"})
    /\ CASE Op = "push_double_0" -> Next1(1, Append(stack, Slot("d", Double(0))))
         [] Op = "push_double_1" -> Next1(1, Append(stack, Slot("d", Double(1))))
         [] OTHER -> Next1(3, Append(stack, Slot("d", unit.pool[Operand + 1])))
    /\ Pure

PushString ==
    /\ Is({"push_string"})
    /\ Next1(3, Append(stack, Fresh))
    /\ New(StringObject(unit.pool[Operand + 1]))
    /\ Keep /\ UNCHANGED <<store, calls>>

PushNull == Is({"push_null"}) /\ Next1(1, Append(stack, Slot("o", 0))) /\ Pure
PushFunction == Is({"push_function"}) /\ Next1(3, Append(stack, IntSlot(Operand))) /\ Pure

(* Variables: locals in the frame, statics and constants of the executable. *)
Suffix(op, places) == {op \o place \o "_" \o t : place \in places, t \in {"int", "double", "object"}}
OfType(op, suffix) == SubSeq(op, Len(op) - Len(suffix) + 1, Len(op)) = suffix
MemberOf(op) == IF OfType(op, "_int") THEN "i" ELSE IF OfType(op, "_double") THEN "d" ELSE "o"
PlaceOf(op)  == CHOOSE place \in {"stack", "static", "constant"} :
                  op \in Suffix("push_", {place}) \cup Suffix("pop_", {place})
VariableAt(index) == CHOOSE name \in DOMAIN Declarations :
                       /\ Declarations[name].place = PlaceOf(Op)
                       /\ Declarations[name].index = index

PushVariable ==
    /\ Is(Suffix("push_", {"stack", "static", "constant"}))
    /\ Next1(3, Append(stack, Slot(MemberOf(Op), store[VariableAt(Operand)].v)))
    /\ Pure

PopVariable ==
    /\ Is(Suffix("pop_", {"stack", "static"}))
    /\ Next1(3, Below(1))
    /\ store' = [store EXCEPT ![VariableAt(Operand)] = Slot(MemberOf(Op), Val(-1))]
    /\ Keep /\ UNCHANGED <<heap, calls>>

(* Arrays, strings and fields; check_array and check_string. *)
InBounds(sequence, index) == index \in 0..(Len(sequence) - 1)
PushArray ==
    /\ Is({"push_array_int", "push_array_double", "push_array_object"})
    /\ CASE Val(-2) = 0 -> Throw("NullPointer")
         [] Val(-2) # 0 /\ ~InBounds(heap[Val(-2)].a, Val(-1)) -> Throw("ArrayIndexOutOfBounds")
         [] OTHER -> /\ Next1(1, Append(Below(2), Slot(MemberOf(Op), heap[Val(-2)].a[Val(-1) + 1])))
                     /\ Pure

PopArray ==
    /\ Is({"pop_array_int", "pop_array_double", "pop_array_object"})
    /\ CASE Val(-2) = 0 -> Throw("NullPointer")
         [] Val(-2) # 0 /\ ~InBounds(heap[Val(-2)].a, Val(-1)) -> Throw("ArrayIndexOutOfBounds")
         [] OTHER -> /\ Next1(1, Below(3))
                     /\ heap' = [heap EXCEPT ![Val(-2)].a[Val(-1) + 1] = Val(-3)]
                     /\ Keep /\ UNCHANGED <<store, calls>>

PushCharacterInString ==
    /\ Is({"push_character_in_string"})
    /\ CASE Val(-2) = 0 -> Throw("NullPointer")
         [] Val(-2) # 0 /\ ~InBounds(heap[Val(-2)].s, Val(-1)) -> Throw("StringIndexOutOfBounds")
         [] OTHER -> Next1(1, Append(Below(2), IntSlot(heap[Val(-2)].s[Val(-1) + 1][2]))) /\ Pure

PushField ==
    /\ Is({"push_field_int", "push_field_double", "push_field_object"})
    /\ IF Val(-1) = 0 THEN Throw("NullPointer")
       ELSE Next1(3, Append(Below(1), Slot(MemberOf(Op), heap[Val(-1)].f[Operand + 1]))) /\ Pure

PopField ==
    /\ Is({"pop_field_int", "pop_field_double", "pop_field_object"})
    /\ IF Val(-1) = 0 THEN Throw("NullPointer")
       ELSE /\ Next1(3, Below(2))
            /\ heap' = [heap EXCEPT ![Val(-1)].f[Operand + 1] = Val(-2)]
            /\ Keep /\ UNCHANGED <<store, calls>>

-----------------------------------------------------------------------------
(* Arithmetic, comparison, conversion. *)
Root(op, suffix) == SubSeq(op, 1, Len(op) - Len(suffix))
IntArithmetic ==
    /\ Is({x \o "_int" : x \in Math})
    /\ IF Op = "div_int" /\ Val(-1) = 0 THEN Throw("DivisionByZero")
       ELSE /\ Next1(1, Append(Below(2), Unflagged("i",
                       IntMath(Root(Op, "_int"), Val(-2), Val(-1)), -2)))
            /\ Pure

DoubleArithmetic ==
    /\ Is({x \o "_double" : x \in Math})
    /\ Next1(1, Append(Below(2), Unflagged("d",
               DoubleMath(Root(Op, "_double"), Val(-2), Val(-1)), -2)))
    /\ Pure

TextOf(raw) == IF raw = 0 THEN NullString ELSE heap[raw].s
ChainString ==
    /\ Is({"add_string"})
    /\ New(StringObject(TextOf(Val(-2)) \o TextOf(Val(-1))))
    /\ Next1(1, Append(Below(2), Unflagged("o", Len(heap) + 1, -2)))
    /\ Keep /\ UNCHANGED <<store, calls>>

BitOperation ==
    /\ Is(BitOps)
    /\ Next1(1, Append(Below(2), Unflagged("i", Bits(Op, Val(-2), Val(-1)), -2)))
    /\ Pure

Unary ==
    /\ Is({"minus_int", "minus_double", "bit_not", "logical_not", "increment", "decrement"})
    /\ LET v == CASE Op = "minus_int"    -> Wrap(-Val(-1))
                  [] Op = "minus_double" -> -Val(-1)
                  [] Op = "bit_not"      -> Wrap(-Val(-1) - 1)
                  [] Op = "logical_not"  -> IF Val(-1) = 0 THEN 1 ELSE 0
                  [] Op = "increment"    -> Wrap(Val(-1) + 1)
                  [] Op = "decrement"    -> Wrap(Val(-1) - 1)
       IN Next1(1, Append(Below(1), Unflagged(At(-1).m, v, -1)))
    /\ Pure

CastNumber ==
    /\ Is({"cast_int_to_double", "cast_double_to_int"})
    /\ Next1(1, Append(Below(1),
               IF Op = "cast_int_to_double" THEN Unflagged("d", Double(Val(-1)), -1)
               ELSE Unflagged("i", Truncate(Val(-1)), -1)))
    /\ Pure

CastToString ==
    /\ Is({"cast_boolean_to_string", "cast_int_to_string", "cast_double_to_string",
           "cast_enum_to_string"})
    /\ New(StringObject(
         CASE Op = "cast_boolean_to_string" -> ToText("boolean", Val(-1))
           [] Op = "cast_int_to_string"     -> ToText("int", Val(-1))
           [] Op = "cast_double_to_string"  -> ToText("double", Val(-1))
           [] Op = "cast_enum_to_string"    -> ToText("enum", Val(-1))))
    /\ Next1(IF Op = "cast_enum_to_string" THEN 3 ELSE 1, Append(Below(1), Fresh))
    /\ Keep /\ UNCHANGED <<store, calls>>

Bit(condition) == IF condition THEN 1 ELSE 0
CompareNumbers ==
    /\ Is({x \o t : x \in Compares, t \in {"_int", "_double"}})
    /\ Next1(1, Append(Below(2), Unflagged("i",
               Bit(Compare(SubSeq(Op, 1, 2), Val(-2), Val(-1))), -2)))
    /\ Pure

CompareObjects ==
    /\ Is({"eq_object", "ne_object"})
    /\ Next1(1, Append(Below(2), IntSlot(Bit(Compare(SubSeq(Op, 1, 2), Val(-2), Val(-1))))))
    /\ Pure

(* Faulty variant: the result is written without the flag. *)
CompareStringsUnflagged ==
    /\ Is({x \o "_string" : x \in Compares})
    /\ LET order == wcscmp(heap[Val(-2)].s, heap[Val(-1)].s)
       IN Next1(1, Append(Below(2), Unflagged("i", Bit(Compare(SubSeq(Op, 1, 2), order, 0)), -2)))
    /\ Pure

CompareStrings ==
    /\ Is({x \o "_string" : x \in Compares})
    /\ LET order == wcscmp(heap[Val(-2)].s, heap[Val(-1)].s)
       IN Next1(1, Append(Below(2), IntSlot(Bit(Compare(SubSeq(Op, 1, 2), order, 0)))))
    /\ Pure

Logical ==
    /\ Is(Logics)
    /\ LET l == Val(-2) # 0
           r == Val(-1) # 0
       IN Next1(1, Append(Below(2), Unflagged("i",
            Bit(IF Op = "logical_and" THEN l /\ r ELSE l \/ r), -2)))
    /\ Pure

-----------------------------------------------------------------------------
(* The stack, jumps, calls, creation of arrays. *)
Pop == Is({"pop"}) /\ Next1(1, Below(1)) /\ Pure
Duplicate == Is({"duplicate"}) /\ Next1(1, Append(stack, At(-1))) /\ Pure

Jump ==
    /\ Is({"jump_if_true", "jump_if_false"})
    /\ Next1(IF (Val(-1) # 0) = (Op = "jump_if_true") THEN Operand - pc ELSE 3, Below(1))
    /\ Pure

Arguments(f) ==
    LET n == Len(Functions[f].params)
    IN [i \in 1..n |-> Show(heap, Functions[f].params[i], Val(i - n - 2))]
Invoke ==
    /\ Is({"invoke"})
    /\ LET n == Len(Functions[Callee].params)
       IN Next1(1, Append(Below(n + 1), Slot(Member(Functions[Callee].type), Result[Callee])))
    /\ calls' = Append(calls, <<Callee, Arguments(Callee)>>)
    /\ Keep /\ UNCHANGED <<heap, store>>

(* create_array_sub: an array, then, while it is on the stack, the arrays  *)
(* it holds; the sizes not given leave null elements.                      *)
RECURSIVE CreateArraySub(_, _, _), CreateChildren(_, _, _, _)
CreateChildren(h, type, sizes, n) ==
    IF n = 0 THEN [h |-> h, a |-> <<>>]
    ELSE LET rest == CreateChildren(h, type, sizes, n - 1)
         IN [h |-> CreateArraySub(rest.h, type, sizes), a |-> Append(rest.a, Len(rest.h) + 1)]
CreateArraySub(h, type, sizes) ==
    LET empty == Append(h, ArrayObject(Member(Element(type)), [i \in 1..sizes[1] |-> 0]))
        sub   == CreateChildren(empty, Element(type), Tail(sizes), sizes[1])
    IN IF Len(sizes) = 1 THEN empty
       ELSE [sub.h EXCEPT ![Len(h) + 1].a = sub.a]

NewArray ==
    /\ Is({"new_array"})
    /\ LET sizes == [i \in 1..Byte |-> Val(i - Byte - 1)]
           type  == unit.types[Two(unit.code, pc + 2) + 1]
       IN /\ heap' = CreateArraySub(heap, type, sizes)
          /\ pc' = pc + 4
          /\ stack' = Append(Below(Byte), Fresh)
          /\ high' = IF sp + Byte - 1 > high THEN sp + Byte - 1 ELSE high
    /\ Keep /\ UNCHANGED <<store, calls>>

NewArrayLiteral ==
    /\ Is({"new_array_literal_int", "new_array_literal_double", "new_array_literal_object"})
    /\ New(ArrayObject(MemberOf(Op), [i \in 1..Operand |-> Val(i - Operand - 1)]))
    /\ Next1(3, Append(Below(Operand), Fresh))
    /\ Keep /\ UNCHANGED <<store, calls>>

Finish ==
    /\ outcome = "running" /\ Ended
    /\ outcome' = "done"
    /\ UNCHANGED <<src, unit, pc, stack, heap, store, calls, high>>

Next ==
    \/ PushInt \/ PushDouble \/ PushString \/ PushNull \/ PushFunction
    \/ PushVariable \/ PopVariable
    \/ PushArray \/ PopArray \/ PushCharacterInString \/ PushField \/ PopField
    \/ IntArithmetic \/ DoubleArithmetic \/ ChainString \/ BitOperation \/ Unary
    \/ CastNumber \/ CastToString
    \/ CompareNumbers \/ CompareObjects \/ CompareStrings \/ Logical
    \/ Pop \/ Duplicate \/ Jump \/ Invoke \/ NewArray \/ NewArrayLiteral
    \/ Finish

Spec == Init /\ [][Next]_vars

-----------------------------------------------------------------------------
(* The conversions, the constant folding, the choice of typed opcodes, the *)
(* operand sizes and the jumps of && and || preserve the meaning of every  *)
(* program: at its end the machine has raised the exception, called the    *)
(* functions with the arguments, stored in every variable, in every field  *)
(* of the objects and left as the value what the source means.             *)
Start == [store |-> InitialStore, heap |-> InitialHeap, calls |-> <<>>, x |-> None]
ObjectFields(h, address) ==
    [f \in DOMAIN Fields |-> Show(h, Fields[f].type, h[address].f[Fields[f].index + 1])]
Agrees ==
    outcome # "running" =>
        LET meant == Eval(src.e, Start)
            m     == meant.m
        IN /\ m.x = IF outcome = "done" THEN None ELSE outcome
           /\ m.calls = calls
           /\ \A name \in DOMAIN store :
                LET type == Declarations[name].type
                IN Show(heap, type, store[name].v) = Show(m.heap, type, m.store[name])
           /\ \A o \in 1..Len(InitialHeap) :
                InitialHeap[o].k = "class" => ObjectFields(heap, o) = ObjectFields(m.heap, o)
           /\ outcome = "done" /\ src.mode = "value" =>
                LET raw == Raw(m, meant.v)
                IN Show(heap, Fixed(src).t, Val(-1)) = Show(raw.m.heap, Fixed(src).t, raw.v)

(* The compiler's types are those of the machine: code of an accepted      *)
(* program never reads the wrong member of a slot, uses an object of the   *)
(* wrong kind, an empty stack or an address inside an instruction.         *)
NeverUndefined == outcome = "running" /\ ~Ended => Defined

(* The collector goes by the pointer flags: in every slot and variable the *)
(* flag says whether it holds a reference, although many instructions      *)
(* overwrite a slot without writing its flag.                              *)
FlagsRight ==
    /\ \A i \in 1..sp : stack[i].p = (stack[i].m = "o")
    /\ \A name \in DOMAIN store : store[name].p = (store[name].m = "o")

(* A statement leaves the stack as it found it, an expression one slot     *)
(* more: the stack does not grow from statement to statement.              *)
Balanced ==
    outcome = "done" => Len(stack) = IF src.mode = "value" THEN 1 ELSE 0

(* The stack size computed by adding up the positive increments, without   *)
(* regard to jumps, is enough, with the one slot that expand_stack leaves  *)
(* beyond what it is asked for (two dimensions of new[][] need it).        *)
StackFits == high <= unit.need_stack_size + 1
=============================================================================
