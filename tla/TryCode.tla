------------------------------ MODULE TryCode ------------------------------
(***************************************************************************)
(* How Diksam statements become VM code (generate.c), for the statements   *)
(* that move control: loops with break and continue, switch, return,       *)
(* throw and try, with calls of Diksam and of native functions; and what   *)
(* the statements mean, defined without the code.                          *)
(*                                                                         *)
(* Abstractions: an expression is one instruction (mark: an assignment     *)
(* that can be observed; condition: a comparison that comes out true a     *)
(* bounded number of times); an exception is its class; an instruction is  *)
(* one address long, and addresses start at 1.                             *)
(*                                                                         *)
(* A program gives each function (top is the top level) its statements.    *)
(***************************************************************************)
EXTENDS Integers, Sequences, SequencesExt

Functions == {"top", "f", "g", "h"}
Class   == {"Exception", "Derived"}
None    == "none"

(* check_instanceof, with the equality test that precedes it. *)
InstanceOf(class, target) == class = target \/ target = "Exception"

-----------------------------------------------------------------------------
(* The statements. *)
Mark(n)            == [op |-> "mark", id |-> n]
Throw(class)       == [op |-> "throw", class |-> class]
Rethrow            == [op |-> "rethrow"]
Return             == [op |-> "return"]
Break(label)       == [op |-> "break", label |-> label]
Continue(label)    == [op |-> "continue", label |-> label]
Call(f)            == [op |-> "call", func |-> f]
Native(raises)     == [op |-> "native", raises |-> raises]
If(then, else)     == [op |-> "if", then |-> then, else |-> else]
For(label, post, body) ==
    [op |-> "for", label |-> label, body |-> body, post |-> post]
DoWhile(label, body) ==
    [op |-> "do", label |-> label, body |-> body, post |-> <<>>]
While(label, body) == For(label, <<>>, body)
Switch(case, default) == [op |-> "switch", case |-> case, default |-> default]
Catch(class, body) == [class |-> class, body |-> body]
Try(body, catches, final) ==
    [op |-> "try", body |-> body, catches |-> catches, final |-> final]

-----------------------------------------------------------------------------
(* The opcode buffer: code, label table, try table, the compiler's         *)
(* current_finally_label, and the number of local variables.               *)
EmptyBuf == [code |-> <<>>, label |-> <<>>, try |-> <<>>, finally |-> 0,
             nvar |-> 0]

Here(ob)         == Len(ob.code) + 1
NextLabel(ob)    == Len(ob.label) + 1
GetLabel(ob)     == [ob EXCEPT !.label = Append(@, 0)]
SetLabel(ob, l)  == [ob EXCEPT !.label[l] = Here(ob)]
Emit(ob, op, arg) == [ob EXCEPT !.code = Append(@, [op |-> op, arg |-> arg])]

Jumps == {"jump", "jump_if_true", "jump_if_false", "go_finally"}

FixLabels(ob) ==
    [i \in 1..Len(ob.code) |->
        IF ob.code[i].op \in Jumps
        THEN [ob.code[i] EXCEPT !.arg = ob.label[@]]
        ELSE ob.code[i]]

(* The stack increments of dvm_opcode_info. *)
(* Faulty variant: GO_FINALLY is not counted. *)
GrowsStackNotFinally ==
    {"new", "push", "push_function", "push_variable", "condition", "duplicate"}
GrowsStack == GrowsStackNotFinally \cup {"go_finally"}

CalcNeedStackSize(code) ==
    Len(SelectSeq(code, LAMBDA i : i.op \in GrowsStack))

-----------------------------------------------------------------------------
(* The blocks around a statement, innermost first.  A loop has the labels  *)
(* that break and continue go to, a catch clause its variable.             *)
Plain(type)  == [type |-> type, label |-> None, break |-> 0, continue |-> 0,
                 var |-> 0]
Loop(label, break, continue) ==
    [Plain("loop") EXCEPT !.label = label, !.break = break,
                          !.continue = continue]
CatchBlock(var) == [Plain("catch") EXCEPT !.var = var]

IsGuarded(block) == block.type \in {"try", "catch"}

(* The loop that a break or continue names, and whether a try or catch     *)
(* clause lies between.                                                    *)
Target(blocks, label) ==
    CHOOSE i \in 1..Len(blocks) :
        LET names(j) == blocks[j].type = "loop"
                        /\ label \in {None, blocks[j].label}
        IN names(i) /\ \A j \in 1..i-1 : ~names(j)

LeavesTry(blocks, n) == \E i \in 1..n : IsGuarded(blocks[i])

GenerateJump(blocks, label, to, ob) ==
    LET n == Target(blocks, label)
        left == IF LeavesTry(blocks, n)
                THEN Emit(ob, "go_finally", ob.finally) ELSE ob
    IN Emit(left, "jump", blocks[n][to])

GenerateBreak(blocks, label, ob) ==
    GenerateJump(blocks, label, "break", ob)
GenerateContinue(blocks, label, ob) ==
    GenerateJump(blocks, label, "continue", ob)

GenerateReturn(blocks, ob) ==
    LET left == FoldLeft(LAMBDA o, b :
                            IF IsGuarded(b)
                            THEN Emit(o, "go_finally", o.finally) ELSE o,
                         ob, blocks)
    IN Emit(Emit(left, "push", "value"), "return", 0)

(* The variable of the catch clause a throw without operand stands in. *)
CatchVariable(blocks) ==
    blocks[CHOOSE i \in 1..Len(blocks) :
              /\ blocks[i].type = "catch"
              /\ \A j \in 1..i-1 : blocks[j].type # "catch"].var

RECURSIVE GenerateStatement(_, _, _)

GenerateStatementList(blocks, list, ob) ==
    FoldLeft(LAMBDA o, s : GenerateStatement(blocks, s, o), ob, list)

GenerateBlock(block, blocks, list, ob) ==
    GenerateStatementList(<<block>> \o blocks, list, ob)

GenerateCall(kind, callee, ob) ==
    Emit(Emit(Emit(ob, "push_function", [kind |-> kind, name |-> callee]),
              "invoke", 0), "pop", 0)

GenerateIf(blocks, s, ob) ==
    LET false == NextLabel(ob)
        o1 == Emit(Emit(GetLabel(ob), "condition", 0), "jump_if_false", false)
        o2 == GenerateBlock(Plain("if"), blocks, s.then, o1)
        end == NextLabel(o2)
        o3 == SetLabel(Emit(GetLabel(o2), "jump", end), false)
    IN SetLabel(GenerateBlock(Plain("if"), blocks, s.else, o3), end)

(* One case; "condition" stands for the comparison with the duplicate. *)
GenerateSwitch(blocks, s, ob) ==
    LET end == NextLabel(ob)
        start == end + 1
        next == end + 2
        o1 == Emit(GetLabel(GetLabel(GetLabel(ob))), "push", "value")
        o2 == Emit(Emit(o1, "condition", 0), "jump_if_true", start)
        o3 == SetLabel(Emit(o2, "jump", next), start)
        o4 == GenerateBlock(Plain("case"), blocks, s.case, o3)
        o5 == SetLabel(Emit(o4, "jump", end), next)
        o6 == GenerateBlock(Plain("case"), blocks, s.default, o5)
    IN Emit(SetLabel(o6, end), "pop", 0)

(* A while statement is a for statement without its third expression. *)
GenerateFor(blocks, s, ob) ==
    LET loop == NextLabel(ob)
        break == loop + 1
        continue == loop + 2
        o1 == SetLabel(GetLabel(GetLabel(GetLabel(ob))), loop)
        o2 == Emit(Emit(o1, "condition", 0), "jump_if_false", break)
        o3 == GenerateBlock(Loop(s.label, break, continue), blocks, s.body, o2)
        o4 == GenerateStatementList(blocks, s.post, SetLabel(o3, continue))
    IN SetLabel(Emit(o4, "jump", loop), break)

GenerateDoWhile(blocks, s, ob) ==
    LET loop == NextLabel(ob)
        break == loop + 1
        continue == loop + 2
        o1 == SetLabel(GetLabel(GetLabel(GetLabel(ob))), loop)
        o2 == GenerateBlock(Loop(s.label, break, continue), blocks, s.body, o1)
        o3 == Emit(SetLabel(o2, continue), "condition", 0)
    IN SetLabel(Emit(o3, "jump_if_true", loop), break)

(* The way out of a try or catch clause. *)
(* Faulty variant: the finally clause gets no return address. *)
LeaveClauseByJump(after, ob) ==
    Emit(Emit(ob, "jump", ob.finally), "jump", after)
LeaveClause(after, ob) ==
    Emit(Emit(ob, "go_finally", ob.finally), "jump", after)

(* Faulty variant: the finally label is not set. *)
StartFinallyUnlabelled(ob) == ob
StartFinally(ob) == SetLabel(ob, ob.finally)

(* A catch clause: its variable is a new local variable.  acc is the       *)
(* buffer and the clauses so far.                                          *)
GenerateCatch(blocks, after, clause, acc) ==
    LET start == Here(acc.ob)
        var == acc.ob.nvar + 1
        o1 == Emit([acc.ob EXCEPT !.nvar = var], "pop_variable", var)
        o2 == LeaveClause(after, GenerateBlock(CatchBlock(var), blocks,
                                               clause.body, o1))
    IN [ob |-> o2,
        catches |-> Append(acc.catches, [class |-> clause.class,
                        start |-> start, end |-> Here(o2) - 1])]

(* The finally label is not the outer one's again afterwards. *)
GenerateTry(blocks, s, ob) ==
    LET after == NextLabel(ob)
        o1 == [GetLabel(GetLabel(ob)) EXCEPT !.finally = after + 1]
        o2 == LeaveClause(after, GenerateBlock(Plain("try"), blocks, s.body, o1))
        c == FoldLeft(LAMBDA acc, clause :
                          GenerateCatch(blocks, after, clause, acc),
                      [ob |-> o2, catches |-> <<>>], s.catches)
        o3 == StartFinally(c.ob)
        o4 == GenerateBlock(Plain("finally"), blocks, s.final, o3)
        o5 == SetLabel(Emit(o4, "finally_end", 0), after)
    IN [o5 EXCEPT !.try = Append(@,
           [start |-> Here(ob), end |-> Here(o2) - 1, catches |-> c.catches,
            finally |-> Here(o3), finallyEnd |-> Here(o5) - 1])]

GenerateThrow(class, ob) == Emit(Emit(ob, "new", class), "throw", 0)
GenerateRethrow(blocks, ob) ==
    Emit(Emit(ob, "push_variable", CatchVariable(blocks)), "rethrow", 0)

GenerateStatement(blocks, s, ob) ==
    CASE s.op = "mark"     -> Emit(ob, "mark", s.id)
      [] s.op = "throw"    -> GenerateThrow(s.class, ob)
      [] s.op = "rethrow"  -> GenerateRethrow(blocks, ob)
      [] s.op = "return"   -> GenerateReturn(blocks, ob)
      [] s.op = "break"    -> GenerateBreak(blocks, s.label, ob)
      [] s.op = "continue" -> GenerateContinue(blocks, s.label, ob)
      [] s.op = "call"     -> GenerateCall("diksam", s.func, ob)
      [] s.op = "native"   -> GenerateCall("native", s.raises, ob)
      [] s.op = "if"       -> GenerateIf(blocks, s, ob)
      [] s.op = "switch"   -> GenerateSwitch(blocks, s, ob)
      [] s.op = "for"      -> GenerateFor(blocks, s, ob)
      [] s.op = "do"       -> GenerateDoWhile(blocks, s, ob)
      [] s.op = "try"      -> GenerateTry(blocks, s, ob)

(* A function that does not end in a return gets one. *)
AddReturnFunction(list) ==
    IF list # <<>> /\ Last(list).op = "return" THEN list
    ELSE Append(list, Return)

CodeBlock(ob) ==
    LET code == FixLabels(ob) IN
    [code |-> code, try |-> ob.try, nvar |-> ob.nvar,
     need |-> CalcNeedStackSize(code)]

(* dkc_generate: the code of the functions and of the top level. *)
Generate(program) ==
    [f \in Functions |->
        CodeBlock(GenerateStatementList(<<>>,
            IF f = "top" THEN program[f] ELSE AddReturnFunction(program[f]),
            EmptyBuf))]
=============================================================================
