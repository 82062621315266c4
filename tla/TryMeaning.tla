----------------------------- MODULE TryMeaning -----------------------------
(***************************************************************************)
(* What the statements of TryCode mean, as a recursive function of the     *)
(* source: the reference for the code and the virtual machine.  Nothing of *)
(* the code generator or of the machine is used here.                      *)
(*                                                                         *)
(* A state is how the last statement ended (with the label or the class    *)
(* that goes with it), the marks so far, and how many conditions will      *)
(* still come out true.                                                    *)
(***************************************************************************)
EXTENDS TryCode

Ended(s, how, what) == [s EXCEPT !.how = how, !.what = what]
Resumed(s) == Ended(s, "normal", None)

RECURSIVE Do(_, _, _, _)

(* The statements of a list in turn, as far as they end normally. *)
Run(program, list, caught, st) ==
    FoldLeft(LAMBDA acc, s : IF acc.how # "normal" THEN acc
                             ELSE Do(program, s, caught, acc), st, list)

(* A condition: true while there is fuel. *)
Burn(s) == [s EXCEPT !.fuel = IF @ = 0 THEN 0 ELSE @ - 1]

Named(s, label) == s.what \in {None, label}

RECURSIVE Iterate(_, _, _, _)
Iterate(program, s, caught, st) ==
    LET b == Run(program, s.body, caught, st)
        next == Run(program, s.post, caught, Resumed(b))
    IN CASE \/ b.how = "normal"
            \/ b.how = "continue" /\ Named(b, s.label) ->
                IF next.fuel = 0 THEN next
                ELSE Iterate(program, s, caught, Burn(next))
         [] b.how = "break" /\ Named(b, s.label) -> Resumed(b)
         [] OTHER -> b

(* The first catch clause for the class runs instead of the exception;     *)
(* the finally block runs whatever happened, and what happened resumes     *)
(* unless the finally block itself ends abruptly.                          *)
Attempt(program, s, caught, st) ==
    LET b == Run(program, s.body, caught, st)
        matching == {i \in 1..Len(s.catches) :
                        b.how = "throw" /\ InstanceOf(b.what, s.catches[i].class)}
        first == CHOOSE i \in matching : \A j \in matching : i <= j
        c == IF matching = {} THEN b
             ELSE Run(program, s.catches[first].body, b.what, Resumed(b))
        f == Run(program, s.final, caught, Resumed(c))
    IN IF f.how = "normal" THEN Ended(f, c.how, c.what) ELSE f

Invoked(program, f, st) ==
    LET b == Run(program, program[f], None, st)
    IN IF b.how = "return" THEN Resumed(b) ELSE b

Do(program, s, caught, st) ==
    CASE s.op = "mark"     -> [st EXCEPT !.trace = Append(@, s.id)]
      [] s.op = "throw"    -> Ended(st, "throw", s.class)
      [] s.op = "rethrow"  -> Ended(st, "throw", caught)
      [] s.op = "return"   -> Ended(st, "return", None)
      [] s.op \in {"break", "continue"} -> Ended(st, s.op, s.label)
      [] s.op = "call"     -> Invoked(program, s.func, st)
      [] s.op = "native"   -> IF s.raises = None THEN st
                              ELSE Ended(st, "throw", s.raises)
      [] s.op = "if"       -> Run(program, IF st.fuel > 0 THEN s.then ELSE s.else,
                                  caught, Burn(st))
      [] s.op = "switch"   -> Run(program, IF st.fuel > 0 THEN s.case
                                           ELSE s.default, caught, Burn(st))
      [] s.op = "for"      -> IF st.fuel = 0 THEN st
                              ELSE Iterate(program, s, caught, Burn(st))
      [] s.op = "do"       -> Iterate(program, s, caught, st)
      [] s.op = "try"      -> Attempt(program, s, caught, st)

(* A whole program: its marks, and the exception that ends it or None. *)
Meaning(program, fuel) ==
    LET end == Invoked([program EXCEPT !["top"] = AddReturnFunction(@)], "top",
                       [how |-> "normal", what |-> None, trace |-> <<>>,
                        fuel |-> fuel])
    IN [trace |-> end.trace, fuel |-> end.fuel, uncaught |-> end.what]
=============================================================================
