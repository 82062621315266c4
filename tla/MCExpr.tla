------------------------------- MODULE MCExpr -------------------------------
(***************************************************************************)
(* Programs for Expr: every operator on every pair of a set of atoms, and  *)
(* two levels of operators on smaller sets.  Ints have 8 bits and a byte   *)
(* of code has 8 values, so that 9 needs two bytes and 100 the constant    *)
(* pool, as 300 and 70000 do in the program.                               *)
(***************************************************************************)
EXTENDS Expr

S(text) == [i \in 1..Len(text) |-> Piece("char", text[i])]
N(kind, value, operands) == [k |-> kind, v |-> value, c |-> operands]
L(kind, value) == N(kind, value, <<>>)
V(name) == L("identifier", name)
Bin(op, l, r) == N(op, 0, <<l, r>>)
Un(op, e) == N(op, 0, <<e>>)

MCWidth == 8
MCByte  == 8
Var(type, place, index) == [type |-> type, place |-> place, index |-> index, final |-> FALSE]
MCDeclarations ==
    [i |-> Var(T("int"), "static", 0),     d |-> Var(T("double"), "static", 1),
     b |-> Var(T("boolean"), "static", 2), s |-> Var(T("string"), "static", 3),
     n |-> Var(T("string"), "static", 4),  a |-> Var(ArrayOf(T("int")), "static", 5),
     o |-> Var(T("class"), "static", 6),   x |-> Var(T("int"), "stack", 0),
     y |-> Var(T("double"), "stack", 1),   t |-> Var(T("string"), "stack", 2),
     k |-> Var(T("int"), "constant", 0),   z |-> Var(T("class"), "static", 7),
     e |-> Var(T("enum"), "static", 8),
     p |-> Var(ArrayOf(T("string")), "static", 9),
     q |-> Var(ArrayOf(T("double")), "static", 10),
     m |-> Var(ArrayOf(ArrayOf(T("int"))), "static", 11)]
MCStore ==
    [i |-> 3, d |-> 5, b |-> 1, s |-> 1, n |-> 0, a |-> 2, o |-> 3, x |-> 100,
     y |-> -2, t |-> 4, k |-> 9, z |-> 0, e |-> 1, p |-> 5, q |-> 6, m |-> 0]
MCHeap ==
    <<StringObject(S(<<1, 2>>)), ArrayObject("i", <<7, 8>>), ClassObject(<<4, 1, 1>>),
      StringObject(S(<<2>>)), ArrayObject("o", <<1, 0>>), ArrayObject("d", <<3>>)>>
MCFields ==
    [n |-> [type |-> T("int"), index |-> 0, final |-> FALSE],
     r |-> [type |-> T("double"), index |-> 1, final |-> TRUE],
     w |-> [type |-> T("string"), index |-> 2, final |-> FALSE]]
MCFunctions ==
    [f |-> [type |-> T("int"), params |-> <<T("int"), T("double")>>, index |-> 0],
     g |-> [type |-> T("string"), params |-> <<T("string")>>, index |-> 1]]
MCResult == [f |-> 2, g |-> 4]
MCEnumerators == <<"A", "B">>

-----------------------------------------------------------------------------
Field(object, name) == N("field", name, <<V(object)>>)
F(x, y) == N("call", 0, <<V("f"), x, y>>)
G(x)    == N("call", 0, <<V("g"), x>>)
IntL == L("int", 2)
Literals == {L("int", v) : v \in {0, 2, 9, 100}} \cup {L("double", v) : v \in {0, 2, 5}}
            \cup {L("boolean", 1), L("string", S(<<1, 2>>)), L("null", 0), L("enumerator", 1)}
Variables == {V(name) : name \in {"i", "d", "b", "s", "n", "a", "o", "x", "k", "e"}}
Accesses == {Bin("index", V("a"), L("int", 1)), Bin("index", V("a"), L("int", 2)),
             Bin("index", V("s"), L("int", 0)), Bin("index", V("p"), L("int", 0)),
             Bin("index", V("q"), L("int", 0)),
             Field("o", "n"), Field("o", "w"), Field("z", "n"),
             F(V("i"), V("x")), G(V("x"))}
Atoms == Literals \cup Variables \cup Accesses
Operators == Math \cup BitOps \cup Compares \cup Logics

(* What the programs leave out, each described in README.md: a remainder   *)
(* by zero, comparisons folded on two doubles or two nulls, strings that   *)
(* may be null or objects compared by an instruction for strings, and two  *)
(* boolean literals compared by order (the compiler stops at an assert).   *)
RECURSIVE Excluded(_)
FoldsDoubles(l, r) == /\ {l.k, r.k} \subseteq Numbers
                      /\ "double" \in {l.k, r.k}
Excluded(e) ==
    \/ e.k = "mod" /\ e.c[2].k \notin {"identifier"} /\ e.c[2] # IntL
    \/ e.k \in Compares /\ FoldsDoubles(fix_expression(e.c[1]), fix_expression(e.c[2]))
    \/ e.k \in Compares /\ e.c[1].k = "null" /\ e.c[2].k = "null"
    \/ e.k \in Compares /\ \E i \in {1, 2} :
         /\ e.c[i] \in {V("n"), Bin("index", V("p"), L("int", 1))}
         /\ e.c[3 - i].k # "null"
    \/ e.k \in Compares \ {"eq", "ne"} /\ \E i \in {1, 2} :
         e.c[i].k = "null" \/ e.c[i] \in {V("a"), V("o"), V("z"), V("m")}
    \/ \E i \in 1..Len(e.c) : Excluded(e.c[i])

Binaries(ops, left, right) == {Bin(op, l, r) : op \in ops, l \in left, r \in right}
Unaries(es) == {Un(op, e) : op \in {"minus", "bit_not", "logical_not"}, e \in es}
Flat == Atoms \cup Binaries(Operators, Atoms, Atoms) \cup Unaries(Atoms)
(* Two levels of operators, and the value of an assignment as an operand.  *)
Assign2(l, r) == N("assign", "assign", <<l, r>>)
Inner == {IntL, L("int", 100), V("i"), L("double", 5), V("d"), V("b"), V("s"),
          Un("increment", V("i")), F(V("i"), V("x")), Assign2(V("i"), V("d"))}
Some == {"add", "div", "bit_and", "lt", "eq", "logical_and", "logical_or"}
Inner2 == {e \in Binaries(Some, Inner, Inner) : fix_expression(e) # Error}
Outer == {IntL, V("i"), V("b"), V("s"), L("double", 5)}
Deep == Binaries(Some, Inner2, Outer) \cup Binaries(Some, Outer, Inner2)
        \cup {F(e, V("i")) : e \in Inner2} \cup {G(e) : e \in Inner2}
        \cup {Bin("index", V("a"), e) : e \in Inner2}

(* Assignments, compound assignments and increments of every kind of left  *)
(* side, and the creation of arrays.                                       *)
NewOf(type, open, sizes) == N("array_creation", <<type, open>>, sizes)
List(es) == N("array_literal", 0, es)
Arrays == {NewOf("int", 0, <<IntL>>), NewOf("double", 0, <<L("int", 0)>>), NewOf("string", 1, <<V("i")>>),
           NewOf("int", 0, <<IntL, L("int", 1)>>), NewOf("int", 0, <<V("i"), IntL>>),
           List(<<IntL, V("d")>>), List(<<V("d"), IntL>>), List(<<V("s"), IntL, V("n")>>),
           List(<<V("a"), NewOf("int", 0, <<IntL>>)>>),
           Bin("index", Bin("index", V("m"), IntL), IntL),
           Bin("index", NewOf("int", 0, <<IntL, V("i")>>), L("int", 1)),
           Bin("index", List(<<V("n"), V("s")>>), L("int", 1))}
Left == {V("i"), V("d"), V("b"), V("s"), V("n"), V("x"), V("y"), V("t"), V("k"), V("a"), V("m"),
         V("p"), V("q"), V("o"), V("e"), Bin("index", V("a"), L("int", 1)),
         Bin("index", V("a"), Un("increment", V("x"))), Bin("index", V("a"), F(V("i"), V("x"))),
         Bin("index", V("p"), L("int", 1)), Bin("index", V("q"), L("int", 0)),
         Field("o", "n"), Field("z", "n"), Field("o", "r"), Field("o", "w"),
         Bin("index", V("m"), IntL)}
Right == Atoms \cup Arrays \cup {Assign2(l, r) : l \in Left, r \in {IntL, V("d"), V("s")}}
Numeric(e) == fix_expression(e).t \in {T("int"), T("double")}
Compound == {N("assign", op, <<l, r>>) : op \in Math \ {"mod"},
                l \in {l \in Left : Numeric(l)}, r \in {r \in Inner : Numeric(r)}}
            \cup {N("assign", "add", <<l, r>>) : l \in {V("s"), V("n"), V("t"), Field("o", "w")},
                                               r \in Inner \cup {V("n")}}
Changes == {Assign2(l, r) : l \in Left, r \in Right} \cup Compound \cup Arrays
           \cup {Un(op, l) : op \in {"increment", "decrement"}, l \in Left}
Values == {[e |-> e, mode |-> "value"] : e \in {e \in Flat \cup Deep : ~Excluded(e)}}
Statements == {[e |-> e, mode |-> mode] : e \in {e \in Changes : ~Excluded(e)},
                                     mode \in {"statement", "value"}}
MCPrograms == Values \cup Statements
=============================================================================
