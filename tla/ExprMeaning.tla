---------------------------- MODULE ExprMeaning ----------------------------
(***************************************************************************)
(* What an expression means, defined on the source tree, without types     *)
(* checked in advance, conversions inserted, constants folded or code:     *)
(* operands are evaluated from left to right, the value of an assignment   *)
(* before the operands of its left side; a op= e is a = a op e with e taken *)
(* to the type of a first; e++ is e += 1; the right side of && and || is evaluated only when needed.   *)
(*                                                                         *)
(* A value is [t: type, v: raw value or text].  A state is [store: raw     *)
(* value of each variable, heap, calls: functions called with their        *)
(* arguments, x: the exception raised].                                    *)
(***************************************************************************)
EXTENDS ExprCode

CONSTANT Result         \* function name -> the raw value it returns

None == "none"
Value(type, v) == [t |-> type, v |-> v]
Null == Value(T("null"), 0)
IsNull(x) == x.t = T("null")
OK(v, m)      == [v |-> v, m |-> m]
Raise(x, m)   == [v |-> Null, m |-> [m EXCEPT !.x = x]]

(* Objects: a string, an array of ints, doubles or references, or the one  *)
(* kind of class object.  Address 0 is null.                               *)
StringObject(s)       == [k |-> "string", s |-> s]
ArrayObject(member, a) == [k |-> "array", m |-> member, a |-> a]
ClassObject(fields)   == [k |-> "class", f |-> fields]
Member(type) == <<"i", "d", "o">>[get_opcode_type_offset(type) + 1]

(* What a reader sees of a raw value of a type: strings by their text. *)
RECURSIVE Show(_, _, _)
Show(heap, type, raw) ==
    CASE ~IsObject(type) -> <<type.b, raw>>
      [] IsObject(type) /\ raw = 0 -> <<"null", 0>>
      [] IsArray(type) /\ raw # 0 ->
           <<"array", [i \in 1..Len(heap[raw].a) |-> Show(heap, Element(type), heap[raw].a[i])]>>
      [] type = T("string") /\ raw # 0 -> <<"string", heap[raw].s>>
      [] OTHER -> <<"object", raw>>

Load(m, type, raw) ==
    CASE IsObject(type) /\ raw = 0 -> Null
      [] type = T("string") /\ raw # 0 -> Value(type, m.heap[raw].s)
      [] OTHER -> Value(type, raw)
(* The raw value of v, and the state in which its string object exists. *)
Raw(m, v) ==
    IF v.t = T("string")
    THEN OK(Len(m.heap) + 1, [m EXCEPT !.heap = Append(@, StringObject(v.v))])
    ELSE OK(v.v, m)

Convert(v, type) ==
    CASE v.t = T("int") /\ type = T("double") -> Value(type, Double(v.v))
      [] v.t = T("double") /\ type = T("int") -> Value(type, Truncate(v.v))
      [] ~IsObject(v.t) /\ v.t # T("null") /\ type = T("string") ->
           Value(type, ToText(v.t.b, v.v))
      [] OTHER -> v

Text(v) == IF IsNull(v) THEN NullString ELSE Convert(v, T("string")).v
Wide(x, y) == IF T("double") \in {x.t, y.t} THEN T("double") ELSE x.t
Boolean(b) == Value(T("boolean"), IF b THEN 1 ELSE 0)

Apply(op, x, y, m) ==
    LET a == Convert(x, Wide(x, y)).v
        b == Convert(y, Wide(x, y)).v
    IN CASE op \in Math /\ x.t \in {T("string"), T("null")} ->
              OK(Value(T("string"), Text(x) \o Text(y)), m)
         [] op \in {"div", "mod"} /\ Wide(x, y) = T("int") /\ b = 0 ->
              Raise("DivisionByZero", m)
         [] op \in Math /\ Wide(x, y) = T("int")    -> OK(Value(T("int"), IntMath(op, a, b)), m)
         [] op \in Math /\ Wide(x, y) = T("double") -> OK(Value(T("double"), DoubleMath(op, a, b)), m)
         [] op \in BitOps -> OK(Value(x.t, Bits(op, a, b)), m)
         [] op \in Compares /\ (IsNull(x) \/ IsNull(y)) ->
              OK(Boolean((x.t = y.t) = (op = "eq")), m)
         [] op \in Compares /\ x.t = T("string") ->
              OK(Boolean(Compare(op, wcscmp(x.v, y.v), 0)), m)
         [] OTHER -> OK(Boolean(Compare(op, a, b)), m)

(* n arrays of a type, each of the sizes: their addresses, and the heap. *)
RECURSIVE NewArrays(_, _, _, _)
NewArrays(heap, type, sizes, n) ==
    LET parts == IF Len(sizes) = 1 THEN OK([i \in 1..sizes[1] |-> 0], heap)
                 ELSE NewArrays(heap, Element(type), Tail(sizes), sizes[1])
        rest  == NewArrays(Append(parts.m, ArrayObject(Member(Element(type)), parts.v)),
                           type, sizes, n - 1)
    IN IF n = 0 THEN OK(<<>>, heap) ELSE OK(<<Len(parts.m) + 1>> \o rest.v, rest.m)

RECURSIVE Eval(_, _), EvalAll(_, _), Assign(_, _, _)
EvalAll(es, m) ==
    IF es = <<>> \/ m.x # None THEN OK(<<>>, m)
    ELSE LET first == Eval(Head(es), m)
             rest  == EvalAll(Tail(es), first.m)
         IN OK(<<first.v>> \o rest.v, rest.m)

(* The value stored, after conversion to what the left side holds. *)
Assign(l, v, m) ==
    LET s == EvalAll(l.c, m)
    IN CASE l.k = "identifier" ->
              LET new == Convert(v, Declarations[l.v].type)
                  raw == Raw(m, new)
              IN OK(new, [raw.m EXCEPT !.store[l.v] = raw.v])
         [] s.m.x # None -> s
         [] IsNull(s.v[1]) -> Raise("NullPointer", s.m)
         [] l.k = "index" ->
              LET new == Convert(v, Element(s.v[1].t))
                  raw == Raw(s.m, new)
                  a   == s.v[1].v
              IN IF s.v[2].v \in 0..(Len(s.m.heap[a].a) - 1)
                 THEN OK(new, [raw.m EXCEPT !.heap[a].a[s.v[2].v + 1] = raw.v])
                 ELSE Raise("ArrayIndexOutOfBounds", s.m)
         [] l.k = "field" ->
              LET new == Convert(v, Fields[l.v].type)
                  raw == Raw(s.m, new)
              IN OK(new, [raw.m EXCEPT !.heap[s.v[1].v].f[Fields[l.v].index + 1] = raw.v])

One == [k |-> "int", v |-> 1, c |-> <<>>]

(* The elements take the type of the first one.  Each has a place for a    *)
(* string object, which only those that are strings use.                   *)
Elements(vs, type, m) ==
    LET elem == [i \in 1..Len(vs) |-> Convert(vs[i], type)]
        Object(v) == StringObject(IF v.t = T("string") THEN v.v ELSE <<>>)
        heap == m.heap \o [i \in 1..Len(vs) |-> Object(elem[i])]
        raw  == [i \in 1..Len(vs) |->
                   IF elem[i].t = T("string") THEN Len(m.heap) + i ELSE elem[i].v]
    IN OK(Value(ArrayOf(type), Len(heap) + 1),
          [m EXCEPT !.heap = Append(heap, ArrayObject(Member(type), raw))])

Call(f, vs, m) ==
    LET shown == [i \in 1..Len(vs) |->
                    LET raw == Raw(m, Convert(vs[i], Functions[f].params[i]))
                    IN Show(raw.m.heap, Functions[f].params[i], raw.v)]
    IN OK(Load(m, Functions[f].type, Result[f]),
          [m EXCEPT !.calls = Append(@, <<f, shown>>)])

(* A character of a string, or an element of an array. *)
ValueAt(x, i, m) ==
    LET n == Len(IF x.t = T("string") THEN x.v ELSE m.heap[x.v].a)
        out == IF x.t = T("string") THEN "StringIndexOutOfBounds" ELSE "ArrayIndexOutOfBounds"
    IN CASE i \notin 0..(n - 1) -> Raise(out, m)
         [] x.t = T("string")    -> OK(Value(T("int"), x.v[i + 1][2]), m)
         [] OTHER                -> OK(Load(m, Element(x.t), m.heap[x.v].a[i + 1]), m)

Eval(e, m) ==
    LET s  == EvalAll(e.c, m)
        x  == s.v[1]
        ok == s.m.x = None
    IN CASE e.k \in {"boolean", "int", "double"} -> OK(Value(T(e.k), e.v), m)
         [] e.k = "string"     -> OK(Value(T("string"), e.v), m)
         [] e.k = "null"       -> OK(Null, m)
         [] e.k = "enumerator" -> OK(Value(T("enum"), e.v), m)
         [] e.k = "identifier" -> OK(Load(m, Declarations[e.v].type, m.store[e.v]), m)
         [] e.k = "assign" /\ e.v = "assign" ->
              LET r == Eval(e.c[2], m) IN IF r.m.x # None THEN r ELSE Assign(e.c[1], r.v, r.m)
         [] e.k = "assign" /\ e.v # "assign" ->
              LET s2 == EvalAll(e.c, m)
                  r  == Apply(e.v, s2.v[1], Convert(s2.v[2], s2.v[1].t), s2.m)
              IN CASE s2.m.x # None -> s2
                   [] r.m.x # None  -> r
                   [] OTHER         -> Assign(e.c[1], r.v, r.m)
         [] e.k \in {"increment", "decrement"} ->
              Eval([k |-> "assign", v |-> IF e.k = "increment" THEN "add" ELSE "sub",
                    c |-> <<e.c[1], One>>], m)
         [] e.k \in Logics ->
              LET l == Eval(e.c[1], m)
              IN IF l.m.x # None \/ l.v.v = (IF e.k = "logical_and" THEN 0 ELSE 1)
                 THEN l ELSE Eval(e.c[2], l.m)
         [] e.k = "call" ->
              LET args == EvalAll(Tail(e.c), m)
              IN IF args.m.x # None THEN args ELSE Call(e.c[1].v, args.v, args.m)
         [] e.k \notin {"assign", "increment", "decrement", "call"} \cup Logics /\ ~ok -> s
         [] e.k = "comma" /\ ok          -> OK(s.v[2], s.m)
         [] e.k \in Math \cup BitOps \cup Compares /\ ok -> Apply(e.k, x, s.v[2], s.m)
         [] e.k = "minus" /\ ok ->
              OK([x EXCEPT !.v = IF x.t = T("int") THEN Wrap(-@) ELSE -@], s.m)
         [] e.k = "bit_not" /\ ok        -> OK([x EXCEPT !.v = Wrap(-@ - 1)], s.m)
         [] e.k = "logical_not" /\ ok    -> OK([x EXCEPT !.v = 1 - @], s.m)
         [] e.k = "index" /\ ok ->
              IF IsNull(x) THEN Raise("NullPointer", s.m) ELSE ValueAt(x, s.v[2].v, s.m)
         [] e.k = "field" /\ ok ->
              IF IsNull(x) THEN Raise("NullPointer", s.m)
              ELSE OK(Load(s.m, Fields[e.v].type, s.m.heap[x.v].f[Fields[e.v].index + 1]), s.m)
         [] e.k = "array_literal" /\ ok  -> Elements(s.v, fix_expression(e.c[1]).t, s.m)
         [] e.k = "array_creation" /\ ok ->
              LET type == [b |-> e.v[1], d |-> Len(e.c) + e.v[2]]
                  new  == NewArrays(s.m.heap, type, [i \in 1..Len(e.c) |-> s.v[i].v], 1)
              IN OK(Value(type, new.v[1]), [s.m EXCEPT !.heap = new.m])
=============================================================================
