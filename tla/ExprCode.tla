------------------------------ MODULE ExprCode ------------------------------
(***************************************************************************)
(* How an expression is checked, converted, folded (fix_tree.c) and turned *)
(* into instructions (generate.c).                                         *)
(*                                                                         *)
(* A node is [k: kind, v: literal value, name or type, c: operands, t:     *)
(* type].  Ints have Width bits.  A double is a count of halves: sums,     *)
(* comparisons and conversions are exact, a product or a quotient is cut   *)
(* to halves, a division by zero gives Infinity.  A string is a sequence   *)
(* of pieces: a piece is a character or what a number prints as.           *)
(* Every compile error ends the compiler: all are the one node Error.      *)
(***************************************************************************)
EXTENDS Integers, Sequences, Bitwise, Instructions

CONSTANTS
    WIDTH,          \* bits of an int
    Declarations,   \* name -> [type, place, index, final] of the variables
    Functions,      \* name -> [type, params, index]
    Fields,         \* field name -> [type, index, final] of the one class C
    Enumerators     \* the enumerators of the one enum, by value

Infinity == 1000

T(basic)      == [b |-> basic, d |-> 0]
ArrayOf(type) == [type EXCEPT !.d = @ + 1]
Element(type) == [type EXCEPT !.d = @ - 1]
IsArray(type) == type.d > 0
IsObject(type) == IsArray(type) \/ type.b \in {"string", "class"}   \* dkc_is_object

Node(kind, value, operands, type) ==
    [k |-> kind, v |-> value, c |-> operands, t |-> type]
Literal(kind, value) == Node(kind, value, <<>>, T(kind))
Error    == Literal("error", 0)
Require(condition, node) == IF condition THEN node ELSE Error

-----------------------------------------------------------------------------
(* Arithmetic, as the compiler folds it and the machine performs it. *)
Wrap(n)    == ((n + 2^(WIDTH - 1)) % 2^WIDTH) - 2^(WIDTH - 1)
Natural(n) == n % 2^WIDTH
Magnitude(n) == IF n < 0 THEN -n ELSE n
Quotient(a, b) ==
    LET q == Magnitude(a) \div Magnitude(b) IN IF (a < 0) # (b < 0) THEN -q ELSE q
Remainder(a, b) == a - b * Quotient(a, b)

IntMath(op, a, b) ==
    Wrap(CASE op = "add" -> a + b [] op = "sub" -> a - b [] op = "mul" -> a * b
           [] op = "div" -> Quotient(a, b) [] op = "mod" -> Remainder(a, b))
DoubleMath(op, a, b) ==
    CASE op = "add" -> a + b [] op = "sub" -> a - b
      [] op = "mul" -> Quotient(a * b, 2)
      [] op = "div" -> IF b = 0 THEN Infinity ELSE Quotient(2 * a, b)
      [] op = "mod" -> IF b = 0 THEN Infinity ELSE Remainder(a, b)
Bits(op, a, b) ==
    LET m == Natural(a)
        n == Natural(b)
    IN Wrap(CASE op = "bit_and" -> m & n [] op = "bit_or" -> m | n
              [] op = "bit_xor" -> m ^^ n)
Compare(op, a, b) ==
    CASE op = "eq" -> a = b [] op = "ne" -> a # b [] op = "gt" -> a > b
      [] op = "ge" -> a >= b [] op = "lt" -> a < b [] op = "le" -> a <= b
Double(i)   == 2 * i
Truncate(d) == Wrap(Quotient(d, 2))

(* dvm_wcscmp: pieces are compared by their place in PieceOrder. *)
Piece(kind, value) == <<kind, value>>
Before(p, q) == \/ p[1] = q[1] /\ p[1] \in {"int", "double"} /\ p[2] < q[2]
                \/ p[1] = "char" /\ q[1] = "char" /\ p[2] < q[2]
                \/ p[1] # q[1] /\ q[1] = "char"
wcscmp(s, t) ==
    IF s = t THEN 0
    ELSE LET n == {i \in 1..Len(s) : i <= Len(t) => s[i] # t[i]}
         IN IF n = {} THEN -1
            ELSE LET i == CHOOSE i \in n : \A j \in n : i <= j
                 IN IF i <= Len(t) /\ Before(s[i], t[i]) THEN -1 ELSE 1

NullString == <<Piece("char", 98), Piece("char", 99)>>   \* NULL_STRING
ToText(type, value) ==
    CASE type = "boolean" -> <<Piece("boolean", value)>>
      [] type = "int"     -> <<Piece("int", value)>>
      [] type = "double"  -> <<Piece("double", value)>>
      [] type = "enum"    -> <<Piece("name", Enumerators[value + 1])>>

-----------------------------------------------------------------------------
(* fix_tree.c: the expression with its types, conversions and constants.   *)
Math    == {"add", "sub", "mul", "div", "mod"}
BitOps  == {"bit_and", "bit_or", "bit_xor"}
Compares == {"eq", "ne", "gt", "ge", "lt", "le"}
Logics  == {"logical_and", "logical_or"}
Numbers == {"int", "double"}

Cast(kind, operand, type) == Node("cast", kind, <<operand>>, T(type))

create_to_string_cast(src) ==
    IF src.t \in {T("boolean"), T("int"), T("double"), T("enum")}
    THEN Cast(src.t.b \o "_to_string", src, "string")
    ELSE Error

(* Faulty variant: an int is stored as it is where a double is expected. *)
AssignCastKeepsInt(src, dest) ==
    CASE src.t = dest \/ (IsObject(dest) /\ src.t = T("null")) -> src
      [] src.t = T("int") /\ dest = T("double") -> src
      [] src.t = T("double") /\ dest = T("int") -> Cast("double_to_int", src, "int")
      [] dest = T("string")                     -> create_to_string_cast(src)
      [] OTHER                                  -> Error

create_assign_cast(src, dest) ==
    CASE src.t = dest                             -> src
      [] IsObject(dest) /\ src.t = T("null")      -> src
      [] src.t = T("int") /\ dest = T("double")   -> Cast("int_to_double", src, "double")
      [] src.t = T("double") /\ dest = T("int")   -> Cast("double_to_int", src, "int")
      [] dest = T("string")                       -> create_to_string_cast(src)
      [] OTHER                                    -> Error

(* Both operands as numbers of the same type, or a string and a string. *)
cast_binary_expression(k, l, r) ==
    CASE l.t = T("int") /\ r.t = T("double") -> <<Cast("int_to_double", l, "double"), r>>
      [] l.t = T("double") /\ r.t = T("int") -> <<l, Cast("int_to_double", r, "double")>>
      [] /\ l.t = T("string") /\ k = "add"
         /\ create_to_string_cast(r) # Error -> <<l, create_to_string_cast(r)>>
      [] OTHER -> <<l, r>>

DoubleValue(n) == IF n.k = "int" THEN Double(n.v) ELSE n.v

(* No folding gives the node itself.  A division by a literal zero is a    *)
(* compile error; a remainder by it ends the compiler too, by the trap of  *)
(* the host's division.                                                    *)
eval_math_expression(k, l, r) ==
    CASE l.k = "int" /\ r.k = "int" ->
           Require(k \notin {"div", "mod"} \/ r.v # 0, Literal("int", IntMath(k, l.v, r.v)))
      [] l.k \in Numbers /\ r.k \in Numbers /\ "double" \in {l.k, r.k} ->
           Literal("double", DoubleMath(k, DoubleValue(l), DoubleValue(r)))
      [] l.k = "string" /\ k = "add" /\ r.k \in {"boolean", "int", "double", "string"} ->
           Literal("string", l.v \o IF r.k = "string" THEN r.v ELSE ToText(r.k, r.v))
      [] OTHER -> Node(k, 0, <<l, r>>, T("null"))

fix_math_binary_expression(k, left, right) ==
    LET folded == eval_math_expression(k, left, right)
        c      == cast_binary_expression(k, left, right)
        l      == c[1].t
        r      == c[2].t
    IN CASE folded.k \in {"int", "double", "string", "error"} -> folded
         [] l = T("int") /\ r = T("int")       -> Node(k, 0, c, T("int"))
         [] l = T("double") /\ r = T("double") -> Node(k, 0, c, T("double"))
         [] /\ k = "add" /\ l = T("string")
            /\ r = T("string") \/ c[2].k = "null" -> Node(k, 0, c, T("string"))
         [] OTHER -> Error

fix_bit_binary_expression(k, l, r) ==
    CASE l.k = "int" /\ r.k = "int" -> Literal("int", Bits(k, l.v, r.v))
      [] l.k = "boolean" /\ r.k = "boolean" -> Literal("boolean", Bits(k, l.v, r.v))
      [] OTHER -> Require(l.t = r.t /\ l.t \in {T("int"), T("boolean")},
                          Node(k, 0, <<l, r>>, l.t))

Truth(condition) == Literal("boolean", IF condition THEN 1 ELSE 0)

(* eval_compare_expression.  Comparisons of double literals take their     *)
(* operands as ints; two null literals compare as true.                    *)
eval_compare_expression(k, l, r) ==
    CASE l.k = "boolean" /\ r.k = "boolean" ->
           Require(k \in {"eq", "ne"}, Truth(Compare(k, l.v, r.v)))
      [] l.k = "int" /\ r.k = "int" -> Truth(Compare(k, l.v, r.v))
      [] l.k \in Numbers /\ r.k \in Numbers /\ "double" \in {l.k, r.k} ->
           Truth(Compare(k, Truncate(DoubleValue(l)), Truncate(DoubleValue(r))))
      [] l.k = "string" /\ r.k = "string" -> Truth(Compare(k, wcscmp(l.v, r.v), 0))
      [] l.k = "null" /\ r.k = "null" -> Truth(TRUE)
      [] OTHER -> Node(k, 0, <<l, r>>, T("null"))

fix_compare_expression(k, left, right) ==
    LET folded == eval_compare_expression(k, left, right)
        c      == cast_binary_expression(k, left, right)
    IN IF folded.k \in {"boolean", "error"} THEN folded
       ELSE Require(\/ c[1].t = c[2].t
                    \/ IsObject(c[1].t) /\ c[2].k = "null"
                    \/ IsObject(c[2].t) /\ c[1].k = "null",
                    Node(k, 0, c, T("boolean")))

fix_minus_expression(e) ==
    CASE e.k = "int"    -> Literal("int", Wrap(-e.v))
      [] e.k = "double" -> Literal("double", -e.v)
      [] OTHER -> Require(e.t \in {T("int"), T("double")}, Node("minus", 0, <<e>>, e.t))

fix_bit_not_expression(e) ==
    IF e.k = "int" THEN Literal("int", Wrap(-e.v - 1))
    ELSE Require(e.t = T("int"), Node("bit_not", 0, <<e>>, e.t))

fix_logical_not_expression(e) ==
    IF e.k = "boolean" THEN Literal("boolean", 1 - e.v)
    ELSE Require(e.t = T("boolean"), Node("logical_not", 0, <<e>>, e.t))

fix_identifier_expression(name) ==
    CASE name \in DOMAIN Declarations ->
           Node("identifier", name, <<>>, Declarations[name].type)
      [] name \in DOMAIN Functions ->
           Node("function", name, <<>>, [b |-> "function", d |-> 0])
      [] OTHER -> Error

(* The left side may be a variable or a field that is not final, or an     *)
(* element; a constant (const) is an identifier but not a variable.        *)
IsLvalue(l) ==
    CASE l.k = "identifier" -> /\ Declarations[l.v].place # "constant"
                               /\ ~Declarations[l.v].final
      [] l.k = "field"      -> ~Fields[l.v].final
      [] OTHER              -> l.k = "index"

fix_assign_expression(op, l, operand) ==
    LET e == create_assign_cast(operand, l.t)
    IN Require(IsLvalue(l) /\ e # Error, Node("assign", op, <<l, e>>, l.t))

fix_index_expression(array, index) ==
    IF IsArray(array.t)
    THEN Require(index.t = T("int"), Node("index", 0, <<array, index>>, Element(array.t)))
    ELSE Require(array.t = T("string") /\ index.t = T("int"),
                 Node("index", 0, <<array, index>>, T("int")))

fix_inc_dec_expression(k, e) == Require(e.t = T("int"), Node(k, 0, <<e>>, e.t))

fix_array_literal_expression(c) ==
    LET e == [i \in 1..Len(c) |->
                IF i = 1 THEN c[1] ELSE create_assign_cast(c[i], c[1].t)]
    IN Require(Len(c) > 0 /\ \A i \in 1..Len(c) : e[i] # Error,
               Node("array_literal", 0, e, ArrayOf(c[1].t)))

(* v is the element type and the number of dimensions without a size. *)
fix_array_creation_expression(v, c) ==
    Require(\A i \in 1..Len(c) : c[i].t = T("int"),
            Node("array_creation", v, c, [b |-> v[1], d |-> Len(c) + v[2]]))

(* The callee is looked up by name among the functions, whatever its       *)
(* identifier stands for; the arguments are converted to its parameters.   *)
fix_function_call_expression(c) ==
    LET f   == Functions[c[1].v]
        arg == [i \in 1..(Len(c) - 1) |-> create_assign_cast(c[i + 1], f.params[i])]
    IN Require(/\ c[1].k \in {"identifier", "function"}
               /\ c[1].v \in DOMAIN Functions
               /\ Len(c) - 1 = Len(f.params)
               /\ \A i \in 1..(Len(c) - 1) : arg[i] # Error,
               Node("call", 0, <<c[1]>> \o arg, f.type))

fix_member_expression(name, e) ==
    Require(e.t = T("class") /\ name \in DOMAIN Fields,
            Node("field", name, <<e>>, Fields[name].type))

RECURSIVE fix_expression(_)
fix_expression(e) ==
    LET c == [i \in 1..Len(e.c) |-> fix_expression(e.c[i])]
    IN CASE \E i \in 1..Len(c) : c[i] = Error -> Error
         [] e.k \in {"boolean", "int", "double", "string", "null"} ->
              Literal(e.k, e.v)
         [] e.k = "enumerator"    -> Node("enumerator", e.v, <<>>, T("enum"))
         [] e.k = "identifier"    -> fix_identifier_expression(e.v)
         [] e.k = "comma"         -> Node("comma", 0, c, c[2].t)
         [] e.k = "assign"        -> fix_assign_expression(e.v, c[1], c[2])
         [] e.k \in Math          -> fix_math_binary_expression(e.k, c[1], c[2])
         [] e.k \in BitOps        -> fix_bit_binary_expression(e.k, c[1], c[2])
         [] e.k \in Compares      -> fix_compare_expression(e.k, c[1], c[2])
         [] e.k \in Logics        -> Require(c[1].t = T("boolean") /\ c[2].t = T("boolean"),
                                             Node(e.k, 0, c, T("boolean")))
         [] e.k = "minus"         -> fix_minus_expression(c[1])
         [] e.k = "bit_not"       -> fix_bit_not_expression(c[1])
         [] e.k = "logical_not"   -> fix_logical_not_expression(c[1])
         [] e.k = "call"          -> fix_function_call_expression(c)
         [] e.k = "field"         -> fix_member_expression(e.v, c[1])
         [] e.k = "index"         -> fix_index_expression(c[1], c[2])
         [] e.k \in {"increment", "decrement"} -> fix_inc_dec_expression(e.k, c[1])
         [] e.k = "array_literal"  -> fix_array_literal_expression(c)
         [] e.k = "array_creation" -> fix_array_creation_expression(e.v, c)

-----------------------------------------------------------------------------
(* generate.c: the opcode buffer holds code, the label table, the constant *)
(* pool and the type specifiers of the executable.                         *)
EmptyBuf == [code |-> <<>>, label |-> <<>>, pool |-> <<>>, types |-> <<>>]

Put0(ob, base, offset)      == [ob EXCEPT !.code = @ \o Emit(Typed(base, offset), <<>>)]
Put(ob, base, offset, arg)  == [ob EXCEPT !.code = @ \o Emit(Typed(base, offset), <<arg>>)]
PutPool(ob, base, constant) ==                       \* add_constant_pool
    [Put(ob, base, 0, Len(ob.pool)) EXCEPT !.pool = Append(@, constant)]
GetLabel(ob)    == [ob EXCEPT !.label = Append(@, 0)]
SetLabel(ob, n) == [ob EXCEPT !.label[n + 1] = Len(ob.code)]

get_opcode_type_offset(type) ==
    CASE IsArray(type)                       -> 2
      [] type.b \in {"boolean", "int", "enum"} -> 0
      [] type.b = "double"                   -> 1
      [] OTHER                               -> 2

generate_int_expression(ob, value) ==
    CASE value >= 0 /\ value < BYTE        -> Put(ob, "push_int_1byte", 0, value)
      [] value >= BYTE /\ value < BYTE * BYTE -> Put(ob, "push_int_2byte", 0, value)
      [] OTHER                             -> PutPool(ob, "push_int", value)

generate_double_expression(ob, value) ==
    CASE value = Double(0) -> Put0(ob, "push_double_0", 0)
      [] value = Double(1) -> Put0(ob, "push_double_1", 0)
      [] OTHER             -> PutPool(ob, "push_double", value)

Place(name) == Declarations[name].place     \* stack, static or constant
generate_identifier(ob, name) ==
    Put(ob, "push_" \o Place(name) \o "_int",
        get_opcode_type_offset(Declarations[name].type), Declarations[name].index)
generate_pop_to_identifier(ob, name) ==
    Put(ob, "pop_" \o Place(name) \o "_int",
        get_opcode_type_offset(Declarations[name].type), Declarations[name].index)

(* The string comparison is chosen for == and != only; the others reach it *)
(* through the offset of an object, having no instruction for objects.     *)
get_binary_expression_offset(l, r, k) ==
    CASE (l.k = "null") # (r.k = "null")            -> 2
      [] k \in {"eq", "ne"} /\ l.t = T("string")    -> 3
      [] OTHER                                      -> get_opcode_type_offset(l.t)

RECURSIVE generate_expression(_, _), generate_list(_, _), generate_pop_to_lvalue(_, _)
generate_list(ob, es) ==
    IF es = <<>> THEN ob ELSE generate_list(generate_expression(ob, Head(es)), Tail(es))

(* The operands of the left side are evaluated here, after the value. *)
generate_pop_to_lvalue(ob, l) ==
    LET o == generate_list(ob, l.c)
    IN CASE l.k = "identifier" -> generate_pop_to_identifier(ob, l.v)
         [] l.k = "index"      -> Put0(o, "pop_array_int", get_opcode_type_offset(l.t))
         [] l.k = "field"      -> Put(o, "pop_field_int", get_opcode_type_offset(l.t),
                                      Fields[l.v].index)
         [] OTHER              -> ob

(* a = e, or a op= e, which reads a first.  As a statement of its own it   *)
(* leaves no value.                                                        *)
generate_assign_expression(ob, e, toplevel) ==
    LET l   == e.c[1]
        old == IF e.v = "assign" THEN ob ELSE generate_expression(ob, l)
        arg == generate_expression(old, e.c[2])
        new == IF e.v = "assign" THEN arg
               ELSE Put0(arg, e.v \o "_int", get_opcode_type_offset(e.t))
    IN generate_pop_to_lvalue(IF toplevel THEN new ELSE Put0(new, "duplicate", 0), l)

generate_inc_dec_expression(ob, e, toplevel) ==
    LET new == Put0(generate_expression(ob, e.c[1]), e.k, 0)
    IN generate_pop_to_lvalue(IF toplevel THEN new ELSE Put0(new, "duplicate", 0), e.c[1])

(* Faulty variant: && skips the right operand when the left one is true. *)
LogicalSwapped(ob, e) ==
    LET n     == Len(ob.label)
        left  == Put0(generate_expression(GetLabel(ob), e.c[1]), "duplicate", 0)
        jump  == Put(left, IF e.k = "logical_or" THEN "jump_if_false" ELSE "jump_if_true",
                     0, n)
    IN SetLabel(Put0(generate_expression(jump, e.c[2]), e.k, 0), n)

(* The right operand is skipped when the left one decides. *)
generate_logical_expression(ob, e) ==
    LET n     == Len(ob.label)
        left  == Put0(generate_expression(GetLabel(ob), e.c[1]), "duplicate", 0)
        jump  == Put(left, IF e.k = "logical_and" THEN "jump_if_false" ELSE "jump_if_true",
                     0, n)
    IN SetLabel(Put0(generate_expression(jump, e.c[2]), e.k, 0), n)

generate_array_creation_expression(ob, e) ==
    LET o == generate_list([ob EXCEPT !.types = Append(@, e.t)], e.c)
    IN [o EXCEPT !.code = @ \o Emit(Number["new_array"], <<Len(e.c), Len(ob.types)>>)]

(* Both operands of a comma are generated, and both values stay. *)
generate_expression(ob, e) ==
    LET o == generate_list(ob, e.c)
    IN CASE e.k \in {"int", "enumerator"} -> generate_int_expression(ob, e.v)
         [] e.k = "boolean"    -> Put(ob, "push_int_1byte", 0, e.v)
         [] e.k = "double"     -> generate_double_expression(ob, e.v)
         [] e.k = "string"     -> PutPool(ob, "push_string", e.v)
         [] e.k = "null"       -> Put0(ob, "push_null", 0)
         [] e.k = "identifier" -> generate_identifier(ob, e.v)
         [] e.k = "function"   -> Put(ob, "push_function", 0, Functions[e.v].index)
         [] e.k = "comma"      -> o
         [] e.k = "assign"     -> generate_assign_expression(ob, e, FALSE)
         [] e.k \in {"increment", "decrement"} -> generate_inc_dec_expression(ob, e, FALSE)
         [] e.k \in Math \cup Compares ->
              Put0(o, e.k \o "_int", get_binary_expression_offset(e.c[1], e.c[2], e.k))
         [] e.k \in BitOps \cup {"bit_not", "logical_not"} -> Put0(o, e.k, 0)
         [] e.k \in Logics     -> generate_logical_expression(ob, e)
         [] e.k = "minus"      -> Put0(o, "minus_int", get_opcode_type_offset(e.t))
         [] e.k = "cast"       -> IF e.v = "enum_to_string"
                                  THEN Put(o, "cast_enum_to_string", 0, 0)
                                  ELSE Put0(o, "cast_" \o e.v, 0)
         [] e.k = "call"       -> Put0(generate_list(ob, Tail(e.c) \o <<Head(e.c)>>),
                                       "invoke", 0)
         [] e.k = "field"      -> Put(o, "push_field_int", get_opcode_type_offset(e.t),
                                      Fields[e.v].index)
         [] e.k = "index"      -> IF e.c[1].t = T("string")
                                  THEN Put0(o, "push_character_in_string", 0)
                                  ELSE Put0(o, "push_array_int", get_opcode_type_offset(e.t))
         [] e.k = "array_literal"  -> Put(o, "new_array_literal_int",
                                          get_opcode_type_offset(e.c[1].t), Len(e.c))
         [] e.k = "array_creation" -> generate_array_creation_expression(ob, e)

(* Faulty variant: the value of an increment is left on the stack. *)
StatementLeavesValue(e) ==
    CASE e.k = "assign" -> generate_assign_expression(EmptyBuf, e, TRUE)
      [] e.k \in {"increment", "decrement"} -> generate_inc_dec_expression(EmptyBuf, e, FALSE)
      [] OTHER -> Put0(generate_expression(EmptyBuf, e), "pop", 0)

generate_expression_statement(e) ==
    CASE e.k = "assign" -> generate_assign_expression(EmptyBuf, e, TRUE)
      [] e.k \in {"increment", "decrement"} -> generate_inc_dec_expression(EmptyBuf, e, TRUE)
      [] OTHER -> Put0(generate_expression(EmptyBuf, e), "pop", 0)

(* The finished code block (copy_opcode_buf): labels become addresses. *)
CodeBlock(ob) ==
    LET address == [n \in 0..(Len(ob.label) - 1) |-> ob.label[n + 1]]
    IN [code |-> fix_labels(ob.code, address), pool |-> ob.pool, types |-> ob.types,
        need_stack_size |-> calc_need_stack_size(ob.code)]
=============================================================================
