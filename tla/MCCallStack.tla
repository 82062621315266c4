---------------------------- MODULE MCCallStack ----------------------------
(* Programs for CallStack: two statements at the top level and one in the  *)
(* function f, each any of the calls below.                                *)
EXTENDS CallStack

MCArrays    == <<<<4>>, <<>>>>
MCDelegates == <<[object |-> 0, function |-> 1], [object |-> 0, function |-> 3],
                 [object |-> 7, function |-> 2], [object |-> 0, function |-> 4]>>

Diksam(method, parameters, locals, type, code) ==
    [kind |-> "diksam", method |-> method, parameters |-> parameters, locals |-> locals,
     type |-> type, proc |-> "", return_pointer |-> FALSE, code |-> code]
Native(proc, method, parameters, type) ==
    [kind |-> "native", method |-> method, parameters |-> parameters, locals |-> <<>>,
     type |-> type, proc |-> proc, return_pointer |-> FALSE, code |-> <<>>]
Do(op, n) == <<[op |-> op, n |-> n]>>

(* 1 is f(int, array), 2 a method m(int), 3 leaf(int), 4 deep(int).        *)
Invoke(f) == Do("function", f) \o Do("invoke", 0)
ArrayCall(f, arguments, a) == arguments \o Do("array", a) \o Invoke(f) \o Do("pop", 0)

ArrayCalls(resizes) ==
    {ArrayCall(6, Do("int", n), a) : n \in resizes, a \in {1, 2}}
    \cup {ArrayCall(7, Do("int", n) \o Do("int", 8), 1) : n \in {0, 1, 3}}
    \cup {ArrayCall(8, Do("int", n), 1) : n \in {0, 1}}
    \cup {ArrayCall(9, Do("int", 9), a) : a \in {1, 2}}

Calls ==
    {Do("int", 3) \o Do("delegate", 2) \o Do("invoke", 0) \o Do("pop", 0),
     Do("int", 3) \o Do("delegate", 3) \o Do("invoke", 0) \o Do("pop", 0),
     Do("int", 5) \o Invoke(4) \o Do("pop", 0),
     Do("delegate", 2) \o Invoke(10) \o Do("pop", 0),
     Do("delegate", 3) \o Invoke(10) \o Do("pop", 0),
     Do("delegate", 4) \o Invoke(10) \o Do("pop", 0)}
CallsOfF ==
    {Do("int", 2) \o Do("array", 1) \o Invoke(1) \o Do("pop", 0),
     Do("array", 2) \o Invoke(5) \o Do("array", 2) \o Do("delegate", 1) \o Do("invoke", 0) \o Do("pop", 0)}

Functions(top, ofF) ==
    (0 :> Diksam(FALSE, <<>>, <<>>, "int", top))
    @@ (1 :> Diksam(FALSE, <<"int", "array">>, <<"array", "int">>, "array",
                    Do("load", 1) \o Do("store", 2) \o ofF \o Do("load", 0) \o Do("store", 3)
                        \o Do("load", 2) \o Do("return", 0)))
    @@ (2 :> Diksam(TRUE, <<"int">>, <<"int">>, "object",
                    Do("load", 0) \o Do("delegate", 2) \o Invoke(10) \o Do("pop", 0)
                        \o Do("store", 2) \o Do("load", 1) \o Do("return", 0)))
    @@ (3 :> Diksam(FALSE, <<"int">>, <<"array", "int", "int", "int">>, "int",
                    Do("array", 1) \o Do("store", 1) \o Do("load", 0) \o Do("return", 0)))
    @@ (4 :> Diksam(FALSE, <<"int">>, <<"int", "int", "int">>, "int",
                    Do("load", 0) \o Do("store", 3) \o Do("load", 3) \o Do("delegate", 3) \o Do("invoke", 0)
                        \o Do("pop", 0) \o Do("load", 0) \o Invoke(3)
                        \o Do("return", 0)))
    @@ (5 :> Native("size", TRUE, <<>>, "int"))
    @@ (6 :> Native("resize", TRUE, <<"int">>, "int"))
    @@ (7 :> Native("insert", TRUE, <<"int", "int">>, "int"))
    @@ (8 :> Native("remove", TRUE, <<"int">>, "int"))
    @@ (9 :> Native("add", TRUE, <<"int">>, "int"))
    @@ (10 :> Native("test_native", FALSE, <<"delegate">>, "int"))

Of(resizes) ==
    LET leaf == Calls \cup ArrayCalls(resizes)
    IN  {Functions(one \o two, ofF) : one, two \in leaf \cup CallsOfF, ofF \in leaf}

(* New sizes a block of at most three cells grows to.                      *)
MCPrograms == Of({0, 1, 3})
(* 6 is twice the cells of a block that is larger than ARRAY_ALLOC_SIZE.   *)
MCGrowPrograms ==
    {Functions(ArrayCall(6, Do("int", first), 1) \o ArrayCall(6, Do("int", second), 1), <<>>) :
        first, second \in 0..8}
=============================================================================
