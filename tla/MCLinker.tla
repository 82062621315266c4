------------------------------ MODULE MCLinker ------------------------------
(* The programs that Linker is checked with: a main program, the default   *)
(* package with a native function, and two packages that may require each  *)
(* other's headers.                                                        *)
EXTENDS Linker

Def(class, name, body) == [class |-> class, name |-> name, body |-> body]

NativeFunctions == <<[package |-> "lang", class |-> NoName, name |-> "print"]>>

(* The functions of every unit.  P.e is defined in the implementation, P.f *)
(* in one of the files or in both; the function of Q may share its name;   *)
(* P also has a class with a method and an abstract one.                   *)
FunctionsOf(inHeader, inFile, g) ==
    [u \in Unit |->
        CASE u = Header("lang") -> <<Def(NoName, "print", FALSE), Def(NoName, "println", TRUE)>>
          [] u = Header("P") -> <<Def("C", "m", TRUE), Def("C", "a", FALSE),
                                  Def(NoName, "e", FALSE), Def(NoName, "f", inHeader)>>
          [] u = Implementation("P") ->
                IF inFile THEN <<Def(NoName, "f", TRUE), Def(NoName, "e", TRUE)>>
                ELSE <<Def(NoName, "e", TRUE)>>
          [] u = Header("Q") -> <<Def(NoName, g, FALSE)>>
          [] u = Implementation("Q") -> <<Def(NoName, g, TRUE)>>
          [] OTHER -> <<>>]

Const(name, reads) == [name |-> name, reads |-> reads]

(* An initializer reads a constant defined before it in the same source,   *)
(* or, as the last of its source, one of another package.                  *)
ConstantsOf(requires) ==
    [u \in Unit |->
        CASE u = Header("P") -> <<Const("c", <<>>)>>
          [] u = Header("Q") -> <<Const("c", <<>>), Const("d", <<"c">>)>>
          [] u = Implementation("P") ->
                <<Const("k", IF requires[u] = <<>> THEN <<>> ELSE <<"d", "c">>)>>
          [] u = MainUnit -> <<Const("m", <<"c">>)>>
          [] OTHER -> <<>>]

RequiresOf(main, ph, qh, pf, qf) ==
    [u \in Unit |->
        CASE u = MainUnit -> main
          [] u = Header("P") -> ph [] u = Implementation("P") -> pf
          [] u = Header("Q") -> qh [] u = Implementation("Q") -> qf
          [] OTHER -> <<>>]

(* Headers do not require each other in a circle.                          *)
Requirements ==
    {RequiresOf(main, headers[1], headers[2], pf, qf) :
        main \in {<<"P">>, <<"Q", "P">>, <<"lang", "P">>},
        headers \in {<<<<>>, <<>>>>, <<<<"Q">>, <<>>>>, <<<<>>, <<"P">>>>},
        pf \in {<<>>, <<"P", "Q">>}, qf \in {<<"Q">>, <<"P", "Q">>}}

(* Each unit uses every name it can see: a unit without constants of its   *)
(* own already in its methods.                                             *)
SeenIn(requires, defined, u) ==
    SetToSeq(defined[u] \cup
        UNION {defined[Header(p)] : p \in Range(requires[u]) \cup
                   (IF u.package = DefaultPackage THEN {} ELSE {DefaultPackage})})

UsesOf(requires, defined, isEarly(_)) ==
    [u \in Unit |->
        LET seen == SeenIn(requires, defined, u)
        IN  [early |-> IF isEarly(u) THEN seen ELSE <<>>,
             late |-> IF isEarly(u) THEN <<>> ELSE seen]]

FunctionNames(fs) ==
    [u \in Unit |-> {fs[u][i].name : i \in {j \in DOMAIN fs[u] : fs[u][j].class = NoName}}]
ConstantNames(cs) == [u \in Unit |-> {cs[u][i].name : i \in DOMAIN cs[u]}]

Program(requires, fs, files) ==
    LET cs == ConstantsOf(requires)
    IN  [requires |-> requires, functions |-> fs, files |-> files, constants |-> cs,
         calls |-> UsesOf(requires, FunctionNames(fs),
                          LAMBDA u : u = Implementation("Q")),
         reads |-> UsesOf(requires, ConstantNames(cs), LAMBDA u : cs[u] = <<>>)]

AllFiles == Unit \ {Implementation("lang")}

(* The implementation of Q calls a function it may not see, or a constant  *)
(* of the program reads one; a header requires itself.                     *)
ErroneousPrograms ==
    {[Program(r, FunctionsOf(TRUE, FALSE, "g"), AllFiles)
        EXCEPT !.calls[Implementation("Q")].late = <<"f">>] : r \in Requirements}
    \cup
    {[Program(r, FunctionsOf(TRUE, FALSE, "g"), AllFiles)
        EXCEPT !.constants[MainUnit][1].reads = <<"k">>] : r \in Requirements}
    \cup
    {Program(RequiresOf(<<"P">>, <<"P">>, <<>>, <<"P">>, <<"Q">>),
             FunctionsOf(TRUE, FALSE, "g"), AllFiles)}

PlainPrograms ==
    {Program(r, FunctionsOf(b[1], b[2], g), AllFiles) :
        r \in Requirements, g \in {"f", "g"},
        b \in {<<TRUE, FALSE>>, <<FALSE, TRUE>>, <<TRUE, TRUE>>}}
    \cup
    {Program(r, FunctionsOf(FALSE, TRUE, "g"), AllFiles \ {missing}) :
        r \in Requirements, missing \in {Implementation("Q"), Header("Q")}}
    \cup ErroneousPrograms

(* A class whose method has the name of a function of the package.         *)
MethodPrograms ==
    {Program(RequiresOf(<<"P">>, <<>>, <<>>, <<"P">>, <<"Q">>),
             [FunctionsOf(TRUE, FALSE, "g") EXCEPT
                 ![Header("P")] = <<Def(NoName, "e", FALSE), Def(NoName, "f", TRUE),
                                    Def("C", method, TRUE)>>], AllFiles) :
        method \in {"m", "f"}}
=============================================================================
