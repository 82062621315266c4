------------------------------- MODULE Linker -------------------------------
(***************************************************************************)
(* How a program of several source files is put together: do_compile       *)
(* follows the require lists and keeps the executables in a list           *)
(* (interface.c), DVM_set_executable merges their functions and constants  *)
(* into the tables of the machine and runs the constant initializers       *)
(* (load.c), and a call to a function without a body compiles and links    *)
(* the implementation of its package (dvm_dynamic_load).                   *)
(*                                                                         *)
(* A unit is one source file: the header (.dkh) or the implementation      *)
(* (.dkm) of a package, or the main program, whose package name is NULL.   *)
(* A function, a method and a constant of a unit are known by a            *)
(* qualified name.  Everything in an executable depends on its unit only.  *)
(***************************************************************************)
EXTENDS Naturals, FiniteSets, SequencesExt

CONSTANTS
    Package,          \* the packages that can be required
    DefaultPackage,   \* diksam.lang, which every other unit requires
    Main,             \* stands for the package name NULL of the main program
    Identifier,       \* the names of functions, classes and constants
    NoName,           \* the empty string: the class of what is no method
    Natives,          \* qualified names of the native functions
    Programs,         \* the programs: files, require lists, functions, uses
    MaxDepth          \* bound on the nesting of calls

ASSUME PackageAssumption == DefaultPackage \in Package /\ Main \notin Package
ASSUME NameAssumption == NoName \notin Identifier
ASSUME DepthAssumption == MaxDepth \in Nat \ {0}

NoUnit == [package |-> Main, required |-> TRUE]
MainUnit == [package |-> Main, required |-> FALSE]
Header(p) == [package |-> p, required |-> TRUE]
Implementation(p) == [package |-> p, required |-> FALSE]
Unit == {MainUnit} \cup {Header(p) : p \in Package}
                   \cup {Implementation(p) : p \in Package}

QualifiedName == [package : Package \cup {Main}, class : Identifier \cup {NoName},
                  name : Identifier \cup {NoName}]
Declaration == [class : Identifier \cup {NoName}, name : Identifier, body : BOOLEAN]
Definition == [name : Identifier, reads : Seq(Identifier)]
Uses == [early : Seq(Identifier), late : Seq(Identifier)]

(* What the parser makes of each source file: the packages it requires,    *)
(* what it declares, with the constants that each constant initializer     *)
(* reads, and the names it uses before (early) and after its own are met.  *)
(* Constants are those with an initializer.                                *)
ASSUME ProgramAssumption ==
    /\ Natives \in Seq(QualifiedName)
    /\ Programs \subseteq
         [requires : [Unit -> Seq(Package)], functions : [Unit -> Seq(Declaration)],
          constants : [Unit -> Seq(Definition)], calls : [Unit -> Uses],
          reads : [Unit -> Uses], files : SUBSET Unit]

VARIABLES
    source,       \* the program, chosen once
    phase,        \* "compile", "link", "run" or "error"
    compiling,    \* activations of do_compile, innermost first
    known,        \* st_compiler_list: packages whose header has a compiler
    list,         \* the executable list, in order
    linking,      \* position in list of the next executable to link
    entries,      \* dvm->executable_entry, in order
    functions,    \* dvm->function
    constants,    \* dvm->constant
    visiting,     \* compilers still to visit in DKC_dispose_compiler
    running,      \* activations of functions, innermost first
    pending,      \* the function that waits for a dynamic load, or 0
    error         \* why the program has ended

vars == <<source, phase, compiling, known, list, linking, entries, functions,
          constants, visiting, running, pending, error>>

Qualified(u, d) == [package |-> u.package, class |-> d.class, name |-> d.name]
TopLevel == [package |-> Main, class |-> NoName, name |-> NoName]
NoValue == TopLevel
-----------------------------------------------------------------------------
(* Compilation of one unit.                                                *)

(* dkc_chain_require_list compares the new package with all but the last   *)
(* of those before it.                                                     *)
RequiresTwice(reqs) ==
    \E j \in DOMAIN reqs : \E i \in 1..(j - 1) : i + 1 < j /\ reqs[i] = reqs[j]

(* Faulty variant: the default package requires itself.                    *)
RequireListAlways(u) ==
    LET reqs == source.requires[u]
    IN  IF DefaultPackage \in Range(reqs) THEN reqs ELSE <<DefaultPackage>> \o reqs

(* The compiler's list of required packages, the default one first.        *)
RequireList(u) ==
    LET reqs == source.requires[u]
    IN  IF u.package = DefaultPackage \/ DefaultPackage \in Range(reqs)
        THEN reqs ELSE <<DefaultPackage>> \o reqs

RequireError(u) ==
    \/ u.required /\ u.package \in Range(source.requires[u])
    \/ RequiresTwice(source.requires[u])

(* The names that u defines for others: functions that are not methods,    *)
(* and constants.                                                          *)
Functions(u) == {source.functions[u][i].name :
                    i \in {j \in DOMAIN source.functions[u] :
                              source.functions[u][j].class = NoName}}
Constants(u) == {source.constants[u][i].name : i \in DOMAIN source.constants[u]}

(* The package that a name used in u belongs to: its own, or the first one *)
(* in the require list whose header has the name.  dkc_search_constant is  *)
(* declared and used but not part of the repository; it is taken to search *)
(* like dkc_search_function.                                               *)
SearchFunction(u, name) ==
    IF name \in Functions(u) THEN u.package
    ELSE RequireList(u)[SelectInSeq(RequireList(u),
                                    LAMBDA p : name \in Functions(Header(p)))]
SearchConstant(u, name) ==
    IF name \in Constants(u) THEN u.package
    ELSE RequireList(u)[SelectInSeq(RequireList(u),
                                    LAMBDA p : name \in Constants(Header(p)))]

(* A name that no search finds is a compile error.                         *)
Visible(u) == {u} \cup {Header(p) : p \in Range(RequireList(u))}
IdentifierNotFound(u) ==
    \/ \E name \in Range(source.calls[u].early \o source.calls[u].late) :
            \A v \in Visible(u) : name \notin Functions(v)
    \/ \E name \in Range(source.reads[u].early \o source.reads[u].late) :
            \A v \in Visible(u) : name \notin Constants(v)
    \/ \E i \in DOMAIN source.constants[u] : \E name \in Range(source.constants[u][i].reads) :
            \A v \in Visible(u) : name \notin Constants(v)

(* The elements of a sequence at some of its positions, in order.          *)
Only(seq, positions) ==
    LET kept[i \in 0..Len(seq)] ==
            IF i = 0 THEN <<>>
            ELSE IF i \in positions THEN Append(kept[i - 1], seq[i]) ELSE kept[i - 1]
    IN  kept[Len(seq)]

(* reserve_function_index, called for one function after the other: it     *)
(* looks for the bare name, also when the function is a method, which is   *)
(* entered under the name of its class.                                    *)
Known(functs, i) ==
    \E j \in 1..(i - 1) : /\ functs[j].class = NoName
                          /\ functs[j].package = functs[i].package
                          /\ functs[j].name = functs[i].name
Reserve(functs) ==
    [k \in DOMAIN functs |->
        [package |-> functs[k].package, class |-> functs[k].class,
         name |-> functs[k].name]]
ReserveFunctionIndex(functs) ==
    Reserve(Only(functs, {i \in DOMAIN functs :
                            /\ functs[i].class = NoName \/ functs[i].body
                            /\ ~Known(functs, i)}))

Used(u, names) ==
    [i \in DOMAIN names |-> [package |-> SearchFunction(u, names[i]),
                             class |-> NoName, name |-> names[i], body |-> TRUE]]
Own(u) ==
    [i \in DOMAIN source.functions[u] |->
        [package |-> u.package, class |-> source.functions[u][i].class,
         name |-> source.functions[u][i].name, body |-> source.functions[u][i].body]]

(* The functions of the executable of u, in the order dkc_fix_tree meets   *)
(* them: those its methods call, its own, those its functions and top      *)
(* level call.                                                             *)
FunctionTable(u) ==
    ReserveFunctionIndex(Used(u, source.calls[u].early) \o Own(u)
                             \o Used(u, source.calls[u].late))

(* add_functions (generate.c) looks its own functions up again.            *)
FunctionMissing(u) ==
    \E i \in DOMAIN source.functions[u] :
        LET d == source.functions[u][i]
        IN  /\ d.class = NoName \/ d.body
            /\ Qualified(u, d) \notin Range(FunctionTable(u))

Implements(u, q) ==
    \E i \in DOMAIN source.functions[u] :
        source.functions[u][i].body /\ Qualified(u, source.functions[u][i]) = q

(* The constants of the executable of u, likewise.                         *)
ReserveConstantIndex(table, q) == IF q \in Range(table) THEN table ELSE Append(table, q)
ReserveAll(table, names) ==
    LET reserved[i \in 0..Len(names)] ==
            IF i = 0 THEN table ELSE ReserveConstantIndex(reserved[i - 1], names[i])
    IN  reserved[Len(names)]

ConstantsUsed(u, names) ==
    [i \in DOMAIN names |-> [package |-> SearchConstant(u, names[i]),
                             class |-> NoName, name |-> names[i]]]
OwnConstants(u) ==
    [i \in DOMAIN source.constants[u] |->
        [package |-> u.package, class |-> NoName, name |-> source.constants[u][i].name]]

(* fix_constant_list, after the methods: each constant is entered before   *)
(* those its initializer reads.  The table after the i-th.                 *)
FixConstantList(u) ==
    LET fixed[i \in 0..Len(source.constants[u])] ==
            IF i = 0 THEN ReserveAll(<<>>, ConstantsUsed(u, source.reads[u].early))
            ELSE ReserveAll(ReserveConstantIndex(fixed[i - 1], OwnConstants(u)[i]),
                            ConstantsUsed(u, source.constants[u][i].reads))
    IN  fixed
ConstantTable(u) ==
    ReserveAll(FixConstantList(u)[Len(source.constants[u])],
               ConstantsUsed(u, source.reads[u].late))
(* Its constants that are marked as defined: those that a method or an     *)
(* earlier initializer read before keep the mark of a mere use.            *)
IsDefined(u, q) ==
    \E i \in DOMAIN OwnConstants(u) :
        q = OwnConstants(u)[i] /\ q \notin Range(FixConstantList(u)[i - 1])
-----------------------------------------------------------------------------
(* Linking of one executable.                                              *)

Index(table, q) == SelectInSeq(table, LAMBDA e : e.name = q)

(* Faulty variant: functions are not checked.                              *)
MultipleDefineOfConstant(u) ==
    \E k \in DOMAIN constants :
        constants[k].defined /\ IsDefined(u, constants[k].name)

MultipleDefine(u) ==
    \/ \E k \in DOMAIN functions :
            functions[k].implemented /\ Implements(u, functions[k].name)
    \/ \E k \in DOMAIN constants :
            constants[k].defined /\ IsDefined(u, constants[k].name)

(* Names of an executable's table that the machine does not know yet.      *)
Missing(table, names) ==
    Only(names, {i \in DOMAIN names : Index(table, names[i]) = 0})

(* Faulty variants: the mark is always, or never, set.                     *)
NewFunctionMarked(u, q) ==
    [name |-> q, implemented |-> TRUE,
     unit |-> IF Implements(u, q) THEN u ELSE NoUnit]
NewFunctionUnmarked(u, q) ==
    [name |-> q, implemented |-> FALSE,
     unit |-> IF Implements(u, q) THEN u ELSE NoUnit]

NewFunction(u, q) ==
    [name |-> q, implemented |-> Implements(u, q),
     unit |-> IF Implements(u, q) THEN u ELSE NoUnit]

(* Faulty variant: a function that is known is left alone.                 *)
AddFunctionsNewOnly(u) ==
    LET new == Missing(functions, FunctionTable(u))
    IN  functions \o [i \in DOMAIN new |-> NewFunction(u, new[i])]

(* A function that is known gets its executable, but keeps its mark.       *)
AddFunctions(u) ==
    LET new == Missing(functions, FunctionTable(u))
    IN  [k \in DOMAIN functions |->
            IF Implements(u, functions[k].name)
            THEN [functions[k] EXCEPT !.unit = u] ELSE functions[k]]
        \o [i \in DOMAIN new |-> NewFunction(u, new[i])]

AddConstants(u) ==
    LET new == Missing(constants, ConstantTable(u))
    IN  constants \o [i \in DOMAIN new |->
            [name |-> new[i], defined |-> IsDefined(u, new[i]), value |-> NoValue]]

(* Faulty variant: the index of the executable is taken for one of the     *)
(* machine.                                                                *)
InitializeConstantsUntranslated(table, u) ==
    [k \in DOMAIN table |->
        IF k \in DOMAIN OwnConstants(u)
        THEN [table[k] EXCEPT !.value = OwnConstants(u)[k]] ELSE table[k]]

(* constant_initializer: the i-th definition is stored through the i-th    *)
(* index of the executable.                                                *)
InitializeConstants(table, u) ==
    [k \in DOMAIN table |->
        LET stored == {i \in DOMAIN OwnConstants(u) :
                          table[k].name = ConstantTable(u)[i]}
        IN  IF stored = {} THEN table[k]
            ELSE [table[k] EXCEPT !.value = OwnConstants(u)[CHOOSE i \in stored : TRUE]]]
-----------------------------------------------------------------------------
(* The state has its types; in particular the code of every activation     *)
(* comes from an executable, never from a function without one.            *)
TypeOK ==
    /\ phase \in {"compile", "link", "run", "error"}
    /\ compiling \in Seq([unit : Unit, next : Nat])
    /\ known \in Seq(Package)
    /\ list \in Seq(Unit) /\ entries \in Seq(Unit)
    /\ linking \in Nat
    /\ \A k \in DOMAIN functions :
            /\ functions[k].implemented \in BOOLEAN
            /\ functions[k].unit \in Unit \cup {NoUnit}
    /\ \A k \in DOMAIN constants : constants[k].defined \in BOOLEAN
    /\ visiting \in Seq(Unit)
    /\ \A i \in DOMAIN running : running[i].unit \in Unit
    /\ pending \in 0..Len(functions)

(* DVM_create_virtual_machine with its native functions, then DKC_compile  *)
(* of the main program.                                                    *)
Init ==
    /\ source \in Programs
    /\ phase = "compile"
    /\ compiling = <<[unit |-> MainUnit, next |-> 0]>>
    /\ known = <<>> /\ list = <<>> /\ linking = 1
    /\ entries = <<>> /\ constants = <<>>
    /\ functions = [k \in DOMAIN Natives |->
                       [name |-> Natives[k], implemented |-> TRUE, unit |-> NoUnit]]
    /\ visiting = <<>> /\ running = <<>> /\ pending = 0 /\ error = "none"

Fail(reason) ==
    /\ phase' = "error" /\ error' = reason
    /\ UNCHANGED <<source, compiling, known, list, linking, entries,
                   functions, constants, visiting, running, pending>>

Compiler == Head(compiling)

(* yyparse of the unit: the require list is built and checked.             *)
Parse ==
    /\ phase = "compile" /\ Compiler.next = 0
    /\ IF RequireError(Compiler.unit) THEN Fail("require")
       ELSE /\ compiling' = <<[Compiler EXCEPT !.next = 1]>> \o Tail(compiling)
            /\ UNCHANGED <<source, phase, known, list, linking, entries,
                           functions, constants, visiting, running, pending, error>>

(* The loop of do_compile: a header that has no compiler yet is compiled.  *)
Required(c) == RequireList(c.unit)[c.next]

Require ==
    /\ phase = "compile" /\ Compiler.next \in DOMAIN RequireList(Compiler.unit)
    /\ LET p == Required(Compiler)
           rest == <<[Compiler EXCEPT !.next = @ + 1]>> \o Tail(compiling)
       IN  \/ /\ p \in Range(known)
              /\ compiling' = rest
              /\ UNCHANGED <<source, phase, known, list, linking, entries,
                             functions, constants, visiting, running, pending, error>>
           \/ /\ p \notin Range(known) /\ Header(p) \in source.files
              /\ known' = Append(known, p)
              /\ compiling' = <<[unit |-> Header(p), next |-> 0]>> \o rest
              /\ UNCHANGED <<source, phase, list, linking, entries,
                             functions, constants, visiting, running, pending, error>>
           \/ /\ p \notin Range(known) /\ Header(p) \notin source.files
              /\ Fail("require")

(* Faulty variant: the executable is put in front.                         *)
AddToListFirst(u) == IF u \in Range(list) THEN list ELSE <<u>> \o list

(* add_exe_to_list: an executable that is already there is disposed of.    *)
AddToList(u) == IF u \in Range(list) THEN list ELSE Append(list, u)

(* The rest of do_compile: dkc_fix_tree, dkc_generate and add_exe_to_list. *)
(* After the outermost one the executables that were added are linked.     *)
ReadyToGenerate ==
    phase = "compile" /\ Compiler.next = Len(RequireList(Compiler.unit)) + 1

(* fix_constant_list takes the type of a constant from its initializer     *)
(* before that is fixed; it is NULL, and create_assign_cast reads through  *)
(* it.  What follows is undefined: here the compiler dies or goes on.      *)
NullType ==
    /\ ReadyToGenerate /\ source.constants[Compiler.unit] # <<>>
    /\ Fail("null type")

Generate ==
    /\ ReadyToGenerate
    /\ IF IdentifierNotFound(Compiler.unit) THEN Fail("identifier")
       ELSE IF FunctionMissing(Compiler.unit) THEN Fail("assertion")
       ELSE /\ list' = AddToList(Compiler.unit)
            /\ compiling' = Tail(compiling)
            /\ IF Len(compiling) > 1 THEN UNCHANGED <<phase, known, visiting>>
               ELSE /\ phase' = "link" /\ known' = <<>>
                    /\ visiting' = IF pending = 0 THEN <<>> ELSE <<Compiler.unit>>
            /\ UNCHANGED <<source, linking, entries, functions, constants,
                           running, pending, error>>

(* add_executable_to_dvm and initialize_constant.                          *)
ReadyToLink == phase = "link" /\ linking \in DOMAIN list

Link ==
    /\ ReadyToLink
    /\ LET u == list[linking]
       IN  IF MultipleDefine(u) THEN Fail("multiple")
           ELSE /\ entries' = Append(entries, u)
                /\ functions' = AddFunctions(u)
                /\ constants' = InitializeConstants(AddConstants(u), u)
                /\ linking' = linking + 1
                /\ UNCHANGED <<source, phase, compiling, known, list, visiting,
                               running, pending, error>>

(* traversal_compiler: the compilers a compiler requires, one by one.      *)
Visit ==
    LET required == [i \in DOMAIN RequireList(Head(visiting)) |->
                        Header(RequireList(Head(visiting))[i])]
    IN  visiting' = required \o Tail(visiting)

Dispose ==
    /\ phase = "link" /\ linking \notin DOMAIN list /\ visiting # <<>>
    /\ Visit
    /\ UNCHANGED <<source, phase, compiling, known, list, linking, entries,
                   functions, constants, running, pending, error>>

(* The code of function k starts; it comes from the executable that the    *)
(* machine remembers for it.                                               *)
Activation(k, called) == [unit |-> functions[k].unit, called |-> called, index |-> k]

(* After linking, the machine runs the main program, or the function that  *)
(* was waiting.                                                            *)
Start ==
    /\ phase = "link" /\ linking \notin DOMAIN list /\ visiting = <<>>
    /\ phase' = "run" /\ pending' = 0
    /\ running' = IF pending = 0
                  THEN <<[unit |-> MainUnit, called |-> TopLevel, index |-> 0]>>
                  ELSE <<Activation(pending, functions[pending].name)>> \o running
    /\ UNCHANGED <<source, compiling, known, list, linking, entries,
                   functions, constants, visiting, error>>

(* Faulty variant: the first one that was added is passed over.            *)
AddTopPassed == Len(list) + 2

(* add_top of dkc_dynamic_compile: what comes after the present tail.      *)
AddTop == Len(list) + 1

(* A call of the i-th function of the running executable.  One that is not *)
(* marked as implemented is loaded first, every time.                      *)
Load(k) ==
    LET p == functions[k].name.package
    IN  IF p = Main \/ Implementation(p) \notin source.files
        THEN /\ phase' = "error" /\ error' = "load" /\ pending' = k
             /\ UNCHANGED <<source, compiling, known, list, linking, entries,
                            functions, constants, visiting, running>>
        ELSE /\ phase' = "compile" /\ pending' = k
             /\ compiling' = <<[unit |-> Implementation(p), next |-> 0]>>
             /\ linking' = AddTop
             /\ UNCHANGED <<source, known, list, entries, functions, constants,
                            visiting, running, error>>

Callee(u, i) == Index(functions, FunctionTable(u)[i])

Call(i) ==
    LET k == Callee(Head(running).unit, i)
    IN  /\ phase = "run" /\ Len(running) < MaxDepth
        /\ functions[k].name \notin Range(Natives)
        /\ IF functions[k].implemented
           THEN /\ running' = <<Activation(k, FunctionTable(Head(running).unit)[i])>>
                                  \o running
                /\ UNCHANGED <<source, phase, compiling, known, list, linking,
                               entries, functions, constants, visiting, pending, error>>
           ELSE Load(k)

Return ==
    /\ phase = "run" /\ Len(running) > 1
    /\ running' = Tail(running)
    /\ UNCHANGED <<source, phase, compiling, known, list, linking, entries,
                   functions, constants, visiting, pending, error>>

Loading == Parse \/ Require \/ Generate \/ NullType \/ Link \/ Dispose \/ Start

Next ==
    \/ Loading
    \/ running # <<>> /\ \E i \in DOMAIN FunctionTable(Head(running).unit) : Call(i)
    \/ Return

(* Compiling and linking are the rest of one C call: weak fairness of each *)
(* step.  For the two that compute tables the condition that enables them  *)
(* is written out, which TLC evaluates much faster than ENABLED.           *)
LoadingGoesOn ==
    /\ WF_vars(Parse \/ Require \/ Dispose \/ Start)
    /\ []<>~ReadyToGenerate \/ []<><<Generate>>_vars
    /\ []<>~ReadyToLink \/ []<><<Link>>_vars

Spec == Init /\ [][Next]_vars /\ LoadingGoesOn
-----------------------------------------------------------------------------
(* Every executable that the compiler kept is linked exactly once, in the  *)
(* order of the list: convert_code must not shift the same code twice, and *)
(* add_top of dkc_dynamic_compile must neither repeat nor skip any.        *)
LinkedInOrder ==
    IsPrefix(entries, list) /\ (phase = "run" => entries = list)

(* A header is linked before everything that requires it: its constants    *)
(* have their values, and its methods can be found, when a unit that uses  *)
(* them is added.                                                          *)
SuppliersFirst ==
    \A i \in DOMAIN entries : \A p \in Range(RequireList(entries[i])) :
        \E j \in 1..(i - 1) : entries[j] = Header(p)

(* The code that runs for a function is a definition of that function, in  *)
(* an executable that is linked, whichever unit called it and whether the  *)
(* call, an earlier call or the start of the program loaded it.            *)
RunsDefinition ==
    \A i \in DOMAIN running :
        \/ running[i].called = TopLevel /\ running[i].unit = MainUnit
        \/ /\ running[i].unit \in Range(entries)
           /\ Implements(running[i].unit, running[i].called)

(* Two definitions of one function never both get linked: the check of     *)
(* add_functions finds the second, even though a function that was only    *)
(* declared keeps its mark when it is implemented.                         *)
OneDefinition ==
    \A k \in DOMAIN functions :
        /\ Cardinality({u \in Range(entries) : Implements(u, functions[k].name)}) <= 1
        /\ functions[k].name \in Range(Natives) =>
              \A u \in Range(entries) : ~Implements(u, functions[k].name)

(* A dynamic load fails for want of a file only if no executable that is   *)
(* linked has the function.                                                *)
LoadFailsJustly ==
    error = "load" =>
        \A u \in Range(entries) : ~Implements(u, functions[pending].name)

(* When code runs, every constant it can name has been initialized, with   *)
(* its own value and not that of another.                                  *)
ConstantsReady ==
    phase = "run" =>
        \A u \in Range(entries) : \A q \in Range(ConstantTable(u)) :
            \E k \in DOMAIN constants :
                constants[k].name = q /\ constants[k].value = q

(* Compiling, linking and disposing of the compilers end, whatever the     *)
(* packages require, as long as headers do not require each other.         *)
LoadEnds == phase # "run" ~> phase \in {"run", "error"}

(* The assertion of search_function in generate.c: every function of a     *)
(* unit has an entry in its table.                                         *)
FunctionsFound == error # "assertion"
=============================================================================
