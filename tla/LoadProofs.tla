----------------------------- MODULE LoadProofs -----------------------------
(***************************************************************************)
(* Theorems about what Linker merges and loads: the functions and the      *)
(* constants of the machine, and the code that runs.                       *)
(***************************************************************************)
EXTENDS LinkerProofs

-----------------------------------------------------------------------------
(* What each unit holds: its table of functions, the functions it enters   *)
(* under its own package, and those of them it has a body of.              *)
Tables == [u \in Unit |-> FunctionTable(u)]
Declared == [u \in Unit |-> {q \in QualifiedName : Declares(u, q)}]
Defines == [u \in Unit |-> {q \in QualifiedName : Implements(u, q)}]

(* The units that compile.                                                 *)
Sound == {u \in Unit : ~IdentifierNotFound(u) /\ ~FunctionMissing(u)}

LEMMA QualifiedType ==
    ASSUME source \in Programs, NEW u \in Unit, NEW i \in DOMAIN source.functions[u]
    PROVE  /\ Qualified(u, source.functions[u][i]) \in QualifiedName
           /\ Qualified(u, source.functions[u][i]).package = u.package
<1> DEFINE d == source.functions[u][i]
<1>1. d \in Declaration
  BY ProgramTypes
<1>2. d.class \in Identifier \cup {NoName} /\ d.name \in Identifier \cup {NoName}
  BY <1>1 DEF Declaration
<1>3. u.package \in Package \cup {Main}
  BY UnitKinds
<1> HIDE DEF d
<1>4. Qualified(u, d) \in QualifiedName /\ Qualified(u, d).package = u.package
  BY <1>2, <1>3 DEF Qualified, QualifiedName
<1> QED
  BY <1>4 DEF d

LEMMA DeclaresType ==
    ASSUME source \in Programs, NEW u \in Unit, NEW q, Declares(u, q)
    PROVE  q \in QualifiedName /\ q.package = u.package /\ q \in Declared[u]
<1>1. PICK i \in DOMAIN source.functions[u] : q = Qualified(u, source.functions[u][i])
  BY DEF Declares
<1>2. q \in QualifiedName /\ q.package = u.package
  BY <1>1, QualifiedType
<1> QED
  BY <1>2 DEF Declared

LEMMA Contents ==
    ASSUME source \in Programs
    PROVE  /\ \A u \in Unit : \A q : Implements(u, q) <=> q \in Defines[u]
           /\ \A u \in Unit : Tables[u] = FunctionTable(u)
           /\ \A u \in Unit : Defines[u] \subseteq Declared[u]
           /\ \A u \in Unit : \A q \in Declared[u] : q \in QualifiedName /\ q.package = u.package
           /\ \A u \in Sound : /\ u \in Unit
                               /\ Tables[u] \in Seq(QualifiedName)
                               /\ Declared[u] \subseteq Range(Tables[u])
           /\ \A u \in Sound : \A q \in Range(Tables[u]) :
                 \/ q \in Declared[u]
                 \/ \E n \in DOMAIN Requires[u] : q \in Declared[Header(Requires[u][n])]
<1>1. \A u \in Unit : \A q : Implements(u, q) => Declares(u, q)
  BY ImplementsDeclares
<1>2. \A u \in Unit : \A q : Declares(u, q) => q \in QualifiedName /\ q.package = u.package
                                               /\ q \in Declared[u]
  BY DeclaresType
<1>3. \A u \in Unit : \A q : Implements(u, q) <=> q \in Defines[u]
  BY <1>1, <1>2 DEF Defines
<1>4. \A u \in Unit : \A q \in Declared[u] : q \in QualifiedName /\ q.package = u.package
  BY <1>2 DEF Declared
<1>5. \A u \in Unit : Defines[u] \subseteq Declared[u]
  BY <1>1, <1>2, <1>3
<1>6. \A u \in Unit : Tables[u] = FunctionTable(u)
  BY DEF Tables
<1>7. ASSUME NEW u \in Sound
      PROVE  /\ u \in Unit
             /\ Tables[u] \in Seq(QualifiedName)
             /\ Declared[u] \subseteq Range(Tables[u])
             /\ \A q \in Range(Tables[u]) :
                   \/ q \in Declared[u]
                   \/ \E n \in DOMAIN Requires[u] : q \in Declared[Header(Requires[u][n])]
  <2>1. u \in Unit /\ ~IdentifierNotFound(u) /\ ~FunctionMissing(u)
    BY DEF Sound
  <2>2. /\ Tables[u] \in Seq(QualifiedName)
        /\ \A i \in DOMAIN Tables[u] : \E v \in Visible(u) : Declares(v, Tables[u][i])
    BY <2>1, <1>6, FunctionTableNames
  <2>3. Declared[u] \subseteq Range(Tables[u])
    BY <2>1, <1>6, ImplementsInTable DEF Declared
  <2>4. ASSUME NEW q \in Range(Tables[u])
        PROVE  \/ q \in Declared[u]
               \/ \E n \in DOMAIN Requires[u] : q \in Declared[Header(Requires[u][n])]
    <3>1. PICK v \in Visible(u) : Declares(v, q)
      BY <2>2 DEF Range
    <3>2. v \in Unit /\ q \in Declared[v]
      BY <1>2, <2>1, <3>1, VisibleUnits
    <3>3. v = u \/ \E n \in DOMAIN Requires[u] : v = Header(Requires[u][n])
      BY <2>1, RequiresTypes DEF Visible, Range
    <3> QED BY <3>2, <3>3
  <2> QED BY <2>1, <2>2, <2>3, <2>4
<1> QED
  BY <1>3, <1>4, <1>5, <1>6, <1>7

LEMMA ContentsFixed ==
    ASSUME source' = source
    PROVE  Tables' = Tables /\ Declared' = Declared /\ Defines' = Defines /\ Sound' = Sound
<1>1. Tables' = Tables
  BY SMT DEF Tables, FunctionTable, ReserveFunctionIndex, Used, Own, SearchFunction,
             SelectInSeq, Functions, RequireList
<1>2. Declared' = Declared
  BY SMT DEF Declared, Declares, Qualified
<1>3. Defines' = Defines
  BY SMT DEF Defines, Implements, Qualified
<1>4. Sound' = Sound
  BY SMT DEF Sound, IdentifierNotFound, Visible, Functions, Constants, RequireList,
             FunctionMissing, FunctionTable, ReserveFunctionIndex, Used, Own, Qualified,
             SearchFunction, SelectInSeq
<1> QED
  BY <1>1, <1>2, <1>3, <1>4

-----------------------------------------------------------------------------
(* What merging a unit does to the table of functions.                     *)

FunctionEntry == [name : QualifiedName, implemented : BOOLEAN, unit : Unit \cup {NoUnit}]

(* F has the functions of the machine and those of u, which get u.         *)
Merges(F, u) ==
    /\ F \in Seq(FunctionEntry)
    /\ \A k \in DOMAIN functions :
          /\ k \in DOMAIN F
          /\ F[k].name = functions[k].name
          /\ F[k].implemented = functions[k].implemented
          /\ F[k].unit = IF functions[k].name \in Defines[u] THEN u ELSE functions[k].unit
    /\ \A k \in DOMAIN F \ DOMAIN functions :
          /\ F[k].name \in Range(Tables[u])
          /\ \A j \in DOMAIN functions : functions[j].name # F[k].name
          /\ F[k].implemented <=> F[k].name \in Defines[u]
          /\ F[k].name \in Defines[u] => F[k].unit = u
    /\ \A q \in Range(Tables[u]) : \E k \in DOMAIN F : F[k].name = q

LEMMA Added ==
    ASSUME source \in Programs, functions \in Seq(FunctionEntry), NEW u \in Sound
    PROVE  Merges(AddFunctions(u), u)
<1> DEFINE new == Missing(functions, Tables[u])
           first == [k \in DOMAIN functions |->
                       IF Implements(u, functions[k].name)
                       THEN [functions[k] EXCEPT !.unit = u] ELSE functions[k]]
           second == [i \in DOMAIN new |-> NewFunction(u, new[i])]
<1>1. /\ u \in Unit /\ Tables[u] \in Seq(QualifiedName) /\ Tables[u] = FunctionTable(u)
      /\ \A q : Implements(u, q) <=> q \in Defines[u]
  BY Contents
<1>2. AddFunctions(u) = first \o second
  BY <1>1 DEF AddFunctions
<1>3. /\ new \in Seq(QualifiedName)
      /\ \A i \in DOMAIN new : /\ new[i] \in Range(Tables[u])
                               /\ \A k \in DOMAIN functions : functions[k].name # new[i]
      /\ \A q \in Range(Tables[u]) : \/ \E k \in DOMAIN functions : functions[k].name = q
                                     \/ q \in Range(new)
  <2>1. Tables[u] \in Seq(QualifiedName)
    BY <1>1
  <2> QED BY <2>1, MissingNames
<1> HIDE DEF new
<1>4. ASSUME NEW k \in DOMAIN functions
      PROVE  /\ first[k] \in FunctionEntry
             /\ first[k].name = functions[k].name
             /\ first[k].implemented = functions[k].implemented
             /\ first[k].unit = IF functions[k].name \in Defines[u] THEN u ELSE functions[k].unit
  <2>1. functions[k] \in FunctionEntry
    OBVIOUS
  <2>2. \A e \in FunctionEntry : /\ [e EXCEPT !.unit = u] \in FunctionEntry
                                 /\ [e EXCEPT !.unit = u].name = e.name
                                 /\ [e EXCEPT !.unit = u].implemented = e.implemented
                                 /\ [e EXCEPT !.unit = u].unit = u
    BY <1>1 DEF FunctionEntry
  <2>3. first[k] = IF functions[k].name \in Defines[u]
                   THEN [functions[k] EXCEPT !.unit = u] ELSE functions[k]
    BY <1>1
  <2> HIDE DEF first
  <2>4. CASE functions[k].name \in Defines[u]
    <3>1. first[k] = [functions[k] EXCEPT !.unit = u]
      BY <2>3, <2>4
    <3> QED BY <2>1, <2>2, <2>4, <3>1
  <2>5. CASE functions[k].name \notin Defines[u]
    BY <2>1, <2>3, <2>5
  <2> QED BY <2>4, <2>5
<1>5. ASSUME NEW i \in DOMAIN new
      PROVE  /\ second[i] \in FunctionEntry
             /\ second[i].name = new[i]
             /\ second[i].implemented <=> new[i] \in Defines[u]
             /\ new[i] \in Defines[u] => second[i].unit = u
  <2>1. new[i] \in QualifiedName
    BY <1>3
  <2>2. second[i] = [name |-> new[i], implemented |-> Implements(u, new[i]),
                     unit |-> IF Implements(u, new[i]) THEN u ELSE NoUnit]
    BY DEF NewFunction
  <2> HIDE DEF first, second
  <2>3. CASE new[i] \in Defines[u]
    <3>1. Implements(u, new[i])
      BY <1>1, <2>3
    <3>2. second[i] = [name |-> new[i], implemented |-> TRUE, unit |-> u]
      BY <2>2, <3>1
    <3> QED BY <1>1, <2>1, <2>3, <3>2 DEF FunctionEntry
  <2>4. CASE new[i] \notin Defines[u]
    <3>1. Implements(u, new[i]) = FALSE
      BY <1>1, <2>4, Zenon DEF Implements
    <3>2. second[i] = [name |-> new[i], implemented |-> FALSE, unit |-> NoUnit]
      BY <2>2, <3>1
    <3> QED BY <1>1, <2>1, <2>4, <3>2 DEF FunctionEntry
  <2> QED BY <2>3, <2>4
<1>6. /\ first = [k \in 1..Len(functions) |-> first[k]] /\ DOMAIN first = 1..Len(functions)
      /\ DOMAIN functions = 1..Len(functions) /\ Len(functions) \in Nat
      /\ second = [i \in 1..Len(new) |-> second[i]] /\ DOMAIN second = 1..Len(new)
      /\ DOMAIN new = 1..Len(new) /\ Len(new) \in Nat
  BY <1>3
<1> HIDE DEF first, second
<1>7. first \in Seq(FunctionEntry) /\ second \in Seq(FunctionEntry)
  BY <1>4, <1>5, <1>6, IsASeq
<1>8. Len(first) = Len(functions) /\ Len(second) = Len(new)
  BY <1>6, <1>7
<1>9. /\ first \o second \in Seq(FunctionEntry)
      /\ DOMAIN (first \o second) = 1..(Len(functions) + Len(new))
      /\ \A k \in DOMAIN functions : /\ k \in DOMAIN (first \o second)
                                     /\ (first \o second)[k] = first[k]
      /\ \A k \in DOMAIN (first \o second) \ DOMAIN functions :
            /\ k - Len(functions) \in DOMAIN new
            /\ (first \o second)[k] = second[k - Len(functions)]
      /\ \A i \in DOMAIN new : /\ Len(functions) + i \in DOMAIN (first \o second)
                               /\ (first \o second)[Len(functions) + i] = second[i]
  BY <1>6, <1>7, <1>8, ConcatProperties
<1> DEFINE all == first \o second
<1> HIDE DEF all
<1>10. \A q \in Range(Tables[u]) : \E k \in DOMAIN all : all[k].name = q
  <2> TAKE q \in Range(Tables[u])
  <2>1. CASE \E k \in DOMAIN functions : functions[k].name = q
    BY <1>4, <1>9, <2>1 DEF all
  <2>2. CASE q \in Range(new)
    <3>1. PICK i \in DOMAIN new : q = new[i]
      BY <2>2 DEF Range
    <3> QED BY <1>5, <1>9, <3>1 DEF all
  <2> QED BY <1>3, <2>1, <2>2
<1>11. \A k \in DOMAIN all \ DOMAIN functions :
          /\ all[k].name \in Range(Tables[u])
          /\ \A j \in DOMAIN functions : functions[j].name # all[k].name
          /\ all[k].implemented <=> all[k].name \in Defines[u]
          /\ all[k].name \in Defines[u] => all[k].unit = u
  <2> TAKE k \in DOMAIN all \ DOMAIN functions
  <2>1. k - Len(functions) \in DOMAIN new /\ all[k] = second[k - Len(functions)]
    BY <1>9 DEF all
  <2> QED BY <1>3, <1>5, <2>1
<1>12. \A k \in DOMAIN functions :
          /\ k \in DOMAIN all
          /\ all[k].name = functions[k].name
          /\ all[k].implemented = functions[k].implemented
          /\ all[k].unit = IF functions[k].name \in Defines[u] THEN u ELSE functions[k].unit
  BY <1>4, <1>9 DEF all
<1>13. AddFunctions(u) = all /\ all \in Seq(FunctionEntry)
  BY <1>2, <1>9 DEF all
<1> QED
  BY <1>10, <1>11, <1>12, <1>13 DEF Merges

-----------------------------------------------------------------------------
(* The invariant.                                                          *)

(* The unit of a package that every program with one of its functions has: *)
(* its header, or the main program.                                        *)
Home(p) == IF p = Main THEN MainUnit ELSE Header(p)

LEMMA HomeUnits ==
    /\ \A p \in Package : p # Main /\ Home(p) = Header(p) /\ Home(p) # MainUnit
    /\ \A u \in Unit : \/ u = Home(u.package)
                       \/ u.package \in Package /\ u = Implementation(u.package)
    /\ \A p, q \in Package : Implementation(p) # Header(q) /\ Implementation(p) # MainUnit
<1>1. \A p \in Package : p # Main
  BY PackageAssumption
<1>2. \A p \in Package : Home(p) = Header(p) /\ Header(p) # MainUnit
  BY <1>1, UnitKinds DEF Home
<1>3. MainUnit = Home(MainUnit.package)
  BY UnitKinds DEF Home
<1>4. \A p, q \in Package : Implementation(p) # Header(q) /\ Implementation(p) # MainUnit
  BY <1>1, UnitKinds
<1> QED
  BY <1>1, <1>2, <1>3, <1>4, UnitKinds

(* The file of a package's implementation, if there is one, has a body for *)
(* each function of the package that is neither native nor in the header:  *)
(* nothing else in the machine would, and a call would run no code.        *)
FilesComplete ==
    \A p \in Package : Implementation(p) \in source.files =>
        \A q \in Declared[Header(p)] \cup Declared[Implementation(p)] :
            q \in Range(Natives) \cup Defines[Header(p)] \cup Defines[Implementation(p)]

(* The machine has the native functions and all names of the tables.       *)
Entered ==
    /\ functions \in Seq(FunctionEntry)
    /\ \A q \in Range(Natives) :
          \E k \in DOMAIN functions : functions[k].name = q /\ functions[k].implemented
    /\ \A u \in Range(entries) : \A q \in Range(Tables[u]) :
          \E k \in DOMAIN functions : functions[k].name = q

(* A function was entered with a unit that declares it, and carries the    *)
(* mark if the header has its body.                                        *)
Homes ==
    \A k \in DOMAIN functions : functions[k].name \notin Range(Natives) =>
        /\ Home(functions[k].name.package) \in Range(entries)
        /\ functions[k].name \in Defines[Home(functions[k].name.package)] =>
              functions[k].implemented
        /\ \E u \in Range(entries) : functions[k].name \in Declared[u]
        /\ functions[k].implemented =>
              \E u \in Range(entries) : functions[k].name \in Defines[u]

(* Two units that are linked never define the same function.               *)
Once ==
    /\ \A u, v \in Range(entries) : \A q \in Defines[u] : q \in Defines[v] => u = v
    /\ \A u \in Range(entries) : \A q \in Defines[u] : q \notin Range(Natives)

(* A function with a body in a linked unit points to one.                  *)
Remembered ==
    \A k \in DOMAIN functions : \A u \in Range(entries) :
        functions[k].name \in Defines[u] =>
            /\ functions[k].unit \in Range(entries)
            /\ functions[k].name \in Defines[functions[k].unit]

Merged == Entered /\ Homes /\ Once /\ Remembered

(* What is in the list compiles, and comes from a file or is the main      *)
(* program.                                                                *)
Listed ==
    /\ \A u \in Range(list) : u \in Sound /\ u \in source.files \cup {MainUnit}
    /\ phase = "compile" =>
          \A i \in DOMAIN compiling : compiling[i].unit \in source.files \cup {MainUnit}

(* The header of a package is linked before its implementation is even     *)
(* compiled.                                                               *)
HeadersEntered ==
    \A p \in Package :
        \/ Implementation(p) \in Range(list)
        \/ phase = "compile" /\ compiling[Len(compiling)].unit = Implementation(p)
        => Header(p) \in Range(entries)

(* What is compiled and linked is the main program, or the implementation  *)
(* of the package whose function waits.                                    *)
Target == IF pending = 0 THEN MainUnit
          ELSE Implementation(functions[pending].name.package)

Waiting ==
    /\ pending \in {0} \cup DOMAIN functions
    /\ phase \in {"compile", "link"} /\ pending # 0 =>
          /\ functions[pending].name \notin Range(Natives)
          /\ functions[pending].name.package \in Package
          /\ Target \in source.files
    /\ phase = "compile" => compiling[Len(compiling)].unit = Target
    /\ phase = "link" => Target \in Range(list)
    /\ phase # "error" => error # "load"

(* Code that runs belongs to a linked unit that has it.                    *)
Activations == [unit : Unit, called : QualifiedName, index : Nat]

Running ==
    /\ running \in Seq(Activations)
    /\ \A i \in DOMAIN running :
          /\ running[i].unit \in Range(entries)
          /\ \/ running[i].called = TopLevel /\ running[i].unit = MainUnit
             \/ running[i].called \in Defines[running[i].unit]

(* A load that failed had nothing to find.                                 *)
Just ==
    error = "load" =>
        \A u \in Range(entries) : functions[pending].name \notin Defines[u]

Loads == /\ Supply /\ FilesComplete
         /\ Merged /\ Listed /\ HeadersEntered /\ Waiting /\ Running /\ Just

LEMMA LoadsInit ==
    ASSUME Init, HeadersOrdered, FilesComplete
    PROVE  Loads
<1>1. Supply
  BY SupplyInit
<1>2. /\ source \in Programs /\ phase = "compile"
      /\ compiling = <<[unit |-> MainUnit, next |-> 0]>>
      /\ list = <<>> /\ entries = <<>> /\ running = <<>> /\ pending = 0 /\ error = "none"
      /\ functions = [k \in DOMAIN Natives |->
                         [name |-> Natives[k], implemented |-> TRUE, unit |-> NoUnit]]
  BY DEF Init
<1>3. Natives \in Seq(QualifiedName) /\ DOMAIN Natives = 1..Len(Natives) /\ Len(Natives) \in Nat
  BY ProgramAssumption
<1>4. \A k \in DOMAIN Natives : /\ functions[k] \in FunctionEntry
                                /\ functions[k].name = Natives[k] /\ functions[k].implemented
  BY <1>2, <1>3 DEF FunctionEntry
<1>5. functions \in Seq(FunctionEntry) /\ DOMAIN functions = DOMAIN Natives
  <2>1. functions = [k \in 1..Len(Natives) |-> functions[k]]
    BY <1>2, <1>3
  <2> QED BY <1>2, <1>3, <1>4, <2>1, IsASeq
<1>6. Range(entries) = {} /\ Range(list) = {} /\ DOMAIN running = {}
  BY <1>2 DEF Range
<1>7. Entered
  BY <1>4, <1>5, <1>6 DEF Entered, Range
<1>8. Homes
  BY <1>4, <1>5 DEF Homes, Range
<1>9. Once /\ Remembered
  BY <1>6 DEF Once, Remembered
<1>10. /\ Len(compiling) = 1 /\ compiling[1].unit = MainUnit /\ DOMAIN compiling = {1}
  BY <1>2, UnitKinds, FirstCompilation
<1>11. Listed
  BY <1>6, <1>10 DEF Listed
<1>12. HeadersEntered
  BY <1>6, <1>10, HomeUnits DEF HeadersEntered
<1>13. Waiting
  BY <1>2, <1>10 DEF Waiting, Target
<1>14. Running /\ Just
  BY <1>2, <1>6 DEF Running, Just
<1> QED
  BY <1>1, <1>7, <1>8, <1>9, <1>11, <1>12, <1>13, <1>14 DEF Loads, Merged

(* Facts that every step needs.                                            *)
LEMMA LoadsTypes ==
    ASSUME Loads, [Next]_vars
    PROVE  /\ source \in Programs /\ source' = source
           /\ Tables' = Tables /\ Declared' = Declared /\ Defines' = Defines /\ Sound' = Sound
           /\ Requires' = Requires
           /\ Supply' /\ FilesComplete'
           /\ compiling \in Seq(Compilation) /\ (phase = "compile" => compiling # <<>>)
           /\ list \in Seq(Unit) /\ entries \in Seq(Unit)
           /\ functions \in Seq(FunctionEntry) /\ running \in Seq(Activations)
<1>1. Supply /\ FilesComplete /\ Entered /\ Running
  BY DEF Loads, Merged
<1>2. source' = source /\ source \in Programs
  BY <1>1, SourceFixed DEF Supply, Order
<1>3. Supply' /\ Requires' = Requires
  BY <1>1, <1>2, SupplyNext, RequiresFixed
<1>4. Tables' = Tables /\ Declared' = Declared /\ Defines' = Defines /\ Sound' = Sound
  BY <1>2, ContentsFixed
<1>5. FilesComplete'
  BY <1>1, <1>2, <1>4 DEF FilesComplete
<1> QED
  BY <1>1, <1>2, <1>3, <1>4, <1>5 DEF Supply, Order, Entered, Running

LEMMA MergedLink ==
    ASSUME Loads, [Next]_vars, Link, ~MultipleDefine(list[linking])
    PROVE  Merged'
<1> DEFINE u == list[linking]
<1>1. /\ phase = "link" /\ linking \in DOMAIN list /\ linking = Len(entries) + 1
      /\ entries' = Append(entries, u) /\ functions' = AddFunctions(u)
      /\ list \in Seq(Unit) /\ entries \in Seq(Unit) /\ functions \in Seq(FunctionEntry)
      /\ source \in Programs
  BY LoadsTypes DEF Link, ReadyToLink, Loads, Supply, Order
<1>2. /\ Merged /\ Entered /\ Homes /\ Once /\ Remembered
  BY DEF Loads, Merged
<1>3. u \in Range(list) /\ u \in Unit /\ u \in Sound
  BY <1>1 DEF Loads, Listed, Range
<1>4. Range(entries') = Range(entries) \cup {u} /\ Range(entries) \subseteq Unit
  <2>1. /\ DOMAIN entries' = 1..(Len(entries) + 1) /\ entries'[Len(entries) + 1] = u
        /\ \A i \in 1..Len(entries) : entries'[i] = entries[i]
        /\ Len(entries) \in Nat /\ DOMAIN entries = 1..Len(entries)
    BY <1>1, <1>3, AppendProperties
  <2>2. Range(entries) \subseteq Unit
    BY <1>1 DEF Range
  <2>3. \A v : v \in Range(entries') <=> v \in Range(entries) \/ v = u
    <3> HIDE DEF u
    <3> QED BY <2>1 DEF Range
  <2> QED BY <2>2, <2>3
(* What u requires is linked. *)
<1>5. \A n \in DOMAIN Requires[u] : Header(Requires[u][n]) \in Range(entries)
  <2> TAKE n \in DOMAIN Requires[u]
  <2>1. PICK j \in 1..(linking - 1) : list[j] = Header(Requires[u][n])
    BY <1>1 DEF Loads, Supply, Sorted
  <2>2. j \in DOMAIN entries /\ entries[j] = list[j]
    BY <1>1, <2>1 DEF Loads, Supply, Order
  <2> QED BY <2>1, <2>2 DEF Range
<1>6. \A v \in Range(entries) : v \in Sound
  <2> TAKE v \in Range(entries)
  <2>1. PICK j \in DOMAIN entries : v = entries[j]
    BY DEF Range
  <2> HIDE DEF u
  <2>2. Order
    BY DEF Loads, Supply
  <2>3. /\ DOMAIN entries = 1..Len(entries) /\ DOMAIN list = 1..Len(list)
        /\ Len(entries) \in Nat /\ Len(list) \in Nat /\ Len(entries) <= Len(list)
        /\ \A i \in 1..Len(entries) : entries[i] = list[i]
    BY <1>1, <2>2 DEF Order
  <2>4. j \in DOMAIN list /\ entries[j] = list[j]
    BY <2>1, <2>3
  <2> QED BY <2>1, <2>4 DEF Loads, Listed, Range
<1>7. \/ u = Home(u.package)
      \/ u.package \in Package /\ u = Implementation(u.package)
                               /\ Home(u.package) \in Range(entries)
  <2>1. CASE u = Home(u.package)
    BY <2>1
  <2>2. CASE u.package \in Package /\ u = Implementation(u.package)
    BY <1>3, <2>2, HomeUnits DEF Loads, HeadersEntered
  <2> QED BY <1>3, <2>1, <2>2, HomeUnits
(* No function that u defines carries the mark. *)
<1>8. ASSUME NEW k \in DOMAIN functions, functions[k].name \in Defines[u]
      PROVE  ~functions[k].implemented
  BY <1>1, <1>3, <1>8, Contents DEF MultipleDefine
<1>9. \A q \in Defines[u] : q \notin Range(Natives)
  BY <1>2, <1>8 DEF Entered
<1>10. /\ functions' \in Seq(FunctionEntry)
       /\ \A k \in DOMAIN functions :
             /\ k \in DOMAIN functions'
             /\ functions'[k].name = functions[k].name
             /\ functions'[k].implemented = functions[k].implemented
             /\ functions'[k].unit =
                   IF functions[k].name \in Defines[u] THEN u ELSE functions[k].unit
       /\ \A k \in DOMAIN functions' \ DOMAIN functions :
             /\ functions'[k].name \in Range(Tables[u])
             /\ \A j \in DOMAIN functions : functions[j].name # functions'[k].name
             /\ functions'[k].implemented <=> functions'[k].name \in Defines[u]
             /\ functions'[k].name \in Defines[u] => functions'[k].unit = u
       /\ \A q \in Range(Tables[u]) : \E k \in DOMAIN functions' : functions'[k].name = q
  <2>1. /\ source \in Programs /\ functions \in Seq(FunctionEntry) /\ u \in Sound
        /\ functions' = AddFunctions(u)
    BY <1>1, <1>3
  <2> HIDE DEF u
  <2>2. Merges(functions', u)
    BY <2>1, Added
  <2> QED BY <2>2 DEF Merges
<1> HIDE DEF u
(* A function that is new is not declared by what was linked before. *)
<1>11. ASSUME NEW k \in DOMAIN functions' \ DOMAIN functions
       PROVE  /\ functions'[k].name \notin Range(Natives)
              /\ \A v \in Range(entries) : functions'[k].name \notin Declared[v]
              /\ functions'[k].name \in Declared[u]
              /\ functions'[k].name.package = u.package
  <2> DEFINE q == functions'[k].name
  <2>1. q \in Range(Tables[u]) /\ \A j \in DOMAIN functions : functions[j].name # q
    BY <1>10
  <2> HIDE DEF q
  <2>2. \A v \in Range(entries) : q \notin Range(Tables[v])
    BY <1>2, <2>1 DEF Entered
  <2>3. \A v \in Range(entries) : q \notin Declared[v]
    BY <1>1, <1>6, <2>2, Contents
  <2>4. q \in Declared[u]
    BY <1>1, <1>3, <1>5, <2>1, <2>3, Contents
  <2>5. q \notin Range(Natives)
    BY <1>2, <2>1 DEF Entered
  <2> QED BY <1>1, <1>3, <2>3, <2>4, <2>5, Contents DEF q
<1>12. Entered'
  <2>1. \A q \in Range(Natives) :
           \E k \in DOMAIN functions' : functions'[k].name = q /\ functions'[k].implemented
    BY <1>2, <1>10 DEF Entered
  <2>2. ASSUME NEW v \in Range(entries'), NEW q \in Range(Tables[v])
        PROVE  \E k \in DOMAIN functions' : functions'[k].name = q
    <3>1. CASE v \in Range(entries)
      BY <1>2, <1>10, <2>2, <3>1 DEF Entered
    <3>2. CASE v = u
      BY <1>10, <2>2, <3>2
    <3> QED BY <1>4, <3>1, <3>2
  <2> QED BY <1>10, <2>1, <2>2, LoadsTypes DEF Entered
<1>13. Homes'
  <2> SUFFICES ASSUME NEW k \in DOMAIN functions', functions'[k].name \notin Range(Natives)
               PROVE  /\ Home(functions'[k].name.package) \in Range(entries')
                      /\ functions'[k].name \in Defines[Home(functions'[k].name.package)] =>
                            functions'[k].implemented
                      /\ \E v \in Range(entries') : functions'[k].name \in Declared[v]
                      /\ functions'[k].implemented =>
                            \E v \in Range(entries') : functions'[k].name \in Defines[v]
    BY LoadsTypes DEF Homes, Home
  <2>1. CASE k \in DOMAIN functions
    BY <1>2, <1>4, <1>10, <2>1 DEF Homes
  <2>2. CASE k \notin DOMAIN functions
    <3> DEFINE q == functions'[k].name
    <3>1. /\ q \in Declared[u] /\ q.package = u.package
          /\ \A v \in Range(entries) : q \notin Declared[v]
          /\ functions'[k].implemented <=> q \in Defines[u]
      BY <1>10, <1>11, <2>2
    <3> HIDE DEF q
    <3>2. CASE u = Home(u.package)
      BY <1>4, <3>1, <3>2 DEF q
    <3>3. CASE Home(u.package) \in Range(entries)
      <4>1. q \notin Defines[Home(u.package)]
        BY <1>1, <1>4, <3>1, <3>3, Contents
      <4> QED BY <1>4, <3>1, <3>3, <4>1 DEF q
    <3> QED BY <1>7, <3>2, <3>3
  <2> QED BY <2>1, <2>2
<1>14. Once'
  (* A second definition would have been found. *)
  <2>1. ASSUME NEW v \in Range(entries), NEW q \in Defines[u], q \in Defines[v]
        PROVE  u = v
    <3>1. v \in Unit /\ v \in Sound
      BY <1>4, <1>6
    <3>2. q.package = u.package /\ q.package = v.package /\ q \in Range(Tables[v])
      BY <1>1, <1>3, <2>1, <3>1, Contents
    <3>3. PICK k \in DOMAIN functions : functions[k].name = q
      BY <1>2, <3>2 DEF Entered
    <3>4. ~functions[k].implemented /\ q \notin Range(Natives)
      BY <1>8, <1>9, <3>3
    <3>5. Home(q.package) \in Range(entries) /\ q \notin Defines[Home(q.package)]
      BY <1>2, <3>3, <3>4 DEF Homes
    <3>6. u # Home(q.package) /\ v # Home(q.package)
      BY <2>1, <3>5
    <3> QED BY <1>3, <3>1, <3>2, <3>6, HomeUnits
  <2>2. \A v, w \in Range(entries') : \A q \in Defines[v] : q \in Defines[w] => v = w
    <3> TAKE v, w \in Range(entries')
    <3> TAKE q \in Defines[v]
    <3>1. CASE v \in Range(entries) /\ w \in Range(entries)
      BY <1>2, <3>1 DEF Once
    <3>2. CASE v = u /\ w \in Range(entries)
      BY <2>1, <3>2
    <3>3. CASE v \in Range(entries) /\ w = u
      BY <2>1, <3>3
    <3> QED BY <1>4, <3>1, <3>2, <3>3
  <2>3. \A v \in Range(entries') : \A q \in Defines[v] : q \notin Range(Natives)
    BY <1>2, <1>4, <1>9 DEF Once
  <2> QED BY <2>2, <2>3, LoadsTypes DEF Once
<1>15. Remembered'
  <2> SUFFICES ASSUME NEW k \in DOMAIN functions', NEW v \in Range(entries'),
                      functions'[k].name \in Defines[v]
               PROVE  /\ functions'[k].unit \in Range(entries')
                      /\ functions'[k].name \in Defines[functions'[k].unit]
    BY LoadsTypes DEF Remembered
  <2>1. CASE functions'[k].name \in Defines[u]
    <3>1. functions'[k].unit = u
      BY <1>10, <2>1
    <3> QED BY <1>4, <2>1, <3>1
  <2>2. CASE functions'[k].name \notin Defines[u]
    <3>1. v \in Range(entries)
      BY <1>4, <2>2
    <3>2. functions'[k].name \in Declared[v]
      BY <1>1, <1>4, <3>1, Contents
    <3>3. k \in DOMAIN functions
      BY <1>11, <3>1, <3>2
    <3>4. functions'[k].name = functions[k].name /\ functions'[k].unit = functions[k].unit
      BY <1>10, <2>2, <3>3
    <3> QED BY <1>2, <1>4, <3>1, <3>3, <3>4 DEF Remembered
  <2> QED BY <2>1, <2>2
<1> QED
  BY <1>12, <1>13, <1>14, <1>15 DEF Merged

(* Only merging changes the tables of the machine.                         *)
LEMMA Unlinked ==
    ASSUME [Next]_vars, ~(Link /\ ~MultipleDefine(list[linking]))
    PROVE  UNCHANGED <<functions, entries, constants>>
<1>1. CASE UNCHANGED vars
  BY <1>1 DEF vars
<1>2. CASE Parse
  BY <1>2 DEF Parse, Fail
<1>3. CASE Require
  BY <1>3 DEF Require, Fail
<1>4. CASE Generate \/ NullType
  BY <1>4 DEF Generate, NullType, Fail
<1>5. CASE Link
  BY <1>5 DEF Link, Fail
<1>6. CASE Dispose
  BY <1>6 DEF Dispose
<1>7. CASE Start
  BY <1>7 DEF Start
<1>8. ASSUME NEW i, Call(i)
      PROVE  UNCHANGED <<functions, entries, constants>>
  BY <1>8 DEF Call, Load
<1>9. CASE Return
  BY <1>9 DEF Return
<1> QED
  BY <1>1, <1>2, <1>3, <1>4, <1>5, <1>6, <1>7, <1>8, <1>9 DEF Next, Loading

LEMMA MergedNext ==
    ASSUME Loads, [Next]_vars
    PROVE  Merged'
<1>1. CASE Link /\ ~MultipleDefine(list[linking])
  BY <1>1, MergedLink
<1>2. CASE ~(Link /\ ~MultipleDefine(list[linking]))
  <2>1. functions' = functions /\ entries' = entries
    BY <1>2, Unlinked
  <2>2. Tables' = Tables /\ Declared' = Declared /\ Defines' = Defines
    BY LoadsTypes
  <2>3. Entered'
    BY <2>1, <2>2 DEF Loads, Merged, Entered
  <2>4. Homes'
    BY <2>1, <2>2 DEF Loads, Merged, Homes, Home
  <2>5. Once' /\ Remembered'
    BY <2>1, <2>2 DEF Loads, Merged, Once, Remembered
  <2> QED BY <2>3, <2>4, <2>5 DEF Merged
<1> QED BY <1>1, <1>2

-----------------------------------------------------------------------------
(* The rest of the invariant, step by step.                                *)

Rest == Listed /\ HeadersEntered /\ Waiting /\ Running /\ Just

LEMMA RestFail ==
    ASSUME Loads, [Next]_vars, NEW reason, reason # "load", Fail(reason)
    PROVE  Rest'
<1>1. /\ phase' = "error" /\ error' = reason
      /\ UNCHANGED <<source, list, entries, functions, running, pending>>
  BY DEF Fail
<1>2. Listed'
  BY <1>1, LoadsTypes DEF Loads, Listed
<1>3. HeadersEntered'
  BY <1>1 DEF Loads, HeadersEntered
<1>4. Waiting'
  BY <1>1 DEF Loads, Waiting
<1>5. Running'
  BY <1>1, LoadsTypes DEF Loads, Running
<1>6. Just'
  BY <1>1 DEF Just
<1> QED
  BY <1>2, <1>3, <1>4, <1>5, <1>6 DEF Rest

(* The steps of do_compile before the last: only compiling changes.        *)
LEMMA RestCompile ==
    ASSUME Loads, [Next]_vars, phase = "compile",
           UNCHANGED <<phase, list, running, pending, error>>,
           entries' = entries, functions' = functions,
           compiling'[Len(compiling')].unit = compiling[Len(compiling)].unit,
           \A i \in DOMAIN compiling' : compiling'[i].unit \in source.files \cup {MainUnit}
    PROVE  Rest'
<1>1. Listed'
  BY LoadsTypes DEF Loads, Listed
<1>2. HeadersEntered'
  BY DEF Loads, HeadersEntered
<1>3. Waiting'
  BY LoadsTypes DEF Loads, Waiting, Target
<1>4. Running'
  BY LoadsTypes DEF Loads, Running
<1>5. Just'
  BY DEF Loads, Waiting, Just
<1> QED
  BY <1>1, <1>2, <1>3, <1>4, <1>5 DEF Rest

LEMMA RestParse ==
    ASSUME Loads, [Next]_vars, Parse
    PROVE  Rest'
<1>1. CASE RequireError(Compiler.unit)
  <2>1. Fail("require")
    BY <1>1 DEF Parse
  <2> QED BY <2>1, RestFail
<1>2. CASE ~RequireError(Compiler.unit)
  <2> DEFINE e == [Compiler EXCEPT !.next = 1]
  <2>1. /\ phase = "compile" /\ compiling' = <<e>> \o Tail(compiling)
        /\ UNCHANGED <<phase, list, running, pending, error, entries, functions>>
    BY <1>2 DEF Parse
  <2>2. compiling \in Seq(Compilation) /\ compiling # <<>>
    BY <2>1, LoadsTypes
  <2>3. e \in Compilation /\ e.unit = compiling[1].unit
    BY <2>2, CompilerParts
  <2> HIDE DEF e
  <2>4. /\ compiling' \in Seq(Compilation) /\ Len(compiling') = Len(compiling)
        /\ Len(compiling) \in Nat \ {0} /\ DOMAIN compiling = 1..Len(compiling)
        /\ DOMAIN compiling' = 1..Len(compiling) /\ compiling'[1] = e
        /\ \A i \in 2..Len(compiling) : compiling'[i] = compiling[i]
    BY <2>1, <2>2, <2>3, StackReplace
  <2>5. \A i \in DOMAIN compiling : compiling'[i].unit = compiling[i].unit
    BY <2>3, <2>4
  <2>6. \A i \in DOMAIN compiling' : compiling'[i].unit \in source.files \cup {MainUnit}
    BY <2>1, <2>4, <2>5 DEF Loads, Listed
  <2>7. compiling'[Len(compiling')].unit = compiling[Len(compiling)].unit
    BY <2>4, <2>5
  <2> QED BY <2>1, <2>6, <2>7, RestCompile
<1> QED BY <1>1, <1>2

LEMMA RestRequire ==
    ASSUME Loads, [Next]_vars, Require
    PROVE  Rest'
<1> DEFINE p == Required(Compiler)
           e == [Compiler EXCEPT !.next = @ + 1]
           rest == <<e>> \o Tail(compiling)
           c == [unit |-> Header(p), next |-> 0]
<1>1. /\ phase = "compile" /\ compiling \in Seq(Compilation) /\ compiling # <<>>
      /\ source \in Programs
  BY LoadsTypes DEF Require
<1>2. /\ Compiler.unit \in Unit /\ Compiler.next \in Nat
      /\ Compiler.next \in DOMAIN Requires[Compiler.unit]
      /\ p = Requires[Compiler.unit][Compiler.next] /\ p \in Package
  BY <1>1, CompilerParts, RequiresTypes DEF Require, Required
<1>3. /\ e \in Compilation /\ e.unit = compiling[1].unit
      /\ c \in Compilation /\ c.unit = Header(p)
  BY <1>1, <1>2, CompilerParts, FirstCompilation, UnitKinds
<1>4. /\ rest \in Seq(Compilation) /\ Len(rest) = Len(compiling) /\ rest # <<>>
      /\ Len(compiling) \in Nat \ {0} /\ rest[1] = e /\ DOMAIN rest = 1..Len(compiling)
      /\ DOMAIN compiling = 1..Len(compiling)
      /\ \A i \in 2..Len(compiling) : rest[i] = compiling[i]
  BY <1>1, <1>3, StackReplace
<1>5. /\ Len(<<c>> \o rest) = Len(compiling) + 1 /\ <<c>> \o rest \in Seq(Compilation)
      /\ (<<c>> \o rest)[1] = c
      /\ \A i \in 1..Len(compiling) : (<<c>> \o rest)[i + 1] = rest[i]
  BY <1>3, <1>4, StackPush
<1>6. \A i \in 1..Len(compiling) : rest[i].unit = compiling[i].unit
  <2> HIDE DEF rest, e, c, p
  <2> QED BY <1>3, <1>4
<1>7. \A i \in 1..Len(compiling) : compiling[i].unit \in source.files \cup {MainUnit}
  BY <1>1, <1>4 DEF Loads, Listed
<1>8. CASE p \in Range(known)
  <2>1. /\ compiling' = rest
        /\ UNCHANGED <<phase, list, running, pending, error, entries, functions>>
    BY <1>8 DEF Require
  <2> HIDE DEF rest, e, c, p
  <2>2. \A i \in DOMAIN compiling' : compiling'[i].unit \in source.files \cup {MainUnit}
    BY <1>4, <1>6, <1>7, <2>1
  <2>3. compiling'[Len(compiling')].unit = compiling[Len(compiling)].unit
    BY <1>4, <1>6, <2>1
  <2> QED BY <1>1, <2>1, <2>2, <2>3, RestCompile
<1>9. CASE p \notin Range(known) /\ Header(p) \in source.files
  <2>1. /\ compiling' = <<c>> \o rest
        /\ UNCHANGED <<phase, list, running, pending, error, entries, functions>>
    BY <1>9 DEF Require
  <2> DEFINE cs == <<c>> \o rest
  <2>2. /\ compiling' = cs /\ Len(cs) = Len(compiling) + 1 /\ cs[1] = c
        /\ cs \in Seq(Compilation)
        /\ \A i \in 1..Len(compiling) : cs[i + 1] = rest[i]
    BY <1>5, <2>1
  <2> HIDE DEF cs, rest, e, c, p
  <2>3. ASSUME NEW i \in DOMAIN cs
        PROVE  cs[i].unit \in source.files \cup {MainUnit}
    <3>1. CASE i = 1
      BY <1>3, <1>9, <2>2, <3>1
    <3>2. CASE i # 1
      <4>1. i - 1 \in 1..Len(compiling) /\ (i - 1) + 1 = i
        BY <1>4, <2>2, <3>2
      <4>2. cs[i] = rest[i - 1]
        BY <2>2, <4>1
      <4> QED BY <1>6, <1>7, <4>1, <4>2
    <3> QED BY <3>1, <3>2
  <2>4. compiling'[Len(compiling')].unit = compiling[Len(compiling)].unit
    BY <1>4, <1>6, <2>2
  <2> QED BY <1>1, <2>1, <2>2, <2>3, <2>4, RestCompile
<1>10. CASE p \notin Range(known) /\ Header(p) \notin source.files
  <2>1. Fail("require")
    BY <1>10 DEF Require
  <2> QED BY <2>1, RestFail
<1> QED BY <1>8, <1>9, <1>10

LEMMA RestNullType ==
    ASSUME Loads, [Next]_vars, NullType
    PROVE  Rest'
  BY RestFail DEF NullType

LEMMA RestGenerate ==
    ASSUME Loads, [Next]_vars, Generate
    PROVE  Rest'
<1> DEFINE u == Compiler.unit
<1>1. phase = "compile" /\ compiling \in Seq(Compilation) /\ compiling # <<>>
  BY LoadsTypes DEF Generate, ReadyToGenerate
<1>2. u \in Unit /\ u = compiling[1].unit
  BY <1>1, CompilerParts
<1>3. CASE IdentifierNotFound(u)
  <2>1. Fail("identifier")
    BY <1>3 DEF Generate
  <2> QED BY <2>1, RestFail
<1>4. CASE ~IdentifierNotFound(u) /\ FunctionMissing(u)
  <2>1. Fail("assertion")
    BY <1>4 DEF Generate
  <2> QED BY <2>1, RestFail
<1>5. CASE ~IdentifierNotFound(u) /\ ~FunctionMissing(u)
  <2>1. /\ list' = AddToList(u) /\ compiling' = Tail(compiling)
        /\ phase' = IF Len(compiling) > 1 THEN "compile" ELSE "link"
        /\ UNCHANGED <<entries, functions, running, pending, error>>
    BY <1>1, <1>5 DEF Generate
  <2> HIDE DEF u
  <2>2. u \in Sound
    BY <1>2, <1>5 DEF Sound
  <2>3. /\ Len(compiling) \in Nat \ {0} /\ DOMAIN compiling = 1..Len(compiling)
        /\ Tail(compiling) \in Seq(Compilation) /\ Len(Tail(compiling)) = Len(compiling) - 1
        /\ \A i \in 1..(Len(compiling) - 1) : Tail(compiling)[i] = compiling[i + 1]
    BY <1>1, StackParts
  <2>4. u \in source.files \cup {MainUnit}
    BY <1>1, <1>2, <2>3 DEF Loads, Listed
  <2>5. Range(list') = Range(list) \cup {u}
    <3>1. list \in Seq(Unit)
      BY LoadsTypes
    <3>2. CASE u \in Range(list)
      BY <2>1, <3>2 DEF AddToList
    <3>3. CASE u \notin Range(list)
      <4>1. list' = Append(list, u)
        BY <2>1, <3>3 DEF AddToList
      <4>2. /\ DOMAIN list' = 1..(Len(list) + 1) /\ list'[Len(list) + 1] = u
            /\ \A i \in 1..Len(list) : list'[i] = list[i]
            /\ Len(list) \in Nat /\ DOMAIN list = 1..Len(list)
        BY <1>2, <3>1, <4>1, AppendProperties
      <4>3. \A v : v \in Range(list') <=> v \in Range(list) \/ v = u
        BY <4>2 DEF Range
      <4> QED BY <4>3
    <3> QED BY <3>2, <3>3
  <2>6. phase' = "compile" =>
           /\ Len(compiling) > 1 /\ Len(compiling') = Len(compiling) - 1
           /\ compiling'[Len(compiling')] = compiling[Len(compiling)]
           /\ DOMAIN compiling' = 1..(Len(compiling) - 1)
           /\ \A i \in DOMAIN compiling' : /\ compiling'[i] = compiling[i + 1]
                                           /\ i + 1 \in DOMAIN compiling
    <3> DEFINE t == Tail(compiling)
    <3>1. /\ t \in Seq(Compilation) /\ Len(t) = Len(compiling) - 1 /\ compiling' = t
          /\ \A i \in 1..(Len(compiling) - 1) : t[i] = compiling[i + 1]
      BY <2>1, <2>3
    <3> HIDE DEF t
    <3> QED BY <2>1, <2>3, <3>1
  <2>7. Listed'
    <3>1. \A v \in Range(list') : v \in Sound /\ v \in source.files \cup {MainUnit}
      BY <2>2, <2>4, <2>5 DEF Loads, Listed
    <3>2. phase' = "compile" =>
             \A i \in DOMAIN compiling' : compiling'[i].unit \in source.files \cup {MainUnit}
      BY <1>1, <2>6 DEF Loads, Listed
    <3> QED BY <3>1, <3>2, LoadsTypes DEF Listed
  <2>8. HeadersEntered'
    <3> SUFFICES ASSUME NEW p \in Package,
                        \/ Implementation(p) \in Range(list')
                        \/ phase' = "compile"
                           /\ compiling'[Len(compiling')].unit = Implementation(p)
                 PROVE  Header(p) \in Range(entries)
      BY <2>1 DEF HeadersEntered
    <3>1. CASE Implementation(p) \in Range(list)
      BY <3>1 DEF Loads, HeadersEntered
    <3>2. CASE phase' = "compile" /\ compiling'[Len(compiling')].unit = Implementation(p)
      BY <1>1, <2>6, <3>2 DEF Loads, HeadersEntered
    <3>3. CASE u = Implementation(p)
      <4>1. CASE Len(compiling) = 1
        BY <1>1, <1>2, <3>3, <4>1 DEF Loads, HeadersEntered
      <4>2. CASE Len(compiling) # 1
        <5>1. 1 \in 1..(Len(compiling) - 1)
          BY <2>3, <4>2
        <5>2. PICK r : u = Header(r)
          BY <1>1, <1>2, <5>1 DEF Loads, Supply, Beneath
        <5> QED BY <3>3, <5>2 DEF Header, Implementation
      <4> QED BY <4>1, <4>2
    <3> QED BY <2>5, <3>1, <3>2, <3>3
  <2>9. Waiting'
    <3>1. Target' = Target
      BY <2>1 DEF Target
    <3>2. compiling[Len(compiling)].unit = Target
      BY <1>1 DEF Loads, Waiting
    <3>3. phase' = "link" => Target \in Range(list')
      <4>1. phase' = "link" => Len(compiling) = 1
        BY <2>1, <2>3
      <4> QED BY <1>2, <2>5, <3>2, <4>1
    <3>4. phase' = "compile" => compiling'[Len(compiling')].unit = Target
      BY <2>6, <3>2
    <3> QED BY <1>1, <2>1, <3>1, <3>3, <3>4, LoadsTypes DEF Loads, Waiting
  <2>10. Running'
    BY <2>1, LoadsTypes DEF Loads, Running
  <2>11. Just'
    BY <1>1, <2>1 DEF Loads, Waiting, Just
  <2> QED BY <2>7, <2>8, <2>9, <2>10, <2>11 DEF Rest
<1> QED BY <1>3, <1>4, <1>5

LEMMA RestLink ==
    ASSUME Loads, [Next]_vars, Link
    PROVE  Rest'
<1>1. CASE MultipleDefine(list[linking])
  <2>1. Fail("multiple")
    BY <1>1 DEF Link
  <2> QED BY <2>1, RestFail
<1>2. CASE ~MultipleDefine(list[linking])
  <2> DEFINE u == list[linking]
  <2>1. /\ phase = "link" /\ linking \in DOMAIN list /\ entries' = Append(entries, u)
        /\ functions' = AddFunctions(u)
        /\ UNCHANGED <<phase, compiling, list, running, pending, error>>
    BY <1>2 DEF Link, ReadyToLink
  <2>2. /\ list \in Seq(Unit) /\ entries \in Seq(Unit) /\ functions \in Seq(FunctionEntry)
        /\ source \in Programs
    BY LoadsTypes
  <2>3. u \in Sound /\ u \in Unit
    BY <2>1, <2>2 DEF Loads, Listed, Range
  <2> HIDE DEF u
  <2>4. Merges(functions', u)
    BY <2>1, <2>2, <2>3, Added
  <2>5. \A k \in DOMAIN functions : k \in DOMAIN functions' /\ functions'[k].name = functions[k].name
    BY <2>4 DEF Merges
  <2>6. Range(entries) \subseteq Range(entries')
    <3>1. /\ DOMAIN entries' = 1..(Len(entries) + 1)
          /\ \A i \in 1..Len(entries) : entries'[i] = entries[i]
          /\ Len(entries) \in Nat /\ DOMAIN entries = 1..Len(entries)
      BY <2>1, <2>2, <2>3, AppendProperties
    <3> QED BY <3>1 DEF Range
  <2>7. Listed'
    BY <2>1, LoadsTypes DEF Loads, Listed
  <2>8. HeadersEntered'
    BY <2>1, <2>6 DEF Loads, HeadersEntered
  <2>9. Waiting'
    <3>1. pending \in {0} \cup DOMAIN functions
      BY DEF Loads, Waiting
    <3>2. Target' = Target
      BY <2>1, <2>5, <3>1 DEF Target
    <3>3. pending \in {0} \cup DOMAIN functions'
      BY <2>5, <3>1
    <3>4. pending # 0 => functions'[pending].name = functions[pending].name
      BY <2>5, <3>1
    <3> QED BY <2>1, <3>2, <3>3, <3>4, LoadsTypes DEF Loads, Waiting
  <2>10. Running'
    BY <2>1, <2>6, LoadsTypes DEF Loads, Running
  <2>11. Just'
    BY <2>1 DEF Loads, Waiting, Just
  <2> QED BY <2>7, <2>8, <2>9, <2>10, <2>11 DEF Rest
<1> QED BY <1>1, <1>2

(* Steps that leave the units and the functions alone, and do not compile. *)
LEMMA RestIdle ==
    ASSUME Loads, [Next]_vars, phase' # "compile",
           list' = list, entries' = entries, functions' = functions,
           phase' = "link" => phase = "link" /\ pending' = pending,
           phase' \in {"compile", "link"} /\ pending' # 0 => pending' = pending,
           pending' \in {0} \cup DOMAIN functions, phase' # "error" => error' # "load",
           Running', Just'
    PROVE  Rest'
<1>1. Listed'
  BY LoadsTypes DEF Loads, Listed
<1>2. HeadersEntered'
  BY DEF Loads, HeadersEntered
<1>3. Waiting'
  BY LoadsTypes DEF Loads, Waiting, Target
<1> QED
  BY <1>1, <1>2, <1>3 DEF Rest

(* All that is in the list is linked before code runs.                     *)
LEMMA AllLinked ==
    ASSUME Loads
    PROVE  /\ Range(entries) \subseteq Range(list)
           /\ phase = "run" => Range(entries) = Range(list)
           /\ phase = "link" /\ linking \notin DOMAIN list => Range(entries) = Range(list)
<1>1. /\ list \in Seq(Unit) /\ entries \in Seq(Unit) /\ Len(entries) <= Len(list)
      /\ \A i \in 1..Len(entries) : entries[i] = list[i]
      /\ phase = "link" => linking = Len(entries) + 1
      /\ phase = "run" => Len(entries) = Len(list)
  BY DEF Loads, Supply, Order
<1>2. /\ DOMAIN list = 1..Len(list) /\ DOMAIN entries = 1..Len(entries)
      /\ Len(list) \in Nat /\ Len(entries) \in Nat
  BY <1>1
<1>3. ASSUME NEW i \in DOMAIN entries
      PROVE  i \in DOMAIN list /\ entries[i] = list[i]
  <2>1. i \in 1..Len(entries) /\ Len(entries) <= Len(list)
    BY <1>1, <1>2
  <2>2. i \in 1..Len(list)
    BY <1>2, <2>1
  <2> QED BY <1>1, <1>2, <2>1, <2>2
<1>4. Range(entries) \subseteq Range(list)
  BY <1>3 DEF Range
<1>5. ASSUME phase = "link", linking \notin DOMAIN list
      PROVE  Len(entries) = Len(list)
  <2>1. Len(entries) + 1 \notin 1..Len(list) /\ Len(entries) <= Len(list)
    BY <1>1, <1>2, <1>5
  <2> DEFINE m == Len(entries)
             n == Len(list)
  <2>2. m \in Nat /\ n \in Nat /\ m + 1 \notin 1..n /\ m <= n
    BY <1>2, <2>1
  <2> HIDE DEF m, n
  <2>3. m = n
    BY <2>2
  <2> QED BY <2>3 DEF m, n
<1>6. Len(entries) = Len(list) => Range(entries) = Range(list)
  BY <1>1, <1>2 DEF Range
<1> QED
  BY <1>1, <1>4, <1>5, <1>6

(* The function that waits has a body once its package is linked.          *)
LEMMA PendingFound ==
    ASSUME Loads, phase = "link", linking \notin DOMAIN list, pending # 0
    PROVE  /\ pending \in DOMAIN functions
           /\ functions[pending].unit \in Range(entries)
           /\ functions[pending].name \in Defines[functions[pending].unit]
<1> DEFINE q == functions[pending].name
           p == q.package
<1>1. /\ source \in Programs /\ entries \in Seq(Unit) /\ Merged /\ FilesComplete
  BY DEF Loads, Supply, Order
<1>2. /\ pending \in DOMAIN functions /\ q \notin Range(Natives) /\ p \in Package
      /\ Implementation(p) \in source.files /\ Implementation(p) \in Range(list)
  BY DEF Loads, Waiting, Target
<1>3. Range(entries) = Range(list)
  BY AllLinked
<1> HIDE DEF q, p
<1>4. Home(p) \in Range(entries) /\ \E u \in Range(entries) : q \in Declared[u]
  BY <1>1, <1>2 DEF Merged, Homes, q, p
<1>5. PICK u \in Range(entries) : q \in Declared[u]
  BY <1>4
<1>6. u \in Unit /\ u.package = p
  BY <1>1, <1>5, Contents DEF Range, p
<1>7. u = Header(p) \/ u = Implementation(p)
  BY <1>2, <1>6, HomeUnits
<1>8. q \in Defines[Header(p)] \cup Defines[Implementation(p)]
  BY <1>1, <1>2, <1>5, <1>7 DEF FilesComplete
<1>9. Header(p) \in Range(entries) /\ Implementation(p) \in Range(entries)
  BY <1>2, <1>3, <1>4, HomeUnits
<1> QED
  BY <1>1, <1>2, <1>8, <1>9 DEF Merged, Remembered, q

LEMMA RestStart ==
    ASSUME Loads, [Next]_vars, Start
    PROVE  Rest'
<1>1. /\ phase = "link" /\ linking \notin DOMAIN list /\ phase' = "run" /\ pending' = 0
      /\ running' = IF pending = 0
                    THEN <<[unit |-> MainUnit, called |-> TopLevel, index |-> 0]>>
                    ELSE <<Activation(pending, functions[pending].name)>> \o running
      /\ UNCHANGED <<list, entries, functions, error>>
  BY DEF Start
<1>2. Running'
  <2>1. CASE pending = 0
    <3> DEFINE a == [unit |-> MainUnit, called |-> TopLevel, index |-> 0]
    <3>1. MainUnit \in Range(entries)
      BY <1>1, <2>1, AllLinked DEF Loads, Waiting, Target
    <3>2. a \in Activations /\ a.unit = MainUnit /\ a.called = TopLevel
      BY UnitKinds DEF Activations, TopLevel, QualifiedName
    <3>3. running' = <<a>>
      BY <1>1, <2>1
    <3> HIDE DEF a
    <3>4. running' \in Seq(Activations) /\ DOMAIN running' = {1} /\ running'[1] = a
      BY <3>2, <3>3
    <3> QED BY <1>1, <3>1, <3>2, <3>4 DEF Running
  <2>2. CASE pending # 0
    <3> DEFINE a == Activation(pending, functions[pending].name)
               q == functions[pending].name
    <3>1. /\ pending \in DOMAIN functions /\ functions[pending].unit \in Range(entries)
          /\ q \in Defines[functions[pending].unit]
      BY <1>1, <2>2, PendingFound
    <3>2. functions \in Seq(FunctionEntry) /\ running \in Seq(Activations) /\ entries \in Seq(Unit)
      BY LoadsTypes
    <3>3. functions[pending].unit \in Unit
      BY <3>1, <3>2 DEF Range
    <3>4. q \in QualifiedName /\ pending \in Nat
      <4>1. functions[pending] \in FunctionEntry /\ pending \in Nat
        BY <3>1, <3>2
      <4> QED BY <4>1 DEF FunctionEntry
    <3> HIDE DEF q
    <3>5. a \in Activations /\ a.unit = functions[pending].unit /\ a.called = q
      BY <3>3, <3>4 DEF Activation, Activations, q
    <3>6. running' = <<a>> \o running
      BY <1>1, <2>2
    <3> HIDE DEF a
    <3>7. /\ running' \in Seq(Activations) /\ Len(running') = Len(running) + 1
          /\ running'[1] = a
          /\ \A i \in 1..Len(running) : running'[i + 1] = running[i]
      BY <3>2, <3>5, <3>6, StackPush
    <3>8. ASSUME NEW i \in DOMAIN running'
          PROVE  /\ running'[i].unit \in Range(entries)
                 /\ \/ running'[i].called = TopLevel /\ running'[i].unit = MainUnit
                    \/ running'[i].called \in Defines[running'[i].unit]
      <4>1. CASE i = 1
        BY <3>1, <3>5, <3>7, <4>1
      <4>2. CASE i # 1
        <5>1. i - 1 \in 1..Len(running) /\ (i - 1) + 1 = i /\ i - 1 \in DOMAIN running
          BY <3>2, <3>7, <4>2
        <5>2. running'[i] = running[i - 1]
          BY <3>7, <5>1
        <5> QED BY <5>1, <5>2 DEF Loads, Running
      <4> QED BY <4>1, <4>2
    <3> QED BY <1>1, <3>7, <3>8, LoadsTypes DEF Running
  <2> QED BY <2>1, <2>2
<1>3. error # "load"
  BY <1>1 DEF Loads, Waiting
<1>4. Just'
  BY <1>1, <1>3 DEF Just
<1> QED
  BY <1>1, <1>2, <1>3, <1>4, RestIdle

(* A call finds the entry of what it names.                                *)
LEMMA CallFinds ==
    ASSUME Loads, phase = "run", running # <<>>,
           NEW i \in DOMAIN FunctionTable(Head(running).unit)
    PROVE  /\ Callee(Head(running).unit, i) \in DOMAIN functions
           /\ functions[Callee(Head(running).unit, i)].name =
                 FunctionTable(Head(running).unit)[i]
           /\ functions[Callee(Head(running).unit, i)].name \in QualifiedName
           /\ Callee(Head(running).unit, i) \in Nat \ {0}
<1> DEFINE u == Head(running).unit
           q == FunctionTable(u)[i]
<1>1. /\ source \in Programs /\ entries \in Seq(Unit) /\ functions \in Seq(FunctionEntry)
      /\ running \in Seq(Activations)
  BY DEF Loads, Supply, Order, Merged, Entered, Running
<1>2. u \in Range(entries)
  <2>1. Head(running) = running[1] /\ 1 \in DOMAIN running
    BY <1>1, StackParts
  <2> QED BY <2>1 DEF Loads, Running
<1>3. u \in Sound /\ u \in Unit
  BY <1>1, <1>2, AllLinked DEF Loads, Listed, Sound
<1>4. q \in Range(Tables[u])
  BY <1>1, <1>3, Contents DEF Range
<1>5. \E k \in DOMAIN functions : functions[k].name = q
  BY <1>2, <1>4 DEF Loads, Merged, Entered
<1> HIDE DEF u, q
<1>6. Index(functions, q) \in DOMAIN functions /\ functions[Index(functions, q)].name = q
  BY <1>1, <1>5, IndexFinds
<1> DEFINE k == Index(functions, q)
<1> HIDE DEF k
<1>7. functions[k] \in FunctionEntry /\ k \in Nat \ {0}
  BY <1>1, <1>6 DEF k
<1>8. functions[k].name \in QualifiedName
  BY <1>7 DEF FunctionEntry
<1>9. Callee(Head(running).unit, i) = k
  BY DEF Callee, k, u, q
<1> QED
  BY <1>6, <1>7, <1>8, <1>9 DEF k, q, u

LEMMA RestCall ==
    ASSUME Loads, [Next]_vars, running # <<>>,
           NEW i \in DOMAIN FunctionTable(Head(running).unit), Call(i)
    PROVE  Rest'
<1> DEFINE k == Callee(Head(running).unit, i)
           q == functions[k].name
           p == q.package
<1>1. phase = "run" /\ q \notin Range(Natives)
  BY DEF Call
<1>2. /\ k \in DOMAIN functions /\ k \in Nat \ {0} /\ q = FunctionTable(Head(running).unit)[i]
      /\ q \in QualifiedName
  BY <1>1, CallFinds
<1>3. /\ source \in Programs /\ functions \in Seq(FunctionEntry) /\ entries \in Seq(Unit)
      /\ running \in Seq(Activations)
  BY LoadsTypes
<1>4. p \in Package \cup {Main}
  BY <1>2 DEF QualifiedName
<1>5. /\ Home(p) \in Range(entries)
      /\ q \in Defines[Home(p)] => functions[k].implemented
      /\ functions[k].implemented => \E u \in Range(entries) : q \in Defines[u]
  BY <1>1, <1>2 DEF Loads, Merged, Homes
<1>6. error # "load"
  BY <1>1 DEF Loads, Waiting
<1>7. CASE functions[k].implemented
  <2> DEFINE a == Activation(k, FunctionTable(Head(running).unit)[i])
  <2>1. /\ running' = <<a>> \o running
        /\ UNCHANGED <<phase, list, entries, functions, pending, error>>
    BY <1>7 DEF Call
  <2>2. functions[k].unit \in Range(entries) /\ q \in Defines[functions[k].unit]
    BY <1>2, <1>5, <1>7 DEF Loads, Merged, Remembered
  <2>3. functions[k].unit \in Unit
    BY <1>3, <2>2 DEF Range
  <2>4. a = [unit |-> functions[k].unit, called |-> q, index |-> k]
    BY <1>2 DEF Activation
  <2> HIDE DEF a, q, k
  <2>5. a \in Activations /\ a.unit = functions[k].unit /\ a.called = q
    BY <1>2, <2>3, <2>4 DEF Activations
  <2>6. /\ running' \in Seq(Activations) /\ Len(running') = Len(running) + 1
        /\ running'[1] = a
        /\ \A j \in 1..Len(running) : running'[j + 1] = running[j]
    BY <1>3, <2>1, <2>5, StackPush
  <2>7. ASSUME NEW j \in DOMAIN running'
        PROVE  /\ running'[j].unit \in Range(entries)
               /\ \/ running'[j].called = TopLevel /\ running'[j].unit = MainUnit
                  \/ running'[j].called \in Defines[running'[j].unit]
    <3>1. CASE j = 1
      BY <2>2, <2>5, <2>6, <3>1
    <3>2. CASE j # 1
      <4>1. j - 1 \in 1..Len(running) /\ (j - 1) + 1 = j /\ j - 1 \in DOMAIN running
        BY <1>3, <2>6, <3>2
      <4>2. running'[j] = running[j - 1]
        BY <2>6, <4>1
      <4> QED BY <4>1, <4>2 DEF Loads, Running
    <3> QED BY <3>1, <3>2
  <2>8. Running'
    BY <2>1, <2>6, <2>7, LoadsTypes DEF Running
  <2>9. Just'
    BY <1>6, <2>1 DEF Just
  <2>10. pending \in {0} \cup DOMAIN functions
    BY DEF Loads, Waiting
  <2> QED BY <1>1, <1>6, <2>1, <2>8, <2>9, <2>10, RestIdle
<1>8. CASE ~functions[k].implemented /\ (p = Main \/ Implementation(p) \notin source.files)
  <2>1. /\ phase' = "error" /\ error' = "load" /\ pending' = k
        /\ UNCHANGED <<list, entries, functions, running>>
    BY <1>8 DEF Call, Load
  (* No linked unit has the function. *)
  <2>2. ASSUME NEW u \in Range(entries), q \in Defines[u]
        PROVE  FALSE
    <3>0. u \in Unit
      BY <1>3 DEF Range
    <3>1. u \in Unit /\ u \in Range(list) /\ u.package = p
      BY <1>3, <2>2, <3>0, AllLinked, Contents
    <3>2. u # Home(p)
      BY <1>5, <1>8, <2>2
    <3>3. p \in Package /\ u = Implementation(p)
      BY <3>1, <3>2, HomeUnits
    <3>4. u \in source.files
      BY <3>1, <3>3, HomeUnits DEF Loads, Listed
    <3> QED BY <1>8, <3>3, <3>4, HomeUnits
  <2>3. Just'
    BY <2>1, <2>2, LoadsTypes DEF Just
  <2>4. Running'
    BY <2>1, LoadsTypes DEF Loads, Running
  <2> HIDE DEF k, q, p
  <2> QED BY <1>2, <2>1, <2>3, <2>4, RestIdle
<1>9. CASE ~functions[k].implemented /\ ~(p = Main \/ Implementation(p) \notin source.files)
  <2>1. /\ phase' = "compile" /\ pending' = k
        /\ compiling' = <<[unit |-> Implementation(p), next |-> 0]>>
        /\ UNCHANGED <<list, entries, functions, running, error>>
    BY <1>9 DEF Call, Load
  <2>2. p \in Package /\ Implementation(p) \in Unit /\ Implementation(p) \in source.files
    BY <1>4, <1>9, UnitKinds
  <2> HIDE DEF k, p
  <2>3. /\ Len(compiling') = 1 /\ DOMAIN compiling' = {1}
        /\ compiling'[1].unit = Implementation(p)
    BY <2>1, <2>2, FirstCompilation
  <2>4. Listed'
    BY <2>1, <2>2, <2>3, LoadsTypes DEF Loads, Listed
  <2>5. HeadersEntered'
    <3>1. Header(p) \in Range(entries)
      BY <1>5, <2>2, HomeUnits
    <3>2. \A r \in Package : Implementation(r) = Implementation(p) => r = p
      BY <2>2, UnitKinds
    <3> QED BY <2>1, <2>3, <3>1, <3>2 DEF Loads, HeadersEntered
  <2>6. Waiting'
    <3>1. Target' = Implementation(p)
      BY <1>2, <2>1 DEF Target, p
    <3> QED BY <1>1, <1>2, <1>6, <2>1, <2>2, <2>3, <3>1, LoadsTypes DEF Waiting, p
  <2>7. Running'
    BY <2>1, LoadsTypes DEF Loads, Running
  <2>8. Just'
    BY <1>6, <2>1 DEF Just
  <2> QED BY <2>4, <2>5, <2>6, <2>7, <2>8 DEF Rest
<1> QED BY <1>7, <1>8, <1>9

LEMMA LoadsNext ==
    ASSUME Loads, [Next]_vars
    PROVE  Loads'
<1>0. pending \in {0} \cup DOMAIN functions /\ (phase # "error" => error # "load")
  BY DEF Loads, Waiting
<1>1. CASE UNCHANGED vars
  <2>1. UNCHANGED <<source, phase, compiling, list, entries, functions, running, pending, error>>
    BY <1>1 DEF vars
  <2>2. Running'
    BY <2>1, LoadsTypes DEF Loads, Running
  <2>3. Just'
    BY <2>1, LoadsTypes DEF Loads, Just
  <2>4. Listed' /\ HeadersEntered'
    BY <2>1, LoadsTypes DEF Loads, Listed, HeadersEntered
  <2>5. Waiting'
    BY <2>1 DEF Loads, Waiting, Target
  <2>6. Rest'
    BY <2>2, <2>3, <2>4, <2>5 DEF Rest
  <2> QED BY <2>6, MergedNext, LoadsTypes DEF Loads, Rest
<1>2. CASE Dispose
  <2>1. /\ phase = "link" /\ UNCHANGED <<phase, list, entries, functions, running, pending, error>>
    BY <1>2 DEF Dispose
  <2>2. Running'
    BY <2>1, LoadsTypes DEF Loads, Running
  <2>3. Just'
    BY <1>0, <2>1 DEF Just
  <2>4. Rest'
    BY <1>0, <2>1, <2>2, <2>3, RestIdle
  <2> QED BY <2>4, MergedNext, LoadsTypes DEF Loads, Rest
<1>3. CASE Return
  <2>1. /\ phase = "run" /\ Len(running) > 1 /\ running' = Tail(running)
        /\ UNCHANGED <<phase, list, entries, functions, pending, error>>
    BY <1>3 DEF Return
  <2>2. running \in Seq(Activations) /\ running # <<>>
    BY <2>1, LoadsTypes
  <2> DEFINE t == Tail(running)
  <2>3. /\ t \in Seq(Activations) /\ Len(t) = Len(running) - 1 /\ running' = t
        /\ Len(running) \in Nat /\ DOMAIN running = 1..Len(running)
        /\ \A i \in 1..(Len(running) - 1) : t[i] = running[i + 1]
    BY <2>1, <2>2, StackParts
  <2> HIDE DEF t
  <2>4. \A i \in DOMAIN t : t[i] = running[i + 1] /\ i + 1 \in DOMAIN running
    BY <2>3
  <2>5. Running'
    BY <2>1, <2>3, <2>4, LoadsTypes DEF Loads, Running
  <2>6. Just'
    BY <1>0, <2>1 DEF Just
  <2>7. Rest'
    BY <1>0, <2>1, <2>5, <2>6, RestIdle
  <2> QED BY <2>7, MergedNext, LoadsTypes DEF Loads, Rest
<1>4. CASE Parse \/ Require \/ Generate \/ NullType \/ Link \/ Start
  <2>1. Rest'
    BY <1>4, RestNullType, RestParse, RestRequire, RestGenerate, RestLink, RestStart
  <2> QED BY <2>1, MergedNext, LoadsTypes DEF Loads, Rest
<1>5. ASSUME running # <<>>, NEW i \in DOMAIN FunctionTable(Head(running).unit), Call(i)
      PROVE  Loads'
  <2>1. Rest'
    BY <1>5, RestCall
  <2> QED BY <2>1, MergedNext, LoadsTypes DEF Loads, Rest
<1> QED
  BY <1>1, <1>2, <1>3, <1>4, <1>5 DEF Next, Loading

-----------------------------------------------------------------------------
(* What follows.                                                           *)

LEMMA LoadsDefinition ==
    ASSUME Loads
    PROVE  RunsDefinition /\ LoadFailsJustly
<1>1. source \in Programs /\ entries \in Seq(Unit) /\ running \in Seq(Activations)
  BY DEF Loads, Supply, Order, Running
<1>2. Range(entries) \subseteq Unit
  BY <1>1 DEF Range
<1>3. RunsDefinition
  BY <1>1, <1>2, Contents DEF Loads, Running, RunsDefinition
<1>4. LoadFailsJustly
  BY <1>1, <1>2, Contents DEF Loads, Just, LoadFailsJustly
<1> QED
  BY <1>3, <1>4

LEMMA LoadsOne ==
    ASSUME Loads
    PROVE  OneDefinition
<1>1. source \in Programs /\ entries \in Seq(Unit)
  BY DEF Loads, Supply, Order
<1>2. Range(entries) \subseteq Unit
  BY <1>1 DEF Range
<1>3. ASSUME NEW k \in DOMAIN functions
      PROVE  Cardinality({u \in Range(entries) : Implements(u, functions[k].name)}) <= 1
  <2> DEFINE D == {u \in Range(entries) : Implements(u, functions[k].name)}
  <2>1. \A u, v \in D : u = v
    BY <1>1, <1>2, Contents DEF Loads, Merged, Once
  <2> HIDE DEF D
  <2>2. Cardinality(D) <= 1
    <3>1. CASE D = {}
      <4>1. Cardinality(D) = 0
        BY <3>1, FS_EmptySet
      <4> QED BY <4>1
    <3>2. CASE D # {}
      <4>1. PICK u \in D : D = {u}
        BY <2>1, <3>2
      <4>2. Cardinality(D) = 1
        BY <4>1, FS_Singleton
      <4> QED BY <4>2
    <3> QED BY <3>1, <3>2
  <2> QED BY <2>2 DEF D
<1>4. ASSUME NEW k \in DOMAIN functions, functions[k].name \in Range(Natives)
      PROVE  \A u \in Range(entries) : ~Implements(u, functions[k].name)
  BY <1>1, <1>2, <1>4, Contents DEF Loads, Merged, Once
<1> QED
  BY <1>3, <1>4 DEF OneDefinition

(* The code that runs for a function is a definition of that function in a *)
(* linked unit, whatever was loaded when, if headers do not require each   *)
(* other in a circle and the files of implementations are complete.        *)
THEOREM DefinitionRuns == Spec /\ HeadersOrdered /\ FilesComplete => []RunsDefinition
<1>1. Init /\ HeadersOrdered /\ FilesComplete => Loads
  BY LoadsInit
<1>2. Loads /\ [Next]_vars => Loads'
  BY LoadsNext
<1>3. Loads => RunsDefinition
  BY LoadsDefinition
<1> QED
  BY <1>1, <1>2, <1>3, PTL DEF Spec

(* Two definitions of one function never both get linked, and none of a    *)
(* native function, although a function that was only declared keeps its   *)
(* mark when it is implemented: after the header, which is linked first,   *)
(* and the implementation, a package has no third file to define it again. *)
THEOREM DefinedOnce == Spec /\ HeadersOrdered /\ FilesComplete => []OneDefinition
<1>1. Init /\ HeadersOrdered /\ FilesComplete => Loads
  BY LoadsInit
<1>2. Loads /\ [Next]_vars => Loads'
  BY LoadsNext
<1>3. Loads => OneDefinition
  BY LoadsOne
<1> QED
  BY <1>1, <1>2, <1>3, PTL DEF Spec

(* A dynamic load fails for want of a file only if no linked unit has the  *)
(* function.                                                               *)
THEOREM FailsJustly == Spec /\ HeadersOrdered /\ FilesComplete => []LoadFailsJustly
<1>1. Init /\ HeadersOrdered /\ FilesComplete => Loads
  BY LoadsInit
<1>2. Loads /\ [Next]_vars => Loads'
  BY LoadsNext
<1>3. Loads => LoadFailsJustly
  BY LoadsDefinition
<1> QED
  BY <1>1, <1>2, <1>3, PTL DEF Spec

-----------------------------------------------------------------------------
(* The constants of the machine.                                           *)

ConstantEntry == [name : QualifiedName, defined : BOOLEAN, value : QualifiedName]

(* The constants that each unit defines.                                   *)
Owned == [u \in Unit |-> OwnConstants(u)]

(* A unit that defines constants defines none twice, its methods read      *)
(* none, and its initializers but the last only constants of the unit      *)
(* before their own: any other would come before own ones in its table,    *)
(* and the initializer of its i-th constant stores through the i-th index. *)
ConstantsFirst == \A u \in Unit : source.constants[u] # <<>> => OwnFirst(u)

LEMMA OwnedType ==
    ASSUME source \in Programs, NEW u \in Unit
    PROVE  /\ Owned[u] = OwnConstants(u) /\ Owned[u] \in Seq(QualifiedName)
           /\ DOMAIN Owned[u] = DOMAIN source.constants[u]
  BY OwnConstantsType DEF Owned

LEMMA OwnedFirst ==
    ASSUME source \in Programs, ConstantsFirst, NEW u \in Sound
    PROVE  \A i \in DOMAIN Owned[u] :
              i \in DOMAIN ConstantTable(u) /\ ConstantTable(u)[i] = Owned[u][i]
<1>1. u \in Unit /\ ~IdentifierNotFound(u)
  BY DEF Sound
<1>2. CASE source.constants[u] = <<>>
  BY <1>1, <1>2, OwnedType
<1>3. CASE source.constants[u] # <<>>
  <2>1. OwnFirst(u)
    BY <1>1, <1>3 DEF ConstantsFirst
  <2> QED BY <1>1, <2>1, OwnedType, OwnConstantsFirst
<1> QED BY <1>2, <1>3

(* What merging a unit does to the table of constants: names stay, what    *)
(* had its value keeps it, and what u defines gets it.                     *)
Initializes(C, u) ==
    /\ \A k \in DOMAIN constants :
          /\ k \in DOMAIN C /\ C[k].name = constants[k].name
          /\ constants[k].value = constants[k].name => C[k].value = C[k].name
    /\ \A q \in Range(Owned[u]) : \E k \in DOMAIN C : C[k].name = q /\ C[k].value = q

LEMMA Initialized ==
    ASSUME source \in Programs, constants \in Seq(ConstantEntry), NEW u \in Sound
    PROVE  /\ InitializeConstants(AddConstants(u), u) \in Seq(ConstantEntry)
           /\ ConstantsFirst => Initializes(InitializeConstants(AddConstants(u), u), u)
<1> DEFINE table == ConstantTable(u)
           new == Missing(constants, table)
           second == [i \in DOMAIN new |->
                        [name |-> new[i], defined |-> IsDefined(u, new[i]), value |-> NoValue]]
           T == AddConstants(u)
           stored(k) == {i \in DOMAIN OwnConstants(u) : T[k].name = ConstantTable(u)[i]}
           C == InitializeConstants(T, u)
<1>1. u \in Unit /\ ~IdentifierNotFound(u)
  BY DEF Sound
<1>2. /\ table \in Seq(QualifiedName) /\ Range(OwnConstants(u)) \subseteq Range(table)
      /\ Owned[u] = OwnConstants(u) /\ Owned[u] \in Seq(QualifiedName)
  BY <1>1, ConstantTableNames, OwnedType
<1>3. T = constants \o second
  BY DEF AddConstants
<1> HIDE DEF table
<1>4. /\ new \in Seq(QualifiedName)
      /\ \A q \in Range(table) : \/ \E k \in DOMAIN constants : constants[k].name = q
                                 \/ q \in Range(new)
  BY <1>2, MissingNames
<1> HIDE DEF new
<1>5. \A i \in DOMAIN new : second[i] \in ConstantEntry /\ second[i].name = new[i]
  <2> TAKE i \in DOMAIN new
  <2>1. new[i] \in QualifiedName
    BY <1>4
  <2>2. NoValue \in QualifiedName
    BY DEF NoValue, TopLevel, QualifiedName
  <2>3. IsDefined(u, new[i]) \in BOOLEAN
    BY DEF IsDefined
  <2>4. second[i] = [name |-> new[i], defined |-> IsDefined(u, new[i]), value |-> NoValue]
    OBVIOUS
  <2> HIDE DEF second
  <2> QED BY <2>1, <2>2, <2>3, <2>4 DEF ConstantEntry
<1>6. /\ second = [i \in 1..Len(new) |-> second[i]] /\ DOMAIN second = 1..Len(new)
      /\ DOMAIN new = 1..Len(new) /\ Len(new) \in Nat
  BY <1>4
<1> HIDE DEF second
<1>7. second \in Seq(ConstantEntry) /\ Len(second) = Len(new)
  <2>1. second \in Seq(ConstantEntry)
    BY <1>5, <1>6, IsASeq
  <2> QED BY <1>6, <2>1
<1> HIDE DEF T
<1>8. /\ T \in Seq(ConstantEntry)
      /\ \A k \in DOMAIN constants : k \in DOMAIN T /\ T[k] = constants[k]
      /\ \A i \in DOMAIN new : /\ Len(constants) + i \in DOMAIN T
                               /\ T[Len(constants) + i] = second[i]
  BY <1>3, <1>6, <1>7, ConcatElements
<1>9. \A q \in Range(table) : \E k \in DOMAIN T : T[k].name = q
  <2> TAKE q \in Range(table)
  <2>1. CASE \E k \in DOMAIN constants : constants[k].name = q
    BY <1>8, <2>1
  <2>2. CASE q \in Range(new)
    <3>1. PICK i \in DOMAIN new : q = new[i]
      BY <2>2 DEF Range
    <3> QED BY <1>5, <1>8, <3>1
  <2> QED BY <1>4, <2>1, <2>2
<1>10. /\ DOMAIN C = DOMAIN T
       /\ \A k \in DOMAIN T :
             C[k] = IF stored(k) = {} THEN T[k]
                    ELSE [T[k] EXCEPT !.value = OwnConstants(u)[CHOOSE i \in stored(k) : TRUE]]
  BY DEF InitializeConstants
<1> HIDE DEF C
<1>11. ASSUME NEW k \in DOMAIN T
       PROVE  /\ C[k] \in ConstantEntry /\ C[k].name = T[k].name
              /\ stored(k) = {} => C[k].value = T[k].value
              /\ stored(k) # {} => \E i \in stored(k) : C[k].value = Owned[u][i]
  <2>1. T[k] \in ConstantEntry
    BY <1>8
  <2>2. \A e \in ConstantEntry : \A v \in QualifiedName :
           /\ [e EXCEPT !.value = v] \in ConstantEntry
           /\ [e EXCEPT !.value = v].name = e.name
           /\ [e EXCEPT !.value = v].value = v
    BY DEF ConstantEntry
  <2>3. CASE stored(k) = {}
    BY <1>10, <2>1, <2>3
  <2>4. CASE stored(k) # {}
    <3> DEFINE i == CHOOSE j \in stored(k) : TRUE
    <3>1. i \in stored(k)
      BY <2>4
    <3>2. i \in DOMAIN OwnConstants(u)
      BY <3>1
    <3>3. C[k] = [T[k] EXCEPT !.value = OwnConstants(u)[i]]
      BY <1>10, <2>4
    <3> HIDE DEF i, stored
    <3>4. OwnConstants(u)[i] \in QualifiedName /\ OwnConstants(u)[i] = Owned[u][i]
      BY <1>2, <3>2
    <3>5. C[k] \in ConstantEntry /\ C[k].name = T[k].name /\ C[k].value = Owned[u][i]
      BY <2>1, <2>2, <3>3, <3>4
    <3> QED BY <2>4, <3>1, <3>5
  <2> QED BY <2>3, <2>4
<1>12. C \in Seq(ConstantEntry)
  <2>1. DOMAIN T = 1..Len(T) /\ Len(T) \in Nat
    BY <1>8
  <2>2. C = [k \in 1..Len(T) |-> C[k]]
    BY <1>10, <2>1 DEF C, InitializeConstants
  <2> HIDE DEF stored
  <2> QED BY <1>11, <2>1, <2>2, IsASeq
<1>13. ASSUME ConstantsFirst
       PROVE  Initializes(C, u)
  <2>1. \A i \in DOMAIN OwnConstants(u) : table[i] = Owned[u][i]
    BY <1>2, <1>13, OwnedFirst DEF table
  <2>2. ASSUME NEW k \in DOMAIN T
        PROVE  /\ T[k].value = T[k].name => C[k].value = C[k].name
               /\ T[k].name \in Range(Owned[u]) => C[k].value = C[k].name
    <3>1. CASE stored(k) = {}
      <4>1. \A i \in DOMAIN Owned[u] : T[k].name # Owned[u][i]
        BY <1>2, <2>1, <3>1 DEF table
      <4>2. T[k].name \notin Range(Owned[u])
        BY <4>1 DEF Range
      <4> QED BY <1>11, <3>1, <4>2
    <3>2. CASE stored(k) # {}
      <4>1. PICK i \in stored(k) : C[k].value = Owned[u][i]
        BY <1>11, <3>2
      <4>2. Owned[u][i] = T[k].name
        BY <2>1, <4>1 DEF table
      <4> QED BY <1>11, <4>1, <4>2
    <3> QED BY <3>1, <3>2
  <2> HIDE DEF stored
  <2>3. ASSUME NEW k \in DOMAIN constants
        PROVE  /\ k \in DOMAIN C /\ C[k].name = constants[k].name
               /\ constants[k].value = constants[k].name => C[k].value = C[k].name
    BY <1>8, <1>10, <1>11, <2>2
  <2>4. ASSUME NEW q \in Range(Owned[u])
        PROVE  \E k \in DOMAIN C : C[k].name = q /\ C[k].value = q
    <3>1. PICK k \in DOMAIN T : T[k].name = q
      BY <1>2, <1>9
    <3> QED BY <1>10, <1>11, <2>2, <3>1
  <2> QED BY <2>3, <2>4 DEF Initializes
<1> QED BY <1>12, <1>13 DEF C, T

(* Types of what the rest of the invariant leaves out.                     *)
Typed == constants \in Seq(ConstantEntry) /\ visiting \in Seq(Unit)

LEMMA TypedNext ==
    ASSUME Loads, Typed, [Next]_vars
    PROVE  Typed'
<1>1. constants' \in Seq(ConstantEntry)
  <2>1. CASE Link /\ ~MultipleDefine(list[linking])
    <3> DEFINE u == list[linking]
    <3>1. /\ linking \in DOMAIN list
          /\ constants' = InitializeConstants(AddConstants(u), u)
      BY <2>1 DEF Link, ReadyToLink
    <3>2. u \in Sound /\ source \in Programs
      BY <3>1, LoadsTypes DEF Loads, Listed, Range
    <3> HIDE DEF u
    <3> QED BY <3>1, <3>2, Initialized DEF Typed
  <2>2. CASE ~(Link /\ ~MultipleDefine(list[linking]))
    BY <2>2, Unlinked DEF Typed
  <2> QED BY <2>1, <2>2
<1>2. visiting' \in Seq(Unit)
  <2>1. CASE Generate
    <3>1. CASE UNCHANGED visiting
      BY <3>1 DEF Typed
    <3>2. CASE visiting' = <<>>
      BY <3>2
    <3>3. CASE visiting' = <<Compiler.unit>>
      <4>1. Compiler.unit \in Unit
        BY <2>1, LoadsTypes, CompilerParts DEF Generate, ReadyToGenerate
      <4> QED BY <3>3, <4>1
    <3> QED BY <2>1, <3>1, <3>2, <3>3 DEF Generate, Fail
  <2>2. CASE Dispose
    <3> DEFINE u == Head(visiting)
               required == [i \in DOMAIN RequireList(u) |-> Header(RequireList(u)[i])]
    <3>1. visiting # <<>> /\ visiting' = required \o Tail(visiting) /\ source \in Programs
      BY <2>2, LoadsTypes DEF Dispose, Visit
    <3>2. u \in Unit /\ Tail(visiting) \in Seq(Unit)
      BY <3>1, StackParts DEF Typed
    <3> HIDE DEF u
    <3>3. RequireList(u) \in Seq(Package)
      BY <3>1, <3>2, RequireListType
    <3>4. /\ Len(RequireList(u)) \in Nat
          /\ required = [i \in 1..Len(RequireList(u)) |-> Header(RequireList(u)[i])]
          /\ \A i \in 1..Len(RequireList(u)) : Header(RequireList(u)[i]) \in Unit
      BY <3>3, UnitKinds
    <3>5. required \in Seq(Unit)
      BY <3>4, IsASeq
    <3> HIDE DEF required
    <3> QED BY <3>1, <3>2, <3>5, ConcatProperties
  <2>3. CASE ~(Generate \/ Dispose)
    <3>1. CASE UNCHANGED vars
      BY <3>1 DEF vars, Typed
    <3>2. CASE Parse
      BY <3>2 DEF Parse, Fail, Typed
    <3>3. CASE Require \/ NullType
      BY <3>3 DEF Require, NullType, Fail, Typed
    <3>4. CASE Link
      BY <3>4 DEF Link, Fail, Typed
    <3>5. CASE Start
      BY <3>5 DEF Start, Typed
    <3>6. ASSUME NEW i, Call(i)
          PROVE  visiting' \in Seq(Unit)
      BY <3>6 DEF Call, Load, Typed
    <3>7. CASE Return
      BY <3>7 DEF Return, Typed
    <3> QED BY <2>3, <3>1, <3>2, <3>3, <3>4, <3>5, <3>6, <3>7 DEF Next, Loading
  <2> QED BY <2>1, <2>2, <2>3
<1> QED
  BY <1>1, <1>2 DEF Typed

LEMMA LoadsTypeOK ==
    ASSUME Loads, Typed
    PROVE  TypeOK
<1>1. /\ phase \in {"compile", "link", "run", "error"}
      /\ compiling \in Seq(Compilation) /\ known \in Seq(Package)
      /\ list \in Seq(Unit) /\ entries \in Seq(Unit) /\ linking \in Nat
  BY DEF Loads, Supply, Order
<1>2. /\ functions \in Seq(FunctionEntry) /\ running \in Seq(Activations)
      /\ pending \in {0} \cup DOMAIN functions
  BY DEF Loads, Merged, Entered, Running, Waiting
<1>3. \A k \in DOMAIN functions : /\ functions[k].implemented \in BOOLEAN
                                  /\ functions[k].unit \in Unit \cup {NoUnit}
  <2> TAKE k \in DOMAIN functions
  <2>1. functions[k] \in FunctionEntry
    BY <1>2
  <2> QED BY <2>1 DEF FunctionEntry
<1>4. \A k \in DOMAIN constants : constants[k].defined \in BOOLEAN
  <2> TAKE k \in DOMAIN constants
  <2>1. constants[k] \in ConstantEntry
    BY DEF Typed
  <2> QED BY <2>1 DEF ConstantEntry
<1>5. \A i \in DOMAIN running : running[i].unit \in Unit
  <2> TAKE i \in DOMAIN running
  <2>1. running[i] \in Activations
    BY <1>2
  <2> QED BY <2>1 DEF Activations
<1>6. pending \in 0..Len(functions)
  <2>1. DOMAIN functions = 1..Len(functions) /\ Len(functions) \in Nat
    BY <1>2
  <2> QED BY <1>2, <2>1
<1> QED
  BY <1>1, <1>3, <1>4, <1>5, <1>6 DEF TypeOK, Typed, Compilation

(* The state has its types: in particular code never runs for a function   *)
(* that no linked unit has a body of.                                      *)
THEOREM Types == Spec /\ HeadersOrdered /\ FilesComplete => []TypeOK
<1>1. Init /\ HeadersOrdered /\ FilesComplete => Loads /\ Typed
  <2>1. Init => Typed
    BY DEF Init, Typed
  <2> QED BY <2>1, LoadsInit
<1>2. Loads /\ Typed /\ [Next]_vars => (Loads /\ Typed)'
  BY LoadsNext, TypedNext
<1>3. Loads /\ Typed => TypeOK
  BY LoadsTypeOK
<1> QED
  BY <1>1, <1>2, <1>3, PTL DEF Spec

(* Every constant of a linked unit is in the machine, with its own value.  *)
Valued ==
    \A u \in Range(entries) : \A q \in Range(Owned[u]) :
        \E k \in DOMAIN constants : constants[k].name = q /\ constants[k].value = q

LEMMA ValuedNext ==
    ASSUME Loads, Typed, ConstantsFirst, Valued, [Next]_vars
    PROVE  Valued' /\ ConstantsFirst'
<1>1. source' = source /\ source \in Programs /\ entries \in Seq(Unit) /\ list \in Seq(Unit)
  BY LoadsTypes
<1>2. Owned' = Owned
  BY <1>1, SMT DEF Owned, OwnConstants
<1>3. ConstantsFirst'
  <2>1. ASSUME NEW u \in Unit
        PROVE  source'.constants[u] # << >> => OwnFirst(u)'
    <3>1. source.constants[u] # << >> => OwnFirst(u)
      BY DEF ConstantsFirst
    <3> DEFINE First(x) ==
                   /\ x.reads[u].early = <<>>
                   /\ \A i, j \in DOMAIN x.constants[u] :
                         x.constants[u][i].name = x.constants[u][j].name => i = j
                   /\ \A i \in DOMAIN x.constants[u] :
                         i < Len(x.constants[u]) =>
                            \A name \in Range(x.constants[u][i].reads) :
                                \E j \in 1..i : x.constants[u][j].name = name
    <3>2. First(source) = OwnFirst(u)
      BY DEF OwnFirst
    <3>3. First(source') = OwnFirst(u)'
      BY DEF OwnFirst
    <3> HIDE DEF First
    <3> QED BY ONLY <1>1, <3>1, <3>2, <3>3
  <2> QED BY <2>1 DEF ConstantsFirst
<1>4. CASE Link /\ ~MultipleDefine(list[linking])
  <2> DEFINE u == list[linking]
  <2>1. /\ linking \in DOMAIN list /\ entries' = Append(entries, u)
        /\ constants' = InitializeConstants(AddConstants(u), u)
    BY <1>4 DEF Link, ReadyToLink
  <2>2. u \in Sound /\ u \in Unit
    BY <1>1, <2>1 DEF Loads, Listed, Range
  <2> HIDE DEF u
  <2>3. Initializes(constants', u)
    BY <1>1, <2>1, <2>2, Initialized DEF Typed
  <2>4. \A v \in Range(entries') : v \in Range(entries) \/ v = u
    <3>1. /\ DOMAIN entries' = 1..(Len(entries) + 1) /\ entries'[Len(entries) + 1] = u
          /\ \A i \in 1..Len(entries) : entries'[i] = entries[i]
          /\ Len(entries) \in Nat /\ DOMAIN entries = 1..Len(entries)
      BY <1>1, <2>1, <2>2, AppendProperties
    <3> QED BY <3>1 DEF Range
  <2>5. ASSUME NEW v \in Range(entries'), NEW q \in Range(Owned[v])
        PROVE  \E k \in DOMAIN constants' : constants'[k].name = q /\ constants'[k].value = q
    <3>1. CASE v \in Range(entries)
      <4>1. PICK k \in DOMAIN constants : constants[k].name = q /\ constants[k].value = q
        BY <2>5, <3>1 DEF Valued
      <4> QED BY <2>3, <4>1 DEF Initializes
    <3>2. CASE v = u
      BY <2>3, <2>5, <3>2 DEF Initializes
    <3> QED BY <2>4, <3>1, <3>2
  <2> QED BY <1>2, <1>3, <2>5 DEF Valued
<1>5. CASE ~(Link /\ ~MultipleDefine(list[linking]))
  <2>1. entries' = entries /\ constants' = constants
    BY <1>5, Unlinked
  <2> QED BY <1>2, <1>3, <2>1 DEF Valued
<1> QED
  BY <1>4, <1>5

LEMMA ValuedReady ==
    ASSUME Loads, Valued
    PROVE  ConstantsReady
<1>1. source \in Programs /\ entries \in Seq(Unit)
  BY DEF Loads, Supply, Order
<1>2. ASSUME NEW u \in Range(entries), NEW q \in Range(ConstantTable(u))
      PROVE  \E k \in DOMAIN constants : constants[k].name = q /\ constants[k].value = q
  <2>1. u \in Unit /\ ~IdentifierNotFound(u)
    BY <1>1, AllLinked DEF Loads, Listed, Sound
  <2>2. PICK v \in Visible(u) : q \in Range(OwnConstants(v))
    BY <1>1, <2>1, ConstantTableNames DEF Range
  <2>3. v \in Range(entries)
    <3>1. PICK i \in DOMAIN entries : u = entries[i]
      BY DEF Range
    <3>2. CASE v = u
      BY <3>2
    <3>3. ASSUME NEW p \in Range(RequireList(u)), v = Header(p)
          PROVE  v \in Range(entries)
      <4>1. PICK j \in 1..(i - 1) : entries[j] = Header(p)
        BY <3>1, <3>3, SupplySuppliers DEF Loads, SuppliersFirst
      <4>2. j \in DOMAIN entries
        BY <1>1, <3>1, <4>1
      <4> QED BY <3>3, <4>1, <4>2 DEF Range
    <3> QED BY <3>2, <3>3 DEF Visible
  <2>4. q \in Range(Owned[v])
    BY <1>1, <2>1, <2>2, VisibleUnits, OwnedType
  <2> QED BY <2>3, <2>4 DEF Valued
<1> QED
  BY <1>2 DEF ConstantsReady

(* When code runs, every constant it can name has its own value, although  *)
(* the constants of a unit are merged by name and initialized by index.    *)
THEOREM ConstantsInitialized ==
    Spec /\ HeadersOrdered /\ FilesComplete /\ ConstantsFirst => []ConstantsReady
<1> DEFINE I == Loads /\ Typed /\ ConstantsFirst /\ Valued
<1>1. Init /\ HeadersOrdered /\ FilesComplete /\ ConstantsFirst => I
  <2>1. Init => Typed
    BY DEF Init, Typed
  <2>2. Init => Valued
    BY DEF Init, Valued, Range
  <2> QED BY <2>1, <2>2, LoadsInit
<1>2. I /\ [Next]_vars => I'
  BY LoadsNext, TypedNext, ValuedNext
<1>3. I => ConstantsReady
  BY ValuedReady
<1> QED
  BY <1>1, <1>2, <1>3, PTL DEF Spec
=============================================================================
