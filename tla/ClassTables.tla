---------------------------- MODULE ClassTables ----------------------------
(***************************************************************************)
(* Classes and interfaces from their definitions to the tables of the      *)
(* virtual machine: the loops of fix_class_list over the definitions, the  *)
(* checks of expressions on classes (fix_tree.c, create.c), and the loop   *)
(* of the loader that builds the tables (load.c).                          *)
(*                                                                         *)
(* A program's definitions cs are a sequence; a class is its place in it,  *)
(* after the classes it extends.  A definition has a kind ("class" or      *)
(* "interface"), is abstract or not, extends a sequence of classes, and    *)
(* has members: [name, kind ("method" or "field"), modifiers, constructor, *)
(* type (the class a method returns, NoClass for void), body].  The body   *)
(* of a method is NoBody, or the calls it makes on this and super and the  *)
(* class of the object it returns.                                         *)
(*                                                                         *)
(* The loops fill sequences, one entry a class:                            *)
(*   chain       the supers, the nearest first                             *)
(*   interfaces  interface_list                                            *)
(*   members     the members with the default constructor                  *)
(*   order       the classes dkc_search_member looks at, in order          *)
(*   index       method_index or field_index of every member               *)
(*   layout      field_type: the fields of an object                       *)
(*   class       class_table; interface: interface_v_table                 *)
(***************************************************************************)
EXTENDS Integers, Sequences, FiniteSets, SequencesExt

CONSTANT Programs     \* [classes, start, casts, tests]

NoClass    == 0
NoBody     == [calls |-> <<>>, returns |-> -1]

(* The definitions of n classes.  Constructors return nothing, and what a  *)
(* method returns it has created.                                          *)
Modifiers   == {"public", "private", "virtual", "override", "abstract"}
Bodies(n)   == [calls : Seq([target : {"this", "super"}, name : STRING]), returns : -1..n]
Members(n)  == [name : STRING, kind : {"method", "field"}, modifiers : Seq(Modifiers),
                constructor : BOOLEAN, type : 0..n, body : Bodies(n)]
Definitions(n) ==
    [kind : {"class", "interface"}, abstract : BOOLEAN, extends : Seq(1..n),
     members : Seq(Members(n))]
IsDefinition(classes, c) ==
    /\ \A d \in Range(classes[c].extends) : d < c
    /\ classes[c].kind = "interface" => classes[c].abstract
    /\ \A m \in Range(classes[c].members) :
          /\ m.constructor => m.kind = "method" /\ m.type = NoClass
          /\ m.body # NoBody => /\ m.body.returns # -1
                                /\ m.body.returns = NoClass <=> m.type = NoClass
          /\ m.body.returns \in DOMAIN classes => ~classes[m.body.returns].abstract

ASSUME ProgramsAssumption ==
    \A p \in Programs :
        /\ p.classes \in Seq(Definitions(Len(p.classes)))
        /\ p.start \in DOMAIN p.classes
        /\ \A c \in DOMAIN p.classes : IsDefinition(p.classes, c)

VARIABLES program, chain, interfaces, members, order, index, layout, class, interface, outcome
compiled == <<chain, interfaces, members, order, index>>
loaded   == <<layout, class, interface>>

cs      == program.classes
Classes == DOMAIN cs

NotFound   == [class |-> NoClass, position |-> 0]
NoFunction == <<NoClass, "not found">>        \* FUNCTION_NOT_FOUND, an index of -1
DefaultConstructor == "initialize"

(* The places of a set, the smallest first, and what a sequence has at     *)
(* them: SelectSeq in a form that can be reasoned about.                   *)
Rank(places, p) == 1 + Cardinality({q \in places : q < p})
InOrder(places) ==
    [i \in 1..Cardinality(places) |-> CHOOSE p \in places : Rank(places, p) = i]
Selected(list, places) == [i \in 1..Cardinality(places) |-> list[InOrder(places)[i]]]

SourceInit ==
    /\ program \in Programs
    /\ chain = <<>> /\ interfaces = <<>> /\ members = <<>> /\ order = <<>> /\ index = <<>>
    /\ layout = <<>> /\ class = <<>> /\ interface = <<>>
    /\ outcome = "compiling"

-----------------------------------------------------------------------------
(* Modifiers, one after the other.  No kind may be given twice, and        *)
(* private only as the first: chaining asserts that it is public.          *)
ModifierKind(m) == IF m \in {"public", "private"} THEN "access" ELSE m
ChainFails(modifiers) ==
    \E i \in 2..Len(modifiers) :
        \/ modifiers[i] = "private"
        \/ \E j \in 1..(i - 1) : ModifierKind(modifiers[j]) = ModifierKind(modifiers[i])

conv_access_modifier(modifiers) ==
    CASE Contains(modifiers, "public") -> "public"
      [] Contains(modifiers, "private") -> "private"
      [] OTHER -> "file"

IsInterface(c) == cs[c].kind = "interface"

(* Every method of an interface is abstract and virtual.                   *)
Declared(c, m) ==
    [name |-> m.name, kind |-> m.kind, constructor |-> m.constructor,
     type |-> m.type, body |-> m.body,
     access |-> conv_access_modifier(m.modifiers),
     override |-> Contains(m.modifiers, "override"),
     abstract |-> Contains(m.modifiers, "abstract") \/ IsInterface(c),
     virtual |-> Contains(m.modifiers, "virtual") \/ IsInterface(c)]

MemberError(c, m) ==
    \/ ChainFails(m.modifiers)
    \/ m.kind = "method" /\ (Declared(c, m).abstract <=> m.body # NoBody)

-----------------------------------------------------------------------------
(* The first loop: the class among the extended ones, and the interfaces.  *)
Rejected ==
    /\ outcome' = "rejected"
    /\ UNCHANGED <<program, compiled, loaded>>

Extended(c, kind) == {i \in DOMAIN cs[c].extends : cs[cs[c].extends[i]].kind = kind}
ClassesIn(c)      == Selected(cs[c].extends, Extended(c, "class"))
InterfacesIn(c)   == Selected(cs[c].extends, Extended(c, "interface"))

ExtendsError(c) ==
    \/ IsInterface(c) /\ cs[c].extends # <<>>
    \/ Len(ClassesIn(c)) > 1
    \/ \E d \in Range(ClassesIn(c)) : ~cs[d].abstract

FixExtends ==
    LET c == Len(chain) + 1
    IN  /\ outcome = "compiling" /\ c \in Classes
        /\ IF ExtendsError(c) \/ \E m \in Range(cs[c].members) : MemberError(c, m)
           THEN Rejected
           ELSE /\ chain' = Append(chain, IF ClassesIn(c) = <<>> THEN <<>>
                                          ELSE ClassesIn(c) \o chain[ClassesIn(c)[1]])
                /\ interfaces' = Append(interfaces, InterfacesIn(c))
                /\ UNCHANGED <<program, members, order, index, loaded, outcome>>

SuperClass(c) == IF chain[c] = <<>> THEN NoClass ELSE Head(chain[c])
Ancestry(c)   == <<c>> \o chain[c]

(* Faulty variant: only the interfaces of the nearest super are added.     *)
AddedInterfacesNearest(c) == IF SuperClass(c) = NoClass THEN <<>> ELSE InterfacesIn(SuperClass(c))

(* add_super_interfaces: those a super has got from its own supers among   *)
(* them, so some come twice.                                               *)
AddedInterfaces(c) == FlattenSeq([i \in DOMAIN chain[c] |-> interfaces[chain[c][i]]])

ConstructorOf(c) ==
    LET extends == SuperClass(c) # NoClass
    IN  [name |-> DefaultConstructor, kind |-> "method", constructor |-> TRUE,
         type |-> NoClass, abstract |-> FALSE, virtual |-> TRUE,
         override |-> extends, access |-> IF extends THEN "public" ELSE "file",
         body |-> [calls |-> IF extends THEN <<[target |-> "super", name |-> DefaultConstructor]>>
                             ELSE <<>>,
                   returns |-> NoClass]]

(* The default constructor comes after the members, unless there is one.   *)
add_default_constructor(c) ==
    LET own == [i \in DOMAIN cs[c].members |-> Declared(c, cs[c].members[i])]
    IN  IF IsInterface(c) \/ \E i \in DOMAIN own : own[i].constructor THEN own
        ELSE Append(own, ConstructorOf(c))

(* The second and third loop.  dkc_search_member goes through the class,   *)
(* its super with its interfaces, then its own interfaces.                 *)
AddSuperInterfaces ==
    LET c == Len(members) + 1
    IN  /\ outcome = "compiling" /\ Len(chain) = Len(cs) /\ c \in Classes
        /\ interfaces' = [interfaces EXCEPT ![c] = @ \o AddedInterfaces(c)]
        /\ members' = Append(members, add_default_constructor(c))
        /\ order' = Append(order,
               <<c>> \o (IF SuperClass(c) = NoClass THEN <<>> ELSE order[SuperClass(c)])
                     \o interfaces'[c])
        /\ UNCHANGED <<program, chain, index, loaded, outcome>>

-----------------------------------------------------------------------------
PositionIn(c, name) == SelectInSeq(members[c], LAMBDA m : m.name = name)
FirstMember(classes, name) ==
    LET at == SelectInSeq(classes, LAMBDA d : PositionIn(d, name) # 0)
    IN  IF at = 0 THEN NotFound
        ELSE [class |-> classes[at], position |-> PositionIn(classes[at], name)]

dkc_search_member(c, name)      == FirstMember(order[c], name)
search_member_in_super(c, name) == FirstMember(Tail(order[c]), name)
Member(found) == members[found.class][found.position]

is_super_class(child, parent) == parent \in Range(chain[child]) \cup Range(interfaces[child])
FirstIndexOf(list, element) == SelectInSeq(list, LAMBDA d : d = element)

AccessNarrows(super, sub) ==
    \/ super = "public" /\ sub # "public"
    \/ super = "file" /\ sub = "private"

check_type_compatibility(super_t, sub_t) ==
    super_t = sub_t \/ (super_t # NoClass /\ sub_t # NoClass /\ is_super_class(sub_t, super_t))

(* Faulty variant: the returned types are not compared.                    *)
OverrideErrorOfTypes(c, m) ==
    LET found == search_member_in_super(c, m.name)
    IN  found # NotFound /\ (m.kind = "field" \/ ~m.override)

OverrideError(c, m) ==
    LET found == search_member_in_super(c, m.name)
    IN  /\ found # NotFound
        /\ \/ m.kind = "field"
           \/ Member(found).kind = "field"
           \/ ~Member(found).virtual
           \/ ~m.override
           \/ AccessNarrows(Member(found).access, m.access)
           \/ ~m.constructor /\ ~check_type_compatibility(Member(found).type, m.type)

-----------------------------------------------------------------------------
(* Expressions.  A method of a class that one of the class's interfaces    *)
(* declares is called through that interface: its place in the list of the *)
(* class, or 0.                                                            *)
is_interface_method(c, name) ==
    IF IsInterface(c) THEN 0
    ELSE SelectInSeq(interfaces[c], LAMBDA d : PositionIn(d, name) # 0)

(* check_member_accessibility: private members belong to the class the     *)
(* expression is of, wherever they are declared.                           *)
Accessible(current, c, found) == Member(found).access # "private" \/ current = c

Callable(current, c, name) ==
    LET found == dkc_search_member(c, name)
    IN  found # NotFound /\ Member(found).kind = "method" /\ Accessible(current, c, found)

AssignError(from, to) == from # to /\ ~is_super_class(from, to)

InstanceofAlwaysTrue(from, to)  == from = to \/ is_super_class(from, to)
InstanceofAlwaysFalse(from, to) == ~IsInterface(to) /\ ~is_super_class(to, from)
InstanceofError(from, to) == InstanceofAlwaysTrue(from, to) \/ InstanceofAlwaysFalse(from, to)

DownCastError(from, to) == from = to \/ (~IsInterface(to) /\ ~is_super_class(to, from))

(* new: not of an abstract class, and the member of the constructor's name *)
(* is one.                                                                 *)
NewError(current, c) ==
    LET found == dkc_search_member(c, DefaultConstructor)
    IN  \/ cs[c].abstract
        \/ found = NotFound
        \/ ~Member(found).constructor
        \/ ~Accessible(current, c, found)

(* The calls and the returned object of a method.                          *)
BodyError(c, m) ==
    \/ m.body.returns \in Classes /\ AssignError(m.body.returns, m.type)
    \/ \E call \in Range(m.body.calls) :
          IF call.target = "this" THEN ~Callable(c, c, call.name)
          ELSE SuperClass(c) = NoClass \/ ~Callable(c, SuperClass(c), call.name)

-----------------------------------------------------------------------------
(* The last loop: indices.  A method that overrides takes the index it     *)
(* overrides, of an interface's method too; the others count on from the   *)
(* largest index of the supers.                                            *)
OfKind(c, kind) == {p \in DOMAIN members[c] : members[c][p].kind = kind}
NewBefore(c, p) ==
    {q \in OfKind(c, members[c][p].kind) :
        q < p /\ search_member_in_super(c, members[c][q].name) = NotFound}

(* Faulty variant: the fields of the supers are not counted.               *)
UsedOfMethods(c, kind) ==
    UNION {{index[s][q] : q \in OfKind(s, kind) \ OfKind(s, "field")} : s \in Range(chain[c])}

Used(c, kind) == UNION {{index[s][q] : q \in OfKind(s, kind)} : s \in Range(chain[c])}
Largest(used) == CHOOSE m \in used : \A n \in used : n <= m

IndexOf(c, p) ==
    LET found == search_member_in_super(c, members[c][p].name)
    IN  IF found # NotFound THEN index[found.class][found.position]
        ELSE 1 + Largest({-1} \cup Used(c, members[c][p].kind)) + Cardinality(NewBefore(c, p))

FixMembers ==
    LET c == Len(index) + 1
    IN  /\ outcome = "compiling" /\ Len(members) = Len(cs) /\ c \in Classes
        /\ IF \/ \E m \in Range(members[c]) : BodyError(c, m) \/ OverrideError(c, m)
              \/ ~cs[c].abstract /\ \E m \in Range(members[c]) : m.kind = "method" /\ m.abstract
           THEN Rejected
           ELSE /\ index' = Append(index, [p \in DOMAIN members[c] |-> IndexOf(c, p)])
                /\ UNCHANGED <<program, chain, interfaces, members, order, loaded, outcome>>

-----------------------------------------------------------------------------
(* The loader, class after class.                                          *)
FieldsOf(c) ==
    LET fields == Selected(members[c], OfKind(c, "field"))
    IN  [i \in DOMAIN fields |-> <<c, fields[i].name>>]

FieldLayout(c) == (IF SuperClass(c) = NoClass THEN <<>> ELSE layout[SuperClass(c)]) \o FieldsOf(c)

(* set_v_table: the function of a method that the class itself defines.    *)
Function(c, name) ==
    LET p == PositionIn(c, name)
    IN  IF p # 0 /\ members[c][p].kind = "method" /\ ~members[c][p].abstract
        THEN <<c, name>> ELSE NoFunction

Methods(c) == Selected(members[c], OfKind(c, "method"))
IsNamed(slots, name) == \E j \in DOMAIN slots : slots[j].name = name
Slots(c, methods) ==
    [i \in DOMAIN methods |-> [name |-> methods[i].name, index |-> Function(c, methods[i].name)]]

(* Faulty variant: a method of the class never replaces an inherited one.  *)
ReplacedNever(c, inherited) == inherited

Replaced(c, inherited) ==
    [j \in DOMAIN inherited |->
        IF IsNamed(Methods(c), inherited[j].name)
        THEN [inherited[j] EXCEPT !.index = Function(c, inherited[j].name)]
        ELSE inherited[j]]

(* A method without a slot of the super gets one, unless it is marked as   *)
(* overriding: then it is taken to implement a method of an interface.     *)
Added(c, inherited) ==
    Slots(c, Selected(members[c],
        {p \in OfKind(c, "method") :
            ~IsNamed(inherited, members[c][p].name) /\ ~members[c][p].override}))

InterfaceTables(c) == [i \in DOMAIN interfaces[c] |-> Slots(c, Methods(interfaces[c][i]))]

AddClass ==
    LET c == Len(class) + 1
        inherited == IF SuperClass(c) = NoClass THEN <<>> ELSE class[SuperClass(c)]
    IN  /\ outcome = "compiling" /\ Len(index) = Len(cs) /\ c \in Classes
        /\ layout' = Append(layout, FieldLayout(c))
        /\ class' = Append(class, Replaced(c, inherited) \o Added(c, inherited))
        /\ interface' = Append(interface, InterfaceTables(c))
        /\ UNCHANGED <<program, compiled, outcome>>

-----------------------------------------------------------------------------
(* The programs the tables are right for, told from their definitions; the *)
(* README says what the code does with others.                             *)
Names == {DefaultConstructor} \cup UNION {{m.name : m \in Range(cs[c].members)} : c \in Classes}

(* What a class has: its interfaces and those of its supers.               *)
KindsOf(c) == UNION {{d} \cup Range(cs[d].extends) : d \in Range(Ancestry(c))}

(* The function of a method is that of the nearest class that declares it. *)
Implementation(c, name) ==
    LET at == SelectInSeq(Ancestry(c), LAMBDA d : PositionIn(d, name) # 0)
    IN  IF at = 0 THEN NoFunction ELSE Function(Ancestry(c)[at], name)

(* A concrete class has a body for every method it inherits, and itself    *)
(* defines the methods of all its interfaces.                              *)
Implements(c) ==
    cs[c].abstract \/
        \A d \in KindsOf(c) : \A m \in Range(Methods(d)) :
            IF IsInterface(d) THEN Function(c, m.name) # NoFunction
            ELSE Implementation(c, m.name) # NoFunction

(* What is marked as overriding does override something, and a class that  *)
(* is extended has a slot for each method of an interface it has.          *)
NewMethods(c) ==
    UNION {{<<d, p>> : p \in {q \in OfKind(d, "method") : ~members[d][q].override}} :
           d \in Range(Ancestry(c))}
NoGaps(c) ==
    /\ \A m \in Range(Methods(c)) : m.override => search_member_in_super(c, m.name) # NotFound
    /\ \A s \in Range(chain[c]) : \A d \in KindsOf(s) :
          IsInterface(d) => Len(Methods(d)) <= Cardinality(NewMethods(s))

(* What an interface declares, a class has from that interface alone, and  *)
(* so have its supers; it is a method and no constructor.                  *)
Apart(c) ==
    \A d \in Range(interfaces[c]) : \A m \in Range(members[d]) :
        /\ m.kind = "method" /\ m.name # DefaultConstructor
        /\ \A e \in Range(Ancestry(c)) \cup Range(interfaces[c]) :
              PositionIn(e, m.name) # 0 => e = d \/ d \in Range(interfaces[e])

(* A class with interfaces has no super with other ones.                   *)
SameInterfaces(c) ==
    \/ InterfacesIn(c) = <<>>
    \/ \A s \in Range(chain[c]) : InterfacesIn(s) \in {<<>>, InterfacesIn(c)}

(* What overrides a method that returns an interface returns the same, and *)
(* so does a constructor.                                                  *)
SameResult(c) ==
    \A m \in Range(members[c]) :
        LET found == search_member_in_super(c, m.name)
            type  == Member(found).type
        IN  found # NotFound /\ (m.constructor \/ (type # NoClass /\ IsInterface(type)))
                => m.type = type

Calls(c, target) ==
    UNION {{call.name : call \in {x \in Range(m.body.calls) : x.target = target}} :
           m \in Range(members[c])}

(* A method that may run on a view other than that of the object's own     *)
(* class, for an interface or for super, calls no method on this; super    *)
(* names a method that the super class, or one before it, defines.         *)
ThisIsWhole(c) ==
    \A m \in Range(members[c]) :
        \/ /\ is_interface_method(c, m.name) = 0
           /\ \A d \in Classes : c \in Range(chain[d]) => m.name \notin Calls(d, "super")
        \/ \A call \in Range(m.body.calls) : call.target = "super"

(* What a method calls on super is that of the super class of the view: a  *)
(* sub class has a method of its own in its place.                         *)
SuperIsNear(c) ==
    \A m \in Range(members[c]) : \A d \in Classes :
        (c \in Range(chain[d]) /\ \E call \in Range(m.body.calls) : call.target = "super")
            => PositionIn(d, m.name) # 0
SuperHas(c) ==
    \A name \in Calls(c, "super") :
        /\ Implementation(SuperClass(c), name) # NoFunction
        /\ is_interface_method(SuperClass(c), name) # 0 =>
              Function(SuperClass(c), name) # NoFunction

(* A cast from an interface may keep its table.                            *)
CastsKeep == \A pair \in program.casts : IsInterface(pair[1]) => IsInterface(pair[2])

Regular ==
    /\ CastsKeep
    /\ \A c \in Classes :
          /\ Implements(c) /\ NoGaps(c) /\ Apart(c) /\ SameInterfaces(c)
          /\ SameResult(c) /\ ThisIsWhole(c) /\ SuperIsNear(c) /\ SuperHas(c)
=============================================================================
