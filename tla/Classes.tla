------------------------------ MODULE Classes ------------------------------
(***************************************************************************)
(* Objects at run time: creation, assignment, casts, instanceof, calls     *)
(* through virtual tables, on this, on super and through delegates         *)
(* (execute.c, heap.c), over the tables of ClassTables, against what the   *)
(* class hierarchy means.                                                  *)
(*                                                                         *)
(* A reference is an object with a view, the v_table it carries: <<c, 0>>  *)
(* is the class_table of class c, <<c, i>> its interface_v_table[i - 1].   *)
(* The object keeps the class it was created of, which the program reads   *)
(* only through the view.                                                  *)
(* The top level holds one variable, of the static type static; an action  *)
(* is an expression the compiler accepts.  Which pairs of types it casts   *)
(* and tests is given by the program (casts, tests).  Exceptions are not   *)
(* caught: they end the run.                                               *)
(***************************************************************************)
EXTENDS ClassTables

CONSTANTS MaxDepth,      \* of calls; no program of a run reaches it (SuperEnds)
          OnlyRegular    \* run only the programs that are Regular

VARIABLES static, variable, delegate, frames, answer
source == <<program, compiled, loaded>>
vars   == <<source, static, variable, delegate, frames, answer, outcome>>

Null     == [class |-> NoClass]
NoAnswer == [question |-> "none"]

Init ==
    /\ SourceInit
    /\ static = program.start
    /\ variable = Null
    /\ delegate = [object |-> Null]
    /\ frames = <<>>
    /\ answer = NoAnswer

(* The loops of the compiler and the loader; then the program runs.        *)
Prepare ==
    /\ FixExtends \/ AddSuperInterfaces \/ FixMembers \/ AddClass
    /\ UNCHANGED <<static, variable, delegate, frames, answer>>

Start ==
    /\ outcome = "compiling" /\ Len(class) = Len(cs)
    /\ outcome' = IF OnlyRegular /\ ~Regular THEN "irregular" ELSE "running"
    /\ UNCHANGED <<source, static, variable, delegate, frames, answer>>

-----------------------------------------------------------------------------
TopLevel == outcome = "running" /\ frames = <<>>

Throws(exception) ==
    /\ outcome' = exception
    /\ UNCHANGED <<source, static, variable, delegate, frames, answer>>

VTable(view) == IF view[2] = 0 THEN class[view[1]] ELSE interface[view[1]][view[2]]

(* Faulty variant: the table is that of the interface itself.              *)
UpCastToInterface(ref, i) == [ref EXCEPT !.view = <<interfaces[ref.view[1]][i], 0>>]

(* UP_CAST: index i, found in the list of the static class, selects a      *)
(* table of the class of the view.                                         *)
UpCast(ref, i) == [ref EXCEPT !.view = <<@[1], i>>]

(* create_assign_cast: a cast only where the target is not a super class.  *)
Convert(ref, from, to) ==
    IF from = to \/ to \in Range(chain[from]) THEN ref
    ELSE UpCast(ref, FirstIndexOf(interfaces[from], to))
CastNeeded(from, to) == from # to /\ to \notin Range(chain[from])

-----------------------------------------------------------------------------
(* dvm_create_class_object_i: zero values, then the initializers, those of *)
(* the class first, each into the index of its member.                     *)
Initializers(c) ==
    LET classes == <<c>> \o chain[c]
        Of(d) == LET own == InOrder(OfKind(d, "field"))
                 IN  [i \in DOMAIN own |->
                         <<index[d][own[i]], <<d, members[d][own[i]].name>>>>]
    IN  FlattenSeq([i \in DOMAIN classes |-> Of(classes[i])])

InitialFields(c) ==
    [k \in DOMAIN layout[c] |->
        LET last == SelectLastInSeq(Initializers(c), LAMBDA w : w[1] = k - 1)
        IN  IF last = 0 THEN <<NoClass, "zero">> ELSE Initializers(c)[last][2]]

Object(c) == [class |-> c, view |-> <<c, 0>>, fields |-> InitialFields(c)]

(* The object of a call of name on an expression of class c: seen as the   *)
(* interface the method comes from, if it does.                            *)
Receiver(ref, c, name) ==
    IF is_interface_method(c, name) = 0 THEN ref ELSE UpCast(ref, is_interface_method(c, name))
MethodIndex(c, name) ==
    LET found == dkc_search_member(c, name)
    IN  index[found.class][found.position]
ReturnType(c, name) ==
    LET found == dkc_search_member(c, name)
    IN  Member(found).type

(* Faulty variant: slots are counted from one.                             *)
PushMethodFromOne(ref, k) ==
    IF k + 2 \in DOMAIN VTable(ref.view) THEN VTable(ref.view)[k + 2].index ELSE NoFunction

(* PUSH_METHOD; an index past the table reads other memory.                *)
PushMethod(ref, k) ==
    IF k + 1 \in DOMAIN VTable(ref.view) THEN VTable(ref.view)[k + 1].index
    ELSE NoFunction

Body(f) == LET m == members[f[1]][PositionIn(f[1], f[2])] IN m.body

(* INVOKE of function f on ref; type is what the caller takes for the      *)
(* returned class, asked what the program means to call.                   *)
Invoke(f, ref, type, asked) ==
    IF f = NoFunction
    THEN /\ outcome' = "undefined"
         /\ UNCHANGED frames
    ELSE /\ frames' = Append(frames, [function |-> f, this |-> ref, type |-> type,
                                      asked |-> asked, rest |-> Body(f).calls])
         /\ UNCHANGED outcome

Virtual(ref, name) == [question |-> "virtual", class |-> ref.class, name |-> name]
OfSuper(c, name)   == [question |-> "super", class |-> c, name |-> name]

New(c) ==
    /\ TopLevel
    /\ ~NewError(NoClass, c)
    /\ variable' = Object(c)
    /\ static' = c
    /\ Invoke(PushMethod(Object(c), MethodIndex(c, DefaultConstructor)), Object(c),
              NoClass, Virtual(Object(c), DefaultConstructor))
    /\ answer' = NoAnswer
    /\ UNCHANGED <<source, delegate>>

Assign(to) ==
    /\ TopLevel
    /\ ~AssignError(static, to)
    /\ IF variable = Null /\ CastNeeded(static, to) THEN Throws("NullPointerException")
       ELSE /\ variable' = IF variable = Null THEN Null ELSE Convert(variable, static, to)
            /\ static' = to
            /\ answer' = NoAnswer
            /\ UNCHANGED <<source, delegate, frames, outcome>>

Is(question, to) == [question |-> question, class |-> variable.class, target |-> to]

(* check_instanceof_i: the supers, and the interfaces, of the class of the *)
(* view.                                                                   *)
IsSub(ref, to) == is_super_class(ref.view[1], to)

DownCastView(ref, to) ==
    LET c == ref.view[1]
    IN  IF to = c THEN ref.view
        ELSE IF to \in Range(chain[c]) THEN <<c, 0>>
        ELSE <<c, FirstIndexOf(interfaces[c], to)>>

DownCast(to) ==
    /\ TopLevel
    /\ <<static, to>> \in program.casts
    /\ ~DownCastError(static, to)
    /\ CASE variable = Null -> Throws("NullPointerException")
         [] variable # Null /\ to # variable.view[1] /\ ~IsSub(variable, to) ->
              /\ outcome' = "ClassCastException"
              /\ answer' = Is("refused", to)
              /\ UNCHANGED <<source, static, variable, delegate, frames>>
         [] OTHER ->
              /\ variable' = [variable EXCEPT !.view = DownCastView(variable, to)]
              /\ static' = to
              /\ answer' = Is("yes", to)
              /\ UNCHANGED <<source, delegate, frames, outcome>>

(* INSTANCEOF of null reads the v_table of no object; the programs here    *)
(* compare with null first.                                                *)
InstanceOf(to) ==
    /\ TopLevel
    /\ <<static, to>> \in program.tests
    /\ ~InstanceofError(static, to)
    /\ variable # Null
    /\ answer' = Is(IF to = variable.view[1] \/ IsSub(variable, to) THEN "yes" ELSE "refused", to)
    /\ UNCHANGED <<source, static, variable, delegate, frames, outcome>>

(* A method called from outside, and one of the interface it comes from.   *)
Call(name) ==
    /\ TopLevel
    /\ Callable(NoClass, static, name)
    /\ LET found == dkc_search_member(static, name)
       IN  ~Member(found).constructor
    /\ IF variable = Null THEN Throws("NullPointerException")
       ELSE /\ LET ref == Receiver(variable, static, name)
               IN  Invoke(PushMethod(ref, MethodIndex(static, name)), ref,
                          ReturnType(static, name), Virtual(variable, name))
            /\ answer' = NoAnswer
            /\ UNCHANGED <<source, static, variable, delegate>>

PushMethodDelegate(ref, k, type, asked) ==
    [object |-> ref, index |-> k, type |-> type, asked |-> asked]

(* A delegate of a method: its object, seen as the call would see it, and  *)
(* the index, looked up when it is invoked.  Null becomes a delegate whose *)
(* index is taken for a function's; the programs here do not call it.      *)
TakeDelegate(name) ==
    /\ TopLevel
    /\ Callable(NoClass, static, name)
    /\ variable # Null
    /\ delegate' = PushMethodDelegate(Receiver(variable, static, name), MethodIndex(static, name),
                                      ReturnType(static, name), Virtual(variable, name))
    /\ answer' = NoAnswer
    /\ UNCHANGED <<source, static, variable, frames, outcome>>

InvokeDelegate ==
    /\ TopLevel
    /\ delegate.object # Null
    /\ Invoke(PushMethod(delegate.object, delegate.index), delegate.object,
              delegate.type, delegate.asked)
    /\ UNCHANGED <<source, static, variable, delegate, answer>>

Top == frames[Len(frames)]

(* Faulty variant: the super of the object's class, whoever runs.          *)
SuperViewOfObject(ref) == [ref EXCEPT !.view = <<SuperClass(ref.class), 0>>]

(* SUPER: the class_table of the super of the class of the view.           *)
SuperView(ref) == [ref EXCEPT !.view = <<SuperClass(@[1]), 0>>]

(* The next call of the running method.                                    *)
CallInside ==
    /\ outcome = "running" /\ frames # <<>> /\ Top.rest # <<>>
    /\ Len(frames) < MaxDepth
    /\ LET call  == Head(Top.rest)
           c     == IF call.target = "this" THEN Top.function[1]
                    ELSE SuperClass(Top.function[1])
           ref   == IF call.target = "this" THEN Top.this ELSE SuperView(Top.this)
           seen  == Receiver(ref, c, call.name)
           asked == IF call.target = "this" THEN Virtual(ref, call.name)
                    ELSE OfSuper(c, call.name)
           f     == PushMethod(seen, MethodIndex(c, call.name))
           below == [frames EXCEPT ![Len(frames)].rest = Tail(@)]
       IN  IF f = NoFunction THEN outcome' = "undefined" /\ UNCHANGED frames
           ELSE /\ frames' = Append(below, [function |-> f, this |-> seen, asked |-> asked,
                                            type |-> NoClass, rest |-> Body(f).calls])
                /\ UNCHANGED outcome
    /\ UNCHANGED <<source, static, variable, delegate, answer>>

(* The returned object is converted to the type the method declares; the   *)
(* top level takes it for the type of the method it named.                 *)
Return ==
    /\ outcome = "running" /\ frames # <<>> /\ Top.rest = <<>>
    /\ frames' = SubSeq(frames, 1, Len(frames) - 1)
    /\ LET f == Top.function
           declared == members[f[1]][PositionIn(f[1], f[2])].type
           returned == Body(f).returns
       IN  IF Len(frames) = 1 /\ Top.type # NoClass
           THEN /\ variable' = Convert(Object(returned), returned, declared)
                /\ static' = Top.type
           ELSE UNCHANGED <<static, variable>>
    /\ UNCHANGED <<source, delegate, answer, outcome>>

Next ==
    \/ Prepare
    \/ Start
    \/ \E c \in Classes : New(c) \/ Assign(c) \/ DownCast(c) \/ InstanceOf(c)
    \/ \E name \in Names : Call(name) \/ TakeDelegate(name)
    \/ InvokeDelegate
    \/ CallInside
    \/ Return

Spec == Init /\ [][Next]_vars

-----------------------------------------------------------------------------
(* Every reference has a view of its object, and every running method is   *)
(* one the program defines.                                                *)
TypeOK ==
    /\ static \in Classes
    /\ variable # Null => variable.view[1] \in Range(Ancestry(variable.class))
    /\ \A i \in DOMAIN frames :
          LET f == frames[i]
          IN  /\ Function(f.function[1], f.function[2]) = f.function
              /\ f.this.view[1] \in Range(Ancestry(f.this.class))

(* A call runs the implementation of the class the object was created of   *)
(* or else of its nearest super; a call on super, that of the nearest      *)
(* super of the class the calling method belongs to; whatever types,       *)
(* casts, interfaces and delegates the reference went through.             *)
Dispatch ==
    \A i \in DOMAIN frames :
        LET asked == frames[i].asked
        IN  frames[i].function = Implementation(asked.class, asked.name)

(* No call goes to a missing function or past the end of a table, and      *)
(* nothing is read through null.                                           *)
NeverUndefined == outcome # "undefined"

(* The v_table of a reference is of the kind its static type needs: the    *)
(* table of that interface, or the class_table of that class or of a sub   *)
(* class, whose first slots are those of the class.                        *)
ViewFits ==
    variable # Null =>
        LET view == variable.view
        IN  IF IsInterface(static)
            THEN view[2] # 0 /\ interfaces[view[1]][view[2]] = static
            ELSE /\ view[2] = 0 /\ static \in Range(Ancestry(view[1]))
                 /\ \A j \in DOMAIN class[static] :
                        class[view[1]][j].name = class[static][j].name

(* The index the compiler gave to a field is its place in the object, of   *)
(* whatever sub class, and creation put the field's initializer there.     *)
FieldsAgree ==
    variable # Null /\ ~IsInterface(static) =>
        \A d \in Range(Ancestry(static)) : \A p \in DOMAIN members[d] :
            members[d][p].kind = "field" =>
                LET k == index[d][p] + 1
                    field == <<d, members[d][p].name>>
                IN  /\ k \in DOMAIN layout[variable.class]
                    /\ layout[variable.class][k] = field
                    /\ variable.fields[k] = field

(* instanceof and casts answer by the class of the object and not by its   *)
(* static type or view.                                                    *)
CastsRight ==
    answer # NoAnswer => ((answer.question = "yes") <=> answer.target \in KindsOf(answer.class))

(* Chains of calls on super end: no function runs twice at a time, since   *)
(* the programs have no recursion of their own, through any number of      *)
(* classes and for constructors too.                                       *)
SuperEnds == \A i, j \in DOMAIN frames : frames[i].function = frames[j].function => i = j
=============================================================================
