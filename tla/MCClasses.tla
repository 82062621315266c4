----------------------------- MODULE MCClasses -----------------------------
(* The hierarchies that Classes is checked with: two interfaces, and       *)
(* classes of three levels with a class beside them.                       *)
EXTENDS Classes

(* I (1) declares i, J (2) declares j; A (3), its sub B (4), C (5) below B *)
(* and D (6) beside them.                                                  *)
I == 1
J == 2
A == 3
B == 4
C == 5
D == 6

Interface(declared) ==
    [kind |-> "interface", abstract |-> TRUE, extends |-> <<>>, members |-> declared]
Class(abstract, extends, declared) ==
    [kind |-> "class", abstract |-> abstract, extends |-> extends, members |-> declared]

Code(calls, returns) == [calls |-> calls, returns |-> returns]
This(name)  == <<[target |-> "this", name |-> name]>>
Super(name) == <<[target |-> "super", name |-> name]>>
Of(type, calls, returns) ==
    Code(calls, CASE type = NoClass -> NoClass [] type = D -> type [] OTHER -> returns)
Method(name, modifiers, type, body) ==
    [name |-> name, kind |-> "method", modifiers |-> modifiers, constructor |-> FALSE,
     type |-> type, body |-> body]
Constructor(modifiers, calls) ==
    [name |-> DefaultConstructor, kind |-> "method", modifiers |-> modifiers,
     constructor |-> TRUE, type |-> NoClass, body |-> Code(calls, NoClass)]
Field(name, modifiers) ==
    [name |-> name, kind |-> "field", modifiers |-> modifiers, constructor |-> FALSE,
     type |-> NoClass, body |-> NoBody]
Plain(name, modifiers) == Method(name, modifiers, NoClass, Code(<<>>, NoClass))

MethodsOf(interfaceOrClass) ==
    CASE interfaceOrClass = I -> {"i"} [] interfaceOrClass = J -> {"j", "k"}
Implemented(set) ==
    LET names == SetToSeq(UNION {MethodsOf(d) : d \in set})
    IN  [k \in DOMAIN names |-> Plain(names[k], <<"public", "virtual", "override">>)]

(* m[k] is the class that m returns in A, B and C.                         *)
MembersOfA(m) == {
    <<Field("x", <<>>), Method("m", <<"virtual">>, m[1], Of(m[1], <<>>, C)),
      Plain("n", <<>>)>>,
    <<Method("m", <<"abstract", "virtual">>, m[1], NoBody), Field("x", <<"private">>),
      Constructor(<<"virtual">>, <<>>),
      Method("n", <<"private">>, B, Code(This("m"), C))>>}

MembersOfB(m) == {
    <<Method("m", <<"virtual", "override">>, m[2], Of(m[2], <<>>, C)), Field("y", <<>>),
      Plain("p", <<"private">>)>>,
    <<Plain("p", <<"virtual">>), Field("z", <<>>)>>}

MembersOfC(m) == {
    <<Field("w", <<>>), Plain("q", <<>>),
      Method("m", <<"public", "override">>, m[3], Of(m[3], Super("m"), C))>>,
    <<Method("m", <<"override">>, m[3], Of(m[3], <<>>, C)),
      Constructor(<<"public", "override">>, Super(DefaultConstructor) \o This("m")),
      Method("q", <<>>, NoClass, Code(This("m") \o This("q2"), NoClass)), Plain("q2", <<>>)>>}

(* D overrides m as well; the members of a class that an accepted program  *)
(* does not have.                                                          *)
MembersOfD(m) == {
    <<Method("m", <<"override">>, m[1], Of(m[1], <<>>, IF m[1] = B THEN C ELSE D)),
      Field("y", <<>>)>>}
BadMembersOfD(m) == {
    <<Method("m", <<"virtual">>, m[1], Of(m[1], <<>>, D))>>,             \* override is missing
    <<Method("m", <<"virtual", "private">>, m[1], Of(m[1], <<>>, D))>>,  \* private is not the first
    <<Method("m", <<"private", "override">>, m[1], Of(m[1], <<>>, D))>>, \* less accessible
    <<Method("m", <<"override">>, m[1], NoBody)>>,                   \* no body
    <<Method("d", <<"abstract">>, NoClass, NoBody)>>,                \* abstract
    <<Field("x", <<>>)>>, <<Field("m", <<>>)>>}

(* A class implements the methods of its interfaces at the front or at the *)
(* back; B may leave that to C.                                            *)
Hierarchy(ofA, ofB, ofC, a, b, c, d, abstractB) ==
    LET AB == Range(ofA) \cup Range(ofB)
    IN  <<Interface(<<Method("i", <<>>, NoClass, NoBody)>>),
          Interface(<<Method("j", <<"public">>, NoClass, NoBody),
                      Method("k", <<"public">>, NoClass, NoBody)>>),
          Class(TRUE, ofA, a),
          Class(abstractB, <<A>> \o ofB, IF ofB = <<>> THEN Implemented(AB) \o b ELSE b),
          Class(FALSE, <<B>> \o ofC, c \o Implemented(AB \cup Range(ofC))),
          Class(FALSE, <<A>>, Implemented(Range(ofA)) \o d)>>

Results == {<<NoClass, NoClass, NoClass>>, <<A, B, C>>, <<B, B, D>>, <<I, I, I>>, <<I, I, C>>, <<A, NoClass, C>>}

Hierarchies ==
    UNION {{Hierarchy(ofA, ofB, ofC, a, b, c, d, TRUE) :
        ofA \in {<<>>, <<I>>, <<J, I>>}, ofB \in {<<>>, <<J>>}, ofC \in {<<>>, <<I>>},
        a \in MembersOfA(m), b \in MembersOfB(m), c \in MembersOfC(m), d \in MembersOfD(m)} :
      m \in Results}
    \cup
    UNION {{Hierarchy(<<I>>, <<>>, <<>>, a, b, c, d, abstractB) :
        a \in MembersOfA(m), b \in MembersOfB(m), c \in MembersOfC(m), d \in BadMembersOfD(m),
        abstractB \in BOOLEAN} :
      m \in {<<NoClass, NoClass, NoClass>>}}

Pairs(classes) == (DOMAIN classes) \X (DOMAIN classes)
Interfaces(classes) == {c \in DOMAIN classes : classes[c].kind = "interface"}

(* No cast goes from an interface to a class.                              *)
MCPrograms ==
    {[classes |-> classes, start |-> A, tests |-> Pairs(classes),
      casts |-> {pair \in Pairs(classes) :
                    pair[1] \in Interfaces(classes) => pair[2] \in Interfaces(classes)}] :
        classes \in Hierarchies}
=============================================================================
