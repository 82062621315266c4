---------------------------- MODULE MCExceptions ----------------------------
(* The programs that Exceptions is checked with. *)
EXTENDS Exceptions

(* How a statement of f may leave the try or catch clause it stands in. *)
Exits == {Throw("Exception"), Throw("Derived"), Return, Call("g"),
          Native(None), Native("Derived")}

(* The bodies of catch clauses; marks tell the clauses apart. *)
CatchBodies == {<<Mark(11)>>, <<Mark(11), Return>>, <<Call("h"), Native(None)>>}
Throwing == {<<Mark(11), Rethrow>>, <<Throw("Exception")>>, <<Call("g"), Mark(11)>>}

OneCatch(bodies) == {<<Catch(c, b)>> : c \in Class, b \in bodies}
TwoCatches(bodies) ==
    {<<Catch("Derived", b), Catch("Exception", <<Mark(12)>>)>> : b \in bodies}
        \cup {<<Catch("Exception", b), Catch("Derived", <<Mark(12)>>)>> : b \in bodies}
Catches(bodies) == {<<>>} \cup OneCatch(bodies) \cup TwoCatches(bodies)

(* One try statement.  A catch clause throws only if there is no finally   *)
(* block: throw_in_try leaves the finally block of that try out.           *)
Bodies == {<<Mark(10)>>} \cup {<<Mark(10), e, Mark(19)>> : e \in Exits}

Finals == {<<Mark(20)>>, <<Mark(20), Throw("Exception")>>,
           <<Call("h"), Mark(20)>>}

TryStatements ==
    {Try(b, c, <<>>) : b \in Bodies, c \in Catches(CatchBodies \cup Throwing)}
        \cup {Try(b, c, f) : b \in Bodies, c \in Catches(CatchBodies), f \in Finals}

(* What g does: nothing, an exception, or one that it passes on itself.    *)
PassingOn == <<Try(<<Throw("Derived")>>,
                   <<Catch("Exception", <<Mark(31), Rethrow>>)>>, <<>>)>>
CalleeBodies == {<<Mark(30)>>, <<Throw("Derived")>>, PassingOn}

Callers == {<<Call("f"), Mark(1)>>,
            <<Try(<<Call("f"), Mark(1)>>,
                  <<Catch("Exception", <<Mark(2)>>)>>, <<Mark(3)>>), Mark(4)>>}

InFunction(list) ==
    [top: Callers, f: {list}, g: CalleeBodies, h: {<<Mark(40)>>}]

PlainPrograms ==
    UNION {InFunction(<<t, Mark(5)>>) : t \in TryStatements}

(* Loops, with a try statement in them that break and continue leave.      *)
LoopExits == {Return, Throw("Derived"), Break(None), Continue(None),
              Break("outer"), Continue("outer")}
Sometimes(e) == If(<<e>>, <<Mark(50)>>)

LoopTries ==
    {Try(<<Sometimes(e), Mark(19)>>, c, f) : e \in LoopExits,
         c \in {<<>>} \cup {<<Catch("Derived", <<Mark(11), x>>)>> : x \in LoopExits \ {Throw("Derived")}},
         f \in {<<>>, <<Mark(20)>>}}

Loops(list) ==
    {<<For("outer", <<Mark(61)>>, <<Mark(60)>> \o list)>>,
     <<DoWhile("outer", <<Mark(60), While(None, list), Mark(61)>>)>>,
     <<Try(<<While("outer", <<DoWhile("inner", <<Mark(62)>>)>>)>>, <<>>, <<>>),
       While("outer", <<DoWhile("inner", list)>>)>>}

(* Loops inside the try statement: break and continue stay inside it.      *)
LoopInTry(e) ==
    <<Try(<<While("outer", <<Mark(63), DoWhile(None, <<Sometimes(e), Mark(64)>>)>>),
            Native("Derived")>>,
          <<Catch("Derived", <<While("outer", <<DoWhile(None, <<e>>)>>)>>)>>,
          <<Mark(20)>>)>>

(* A switch whose case or default leaves the function or raises inside a   *)
(* try statement around it.                                                *)
SwitchInTry(e) ==
    <<Try(<<Switch(<<e, Mark(70)>>, <<Mark(71)>>), Mark(72),
            Switch(<<Mark(73)>>, <<e>>)>>,
          <<Catch("Exception", <<Switch(<<Mark(74)>>, <<Mark(75)>>)>>)>>,
          <<Mark(20)>>)>>

LoopPrograms ==
    UNION {InFunction(l) : l \in
        UNION {Loops(<<t>>) : t \in LoopTries}
        \cup {LoopInTry(e) : e \in LoopExits}
        \cup {SwitchInTry(e) : e \in Exits}}

(* A try statement in the try clause of another one, neither with a        *)
(* finally block (see GenerateTry); nothing leaves the outer one before.   *)
NestedPrograms ==
    UNION {InFunction(<<Try(<<Try(b, c, <<>>), Mark(15), e>>, d, <<>>), Mark(5)>>) :
               b \in Bodies, c \in Catches({<<Mark(11), Return>>, <<Mark(11), Rethrow>>}),
               e \in {Mark(16), Return},
               d \in OneCatch({<<Mark(17)>>})}

(* The top level alone, with as many operands at once as pushes. *)
TopLevelPrograms ==
    [top: {<<Try(<<Mark(10)>>, <<>>, f)>> : f \in {<<>>, <<Mark(20)>>}}
              \cup {<<Switch(<<Mark(10)>>, <<>>)>>},
     f: {<<>>}, g: {<<>>}, h: {<<>>}]

ConformingPrograms ==
    PlainPrograms \cup LoopPrograms \cup NestedPrograms \cup TopLevelPrograms

(* A catch clause that throws, although there is a finally block.          *)
ThrowInCatch ==
    UNION {InFunction(<<Try(b, c, <<Mark(20)>>), Mark(5)>>) :
               b \in Bodies, c \in OneCatch(Throwing)}

(* A try statement in the catch clause of another one. *)
TryInCatch ==
    UNION {InFunction(<<Try(b, <<Catch("Exception", <<Try(b, <<>>, <<>>)>>)>>, <<>>),
                        Mark(5)>>) : b \in Bodies}
=============================================================================
