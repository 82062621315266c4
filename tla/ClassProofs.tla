---------------------------- MODULE ClassProofs -----------------------------
(***************************************************************************)
(* Theorems about Classes, for every set of programs of which the regular  *)
(* ones run: calls, fields, views and casts.                               *)
(***************************************************************************)
EXTENDS Classes, ClassTableProofs

-----------------------------------------------------------------------------
(* Where the methods of supers and of interfaces are.                      *)

LEMMA SuperStep ==
    ASSUME Ready, NEW c \in Classes, NEW s \in Range(Ancestry(c)), s # c
    PROVE  /\ SuperClass(c) # NoClass /\ SuperClass(c) \in Classes /\ SuperClass(c) < c
           /\ s \in Range(Ancestry(SuperClass(c))) /\ s \in Range(chain[c])
           /\ SuperClass(c) \in Range(chain[c]) /\ SuperClass(c) \in Range(Ancestry(c))
           /\ Range(Ancestry(SuperClass(c))) = Range(chain[c])
           /\ \A name : PositionIn(c, name) = 0 =>
                 Implementation(c, name) = Implementation(SuperClass(c), name)
<1>1. /\ Range(Ancestry(c)) = {c} \cup Range(chain[c])
      /\ SuperClass(c) = NoClass => Range(chain[c]) = {}
      /\ SuperClass(c) # NoClass =>
            SuperClass(c) \in Classes /\ SuperClass(c) < c
            /\ Range(chain[c]) = Range(Ancestry(SuperClass(c)))
  BY Hierarchy
<1>2. s \in Range(chain[c]) /\ SuperClass(c) # NoClass
  BY <1>1
<1>3. SuperClass(c) \in Range(Ancestry(SuperClass(c)))
  BY <1>1, <1>2, SelfAbove
<1> QED
  BY <1>1, <1>2, <1>3, ImplementationIs

(* The table of a class begins with the names of the tables of its supers. *)
StartsAs(c, s) ==
    /\ Len(class[s]) \in Nat /\ Len(class[c]) \in Nat /\ Len(class[s]) <= Len(class[c])
    /\ \A j \in 1..Len(class[s]) : class[c][j].name = class[s][j].name

LEMMA SlotsKept ==
    ASSUME Ready, Regular
    PROVE  \A c \in Classes : \A s \in Range(Ancestry(c)) : StartsAs(c, s)
<1> DEFINE T == {c \in Classes : \E s \in Range(Ancestry(c)) : ~StartsAs(c, s)}
<1> SUFFICES ASSUME T # {} PROVE FALSE
  OBVIOUS
<1>1. Classes \subseteq Nat
  BY ReadyIs
<1>2. PICK c \in T : \A m \in T : c <= m
  <2>1. T \in SUBSET Nat
    BY <1>1
  <2> HIDE DEF T
  <2> QED BY <2>1, LeastOf
<1>3. c \in Classes /\ c \in Nat
  BY <1>1
<1>4. PICK s \in Range(Ancestry(c)) : ~StartsAs(c, s)
  OBVIOUS
<1>5. \A e \in Classes : e < c => \A x \in Range(Ancestry(e)) : StartsAs(e, x)
  <2>1. \A e \in Classes : e < c => e \notin T
    BY <1>1, <1>2
  <2> QED BY <2>1
<1> HIDE DEF T
<1>6. CASE s = c
  <2>1. Len(class[c]) \in Nat
    BY <1>3, SlotsRight DEF Slotted
  <2> QED BY <1>4, <1>6, <2>1 DEF StartsAs
<1>7. CASE s # c
  <2> DEFINE d == SuperClass(c)
  <2>1. d \in Classes /\ d < c /\ s \in Range(Ancestry(d)) /\ d # NoClass
    BY <1>3, <1>7, SuperStep
  <2>2. StartsAs(d, s)
    BY <1>5, <2>1
  <2>3. StartsAs(c, d)
    <3>1. Slotted(c) /\ Slotted(d)
      BY <1>3, <2>1, SlotsRight
    <3> QED BY <2>1, <3>1 DEF Slotted, StartsAs
  <2> HIDE DEF d
  <2>4. StartsAs(c, s)
    BY <2>2, <2>3 DEF StartsAs
  <2> QED BY <1>4, <2>4
<1> QED
  BY <1>6, <1>7

(* The index the compiler gives a method of a class is that of its slot in *)
(* the class_table, of whatever sub class.                                 *)
LEMMA MethodPlace ==
    ASSUME Ready, Regular, NEW v \in Classes, NEW t \in Range(Ancestry(v)), NEW name,
           \A d \in Range(interfaces[t]) : PositionIn(d, name) = 0
    PROVE  \A s \in Range(Ancestry(t)) : \A q \in OfKind(s, "method") :
              members[s][q].name = name =>
                 /\ index[s][q] \in Nat /\ index[s][q] + 1 \in 1..Len(class[v])
                 /\ class[v][index[s][q] + 1].name = name
<1> DEFINE Good(s) == \A q \in OfKind(s, "method") :
              members[s][q].name = name =>
                 /\ index[s][q] \in Nat /\ index[s][q] + 1 \in 1..Len(class[v])
                 /\ class[v][index[s][q] + 1].name = name
           T == {s \in Range(Ancestry(t)) : ~Good(s)}
<1> SUFFICES ASSUME T # {} PROVE FALSE
  OBVIOUS
<1>0. /\ t \in Classes /\ Range(Ancestry(t)) \subseteq Range(Ancestry(v))
      /\ \A s \in Range(Ancestry(t)) : s \in Classes /\ Range(Ancestry(s)) \subseteq Range(Ancestry(t))
  <2>1. t \in Classes /\ Range(Ancestry(t)) \subseteq Range(Ancestry(v))
    BY Hierarchy
  <2> QED BY <2>1, Hierarchy
<1>1. Range(Ancestry(t)) \subseteq Nat
  BY <1>0, ReadyIs
<1>2. PICK s \in T : \A m \in T : s <= m
  <2>1. T \in SUBSET Nat
    BY <1>1
  <2> HIDE DEF T
  <2> QED BY <2>1, LeastOf
<1>3. s \in Range(Ancestry(t)) /\ s \in Nat /\ ~Good(s)
  BY <1>1
<1>4. \A e \in Range(Ancestry(t)) : e < s => Good(e)
  <2>1. \A e \in Range(Ancestry(t)) : e < s => e \notin T
    BY <1>1, <1>2
  <2> QED BY <2>1
<1> HIDE DEF T
<1>5. PICK q \in OfKind(s, "method") :
         /\ members[s][q].name = name
         /\ ~(/\ index[s][q] \in Nat /\ index[s][q] + 1 \in 1..Len(class[v])
              /\ class[v][index[s][q] + 1].name = name)
  BY <1>3
<1>6. CASE search_member_in_super(s, name) = NotFound
  <2>1. q \in Fresh(s, "method") /\ s \in Range(Ancestry(v))
    BY <1>0, <1>3, <1>5, <1>6 DEF Fresh
  <2>2. Slotted(v)
    BY SlotsRight
  <2>3. /\ index[s][q] \in Nat /\ index[s][q] < Len(class[v]) /\ Len(class[v]) \in Nat
        /\ class[v][index[s][q] + 1].name = members[s][q].name
    BY <2>1, <2>2 DEF Slotted
  <2> QED BY <1>5, <2>3
<1>7. CASE search_member_in_super(s, name) # NotFound
  <2> DEFINE found == search_member_in_super(s, name)
             x == found.class
             p == found.position
  <2>1. q \in DOMAIN members[s] /\ s \in Classes
    BY <1>0, <1>3 DEF OfKind
  <2>2. /\ index[s][q] = index[x][p] /\ p \in OfKind(x, "method")
        /\ members[x][p].name = name /\ x < s
        /\ x \in Range(chain[s]) \cup Range(interfaces[s]) /\ PositionIn(x, name) # 0
    BY <1>5, <1>7, <2>1, IndexOfOverride
  <2> HIDE DEF x, p
  <2>3. Range(interfaces[s]) \subseteq Range(interfaces[t])
    BY <1>0, <1>3, Interfaces
  <2>4. x \in Range(chain[s])
    BY <2>2, <2>3
  <2>5. x \in Range(Ancestry(t))
    <3>1. Range(chain[s]) \subseteq Range(Ancestry(s))
      BY <2>1, Hierarchy
    <3> QED BY <1>0, <1>3, <2>4, <3>1
  <2>6. Good(x)
    BY <1>4, <2>2, <2>5
  <2> QED BY <1>5, <2>2, <2>6
<1> QED
  BY <1>6, <1>7

-----------------------------------------------------------------------------
(* The class that a name is found in is the nearest that declares it.      *)
LEMMA NearIs ==
    ASSUME Ready, NEW c \in Classes, NEW name,
           \E e \in Range(Ancestry(c)) : PositionIn(e, name) # 0
    PROVE  LET found == dkc_search_member(c, name)
           IN  /\ found # NotFound /\ found.class \in Range(Ancestry(c))
               /\ PositionIn(found.class, name) # 0 /\ found = Found(found.class, name)
  BY FindsAll DEF Finds

LEMMA NearSteps ==
    ASSUME Ready, NEW c \in Classes, NEW name
    PROVE  /\ PositionIn(c, name) # 0 => dkc_search_member(c, name) = Found(c, name)
           /\ (PositionIn(c, name) = 0 /\ \E e \in Range(Ancestry(c)) : PositionIn(e, name) # 0) =>
                 /\ SuperClass(c) # NoClass
                 /\ \E e \in Range(Ancestry(SuperClass(c))) : PositionIn(e, name) # 0
                 /\ dkc_search_member(c, name) = dkc_search_member(SuperClass(c), name)
<1>1. /\ dkc_search_member(c, name) =
                 IF PositionIn(c, name) # 0 THEN Found(c, name) ELSE search_member_in_super(c, name)
      /\ search_member_in_super(c, name) =
                 IF SuperClass(c) # NoClass /\ dkc_search_member(SuperClass(c), name) # NotFound
                 THEN dkc_search_member(SuperClass(c), name)
                 ELSE FirstMember(interfaces[c], name)
  BY Search
<1>2. ASSUME PositionIn(c, name) = 0, NEW e \in Range(Ancestry(c)), PositionIn(e, name) # 0
      PROVE  /\ SuperClass(c) # NoClass
             /\ \E x \in Range(Ancestry(SuperClass(c))) : PositionIn(x, name) # 0
             /\ dkc_search_member(c, name) = dkc_search_member(SuperClass(c), name)
  <2>1. e # c
    BY <1>2
  <2>2. SuperClass(c) # NoClass /\ SuperClass(c) \in Classes /\ e \in Range(Ancestry(SuperClass(c)))
    BY <2>1, SuperStep
  <2>3. dkc_search_member(SuperClass(c), name) # NotFound
    BY <1>2, <2>2, NearIs
  <2> QED BY <1>1, <1>2, <2>2, <2>3
<1> QED
  BY <1>1, <1>2

(* A class runs the function of the class the name is found in.            *)
LEMMA NearRuns ==
    ASSUME Ready, NEW name
    PROVE  \A c \in Classes : (\E e \in Range(Ancestry(c)) : PositionIn(e, name) # 0) =>
              Implementation(c, name) = Function(dkc_search_member(c, name).class, name)
<1> DEFINE Good(c) == (\E e \in Range(Ancestry(c)) : PositionIn(e, name) # 0) =>
              Implementation(c, name) = Function(dkc_search_member(c, name).class, name)
           T == {c \in Classes : ~Good(c)}
<1> SUFFICES ASSUME T # {} PROVE FALSE
  OBVIOUS
<1>1. Classes \subseteq Nat
  BY ReadyIs
<1>2. PICK c \in T : \A m \in T : c <= m
  <2>1. T \in SUBSET Nat
    BY <1>1
  <2> HIDE DEF T
  <2> QED BY <2>1, LeastOf
<1>3. c \in Classes /\ c \in Nat /\ ~Good(c)
  BY <1>1
<1>4. \A e \in Classes : e < c => Good(e)
  <2>1. \A e \in Classes : e < c => e \notin T
    BY <1>1, <1>2
  <2> QED BY <2>1
<1> HIDE DEF T
<1>5. PICK e \in Range(Ancestry(c)) : PositionIn(e, name) # 0
  BY <1>3
<1>6. CASE PositionIn(c, name) # 0
  <2>1. dkc_search_member(c, name).class = c
    BY <1>3, <1>6, NearSteps DEF Found
  <2> QED BY <1>3, <1>6, <2>1, ImplementationIs
<1>7. CASE PositionIn(c, name) = 0
  <2> DEFINE d == SuperClass(c)
  <2>1. d # NoClass /\ d \in Classes /\ d < c /\ e \in Range(Ancestry(d))
        /\ Implementation(c, name) = Implementation(d, name)
    <3>1. e # c
      BY <1>5, <1>7
    <3> QED BY <1>3, <1>7, <3>1, SuperStep
  <2>2. dkc_search_member(c, name) = dkc_search_member(d, name)
    BY <1>3, <1>5, <1>7, NearSteps
  <2> HIDE DEF d
  <2>3. Good(d)
    BY <1>4, <2>1
  <2> QED BY <1>3, <1>5, <2>1, <2>2, <2>3
<1> QED
  BY <1>6, <1>7

-----------------------------------------------------------------------------
(* What a method returns is what the method it overrides returns, or a sub *)
(* class of it.                                                            *)
IsA(sub, super) == sub = super \/ (sub \in Classes /\ super \in Range(chain[sub]))

LEMMA IsATransitive ==
    ASSUME Ready, NEW a, NEW b, NEW d, IsA(a, b), IsA(b, d)
    PROVE  IsA(a, d)
<1>1. CASE a = b \/ b = d
  BY <1>1
<1>2. CASE a # b /\ b # d
  <2>1. a \in Classes /\ b \in Range(chain[a]) /\ b \in Classes /\ d \in Range(chain[b])
    BY <1>2 DEF IsA
  <2>2. Range(chain[a]) \subseteq Range(Ancestry(a)) /\ Range(chain[b]) \subseteq Range(Ancestry(b))
    BY <2>1, Hierarchy
  <2>3. Range(Ancestry(b)) \subseteq Range(Ancestry(a))
    BY <2>1, <2>2, Hierarchy
  <2>4. d \in Range(Ancestry(a)) /\ Range(Ancestry(a)) = {a} \cup Range(chain[a])
    BY <2>1, <2>2, <2>3, Hierarchy
  <2> QED BY <2>1, <2>4 DEF IsA
<1> QED
  BY <1>1, <1>2

LEMMA MemberTypes ==
    ASSUME Ready, NEW c \in Classes, NEW p \in DOMAIN members[c]
    PROVE  /\ members[c][p].type \in 0..Len(cs)
           /\ members[c][p].type # NoClass => members[c][p].type \in Classes
           /\ members[c][p] \in Range(members[c])
<1>1. members[c][p] \in DeclaredMembers
  BY MembersAre, SeqIsAny
<1>2. members[c][p].type \in 0..Len(cs) /\ Classes = 1..Len(cs) /\ Len(cs) \in Nat
  BY <1>1, ReadyIs DEF DeclaredMembers
<1> QED
  BY <1>2 DEF NoClass, Range

LEMMA OverrideType ==
    ASSUME Ready, Regular, NEW c \in Classes, NEW p \in DOMAIN members[c],
           search_member_in_super(c, members[c][p].name) # NotFound
    PROVE  LET found == search_member_in_super(c, members[c][p].name)
           IN  IsA(members[c][p].type, members[found.class][found.position].type)
<1> DEFINE found == search_member_in_super(c, members[c][p].name)
           super == Member(found).type
           sub   == members[c][p].type
<1>1. /\ members[found.class][found.position] = Member(found)
      /\ found.position \in DOMAIN members[found.class] /\ found.class \in Classes
      /\ ~members[c][p].constructor => check_type_compatibility(super, sub)
  BY IndexOfOverride
<1>2. members[c][p].constructor \/ (super # NoClass /\ IsInterface(super)) => sub = super
  <2>1. SameResult(c) /\ members[c][p] \in Range(members[c])
    BY RegularIs, MemberTypes
  <2> QED BY <2>1 DEF SameResult
<1>3. sub # NoClass => sub \in Classes
  BY MemberTypes
<1> HIDE DEF super, sub
<1>4. IsA(sub, super)
  <2> SUFFICES ASSUME sub # super PROVE sub \in Classes /\ super \in Range(chain[sub])
    BY DEF IsA
  <2>1. ~members[c][p].constructor /\ ~(super # NoClass /\ IsInterface(super))
    BY <1>2
  <2>2. super # NoClass /\ sub # NoClass /\ is_super_class(sub, super)
    BY <1>1, <2>1 DEF check_type_compatibility
  <2>3. sub \in Classes /\ super \in Range(chain[sub]) \cup Range(interfaces[sub])
    BY <1>3, <2>2 DEF is_super_class
  <2>4. super \notin Range(interfaces[sub])
    BY <2>1, <2>2, <2>3, Interfaces
  <2> QED BY <2>3, <2>4
<1> QED
  BY <1>1, <1>4 DEF super, sub

(* Seen from a class, the nearest method of a name returns what the others *)
(* return, or a sub class of it.                                           *)
TypeOf(c, name) == members[c][PositionIn(c, name)].type

LEMMA NearTypes ==
    ASSUME Ready, Regular, NEW name
    PROVE  \A c \in Classes : \A e \in Range(Ancestry(c)) : PositionIn(e, name) # 0 =>
              IsA(TypeOf(dkc_search_member(c, name).class, name), TypeOf(e, name))
<1> DEFINE Near(c) == dkc_search_member(c, name).class
           Good(c) == \A e \in Range(Ancestry(c)) : PositionIn(e, name) # 0 =>
              IsA(TypeOf(Near(c), name), TypeOf(e, name))
           T == {c \in Classes : ~Good(c)}
<1> SUFFICES ASSUME T # {} PROVE FALSE
  OBVIOUS
<1>1. Classes \subseteq Nat
  BY ReadyIs
<1>2. PICK c \in T : \A m \in T : c <= m
  <2>1. T \in SUBSET Nat
    BY <1>1
  <2> HIDE DEF T
  <2> QED BY <2>1, LeastOf
<1>3. c \in Classes /\ c \in Nat /\ ~Good(c)
  BY <1>1
<1>4. \A e \in Classes : e < c => Good(e)
  <2>1. \A e \in Classes : e < c => e \notin T
    BY <1>1, <1>2
  <2> QED BY <2>1
<1> HIDE DEF T
<1>5. PICK e \in Range(Ancestry(c)) : PositionIn(e, name) # 0 /\ ~IsA(TypeOf(Near(c), name), TypeOf(e, name))
  BY <1>3
<1> DEFINE d == SuperClass(c)
<1>6. CASE PositionIn(c, name) # 0
  <2>1. Near(c) = c
    BY <1>3, <1>6, NearSteps DEF Found
  <2>2. e # c
    BY <1>5, <2>1 DEF IsA
  <2>3. d # NoClass /\ d \in Classes /\ d < c /\ e \in Range(Ancestry(d))
    BY <1>3, <2>2, SuperStep
  <2>4. dkc_search_member(d, name) # NotFound /\ dkc_search_member(d, name) = Found(Near(d), name)
    BY <1>5, <2>3, NearIs
  <2>5. search_member_in_super(c, name) = dkc_search_member(d, name)
    BY <1>3, <2>3, <2>4, Search
  <2> DEFINE p == PositionIn(c, name)
  <2>6. p \in DOMAIN members[c] /\ members[c][p].name = name
    BY <1>3, <1>6, Place
  <2>7. search_member_in_super(c, name) # NotFound
    BY <2>4, <2>5
  <2>8. IsA(members[c][p].type, members[search_member_in_super(c, name).class][search_member_in_super(c, name).position].type)
    <3> HIDE DEF p
    <3> QED BY <1>3, <2>6, <2>7, OverrideType
  <2>9. IsA(TypeOf(c, name), TypeOf(Near(d), name))
    <3>1. search_member_in_super(c, name).class = Near(d)
          /\ search_member_in_super(c, name).position = PositionIn(Near(d), name)
      BY <2>4, <2>5 DEF Found
    <3> QED BY <2>8, <3>1 DEF TypeOf
  <2>10. IsA(TypeOf(Near(d), name), TypeOf(e, name))
    <3> HIDE DEF d
    <3> QED BY <1>4, <1>5, <2>3
  <2>11. IsA(TypeOf(c, name), TypeOf(e, name))
    BY <2>9, <2>10, IsATransitive
  <2> QED BY <1>5, <2>1, <2>11
<1>7. CASE PositionIn(c, name) = 0
  <2>1. d # NoClass /\ d \in Classes /\ d < c /\ e \in Range(Ancestry(d))
    <3>1. e # c
      BY <1>5, <1>7
    <3> QED BY <1>3, <3>1, SuperStep
  <2>2. dkc_search_member(c, name) = dkc_search_member(d, name)
    BY <1>3, <1>5, <1>7, NearSteps
  <2> HIDE DEF d
  <2>3. Good(d)
    BY <1>4, <2>1
  <2> QED BY <1>5, <2>1, <2>2, <2>3
<1> QED
  BY <1>6, <1>7

-----------------------------------------------------------------------------
(* Methods of interfaces.                                                  *)
LEMMA FirstPlace ==
    ASSUME NEW list, AnySeq(list)
    PROVE  /\ \A x \in Range(list) :
                 /\ FirstIndexOf(list, x) \in DOMAIN list /\ FirstIndexOf(list, x) # 0
                 /\ list[FirstIndexOf(list, x)] = x
                 /\ \A j \in DOMAIN list : j < FirstIndexOf(list, x) => list[j] # x
<1> SUFFICES ASSUME NEW x \in Range(list)
             PROVE  /\ FirstIndexOf(list, x) \in DOMAIN list /\ FirstIndexOf(list, x) # 0
                    /\ list[FirstIndexOf(list, x)] = x
                    /\ \A j \in DOMAIN list : j < FirstIndexOf(list, x) => list[j] # x
  OBVIOUS
<1> DEFINE I == {i \in 1..Len(list) : list[i] = x}
           at == FirstIndexOf(list, x)
<1>1. DOMAIN list = 1..Len(list)
  BY DEF AnySeq
<1>2. I # {} /\ I \in SUBSET Nat
  BY <1>1 DEF Range
<1>3. at = IF I # {} THEN Min(I) ELSE 0
  BY DEF FirstIndexOf, SelectInSeq
<1>4. at \in I /\ \A m \in I : at <= m
  <2> HIDE DEF I
  <2> QED BY <1>2, <1>3, MinIs
<1> HIDE DEF at
<1>5. at \in 1..Len(list) /\ list[at] = x
  BY <1>4
<1>6. \A j \in DOMAIN list : j < at => list[j] # x
  <2>1. Len(list) \in Nat
    BY DEF AnySeq
  <2> QED BY <1>1, <1>4, <2>1
<1> QED
  BY <1>1, <1>5, <1>6 DEF at

LEMMA InterfaceMethod ==
    ASSUME Ready, NEW c \in Classes, NEW name
    PROVE  LET i == is_interface_method(c, name)
           IN  /\ i = 0 => \A d \in Range(interfaces[c]) : PositionIn(d, name) = 0
               /\ i # 0 => /\ ~IsInterface(c) /\ i \in DOMAIN interfaces[c]
                           /\ PositionIn(interfaces[c][i], name) # 0
                           /\ interfaces[c][i] \in Range(interfaces[c])
                           /\ \A j \in DOMAIN interfaces[c] : j < i => interfaces[c][j] # interfaces[c][i]
<1> DEFINE list == interfaces[c]
           I == {i \in 1..Len(list) : PositionIn(list[i], name) # 0}
           at == is_interface_method(c, name)
<1>1. /\ AnySeq(list) /\ DOMAIN list = 1..Len(list) /\ Len(list) \in Nat
      /\ IsInterface(c) => list = <<>>
  <2>1. interfaces[c] \in Seq(1..(c - 1)) /\ (IsInterface(c) => list = <<>>)
    BY Interfaces
  <2> QED BY <2>1, SeqIsAny
<1>2. CASE IsInterface(c)
  <2>1. at = 0 /\ Range(list) = {}
    BY <1>1, <1>2, RangeOf DEF is_interface_method
  <2> QED BY <2>1
<1>3. CASE ~IsInterface(c)
  <2>1. at = IF I # {} THEN Min(I) ELSE 0
    BY <1>3 DEF is_interface_method, SelectInSeq
  <2>2. I \in SUBSET Nat /\ 0 \notin I
    BY <1>1
  <2>3. I # {} => at \in I /\ \A m \in I : at <= m
    <3> HIDE DEF I, at
    <3> QED BY <2>1, <2>2, MinIs
  <2>4. at = 0 => \A d \in Range(list) : PositionIn(d, name) = 0
    BY <1>1, <2>2, <2>3 DEF Range
  <2>5. at # 0 => I # {}
    BY <2>1
  <2> HIDE DEF at
  <2>6. ASSUME at # 0
        PROVE  /\ at \in DOMAIN list /\ PositionIn(list[at], name) # 0 /\ list[at] \in Range(list)
               /\ \A j \in DOMAIN list : j < at => list[j] # list[at]
    <3>1. at \in I /\ \A m \in I : at <= m
      BY <2>3, <2>5, <2>6
    <3>2. at \in DOMAIN list /\ PositionIn(list[at], name) # 0 /\ list[at] \in Range(list)
      BY <1>1, <3>1 DEF Range
    <3>3. \A j \in DOMAIN list : j < at => PositionIn(list[j], name) = 0
      BY <1>1, <3>1
    <3> QED BY <3>2, <3>3
  <2> QED BY <1>3, <2>4, <2>6 DEF at
<1> QED
  BY <1>2, <1>3

(* What an interface of a class declares: whatever class above declares it *)
(* too has the interface's index and returns the same or a sub class.      *)
LEMMA ApartIs ==
    ASSUME Ready, Regular, NEW c \in Classes, NEW d \in Range(interfaces[c]), NEW name,
           PositionIn(d, name) # 0
    PROVE  /\ d \in Classes /\ IsInterface(d) /\ PositionIn(d, name) \in OfKind(d, "method")
           /\ members[d][PositionIn(d, name)].name = name /\ name # DefaultConstructor
           /\ \A e \in Range(Ancestry(c)) : PositionIn(e, name) # 0 => d \in Range(interfaces[e])
           /\ \A e \in Range(interfaces[c]) : PositionIn(e, name) # 0 => e = d
<1> DEFINE p == PositionIn(d, name)
<1>1. d \in Classes /\ IsInterface(d)
  BY Interfaces
<1>2. p \in DOMAIN members[d] /\ members[d][p].name = name
  BY <1>1, Place
<1> HIDE DEF p
<1>3. members[d][p] \in Range(members[d])
  BY <1>2 DEF Range
<1>4. /\ members[d][p].kind = "method" /\ name # DefaultConstructor
      /\ \A e \in Range(Ancestry(c)) \cup Range(interfaces[c]) :
            PositionIn(e, name) # 0 => e = d \/ d \in Range(interfaces[e])
  <2>1. Apart(c)
    BY RegularIs
  <2> QED BY <1>2, <1>3, <2>1 DEF Apart
<1>5. d \notin Range(Ancestry(c))
  <2>1. ~IsInterface(c)
    <3>1. IsInterface(c) => Range(interfaces[c]) = {}
      BY Interfaces, RangeOf
    <3> QED BY <3>1
  <2>2. Range(Ancestry(c)) = {c} \cup Range(chain[c])
    BY Hierarchy
  <2>3. \A s \in Range(chain[c]) : ~IsInterface(s)
    BY Hierarchy
  <2> QED BY <1>1, <2>1, <2>2, <2>3
<1>6. \A e \in Range(interfaces[c]) : Range(interfaces[e]) = {}
  BY Interfaces, RangeOf
<1> QED
  BY <1>1, <1>2, <1>4, <1>5, <1>6 DEF OfKind, p

LEMMA InterfacePlace ==
    ASSUME Ready, Regular, NEW c \in Classes, NEW d \in Range(interfaces[c]), NEW name,
           PositionIn(d, name) # 0
    PROVE  \A e \in Range(Ancestry(c)) : \A q \in DOMAIN members[e] : members[e][q].name = name =>
              /\ index[e][q] = index[d][PositionIn(d, name)]
              /\ IsA(members[e][q].type, TypeOf(d, name))
<1> DEFINE Good(e) == \A q \in DOMAIN members[e] : members[e][q].name = name =>
              /\ index[e][q] = index[d][PositionIn(d, name)]
              /\ IsA(members[e][q].type, TypeOf(d, name))
           T == {e \in Range(Ancestry(c)) : ~Good(e)}
<1> SUFFICES ASSUME T # {} PROVE FALSE
  OBVIOUS
<1>0. \A e \in Range(Ancestry(c)) : e \in Classes /\ Range(Ancestry(e)) \subseteq Range(Ancestry(c))
  BY Hierarchy
<1>1. Range(Ancestry(c)) \subseteq Nat
  BY <1>0, ReadyIs
<1>2. PICK e \in T : \A m \in T : e <= m
  <2>1. T \in SUBSET Nat
    BY <1>1
  <2> HIDE DEF T
  <2> QED BY <2>1, LeastOf
<1>3. e \in Range(Ancestry(c)) /\ e \in Nat /\ e \in Classes /\ ~Good(e)
  BY <1>0, <1>1
<1>4. \A x \in Range(Ancestry(c)) : x < e => Good(x)
  <2>1. \A x \in Range(Ancestry(c)) : x < e => x \notin T
    BY <1>1, <1>2
  <2> QED BY <2>1
<1> HIDE DEF T
<1>5. PICK q \in DOMAIN members[e] :
         /\ members[e][q].name = name
         /\ ~(/\ index[e][q] = index[d][PositionIn(d, name)]
              /\ IsA(members[e][q].type, TypeOf(d, name)))
  BY <1>3
<1>6. PositionIn(e, name) # 0
  BY <1>3, <1>5, Place
<1>7. d \in Range(interfaces[e])
  BY <1>3, <1>6, ApartIs
<1> DEFINE found == search_member_in_super(e, name)
           x == found.class
           p == found.position
<1>8. found # NotFound
  BY <1>3, <1>7, FindsAbove
<1>9. /\ index[e][q] = index[x][p] /\ p \in OfKind(x, "method")
      /\ members[x][p].name = name /\ x < e /\ x \in Classes /\ p = PositionIn(x, name)
      /\ x \in Range(chain[e]) \cup Range(interfaces[e]) /\ PositionIn(x, name) # 0
  BY <1>3, <1>5, <1>8, IndexOfOverride
<1>10. IsA(members[e][q].type, members[x][p].type)
  BY <1>3, <1>5, <1>8, OverrideType
<1> HIDE DEF x, p, found
<1>11. CASE x \in Range(chain[e])
  <2>1. x \in Range(Ancestry(c))
    <3>1. Range(chain[e]) \subseteq Range(Ancestry(e))
      BY <1>3, Hierarchy
    <3> QED BY <1>0, <1>3, <1>11, <3>1
  <2>2. Good(x)
    BY <1>4, <1>9, <2>1
  <2>3. p \in DOMAIN members[x]
    BY <1>9 DEF OfKind
  <2>4. index[x][p] = index[d][PositionIn(d, name)] /\ IsA(members[x][p].type, TypeOf(d, name))
    BY <1>9, <2>2, <2>3
  <2>5. IsA(members[e][q].type, TypeOf(d, name))
    BY <1>10, <2>4, IsATransitive
  <2> QED BY <1>5, <1>9, <2>4, <2>5
<1>12. CASE x \in Range(interfaces[e])
  <2>1. x \in Range(interfaces[c])
    BY <1>3, <1>12, Interfaces
  <2>2. x = d
    BY <1>9, <2>1, ApartIs
  <2> QED BY <1>5, <1>9, <1>10, <2>2 DEF TypeOf
<1> QED
  BY <1>9, <1>11, <1>12

(* The interfaces of a class and its supers are those of one list, so that *)
(* an interface has the same place for all of them.                        *)
Lists(c, k) == \A s \in Range(Ancestry(c)) : InterfacesIn(s) \in {<<>>, k}

LEMMA OneList == ASSUME Ready, Regular PROVE \A c \in Classes : \E k \in Seq(Nat) : Lists(c, k)
<1> DEFINE Good(c) == \E k \in Seq(Nat) : Lists(c, k)
           T == {c \in Classes : ~Good(c)}
<1> SUFFICES ASSUME T # {} PROVE FALSE
  OBVIOUS
<1>1. Classes \subseteq Nat
  BY ReadyIs
<1>2. PICK c \in T : \A m \in T : c <= m
  <2>1. T \in SUBSET Nat
    BY <1>1
  <2> HIDE DEF T
  <2> QED BY <2>1, LeastOf
<1>3. c \in Classes /\ c \in Nat /\ ~Good(c)
  BY <1>1
<1>4. \A e \in Classes : e < c => Good(e)
  <2>1. \A e \in Classes : e < c => e \notin T
    BY <1>1, <1>2
  <2> QED BY <2>1
<1> HIDE DEF T
<1> DEFINE d == SuperClass(c)
<1>5. /\ Range(Ancestry(c)) = {c} \cup Range(chain[c])
      /\ d = NoClass => Range(chain[c]) = {}
      /\ d # NoClass => d \in Classes /\ d < c /\ Range(chain[c]) = Range(Ancestry(d))
  BY <1>3, Hierarchy
<1> HIDE DEF d
<1>6. CASE InterfacesIn(c) = <<>>
  <2>1. CASE d = NoClass
    <3>1. Lists(c, <<>>) /\ <<>> \in Seq(Nat)
      BY <1>5, <1>6, <2>1, EmptySeq DEF Lists
    <3> QED BY <1>3, <3>1
  <2>2. CASE d # NoClass
    <3>1. PICK k \in Seq(Nat) : Lists(d, k)
      BY <1>4, <1>5, <2>2
    <3>2. Lists(c, k)
      BY <1>5, <1>6, <2>2, <3>1 DEF Lists
    <3> QED BY <1>3, <3>2
  <2> QED BY <2>1, <2>2
<1>7. CASE InterfacesIn(c) # <<>>
  <2> DEFINE k == InterfacesIn(c)
  <2>1. k \in Seq(Nat)
    <3>1. k \in Seq(1..(c - 1)) /\ 1..(c - 1) \subseteq Nat
      BY <1>3, ReadyIs, KindsExtended
    <3> HIDE DEF k
    <3> QED BY <3>1, SeqMonotonic
  <2>2. \A s \in Range(chain[c]) : InterfacesIn(s) \in {<<>>, k}
    <3>1. SameInterfaces(c)
      BY <1>3, RegularIs
    <3> QED BY <1>7, <3>1 DEF SameInterfaces
  <2>3. Lists(c, k)
    BY <1>5, <2>2 DEF Lists
  <2> QED BY <1>3, <2>1, <2>3
<1> QED
  BY <1>6, <1>7

StartsSo(c, k) == interfaces[c] = <<>> \/ (StartsWith(interfaces[c], k) /\ Range(interfaces[c]) \subseteq Range(k))

LEMMA ListStarts ==
    ASSUME Ready, Regular, NEW c \in Classes, NEW k \in Seq(Nat), Lists(c, k)
    PROVE  \A s \in Range(Ancestry(c)) : StartsSo(s, k)
<1> DEFINE T == {s \in Range(Ancestry(c)) : ~StartsSo(s, k)}
<1> SUFFICES ASSUME T # {} PROVE FALSE
  OBVIOUS
<1>0. \A s \in Range(Ancestry(c)) : s \in Classes /\ Range(Ancestry(s)) \subseteq Range(Ancestry(c))
  BY Hierarchy
<1>1. Range(Ancestry(c)) \subseteq Nat
  BY <1>0, ReadyIs
<1>2. PICK s \in T : \A m \in T : s <= m
  <2>1. T \in SUBSET Nat
    BY <1>1
  <2> HIDE DEF T
  <2> QED BY <2>1, LeastOf
<1>3. s \in Range(Ancestry(c)) /\ s \in Nat /\ s \in Classes /\ ~StartsSo(s, k)
  BY <1>0, <1>1
<1>4. \A x \in Range(Ancestry(c)) : x < s => StartsSo(x, k)
  <2>1. \A x \in Range(Ancestry(c)) : x < s => x \notin T
    BY <1>1, <1>2
  <2> QED BY <2>1
<1> HIDE DEF T
<1> DEFINE own == InterfacesIn(s)
           ss == [i \in DOMAIN chain[s] |-> interfaces[chain[s][i]]]
           added == FlattenSeq(ss)
<1>5. interfaces[s] = own \o added /\ own \in {<<>>, k}
  <2>1. MembersOf(s)
    BY <1>3, ReadyIs
  <2> QED BY <1>3, <2>1 DEF MembersOf, AddedInterfaces, Lists
<1>6. ss \in Seq(Seq(Nat)) /\ AddedInterfaces(s) = added
  <2>1. ss \in Seq(Seq(1..(s - 1)))
    <3>1. Tables /\ s \in 1..Len(members)
      BY <1>3, ReadyIs
    <3> QED BY <3>1, InterfacesOf
  <2>2. Seq(1..(s - 1)) \subseteq Seq(Nat)
    <3>1. 1..(s - 1) \subseteq Nat
      BY <1>3
    <3> QED BY <3>1, SeqMonotonic
  <2> HIDE DEF ss
  <2>3. ss \in Seq(Seq(Nat))
    <3> DEFINE A == Seq(1..(s - 1))
               B == Seq(Nat)
    <3>1. ss \in Seq(A) /\ A \subseteq B
      BY <2>1, <2>2
    <3> HIDE DEF A, B
    <3>2. ss \in Seq(B)
      BY <3>1, SeqMonotonic
    <3> QED BY <3>2 DEF B
  <2> QED BY <2>3 DEF AddedInterfaces, ss
<1>7. \A i \in DOMAIN ss : \E x \in Range(chain[s]) : ss[i] = interfaces[x]
  BY DEF Range
<1>8. \A x \in Range(chain[s]) : StartsSo(x, k)
  <2>1. \A x \in Range(chain[s]) : x < s /\ x \in Range(Ancestry(s))
    <3>1. Range(Ancestry(s)) = {s} \cup Range(chain[s])
      BY <1>3, Hierarchy
    <3>2. \A x \in Range(chain[s]) : x < s
      BY <1>3, Hierarchy
    <3> QED BY <3>1, <3>2
  <2> QED BY <1>0, <1>3, <1>4, <2>1
<1>9. \A i \in DOMAIN ss : ss[i] = <<>> \/ (StartsWith(ss[i], k) /\ Range(ss[i]) \subseteq Range(k))
  BY <1>7, <1>8 DEF StartsSo
<1> HIDE DEF ss
<1>10. \A i \in DOMAIN ss : Range(ss[i]) \subseteq Range(k)
  BY <1>9, RangeOf
<1>11. /\ added \in Seq(Nat) /\ (added = <<>> \/ StartsWith(added, k))
       /\ Range(added) \subseteq Range(k)
  <2>1. added = <<>> \/ StartsWith(added, k)
    BY <1>6, <1>9, FlattenStarts
  <2>2. added \in Seq(Nat) /\ Range(added) = UNION {Range(ss[i]) : i \in DOMAIN ss}
    BY <1>6, FlattenRange
  <2> HIDE DEF added
  <2> QED BY <1>10, <2>1, <2>2
<1> HIDE DEF added, own
<1>12. CASE own = <<>>
  <2>1. interfaces[s] = added
    BY <1>5, <1>11, <1>12, ConcatEmptySeq
  <2> QED BY <1>3, <1>11, <2>1 DEF StartsSo
<1>13. CASE own = k
  <2>1. StartsWith(k, k)
    BY LenProperties DEF StartsWith
  <2>2. StartsWith(k \o added, k)
    BY <1>11, <2>1, ConcatStarts
  <2>3. Range(k \o added) = Range(k) \cup Range(added)
    BY <1>11, ConcatRange
  <2> QED BY <1>3, <1>5, <1>11, <1>13, <2>2, <2>3 DEF StartsSo
<1> QED
  BY <1>5, <1>12, <1>13

LEMMA SamePlace ==
    ASSUME Ready, Regular, NEW c \in Classes, NEW s \in Range(Ancestry(c)), NEW i \in DOMAIN interfaces[s],
           \A j \in DOMAIN interfaces[s] : j < i => interfaces[s][j] # interfaces[s][i]
    PROVE  i \in DOMAIN interfaces[c] /\ interfaces[c][i] = interfaces[s][i]
<1>1. PICK k \in Seq(Nat) : Lists(c, k)
  BY OneList
<1>2. c \in Range(Ancestry(c)) /\ s \in Classes
  BY SelfAbove, Hierarchy
<1>3. StartsSo(s, k) /\ StartsSo(c, k)
  BY <1>1, <1>2, ListStarts
<1> DEFINE a == interfaces[s]
           b == interfaces[c]
<1>4. /\ AnySeq(a) /\ DOMAIN a = 1..Len(a) /\ Len(a) \in Nat
      /\ AnySeq(b) /\ DOMAIN b = 1..Len(b) /\ Len(b) \in Nat
  <2>1. a \in Seq(1..(s - 1)) /\ b \in Seq(1..(c - 1))
    BY <1>2, Interfaces
  <2> QED BY <2>1, SeqIsAny
<1>5. Range(a) \subseteq Range(b)
  BY Interfaces
<1>6. a[i] \in Range(a)
  BY DEF Range
<1>7. a # <<>> /\ b # <<>>
  BY <1>5, <1>6, RangeOf
<1>8. StartsWith(a, k) /\ StartsWith(b, k) /\ Range(a) \subseteq Range(k)
  BY <1>3, <1>7 DEF StartsSo
<1> HIDE DEF a, b
<1>9. PICK m \in DOMAIN k : k[m] = a[i]
  BY <1>6, <1>8 DEF Range
<1>10. DOMAIN k = 1..Len(k) /\ Len(k) \in Nat
  BY LenProperties
<1>11. a[m] = a[i] /\ m \in DOMAIN a /\ i \in DOMAIN a
  BY <1>4, <1>8, <1>9, <1>10 DEF StartsWith, a
<1>12. ~(m < i)
  BY <1>11 DEF a
<1>13. i \in 1..Len(k)
  BY <1>4, <1>9, <1>10, <1>11, <1>12
<1>14. a[i] = k[i] /\ b[i] = k[i] /\ i \in DOMAIN b
  BY <1>4, <1>8, <1>10, <1>13 DEF StartsWith
<1> QED
  BY <1>14 DEF a, b

-----------------------------------------------------------------------------
(* What a call runs.                                                       *)

(* What a call of name through a view runs: of a class_table what the      *)
(* class means, of an interface_v_table what the class itself defines.     *)
Runs(v, n, name) == IF n = 0 THEN Implementation(v, name) ELSE Function(v, name)

(* A function is the non-abstract method of that name that its class has.  *)
LEMMA FunctionDefines ==
    ASSUME NEW c, NEW name, Function(c, name) # NoFunction
    PROVE  /\ Function(c, name) = <<c, name>> /\ PositionIn(c, name) # 0
           /\ members[c][PositionIn(c, name)].kind = "method"
           /\ ~members[c][PositionIn(c, name)].abstract
  BY DEF Function

(* The implementation of a method is in the class or in a super, and in a  *)
(* super only if the class has no member of that name.                     *)
LEMMA ImplementedBy ==
    ASSUME Ready, NEW name
    PROVE  \A c \in Classes : Implementation(c, name) # NoFunction =>
              \E x \in Range(Ancestry(c)) :
                 /\ Implementation(c, name) = <<x, name>> /\ Function(x, name) = <<x, name>>
                 /\ PositionIn(x, name) # 0
                 /\ x # c => PositionIn(c, name) = 0 /\ x \in Range(chain[c])
                 /\ dkc_search_member(c, name).class = x
<1> SUFFICES ASSUME NEW c \in Classes, Implementation(c, name) # NoFunction
             PROVE  \E x \in Range(Ancestry(c)) :
                 /\ Implementation(c, name) = <<x, name>> /\ Function(x, name) = <<x, name>>
                 /\ PositionIn(x, name) # 0
                 /\ x # c => PositionIn(c, name) = 0 /\ x \in Range(chain[c])
                 /\ dkc_search_member(c, name).class = x
  OBVIOUS
<1>1. \E e \in Range(Ancestry(c)) : PositionIn(e, name) # 0
  <2> SUFFICES ASSUME \A e \in Range(Ancestry(c)) : PositionIn(e, name) = 0
               PROVE  FALSE
    OBVIOUS
  <2> DEFINE I == {i \in DOMAIN Ancestry(c) : PositionIn(Ancestry(c)[i], name) # 0}
  <2>1. I = {}
    BY DEF Range
  <2>2. SelectInSeq(Ancestry(c), LAMBDA d : PositionIn(d, name) # 0) = 0
    BY <2>1 DEF SelectInSeq
  <2> QED
    BY <2>2 DEF Implementation
<1>2. Implementation(c, name) = Function(dkc_search_member(c, name).class, name)
  BY <1>1, NearRuns
<1> DEFINE x == dkc_search_member(c, name).class
<1>3. x \in Range(Ancestry(c)) /\ PositionIn(x, name) # 0
  BY <1>1, NearIs
<1>4. Function(x, name) = <<x, name>>
  BY <1>2, FunctionDefines
<1>5. x # c => PositionIn(c, name) = 0 /\ x \in Range(chain[c])
  <2>1. PositionIn(c, name) # 0 => x = c
    BY NearSteps DEF Found
  <2> HIDE DEF x
  <2>2. x # c => x \in Range(chain[c])
    BY <1>3, SuperStep
  <2> QED
    BY <2>1, <2>2
<1> QED
  BY <1>2, <1>3, <1>4, <1>5

(* What is run through either kind of table is the implementation.         *)
LEMMA RunsIs ==
    ASSUME Ready, NEW v \in Classes, NEW n, NEW name, Runs(v, n, name) # NoFunction
    PROVE  Runs(v, n, name) = Implementation(v, name) /\ Implementation(v, name) # NoFunction
<1>1. CASE n = 0
  BY <1>1 DEF Runs
<1>2. CASE n # 0
  <2>1. Function(v, name) # NoFunction
    BY <1>2 DEF Runs
  <2>2. PositionIn(v, name) # 0
    BY <2>1, FunctionDefines
  <2>3. Implementation(v, name) = Function(v, name)
    BY <2>2, ImplementationIs
  <2> QED
    BY <1>2, <2>1, <2>3 DEF Runs
<1> QED
  BY <1>1, <1>2

Ref(c, v, n, fields) == [class |-> c, view |-> <<v, n>>, fields |-> fields]

(* A call through a class_table runs the implementation of the method whose*)
(* slot it is.                                                             *)
LEMMA ClassCall ==
    ASSUME Ready, Regular, NEW v \in Classes, NEW ref, ref.view = <<v, 0>>, NEW name, NEW k \in Nat,
           k + 1 \in 1..Len(class[v]), class[v][k + 1].name = name
    PROVE  PushMethod(ref, k) = Implementation(v, name)
<1>1. VTable(ref.view) = class[v]
  BY DEF VTable
<1>2. Slotted(v)
  BY SlotsRight
<1>3. DOMAIN class[v] = 1..Len(class[v])
  BY <1>2, LenProperties DEF Slotted
<1>4. class[v][k + 1].index = Implementation(v, name)
  BY <1>2 DEF Slotted
<1> QED
  BY <1>1, <1>3, <1>4 DEF PushMethod

(* A call through an interface_v_table runs what the class itself defines. *)
LEMMA InterfaceCall ==
    ASSUME Ready, Regular, NEW v \in Classes, NEW i \in DOMAIN interfaces[v], i # 0,
           NEW ref, ref.view = <<v, i>>, NEW name, PositionIn(interfaces[v][i], name) # 0
    PROVE  PushMethod(ref, index[interfaces[v][i]][PositionIn(interfaces[v][i], name)])
              = Function(v, name)
<1> DEFINE d == interfaces[v][i]
           p == PositionIn(d, name)
           ms == Methods(d)
           r == Rank(OfKind(d, "method"), p)
<1>1. d \in Range(interfaces[v])
  BY DEF Range
<1>2. d \in Classes /\ IsInterface(d) /\ p \in OfKind(d, "method") /\ members[d][p].name = name
  <2> HIDE DEF d
  <2> QED
    BY <1>1, ApartIs DEF d
<1>3. interface[v] = InterfaceTables(v)
  BY ReadyIs DEF LoadedAs
<1>4. VTable(ref.view) = interface[v][i]
  BY DEF VTable
<1>5. interface[v][i] = Slots(v, ms)
  BY <1>3 DEF InterfaceTables
<1> HIDE DEF d
<1>6. ms \in Seq(DeclaredMembers) /\ Len(ms) \in Nat /\ r \in 1..Len(ms) /\ ms[r] = members[d][p]
  BY <1>2, MethodsAre
<1>7. index[d][p] = r - 1
  BY <1>2, IndexOfInterface
<1> HIDE DEF ms, r, p
<1>8. /\ Slots(v, ms) \in Seq(Slot) /\ Len(Slots(v, ms)) = Len(ms)
      /\ Slots(v, ms)[r].index = Function(v, ms[r].name)
  BY <1>6, SlotsAre
<1>9. DOMAIN Slots(v, ms) = 1..Len(ms)
  BY <1>8, LenProperties
<1>10. index[d][p] + 1 = r
  BY <1>6, <1>7
<1>11. PushMethod(ref, index[d][p]) = Function(v, name)
  BY <1>2, <1>4, <1>5, <1>6, <1>8, <1>9, <1>10 DEF PushMethod
<1> QED
  BY <1>11 DEF d, p

(* The view <<v, n>> is of the kind that the type t needs.                 *)
Fits(v, n, t) ==
    IF IsInterface(t) THEN n \in DOMAIN interfaces[v] /\ n # 0 /\ interfaces[v][n] = t
    ELSE n = 0 /\ t \in Range(Ancestry(v))

IsMethod(t, name) ==
    LET found == dkc_search_member(t, name)
    IN  found # NotFound /\ Member(found).kind = "method"

(* What the compiler finds for a call is declared by the class, by a super *)
(* or by an interface.                                                     *)
LEMMA CalledIs ==
    ASSUME Ready, NEW t \in Classes, NEW name, IsMethod(t, name)
    PROVE  LET e == dkc_search_member(t, name).class
           IN  /\ e \in Classes /\ e \in Range(Ancestry(t)) \cup Range(interfaces[t])
               /\ PositionIn(e, name) \in OfKind(e, "method") /\ PositionIn(e, name) # 0
               /\ members[e][PositionIn(e, name)].name = name
               /\ MethodIndex(t, name) = index[e][PositionIn(e, name)]
               /\ ReturnType(t, name) = TypeOf(e, name)
<1> DEFINE found == dkc_search_member(t, name)
           e == found.class
<1>1. found # NotFound /\ Member(found).kind = "method"
  BY DEF IsMethod
<1>2. Finds(t, name)
  BY FindsAll
<1>3. e \in Range(Ancestry(t)) \cup Range(interfaces[t]) /\ PositionIn(e, name) # 0 /\ found = Found(e, name)
  BY <1>1, <1>2 DEF Finds
<1>4. e \in Classes
  BY <1>3, Hierarchy, Interfaces
<1> HIDE DEF found, e
<1>5. found.class = e /\ found.position = PositionIn(e, name)
  BY <1>3 DEF Found
<1>6. PositionIn(e, name) \in DOMAIN members[e] /\ members[e][PositionIn(e, name)].name = name
  BY <1>3, <1>4, Place
<1>7. Member(found) = members[e][PositionIn(e, name)]
  BY <1>5 DEF Member
<1>8. PositionIn(e, name) \in OfKind(e, "method")
  BY <1>1, <1>6, <1>7 DEF OfKind
<1>9. MethodIndex(t, name) = index[e][PositionIn(e, name)] /\ ReturnType(t, name) = TypeOf(e, name)
  BY <1>5, <1>7 DEF MethodIndex, ReturnType, TypeOf, found
<1> QED
  BY <1>3, <1>4, <1>6, <1>8, <1>9 DEF found, e

(* A class that is not abstract implements the methods of its supers and   *)
(* its interfaces, those of its interfaces itself.                         *)
LEMMA ConcreteImplements ==
    ASSUME Ready, Regular, NEW c \in Classes, ~cs[c].abstract, NEW name,
           NEW d \in Range(Ancestry(c)) \cup Range(interfaces[c]),
           PositionIn(d, name) \in OfKind(d, "method"), members[d][PositionIn(d, name)].name = name
    PROVE  Implementation(c, name) # NoFunction /\ (IsInterface(d) => Function(c, name) # NoFunction)
<1>1. d \in KindsOf(c)
  BY KindsAreOf
<1>2. d \in Classes
  BY Hierarchy, Interfaces
<1> DEFINE m == members[d][PositionIn(d, name)]
<1>3. m \in Range(Methods(d))
  BY <1>2, MethodsAre
<1>4. Implements(c)
  BY RegularIs
<1>5. IF IsInterface(d) THEN Function(c, name) # NoFunction ELSE Implementation(c, name) # NoFunction
  BY <1>1, <1>3, <1>4 DEF Implements
<1>6. Function(c, name) # NoFunction => Implementation(c, name) = Function(c, name)
  BY FunctionDefines, ImplementationIs
<1> QED
  BY <1>5, <1>6

(* The place in the list of a class that a call selects, for the interface *)
(* the method comes from.                                                  *)
Seen(n, t, name) == IF is_interface_method(t, name) = 0 THEN n ELSE is_interface_method(t, name)

LEMMA ReceiverIs ==
    ASSUME NEW c, NEW v, NEW n, NEW fields, NEW t, NEW name
    PROVE  Receiver(Ref(c, v, n, fields), t, name) = Ref(c, v, Seen(n, t, name), fields)
  BY DEF Receiver, UpCast, Seen, Ref

(* A call through a reference whose view fits the static type runs the     *)
(* implementation of the class of the view, and returns a sub class of     *)
(* what the compiler takes it to return.                                   *)
LEMMA CallOfClass ==
    ASSUME Ready, Regular, NEW v \in Classes, NEW t \in Range(Ancestry(v)), NEW ref,
           ref.view = <<v, 0>>, NEW name, IsMethod(t, name), is_interface_method(t, name) = 0,
           ~IsInterface(t)
    PROVE  PushMethod(ref, MethodIndex(t, name)) = Implementation(v, name)
<1> DEFINE e == dkc_search_member(t, name).class
           q == PositionIn(e, name)
<1>1. t \in Classes
  BY Hierarchy
<1>2. \A d \in Range(interfaces[t]) : PositionIn(d, name) = 0
  BY <1>1, InterfaceMethod
<1>3. /\ e \in Range(Ancestry(t)) \cup Range(interfaces[t]) /\ q \in OfKind(e, "method") /\ q # 0
      /\ members[e][q].name = name /\ MethodIndex(t, name) = index[e][q]
  BY <1>1, CalledIs
<1>4. e \in Range(Ancestry(t))
  BY <1>2, <1>3
<1> HIDE DEF e
<1>5. /\ index[e][q] \in Nat /\ index[e][q] + 1 \in 1..Len(class[v])
      /\ class[v][index[e][q] + 1].name = name
  BY <1>2, <1>3, <1>4, MethodPlace
<1> HIDE DEF q
<1> QED
  BY <1>3, <1>5, ClassCall

LEMMA CallOfInterfaceMethod ==
    ASSUME Ready, Regular, NEW v \in Classes, NEW t \in Range(Ancestry(v)), NEW ref,
           NEW name, IsMethod(t, name), is_interface_method(t, name) # 0,
           ref.view = <<v, is_interface_method(t, name)>>
    PROVE  LET i == is_interface_method(t, name)
           IN  /\ i \in DOMAIN interfaces[v] /\ PositionIn(interfaces[v][i], name) # 0
               /\ interfaces[v][i] = interfaces[t][i] /\ i \in DOMAIN interfaces[t]
               /\ PushMethod(ref, MethodIndex(t, name)) = Function(v, name)
<1> DEFINE i == is_interface_method(t, name)
           d == interfaces[t][i]
           e == dkc_search_member(t, name).class
           q == PositionIn(e, name)
<1>1. t \in Classes
  BY Hierarchy
<1>2. /\ i \in DOMAIN interfaces[t] /\ PositionIn(d, name) # 0 /\ d \in Range(interfaces[t])
      /\ \A j \in DOMAIN interfaces[t] : j < i => interfaces[t][j] # interfaces[t][i]
  BY <1>1, InterfaceMethod
<1>3. /\ e \in Range(Ancestry(t)) \cup Range(interfaces[t]) /\ q \in OfKind(e, "method") /\ q # 0
      /\ members[e][q].name = name /\ MethodIndex(t, name) = index[e][q] /\ e \in Classes
  BY <1>1, CalledIs
<1> HIDE DEF e, i
<1>4. i \in DOMAIN interfaces[v] /\ interfaces[v][i] = d
  BY <1>2, SamePlace
<1> HIDE DEF d
<1>5. index[e][q] = index[d][PositionIn(d, name)]
  <2>1. CASE e \in Range(Ancestry(t))
    <3>1. q \in DOMAIN members[e]
      BY <1>3 DEF OfKind
    <3> HIDE DEF q
    <3> QED
      BY <1>1, <1>2, <1>3, <2>1, <3>1, InterfacePlace
  <2>2. CASE e \in Range(interfaces[t])
    <3>1. e = d
      BY <1>1, <1>2, <1>3, <2>2, ApartIs
    <3> QED
      BY <3>1
  <2> QED
    BY <1>3, <2>1, <2>2
<1>6. i # 0
  BY DEF i
<1>7. ref.view = <<v, i>>
  BY DEF i
<1>8. PushMethod(ref, index[d][PositionIn(d, name)]) = Function(v, name)
  BY <1>2, <1>4, <1>6, <1>7, InterfaceCall
<1> QED
  BY <1>2, <1>3, <1>4, <1>5, <1>8 DEF i, d

LEMMA CallOfInterface ==
    ASSUME Ready, Regular, NEW v \in Classes, NEW n \in DOMAIN interfaces[v], n # 0, NEW ref,
           ref.view = <<v, n>>, NEW name, IsMethod(interfaces[v][n], name)
    PROVE  LET t == interfaces[v][n]
           IN  /\ PushMethod(ref, MethodIndex(t, name)) = Function(v, name)
               /\ PositionIn(t, name) # 0 /\ dkc_search_member(t, name).class = t
               /\ t \in Range(interfaces[v])
<1> DEFINE t == interfaces[v][n]
           e == dkc_search_member(t, name).class
<1>1. t \in Range(interfaces[v])
  BY DEF Range
<1> HIDE DEF t
<1>2. t \in Classes /\ IsInterface(t) /\ interfaces[t] = <<>> /\ SuperClass(t) = NoClass
  BY <1>1, Interfaces
<1>3. Range(interfaces[t]) = {}
  BY <1>2, RangeOf
<1>4. Range(Ancestry(t)) = {t}
  <2>1. Range(chain[t]) = {}
    BY <1>2, Hierarchy
  <2>2. Range(Ancestry(t)) = {t} \cup Range(chain[t])
    BY <1>2, Hierarchy
  <2> QED
    BY <2>1, <2>2
<1>5. IsMethod(t, name)
  BY DEF t
<1>6. e \in Range(Ancestry(t)) \cup Range(interfaces[t]) /\ PositionIn(e, name) # 0
      /\ MethodIndex(t, name) = index[e][PositionIn(e, name)]
  BY <1>2, <1>5, CalledIs
<1>7. e = t
  BY <1>3, <1>4, <1>6
<1> HIDE DEF e
<1>8. PushMethod(ref, index[t][PositionIn(t, name)]) = Function(v, name)
  <2>1. PositionIn(interfaces[v][n], name) # 0
    BY <1>6, <1>7 DEF t
  <2> QED
    BY <2>1, InterfaceCall DEF t
<1> QED
  BY <1>1, <1>6, <1>7, <1>8 DEF t, e

LEMMA ViewClasses ==
    ASSUME Ready, NEW v \in Classes, NEW t \in Classes, NEW n, Fits(v, n, t)
    PROVE  Range(Ancestry(t)) \cup Range(interfaces[t]) \subseteq Range(Ancestry(v)) \cup Range(interfaces[v])
<1>1. CASE IsInterface(t)
  <2>1. t \in Range(interfaces[v])
    BY <1>1 DEF Fits, Range
  <2>2. interfaces[t] = <<>> /\ SuperClass(t) = NoClass
    BY <2>1, Interfaces
  <2>3. Range(interfaces[t]) = {} /\ Range(chain[t]) = {}
    BY <2>2, RangeOf, Hierarchy
  <2>4. Range(Ancestry(t)) = {t} \cup Range(chain[t])
    BY Hierarchy
  <2> QED
    BY <2>1, <2>3, <2>4
<1>2. CASE ~IsInterface(t)
  <2>1. t \in Range(Ancestry(v))
    BY <1>2 DEF Fits
  <2>2. Range(Ancestry(t)) \subseteq Range(Ancestry(v))
    BY <2>1, Hierarchy
  <2>3. Range(interfaces[t]) \subseteq Range(interfaces[v])
    BY <2>1, Interfaces
  <2> QED
    BY <2>2, <2>3
<1> QED
  BY <1>1, <1>2

LEMMA CallFits ==
    ASSUME Ready, Regular, NEW v \in Classes, NEW t \in Classes, NEW n, Fits(v, n, t), NEW ref,
           NEW name, IsMethod(t, name), ref.view = <<v, Seen(n, t, name)>>
    PROVE  LET m == Seen(n, t, name)
           IN  /\ PushMethod(ref, MethodIndex(t, name)) = Runs(v, m, name)
               /\ m # 0 => m \in DOMAIN interfaces[v] /\ PositionIn(interfaces[v][m], name) # 0
<1>1. CASE IsInterface(t)
  <2>1. Seen(n, t, name) = n
    BY <1>1 DEF Seen, is_interface_method
  <2>2. n \in DOMAIN interfaces[v] /\ n # 0 /\ interfaces[v][n] = t
    BY <1>1 DEF Fits
  <2>3. PushMethod(ref, MethodIndex(t, name)) = Function(v, name) /\ PositionIn(t, name) # 0
    BY <2>1, <2>2, CallOfInterface
  <2> QED
    BY <2>1, <2>2, <2>3 DEF Runs
<1>2. CASE ~IsInterface(t) /\ is_interface_method(t, name) = 0
  <2>1. Seen(n, t, name) = 0 /\ t \in Range(Ancestry(v))
    BY <1>2 DEF Seen, Fits
  <2>2. PushMethod(ref, MethodIndex(t, name)) = Implementation(v, name)
    BY <1>2, <2>1, CallOfClass
  <2> QED
    BY <2>1, <2>2 DEF Runs
<1>3. CASE ~IsInterface(t) /\ is_interface_method(t, name) # 0
  <2>1. Seen(n, t, name) = is_interface_method(t, name) /\ t \in Range(Ancestry(v))
    BY <1>3 DEF Seen, Fits
  <2>2. /\ is_interface_method(t, name) \in DOMAIN interfaces[v]
        /\ PositionIn(interfaces[v][is_interface_method(t, name)], name) # 0
        /\ PushMethod(ref, MethodIndex(t, name)) = Function(v, name)
    BY <1>3, <2>1, CallOfInterfaceMethod
  <2> QED
    BY <1>3, <2>1, <2>2 DEF Runs
<1> QED
  BY <1>1, <1>2, <1>3

LEMMA CallReturns ==
    ASSUME Ready, Regular, NEW v \in Classes, NEW t \in Classes, NEW n, Fits(v, n, t),
           NEW name, IsMethod(t, name), Implementation(v, name) # NoFunction
    PROVE  IsA(TypeOf(dkc_search_member(v, name).class, name), ReturnType(t, name))
<1> DEFINE e == dkc_search_member(t, name).class
           x == dkc_search_member(v, name).class
<1>1. /\ e \in Range(Ancestry(t)) \cup Range(interfaces[t]) /\ PositionIn(e, name) # 0
      /\ ReturnType(t, name) = TypeOf(e, name)
  BY CalledIs
<1>2. x \in Range(Ancestry(v)) /\ PositionIn(x, name) # 0
  BY ImplementedBy
<1>3. e \in Range(Ancestry(v)) \cup Range(interfaces[v])
  BY <1>1, ViewClasses
<1>4. CASE e \in Range(Ancestry(v))
  <2> HIDE DEF e
  <2>1. IsA(TypeOf(x, name), TypeOf(e, name))
    BY <1>1, <1>4, NearTypes
  <2> QED
    BY <1>1, <2>1
<1>5. CASE e \in Range(interfaces[v])
  <2> HIDE DEF e, x
  <2>1. x \in Classes
    BY <1>2, Hierarchy
  <2> DEFINE q == PositionIn(x, name)
  <2>2. q \in DOMAIN members[x] /\ members[x][q].name = name
    BY <1>2, <2>1, Place
  <2> HIDE DEF q
  <2>3. IsA(members[x][q].type, TypeOf(e, name))
    BY <1>1, <1>2, <1>5, <2>2, InterfacePlace
  <2> QED
    BY <1>1, <2>3 DEF TypeOf, q, x
<1> QED
  BY <1>3, <1>4, <1>5

(* What the initializers write: the fields of the class and its supers,    *)
(* each at the index of its member.                                        *)
InitialOf(d) ==
    LET own == InOrder(OfKind(d, "field"))
    IN  [i \in DOMAIN own |-> <<index[d][own[i]], <<d, members[d][own[i]].name>>>>]
Write == Nat \X (Classes \X Texts)

LEMMA InitialOfIs ==
    ASSUME Ready, NEW d \in Classes
    PROVE  /\ InitialOf(d) \in Seq(Write)
           /\ Range(InitialOf(d)) = {<<index[d][p], <<d, members[d][p].name>>>> : p \in OfKind(d, "field")}
<1> DEFINE T == OfKind(d, "field")
           own == InOrder(T)
           at(p) == <<index[d][p], <<d, members[d][p].name>>>>
<1>1. PICK n \in Nat : T \in SUBSET (1..n) /\ T \subseteq DOMAIN members[d]
  BY KindsAre DEF OfKind
<1>2. /\ own \in Seq(T) /\ Len(own) = Cardinality(T)
      /\ \A i \in 1..Cardinality(T) : own[i] \in T
      /\ \A p \in T : own[Rank(T, p)] = p
  <2> HIDE DEF T
  <2> QED
    BY <1>1, InOrderIs
<1>3. Cardinality(T) \in Nat /\ \A p \in T : Rank(T, p) \in 1..Cardinality(T)
  <2> HIDE DEF T
  <2> QED
    BY <1>1, RankIs
<1>4. \A p \in T : at(p) \in Write
  <2> SUFFICES ASSUME NEW p \in T
               PROVE  at(p) \in Write
    OBVIOUS
  <2>1. Laid(d) /\ d \in Range(Ancestry(d))
    BY FieldsLaid, SelfAbove
  <2>2. index[d][p] \in Nat
    BY <2>1 DEF Laid
  <2>3. members[d][p] \in DeclaredMembers
    BY <1>1, MembersAre DEF Sound
  <2> QED
    BY <2>2, <2>3 DEF Write, DeclaredMembers
<1>5. InitialOf(d) = [i \in DOMAIN own |-> at(own[i])]
  BY DEF InitialOf
<1>6. DOMAIN own = 1..Cardinality(T)
  BY <1>2, LenProperties
<1> HIDE DEF own
<1>7. InitialOf(d) \in Seq(Write)
  <2>1. InitialOf(d) \in [1..Cardinality(T) -> Write]
    BY <1>2, <1>4, <1>5, <1>6
  <2> QED
    BY <1>3, <2>1
<1>8. Range(InitialOf(d)) = {at(p) : p \in T}
  <2> HIDE DEF T, at
  <2> QED
    BY <1>2, <1>3, <1>5, <1>6 DEF Range
<1> QED
  BY <1>7, <1>8

LEMMA InitializersAre ==
    ASSUME Ready, NEW c \in Classes
    PROVE  /\ Initializers(c) \in Seq(Write)
           /\ Range(Initializers(c)) =
                 UNION {{<<index[d][p], <<d, members[d][p].name>>>> : p \in OfKind(d, "field")} :
                        d \in Range(Ancestry(c))}
<1> DEFINE ss == [i \in DOMAIN Ancestry(c) |-> InitialOf(Ancestry(c)[i])]
<1>1. Ancestry(c) \in Seq(1..c) /\ \A s \in Range(Ancestry(c)) : s \in Classes
  BY Hierarchy
<1>2. \A i \in DOMAIN Ancestry(c) : Ancestry(c)[i] \in Classes /\ Ancestry(c)[i] \in Range(Ancestry(c))
  BY <1>1 DEF Range
<1>3. Initializers(c) = FlattenSeq(ss)
  BY DEF Initializers, InitialOf, Ancestry
<1>4. DOMAIN Ancestry(c) = 1..Len(Ancestry(c)) /\ Len(Ancestry(c)) \in Nat
  BY <1>1, LenProperties
<1>5. \A i \in DOMAIN ss : ss[i] \in Seq(Write)
  BY <1>2, InitialOfIs
<1>6. ss \in Seq(Seq(Write))
  BY <1>4, <1>5
<1>7. FlattenSeq(ss) \in Seq(Write) /\ Range(FlattenSeq(ss)) = UNION {Range(ss[i]) : i \in DOMAIN ss}
  <2> HIDE DEF ss
  <2> QED
    BY <1>6, FlattenRange
<1> DEFINE W(d) == {<<index[d][p], <<d, members[d][p].name>>>> : p \in OfKind(d, "field")}
<1>8. \A i \in DOMAIN ss : Range(ss[i]) = W(Ancestry(c)[i])
  BY <1>2, InitialOfIs
<1>9. DOMAIN ss = DOMAIN Ancestry(c)
  OBVIOUS
<1> HIDE DEF ss, W
<1>10. UNION {Range(ss[i]) : i \in DOMAIN ss} = UNION {W(d) : d \in Range(Ancestry(c))}
  BY <1>8, <1>9 DEF Range
<1> QED
  BY <1>3, <1>7, <1>10 DEF W

(* A new object has at the index of every field its initializer, and the   *)
(* layout of its class has the field there.                                *)
LEMMA InitialFieldsRight ==
    ASSUME Ready, NEW c \in Classes, NEW d \in Range(Ancestry(c)), NEW p \in OfKind(d, "field")
    PROVE  LET k == index[d][p] + 1
               field == <<d, members[d][p].name>>
           IN  k \in DOMAIN layout[c] /\ layout[c][k] = field /\ InitialFields(c)[k] = field
<1> DEFINE k == index[d][p] + 1
           field == <<d, members[d][p].name>>
           ini == Initializers(c)
           I == {i \in 1..Len(ini) : ini[i][1] = k - 1}
<1>1. Laid(c)
  BY FieldsLaid
<1>2. index[d][p] \in Nat /\ index[d][p] < Len(layout[c]) /\ layout[c][k] = field
  BY <1>1 DEF Laid
<1>3. DOMAIN layout[c] = 1..Len(layout[c]) /\ Len(layout[c]) \in Nat
  BY <1>1, SeqIsAny DEF Laid, AnySeq
<1>4. k \in DOMAIN layout[c]
  BY <1>2, <1>3
<1>5. /\ ini \in Seq(Write)
      /\ Range(ini) = UNION {{<<index[e][q], <<e, members[e][q].name>>>> : q \in OfKind(e, "field")} :
                             e \in Range(Ancestry(c))}
  BY InitializersAre
<1>6. DOMAIN ini = 1..Len(ini) /\ Len(ini) \in Nat
  BY <1>5, LenProperties
<1>7. <<index[d][p], field>> \in Range(ini)
  BY <1>5
<1>8. \A w \in Range(ini) : w[1] = k - 1 => w[2] = field
  <2> SUFFICES ASSUME NEW e \in Range(Ancestry(c)), NEW q \in OfKind(e, "field"), index[e][q] = k - 1
               PROVE  <<e, members[e][q].name>> = field
    BY <1>5
  <2>1. layout[c][index[e][q] + 1] = <<e, members[e][q].name>> /\ index[e][q] \in Nat
    BY <1>1 DEF Laid
  <2>2. index[e][q] + 1 = k
    BY <1>2, <2>1
  <2> QED
    BY <1>2, <2>1, <2>2
<1>9. InitialFields(c)[k] = LET last == SelectLastInSeq(ini, LAMBDA w : w[1] = k - 1)
                            IN  IF last = 0 THEN <<NoClass, "zero">> ELSE ini[last][2]
  BY <1>4 DEF InitialFields
<1> HIDE DEF ini, k, field
<1>10. I # {}
  <2>1. PICK i \in DOMAIN ini : ini[i] = <<index[d][p], field>>
    BY <1>7 DEF Range
  <2>2. ini[i][1] = k - 1
    BY <1>2, <2>1 DEF k
  <2> QED
    BY <1>6, <2>1, <2>2
<1>11. Max(I) \in I
  BY <1>6, <1>10, MaxIs
<1>12. SelectLastInSeq(ini, LAMBDA w : w[1] = k - 1) = Max(I)
  BY <1>10 DEF SelectLastInSeq
<1> HIDE DEF I
<1> DEFINE last == SelectLastInSeq(ini, LAMBDA w : w[1] = k - 1)
<1>13. last \in 1..Len(ini) /\ ini[last][1] = k - 1
  BY <1>11, <1>12 DEF I
<1> HIDE DEF last
<1>14. ini[last][2] = field
  BY <1>6, <1>8, <1>13 DEF Range
<1>15. last # 0
  BY <1>6, <1>13
<1>16. InitialFields(c)[k] = field
  BY <1>9, <1>14, <1>15 DEF last
<1> QED
  BY <1>2, <1>4, <1>16 DEF k, field

(* A view that fits a class fits its supers.                               *)
LEMMA FitsAbove ==
    ASSUME Ready, NEW v \in Classes, NEW n, NEW t \in Classes, NEW u \in Classes,
           Fits(v, n, t), IsA(t, u)
    PROVE  Fits(v, n, u)
<1>1. CASE t = u
  BY <1>1
<1>2. CASE t # u
  <2>1. u \in Range(chain[t])
    BY <1>2 DEF IsA
  <2>2. ~IsInterface(u)
    BY <2>1, Hierarchy
  <2>3. ~IsInterface(t)
    <3> SUFFICES ASSUME IsInterface(t)
                 PROVE  FALSE
      OBVIOUS
    <3>1. SuperClass(t) = NoClass
      BY Hierarchy
    <3>2. Range(chain[t]) = {}
      BY <3>1, Hierarchy
    <3> QED
      BY <2>1, <3>2
  <2>4. n = 0 /\ t \in Range(Ancestry(v))
    BY <2>3 DEF Fits
  <2>5. Range(Ancestry(t)) \subseteq Range(Ancestry(v))
    BY <2>4, Hierarchy
  <2>6. Range(Ancestry(t)) = {t} \cup Range(chain[t])
    BY Hierarchy
  <2> QED
    BY <2>1, <2>2, <2>4, <2>5, <2>6 DEF Fits
<1> QED
  BY <1>1, <1>2

(* The interface of a class, found in the list of the class or of a sub    *)
(* class.                                                                  *)
LEMMA PlaceFits ==
    ASSUME Ready, Regular, NEW v \in Classes, NEW t \in Range(Ancestry(v)), NEW to \in Range(interfaces[t])
    PROVE  Fits(v, FirstIndexOf(interfaces[t], to), to)
<1> DEFINE i == FirstIndexOf(interfaces[t], to)
<1>1. t \in Classes
  BY Hierarchy
<1>2. AnySeq(interfaces[t])
  BY <1>1, Interfaces DEF AnySeq
<1>3. /\ i \in DOMAIN interfaces[t] /\ i # 0 /\ interfaces[t][i] = to
      /\ \A j \in DOMAIN interfaces[t] : j < i => interfaces[t][j] # interfaces[t][i]
  BY <1>2, FirstPlace
<1>4. IsInterface(to)
  BY <1>1, Interfaces
<1> HIDE DEF i
<1>5. i \in DOMAIN interfaces[v] /\ interfaces[v][i] = interfaces[t][i]
  BY <1>3, SamePlace
<1> QED
  BY <1>3, <1>4, <1>5 DEF Fits, i

(* Assigning keeps the object, its fields and the class of its view, and   *)
(* the view fits the new type.                                             *)
LEMMA ConvertFits ==
    ASSUME Ready, Regular, NEW v \in Classes, NEW n, NEW from \in Classes, NEW to \in Classes,
           Fits(v, n, from), ~AssignError(from, to), NEW c, NEW fields
    PROVE  \E m : Convert(Ref(c, v, n, fields), from, to) = Ref(c, v, m, fields) /\ Fits(v, m, to)
<1>1. CASE from = to \/ to \in Range(chain[from])
  <2>1. IsA(from, to)
    BY <1>1 DEF IsA
  <2>2. Fits(v, n, to)
    BY <2>1, FitsAbove
  <2> QED
    BY <1>1, <2>2 DEF Convert
<1>2. CASE ~(from = to \/ to \in Range(chain[from]))
  <2> DEFINE i == FirstIndexOf(interfaces[from], to)
  <2>1. to \in Range(interfaces[from])
    BY <1>2 DEF AssignError, is_super_class
  <2>2. ~IsInterface(from)
    <3>1. IsInterface(from) => interfaces[from] = <<>>
      BY Interfaces
    <3> QED
      BY <2>1, <3>1, RangeOf
  <2>3. from \in Range(Ancestry(v))
    BY <2>2 DEF Fits
  <2>4. Fits(v, i, to)
    BY <2>1, <2>3, PlaceFits
  <2>5. Convert(Ref(c, v, n, fields), from, to) = Ref(c, v, i, fields)
    BY <1>2 DEF Convert, UpCast, Ref
  <2> QED
    BY <2>4, <2>5
<1> QED
  BY <1>1, <1>2

(* So does a cast that the class of the object allows.                     *)
LEMMA DownCastFits ==
    ASSUME Ready, Regular, NEW v \in Classes, ~cs[v].abstract, NEW n, NEW from \in Classes,
           NEW to \in Classes, Fits(v, n, from), <<from, to>> \in program.casts,
           NEW c, NEW fields, to = v \/ is_super_class(v, to)
    PROVE  \E m : DownCastView(Ref(c, v, n, fields), to) = <<v, m>> /\ Fits(v, m, to)
<1>1. IsInterface(from) => IsInterface(to)
  BY DEF Regular, CastsKeep
<1>2. ~IsInterface(v)
  BY ReadyIs, ExtendsIs
<1>3. v \in Range(Ancestry(v))
  BY SelfAbove
<1>4. CASE to = v
  <2>1. Fits(v, n, to)
    BY <1>1, <1>2, <1>3, <1>4 DEF Fits
  <2>2. DownCastView(Ref(c, v, n, fields), to) = <<v, n>>
    BY <1>4 DEF DownCastView, Ref
  <2> QED
    BY <2>1, <2>2
<1>5. CASE to # v /\ to \in Range(chain[v])
  <2>1. ~IsInterface(to) /\ to \in Range(Ancestry(v))
    BY <1>5, Hierarchy
  <2>2. Fits(v, 0, to)
    BY <2>1 DEF Fits
  <2>3. DownCastView(Ref(c, v, n, fields), to) = <<v, 0>>
    BY <1>5 DEF DownCastView, Ref
  <2> QED
    BY <2>2, <2>3
<1>6. CASE to # v /\ to \notin Range(chain[v])
  <2>1. to \in Range(interfaces[v])
    BY <1>6 DEF is_super_class
  <2>2. Fits(v, FirstIndexOf(interfaces[v], to), to)
    BY <1>3, <2>1, PlaceFits
  <2>3. DownCastView(Ref(c, v, n, fields), to) = <<v, FirstIndexOf(interfaces[v], to)>>
    BY <1>6 DEF DownCastView, Ref
  <2> QED
    BY <2>2, <2>3
<1> QED
  BY <1>4, <1>5, <1>6

(* A call through a view of a class that is not abstract finds a function. *)
LEMMA ConcreteRuns ==
    ASSUME Ready, Regular, NEW v \in Classes, ~cs[v].abstract, NEW t \in Classes, NEW n,
           Fits(v, n, t), NEW name, IsMethod(t, name), NEW m,
           m # 0 => m \in DOMAIN interfaces[v] /\ PositionIn(interfaces[v][m], name) # 0
    PROVE  Runs(v, m, name) # NoFunction
<1> DEFINE e == dkc_search_member(t, name).class
<1>1. /\ e \in Range(Ancestry(t)) \cup Range(interfaces[t]) /\ PositionIn(e, name) \in OfKind(e, "method")
      /\ members[e][PositionIn(e, name)].name = name
  BY CalledIs
<1>2. e \in Range(Ancestry(v)) \cup Range(interfaces[v])
  BY <1>1, ViewClasses
<1>3. CASE m = 0
  <2> HIDE DEF e
  <2>1. Implementation(v, name) # NoFunction
    BY <1>1, <1>2, ConcreteImplements
  <2> QED
    BY <1>3, <2>1 DEF Runs
<1>4. CASE m # 0
  <2> DEFINE d == interfaces[v][m]
  <2>1. d \in Range(interfaces[v]) /\ PositionIn(d, name) # 0
    BY <1>4 DEF Range
  <2> HIDE DEF d
  <2>2. IsInterface(d) /\ PositionIn(d, name) \in OfKind(d, "method") /\ members[d][PositionIn(d, name)].name = name
    BY <2>1, ApartIs
  <2>3. Function(v, name) # NoFunction
    BY <2>1, <2>2, ConcreteImplements
  <2> QED
    BY <1>4, <2>3 DEF Runs
<1> QED
  BY <1>3, <1>4

(* The body of the method name of class x runs for an object of class c    *)
(* through the view <<v, n>>: what it calls on this needs the whole object,*)
(* what it calls on super the class of the view.                           *)
CallsOn(x, name, target) == \E call \in Range(Body(<<x, name>>).calls) : call.target = target
Runnable(c, v, n, x, name) ==
    /\ c \in Classes /\ ~cs[c].abstract /\ v \in Range(Ancestry(c)) /\ x \in Range(Ancestry(v))
    /\ Function(x, name) = <<x, name>>
    /\ CallsOn(x, name, "this") => v = c /\ n = 0
    /\ CallsOn(x, name, "super") => x = v

LEMMA BodyIs ==
    ASSUME Ready, NEW x \in Classes, NEW name, PositionIn(x, name) # 0
    PROVE  /\ Body(<<x, name>>) = members[x][PositionIn(x, name)].body
           /\ members[x][PositionIn(x, name)] \in Range(members[x])
           /\ PositionIn(x, name) \in DOMAIN members[x]
           /\ members[x][PositionIn(x, name)].name = name
           /\ Sound(x, members[x][PositionIn(x, name)])
<1>1. PositionIn(x, name) \in DOMAIN members[x] /\ members[x][PositionIn(x, name)].name = name
  BY Place
<1> QED
  BY <1>1, MembersAre DEF Body, Range

LEMMA Enters ==
    ASSUME Ready, Regular, NEW c \in Classes, ~cs[c].abstract, NEW v \in Range(Ancestry(c)), NEW n,
           NEW name, Runs(v, n, name) # NoFunction,
           n # 0 => n \in DOMAIN interfaces[v] /\ PositionIn(interfaces[v][n], name) # 0,
           v # c => \E y \in Classes : v \in Range(chain[y]) /\ name \in Calls(y, "super")
    PROVE  \E x : /\ Runs(v, n, name) = <<x, name>> /\ Runnable(c, v, n, x, name)
                  /\ x = dkc_search_member(v, name).class
<1>1. v \in Classes
  BY Hierarchy
<1>2. Runs(v, n, name) = Implementation(v, name) /\ Implementation(v, name) # NoFunction
  BY <1>1, RunsIs
<1>3. PICK x \in Range(Ancestry(v)) :
         /\ Implementation(v, name) = <<x, name>> /\ Function(x, name) = <<x, name>>
         /\ PositionIn(x, name) # 0
         /\ x # v => PositionIn(v, name) = 0 /\ x \in Range(chain[v])
         /\ dkc_search_member(v, name).class = x
  BY <1>1, <1>2, ImplementedBy
<1>4. x \in Classes
  BY <1>1, Hierarchy
<1> DEFINE m == members[x][PositionIn(x, name)]
<1>5. Body(<<x, name>>) = m.body /\ m \in Range(members[x]) /\ m.name = name
  BY <1>3, <1>4, BodyIs
<1>6. ThisIsWhole(x) /\ SuperIsNear(x)
  BY <1>4, RegularIs
<1> HIDE DEF m
<1>7. ASSUME CallsOn(x, name, "this")
      PROVE  v = c /\ n = 0
  <2>1. PICK call \in Range(m.body.calls) : call.target = "this"
    BY <1>5, <1>7 DEF CallsOn
  <2>2. call.target # "super"
    BY <2>1
  <2>3. /\ is_interface_method(x, name) = 0
        /\ \A d \in Classes : x \in Range(chain[d]) => name \notin Calls(d, "super")
    BY <1>5, <1>6, <2>2 DEF ThisIsWhole
  <2>4. n = 0
    <3> SUFFICES ASSUME n # 0
                 PROVE  FALSE
      OBVIOUS
    <3>1. interfaces[v][n] \in Range(interfaces[v]) /\ PositionIn(interfaces[v][n], name) # 0
      BY DEF Range
    <3>2. PositionIn(v, name) # 0
      <4>1. Function(v, name) # NoFunction
        BY DEF Runs
      <4> QED
        BY <4>1, FunctionDefines
    <3>3. x = v
      BY <1>3, <3>2
    <3>4. \A d \in Range(interfaces[v]) : PositionIn(d, name) = 0
      BY <1>1, <2>3, <3>3, InterfaceMethod
    <3> QED
      BY <3>1, <3>4
  <2>5. v = c
    <3> SUFFICES ASSUME NEW y \in Classes, v \in Range(chain[y]), name \in Calls(y, "super")
                 PROVE  FALSE
      OBVIOUS
    <3>1. v \in Range(Ancestry(y)) /\ v < y /\ Range(Ancestry(v)) \subseteq Range(Ancestry(y))
          /\ Range(Ancestry(y)) = {y} \cup Range(chain[y])
      <4>1. v < y /\ Range(Ancestry(y)) = {y} \cup Range(chain[y])
        BY Hierarchy
      <4>2. v \in Range(Ancestry(y))
        BY <4>1
      <4>3. Range(Ancestry(v)) \subseteq Range(Ancestry(y))
        BY <4>2, Hierarchy
      <4> QED
        BY <4>1, <4>2, <4>3
    <3>2. x # y
      <4>1. x = v \/ x < v
        BY <1>1, <1>3, Hierarchy
      <4> QED
        BY <1>1, <1>4, <3>1, <4>1, ReadyIs
    <3>3. x \in Range(chain[y])
      BY <1>3, <3>1, <3>2
    <3> QED
      BY <2>3, <3>3
  <2> QED
    BY <2>4, <2>5
<1>8. ASSUME CallsOn(x, name, "super")
      PROVE  x = v
  <2>1. \E call \in Range(m.body.calls) : call.target = "super"
    BY <1>5, <1>8 DEF CallsOn
  <2> SUFFICES ASSUME x # v
               PROVE  FALSE
    OBVIOUS
  <2>2. PositionIn(v, m.name) # 0
    BY <1>1, <1>3, <1>5, <1>6, <2>1 DEF SuperIsNear
  <2> QED
    BY <1>3, <1>5, <2>2
<1> QED
  BY <1>2, <1>3, <1>7, <1>8 DEF Runnable

(* What holds of every running method: it may run for its object, it is    *)
(* what was asked for, and returns what the caller expects.                *)
Frame(x, name, ref, type, asked, rest) ==
    [function |-> <<x, name>>, this |-> ref, type |-> type, asked |-> asked, rest |-> rest]
Suits(x, name, type) == type # NoClass => type \in Classes /\ IsA(TypeOf(x, name), type)
FrameOf(f, x, name, c, v, n, fields) ==
    /\ f = Frame(x, name, Ref(c, v, n, fields), f.type, f.asked, f.rest)
    /\ Runnable(c, v, n, x, name)
    /\ AnySeq(f.rest) /\ Range(f.rest) \subseteq Range(Body(<<x, name>>).calls)
    /\ Suits(x, name, f.type)
    /\ Implementation(f.asked.class, f.asked.name) = <<x, name>>
FrameOK(f) == \E x, name, c, v, n, fields : FrameOf(f, x, name, c, v, n, fields)

LEMMA NewFrame ==
    ASSUME Ready, NEW x, NEW name, NEW c, NEW v, NEW n, NEW fields, NEW type, NEW asked,
           Runnable(c, v, n, x, name), Suits(x, name, type),
           Implementation(asked.class, asked.name) = <<x, name>>
    PROVE  FrameOK(Frame(x, name, Ref(c, v, n, fields), type, asked, Body(<<x, name>>).calls))
<1> DEFINE f == Frame(x, name, Ref(c, v, n, fields), type, asked, Body(<<x, name>>).calls)
<1>1. v \in Classes
  BY Hierarchy DEF Runnable
<1>2. x \in Classes
  BY <1>1, Hierarchy DEF Runnable
<1>3. PositionIn(x, name) # 0
  <2>1. Function(x, name) # NoFunction
    <3>1. Function(x, name)[1] = x
      BY DEF Runnable
    <3>2. x # NoClass
      BY <1>2, ReadyIs DEF NoClass
    <3>3. NoFunction[1] = NoClass
      BY DEF NoFunction
    <3> QED
      BY <3>1, <3>2, <3>3
  <2> QED
    BY <2>1, FunctionDefines
<1>4. Body(<<x, name>>) = members[x][PositionIn(x, name)].body /\ Sound(x, members[x][PositionIn(x, name)])
  BY <1>2, <1>3, BodyIs
<1>5. Body(<<x, name>>) \in Code
  BY <1>4 DEF Sound, DeclaredMembers
<1>6. AnySeq(Body(<<x, name>>).calls)
  BY <1>5 DEF Code, AnySeq
<1>7. /\ f.type = type /\ f.asked = asked /\ f.rest = Body(<<x, name>>).calls
      /\ f = Frame(x, name, Ref(c, v, n, fields), f.type, f.asked, f.rest)
  BY DEF Frame
<1>8. FrameOf(f, x, name, c, v, n, fields)
  <2> HIDE DEF f
  <2> QED
    BY <1>6, <1>7 DEF FrameOf
<1> QED
  BY <1>8 DEF FrameOK

(* The call of the method of index k on ref finds a function, and the frame*)
(* for it is as above.                                                     *)
Entered(ref, k, type, asked) ==
    LET f == PushMethod(ref, k)
    IN  f # NoFunction /\ FrameOK([function |-> f, this |-> ref, type |-> type, asked |-> asked,
                                   rest |-> Body(f).calls])

(* A call from the top level, on an object of a class that is not abstract,*)
(* seen as its own class.                                                  *)
LEMMA TopCall ==
    ASSUME Ready, Regular, NEW c \in Classes, ~cs[c].abstract, NEW n, NEW t \in Classes,
           Fits(c, n, t), NEW name, IsMethod(t, name), NEW fields,
           NEW type, type = NoClass \/ type = ReturnType(t, name),
           NEW asked, asked.class = c, asked.name = name
    PROVE  Entered(Receiver(Ref(c, c, n, fields), t, name), MethodIndex(t, name), type, asked)
<1> DEFINE ref == Receiver(Ref(c, c, n, fields), t, name)
           m == Seen(n, t, name)
           f == PushMethod(ref, MethodIndex(t, name))
<1>1. ref = Ref(c, c, m, fields)
  BY ReceiverIs
<1>2. ref.view = <<c, m>>
  BY <1>1 DEF Ref
<1> HIDE DEF ref
<1>3. /\ f = Runs(c, m, name)
      /\ m # 0 => m \in DOMAIN interfaces[c] /\ PositionIn(interfaces[c][m], name) # 0
  BY <1>2, CallFits
<1> HIDE DEF m
<1>4. Runs(c, m, name) # NoFunction
  BY <1>3, ConcreteRuns
<1>5. c \in Range(Ancestry(c))
  BY SelfAbove
<1>6. PICK x : /\ Runs(c, m, name) = <<x, name>> /\ Runnable(c, c, m, x, name)
               /\ x = dkc_search_member(c, name).class
  BY <1>3, <1>4, <1>5, Enters
<1>7. Implementation(c, name) = <<x, name>> /\ Implementation(c, name) # NoFunction
  BY <1>4, <1>6, RunsIs
<1>8. IsA(TypeOf(x, name), ReturnType(t, name))
  BY <1>6, <1>7, CallReturns
<1>9. ReturnType(t, name) # NoClass => ReturnType(t, name) \in Classes
  <2>1. /\ dkc_search_member(t, name).class \in Classes
        /\ PositionIn(dkc_search_member(t, name).class, name) \in OfKind(dkc_search_member(t, name).class, "method")
        /\ ReturnType(t, name) = TypeOf(dkc_search_member(t, name).class, name)
    BY CalledIs
  <2> QED
    BY <2>1, MemberTypes DEF OfKind, TypeOf
<1>10. Suits(x, name, type)
  BY <1>8, <1>9 DEF Suits
<1>11. FrameOK(Frame(x, name, Ref(c, c, m, fields), type, asked, Body(<<x, name>>).calls))
  BY <1>6, <1>7, <1>10, NewFrame
<1>12. f = <<x, name>>
  BY <1>3, <1>6
<1> HIDE DEF f
<1>13. FrameOK([function |-> f, this |-> ref, type |-> type, asked |-> asked, rest |-> Body(f).calls])
  BY <1>1, <1>11, <1>12 DEF Frame
<1> QED
  BY <1>3, <1>4, <1>12, <1>13 DEF ref, f, Entered

(* What a method calls is a method of its class, or of the super class of  *)
(* it.                                                                     *)
LEMMA CallsAreMethods ==
    ASSUME Ready, NEW x \in Classes, NEW name, PositionIn(x, name) # 0,
           NEW call \in Range(Body(<<x, name>>).calls)
    PROVE  /\ call.target \in {"this", "super"}
           /\ call.target = "this" => IsMethod(x, call.name)
           /\ call.target # "this" => SuperClass(x) # NoClass /\ IsMethod(SuperClass(x), call.name)
           /\ call.target = "super" => call.name \in Calls(x, "super")
<1> DEFINE m == members[x][PositionIn(x, name)]
<1>1. Body(<<x, name>>) = m.body /\ m \in Range(members[x]) /\ Sound(x, m)
  BY BodyIs
<1> HIDE DEF m
<1>2. ~BodyError(x, m)
  BY <1>1, ReadyIs DEF IndicesOf
<1>3. call \in Range(m.body.calls)
  BY <1>1
<1>4. m.body.calls \in Seq([target : {"this", "super"}, name : Texts])
  BY <1>1 DEF Sound, DeclaredMembers, Code
<1>5. call \in [target : {"this", "super"}, name : Texts]
  BY <1>3, <1>4, RangeIn
<1>6. IF call.target = "this" THEN Callable(x, x, call.name)
      ELSE ~(SuperClass(x) = NoClass \/ ~Callable(x, SuperClass(x), call.name))
  BY <1>2, <1>3 DEF BodyError
<1>7. call.target = "super" => call.name \in Calls(x, "super")
  BY <1>1, <1>3 DEF Calls
<1> QED
  BY <1>5, <1>6, <1>7 DEF Callable, IsMethod

LEMMA FrameParts ==
    ASSUME Ready, NEW f, NEW x, NEW name, NEW c, NEW v, NEW n, NEW fields,
           FrameOf(f, x, name, c, v, n, fields)
    PROVE  /\ f.function = <<x, name>> /\ f.this = Ref(c, v, n, fields)
           /\ c \in Classes /\ ~cs[c].abstract /\ v \in Range(Ancestry(c)) /\ v \in Classes
           /\ x \in Range(Ancestry(v)) /\ x \in Classes /\ ~IsInterface(x)
           /\ Function(x, name) = <<x, name>> /\ Function(x, name) # NoFunction
           /\ PositionIn(x, name) # 0
<1>1. f.function = <<x, name>> /\ f.this = Ref(c, v, n, fields)
  <2> DEFINE r == Ref(c, v, n, fields)
  <2>1. f = Frame(x, name, r, f.type, f.asked, f.rest)
    BY DEF FrameOf
  <2> HIDE DEF r
  <2>2. f.function = <<x, name>> /\ f.this = r
    BY <2>1 DEF Frame
  <2> QED
    BY <2>2 DEF r
<1>2. c \in Classes /\ ~cs[c].abstract /\ v \in Range(Ancestry(c)) /\ x \in Range(Ancestry(v))
      /\ Function(x, name) = <<x, name>>
  BY DEF FrameOf, Runnable
<1>3. v \in Classes
  BY <1>2, Hierarchy
<1>4. x \in Classes /\ x \in Range(Ancestry(c))
  BY <1>2, <1>3, Hierarchy
<1>5. ~IsInterface(x)
  <2>1. ~IsInterface(c)
    BY <1>2, ReadyIs, ExtendsIs
  <2>2. x = c \/ x \in Range(chain[c])
    BY <1>2, <1>4, Hierarchy
  <2>3. \A s \in Range(chain[c]) : ~IsInterface(s)
    BY <1>2, Hierarchy
  <2> QED
    BY <2>1, <2>2, <2>3
<1>6. Function(x, name) # NoFunction
  <2>1. Function(x, name)[1] = x
    BY <1>2
  <2>2. x # NoClass
    BY <1>4, ReadyIs DEF NoClass
  <2>3. NoFunction[1] = NoClass
    BY DEF NoFunction
  <2> QED
    BY <2>1, <2>2, <2>3
<1> QED
  BY <1>1, <1>2, <1>3, <1>4, <1>5, <1>6, FunctionDefines

LEMMA FrameWithout ==
    ASSUME NEW f, FrameOK(f), f.rest # <<>>
    PROVE  FrameOK([f EXCEPT !.rest = Tail(@)])
<1>1. PICK x, name, c, v, n, fields : FrameOf(f, x, name, c, v, n, fields)
  BY DEF FrameOK
<1> DEFINE r == Ref(c, v, n, fields)
           g == [f EXCEPT !.rest = Tail(@)]
<1>2. f = Frame(x, name, r, f.type, f.asked, f.rest)
  BY <1>1 DEF FrameOf
<1> HIDE DEF r
<1>3. /\ g = Frame(x, name, r, f.type, f.asked, Tail(f.rest))
      /\ g.type = f.type /\ g.asked = f.asked /\ g.rest = Tail(f.rest)
  BY <1>2 DEF Frame
<1> HIDE DEF g
<1>4. AnySeq(f.rest) /\ Range(f.rest) \subseteq Range(Body(<<x, name>>).calls)
  BY <1>1 DEF FrameOf
<1>5. AnySeq(Tail(f.rest)) /\ Range(Tail(f.rest)) \subseteq Range(f.rest)
  <2>1. PICK S : f.rest \in Seq(S)
    BY <1>4 DEF AnySeq
  <2>2. f.rest = <<Head(f.rest)>> \o Tail(f.rest) /\ Tail(f.rest) \in Seq(S) /\ Head(f.rest) \in S
    BY ONLY <2>1, f.rest # <<>>
  <2>3. Range(f.rest) = Range(<<Head(f.rest)>>) \cup Range(Tail(f.rest))
    <3>1. <<Head(f.rest)>> \in Seq(S)
      BY <2>2
    <3>2. Range(<<Head(f.rest)>> \o Tail(f.rest)) = Range(<<Head(f.rest)>>) \cup Range(Tail(f.rest))
      BY <2>2, <3>1, ConcatRange
    <3> QED
      BY <2>2, <3>2
  <2> QED
    BY <2>2, <2>3 DEF AnySeq
<1>6. FrameOf(g, x, name, c, v, n, fields)
  BY <1>1, <1>3, <1>4, <1>5 DEF FrameOf, r
<1> QED
  BY <1>6 DEF FrameOK, g

(* A call that a running method makes.                                     *)
LEMMA InnerCall ==
    ASSUME Ready, Regular, NEW top, FrameOK(top), top.rest # <<>>
    PROVE  LET call  == Head(top.rest)
               c     == IF call.target = "this" THEN top.function[1]
                        ELSE SuperClass(top.function[1])
               ref   == IF call.target = "this" THEN top.this ELSE SuperView(top.this)
               seen  == Receiver(ref, c, call.name)
               asked == IF call.target = "this" THEN Virtual(ref, call.name)
                        ELSE OfSuper(c, call.name)
           IN  Entered(seen, MethodIndex(c, call.name), NoClass, asked)
<1>1. PICK x, name, o, v, n, fields : FrameOf(top, x, name, o, v, n, fields)
  BY DEF FrameOK
<1>2. /\ top.function = <<x, name>> /\ top.this = Ref(o, v, n, fields)
      /\ o \in Classes /\ ~cs[o].abstract /\ v \in Range(Ancestry(o)) /\ v \in Classes
      /\ x \in Range(Ancestry(v)) /\ x \in Classes /\ ~IsInterface(x) /\ PositionIn(x, name) # 0
  BY <1>1, FrameParts
<1> DEFINE call == Head(top.rest)
<1>3. call \in Range(Body(<<x, name>>).calls)
  <2>1. PICK S : top.rest \in Seq(S)
    BY <1>1 DEF FrameOf, AnySeq
  <2>2. call \in Range(top.rest)
    <3>1. 1 \in DOMAIN top.rest /\ call = top.rest[1]
      BY ONLY <2>1, top.rest # <<>>
    <3> QED
      BY <3>1 DEF Range
  <2> QED
    BY <1>1, <2>2 DEF FrameOf
<1> HIDE DEF call
<1>4. /\ call.target \in {"this", "super"}
      /\ call.target = "this" => IsMethod(x, call.name)
      /\ call.target # "this" => SuperClass(x) # NoClass /\ IsMethod(SuperClass(x), call.name)
      /\ call.target = "super" => call.name \in Calls(x, "super")
  BY <1>2, <1>3, CallsAreMethods
<1> DEFINE c     == IF call.target = "this" THEN top.function[1]
                    ELSE SuperClass(top.function[1])
           ref   == IF call.target = "this" THEN top.this ELSE SuperView(top.this)
           seen  == Receiver(ref, c, call.name)
           asked == IF call.target = "this" THEN Virtual(ref, call.name)
                    ELSE OfSuper(c, call.name)
           f     == PushMethod(seen, MethodIndex(c, call.name))
<1> DEFINE Good == Entered(seen, MethodIndex(c, call.name), NoClass, asked)
<1>5. ASSUME call.target = "this"
      PROVE  Good
  <2>1. c = x /\ ref = top.this /\ asked = Virtual(ref, call.name)
    BY <1>2, <1>5
  <2>2. v = o /\ n = 0
    BY <1>1, <1>3, <1>5 DEF FrameOf, Runnable, CallsOn
  <2>3. ref = Ref(o, o, 0, fields)
    BY <1>2, <2>1, <2>2
  <2>4. asked.class = o /\ asked.name = call.name
    BY <2>1, <2>3 DEF Virtual, Ref
  <2>5. Fits(o, 0, x)
    BY <1>2, <2>2 DEF Fits
  <2>6. seen = Receiver(Ref(o, o, 0, fields), x, call.name)
    BY <2>1, <2>3
  <2>8. IsMethod(x, call.name)
    BY <1>4, <1>5
  <2> HIDE DEF asked
  <2>9. Entered(Receiver(Ref(o, o, 0, fields), x, call.name), MethodIndex(x, call.name), NoClass, asked)
    BY <1>2, <2>4, <2>5, <2>8, TopCall
  <2> QED
    BY <2>1, <2>6, <2>9
<1>6. ASSUME call.target # "this"
      PROVE  Good
  <2> DEFINE s == SuperClass(x)
             m == Seen(0, s, call.name)
  <2>1. c = s /\ ref = SuperView(top.this) /\ asked = OfSuper(s, call.name)
    BY <1>2, <1>6
  <2>2. x = v
    BY <1>1, <1>3, <1>4, <1>6 DEF FrameOf, Runnable, CallsOn
  <2>3. ref = Ref(o, s, 0, fields)
    BY <1>2, <2>1, <2>2 DEF SuperView, Ref
  <2>4. asked.class = s /\ asked.name = call.name
    BY <2>1 DEF OfSuper
  <2>5. /\ s \in Classes /\ ~IsInterface(s) /\ s \in Range(chain[x]) /\ s \in Range(Ancestry(o))
        /\ s \in Range(Ancestry(s))
    <3>1. s \in Classes /\ ~IsInterface(s) /\ Range(chain[x]) = Range(Ancestry(s))
      BY <1>2, <1>4, <1>6, Hierarchy
    <3>2. s \in Range(Ancestry(s))
      BY <3>1, SelfAbove
    <3>3. s \in Range(Ancestry(x))
      BY <1>2, <3>1, <3>2, Hierarchy
    <3>4. Range(Ancestry(x)) \subseteq Range(Ancestry(o))
      BY <1>2, <2>2, Hierarchy
    <3> QED
      BY <3>1, <3>2, <3>3, <3>4
  <2>6. Fits(s, 0, s)
    BY <2>5 DEF Fits
  <2>7. IsMethod(s, call.name) /\ call.name \in Calls(x, "super")
    BY <1>4, <1>6
  <2> HIDE DEF s
  <2>8. seen = Ref(o, s, m, fields)
    BY <2>1, <2>3, ReceiverIs
  <2>9. seen.view = <<s, m>>
    BY <2>8 DEF Ref
  <2>10. f = PushMethod(seen, MethodIndex(s, call.name))
    BY <2>1
  <2> HIDE DEF f, seen, asked, ref, c
  <2>11. /\ f = Runs(s, m, call.name)
         /\ m # 0 => m \in DOMAIN interfaces[s] /\ PositionIn(interfaces[s][m], call.name) # 0
    BY <2>5, <2>6, <2>7, <2>9, <2>10, CallFits
  <2>12. Runs(s, m, call.name) # NoFunction
    <3>1. SuperHas(x)
      BY <1>2, RegularIs
    <3> QED
      BY <2>7, <3>1 DEF SuperHas, Runs, Seen, s
  <2> HIDE DEF m
  <2>13. s # o => \E y \in Classes : s \in Range(chain[y]) /\ call.name \in Calls(y, "super")
    BY <1>2, <2>5, <2>7
  <2>14. PICK z : /\ Runs(s, m, call.name) = <<z, call.name>>
                  /\ Runnable(o, s, m, z, call.name)
    BY <1>2, <2>5, <2>11, <2>12, <2>13, Enters
  <2>15. Implementation(s, call.name) = <<z, call.name>>
    BY <2>5, <2>12, <2>14, RunsIs
  <2>16. Suits(z, call.name, NoClass)
    BY DEF Suits
  <2>17. FrameOK(Frame(z, call.name, Ref(o, s, m, fields), NoClass, asked, Body(<<z, call.name>>).calls))
    BY <2>4, <2>14, <2>15, <2>16, NewFrame
  <2>18. f = <<z, call.name>>
    BY <2>11, <2>14
  <2> QED
    BY <2>1, <2>8, <2>10, <2>11, <2>12, <2>17, <2>18 DEF Frame, Entered
<1> HIDE DEF seen, asked, ref, c
<1>7. Good
  BY <1>5, <1>6
<1> QED
  BY <1>7 DEF seen, asked, ref, c, call

-----------------------------------------------------------------------------
(* A step that leaves the definitions and the tables alone changes nothing *)
(* of what they mean.                                                      *)
LEMMA SameFunctions ==
    ASSUME UNCHANGED source
    PROVE  /\ program' = program /\ chain' = chain /\ interfaces' = interfaces /\ members' = members
           /\ order' = order /\ index' = index /\ layout' = layout /\ class' = class
           /\ interface' = interface /\ cs' = cs /\ Classes' = Classes
           /\ \A c : Ancestry(c)' = Ancestry(c) /\ SuperClass(c)' = SuperClass(c)
           /\ \A c : Methods(c)' = Methods(c)
           /\ \A c : IsInterface(c)' = IsInterface(c)
           /\ \A c, name : Function(c, name)' = Function(c, name)
           /\ \A c, name : Implementation(c, name)' = Implementation(c, name)
           /\ \A c, name : is_interface_method(c, name)' = is_interface_method(c, name)
           /\ \A f : Body(f)' = Body(f)
<1>1. /\ program' = program /\ chain' = chain /\ interfaces' = interfaces /\ members' = members
      /\ order' = order /\ index' = index /\ layout' = layout /\ class' = class
      /\ interface' = interface /\ cs' = cs /\ Classes' = Classes
  BY DEF source, compiled, loaded, cs, Classes
<1>2. \A c : Ancestry(c)' = Ancestry(c) /\ SuperClass(c)' = SuperClass(c)
  BY <1>1 DEF Ancestry, SuperClass
<1>3. /\ \A c, name : PositionIn(c, name)' = PositionIn(c, name)
      /\ \A c, kind : OfKind(c, kind)' = OfKind(c, kind)
  BY <1>1, SameMembers
<1>4. \A c : IsInterface(c)' = IsInterface(c)
  BY <1>1, SameProgram
<1>5. \A c, name : Function(c, name)' = Function(c, name)
  BY <1>1, <1>3 DEF Function
<1>6. \A c : Methods(c)' = Methods(c)
  <2> SUFFICES ASSUME NEW c PROVE Methods(c)' = Methods(c)
    OBVIOUS
  <2> DEFINE places == OfKind(c, "method")
  <2>1. places' = places
    BY <1>3
  <2>2. Selected(members[c], places)' = Selected(members[c], places)
    <3> HIDE DEF places
    <3> QED
      BY <1>1, <2>1 DEF Selected, InOrder, Rank
  <2> QED
    BY <2>2 DEF Methods
<1>7. \A c, name : Implementation(c, name)' = Implementation(c, name)
  <2> SUFFICES ASSUME NEW c, NEW name
               PROVE  Implementation(c, name)' = Implementation(c, name)
    OBVIOUS
  <2> QED
    BY <1>2, <1>3, <1>5 DEF Implementation, SelectInSeq
<1>8. \A c, name : is_interface_method(c, name)' = is_interface_method(c, name)
  <2> SUFFICES ASSUME NEW c, NEW name
               PROVE  is_interface_method(c, name)' = is_interface_method(c, name)
    OBVIOUS
  <2> QED
    BY <1>1, <1>3, <1>4 DEF is_interface_method, SelectInSeq
<1>9. \A f : Body(f)' = Body(f)
  BY <1>1, <1>3 DEF Body
<1> QED
  BY <1>1, <1>2, <1>4, <1>5, <1>6, <1>7, <1>8, <1>9

LEMMA SameRegular ==
    ASSUME UNCHANGED source
    PROVE  Regular' = Regular
<1>1. /\ program' = program /\ chain' = chain /\ interfaces' = interfaces /\ members' = members
      /\ order' = order /\ cs' = cs /\ Classes' = Classes
      /\ \A c : Ancestry(c)' = Ancestry(c) /\ SuperClass(c)' = SuperClass(c)
      /\ \A c : Methods(c)' = Methods(c)
      /\ \A c : IsInterface(c)' = IsInterface(c)
      /\ \A c, name : Function(c, name)' = Function(c, name)
      /\ \A c, name : Implementation(c, name)' = Implementation(c, name)
      /\ \A c, name : is_interface_method(c, name)' = is_interface_method(c, name)
  BY SameFunctions
<1>2. /\ \A c, name : PositionIn(c, name)' = PositionIn(c, name)
      /\ \A c, kind : OfKind(c, kind)' = OfKind(c, kind)
      /\ \A c, name : search_member_in_super(c, name)' = search_member_in_super(c, name)
      /\ \A found : Member(found)' = Member(found)
  BY <1>1, SameMembers
<1>3. \A c : InterfacesIn(c)' = InterfacesIn(c)
  BY <1>1, SameProgram
<1>4. \A c : KindsOf(c)' = KindsOf(c)
  BY <1>1 DEF KindsOf
<1>5. \A c, target : Calls(c, target)' = Calls(c, target)
  BY <1>1 DEF Calls
<1>6. \A c : NewMethods(c)' = NewMethods(c)
  BY <1>1, <1>2 DEF NewMethods
<1>7. CastsKeep' = CastsKeep
  BY <1>1 DEF CastsKeep
<1>8. \A c : Implements(c)' = Implements(c)
  BY <1>1, <1>4 DEF Implements
<1>9. \A c : NoGaps(c)' = NoGaps(c)
  BY <1>1, <1>2, <1>4, <1>6 DEF NoGaps
<1>10. \A c : Apart(c)' = Apart(c)
  BY <1>1, <1>2 DEF Apart
<1>11. \A c : SameInterfaces(c)' = SameInterfaces(c)
  BY <1>1, <1>3 DEF SameInterfaces
<1>12. \A c : SameResult(c)' = SameResult(c)
  BY <1>1, <1>2 DEF SameResult
<1>13. \A c : ThisIsWhole(c)' = ThisIsWhole(c)
  BY <1>1, <1>5 DEF ThisIsWhole
<1>14. \A c : SuperIsNear(c)' = SuperIsNear(c)
  BY <1>1, <1>2 DEF SuperIsNear
<1>15. \A c : SuperHas(c)' = SuperHas(c)
  BY <1>1, <1>5 DEF SuperHas
<1> QED
  BY <1>1, <1>7, <1>8, <1>9, <1>10, <1>11, <1>12, <1>13, <1>14, <1>15 DEF Regular

LEMMA SameMeaning ==
    ASSUME UNCHANGED source
    PROVE  /\ Regular' = Regular /\ (Tables => Tables') /\ (Ready => Ready')
           /\ \A f : FrameOK(f)' = FrameOK(f)
           /\ \A ref, k, type, asked : Entered(ref, k, type, asked)' = Entered(ref, k, type, asked)
           /\ \A v, n, t : Fits(v, n, t)' = Fits(v, n, t)
           /\ \A c : InitialFields(c)' = InitialFields(c)
<1>1. /\ program' = program /\ chain' = chain /\ interfaces' = interfaces /\ members' = members
      /\ order' = order /\ index' = index /\ layout' = layout /\ class' = class
      /\ interface' = interface /\ cs' = cs /\ Classes' = Classes
      /\ \A c : Ancestry(c)' = Ancestry(c)
      /\ \A c : IsInterface(c)' = IsInterface(c)
      /\ \A c, name : Function(c, name)' = Function(c, name)
      /\ \A c, name : Implementation(c, name)' = Implementation(c, name)
      /\ \A f : Body(f)' = Body(f)
  BY SameFunctions
<1>2. /\ \A c, name : PositionIn(c, name)' = PositionIn(c, name)
      /\ \A c, kind : OfKind(c, kind)' = OfKind(c, kind)
  BY <1>1, SameMembers
<1>3. Tables => Tables'
  BY TablesSame DEF source
<1>4. Ready => Ready'
  BY <1>1, <1>3 DEF Ready
<1>5. \A c, v, n, x, name : Runnable(c, v, n, x, name)' = Runnable(c, v, n, x, name)
  BY <1>1 DEF Runnable, CallsOn
<1>6. \A x, name, type : Suits(x, name, type)' = Suits(x, name, type)
  BY <1>1, <1>2 DEF Suits, TypeOf, IsA
<1>7. \A f, x, name, c, v, n, fields :
         FrameOf(f, x, name, c, v, n, fields)' = FrameOf(f, x, name, c, v, n, fields)
  BY <1>1, <1>5, <1>6 DEF FrameOf
<1>8. \A f : FrameOK(f)' = FrameOK(f)
  BY <1>7 DEF FrameOK
<1>9. \A ref, k : PushMethod(ref, k)' = PushMethod(ref, k)
  BY <1>1 DEF PushMethod, VTable
<1>10. \A ref, k, type, asked : Entered(ref, k, type, asked)' = Entered(ref, k, type, asked)
  BY <1>1, <1>8, <1>9 DEF Entered
<1>11. \A v, n, t : Fits(v, n, t)' = Fits(v, n, t)
  BY <1>1 DEF Fits
<1>12. \A c : InitialFields(c)' = InitialFields(c)
  <2>1. \A d : InitialOf(d)' = InitialOf(d)
    <3> SUFFICES ASSUME NEW d PROVE InitialOf(d)' = InitialOf(d)
      OBVIOUS
    <3> DEFINE places == OfKind(d, "field")
    <3>1. places' = places
      BY <1>2
    <3>2. InOrder(places)' = InOrder(places)
      <4> HIDE DEF places
      <4> QED
        BY <3>1 DEF InOrder, Rank
    <3> QED
      BY <1>1, <3>2 DEF InitialOf
  <2>2. \A c : Initializers(c)' = Initializers(c)
    <3> SUFFICES ASSUME NEW c PROVE Initializers(c)' = Initializers(c)
      OBVIOUS
    <3> DEFINE ss == [i \in DOMAIN Ancestry(c) |-> InitialOf(Ancestry(c)[i])]
    <3>1. ss' = ss
      BY <1>1, <2>1
    <3>2. Initializers(c) = FlattenSeq(ss)
      BY DEF Initializers, InitialOf, Ancestry
    <3>3. Initializers(c)' = FlattenSeq(ss)'
      BY DEF Initializers, InitialOf, Ancestry
    <3> HIDE DEF ss
    <3>4. FlattenSeq(ss)' = FlattenSeq(ss)
      BY <3>1
    <3> QED
      BY <3>2, <3>3, <3>4
  <2> SUFFICES ASSUME NEW c PROVE InitialFields(c)' = InitialFields(c)
    OBVIOUS
  <2> DEFINE ini == Initializers(c)
  <2>3. ini' = ini
    BY <2>2
  <2> HIDE DEF ini
  <2> QED
    BY <1>1, <2>3 DEF InitialFields, SelectLastInSeq, ini
<1> QED
  BY <1>3, <1>4, <1>8, <1>10, <1>11, <1>12, SameRegular

-----------------------------------------------------------------------------
(* The inductive invariant of a run of regular programs.  The tables are   *)
(* what the loops have built so far; once the program runs, the variable   *)
(* refers to an object of a class that is not abstract, as creation left   *)
(* it, seen as its static type needs; a delegate finds a function; every   *)
(* running method is as above.                                             *)
Begun == outcome \notin {"compiling", "rejected", "irregular"}
VariableOK ==
    variable # Null =>
        \E c, n : /\ c \in Classes
                  /\ variable = Ref(c, c, n, InitialFields(c))
                  /\ ~cs[c].abstract /\ Fits(c, n, static)
DelegateOK ==
    delegate.object # Null =>
        Entered(delegate.object, delegate.index, delegate.type, delegate.asked)
FramesOK == AnySeq(frames) /\ \A i \in DOMAIN frames : FrameOK(frames[i])
Started == Ready /\ Regular /\ VariableOK /\ DelegateOK /\ FramesOK
Inv ==
    /\ Tables /\ static \in Classes /\ outcome # "undefined" /\ CastsRight
    /\ Begun => Started
    /\ ~Begun => variable = Null /\ delegate.object = Null /\ frames = <<>> /\ answer = NoAnswer

LEMMA Kept ==
    ASSUME UNCHANGED source
    PROVE  /\ Tables => Tables'
           /\ static \in Classes /\ static' = static => static' \in Classes'
           /\ (Ready => Ready') /\ (Regular => Regular')
           /\ VariableOK /\ UNCHANGED <<variable, static>> => VariableOK'
           /\ DelegateOK /\ UNCHANGED delegate => DelegateOK'
           /\ FramesOK /\ UNCHANGED frames => FramesOK'
           /\ CastsRight /\ UNCHANGED answer => CastsRight'
<1>1. /\ cs' = cs /\ Classes' = Classes /\ \A c : Ancestry(c)' = Ancestry(c)
  BY SameFunctions
<1>2. /\ Regular' = Regular /\ (Tables => Tables') /\ (Ready => Ready')
      /\ \A f : FrameOK(f)' = FrameOK(f)
      /\ \A ref, k, type, asked : Entered(ref, k, type, asked)' = Entered(ref, k, type, asked)
      /\ \A v, n, t : Fits(v, n, t)' = Fits(v, n, t)
      /\ \A c : InitialFields(c)' = InitialFields(c)
  BY SameMeaning
<1>3. VariableOK /\ UNCHANGED <<variable, static>> => VariableOK'
  BY <1>1, <1>2 DEF VariableOK
<1>4. DelegateOK /\ UNCHANGED delegate => DelegateOK'
  BY <1>1, <1>2 DEF DelegateOK
<1>5. FramesOK /\ UNCHANGED frames => FramesOK'
  BY <1>1, <1>2 DEF FramesOK
<1>6. CastsRight /\ UNCHANGED answer => CastsRight'
  BY <1>1 DEF CastsRight, KindsOf
<1> QED
  BY <1>1, <1>2, <1>3, <1>4, <1>5, <1>6

LEMMA InvStart == Init => Inv
<1> SUFFICES ASSUME Init PROVE Inv
  OBVIOUS
<1>1. Tables
  BY TablesStart DEF Init
<1>2. static \in Classes
  BY DefinitionsAre DEF Init, SourceInit
<1> QED
  BY <1>1, <1>2 DEF Init, SourceInit, Inv, Begun, CastsRight

LEMMA PrepareKeeps == Inv /\ Prepare => Inv'
<1> SUFFICES ASSUME Inv, Prepare PROVE Inv'
  OBVIOUS
<1>1. Tables'
  BY FixExtendsKeeps, AddSuperInterfacesKeeps, FixMembersKeeps, AddClassKeeps DEF Inv, Prepare
<1>2. program' = program /\ outcome = "compiling" /\ outcome' \in {"compiling", "rejected"}
  BY DEF Prepare, FixExtends, AddSuperInterfaces, FixMembers, AddClass, Rejected
<1>3. UNCHANGED <<static, variable, delegate, frames, answer>>
  BY DEF Prepare
<1>4. Classes' = Classes
  BY <1>2, SameProgram
<1> QED
  BY <1>1, <1>2, <1>3, <1>4 DEF Inv, Begun, CastsRight

LEMMA StartKeeps == ASSUME OnlyRegular PROVE Inv /\ Start => Inv'
<1> SUFFICES ASSUME Inv, Start PROVE Inv'
  OBVIOUS
<1>1. /\ UNCHANGED source /\ UNCHANGED <<static, variable, delegate, frames, answer>>
      /\ outcome = "compiling" /\ outcome' \in {"irregular", "running"}
      /\ outcome' = "running" => Regular
  BY DEF Start
<1>2. Ready
  BY DEF Inv, Start, Ready
<1>3. variable = Null /\ delegate.object = Null /\ frames = <<>> /\ answer = NoAnswer
  BY <1>1 DEF Inv, Begun
<1>4. Tables' /\ static' \in Classes' /\ Ready' /\ (Regular => Regular')
  BY <1>1, <1>2, Kept DEF Inv
<1>5. CastsRight' /\ VariableOK' /\ DelegateOK'
  BY <1>1, <1>3 DEF CastsRight, VariableOK, DelegateOK
<1>6. FramesOK'
  <2>1. frames' = <<>>
    BY <1>1, <1>3
  <2>2. AnySeq(<<>>) /\ DOMAIN <<>> = {}
    <3>1. <<>> \in Seq({})
      OBVIOUS
    <3> QED
      BY <3>1, RangeOf DEF AnySeq
  <2> QED
    BY <2>1, <2>2 DEF FramesOK
<1> QED
  BY <1>1, <1>3, <1>4, <1>5, <1>6 DEF Inv, Begun, Started

(* What the top level has while the program runs.                          *)
LEMMA Running ==
    ASSUME Inv, TopLevel
    PROVE  /\ Tables /\ static \in Classes /\ CastsRight /\ Ready /\ Regular
           /\ VariableOK /\ DelegateOK /\ FramesOK /\ frames = <<>> /\ outcome = "running" /\ Begun
  BY DEF Inv, TopLevel, Begun, Started

LEMMA ThrowsKeeps ==
    ASSUME Inv, TopLevel, Throws("NullPointerException")
    PROVE  Inv'
<1>1. /\ UNCHANGED source /\ UNCHANGED <<static, variable, delegate, frames, answer>>
      /\ outcome' = "NullPointerException"
  BY DEF Throws
<1>2. /\ Tables' /\ static' \in Classes' /\ Ready' /\ Regular' /\ VariableOK' /\ DelegateOK'
      /\ FramesOK' /\ CastsRight'
  BY <1>1, Running, Kept
<1> QED
  BY <1>1, <1>2 DEF Inv, Begun, Started

(* A call that finds a function adds the frame for it.                     *)
LEMMA InvokeEnters ==
    ASSUME NEW ref, NEW k, NEW type, NEW asked, Entered(ref, k, type, asked),
           Invoke(PushMethod(ref, k), ref, type, asked), FramesOK
    PROVE  /\ outcome' = outcome /\ AnySeq(frames')
           /\ \A i \in DOMAIN frames' : FrameOK(frames'[i])
<1> DEFINE f == PushMethod(ref, k)
           new == [function |-> f, this |-> ref, type |-> type, asked |-> asked,
                   rest |-> Body(f).calls]
<1>1. f # NoFunction /\ FrameOK(new)
  BY DEF Entered
<1>2. frames' = Append(frames, new) /\ outcome' = outcome
  BY <1>1 DEF Invoke
<1> HIDE DEF new, f
<1>3. AnySeq(frames) /\ \A i \in DOMAIN frames : FrameOK(frames[i])
  BY DEF FramesOK
<1>4. /\ AnySeq(frames') /\ Len(frames) \in Nat /\ Len(frames') = Len(frames) + 1
      /\ \A i \in 1..Len(frames) : frames'[i] = frames[i]
      /\ frames'[Len(frames) + 1] = new
  BY <1>2, <1>3, AppendIs
<1>5. DOMAIN frames = 1..Len(frames) /\ DOMAIN frames' = 1..Len(frames')
  BY <1>3, <1>4, LenProperties DEF AnySeq
<1> QED
  BY <1>1, <1>2, <1>3, <1>4, <1>5

LEMMA ConstructorIs ==
    ASSUME Ready, Regular, NEW c \in Classes, ~NewError(NoClass, c)
    PROVE  /\ ~cs[c].abstract /\ IsMethod(c, DefaultConstructor)
           /\ is_interface_method(c, DefaultConstructor) = 0 /\ Fits(c, 0, c)
<1> DEFINE found == dkc_search_member(c, DefaultConstructor)
           e == found.class
<1>1. ~cs[c].abstract /\ found # NotFound /\ Member(found).constructor
  BY DEF NewError
<1>2. Finds(c, DefaultConstructor)
  BY FindsAll
<1>3. /\ e \in Range(Ancestry(c)) \cup Range(interfaces[c]) /\ PositionIn(e, DefaultConstructor) # 0
      /\ found = Found(e, DefaultConstructor)
  BY <1>1, <1>2 DEF Finds
<1>4. e \in Classes
  BY <1>3, Hierarchy, Interfaces
<1> HIDE DEF found, e
<1>5. Member(found) = members[e][PositionIn(e, DefaultConstructor)]
  BY <1>3 DEF Found, Member
<1>6. Sound(e, members[e][PositionIn(e, DefaultConstructor)])
  BY <1>3, <1>4, BodyIs
<1>7. IsMethod(c, DefaultConstructor)
  BY <1>1, <1>5, <1>6 DEF IsMethod, Sound, found
<1>8. is_interface_method(c, DefaultConstructor) = 0
  <2> DEFINE i == is_interface_method(c, DefaultConstructor)
  <2> SUFFICES ASSUME i # 0 PROVE FALSE
    OBVIOUS
  <2>1. interfaces[c][i] \in Range(interfaces[c]) /\ PositionIn(interfaces[c][i], DefaultConstructor) # 0
    BY InterfaceMethod
  <2> HIDE DEF i
  <2> DEFINE name == DefaultConstructor
  <2>2. PositionIn(interfaces[c][i], name) # 0
    BY <2>1
  <2> HIDE DEF name
  <2>3. name # DefaultConstructor
    BY <2>1, <2>2, ApartIs
  <2> QED
    BY <2>3 DEF name
<1>9. Fits(c, 0, c)
  <2>1. ~IsInterface(c)
    BY <1>1, ReadyIs, ExtendsIs
  <2> QED
    BY <2>1, SelfAbove DEF Fits
<1> QED
  BY <1>1, <1>7, <1>8, <1>9

LEMMA NewKeeps == Inv /\ (\E c \in Classes : New(c)) => Inv'
<1> SUFFICES ASSUME Inv, NEW c \in Classes, New(c) PROVE Inv'
  OBVIOUS
<1>1. TopLevel
  BY DEF New
<1>2. /\ Tables /\ CastsRight /\ Ready /\ Regular /\ DelegateOK /\ FramesOK /\ frames = <<>>
      /\ outcome = "running"
  BY <1>1, Running
<1>3. UNCHANGED source /\ UNCHANGED delegate /\ static' = c /\ answer' = NoAnswer /\ variable' = Object(c)
  BY DEF New
<1>4. /\ ~cs[c].abstract /\ IsMethod(c, DefaultConstructor)
      /\ is_interface_method(c, DefaultConstructor) = 0 /\ Fits(c, 0, c)
  BY <1>2, ConstructorIs DEF New
<1>5. Object(c) = Ref(c, c, 0, InitialFields(c))
  BY DEF Object, Ref
<1>6. Entered(Receiver(Object(c), c, DefaultConstructor), MethodIndex(c, DefaultConstructor),
              NoClass, Virtual(Object(c), DefaultConstructor))
  <2> DEFINE asked == Virtual(Object(c), DefaultConstructor)
             fields == InitialFields(c)
             name == DefaultConstructor
  <2>1. asked.class = c /\ asked.name = name
    BY DEF Virtual, Object
  <2>2. IsMethod(c, name)
    BY <1>4
  <2> HIDE DEF asked, fields, name
  <2>3. Entered(Receiver(Ref(c, c, 0, fields), c, name), MethodIndex(c, name), NoClass, asked)
    BY <1>2, <1>4, <2>1, <2>2, TopCall
  <2> QED
    BY <1>5, <2>3 DEF asked, fields, name
<1>7. Receiver(Object(c), c, DefaultConstructor) = Object(c)
  BY <1>4 DEF Receiver
<1>8. Invoke(PushMethod(Object(c), MethodIndex(c, DefaultConstructor)), Object(c),
             NoClass, Virtual(Object(c), DefaultConstructor))
  BY DEF New
<1>9. /\ outcome' = outcome /\ AnySeq(frames')
      /\ \A i \in DOMAIN frames' : FrameOK(frames'[i])
  BY <1>2, <1>6, <1>7, <1>8, InvokeEnters
<1>10. /\ Tables' /\ Ready' /\ Regular' /\ DelegateOK'
  BY <1>2, <1>3, Kept
<1>11. /\ Classes' = Classes /\ cs' = cs
       /\ \A f : FrameOK(f)' = FrameOK(f)
       /\ Fits(c, 0, c)' = Fits(c, 0, c)
       /\ InitialFields(c)' = InitialFields(c)
  BY <1>3, SameMeaning, SameFunctions
<1>12. FramesOK'
  BY <1>9, <1>11 DEF FramesOK
<1>13. VariableOK'
  BY <1>3, <1>4, <1>5, <1>11 DEF VariableOK
<1>14. CastsRight'
  BY <1>3 DEF CastsRight
<1> QED
  BY <1>2, <1>3, <1>9, <1>10, <1>11, <1>12, <1>13, <1>14 DEF Inv, Begun, Started

LEMMA AssignKeeps == Inv /\ (\E c \in Classes : Assign(c)) => Inv'
<1> SUFFICES ASSUME Inv, NEW to \in Classes, Assign(to) PROVE Inv'
  OBVIOUS
<1>1. TopLevel /\ ~AssignError(static, to)
  BY DEF Assign
<1>2. /\ Tables /\ CastsRight /\ Ready /\ Regular /\ VariableOK /\ DelegateOK /\ FramesOK
      /\ outcome = "running" /\ static \in Classes
  BY <1>1, Running
<1>3. CASE variable = Null /\ CastNeeded(static, to)
  BY <1>1, <1>3, ThrowsKeeps DEF Assign
<1>4. CASE ~(variable = Null /\ CastNeeded(static, to))
  <2>1. /\ UNCHANGED source /\ UNCHANGED <<delegate, frames, outcome>> /\ answer' = NoAnswer
        /\ static' = to
        /\ variable' = IF variable = Null THEN Null ELSE Convert(variable, static, to)
    BY <1>4 DEF Assign
  <2>2. /\ Tables' /\ Ready' /\ Regular' /\ DelegateOK' /\ FramesOK'
    BY <1>2, <2>1, Kept
  <2>3. /\ Classes' = Classes /\ cs' = cs
        /\ \A v, n, t : Fits(v, n, t)' = Fits(v, n, t)
        /\ \A c : InitialFields(c)' = InitialFields(c)
    BY <2>1, SameMeaning, SameFunctions
  <2>4. VariableOK'
    <3>1. CASE variable = Null
      BY <2>1, <3>1 DEF VariableOK
    <3>2. CASE variable # Null
      <4>1. PICK c, n : /\ c \in Classes
                        /\ variable = Ref(c, c, n, InitialFields(c))
                        /\ ~cs[c].abstract /\ Fits(c, n, static)
        BY <1>2, <3>2 DEF VariableOK
      <4> DEFINE fields == InitialFields(c)
      <4> HIDE DEF fields
      <4>2. PICK m : Convert(Ref(c, c, n, fields), static, to) = Ref(c, c, m, fields) /\ Fits(c, m, to)
        BY <1>1, <1>2, <4>1, ConvertFits
      <4>3. variable' = Ref(c, c, m, InitialFields(c))
        BY <2>1, <3>2, <4>1, <4>2 DEF fields
      <4> QED
        BY <2>1, <2>3, <4>1, <4>2, <4>3 DEF VariableOK
    <3> QED
      BY <3>1, <3>2
  <2>5. CastsRight'
    BY <2>1 DEF CastsRight
  <2> QED
    BY <1>2, <2>1, <2>2, <2>3, <2>4, <2>5 DEF Inv, Begun, Started
<1> QED
  BY <1>3, <1>4

(* instanceof and casts compare with the supers and interfaces of the class*)
(* of the object.                                                          *)
LEMMA AnswersRight ==
    ASSUME Ready, NEW c \in Classes, NEW to
    PROVE  to \in KindsOf(c) <=> (to = c \/ is_super_class(c, to))
<1>1. KindsOf(c) = Range(Ancestry(c)) \cup Range(interfaces[c])
  BY KindsAreOf
<1>2. Range(Ancestry(c)) = {c} \cup Range(chain[c])
  BY Hierarchy
<1> QED
  BY <1>1, <1>2 DEF is_super_class

LEMMA DownCastKeeps == Inv /\ (\E c \in Classes : DownCast(c)) => Inv'
<1> SUFFICES ASSUME Inv, NEW to \in Classes, DownCast(to) PROVE Inv'
  OBVIOUS
<1>1. TopLevel /\ <<static, to>> \in program.casts
  BY DEF DownCast
<1>2. /\ Tables /\ CastsRight /\ Ready /\ Regular /\ VariableOK /\ DelegateOK /\ FramesOK
      /\ outcome = "running" /\ static \in Classes
  BY <1>1, Running
<1>3. CASE variable = Null
  <2>1. Throws("NullPointerException")
    BY <1>3 DEF DownCast
  <2> QED
    BY <1>1, <2>1, ThrowsKeeps
<1>4. CASE variable # Null
  <2>1. PICK c, n : /\ c \in Classes
                    /\ variable = Ref(c, c, n, InitialFields(c))
                    /\ ~cs[c].abstract /\ Fits(c, n, static)
    BY <1>2, <1>4 DEF VariableOK
  <2>2. variable.view = <<c, n>> /\ variable.class = c /\ variable.view[1] = c
    <3> DEFINE fields == InitialFields(c)
    <3>1. variable = Ref(c, c, n, fields)
      BY <2>1
    <3> HIDE DEF fields
    <3> QED
      BY <3>1 DEF Ref
  <2>3. to \in KindsOf(c) <=> (to = c \/ is_super_class(c, to))
    BY <1>2, <2>1, AnswersRight
  <2>4. CASE to # c /\ ~is_super_class(c, to)
    <3>1. to # variable.view[1] /\ ~IsSub(variable, to)
      BY <2>2, <2>4 DEF IsSub
    <3>2. /\ outcome' = "ClassCastException" /\ answer' = Is("refused", to) /\ UNCHANGED source
          /\ UNCHANGED <<static, variable, delegate, frames>>
      BY <1>4, <3>1 DEF DownCast
    <3>3. /\ Tables' /\ Ready' /\ Regular' /\ VariableOK' /\ DelegateOK' /\ FramesOK' /\ static' \in Classes'
      BY <1>2, <3>2, Kept
    <3>4. CastsRight'
      <4>1. answer' = [question |-> "refused", class |-> c, target |-> to]
        BY <2>2, <3>2 DEF Is
      <4>2. KindsOf(c)' = KindsOf(c)
        BY <3>2, SameFunctions DEF KindsOf
      <4>3. answer'.question # "yes" /\ answer'.target = to /\ answer'.class = c
        BY <4>1
      <4>4. to \notin KindsOf(c)
        BY <2>3, <2>4
      <4> QED
        BY <4>2, <4>3, <4>4 DEF CastsRight
    <3> QED
      BY <3>2, <3>3, <3>4 DEF Inv, Begun, Started
  <2>5. CASE to = c \/ is_super_class(c, to)
    <3>1. to = variable.view[1] \/ IsSub(variable, to)
      BY <2>2, <2>5 DEF IsSub
    <3>2. /\ variable' = [variable EXCEPT !.view = DownCastView(variable, to)]
          /\ static' = to /\ answer' = Is("yes", to) /\ UNCHANGED source
          /\ UNCHANGED <<delegate, frames, outcome>>
      BY <1>4, <3>1 DEF DownCast
    <3>3. /\ Tables' /\ Ready' /\ Regular' /\ DelegateOK' /\ FramesOK'
      BY <1>2, <3>2, Kept
    <3>4. /\ Classes' = Classes /\ cs' = cs
          /\ \A v, m, t : Fits(v, m, t)' = Fits(v, m, t)
          /\ InitialFields(c)' = InitialFields(c)
      BY <3>2, SameMeaning, SameFunctions
    <3>5. VariableOK'
      <4> DEFINE fields == InitialFields(c)
      <4>1. variable = Ref(c, c, n, fields)
        BY <2>1
      <4> HIDE DEF fields
      <4>2. PICK m : DownCastView(Ref(c, c, n, fields), to) = <<c, m>> /\ Fits(c, m, to)
        BY <1>1, <1>2, <2>1, <2>5, DownCastFits
      <4>3. variable' = [Ref(c, c, n, fields) EXCEPT !.view = <<c, m>>]
        BY <3>2, <4>1, <4>2
      <4>4. variable' = Ref(c, c, m, fields)
        BY <4>3 DEF Ref
      <4> QED
        BY <2>1, <3>2, <3>4, <4>2, <4>4 DEF VariableOK, fields
    <3>6. CastsRight'
      <4>1. answer' = [question |-> "yes", class |-> c, target |-> to]
        BY <2>2, <3>2 DEF Is
      <4>2. KindsOf(c)' = KindsOf(c)
        BY <3>2, SameFunctions DEF KindsOf
      <4>3. answer'.question = "yes" /\ answer'.target = to /\ answer'.class = c
        BY <4>1
      <4>4. to \in KindsOf(c)
        BY <2>3, <2>5
      <4> QED
        BY <4>2, <4>3, <4>4 DEF CastsRight
    <3> QED
      BY <1>2, <3>2, <3>3, <3>4, <3>5, <3>6 DEF Inv, Begun, Started
  <2> QED
    BY <2>4, <2>5
<1> QED
  BY <1>3, <1>4

LEMMA InstanceOfKeeps == Inv /\ (\E c \in Classes : InstanceOf(c)) => Inv'
<1> SUFFICES ASSUME Inv, NEW to \in Classes, InstanceOf(to) PROVE Inv'
  OBVIOUS
<1>1. TopLevel /\ variable # Null
  BY DEF InstanceOf
<1>2. /\ Tables /\ CastsRight /\ Ready /\ Regular /\ VariableOK /\ DelegateOK /\ FramesOK
      /\ outcome = "running" /\ static \in Classes
  BY <1>1, Running
<1>3. PICK c, n : /\ c \in Classes
                  /\ variable = Ref(c, c, n, InitialFields(c))
                  /\ ~cs[c].abstract /\ Fits(c, n, static)
  BY <1>1, <1>2 DEF VariableOK
<1>4. variable.class = c /\ variable.view[1] = c
  <2> DEFINE fields == InitialFields(c)
  <2>1. variable = Ref(c, c, n, fields)
    BY <1>3
  <2> HIDE DEF fields
  <2> QED
    BY <2>1 DEF Ref
<1> DEFINE q == IF to = variable.view[1] \/ IsSub(variable, to) THEN "yes" ELSE "refused"
<1>5. answer' = Is(q, to) /\ UNCHANGED source /\ UNCHANGED <<static, variable, delegate, frames, outcome>>
  BY DEF InstanceOf
<1>6. q = "yes" <=> to \in KindsOf(c)
  BY <1>2, <1>3, <1>4, AnswersRight DEF IsSub
<1>7. /\ Tables' /\ Ready' /\ Regular' /\ VariableOK' /\ DelegateOK' /\ FramesOK' /\ static' \in Classes'
  BY <1>2, <1>5, Kept
<1> HIDE DEF q
<1>8. CastsRight'
  <2>1. answer' = [question |-> q, class |-> c, target |-> to]
    BY <1>4, <1>5 DEF Is
  <2>2. KindsOf(c)' = KindsOf(c)
    BY <1>5, SameFunctions DEF KindsOf
  <2>3. answer'.question = q /\ answer'.target = to /\ answer'.class = c
    BY <2>1
  <2> QED
    BY <1>6, <2>2, <2>3 DEF CastsRight
<1> QED
  BY <1>2, <1>5, <1>7, <1>8 DEF Inv, Begun, Started

(* A method called, or taken for a delegate, from the top level finds a    *)
(* function.                                                               *)
LEMMA VariableCall ==
    ASSUME Ready, Regular, VariableOK, variable # Null, static \in Classes,
           NEW name, Callable(NoClass, static, name)
    PROVE  Entered(Receiver(variable, static, name), MethodIndex(static, name),
                   ReturnType(static, name), Virtual(variable, name))
<1>1. PICK c, n : /\ c \in Classes
                  /\ variable = Ref(c, c, n, InitialFields(c))
                  /\ ~cs[c].abstract /\ Fits(c, n, static)
  BY DEF VariableOK
<1> DEFINE fields == InitialFields(c)
           asked == Virtual(variable, name)
           type == ReturnType(static, name)
<1>2. variable = Ref(c, c, n, fields)
  BY <1>1
<1> HIDE DEF fields
<1>3. asked.class = c /\ asked.name = name
  <2>1. variable.class = c
    BY <1>2 DEF Ref
  <2> QED
    BY <2>1 DEF Virtual
<1>4. IsMethod(static, name)
  BY DEF Callable, IsMethod
<1> HIDE DEF asked
<1>5. Entered(Receiver(Ref(c, c, n, fields), static, name), MethodIndex(static, name), type, asked)
  <2>1. type = ReturnType(static, name)
    OBVIOUS
  <2> HIDE DEF type
  <2> QED
    BY <1>1, <1>3, <1>4, <2>1, TopCall
<1> QED
  BY <1>2, <1>5 DEF asked

LEMMA CallKeeps == Inv /\ (\E name \in Names : Call(name)) => Inv'
<1> SUFFICES ASSUME Inv, NEW name \in Names, Call(name) PROVE Inv'
  OBVIOUS
<1>1. TopLevel /\ Callable(NoClass, static, name)
  BY DEF Call
<1>2. /\ Tables /\ CastsRight /\ Ready /\ Regular /\ VariableOK /\ DelegateOK /\ FramesOK
      /\ outcome = "running" /\ static \in Classes
  BY <1>1, Running
<1>3. CASE variable = Null
  <2>1. Throws("NullPointerException")
    BY <1>3 DEF Call
  <2> QED
    BY <1>1, <2>1, ThrowsKeeps
<1>4. CASE variable # Null
  <2> DEFINE ref == Receiver(variable, static, name)
             k == MethodIndex(static, name)
             type == ReturnType(static, name)
             asked == Virtual(variable, name)
  <2>1. /\ Invoke(PushMethod(ref, k), ref, type, asked) /\ answer' = NoAnswer
        /\ UNCHANGED source /\ UNCHANGED <<static, variable, delegate>>
    BY <1>4 DEF Call
  <2>2. Entered(ref, k, type, asked)
    BY <1>1, <1>2, <1>4, VariableCall
  <2>3. /\ outcome' = outcome /\ AnySeq(frames') /\ \A i \in DOMAIN frames' : FrameOK(frames'[i])
    <3> HIDE DEF ref, k, type, asked
    <3> QED
      BY <1>2, <2>1, <2>2, InvokeEnters
  <2> HIDE DEF ref, k, type, asked
  <2>4. /\ Tables' /\ Ready' /\ Regular' /\ VariableOK' /\ DelegateOK' /\ static' \in Classes'
    BY <1>2, <2>1, Kept
  <2>5. FramesOK'
    <3>1. \A f : FrameOK(f)' = FrameOK(f)
      BY <2>1, SameMeaning
    <3> QED
      BY <2>3, <3>1 DEF FramesOK
  <2>6. CastsRight'
    BY <2>1 DEF CastsRight
  <2> QED
    BY <1>2, <2>3, <2>4, <2>5, <2>6 DEF Inv, Begun, Started
<1> QED
  BY <1>3, <1>4

LEMMA TakeDelegateKeeps == Inv /\ (\E name \in Names : TakeDelegate(name)) => Inv'
<1> SUFFICES ASSUME Inv, NEW name \in Names, TakeDelegate(name) PROVE Inv'
  OBVIOUS
<1>1. TopLevel /\ Callable(NoClass, static, name) /\ variable # Null
  BY DEF TakeDelegate
<1>2. /\ Tables /\ CastsRight /\ Ready /\ Regular /\ VariableOK /\ DelegateOK /\ FramesOK
      /\ outcome = "running" /\ static \in Classes
  BY <1>1, Running
<1> DEFINE ref == Receiver(variable, static, name)
           k == MethodIndex(static, name)
           type == ReturnType(static, name)
           asked == Virtual(variable, name)
<1>3. /\ delegate' = [object |-> ref, index |-> k, type |-> type, asked |-> asked]
      /\ answer' = NoAnswer /\ UNCHANGED source /\ UNCHANGED <<static, variable, frames, outcome>>
  BY DEF TakeDelegate, PushMethodDelegate
<1>4. Entered(ref, k, type, asked)
  BY <1>1, <1>2, VariableCall
<1> HIDE DEF ref, k, type, asked
<1>5. delegate'.object = ref /\ delegate'.index = k /\ delegate'.type = type /\ delegate'.asked = asked
  BY <1>3
<1>6. DelegateOK'
  <2>1. Entered(delegate'.object, delegate'.index, delegate'.type, delegate'.asked)
    BY <1>4, <1>5
  <2>2. \A a, b, c, d : Entered(a, b, c, d)' = Entered(a, b, c, d)
    BY <1>3, SameMeaning
  <2> QED
    BY <2>1, <2>2 DEF DelegateOK
<1>7. /\ Tables' /\ Ready' /\ Regular' /\ VariableOK' /\ FramesOK' /\ static' \in Classes'
  BY <1>2, <1>3, Kept
<1>8. CastsRight'
  BY <1>3 DEF CastsRight
<1> QED
  BY <1>2, <1>3, <1>6, <1>7, <1>8 DEF Inv, Begun, Started

LEMMA InvokeDelegateKeeps == Inv /\ InvokeDelegate => Inv'
<1> SUFFICES ASSUME Inv, InvokeDelegate PROVE Inv'
  OBVIOUS
<1>1. TopLevel /\ delegate.object # Null
  BY DEF InvokeDelegate
<1>2. /\ Tables /\ CastsRight /\ Ready /\ Regular /\ VariableOK /\ DelegateOK /\ FramesOK
      /\ outcome = "running" /\ static \in Classes
  BY <1>1, Running
<1>3. /\ Invoke(PushMethod(delegate.object, delegate.index), delegate.object,
                delegate.type, delegate.asked)
      /\ UNCHANGED source /\ UNCHANGED <<static, variable, delegate, answer>>
  BY DEF InvokeDelegate
<1>4. Entered(delegate.object, delegate.index, delegate.type, delegate.asked)
  BY <1>1, <1>2 DEF DelegateOK
<1>5. /\ outcome' = outcome /\ AnySeq(frames') /\ \A i \in DOMAIN frames' : FrameOK(frames'[i])
  BY <1>2, <1>3, <1>4, InvokeEnters
<1>6. /\ Tables' /\ Ready' /\ Regular' /\ VariableOK' /\ DelegateOK' /\ CastsRight' /\ static' \in Classes'
  BY <1>2, <1>3, Kept
<1>7. FramesOK'
  <2>1. \A f : FrameOK(f)' = FrameOK(f)
    BY <1>3, SameMeaning
  <2> QED
    BY <1>5, <2>1 DEF FramesOK
<1> QED
  BY <1>2, <1>5, <1>6, <1>7 DEF Inv, Begun, Started

(* What a step inside a method has while the program runs.                 *)
LEMMA Inside ==
    ASSUME Inv, outcome = "running", frames # <<>>
    PROVE  /\ Tables /\ CastsRight /\ Ready /\ Regular /\ VariableOK /\ DelegateOK /\ FramesOK
           /\ static \in Classes /\ AnySeq(frames) /\ DOMAIN frames = 1..Len(frames)
           /\ Len(frames) \in Nat /\ Len(frames) \in 1..Len(frames) /\ FrameOK(Top)
<1>1. /\ Tables /\ CastsRight /\ Ready /\ Regular /\ VariableOK /\ DelegateOK /\ FramesOK
      /\ static \in Classes
  BY DEF Inv, Begun, Started
<1>2. PICK S : frames \in Seq(S)
  BY <1>1 DEF FramesOK, AnySeq
<1>3. DOMAIN frames = 1..Len(frames) /\ Len(frames) \in Nat /\ Len(frames) \in 1..Len(frames)
  BY ONLY <1>2, frames # <<>>
<1> QED
  BY <1>1, <1>2, <1>3 DEF FramesOK, AnySeq, Top

LEMMA CallInsideKeeps == Inv /\ CallInside => Inv'
<1> SUFFICES ASSUME Inv, CallInside PROVE Inv'
  OBVIOUS
<1>1. outcome = "running" /\ frames # <<>> /\ Top.rest # <<>>
  BY DEF CallInside
<1>2. /\ Tables /\ CastsRight /\ Ready /\ Regular /\ VariableOK /\ DelegateOK /\ FramesOK
      /\ static \in Classes /\ AnySeq(frames) /\ DOMAIN frames = 1..Len(frames)
      /\ Len(frames) \in Nat /\ Len(frames) \in 1..Len(frames) /\ FrameOK(Top)
  BY <1>1, Inside
<1> DEFINE top   == Top
           call  == Head(top.rest)
           c     == IF call.target = "this" THEN top.function[1]
                    ELSE SuperClass(top.function[1])
           ref   == IF call.target = "this" THEN top.this ELSE SuperView(top.this)
           seen  == Receiver(ref, c, call.name)
           asked == IF call.target = "this" THEN Virtual(ref, call.name)
                    ELSE OfSuper(c, call.name)
           f     == PushMethod(seen, MethodIndex(c, call.name))
           new   == [function |-> f, this |-> seen, asked |-> asked,
                     type |-> NoClass, rest |-> Body(f).calls]
           less  == [top EXCEPT !.rest = Tail(@)]
           below == [frames EXCEPT ![Len(frames)] = less]
<1>3. Entered(seen, MethodIndex(c, call.name), NoClass, asked)
  <2>1. FrameOK(top) /\ top.rest # <<>>
    BY <1>1, <1>2
  <2> HIDE DEF top
  <2> QED
    BY <1>2, <2>1, InnerCall
<1>4. f # NoFunction /\ FrameOK(new)
  <2> HIDE DEF seen, asked, c, ref
  <2> QED
    BY <1>3 DEF Entered
<1>5. UNCHANGED source /\ UNCHANGED <<static, variable, delegate, answer>>
  BY DEF CallInside
<1>6. /\ outcome' = outcome
      /\ frames' = Append([frames EXCEPT ![Len(frames)].rest = Tail(@)], new)
  BY <1>4 DEF CallInside
<1>7. [frames EXCEPT ![Len(frames)].rest = Tail(@)] = below
  BY DEF Top
<1>8. FrameOK(less)
  <2> HIDE DEF call
  <2>1. FrameOK(top) /\ top.rest # <<>>
    BY <1>1, <1>2
  <2> HIDE DEF top
  <2> QED
    BY <2>1, FrameWithout
<1> HIDE DEF new, less
<1>9. frames' = Append(below, new)
  BY <1>6, <1>7
<1>10. /\ AnySeq(below) /\ Len(below) = Len(frames) /\ below[Len(frames)] = less
       /\ \A j \in 1..Len(frames) : j # Len(frames) => below[j] = frames[j]
  BY <1>2, ExceptIs
<1> HIDE DEF below
<1>11. /\ AnySeq(frames') /\ Len(frames') = Len(frames) + 1
       /\ \A i \in 1..Len(frames) : frames'[i] = below[i]
       /\ frames'[Len(frames) + 1] = new
  BY <1>9, <1>10, AppendIs
<1>12. DOMAIN frames' = 1..(Len(frames) + 1)
  BY <1>11, LenProperties DEF AnySeq
<1>13. \A i \in 1..(Len(frames) + 1) : FrameOK(frames'[i])
  <2> SUFFICES ASSUME NEW i \in 1..(Len(frames) + 1) PROVE FrameOK(frames'[i])
    OBVIOUS
  <2>1. CASE i = Len(frames) + 1
    BY <1>4, <1>11, <2>1
  <2>2. CASE i = Len(frames)
    BY <1>2, <1>8, <1>10, <1>11, <2>2
  <2>3. CASE i # Len(frames) /\ i # Len(frames) + 1
    <3>1. i \in 1..Len(frames)
      <4>1. Len(frames) \in Nat /\ i \in 1..(Len(frames) + 1)
        BY <1>2
      <4> QED
        BY ONLY <2>3, <4>1
    <3> QED
      BY <1>2, <1>10, <1>11, <2>3, <3>1 DEF FramesOK
  <2> QED
    BY <2>1, <2>2, <2>3
<1>14. FramesOK'
  <2>1. \A g : FrameOK(g)' = FrameOK(g)
    BY <1>5, SameMeaning
  <2> QED
    BY <1>11, <1>12, <1>13, <2>1 DEF FramesOK
<1>15. /\ Tables' /\ Ready' /\ Regular' /\ VariableOK' /\ DelegateOK' /\ CastsRight' /\ static' \in Classes'
  BY <1>2, <1>5, Kept
<1> QED
  BY <1>1, <1>6, <1>14, <1>15 DEF Inv, Begun, Started

(* A returned object is of a class that is not abstract, and can be        *)
(* converted to what the method declares and then to what the caller takes *)
(* it for.                                                                 *)
LEMMA ReturnFits ==
    ASSUME Ready, Regular, NEW x \in Classes, NEW name, Function(x, name) = <<x, name>>,
           Function(x, name) # NoFunction, NEW type, type # NoClass, Suits(x, name, type)
    PROVE  LET declared == TypeOf(x, name)
               returned == Body(<<x, name>>).returns
           IN  /\ type \in Classes /\ returned \in Classes /\ ~cs[returned].abstract
               /\ \E m : /\ Convert(Object(returned), returned, declared)
                               = Ref(returned, returned, m, InitialFields(returned))
                         /\ Fits(returned, m, type)
<1> DEFINE m == members[x][PositionIn(x, name)]
           declared == m.type
           returned == m.body.returns
<1>1. PositionIn(x, name) # 0 /\ m.kind = "method" /\ ~m.abstract
  BY FunctionDefines
<1>2. Body(<<x, name>>) = m.body /\ m \in Range(members[x]) /\ Sound(x, m) /\ PositionIn(x, name) \in DOMAIN members[x]
  BY <1>1, BodyIs
<1>3. declared = TypeOf(x, name)
  BY DEF TypeOf
<1>4. type \in Classes /\ IsA(declared, type)
  BY <1>3 DEF Suits
<1>5. declared # NoClass /\ declared \in Classes
  <2>1. declared # NoClass
    <3>1. NoClass \notin Classes
      BY ReadyIs DEF NoClass
    <3> QED
      BY <1>4, <3>1 DEF IsA
  <2> QED
    BY <1>2, <2>1, MemberTypes
<1> HIDE DEF m
<1>6. m.body # NoBody /\ m.body.returns # -1 /\ m.body.returns # NoClass
  BY <1>1, <1>2, <1>5 DEF Sound
<1>7. returned \in Classes
  <2>1. returned \in -1..Len(cs)
    BY <1>2 DEF Sound, DeclaredMembers, Code
  <2> QED
    BY <1>6, <2>1, ReadyIs DEF NoClass
<1>8. ~cs[returned].abstract
  BY <1>2, <1>7 DEF Sound
<1>9. ~AssignError(returned, declared)
  <2>1. ~BodyError(x, m)
    BY <1>2, ReadyIs DEF IndicesOf
  <2> QED
    BY <1>7, <2>1 DEF BodyError
<1>10. Fits(returned, 0, returned)
  <2>1. ~IsInterface(returned)
    BY <1>7, <1>8, ReadyIs, ExtendsIs
  <2> QED
    BY <1>7, <2>1, SelfAbove DEF Fits
<1> DEFINE fields == InitialFields(returned)
<1>11. Object(returned) = Ref(returned, returned, 0, fields)
  BY DEF Object, Ref
<1> HIDE DEF fields, declared, returned
<1>12. PICK i : /\ Convert(Ref(returned, returned, 0, fields), returned, declared)
                      = Ref(returned, returned, i, fields)
                /\ Fits(returned, i, declared)
  BY <1>5, <1>7, <1>9, <1>10, ConvertFits
<1>13. Fits(returned, i, type)
  BY <1>4, <1>5, <1>7, <1>12, FitsAbove
<1>14. returned = Body(<<x, name>>).returns
  BY <1>2 DEF returned
<1> QED
  BY <1>3, <1>4, <1>7, <1>8, <1>11, <1>12, <1>13, <1>14 DEF fields

LEMMA ReturnKeeps == Inv /\ Return => Inv'
<1> SUFFICES ASSUME Inv, Return PROVE Inv'
  OBVIOUS
<1>1. outcome = "running" /\ frames # <<>>
  BY DEF Return
<1>2. /\ Tables /\ CastsRight /\ Ready /\ Regular /\ VariableOK /\ DelegateOK /\ FramesOK
      /\ static \in Classes /\ AnySeq(frames) /\ DOMAIN frames = 1..Len(frames)
      /\ Len(frames) \in Nat /\ Len(frames) \in 1..Len(frames) /\ FrameOK(Top)
  BY <1>1, Inside
<1>3. frames' = SubSeq(frames, 1, Len(frames) - 1) /\ UNCHANGED source
      /\ UNCHANGED <<delegate, answer, outcome>>
  BY DEF Return
<1>4. /\ AnySeq(frames') /\ DOMAIN frames' = 1..(Len(frames) - 1)
      /\ \A i \in 1..(Len(frames) - 1) : frames'[i] = frames[i]
  <2>1. PICK S : frames \in Seq(S)
    BY <1>2 DEF AnySeq
  <2>2. /\ frames' \in Seq(S) /\ DOMAIN frames' = 1..(Len(frames) - 1)
        /\ \A i \in 1..(Len(frames) - 1) : frames'[i] = frames[i]
    BY ONLY <1>1, <1>3, <2>1
  <2> QED
    BY <2>2 DEF AnySeq
<1>5. /\ Classes' = Classes /\ cs' = cs
      /\ \A f : FrameOK(f)' = FrameOK(f)
      /\ \A v, n, t : Fits(v, n, t)' = Fits(v, n, t)
      /\ \A c : InitialFields(c)' = InitialFields(c)
  BY <1>3, SameMeaning, SameFunctions
<1>6. FramesOK'
  <2>1. \A i \in 1..(Len(frames) - 1) : i \in 1..Len(frames)
    BY <1>2
  <2> QED
    BY <1>2, <1>4, <1>5, <2>1 DEF FramesOK
<1>7. /\ Tables' /\ Ready' /\ Regular' /\ DelegateOK' /\ CastsRight'
  BY <1>2, <1>3, Kept
<1>8. VariableOK' /\ static' \in Classes'
  <2> DEFINE f == Top.function
             declared == members[f[1]][PositionIn(f[1], f[2])].type
             returned == Body(f).returns
  <2>1. CASE Len(frames) = 1 /\ Top.type # NoClass
    <3>1. variable' = Convert(Object(returned), returned, declared) /\ static' = Top.type
      BY <2>1 DEF Return
    <3>2. PICK x, name, c, v, n, fields : FrameOf(Top, x, name, c, v, n, fields)
      BY <1>2 DEF FrameOK
    <3> DEFINE type == Top.type
    <3>3. Suits(x, name, type)
      BY <3>2 DEF FrameOf
    <3>4. /\ f = <<x, name>> /\ x \in Classes /\ Function(x, name) = <<x, name>>
          /\ Function(x, name) # NoFunction
      <4> DEFINE top == Top
      <4>1. FrameOf(top, x, name, c, v, n, fields)
        BY <3>2
      <4> HIDE DEF top
      <4>2. top.function = <<x, name>> /\ x \in Classes /\ Function(x, name) = <<x, name>>
            /\ Function(x, name) # NoFunction
        BY <1>2, <4>1, FrameParts
      <4> QED
        BY <4>2 DEF top
    <3>5. declared = TypeOf(x, name) /\ returned = Body(<<x, name>>).returns
      BY <3>4 DEF TypeOf
    <3>6. type # NoClass
      BY <2>1
    <3> HIDE DEF f, declared, returned, type
    <3>7. /\ type \in Classes /\ returned \in Classes /\ ~cs[returned].abstract
          /\ \E m : /\ Convert(Object(returned), returned, declared)
                          = Ref(returned, returned, m, InitialFields(returned))
                    /\ Fits(returned, m, type)
      BY <1>2, <3>3, <3>4, <3>5, <3>6, ReturnFits
    <3>8. static' = type
      BY <3>1 DEF type
    <3> QED
      BY <1>5, <3>1, <3>7, <3>8 DEF VariableOK
  <2>2. CASE ~(Len(frames) = 1 /\ Top.type # NoClass)
    <3>1. UNCHANGED <<static, variable>>
      BY <2>2 DEF Return
    <3> QED
      BY <1>2, <1>3, <3>1, Kept
  <2> QED
    BY <2>1, <2>2
<1> QED
  BY <1>1, <1>3, <1>6, <1>7, <1>8 DEF Inv, Begun, Started

LEMMA StepKeeps == ASSUME OnlyRegular PROVE Inv /\ [Next]_vars => Inv'
<1> SUFFICES ASSUME Inv, [Next]_vars PROVE Inv'
  OBVIOUS
<1>1. CASE Prepare
  BY <1>1, PrepareKeeps
<1>2. CASE Start
  BY <1>2, StartKeeps
<1>3. CASE \E c \in Classes : New(c)
  BY <1>3, NewKeeps
<1>4. CASE \E c \in Classes : Assign(c)
  BY <1>4, AssignKeeps
<1>5. CASE \E c \in Classes : DownCast(c)
  BY <1>5, DownCastKeeps
<1>6. CASE \E c \in Classes : InstanceOf(c)
  BY <1>6, InstanceOfKeeps
<1>7. CASE \E name \in Names : Call(name)
  BY <1>7, CallKeeps
<1>8. CASE \E name \in Names : TakeDelegate(name)
  BY <1>8, TakeDelegateKeeps
<1>9. CASE InvokeDelegate
  BY <1>9, InvokeDelegateKeeps
<1>10. CASE CallInside
  BY <1>10, CallInsideKeeps
<1>11. CASE Return
  BY <1>11, ReturnKeeps
<1>12. CASE UNCHANGED vars
  <2>1. /\ UNCHANGED source
        /\ UNCHANGED <<static, variable, delegate, frames, answer, outcome>>
    BY <1>12 DEF vars
  <2>2. /\ Tables' /\ static' \in Classes' /\ (Ready => Ready') /\ (Regular => Regular') /\ CastsRight'
        /\ (VariableOK => VariableOK') /\ (DelegateOK => DelegateOK') /\ (FramesOK => FramesOK')
    BY <2>1, Kept DEF Inv
  <2> QED
    BY <2>1, <2>2 DEF Inv, Begun, Started
<1> QED
  BY <1>1, <1>2, <1>3, <1>4, <1>5, <1>6, <1>7, <1>8, <1>9, <1>10, <1>11, <1>12 DEF Next

(* In a run of regular programs the invariant always holds.                *)
THEOREM ClassInvariance == ASSUME OnlyRegular PROVE Spec => []Inv
<1>1. Init => Inv
  BY InvStart
<1>2. Inv /\ [Next]_vars => Inv'
  BY StepKeeps
<1> QED
  BY <1>1, <1>2, PTL DEF Spec

(* An object is of a class the program defines, and a running method is    *)
(* one of a super class of the class that the view is of.                  *)
LEMMA InvTypes == Inv => TypeOK
<1> SUFFICES ASSUME Inv PROVE TypeOK
  OBVIOUS
<1>1. variable # Null => variable.view[1] \in Range(Ancestry(variable.class))
  <2> SUFFICES ASSUME variable # Null PROVE variable.view[1] \in Range(Ancestry(variable.class))
    OBVIOUS
  <2>1. Ready /\ VariableOK
    BY DEF Inv, Started
  <2>2. PICK c, n : c \in Classes /\ variable = Ref(c, c, n, InitialFields(c))
    BY <2>1 DEF VariableOK
  <2> DEFINE fields == InitialFields(c)
  <2>3. variable = Ref(c, c, n, fields)
    BY <2>2
  <2> HIDE DEF fields
  <2>4. variable.class = c /\ variable.view[1] = c
    BY <2>3 DEF Ref
  <2> QED
    BY <2>1, <2>2, <2>4, SelfAbove
<1>2. ASSUME NEW i \in DOMAIN frames
      PROVE  /\ Function(frames[i].function[1], frames[i].function[2]) = frames[i].function
             /\ frames[i].this.view[1] \in Range(Ancestry(frames[i].this.class))
  <2>1. Ready /\ FramesOK
    BY <1>2, RangeOf DEF Inv, Started
  <2> DEFINE f == frames[i]
  <2>2. PICK x, name, c, v, n, fields : FrameOf(f, x, name, c, v, n, fields)
    BY <2>1 DEF FramesOK, FrameOK
  <2> HIDE DEF f
  <2>3. /\ f.function = <<x, name>> /\ f.this = Ref(c, v, n, fields)
        /\ v \in Range(Ancestry(c)) /\ Function(x, name) = <<x, name>>
    BY <2>1, <2>2, FrameParts
  <2>4. f.this.view[1] = v /\ f.this.class = c
    BY <2>3 DEF Ref
  <2> QED
    BY <2>3, <2>4 DEF f
<1> QED
  BY <1>1, <1>2 DEF Inv, TypeOK

(* The static type is a class, the view of the variable and of every       *)
(* running method is of a class of its object, and what runs is a method   *)
(* with a body: TypeOK for every set of programs.                          *)
THEOREM ClassTypes == ASSUME OnlyRegular PROVE Spec => []TypeOK
  BY ClassInvariance, InvTypes, PTL

(* A call runs the implementation of the class the object was created of   *)
(* or of its nearest super, a call on super that of the nearest super of   *)
(* the calling class, through every conversion, interface and delegate:    *)
(* Dispatch for every set of programs.                                     *)
THEOREM ClassDispatch == ASSUME OnlyRegular PROVE Spec => []Dispatch
<1>1. ASSUME Inv PROVE Dispatch
  <2> SUFFICES ASSUME NEW i \in DOMAIN frames
               PROVE  frames[i].function = Implementation(frames[i].asked.class, frames[i].asked.name)
    BY DEF Dispatch
  <2>1. Ready /\ FramesOK
    BY <1>1, RangeOf DEF Inv, Started
  <2> DEFINE f == frames[i]
  <2>2. PICK x, name, c, v, n, fields : FrameOf(f, x, name, c, v, n, fields)
    BY <2>1 DEF FramesOK, FrameOK
  <2> HIDE DEF f
  <2>3. f.function = <<x, name>>
    BY <2>1, <2>2, FrameParts
  <2>4. Implementation(f.asked.class, f.asked.name) = <<x, name>>
    BY <2>2 DEF FrameOf
  <2> QED
    BY <2>3, <2>4 DEF f
<1> QED
  BY <1>1, ClassInvariance, PTL

(* No call of a regular program goes to a missing function or past the end *)
(* of a table: NeverUndefined for every set of programs.                   *)
THEOREM ClassCallsDefined == ASSUME OnlyRegular PROVE Spec => []NeverUndefined
<1>1. Inv => NeverUndefined
  BY DEF Inv, NeverUndefined
<1> QED
  BY <1>1, ClassInvariance, PTL

(* The v_table of the variable is of the interface or of a sub class of    *)
(* the class that is its static type, and its first slots are named as     *)
(* those of that class: ViewFits for every set of programs.                *)
THEOREM ClassViews == ASSUME OnlyRegular PROVE Spec => []ViewFits
<1>1. ASSUME Inv PROVE ViewFits
  <2> SUFFICES ASSUME variable # Null PROVE ViewFits
    BY DEF ViewFits
  <2>1. Ready /\ Regular /\ VariableOK /\ static \in Classes
    BY <1>1 DEF Inv, Started
  <2>2. PICK c, n : c \in Classes /\ variable = Ref(c, c, n, InitialFields(c)) /\ Fits(c, n, static)
    BY <2>1 DEF VariableOK
  <2> DEFINE fields == InitialFields(c)
  <2>3. variable = Ref(c, c, n, fields)
    BY <2>2
  <2> HIDE DEF fields
  <2>4. variable.view = <<c, n>> /\ variable.view[1] = c /\ variable.view[2] = n
    BY <2>3 DEF Ref
  <2>5. CASE IsInterface(static)
    BY <2>2, <2>4, <2>5 DEF ViewFits, Fits
  <2>6. CASE ~IsInterface(static)
    <3>1. n = 0 /\ static \in Range(Ancestry(c))
      BY <2>2, <2>6 DEF Fits
    <3>2. StartsAs(c, static) /\ Slotted(static)
      BY <2>1, <2>2, <3>1, SlotsKept, SlotsRight
    <3>3. DOMAIN class[static] = 1..Len(class[static])
      BY <3>2, LenProperties DEF Slotted
    <3>4. \A j \in DOMAIN class[static] : class[c][j].name = class[static][j].name
      BY <3>2, <3>3 DEF StartsAs
    <3> QED
      BY <2>4, <2>6, <3>1, <3>4 DEF ViewFits
  <2> QED
    BY <2>5, <2>6
<1> QED
  BY <1>1, ClassInvariance, PTL

(* The index the compiler gave to a field is its place in an object of any *)
(* sub class, and creation put the initializer there: FieldsAgree for      *)
(* every set of programs.                                                  *)
THEOREM ClassFields == ASSUME OnlyRegular PROVE Spec => []FieldsAgree
<1>1. ASSUME Inv PROVE FieldsAgree
  <2> SUFFICES ASSUME variable # Null, ~IsInterface(static),
                      NEW d \in Range(Ancestry(static)), NEW p \in DOMAIN members[d],
                      members[d][p].kind = "field"
               PROVE  LET k == index[d][p] + 1
                          field == <<d, members[d][p].name>>
                      IN  /\ k \in DOMAIN layout[variable.class]
                          /\ layout[variable.class][k] = field
                          /\ variable.fields[k] = field
    BY DEF FieldsAgree
  <2>1. Ready /\ VariableOK
    BY <1>1 DEF Inv, Started
  <2>2. PICK c, n : c \in Classes /\ variable = Ref(c, c, n, InitialFields(c)) /\ Fits(c, n, static)
    BY <2>1 DEF VariableOK
  <2> DEFINE fields == InitialFields(c)
  <2>3. variable = Ref(c, c, n, fields)
    BY <2>2
  <2>4. static \in Range(Ancestry(c))
    BY <2>2 DEF Fits
  <2>5. d \in Range(Ancestry(c))
    BY <2>1, <2>2, <2>4, Hierarchy
  <2>6. p \in OfKind(d, "field")
    BY DEF OfKind
  <2>7. LET k == index[d][p] + 1
            field == <<d, members[d][p].name>>
        IN  k \in DOMAIN layout[c] /\ layout[c][k] = field /\ fields[k] = field
    BY <2>1, <2>2, <2>5, <2>6, InitialFieldsRight
  <2> HIDE DEF fields
  <2>8. variable.class = c /\ variable.fields = fields
    BY <2>3 DEF Ref
  <2> QED
    BY <2>7, <2>8
<1> QED
  BY <1>1, ClassInvariance, PTL

(* instanceof and casts answer by the class of the object and not by the   *)
(* static type or the view: CastsRight for every set of programs.          *)
THEOREM ClassCasts == ASSUME OnlyRegular PROVE Spec => []CastsRight
<1>1. Inv => CastsRight
  BY DEF Inv
<1> QED
  BY <1>1, ClassInvariance, PTL

=============================================================================
