------------------------------ MODULE HeapSpec ------------------------------
(***************************************************************************)
(* What the heap promises its users: objects that can still be reached     *)
(* from what the program uses are there, whatever the collector does.  The *)
(* program moves references about, gets new objects, and the collector may *)
(* take away, one at a time, objects that nothing in use leads to.         *)
(***************************************************************************)
CONSTANTS Obj, Null, Field

VARIABLES
    live,   \* the objects that exist
    field,  \* the references each object holds
    inUse   \* the objects the program can name directly

Children(o) == {field[o][f] : f \in Field} \ {Null}

(* The objects in use and all that their references lead to. *)
Reach ==
    {o \in Obj : \A S \in SUBSET Obj :
        (inUse \subseteq S /\ \A p \in S : Children(p) \subseteq S) => o \in S}

Init == live = {} /\ inUse = {} /\ field = [o \in Obj |-> [f \in Field |-> Null]]

(* The program copies, stores and forgets references it can get at. *)
Mutate ==
    /\ UNCHANGED live
    /\ inUse' \subseteq Reach
    /\ \A o \in Obj : field'[o] # field[o] =>
        o \in Reach /\ Children(o)' \subseteq Reach

(* A new object appears; only it becomes nameable, from wherever. *)
Allocate(o) ==
    /\ o \notin live
    /\ live' = live \cup {o}
    /\ inUse' \subseteq Reach \cup {o}
    /\ \A p \in Obj : field'[p] # field[p] =>
        p \in Reach \cup {o} /\ Children(p)' \subseteq Reach \cup {o}

Reclaim(o) ==
    /\ o \in live \ Reach
    /\ live' = live \ {o}
    /\ \A p \in live' : field'[p] = field[p]
    /\ UNCHANGED inUse

Next == Mutate \/ \E o \in Obj : Allocate(o) \/ Reclaim(o)

Spec == Init /\ [][Next]_<<live, field, inUse>>
=============================================================================
