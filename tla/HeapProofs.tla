----------------------------- MODULE HeapProofs -----------------------------
(***************************************************************************)
(* Proofs about Heap: its type invariant, the inductive invariant of the   *)
(* collector (tri-colour marking, a sweep that spares what is marked), and *)
(* the absence of dangling references, for every heap size and program     *)
(* that does not use substr (see README, findings).                        *)
(***************************************************************************)
EXTENDS Heap, SequenceTheorems, TLAPS

-----------------------------------------------------------------------------
(* A sequence cut back to its first n elements, and one pushed over it. *)

(* The first n elements of a sequence. *)
LEMMA CutSeq ==
    ASSUME NEW S, NEW s \in Seq(S), NEW n \in 0..Len(s)
    PROVE  /\ SubSeq(s, 1, n) \in Seq(S)
           /\ Len(SubSeq(s, 1, n)) = n
           /\ \A i \in 1..n : SubSeq(s, 1, n)[i] = s[i]
<1>1. Len(s) \in Nat /\ \A i \in 1..Len(s) : s[i] \in S
    BY LenProperties, ElementOfSeq
<1>2. n \in Int /\ 1 \in Int /\ \A i \in 1..n : s[i] \in S
    BY <1>1
<1>3. /\ SubSeq(s, 1, n) \in Seq(S)
      /\ Len(SubSeq(s, 1, n)) = IF 1 <= n THEN n - 1 + 1 ELSE 0
      /\ \A i \in 1 .. n - 1 + 1 : SubSeq(s, 1, n)[i] = s[1 + i - 1]
    BY <1>2, SubSeqProperties
<1>4. n - 1 + 1 = n /\ (IF 1 <= n THEN n - 1 + 1 ELSE 0) = n
    BY <1>1
<1>5. \A i \in 1..n : 1 + i - 1 = i
    BY <1>1
<1> QED BY <1>3, <1>4, <1>5

(* A sequence with an element behind its first n. *)
LEMMA PushSeq ==
    ASSUME NEW S, NEW s \in Seq(S), NEW x \in S
    PROVE  /\ Append(s, x) \in Seq(S)
           /\ Len(Append(s, x)) = Len(s) + 1
           /\ \A i \in 1..Len(s) : Append(s, x)[i] = s[i]
           /\ Append(s, x)[Len(s) + 1] = x
BY AppendProperties, LenProperties

(* A step that cuts the stack back to n slots, at least those of the       *)
(* frames in progress, and may push a slot over them.                      *)
Cut(n)     == n \in 0..Len(stack) /\ stack' = SubSeq(stack, 1, n)
Over(n, x) == /\ n \in 0..Len(stack) /\ x \in Slot
              /\ stack' = Append(SubSeq(stack, 1, n), x)

(* The stack after its pointer is lowered to n. *)
LEMMA CutStack ==
    ASSUME stack \in Seq(Slot), NEW n, Cut(n)
    PROVE  /\ stack' \in Seq(Slot)
           /\ Len(stack') = n
           /\ \A i \in 1..n : stack'[i] = stack[i]
BY CutSeq DEF Cut

(* The stack after a slot is written over its first n slots. *)
LEMMA OverStack ==
    ASSUME stack \in Seq(Slot), NEW n, NEW x, Over(n, x)
    PROVE  /\ stack' \in Seq(Slot)
           /\ Len(stack') = n + 1
           /\ \A i \in 1..n : stack'[i] = stack[i]
           /\ stack'[n + 1] = x
<1>1. /\ SubSeq(stack, 1, n) \in Seq(Slot) /\ Len(SubSeq(stack, 1, n)) = n
      /\ \A i \in 1..n : SubSeq(stack, 1, n)[i] = stack[i]
    BY CutSeq DEF Over
<1> QED BY <1>1, PushSeq DEF Over

-----------------------------------------------------------------------------
(* Types of the parts, for the steps below. *)

(* The slots of the stack have their type. *)
LEMMA StackType ==
    ASSUME stack \in Seq(Slot)
    PROVE  /\ Len(stack) \in Nat
           /\ \A i \in 1..Len(stack) : /\ stack[i] \in Slot
                                       /\ stack[i].ref \in Ref
                                       /\ stack[i].flag \in BOOLEAN
<1>1. Len(stack) \in Nat /\ \A i \in 1..Len(stack) : stack[i] \in Slot
    BY LenProperties, ElementOfSeq
<1> QED BY <1>1 DEF Slot

(* The records of the frames have their type. *)
LEMMA FrameType ==
    ASSUME frame \in Seq(Frame)
    PROVE  /\ Len(frame) \in Nat
           /\ \A i \in 1..Len(frame) :
                /\ frame[i] \in Frame
                /\ frame[i].sp \in Nat /\ frame[i].argc \in Nat
                /\ frame[i].tag \in {"native", "init"}
                /\ frame[i].args \subseteq Obj /\ frame[i].refs \subseteq Obj
                /\ frame[i].local \subseteq Obj
           /\ frame # <<>> => Len(frame) \in 1..Len(frame)
<1>1. Len(frame) \in Nat /\ \A i \in 1..Len(frame) : frame[i] \in Frame
    BY LenProperties, ElementOfSeq
<1>2. frame # <<>> => Len(frame) \in Nat \ {0}
    BY EmptySeq
<1> QED BY <1>1, <1>2 DEF Frame

(* The floor of the running code is a stack pointer. *)
LEMMA FloorType ==
    ASSUME frame \in Seq(Frame)
    PROVE  Floor \in Nat
BY FrameType DEF Floor

(* No frame reaches above the top one. *)
LEMMA UnderFloor ==
    ASSUME frame \in Seq(Frame), FramesOnStack, NEW i \in 1..Len(frame)
    PROVE  /\ frame # <<>>
           /\ frame[i].sp \in 0..Floor
           /\ frame[i].sp - frame[i].argc \in 0..Floor
<1>1. Len(frame) \in Nat /\ frame[i].sp \in Nat /\ frame[i].argc \in Nat
    BY FrameType
<1>2. frame # <<>>
    BY <1>1, EmptySeq
<1>3. /\ Len(frame) \in 1..Len(frame)
      /\ frame[Len(frame)].sp \in Nat /\ frame[Len(frame)].argc \in Nat
    BY <1>2, FrameType
<1>4. Floor = frame[Len(frame)].sp
    BY <1>2 DEF Floor
<1>5. frame[i].sp <= Floor
    <2>1. CASE i = Len(frame)
        BY <2>1, <1>4, <1>1
    <2>2. CASE i # Len(frame)
        <3>1. i \in 1..Len(frame) - 1
            BY <2>2, <1>1
        <3>2. frame[i].sp <= frame[Len(frame)].sp - frame[Len(frame)].argc
            BY <3>1, <1>3 DEF FramesOnStack, FrameOnStack
        <3> QED BY <3>2, <1>1, <1>3, <1>4
    <2> QED BY <2>1, <2>2
<1>6. frame[i].argc <= frame[i].sp
    BY DEF FramesOnStack, FrameOnStack
<1> QED BY <1>1, <1>2, <1>4, <1>5, <1>6, <1>3

(* A step that leaves the frames and what lies under them alone. *)
LEMMA KeepFrames ==
    ASSUME frame \in Seq(Frame), stack \in Seq(Slot), FramesOnStack,
           frame' = frame, stack' \in Seq(Slot), Floor <= Len(stack'),
           \A i \in 1..Floor : stack'[i] = stack[i],
           InNative => Len(stack') = Len(stack)
    PROVE  FramesOnStack'
<1>1. Floor' = Floor /\ InNative' = InNative
    BY DEF Floor, InNative
<1>2. ASSUME NEW i \in 1..Len(frame)
      PROVE  frame[i].args \subseteq {stack'[j].ref : j \in
                    frame[i].sp - frame[i].argc + 1..frame[i].sp}
    <2>1. frame[i].sp - frame[i].argc + 1..frame[i].sp \subseteq 1..Floor
        BY UnderFloor, FloorType, FrameType
    <2>2. frame[i].args \subseteq {stack[j].ref : j \in
                    frame[i].sp - frame[i].argc + 1..frame[i].sp}
        BY DEF FramesOnStack, FrameOnStack
    <2> QED BY <2>1, <2>2
<1> QED BY <1>1, <1>2 DEF FramesOnStack, FrameOnStack

(* A step that enters a frame whose operands are on top of the stack. *)
LEMMA PushFrame ==
    ASSUME frame \in Seq(Frame), FramesOnStack,
           NEW fr \in Frame, frame' = Append(frame, fr),
           stack' \in Seq(Slot), Len(stack') = fr.sp,
           Floor <= fr.sp - fr.argc,
           \A i \in 1..Floor : stack'[i] = stack[i],
           fr.args \subseteq {stack'[j].ref : j \in fr.sp - fr.argc + 1..fr.sp},
           fr.tag = "init" => fr.argc = 1 /\ fr.args # {},
           InNative => fr.tag = "init" /\ Floor = fr.sp - fr.argc
    PROVE  /\ frame' \in Seq(Frame) /\ FramesOnStack'
           /\ InContext' = InContext \cup fr.refs
<1> DEFINE n == Len(frame)
<1>0. \A i \in 1..n : FrameOnStack(i)
    BY DEF FramesOnStack
<1>1. /\ n \in Nat /\ frame' \in Seq(Frame) /\ Len(frame') = n + 1
      /\ \A i \in 1..n : frame'[i] = frame[i]
      /\ frame'[n + 1] = fr
    BY PushSeq, FrameType
<1>2. frame' # <<>> /\ fr.sp \in Nat /\ fr.argc \in Nat
    BY <1>1, EmptySeq DEF Frame
<1>3. Floor' = fr.sp /\ InNative' = (fr.tag = "native")
    BY <1>1, <1>2 DEF Floor, InNative
<1>4. ASSUME NEW i \in 1..n
      PROVE  /\ frame'[i] = frame[i] /\ frame[i].sp <= Floor
             /\ frame[i].args \subseteq {stack'[j].ref : j \in
                    frame[i].sp - frame[i].argc + 1..frame[i].sp}
    <2>1. frame[i].sp - frame[i].argc + 1..frame[i].sp \subseteq 1..Floor
        BY UnderFloor, FloorType, FrameType
    <2>2. frame[i].args \subseteq {stack[j].ref : j \in
                    frame[i].sp - frame[i].argc + 1..frame[i].sp}
        BY <1>0 DEF FrameOnStack
    <2>3. frame[i].args \subseteq {stack'[j].ref : j \in
                    frame[i].sp - frame[i].argc + 1..frame[i].sp}
        BY <2>1, <2>2
    <2>4. frame[i].sp <= Floor
        BY UnderFloor, FloorType
    <2> QED BY <2>3, <2>4, <1>1
<1>5. ASSUME NEW i \in 1..Len(frame')
      PROVE  FrameOnStack(i)'
    <2>1. CASE i \in 1..n
        <3>1. \A j \in 1..i : frame'[j] = frame[j] /\ j \in 1..n
            BY <1>1, <2>1
        <3>2. i \in 1..i /\ \A j \in 1..i-1 : j \in 1..i
            BY <1>1
        <3>3. i > 1 => i-1 \in 1..i
            BY <1>1
        <3>4. FrameOnStack(i)
            BY <2>1, <1>0
        <3>5. frame'[i].args \subseteq {stack'[j].ref : j \in
                    frame'[i].sp - frame'[i].argc + 1..frame'[i].sp}
            BY <2>1, <1>4
        <3> QED BY <3>1, <3>2, <3>3, <3>4, <3>5 DEF FrameOnStack
    <2>2. CASE i = n + 1
        <3>1. \A j \in 1..i-1 : frame'[j].sp <= fr.sp - fr.argc
            BY <2>2, <1>1, <1>2, <1>4, FrameType, FloorType
        <3>2. fr.argc <= fr.sp
            BY <1>2, FloorType
        <3>3. i > 1 /\ frame'[i-1].tag = "native" =>
                    fr.tag = "init" /\ frame'[i-1].sp = fr.sp - fr.argc
            <4>1. SUFFICES ASSUME n \in 1..n, frame[n].tag = "native"
                           PROVE  fr.tag = "init" /\ frame[n].sp = fr.sp - fr.argc
                BY <2>2, <1>1
            <4>2. frame # <<>>
                BY <4>1, <1>1, EmptySeq
            <4> QED BY <4>1, <4>2 DEF InNative, Floor
        <3>4. frame'[i] = fr
            BY <2>2, <1>1
        <3>5. fr.args \subseteq {stack'[j].ref : j \in fr.sp - fr.argc + 1..fr.sp}
            OBVIOUS
        <3>6. fr.tag = "init" => fr.argc = 1 /\ fr.args # {}
            OBVIOUS
        <3> QED BY <3>1, <3>2, <3>3, <3>4, <3>5, <3>6 DEF FrameOnStack
    <2> QED BY <2>1, <2>2, <1>1
<1>6. FramesOnStack'
    BY <1>3, <1>5, <1>2 DEF FramesOnStack, FrameOnStack
<1>7. InContext' = InContext \cup fr.refs
    <2>1. InContext' = UNION {frame'[i].refs : i \in 1..n + 1}
        BY <1>1 DEF InContext
    <2>2. 1..n + 1 = 1..n \cup {n + 1}
        BY <1>1
    <2> QED BY <2>1, <2>2, <1>1 DEF InContext
<1> QED BY <1>1, <1>6, <1>7

(* A step that leaves the top frame, whose operands go from the stack, and *)
(* may change the context of the frame below.                              *)
LEMMA PopFrame ==
    ASSUME frame \in Seq(Frame), FramesOnStack, frame # <<>>,
           NEW n \in Nat, n = Len(frame) - 1,
           frame' \in Seq(Frame), Len(frame') = n,
           \A i \in 1..n : /\ frame'[i].sp = frame[i].sp
                           /\ frame'[i].argc = frame[i].argc
                           /\ frame'[i].tag = frame[i].tag
                           /\ frame'[i].args = frame[i].args,
           stack' \in Seq(Slot),
           NEW base \in Nat, base = frame[n + 1].sp - frame[n + 1].argc,
           base <= Len(stack'),
           \A i \in 1..base : stack'[i] = stack[i],
           InNative' => Len(stack') = base
    PROVE  FramesOnStack'
<1>1. n + 1 \in 1..Len(frame) /\ Len(frame) = n + 1
      /\ \A i \in 1..n : i \in 1..Len(frame)
    BY FrameType
<1>0. \A i \in 1..n + 1 : FrameOnStack(i)
    BY <1>1 DEF FramesOnStack
<1>2. \A j \in 1..n : frame[j].sp <= base
    BY <1>0, <1>1 DEF FrameOnStack
<1>3. Floor' <= Len(stack') /\ (InNative' => Len(stack') = Floor')
    <2>1. CASE n = 0
        <3>1. frame' = <<>>
            BY <2>1, EmptySeq
        <3>2. Floor' = 0
            BY <3>1 DEF Floor
        <3>3. ~InNative'
            BY <3>1 DEF InNative
        <3> QED BY <3>2, <3>3
    <2>2. CASE n # 0
        <3>1. n \in 1..n /\ frame' # <<>>
            BY <2>2, EmptySeq
        <3>2. Floor' = frame[n].sp
            BY <3>1 DEF Floor
        <3>3. Floor' <= base
            BY <3>1, <3>2, <1>2
        <3>4. InNative' => frame[n].tag = "native"
            BY <3>1 DEF InNative
        <3>5. n + 1 > 1 /\ n + 1 - 1 = n
            BY <3>1
        <3>6. InNative' => frame[n].sp = base
            BY <3>4, <3>5, <1>1, <1>0 DEF FrameOnStack
        <3>7. frame[n].sp \in Nat /\ Len(stack') \in Nat
            BY <3>1, <1>1, FrameType, LenProperties
        <3> QED BY <3>2, <3>3, <3>6, <3>7
    <2> QED BY <2>1, <2>2
<1>4. ASSUME NEW i \in 1..n
      PROVE  frame[i].args \subseteq {stack'[j].ref : j \in
                    frame[i].sp - frame[i].argc + 1..frame[i].sp}
    <2>1. /\ frame[i].sp \in Nat /\ frame[i].argc \in Nat
          /\ frame[i].argc <= frame[i].sp /\ frame[i].sp <= base
        BY <1>0, <1>1, <1>2, FrameType DEF FrameOnStack
    <2>2. frame[i].sp - frame[i].argc + 1..frame[i].sp \subseteq 1..base
        BY <2>1
    <2>3. frame[i].args \subseteq {stack[j].ref : j \in
                    frame[i].sp - frame[i].argc + 1..frame[i].sp}
        BY <1>0, <1>1 DEF FrameOnStack
    <2> QED BY <2>2, <2>3
<1>5. ASSUME NEW i \in 1..Len(frame')
      PROVE  FrameOnStack(i)'
    <2>1. i \in 1..n /\ FrameOnStack(i)
        BY <1>0, <1>1
    <2>2. \A j \in 1..i : j \in 1..n /\ frame'[j].sp = frame[j].sp
                                  /\ frame'[j].tag = frame[j].tag
        BY <2>1
    <2>3. \A j \in 1..i-1 : j \in 1..i
        OBVIOUS
    <2>4. i > 1 => i-1 \in 1..i
        BY <2>1
    <2>5. frame'[i].args \subseteq {stack'[j].ref : j \in
                    frame'[i].sp - frame'[i].argc + 1..frame'[i].sp}
        BY <1>4, <2>1
    <2> QED BY <2>1, <2>2, <2>3, <2>4, <2>5 DEF FrameOnStack
<1> QED BY <1>3, <1>5 DEF FramesOnStack, FrameOnStack

-----------------------------------------------------------------------------
(* What a step does to the roots on the stack. *)

(* Lowering the stack pointer adds no root. *)
LEMMA CutRoots ==
    ASSUME stack \in Seq(Slot), SlotsFlagged, NEW n, Cut(n)
    PROVE  SlotsFlagged' /\ Flagged' \subseteq Flagged
<1>1. /\ Len(stack') = n /\ n \in 0..Len(stack) /\ Len(stack) \in Nat
      /\ \A i \in 1..n : stack'[i] = stack[i] /\ i \in 1..Len(stack)
    BY CutStack, StackType DEF Cut
<1> QED BY <1>1 DEF SlotsFlagged, Flagged

(* Writing a flagged slot adds no root but its reference. *)
LEMMA OverRoots ==
    ASSUME stack \in Seq(Slot), SlotsFlagged, NEW n, NEW x, Over(n, x),
           x.flag \/ x.ref = Null
    PROVE  SlotsFlagged' /\ Flagged' \subseteq Flagged \cup {x.ref}
<1>1. /\ Len(stack') = n + 1 /\ n \in 0..Len(stack) /\ Len(stack) \in Nat
      /\ \A i \in 1..n : stack'[i] = stack[i] /\ i \in 1..Len(stack)
      /\ stack'[n + 1] = x
    BY OverStack, StackType DEF Over
<1>2. \A i \in 1..n + 1 : i \in 1..n \/ i = n + 1
    BY <1>1
<1> QED BY <1>1, <1>2 DEF SlotsFlagged, Flagged

(* Every reference on the stack is a root, hence live. *)
LEMMA OperandLive ==
    ASSUME IInv, NEW i \in 1..Len(stack)
    PROVE  stack[i].ref \in (live \cap Roots) \cup {Null}
<1>1. stack[i].flag => stack[i].ref \in Flagged
    BY DEF Flagged
<1> QED BY <1>1 DEF IInv, SlotsFlagged, RootsLive, Roots

(* An instruction that moves references between the stack, the statics,    *)
(* the fields and the current exception keeps the invariant if what it     *)
(* moves is live.                                                          *)
LEMMA StackAction ==
    ASSUME IInv, phase = "run", ~InNative,
           UNCHANGED <<live, kind, marked, heapSize, threshold, frame, phase,
                       request, sweepVars>>,
           field' \in [Obj -> [Field -> Ref]],
           \A o \in live : Children(o)' \subseteq live,
           static' \in [Static -> Ref],
           \A v \in Static : static'[v] \in live \cup {Null},
           exception' \in live \cup {Null},
           NEW n \in Floor..Len(stack),
           Cut(n) \/ \E x \in Slot : /\ x.flag \/ x.ref = Null
                                    /\ x.ref \in live \cup {Null}
                                    /\ Over(n, x)
    PROVE  IInv'
<1>1. /\ stack \in Seq(Slot) /\ frame \in Seq(Frame) /\ live \subseteq Obj
      /\ FramesOnStack /\ SlotsFlagged /\ RootsLive
    BY DEF IInv, TypeOK
<1>2. Floor \in Nat /\ Len(stack) \in Nat
    BY <1>1, FloorType, StackType
<1>3. /\ stack' \in Seq(Slot) /\ Floor <= Len(stack')
      /\ \A i \in 1..Floor : stack'[i] = stack[i]
      /\ SlotsFlagged' /\ Flagged' \subseteq live \cup {Null}
    <2>1. Flagged \subseteq live \cup {Null}
        BY <1>1 DEF RootsLive, Roots
    <2>2. CASE Cut(n)
        BY <2>1, <2>2, <1>1, <1>2, CutStack, CutRoots
    <2>3. ASSUME NEW x \in Slot, x.flag \/ x.ref = Null,
                 x.ref \in live \cup {Null}, Over(n, x)
          PROVE  <1>3
        BY <2>1, <2>3, <1>1, <1>2, OverStack, OverRoots
    <2> QED BY <2>2, <2>3
<1>4. FramesOnStack'
    BY <1>1, <1>3, KeepFrames
<1>5. Roots' \subseteq live'
    <2>1. InContext' = InContext /\ InContext \subseteq live \cup {Null}
        BY <1>1 DEF InContext, RootsLive, Roots
    <2> QED BY <2>1, <1>3 DEF Roots
<1>6. TypeOK'
    BY <1>1, <1>3 DEF IInv, TypeOK, Ref, sweepVars
<1> QED BY <1>3, <1>4, <1>5, <1>6
        DEF IInv, NoLocals, RequestOK, RootsLive, FieldsLive, Marking,
            Sweeping, sweepVars

-----------------------------------------------------------------------------
(* The instructions that move references. *)

(* What the steps below use of the invariant. *)
LEMMA InvFacts ==
    ASSUME IInv
    PROVE  /\ stack \in Seq(Slot) /\ frame \in Seq(Frame)
           /\ Len(stack) \in Nat /\ Floor \in Nat /\ Floor <= Len(stack)
           /\ live \subseteq Obj /\ static \in [Static -> Ref]
           /\ exception \in live \cup {Null}
           /\ \A v \in Static : static[v] \in live \cup {Null}
           /\ field \in [Obj -> [Field -> Ref]]
           /\ \A i \in 1..Len(frame) : frame[i].refs \subseteq live
           /\ \A i \in 1..Len(frame) : frame[i].args \subseteq live \cap Roots
<1>1. /\ stack \in Seq(Slot) /\ frame \in Seq(Frame) /\ live \subseteq Obj
      /\ static \in [Static -> Ref] /\ field \in [Obj -> [Field -> Ref]]
      /\ FramesOnStack
    BY DEF IInv, TypeOK
<1>2. Len(stack) \in Nat /\ Floor \in Nat /\ Floor <= Len(stack)
    BY <1>1, StackType, FloorType DEF FramesOnStack
<1>3. /\ exception \in live \cup {Null}
      /\ \A v \in Static : static[v] \in live \cup {Null}
    BY DEF IInv, RootsLive, Roots
<1>4. ASSUME NEW i \in 1..Len(frame)
      PROVE  frame[i].refs \subseteq live /\ frame[i].args \subseteq live \cap Roots
    <2>1. frame[i].refs \subseteq Obj /\ frame[i].args \subseteq Obj
        BY <1>1, FrameType
    <2>2. frame[i].refs \subseteq InContext
        BY DEF InContext
    <2>3. frame[i].refs \subseteq live
        BY <2>1, <2>2, NullAssumption DEF IInv, RootsLive, Roots
    <2>4. frame[i].sp - frame[i].argc + 1..frame[i].sp \subseteq 1..Len(stack)
        <3>1. /\ frame[i].sp \in 0..Floor
              /\ frame[i].sp - frame[i].argc \in 0..Floor
            BY <1>1, UnderFloor
        <3>2. frame[i].sp \in Nat /\ frame[i].argc \in Nat
            BY <1>1, FrameType
        <3> QED BY <3>1, <3>2, <1>2
    <2>5. frame[i].args \subseteq {stack[j].ref : j \in
                    frame[i].sp - frame[i].argc + 1..frame[i].sp}
        BY DEF IInv, FramesOnStack, FrameOnStack
    <2>6. \A j \in 1..Len(stack) : stack[j].ref \in (live \cap Roots) \cup {Null}
        BY OperandLive
    <2>7. frame[i].args \subseteq (live \cap Roots) \cup {Null}
        BY <2>4, <2>5, <2>6
    <2> QED BY <2>1, <2>3, <2>7, NullAssumption
<1> QED BY <1>1, <1>2, <1>3, <1>4

(* STO_WRITE writes a slot with its pointer flag on. *)
LEMMA ObjSlotType ==
    ASSUME NEW r \in Ref
    PROVE  ObjSlot(r) \in Slot /\ ObjSlot(r).flag /\ ObjSlot(r).ref = r
BY DEF ObjSlot, Slot

(* Pushing a root keeps the invariant. *)
LEMMA PushInv ==
    ASSUME IInv, NEW r \in live \cup {Null}, Push(r)
    PROVE  IInv'
<1>1. r \in Ref
    BY InvFacts DEF Ref
<1>2. SubSeq(stack, 1, Len(stack)) = stack
    BY InvFacts, SubSeqFull
<1>3. Over(Len(stack), ObjSlot(r))
    BY <1>1, <1>2, ObjSlotType, InvFacts DEF Over, Push
<1>4. \A o \in live : Children(o)' \subseteq live
    BY DEF Push, Running, IInv, FieldsLive, Children, heapVars
<1> QED BY <1>1, <1>3, <1>4, ObjSlotType, InvFacts, StackAction
        DEF Push, Running, heapVars

(* The operand on top of the stack is live. *)
LEMMA TopLive ==
    ASSUME IInv, Len(stack) > Floor
    PROVE  /\ Len(stack) \in 1..Len(stack)
           /\ Top.ref \in (live \cap Roots) \cup {Null}
           /\ Top.ref \in Ref
<1>1. Len(stack) \in 1..Len(stack)
    BY InvFacts
<1> QED BY <1>1, OperandLive, InvFacts DEF Top, Ref

(* Popping n operands lowers the stack pointer by n. *)
LEMMA PopCuts ==
    ASSUME IInv, NEW n \in Nat, n <= Len(stack), stack' = PopN(n)
    PROVE  Cut(Len(stack) - n)
BY InvFacts DEF Cut, PopN

(* DVM_POP keeps the invariant. *)
LEMMA PopInv ==
    ASSUME IInv, Pop
    PROVE  IInv'
<1>1. Cut(Len(stack) - 1) /\ Len(stack) - 1 \in Floor..Len(stack)
    BY PopCuts, InvFacts DEF Pop
<1>2. \A o \in live : Children(o)' \subseteq live
    BY DEF Pop, Running, IInv, FieldsLive, Children, heapVars
<1> QED BY <1>1, <1>2, InvFacts, StackAction DEF Pop, Running, heapVars

(* DVM_DUPLICATE and DVM_DUPLICATE_OFFSET keep the invariant. *)
LEMMA DuplicateInv ==
    ASSUME IInv, NEW i, Duplicate(i)
    PROVE  IInv'
<1>1. /\ i \in 1..Len(stack) /\ stack[i] \in Slot
      /\ stack[i].flag \/ stack[i].ref = Null
      /\ stack[i].ref \in live \cup {Null}
    BY InvFacts, StackType, OperandLive DEF Duplicate, IInv, SlotsFlagged
<1>2. SubSeq(stack, 1, Len(stack)) = stack
    BY InvFacts, SubSeqFull
<1>3. Over(Len(stack), stack[i])
    BY <1>1, <1>2, InvFacts DEF Over, Duplicate
<1>4. \A o \in live : Children(o)' \subseteq live
    BY DEF Duplicate, Running, IInv, FieldsLive, Children, heapVars
<1> QED BY <1>1, <1>3, <1>4, InvFacts, StackAction
        DEF Duplicate, Running, heapVars

(* DVM_POP_STATIC_OBJECT keeps the invariant. *)
LEMMA PopStaticInv ==
    ASSUME IInv, NEW v \in Static, PopStatic(v)
    PROVE  IInv'
<1>1. Cut(Len(stack) - 1) /\ Len(stack) - 1 \in Floor..Len(stack)
    BY PopCuts, InvFacts DEF PopStatic
<1>2. \A o \in live : Children(o)' \subseteq live
    BY DEF PopStatic, Running, IInv, FieldsLive, Children, heapVars
<1>3. Top.ref \in live \cup {Null} /\ Top.ref \in Ref
    BY TopLive DEF PopStatic
<1>4. /\ static' \in [Static -> Ref]
      /\ \A w \in Static : static'[w] \in live \cup {Null}
    BY <1>3, InvFacts DEF PopStatic
<1> QED BY <1>1, <1>2, <1>4, InvFacts, StackAction
        DEF PopStatic, Running, heapVars

(* Reading a field or an array element keeps the invariant. *)
LEMMA PushFieldInv ==
    ASSUME IInv, NEW f \in Field, PushField(f)
    PROVE  IInv'
<1>1. Len(stack) \in 1..Len(stack) /\ Top.ref \in live
    BY TopLive DEF PushField
<1>2. Children(Top.ref) \subseteq live
    BY <1>1 DEF PushField, Running, IInv, FieldsLive
<1>3. field[Top.ref][f] \in live \cup {Null} /\ field[Top.ref][f] \in Ref
    BY <1>1, <1>2, InvFacts DEF Children
<1>4. Over(Len(stack) - 1, ObjSlot(field[Top.ref][f]))
    BY <1>1, <1>3, InvFacts, ObjSlotType DEF Over, PushField, PopN
<1>5. Len(stack) - 1 \in Floor..Len(stack)
    BY InvFacts DEF PushField
<1>6. \A o \in live : Children(o)' \subseteq live
    BY DEF PushField, Running, IInv, FieldsLive, Children, heapVars
<1> QED BY <1>3, <1>4, <1>5, <1>6, InvFacts, ObjSlotType, StackAction
        DEF PushField, Running, heapVars

(* Writing a field or an array element keeps the invariant. *)
LEMMA PopFieldInv ==
    ASSUME IInv, NEW f \in Field, PopField(f)
    PROVE  IInv'
<1>1. /\ Len(stack) \in 1..Len(stack) /\ Len(stack) - 1 \in 1..Len(stack)
      /\ Len(stack) - 2 \in Floor..Len(stack)
    BY InvFacts DEF PopField
<1>2. Top.ref \in live
    BY TopLive, InvFacts DEF PopField
<1>3. /\ stack[Len(stack) - 1].ref \in live \cup {Null}
      /\ stack[Len(stack) - 1].ref \in Ref
    BY <1>1, OperandLive, InvFacts DEF Ref
<1>4. Cut(Len(stack) - 2)
    BY <1>1, PopCuts, InvFacts DEF PopField
<1>5. field' \in [Obj -> [Field -> Ref]]
    BY <1>2, <1>3, InvFacts DEF PopField
<1>6. ASSUME NEW o \in live
      PROVE  Children(o)' \subseteq live
    <2>1. Children(o) \subseteq live
        BY DEF PopField, Running, IInv, FieldsLive
    <2>2. \A g \in Field : field'[o][g] \in {field[o][g],
                                             stack[Len(stack) - 1].ref}
        BY <1>2, InvFacts DEF PopField
    <2> QED BY <2>1, <2>2, <1>3 DEF Children
<1> QED BY <1>1, <1>4, <1>5, <1>6, InvFacts, StackAction
        DEF PopField, Running, heapVars

(* Passing a live exception to its handler keeps the invariant. *)
LEMMA HandleInv ==
    ASSUME IInv, phase = "run", ~InNative, NEW r \in live, Handle(r),
           UNCHANGED <<heapVars, static, frame, phase, request, sweepVars>>
    PROVE  IInv'
<1>1. Floor \in Nat /\ Floor..Len(stack) \subseteq 0..Len(stack)
    BY InvFacts
<1>2. \A o \in live : Children(o)' \subseteq live
    BY DEF IInv, FieldsLive, Children, heapVars
<1>3. r \in Ref
    BY InvFacts DEF Ref
<1>4. PICK n \in Floor..Len(stack) :
        \/ /\ stack' = Append(SubSeq(stack, 1, n), ObjSlot(r))
           /\ exception' = Null
        \/ /\ stack' = SubSeq(stack, 1, n)
           /\ exception' = r
    BY DEF Handle
<1>5. Over(n, ObjSlot(r)) \/ Cut(n)
    BY <1>1, <1>3, <1>4, ObjSlotType DEF Over, Cut
<1>6. exception' \in live \cup {Null}
    BY <1>4
<1> QED BY <1>1, <1>2, <1>3, <1>5, <1>6, InvFacts, ObjSlotType, StackAction
        DEF heapVars

(* DVM_THROW, DVM_RETHROW and DVM_FINALLY_END keep the invariant. *)
LEMMA ThrowInv ==
    ASSUME IInv, Throw \/ Rethrow
    PROVE  IInv'
<1>1. CASE Throw
    <2>1. Top.ref \in live
        BY <1>1, TopLive DEF Throw
    <2> QED BY <1>1, <2>1, HandleInv DEF Throw, Running
<1>2. CASE Rethrow
    BY <1>2, InvFacts, HandleInv DEF Rethrow, Running
<1> QED BY <1>1, <1>2

-----------------------------------------------------------------------------
(* Requests.  A program that uses substr is left out: see README. *)

NoSubstr == "substr" \notin Natives

RequestType == [kind: Kind, take: Nat, drop: Nat, obj: Ref, f: Field,
                to: {"push", "field", "native", "local", "resize"}]

(* A step that leaves stack, frames, statics and exception alone leaves    *)
(* the roots and what is said about frames and slots alone.                *)
LEMMA SameRoots ==
    ASSUME UNCHANGED rootVars
    PROVE  /\ Roots' = Roots /\ InUse' = InUse /\ Floor' = Floor
           /\ InNative' = InNative
           /\ SlotsFlagged' = SlotsFlagged /\ FramesOnStack' = FramesOnStack
BY DEF rootVars, Roots, InUse, Floor, InNative, SlotsFlagged, FramesOnStack,
       FrameOnStack, Flagged, InContext, Operands, Held

(* Asking for an object keeps the invariant if the request is sound. *)
LEMMA RequestInv ==
    ASSUME IInv, phase = "run", NEW r \in RequestType, Request(r),
           r.to # "local",
           r.take \in {0, r.drop},
           r.drop <= Len(stack) - Floor,
           r.to = "native" => InNative,
           InNative => r.drop = 0,
           r.to = "push" => ~InNative,
           r.to = "field" => r.obj \in Roots /\ r.kind # "class",
           r.to = "resize" => /\ r.obj \in Roots \/ InException(r.obj)
                              /\ InNative \/ Len(stack) > Floor
    PROVE  IInv'
<1>1. /\ Roots' = Roots /\ Floor' = Floor /\ InNative' = InNative
      /\ SlotsFlagged' = SlotsFlagged /\ FramesOnStack' = FramesOnStack
    BY SameRoots DEF Request
<1>2. TypeOK'
    BY DEF IInv, TypeOK, RequestType, Request, heapVars, rootVars, sweepVars
<1>3. NoLocals' /\ RequestOK'
    BY <1>1 DEF IInv, NoLocals, RequestOK, InException, Children, Request,
                rootVars, heapVars
<1>4. RootsLive' /\ FieldsLive'
    BY <1>1 DEF IInv, RootsLive, FieldsLive, Children, Request, heapVars
<1> QED BY <1>1, <1>2, <1>3, <1>4
        DEF IInv, Marking, Sweeping, Request

(* The empty request has its type. *)
LEMMA NoRequestType == NoRequest \in RequestType
BY SizeAssumption DEF NoRequest, RequestType, Kind, Ref, Field

PushOf(k, d, t) == [NoRequest EXCEPT !.kind = k, !.drop = d, !.take = t]

(* A request for the stack has its type. *)
LEMMA PushRequest ==
    ASSUME NEW k \in Kind, NEW d \in Nat, NEW t \in {0, d}
    PROVE  /\ PushOf(k, d, t) \in RequestType /\ PushOf(k, d, t).to = "push"
           /\ PushOf(k, d, t).drop = d /\ PushOf(k, d, t).take = t
BY NoRequestType DEF PushOf, RequestType, NoRequest

(* A request of a native function has its type. *)
LEMMA NativeRequest ==
    ASSUME NEW k \in Kind, NEW t \in {"native", "local"},
           NEW r, r = [NoRequest EXCEPT !.kind = k, !.to = t]
    PROVE  r \in RequestType /\ r.to = t /\ r.drop = 0 /\ r.take = 0
BY NoRequestType DEF RequestType, NoRequest

(* The allocating instructions keep the invariant up to DVM_check_gc. *)
LEMMA AllocateInv ==
    ASSUME IInv, NEW op \in Opcodes, Allocate(op)
    PROVE  IInv'
<1> DEFINE i == Instruction[op]
           r == [NoRequest EXCEPT !.kind = i.kind, !.drop = i.drop,
                     !.take = IF op \in Capturing THEN i.drop ELSE 0]
<1>1. i.kind \in Kind /\ i.drop \in Nat
    BY OpcodeAssumption, SizeAssumption DEF Instruction, Kind
<1>2. /\ r \in RequestType /\ r.to = "push" /\ r.drop = i.drop
      /\ r.take \in {0, r.drop}
    <2> DEFINE k == i.kind
               d == i.drop
               t == IF op \in Capturing THEN d ELSE 0
    <2>1. /\ k \in Kind /\ d \in Nat /\ t \in {0, d} /\ d = i.drop
          /\ r = PushOf(k, d, t)
        BY <1>1 DEF PushOf
    <2> HIDE DEF i, r, k, d, t
    <2>2. r \in RequestType /\ r.to = "push" /\ r.drop = d /\ r.take = t
        BY <2>1, PushRequest
    <2> QED BY <2>1, <2>2
<1>3. phase = "run" /\ ~InNative /\ r.drop <= Len(stack) - Floor /\ Request(r)
    BY <1>1, <1>2, InvFacts DEF Allocate, Running
<1> QED BY <1>2, <1>3, RequestInv

(* A request for the field of a rooted object keeps the invariant. *)
LEMMA InFieldInv ==
    ASSUME IInv, NEW k \in {"string", "objectArray"}, NEW f \in Field,
           NEW o \in Roots \cap Obj, phase = "run",
           Request([NoRequest EXCEPT !.kind = k, !.to = "field",
                        !.obj = o, !.f = f])
    PROVE  IInv'
<1> DEFINE r == [NoRequest EXCEPT !.kind = k, !.to = "field", !.obj = o, !.f = f]
<1>1. /\ r \in RequestType /\ r.to = "field" /\ r.obj = o /\ r.kind # "class"
      /\ r.drop = 0 /\ r.take = 0
    BY DEF NoRequest, RequestType, Kind, Ref
<1>2. 0 <= Len(stack) - Floor
    BY InvFacts
<1> QED BY <1>1, <1>2, RequestInv

(* The array that is resized is live, and so are the elements it gets. *)
LEMMA ResizableLive ==
    ASSUME IInv, phase = "run", NEW o \in Obj, Resizable(o)
    PROVE  /\ o \in live /\ (o \in Roots \/ InException(o))
           /\ Inserted \subseteq (live \cap Roots) \cup {Null}
<1>1. phase # "sweep" /\ RootsLive /\ FieldsLive
    BY DEF IInv
<1>2. CASE InNative
    <2>1. Len(frame) \in 1..Len(frame)
        BY <1>2, InvFacts, FrameType DEF InNative
    <2>2. frame[Len(frame)].args \subseteq live \cap Roots
        BY <2>1, InvFacts
    <2> QED BY <1>2, <2>2 DEF Resizable, Inserted, Running
<1>3. CASE ~InNative
    <2>1. Len(stack) > Floor /\ InException(o)
        BY <1>3 DEF Resizable
    <2>2. Top.ref \in (live \cap Roots) \cup {Null}
        BY <2>1, TopLive
    <2>3. exception \in live
        BY <2>1, InvFacts DEF InException
    <2>4. o \in live
        BY <1>1, <2>1, <2>3 DEF InException, FieldsLive
    <2> QED BY <1>3, <2>1, <2>2, <2>4 DEF Inserted
<1> QED BY <1>2, <1>3

(* Moving the elements of a live array keeps references live. *)
LEMMA MoveElementsLive ==
    ASSUME IInv, phase # "sweep", NEW o \in live, MoveElements(o),
           Inserted \subseteq live \cup {Null}
    PROVE  /\ field' \in [Obj -> [Field -> Ref]]
           /\ \A p \in live : Children(p)' \subseteq live
<1>1. /\ live \subseteq Obj /\ field \in [Obj -> [Field -> Ref]]
      /\ \A p \in live : Children(p) \subseteq live
    BY InvFacts DEF IInv, FieldsLive
<1>2. CASE kind[o] \in ObjectArrays
    <2>1. PICK e \in [Field -> Children(o) \cup Inserted \cup {Null}] :
            field' = [field EXCEPT ![o] = e]
        BY <1>2 DEF MoveElements
    <2>2. Children(o) \cup Inserted \cup {Null} \subseteq live \cup {Null}
        BY <1>1
    <2>3. \A g \in Field : e[g] \in live \cup {Null}
        BY <2>1, <2>2
    <2>4. e \in [Field -> Ref]
        BY <1>1, <2>1, <2>3 DEF Ref
    <2>5. field'[o] = e /\ \A p \in live \ {o} : field'[p] = field[p]
        BY <1>1, <2>1
    <2>6. field' \in [Obj -> [Field -> Ref]]
        BY <1>1, <2>1, <2>4
    <2> QED BY <1>1, <2>3, <2>5, <2>6 DEF Children
<1>3. CASE ~(kind[o] \in ObjectArrays)
    BY <1>1, <1>3 DEF MoveElements, Children
<1> QED BY <1>2, <1>3

(* It changes that array only, which gets what is inserted. *)
LEMMA MoveElementsKept ==
    ASSUME NEW o \in Obj, MoveElements(o), field \in [Obj -> [Field -> Ref]]
    PROVE  /\ \A p \in Obj : field'[p] # field[p] => p = o
           /\ Children(o)' \subseteq Children(o) \cup Inserted
<1>1. CASE kind[o] \in ObjectArrays
    <2>1. PICK e \in [Field -> Children(o) \cup Inserted \cup {Null}] :
            field' = [field EXCEPT ![o] = e]
        BY <1>1 DEF MoveElements
    <2>2. field'[o] = e /\ \A p \in Obj \ {o} : field'[p] = field[p]
        BY <2>1
    <2>3. \A g \in Field : e[g] \in Children(o) \cup Inserted \cup {Null}
        BY <2>1
    <2>4. Children(o)' = {e[g] : g \in Field} \ {Null}
        BY <2>2 DEF Children
    <2> QED BY <2>2, <2>3, <2>4
<1>2. CASE ~(kind[o] \in ObjectArrays)
    BY <1>2 DEF MoveElements, Children
<1> QED BY <1>1, <1>2

(* A native method of arrays that stays in the array's block keeps the     *)
(* invariant.                                                              *)
LEMMA ChangeArrayInv ==
    ASSUME IInv, NEW o \in Obj, ChangeArray(o)
    PROVE  IInv'
<1>1. /\ phase = "run" /\ Resizable(o) /\ MoveElements(o)
      /\ UNCHANGED <<live, kind, marked, heapSize, threshold, rootVars, phase,
                     request, sweepVars>>
    BY DEF ChangeArray
<1>2. /\ field' \in [Obj -> [Field -> Ref]]
      /\ \A p \in live : Children(p)' \subseteq live
    BY <1>1, ResizableLive, MoveElementsLive
<1>3. /\ Roots' = Roots /\ SlotsFlagged' = SlotsFlagged
      /\ FramesOnStack' = FramesOnStack
    BY <1>1, SameRoots
<1>4. TypeOK'
    BY <1>1, <1>2 DEF IInv, TypeOK, rootVars, sweepVars
<1> QED BY <1>1, <1>2, <1>3, <1>4
        DEF IInv, NoLocals, RequestOK, RootsLive, FieldsLive, Marking,
            Sweeping, rootVars

(* resize_array keeps the invariant up to DVM_check_gc. *)
LEMMA RequestResizeInv ==
    ASSUME IInv, NEW o \in Obj, RequestResize(o)
    PROVE  IInv'
<1> DEFINE k == OtherBlock[kind[o]]
           r == [NoRequest EXCEPT !.kind = k, !.to = "resize", !.obj = o]
<1>1. phase = "run" /\ Resizable(o) /\ Request(r)
    BY DEF RequestResize
<1>2. k \in Kind
    BY <1>1 DEF Resizable, OtherBlock, Kind
<1>3. /\ r \in RequestType /\ r.to = "resize" /\ r.obj = o
      /\ r.drop = 0 /\ r.take = 0
    <2> HIDE DEF k
    <2> QED BY <1>2, NoRequestType DEF NoRequest, RequestType, Ref
<1>4. /\ o \in Roots \/ InException(o)
      /\ InNative \/ Len(stack) > Floor
    BY <1>1, ResizableLive DEF Resizable
<1>5. 0 <= Len(stack) - Floor
    BY InvFacts
<1> HIDE DEF r
<1> QED BY <1>1, <1>3, <1>4, <1>5, RequestInv

(* The allocations of dvm_create_exception keep the invariant. *)
LEMMA AllocateInFieldInv ==
    ASSUME IInv, NEW k \in {"string", "objectArray"}, NEW f \in Field,
           AllocateInField(k, f)
    PROVE  IInv'
<1>1. Top.ref \in Roots \cap Obj
    BY TopLive, InvFacts DEF AllocateInField
<1> QED BY <1>1, InFieldInv DEF AllocateInField, Running

(* The allocations of DVM_set_exception keep the invariant. *)
LEMMA AllocateInNativeFieldInv ==
    ASSUME IInv, NEW k \in {"string", "objectArray"}, NEW f \in Field,
           NEW o \in Obj, AllocateInNativeField(k, o, f)
    PROVE  IInv'
<1>1. Len(frame) \in 1..Len(frame)
    BY InvFacts, FrameType DEF AllocateInNativeField, InNative
<1>2. o \in Roots
    BY <1>1, NullAssumption DEF AllocateInNativeField, Roots, InContext
<1> QED BY <1>2, InFieldInv DEF AllocateInNativeField

(* The allocations of native functions keep the invariant. *)
LEMMA AllocateInNativeInv ==
    ASSUME IInv, NoSubstr, NEW n \in Natives, AllocateInNative(n)
    PROVE  IInv'
<1> DEFINE r == [NoRequest EXCEPT !.kind = NativeKind[n],
                     !.to = IF n \in AddsReference THEN "native" ELSE "local"]
<1>1. n \in AddsReference /\ NativeKind[n] \in Kind
    BY OpcodeAssumption DEF NoSubstr, AddsReference, NativeKind, Kind
<1>2. /\ r \in RequestType /\ r.to = "native" /\ r.drop = 0 /\ r.take = 0
    <2> DEFINE k == NativeKind[n]
               t == IF n \in AddsReference THEN "native" ELSE "local"
    <2>1. k \in Kind /\ t = "native" /\ r = [NoRequest EXCEPT !.kind = k, !.to = t]
        BY <1>1
    <2> HIDE DEF k, t, r
    <2> QED BY <2>1, NativeRequest
<1>3. 0 <= Len(stack) - Floor
    BY InvFacts
<1>4. phase = "run" /\ InNative /\ Request(r)
    BY DEF AllocateInNative
<1> QED BY <1>2, <1>3, <1>4, RequestInv

-----------------------------------------------------------------------------
(* The collector. *)

(* Charges and refunds are integers. *)
LEMMA SizeType ==
    ASSUME NEW k \in Kind
    PROVE  Charge(k) \in Nat /\ Refund(k) \in Nat
BY SizeAssumption DEF Kind, Charge, Refund

(* The steps of a collection leave the roots and the request alone.        *)
LEMMA CollectorAction ==
    ASSUME IInv, phase # "run", phase' # "run", UNCHANGED <<rootVars, request>>,
           exception # Null => field'[exception] = field[exception]
    PROVE  /\ Roots' = Roots
           /\ SlotsFlagged' /\ NoLocals' /\ FramesOnStack' /\ RequestOK'
<1>1. /\ Roots' = Roots /\ Floor' = Floor /\ InNative' = InNative
      /\ SlotsFlagged' = SlotsFlagged /\ FramesOnStack' = FramesOnStack
    BY SameRoots
<1>2. InException(request.obj)' = InException(request.obj)
    BY DEF InException, Children, rootVars
<1> QED BY <1>1, <1>2 DEF IInv, NoLocals, RequestOK, rootVars

(* gc_mark_objects starts with no marks and all the roots to visit. *)
LEMMA StartMarkInv ==
    ASSUME IInv, phase # "run", FieldsLive, StartMark
    PROVE  IInv'
<1>1. /\ Roots' = Roots
      /\ SlotsFlagged' /\ NoLocals' /\ FramesOnStack' /\ RequestOK'
    BY CollectorAction DEF StartMark
<1>2. Roots \subseteq Obj /\ Roots \subseteq live
    BY DEF IInv, RootsLive, TypeOK
<1>3. TypeOK'
    BY <1>2 DEF IInv, TypeOK, StartMark, rootVars
<1>4. RootsLive' /\ FieldsLive' /\ Marking'
    BY <1>1, <1>2 DEF RootsLive, FieldsLive, Children, Marking, StartMark
<1> QED BY <1>1, <1>3, <1>4 DEF IInv, Sweeping, StartMark

(* DVM_check_gc keeps the invariant, whether it collects or not. *)
LEMMA CheckGCInv ==
    ASSUME IInv, CheckGC
    PROVE  IInv'
<1>1. CASE heapSize > threshold
    BY <1>1, StartMarkInv DEF CheckGC, IInv
<1>2. CASE ~(heapSize > threshold)
    <2>1. /\ phase = "check" /\ phase' = "alloc"
          /\ UNCHANGED <<heapVars, rootVars, request, sweepVars>>
        BY <1>2 DEF CheckGC
    <2>2. /\ Roots' = Roots
          /\ SlotsFlagged' /\ NoLocals' /\ FramesOnStack' /\ RequestOK'
        BY <2>1, CollectorAction DEF heapVars
    <2>3. TypeOK'
        BY <2>1 DEF IInv, TypeOK, heapVars, rootVars, sweepVars
    <2>4. RootsLive' /\ FieldsLive'
        BY <2>1, <2>2 DEF IInv, RootsLive, FieldsLive, Children, heapVars
    <2> QED BY <2>1, <2>2, <2>3, <2>4 DEF IInv, Marking, Sweeping
<1> QED BY <1>1, <1>2

(* Visiting one reference in gc_mark keeps the tri-colour invariant. *)
LEMMA GcMarkInv ==
    ASSUME IInv, NEW o \in Obj, GcMark(o)
    PROVE  IInv'
<1>0. /\ phase = "mark" /\ phase' = "mark" /\ o \in todo
      /\ UNCHANGED <<live, kind, field, heapSize, threshold, rootVars, request,
                     unswept, again>>
    BY DEF GcMark
<1>1. /\ Roots' = Roots
      /\ SlotsFlagged' /\ NoLocals' /\ FramesOnStack' /\ RequestOK'
    BY <1>0, CollectorAction
<1>2. /\ marked \subseteq live /\ todo \subseteq live /\ o \in live
      /\ Roots \subseteq marked \cup todo /\ live \subseteq Obj
      /\ \A p \in marked : Children(p) \subseteq marked \cup todo
      /\ Children(o) \subseteq live
    BY <1>0 DEF IInv, Marking, FieldsLive, TypeOK
<1>3. \A p : Children(p)' = Children(p)
    BY <1>0 DEF Children
<1>4. /\ todo' \subseteq live /\ marked' \subseteq live
      /\ Roots \subseteq marked' \cup todo'
      /\ \A p \in marked' : Children(p) \subseteq marked' \cup todo'
    BY <1>2 DEF GcMark
<1>5. TypeOK'
    BY <1>0, <1>2, <1>4 DEF IInv, TypeOK, rootVars
<1>6. RootsLive' /\ FieldsLive' /\ Marking'
    BY <1>0, <1>1, <1>3, <1>4 DEF IInv, RootsLive, FieldsLive, Marking
<1> QED BY <1>0, <1>1, <1>5, <1>6 DEF IInv, Sweeping

(* When the marking ends, the marked objects are closed under references. *)
LEMMA StartSweepInv ==
    ASSUME IInv, StartSweep
    PROVE  IInv'
<1>0. /\ phase = "mark" /\ phase' = "sweep" /\ todo = {}
      /\ UNCHANGED <<heapVars, rootVars, request, todo>>
      /\ unswept' = live /\ again' = FALSE
    BY DEF StartSweep
<1>1. /\ Roots' = Roots
      /\ SlotsFlagged' /\ NoLocals' /\ FramesOnStack' /\ RequestOK'
    BY <1>0, CollectorAction DEF heapVars
<1>2. TypeOK'
    BY <1>0 DEF IInv, TypeOK, heapVars, rootVars
<1>3. RootsLive' /\ Sweeping'
    BY <1>0, <1>1 DEF IInv, RootsLive, Marking, Sweeping, Children, heapVars
<1> QED BY <1>0, <1>1, <1>2, <1>3 DEF IInv, Marking

(* Freeing an unmarked object keeps the invariant. *)
LEMMA GcSweepInv ==
    ASSUME IInv, NEW o \in Obj, GcSweep(o)
    PROVE  IInv'
<1>0. /\ phase = "sweep" /\ phase' = "sweep" /\ o \in unswept
      /\ UNCHANGED <<marked, threshold, rootVars, request, todo>>
      /\ unswept' = unswept \ {o}
    BY DEF GcSweep
<1>2. /\ marked \subseteq live /\ Roots \subseteq marked
      /\ \A p \in marked : Children(p) \subseteq marked
      /\ live \subseteq marked \cup unswept /\ live \subseteq Obj
    BY <1>0 DEF IInv, Sweeping, TypeOK
<1>3. /\ live' \subseteq live /\ marked \subseteq live'
      /\ live' \subseteq marked \cup unswept'
      /\ \A p \in marked : field'[p] = field[p]
    BY <1>0, <1>2 DEF GcSweep, IInv, TypeOK
<1>1. /\ Roots' = Roots
      /\ SlotsFlagged' /\ NoLocals' /\ FramesOnStack' /\ RequestOK'
    <2>1. exception # Null => exception \in marked
        BY <1>2 DEF Roots
    <2> QED BY <1>0, <1>3, <2>1, CollectorAction
<1>4. /\ kind' \in [Obj -> Kind] /\ field' \in [Obj -> [Field -> Ref]]
      /\ heapSize' \in Int /\ again' \in BOOLEAN
    <2>1. /\ kind \in [Obj -> Kind] /\ field \in [Obj -> [Field -> Ref]]
          /\ heapSize \in Int /\ again \in BOOLEAN /\ kind[o] \in Kind
        BY DEF IInv, TypeOK
    <2>2. Refund(kind[o]) \in Nat
        BY <2>1, SizeType
    <2>3. NoFields \in [Field -> Ref] /\ "literal" \in Kind
        BY DEF NoFields, Ref, Kind
    <2>4. kind' \in [Obj -> Kind] /\ field' \in [Obj -> [Field -> Ref]]
        BY <2>1, <2>3 DEF GcSweep
    <2>5. heapSize' \in Int
        BY <2>1, <2>2 DEF GcSweep
    <2>6. again' \in BOOLEAN
        BY <2>1 DEF GcSweep
    <2> QED BY <2>4, <2>5, <2>6
<1>5. TypeOK'
    BY <1>0, <1>2, <1>3, <1>4 DEF IInv, TypeOK, rootVars
<1>6. RootsLive' /\ Sweeping'
    BY <1>0, <1>1, <1>2, <1>3 DEF RootsLive, Sweeping, Children
<1> QED BY <1>0, <1>1, <1>5, <1>6 DEF IInv, Marking

(* The end of a sweep, or its repetition, keeps the invariant. *)
LEMMA EndSweepInv ==
    ASSUME IInv, EndSweep
    PROVE  IInv'
<1>1. phase = "sweep" /\ unswept = {}
    BY DEF EndSweep
<1>2. FieldsLive
    BY <1>1 DEF IInv, Sweeping, FieldsLive
<1>3. CASE again
    BY <1>1, <1>2, <1>3, StartMarkInv DEF EndSweep
<1>4. CASE ~again
    <2>0. /\ phase' = "alloc" /\ threshold' = heapSize + ThresholdStep
          /\ again' = FALSE
          /\ UNCHANGED <<live, kind, field, marked, heapSize, rootVars,
                         request, todo, unswept>>
        BY <1>4 DEF EndSweep
    <2>1. /\ Roots' = Roots
          /\ SlotsFlagged' /\ NoLocals' /\ FramesOnStack' /\ RequestOK'
        BY <1>1, <2>0, CollectorAction
    <2>2. threshold' \in Int
        BY <2>0, SizeAssumption DEF IInv, TypeOK
    <2>3. TypeOK'
        BY <2>0, <2>2 DEF IInv, TypeOK, rootVars
    <2>4. RootsLive' /\ FieldsLive'
        BY <1>2, <2>0, <2>1 DEF IInv, RootsLive, FieldsLive, Children
    <2> QED BY <2>0, <2>1, <2>3, <2>4 DEF IInv, Marking, Sweeping
<1> QED BY <1>3, <1>4

-----------------------------------------------------------------------------
(* The new object. *)

(* What alloc_object can rely on when it makes the object. *)
LEMMA AllocFacts ==
    ASSUME IInv, phase = "alloc"
    PROVE  /\ request \in RequestType /\ request.to # "local"
           /\ request.take \in {0, request.drop}
           /\ request.take <= Len(stack) /\ request.drop <= Len(stack) - Floor
           /\ request.to = "native" => InNative
           /\ request.to = "push" => ~InNative
           /\ request.to = "field" => request.obj \in live /\ request.kind # "class"
           /\ request.to = "resize" => request.obj \in live
<1>1. /\ request \in RequestType /\ request.to # "local" /\ RequestOK /\ RootsLive
    BY DEF IInv, TypeOK, RequestType, NoLocals
<1>2. request.take \in Nat /\ request.drop \in Nat
    BY <1>1 DEF RequestType
<1>3. FieldsLive /\ live \subseteq Obj /\ exception \in live \cup {Null}
    BY InvFacts DEF IInv
<1>4. InException(request.obj) => request.obj \in live
    BY <1>3 DEF InException, FieldsLive
<1> QED BY <1>1, <1>2, <1>4, InvFacts DEF RequestOK, RootsLive

(* What the new object refers to is live, and it may be referred to. *)
LEMMA AllocFields ==
    ASSUME IInv, NEW o \in Obj, AllocObject(o)
    PROVE  /\ field' \in [Obj -> [Field -> Ref]]
           /\ \A p \in live' : Children(p)' \subseteq live'
<1>1. /\ live' = live \cup {o} /\ live \subseteq Obj /\ o \notin live
      /\ field \in [Obj -> [Field -> Ref]] /\ phase = "alloc"
      /\ \A p \in live : Children(p) \subseteq live
    BY InvFacts DEF AllocObject, IInv, FieldsLive
<1>2. NoFields \in [Field -> Ref] /\ \A g \in Field : NoFields[g] = Null
    BY DEF NoFields, Ref
<1>3. CASE request.to = "field"
    <2>1. /\ request.obj \in live /\ request.f \in Field /\ request.obj # o
        BY <1>1, <1>3, AllocFacts DEF RequestType
    <2>2. field' = [field EXCEPT ![o] = NoFields, ![request.obj][request.f] = o]
        BY <1>3 DEF AllocObject
    <2>3. field' \in [Obj -> [Field -> Ref]]
        BY <1>1, <1>2, <2>1, <2>2 DEF Ref
    <2>4. ASSUME NEW p \in live', NEW g \in Field
          PROVE  field'[p][g] \in {field[p][g], o, Null} /\ (p = o => field'[p][g] = Null)
        BY <1>1, <1>2, <2>1, <2>2
    <2> QED BY <1>1, <2>3, <2>4 DEF Children
<1>4. CASE request.to # "field"
    <2> DEFINE n == request.take
    <2>1. /\ field' = [field EXCEPT ![o] = Captured(n)]
          /\ n \in Nat /\ n <= Len(stack)
        BY <1>1, <1>4, AllocFacts DEF AllocObject, RequestType
    <2>2. ASSUME NEW g \in Field
          PROVE  (IF g <= n THEN stack[Len(stack) - n + g].ref ELSE Null)
                    \in live \cup {Null}
        <3>1. g <= n => Len(stack) - n + g \in 1..Len(stack)
            BY <2>1, InvFacts DEF Field
        <3>2. g <= n => stack[Len(stack) - n + g].ref \in live \cup {Null}
            BY <3>1, OperandLive
        <3> QED BY <3>2
    <2>3. /\ Captured(n) \in [Field -> Ref]
          /\ \A g \in Field : Captured(n)[g] \in live \cup {Null}
        BY <2>2, <1>1 DEF Captured, Ref
    <2>4. field' \in [Obj -> [Field -> Ref]]
        BY <1>1, <2>1, <2>3
    <2>5. \A p \in live : field'[p] = field[p]
        BY <1>1, <2>1
    <2>6. field'[o] = Captured(n)
        BY <1>1, <2>1
    <2> QED BY <1>1, <2>3, <2>4, <2>5, <2>6 DEF Children
<1> QED BY <1>3, <1>4

(* The stack and the frames after a step that gives the running code one   *)
(* reference, in a flagged slot or in a native function's context.         *)
Placed(r) ==
    /\ stack' \in Seq(Slot) /\ frame' \in Seq(Frame)
    /\ FramesOnStack' /\ SlotsFlagged'
    /\ Flagged' \subseteq Flagged \cup {r}
    /\ InContext' \subseteq InContext \cup {r}
    /\ \A i \in 1..Len(frame') : frame'[i].local = {}

(* Without substr native code keeps no reference of its own. *)
LEMMA NoLocal ==
    ASSUME IInv
    PROVE  \A i \in 1..Len(frame) : frame[i].local = {}
BY DEF IInv, NoLocals

(* The references in a native function's context are live. *)
LEMMA InContextLive ==
    ASSUME IInv
    PROVE  InContext \subseteq live \cup {Null}
BY DEF IInv, RootsLive, Roots

(* The references in flagged slots are live. *)
LEMMA FlaggedLive ==
    ASSUME IInv
    PROVE  Flagged \subseteq live \cup {Null}
BY DEF IInv, RootsLive, Roots

(* What a frame needs, from a frame with the same fields. *)
LEMMA FrameStep ==
    ASSUME frame \in Seq(Frame), NEW fr \in Frame, frame' = Append(frame, fr),
           fr.local = {}, \A i \in 1..Len(frame) : frame[i].local = {}
    PROVE  \A i \in 1..Len(frame') : frame'[i].local = {}
<1>1. /\ Len(frame) \in Nat /\ Len(frame') = Len(frame) + 1
      /\ \A i \in 1..Len(frame) : frame'[i] = frame[i]
      /\ frame'[Len(frame) + 1] = fr
    BY PushSeq, FrameType
<1>2. \A i \in 1..Len(frame') : i \in 1..Len(frame) \/ i = Len(frame) + 1
    BY <1>1
<1> QED BY <1>1, <1>2

(* Wherever the new object goes, it is the only new reference. *)
LEMMA AllocPlaced ==
    ASSUME IInv, NEW o \in Obj, AllocObject(o)
    PROVE  Placed(o)
<1>0. phase = "alloc" /\ live' = live \cup {o} /\ request.to # "resize"
    BY DEF AllocObject
<1>1. /\ stack \in Seq(Slot) /\ frame \in Seq(Frame) /\ FramesOnStack
      /\ SlotsFlagged /\ Floor \in Nat /\ Len(stack) \in Nat
      /\ Floor <= Len(stack)
    BY InvFacts DEF IInv
<1>2. o \in Ref
    BY DEF Ref
<1>3. CASE request.kind = "class"
    <2> DEFINE fr == NewFrame("init", Len(stack) + 1, 1, {o})
    <2>1. stack' = Append(stack, ObjSlot(o)) /\ frame' = Append(frame, fr)
        BY <1>3 DEF AllocObject
    <2>2. Over(Len(stack), ObjSlot(o))
        BY <1>1, <1>2, <2>1, ObjSlotType, SubSeqFull DEF Over
    <2>3. /\ stack' \in Seq(Slot) /\ Len(stack') = Len(stack) + 1
          /\ \A i \in 1..Len(stack) : stack'[i] = stack[i]
          /\ stack'[Len(stack) + 1] = ObjSlot(o)
        BY <1>1, <2>2, OverStack
    <2>4. /\ fr \in Frame /\ fr.tag = "init" /\ fr.sp = Len(stack) + 1
          /\ fr.argc = 1 /\ fr.args = {o} /\ fr.refs = {} /\ fr.local = {}
        BY <1>1 DEF NewFrame, Frame
    <2>5. fr.args \subseteq {stack'[j].ref : j \in fr.sp - fr.argc + 1..fr.sp}
        <3>1. Len(stack) + 1 \in fr.sp - fr.argc + 1..fr.sp
            BY <1>1, <2>4
        <3>2. stack'[Len(stack) + 1].ref = o
            BY <2>3, ObjSlotType, <1>2
        <3> QED BY <2>4, <3>1, <3>2
    <2>6. InNative => fr.tag = "init" /\ Floor = fr.sp - fr.argc
        BY <1>1, <2>4 DEF FramesOnStack
    <2>7. /\ frame' \in Seq(Frame) /\ FramesOnStack'
          /\ InContext' = InContext \cup fr.refs
        <3> HIDE DEF fr
        <3>1. /\ Len(stack') = fr.sp /\ Floor <= fr.sp - fr.argc
              /\ \A i \in 1..Floor : stack'[i] = stack[i]
              /\ fr.tag = "init" => fr.argc = 1 /\ fr.args # {}
            BY <1>1, <2>3, <2>4
        <3>2. fr \in Frame
            BY <2>4
        <3> QED BY <1>1, <2>1, <2>3, <3>2, <2>5, <2>6, <3>1, PushFrame
    <2>8. SlotsFlagged' /\ Flagged' \subseteq Flagged \cup {o}
        BY <1>1, <1>2, <2>2, ObjSlotType, OverRoots
    <2>9. \A i \in 1..Len(frame') : frame'[i].local = {}
        <3>1. fr \in Frame /\ fr.local = {}
            BY <2>4
        <3> HIDE DEF fr
        <3> QED BY <1>1, <2>1, <3>1, FrameStep, NoLocal
    <2> QED BY <2>3, <2>4, <2>7, <2>8, <2>9 DEF Placed
<1>4. CASE request.kind # "class" /\ request.to = "push"
    <2>1. /\ stack' = Append(PopN(request.drop), ObjSlot(o)) /\ frame' = frame
          /\ ~InNative
        BY <1>0, <1>4, AllocFacts DEF AllocObject, Deliver
    <2> DEFINE n == Len(stack) - request.drop
    <2>2. n \in 0..Len(stack) /\ Floor <= n
        BY <1>0, <1>1, AllocFacts DEF RequestType
    <2>3. Over(n, ObjSlot(o))
        BY <1>2, <2>1, <2>2, ObjSlotType DEF Over, PopN
    <2>4. /\ stack' \in Seq(Slot) /\ Len(stack') = n + 1
          /\ \A i \in 1..n : stack'[i] = stack[i]
        BY <1>1, <2>3, OverStack
    <2>5. SlotsFlagged' /\ Flagged' \subseteq Flagged \cup {o}
        BY <1>1, <1>2, <2>3, ObjSlotType, OverRoots
    <2>6. Floor <= Len(stack') /\ \A i \in 1..Floor : stack'[i] = stack[i]
        BY <1>1, <2>2, <2>4
    <2>7. FramesOnStack'
        BY <1>1, <2>1, <2>4, <2>6, KeepFrames
    <2>8. InContext' = InContext
        BY <2>1 DEF InContext
    <2> QED BY <1>1, <2>1, <2>4, <2>5, <2>7, <2>8, NoLocal DEF Placed
<1>5. CASE request.kind # "class" /\ request.to = "field"
    <2>1. stack' = stack /\ frame' = frame
        BY <1>5 DEF AllocObject, Deliver
    <2>2. FramesOnStack'
        BY <1>1, <2>1, KeepFrames
    <2>3. SlotsFlagged' /\ Flagged' = Flagged /\ InContext' = InContext
        BY <1>1, <2>1 DEF SlotsFlagged, Flagged, InContext
    <2> QED BY <1>1, <2>1, <2>2, <2>3, NoLocal DEF Placed
<1>6. CASE request.kind # "class" /\ request.to = "native"
    <2> DEFINE n == Len(frame)
    <2>1. /\ stack' = stack
          /\ frame' = [frame EXCEPT ![n].refs = @ \cup {o}]
          /\ InNative
        BY <1>0, <1>6, AllocFacts DEF AllocObject, Deliver
    <2>2. n \in 1..n /\ n \in Nat /\ frame # <<>>
        BY <1>1, <2>1, FrameType DEF InNative
    <2>3. \A i \in 1..n : frame[i] \in Frame
        BY <1>1, FrameType
    <2>4. [frame[n] EXCEPT !.refs = @ \cup {o}] \in Frame
        BY <2>2, <2>3 DEF Frame
    <2>5. /\ frame' \in Seq(Frame) /\ Len(frame') = n
          /\ \A i \in 1..n :
                frame'[i] = IF i = n THEN [frame[n] EXCEPT !.refs = @ \cup {o}]
                                     ELSE frame[i]
        BY <1>1, <2>1, <2>2, <2>4, ExceptSeq
    <2>6. \A i \in 1..n :
            /\ frame'[i].sp = frame[i].sp /\ frame'[i].argc = frame[i].argc
            /\ frame'[i].tag = frame[i].tag /\ frame'[i].args = frame[i].args
            /\ frame'[i].local = frame[i].local
            /\ frame'[i].refs \subseteq frame[i].refs \cup {o}
        BY <2>3, <2>5 DEF Frame
    <2>7. frame' # <<>> /\ Floor' = Floor /\ InNative' = InNative
        <3>1. frame' # <<>>
            BY <2>2, <2>5, EmptySeq
        <3> QED BY <2>2, <2>5, <2>6, <3>1 DEF Floor, InNative
    <2>8. ASSUME NEW i \in 1..n
          PROVE  FrameOnStack(i)'
        <3>1. FrameOnStack(i) /\ \A j \in 1..i : j \in 1..n
            BY <1>1, <2>2 DEF FramesOnStack
        <3>2. \A j \in 1..i : /\ frame'[j].sp = frame[j].sp
                              /\ frame'[j].tag = frame[j].tag
            BY <2>6, <3>1
        <3>3. (\A j \in 1..i-1 : j \in 1..i) /\ (i > 1 => i-1 \in 1..i)
            BY <2>2
        <3>4. /\ frame'[i].sp = frame[i].sp /\ frame'[i].argc = frame[i].argc
              /\ frame'[i].tag = frame[i].tag /\ frame'[i].args = frame[i].args
            BY <2>6
        <3> QED BY <2>1, <3>1, <3>2, <3>3, <3>4 DEF FrameOnStack
    <2>9. FramesOnStack'
        BY <1>1, <2>1, <2>5, <2>7, <2>8 DEF FramesOnStack
    <2>10. InContext' \subseteq InContext \cup {o}
        BY <2>5, <2>6 DEF InContext
    <2>11. SlotsFlagged' /\ Flagged' = Flagged
        BY <1>1, <2>1 DEF SlotsFlagged, Flagged
    <2>12. \A i \in 1..Len(frame') : frame'[i].local = {}
        BY <2>5, <2>6, NoLocal
    <2> QED BY <1>1, <2>1, <2>5, <2>9, <2>10, <2>11, <2>12 DEF Placed
<1> QED BY <1>0, <1>3, <1>4, <1>5, <1>6, AllocFacts DEF RequestType

(* alloc_object keeps the invariant. *)
LEMMA AllocObjectInv ==
    ASSUME IInv, NEW o \in Obj, AllocObject(o)
    PROVE  IInv'
<1>0. /\ stack' \in Seq(Slot) /\ frame' \in Seq(Frame)
      /\ FramesOnStack' /\ SlotsFlagged'
      /\ Flagged' \subseteq Flagged \cup {o} /\ InContext' \subseteq InContext \cup {o}
      /\ \A i \in 1..Len(frame') : frame'[i].local = {}
    BY AllocPlaced DEF Placed
<1>1. /\ live' = live \cup {o} /\ phase' = "run" /\ request' = NoRequest
      /\ kind' = [kind EXCEPT ![o] = request.kind]
      /\ marked' = marked \ {o} /\ heapSize' = heapSize + Charge(request.kind)
      /\ UNCHANGED <<threshold, static, exception, sweepVars>>
    BY DEF AllocObject
<1>2. /\ field' \in [Obj -> [Field -> Ref]]
      /\ \A p \in live' : Children(p)' \subseteq live'
    BY AllocFields
<1>3. TypeOK'
    <2>1. request.kind \in Kind
        BY DEF IInv, TypeOK
    <2>2. Charge(request.kind) \in Nat
        BY <2>1, SizeType
    <2>3. /\ heapSize' \in Int /\ kind' \in [Obj -> Kind]
          /\ live' \subseteq Obj /\ marked' \subseteq Obj
        BY <1>1, <2>1, <2>2 DEF IInv, TypeOK
    <2>4. request' \in RequestType
        BY <1>1, NoRequestType
    <2>5. UNCHANGED <<threshold, static, exception, todo, unswept, again>>
        BY <1>1 DEF sweepVars
    <2> QED BY <1>0, <1>1, <1>2, <2>3, <2>4, <2>5 DEF IInv, TypeOK, RequestType
<1>4. NoLocals' /\ RequestOK'
    BY <1>0, <1>1 DEF NoLocals, NoRequest, RequestOK
<1>5. RootsLive'
    BY <1>0, <1>1, InvFacts, FlaggedLive, InContextLive DEF RootsLive, Roots
<1> QED BY <1>0, <1>1, <1>2, <1>3, <1>4, <1>5
        DEF IInv, FieldsLive, Marking, Sweeping

(* What resize_array finds when DVM_check_gc returns. *)
LEMMA ResizeFacts ==
    ASSUME IInv, phase = "alloc", request.to = "resize"
    PROVE  /\ request.obj \in live
           /\ request.obj \in Roots \/ InException(request.obj)
           /\ Inserted \subseteq (live \cap Roots) \cup {Null}
<1>1. /\ request.obj \in Roots \/ InException(request.obj)
      /\ InNative \/ Len(stack) > Floor
    BY DEF IInv, RequestOK
<1>2. CASE InNative
    <2>1. Len(frame) \in 1..Len(frame)
        BY <1>2, InvFacts, FrameType DEF InNative
    <2> QED BY <1>1, <1>2, <2>1, InvFacts, AllocFacts DEF Inserted
<1>3. CASE ~InNative
    BY <1>1, <1>3, TopLive, AllocFacts DEF Inserted
<1> QED BY <1>2, <1>3

(* The end of resize_array keeps the invariant. *)
LEMMA ResizeArrayInv ==
    ASSUME IInv, ResizeArray
    PROVE  IInv'
<1> DEFINE o == request.obj
<1>0. /\ phase = "alloc" /\ phase' = "run" /\ request' = NoRequest
      /\ MoveElements(o) /\ kind' = [kind EXCEPT ![o] = request.kind]
      /\ heapSize' = heapSize + Charge(request.kind) - Charge(kind[o])
      /\ UNCHANGED <<live, marked, threshold, rootVars, sweepVars>>
      /\ request.to = "resize"
    BY DEF ResizeArray
<1>1. o \in live /\ live \subseteq Obj
    BY <1>0, ResizeFacts, InvFacts
<1>2. Inserted \subseteq live \cup {Null}
    BY <1>0, ResizeFacts
<1>3. /\ field' \in [Obj -> [Field -> Ref]]
      /\ \A p \in live : Children(p)' \subseteq live
    BY <1>0, <1>1, <1>2, MoveElementsLive
<1>4. /\ Roots' = Roots /\ SlotsFlagged' = SlotsFlagged
      /\ FramesOnStack' = FramesOnStack
    BY <1>0, SameRoots
<1>5. TypeOK'
    <2>1. request.kind \in Kind /\ kind \in [Obj -> Kind] /\ heapSize \in Int
        BY DEF IInv, TypeOK
    <2>2. Charge(request.kind) \in Nat /\ Charge(kind[o]) \in Nat
        BY <1>1, <2>1, SizeType
    <2>3. heapSize' \in Int
        <3> DEFINE new == Charge(request.kind)
                   old == Charge(kind[o])
        <3>1. new \in Nat /\ old \in Nat /\ heapSize' = heapSize + new - old
            BY <1>0, <2>2
        <3> HIDE DEF new, old
        <3> QED BY <2>1, <3>1
    <2>4. kind' \in [Obj -> Kind]
        BY <1>0, <2>1
    <2>5. request' \in RequestType
        BY <1>0, NoRequestType
    <2> QED BY <1>0, <1>3, <2>3, <2>4, <2>5
            DEF IInv, TypeOK, RequestType, rootVars, sweepVars
<1> QED BY <1>0, <1>3, <1>4, <1>5
        DEF IInv, NoLocals, NoRequest, RequestOK, RootsLive, FieldsLive,
            Marking, Sweeping, rootVars

-----------------------------------------------------------------------------
(* Native functions and field initializers: entry and return. *)

(* A step that runs no allocation and frees nothing. *)
LEMMA RunAction ==
    ASSUME IInv, phase = "run", UNCHANGED <<heapVars, static, phase, request,
                                            sweepVars>>,
           exception' \in live \cup {Null},
           NEW r \in live \cup {Null}, Placed(r)
    PROVE  IInv'
<1>0. /\ stack' \in Seq(Slot) /\ frame' \in Seq(Frame)
      /\ FramesOnStack' /\ SlotsFlagged'
      /\ Flagged' \subseteq live \cup {Null} /\ InContext' \subseteq live \cup {Null}
      /\ \A i \in 1..Len(frame') : frame'[i].local = {}
    BY FlaggedLive, InContextLive DEF Placed
<1>1. TypeOK'
    BY <1>0, InvFacts DEF IInv, TypeOK, heapVars, sweepVars, Ref
<1>2. NoLocals' /\ RequestOK'
    BY <1>0 DEF IInv, NoLocals, RequestOK
<1>3. RootsLive' /\ FieldsLive'
    BY <1>0, InvFacts DEF IInv, RootsLive, Roots, FieldsLive, Children, heapVars
<1> QED BY <1>0, <1>1, <1>2, <1>3 DEF IInv, Marking, Sweeping

(* invoke_native_function up to the native code adds no reference. *)
LEMMA InvokeNativePlaced ==
    ASSUME IInv, NEW argc \in 0..2, InvokeNative(argc)
    PROVE  Placed(Null)
<1> DEFINE args == {stack[i].ref : i \in Len(stack)-argc+1..Len(stack)} \ {Null}
           fr == NewFrame("native", Len(stack), argc, args)
<1>1. /\ phase = "run" /\ ~InNative /\ Floor + argc <= Len(stack)
      /\ frame' = Append(frame, fr) /\ stack' = stack /\ exception' = Null
      /\ UNCHANGED <<heapVars, static, phase, request, sweepVars>>
    BY InvFacts DEF InvokeNative, Running
<1>2. /\ stack \in Seq(Slot) /\ frame \in Seq(Frame) /\ FramesOnStack
      /\ SlotsFlagged /\ Floor \in Nat /\ Len(stack) \in Nat
      /\ live \subseteq Obj
    BY InvFacts DEF IInv
<1>3. args \subseteq Obj
    <2>1. \A i \in Len(stack)-argc+1..Len(stack) :
            i \in 1..Len(stack) /\ stack[i].ref \in Ref
        BY <1>1, <1>2, StackType
    <2> QED BY <2>1 DEF Ref
<1>4. /\ fr \in Frame /\ fr.tag = "native" /\ fr.sp = Len(stack)
      /\ fr.argc = argc /\ fr.args = args /\ fr.refs = {} /\ fr.local = {}
    BY <1>2, <1>3 DEF NewFrame, Frame
<1>5. fr.args \subseteq {stack'[j].ref : j \in fr.sp - fr.argc + 1..fr.sp}
    BY <1>1, <1>4
<1>6. /\ frame' \in Seq(Frame) /\ FramesOnStack'
      /\ InContext' = InContext \cup fr.refs
    <2> HIDE DEF fr, args
    <2>1. /\ fr \in Frame /\ Len(stack') = fr.sp /\ Floor <= fr.sp - fr.argc
          /\ \A i \in 1..Floor : stack'[i] = stack[i]
          /\ fr.tag = "init" => fr.argc = 1 /\ fr.args # {}
          /\ InNative => fr.tag = "init" /\ Floor = fr.sp - fr.argc
          /\ stack' \in Seq(Slot)
        BY <1>1, <1>2, <1>4
    <2> QED BY <1>1, <1>2, <1>5, <2>1, PushFrame
<1>7. \A i \in 1..Len(frame') : frame'[i].local = {}
    <2> HIDE DEF fr
    <2> QED BY <1>1, <1>2, <1>4, FrameStep, NoLocal
<1>8. SlotsFlagged' /\ Flagged' = Flagged
    BY <1>1, <1>2 DEF SlotsFlagged, Flagged
<1> QED BY <1>1, <1>2, <1>4, <1>6, <1>7, <1>8 DEF Placed

(* invoke_native_function up to the native code keeps the invariant. *)
LEMMA InvokeNativeInv ==
    ASSUME IInv, NEW argc \in 0..2, InvokeNative(argc)
    PROVE  IInv'
BY InvokeNativePlaced, RunAction DEF InvokeNative, Running

(* DVM_set_exception keeps the invariant. *)
LEMMA SetExceptionInv ==
    ASSUME IInv, NEW o \in Obj, SetException(o)
    PROVE  IInv'
<1>1. /\ phase = "run" /\ InNative /\ o \in frame[Len(frame)].refs
      /\ exception' = o
      /\ UNCHANGED <<heapVars, stack, static, frame, phase, request, sweepVars>>
    BY DEF SetException
<1>2. o \in live
    <2>1. Len(frame) \in 1..Len(frame)
        BY <1>1, InvFacts, FrameType DEF InNative
    <2> QED BY <1>1, <2>1, InvFacts
<1>3. /\ stack \in Seq(Slot) /\ frame \in Seq(Frame) /\ FramesOnStack
      /\ SlotsFlagged
    BY InvFacts DEF IInv
<1>4. FramesOnStack'
    BY <1>1, <1>3, InvFacts, KeepFrames
<1>5. SlotsFlagged' /\ Flagged' = Flagged /\ InContext' = InContext
    BY <1>1, <1>3 DEF SlotsFlagged, Flagged, InContext
<1>6. Placed(Null)
    BY <1>1, <1>3, <1>4, <1>5, NoLocal DEF Placed
<1> QED BY <1>1, <1>2, <1>6, RunAction

(* The return of a native function gives its caller the result only, and   *)
(* the result was in the function's context.                               *)
LEMMA ReturnNativePlaced ==
    ASSUME IInv, NEW r \in Ref, ReturnNative(r)
    PROVE  Placed(r) /\ r \in InContext \cup {Null}
<1> DEFINE n == Len(frame) - 1
           top == frame[Len(frame)]
           base == Len(stack) - top.argc
           x == [ref |-> r, flag |-> r \notin top.local]
<1>1. /\ phase = "run" /\ InNative /\ r \in top.refs \cup top.local \cup {Null}
      /\ stack' = Append(PopN(top.argc), x) /\ frame' = SubSeq(frame, 1, n)
      /\ UNCHANGED <<heapVars, static, exception, phase, request, sweepVars>>
    BY DEF ReturnNative
<1>2. /\ stack \in Seq(Slot) /\ frame \in Seq(Frame) /\ FramesOnStack
      /\ SlotsFlagged /\ Len(stack) \in Nat /\ Floor = Len(stack)
    BY <1>1, InvFacts DEF IInv, FramesOnStack
<1>3. /\ frame # <<>> /\ n \in Nat /\ n + 1 = Len(frame)
      /\ Len(frame) \in 1..Len(frame) /\ top.sp = Len(stack) /\ top.argc \in Nat
      /\ top.tag = "native"
    BY <1>1, <1>2, FrameType DEF InNative, Floor
<1>4. FrameOnStack(Len(frame))
    BY <1>2, <1>3 DEF FramesOnStack
<1>5. base \in 0..Len(stack)
    BY <1>2, <1>3, <1>4 DEF FrameOnStack
<1>6. /\ x \in Slot /\ x.flag /\ x.ref = r /\ r \in live \cup {Null}
    BY <1>1, <1>3, InvFacts, NoLocal DEF Slot
<1>7. Over(base, x)
    BY <1>1, <1>5, <1>6 DEF Over, PopN
<1>8. /\ frame' \in Seq(Frame) /\ Len(frame') = n
      /\ \A i \in 1..n : frame'[i] = frame[i]
    BY <1>1, <1>2, <1>3, CutSeq
<1>9. /\ stack' \in Seq(Slot) /\ Len(stack') = base + 1
      /\ \A i \in 1..base : stack'[i] = stack[i]
    BY <1>2, <1>7, OverStack
<1>10. ~InNative'
    <2>1. SUFFICES ASSUME InNative' PROVE FALSE
        OBVIOUS
    <2>2. n \in 1..n /\ frame[n].tag = "native"
        BY <2>1, <1>3, <1>8, FrameType, EmptySeq, SMTT(60) DEF InNative
    <2> QED BY <2>2, <1>3, <1>4 DEF FrameOnStack
<1>11. FramesOnStack'
    <2>1. base \in Nat /\ base <= Len(stack') /\ (InNative' => Len(stack') = base)
        BY <1>2, <1>5, <1>9, <1>10
    <2>2. n \in Nat /\ base = frame[n + 1].sp - frame[n + 1].argc
        BY <1>3
    <2> HIDE DEF n, base
    <2> QED BY <1>2, <1>3, <1>8, <1>9, <2>1, <2>2, PopFrame DEF n
<1>12. SlotsFlagged' /\ Flagged' \subseteq Flagged \cup {r}
    BY <1>2, <1>6, <1>7, OverRoots
<1>13. InContext' \subseteq InContext
    BY <1>3, <1>8 DEF InContext
<1>14. \A i \in 1..Len(frame') : frame'[i].local = {}
    BY <1>3, <1>8, NoLocal
<1>15. r \in InContext \cup {Null}
    BY <1>1, <1>3, NoLocal DEF InContext
<1> QED BY <1>8, <1>9, <1>11, <1>12, <1>13, <1>14, <1>15 DEF Placed

(* The return of a native function keeps the invariant. *)
LEMMA ReturnNativeInv ==
    ASSUME IInv, NEW r \in Ref, ReturnNative(r)
    PROVE  IInv'
<1>1. Placed(r) /\ r \in live \cup {Null}
    BY ReturnNativePlaced, InContextLive
<1> QED BY <1>1, InvFacts, RunAction DEF ReturnNative

(* The end of a field initializer gives the caller the object that was on  *)
(* top of the stack.                                                       *)
LEMMA InitReturnPlaced ==
    ASSUME IInv, InitReturn
    PROVE  Placed(Top.ref) /\ Top.ref \in live \cap Roots
<1> DEFINE n == Len(frame) - 1
           o == Top.ref
           base == Len(stack) - 1
<1>1. /\ phase = "run" /\ ~InNative /\ frame # <<>> /\ Len(stack) = Floor
      /\ UNCHANGED <<heapVars, static, exception, phase, request, sweepVars>>
    BY DEF InitReturn, Running
<1>2. /\ stack \in Seq(Slot) /\ frame \in Seq(Frame) /\ FramesOnStack
      /\ SlotsFlagged /\ Len(stack) \in Nat /\ live \subseteq Obj
    BY InvFacts DEF IInv
<1>3. /\ n \in Nat /\ n + 1 = Len(frame) /\ Len(frame) \in 1..Len(frame)
      /\ frame[Len(frame)].sp = Len(stack) /\ frame[Len(frame)].tag = "init"
      /\ frame[Len(frame)].args \subseteq Obj
    BY <1>1, <1>2, FrameType DEF InNative, Floor
<1>4. FrameOnStack(Len(frame))
    BY <1>2, <1>3 DEF FramesOnStack
<1>5. /\ frame[Len(frame)].argc = 1 /\ Len(stack) \in 1..Len(stack)
      /\ base \in 0..Len(stack)
    BY <1>2, <1>3, <1>4 DEF FrameOnStack
<1>6. o \in live \cap Roots
    <2>1. frame[Len(frame)].args \subseteq
            {stack[j].ref : j \in Len(stack) - 1 + 1..Len(stack)}
        BY <1>3, <1>4, <1>5 DEF FrameOnStack
    <2>2. Len(stack) - 1 + 1..Len(stack) = {Len(stack)}
        BY <1>2
    <2>3. o \in Obj
        BY <1>3, <1>4, <2>1, <2>2 DEF Top, FrameOnStack
    <2> QED BY <2>3, <1>5, OperandLive, NullAssumption DEF Top
<1>7. ASSUME frame' \in Seq(Frame), Len(frame') = n,
             \A i \in 1..n : /\ frame'[i].sp = frame[i].sp
                             /\ frame'[i].argc = frame[i].argc
                             /\ frame'[i].tag = frame[i].tag
                             /\ frame'[i].args = frame[i].args
                             /\ frame'[i].local = frame[i].local
                             /\ frame'[i].refs \subseteq frame[i].refs \cup {o},
             \/ Cut(base)
             \/ Over(base, ObjSlot(o)) /\ ~(n > 0 /\ frame[n].tag = "native")
      PROVE  Placed(o)
    <2>1. /\ stack' \in Seq(Slot) /\ Len(stack') \in {base, base + 1}
          /\ \A i \in 1..base : stack'[i] = stack[i]
          /\ Len(stack') = base \/ ~(n > 0 /\ frame[n].tag = "native")
        BY <1>2, <1>7, CutStack, OverStack
    <2>2. InNative' => n > 0 /\ frame[n].tag = "native"
        <3>1. SUFFICES ASSUME InNative' PROVE n > 0 /\ frame[n].tag = "native"
            OBVIOUS
        <3>2. n # 0
            BY <3>1, <1>7, EmptySeq DEF InNative
        <3>3. n \in 1..n
            BY <3>2, <1>3
        <3> QED BY <3>1, <3>3, <1>7 DEF InNative
    <2>3. FramesOnStack'
        <3>1. base \in Nat /\ base <= Len(stack') /\ (InNative' => Len(stack') = base)
            BY <1>2, <1>5, <2>1, <2>2
        <3>2. n \in Nat /\ base = frame[n + 1].sp - frame[n + 1].argc
            BY <1>3, <1>5
        <3> HIDE DEF n, base, o
        <3> QED BY <1>1, <1>2, <1>3, <1>7, <2>1, <3>1, <3>2, PopFrame DEF n
    <2>4. SlotsFlagged' /\ Flagged' \subseteq Flagged \cup {o}
        <3>1. o \in Ref
            BY <1>2, <1>6 DEF Ref
        <3>2. CASE Cut(base)
            BY <3>2, <1>2, CutRoots
        <3>3. CASE Over(base, ObjSlot(o))
            BY <3>1, <3>3, <1>2, <1>6, OverRoots, ObjSlotType
        <3> QED BY <3>2, <3>3, <1>7
    <2>5. InContext' \subseteq InContext \cup {o}
        <3>1. n <= Len(frame)
            BY <1>3
        <3> QED BY <3>1, <1>2, <1>3, <1>7 DEF InContext
    <2>6. \A i \in 1..Len(frame') : frame'[i].local = {}
        BY <1>3, <1>7, NoLocal
    <2> QED BY <1>7, <2>1, <2>3, <2>4, <2>5, <2>6 DEF Placed
<1>8. /\ SubSeq(frame, 1, n) \in Seq(Frame) /\ Len(SubSeq(frame, 1, n)) = n
      /\ \A i \in 1..n : SubSeq(frame, 1, n)[i] = frame[i]
    BY <1>2, <1>3, CutSeq
<1>9. CASE n > 0 /\ frame[n].tag = "native"
    <2> DEFINE s == SubSeq(frame, 1, n)
               fr == [frame[n] EXCEPT !.refs = @ \cup {o}]
    <2>1. stack' = PopN(1) /\ frame' = [s EXCEPT ![n].refs = @ \cup {o}]
        BY <1>9 DEF InitReturn
    <2>2. Cut(base)
        BY <2>1, <1>5 DEF Cut, PopN
    <2>3. n \in 1..n /\ s[n] = frame[n]
        BY <1>3, <1>8, <1>9
    <2>4. fr \in Frame /\ \A i \in 1..n : frame[i] \in Frame
        <3>1. o \in Obj
            BY <1>2, <1>6
        <3>2. \A i \in 1..n : frame[i] \in Frame
            BY <1>2, <1>3, FrameType
        <3>3. frame[n] \in Frame
            BY <2>3, <3>2
        <3> QED BY <3>1, <3>2, <3>3 DEF Frame
    <2>5. /\ frame' \in Seq(Frame) /\ Len(frame') = n
          /\ \A i \in 1..n : frame'[i] = IF i = n THEN fr ELSE s[i]
        <3>1. frame' = [s EXCEPT ![n] = fr]
            BY <2>1, <2>3
        <3>2. s \in Seq(Frame) /\ n \in 1..Len(s) /\ Len(s) = n
            BY <1>8, <2>3
        <3> HIDE DEF s, fr
        <3> QED BY <2>4, <3>1, <3>2, ExceptSeq
    <2>6. \A i \in 1..n : /\ frame'[i].sp = frame[i].sp
                          /\ frame'[i].argc = frame[i].argc
                          /\ frame'[i].tag = frame[i].tag
                          /\ frame'[i].args = frame[i].args
                          /\ frame'[i].local = frame[i].local
                          /\ frame'[i].refs \subseteq frame[i].refs \cup {o}
        BY <1>8, <2>4, <2>5, ZenonT(60) DEF Frame
    <2> QED BY <1>6, <1>7, <2>2, <2>5, <2>6
<1>10. CASE ~(n > 0 /\ frame[n].tag = "native")
    <2>1. stack' = Append(PopN(1), ObjSlot(o)) /\ frame' = SubSeq(frame, 1, n)
        BY <1>10 DEF InitReturn
    <2>2. Over(base, ObjSlot(o))
        BY <2>1, <1>2, <1>5, <1>6, ObjSlotType DEF Over, PopN, Ref
    <2> QED BY <1>6, <1>7, <1>8, <1>10, <2>1, <2>2
<1> QED BY <1>6, <1>9, <1>10

(* The end of a field initializer keeps the invariant. *)
LEMMA InitReturnInv ==
    ASSUME IInv, InitReturn
    PROVE  IInv'
<1>1. Placed(Top.ref) /\ Top.ref \in live \cup {Null}
    BY InitReturnPlaced
<1> QED BY <1>1, InvFacts, RunAction DEF InitReturn, Running

-----------------------------------------------------------------------------
(* The theorems. *)

(* The invariant holds when the machine starts. *)
LEMMA InitInv ==
    ASSUME Init
    PROVE  IInv
<1>1. stack = <<>> /\ frame = <<>> /\ Len(stack) = 0 /\ Len(frame) = 0
    BY DEF Init
<1>2. Floor = 0 /\ ~InNative
    BY <1>1 DEF Floor, InNative
<1>3. Roots = {}
    BY <1>1 DEF Init, Roots, Flagged, InContext
<1>4. TypeOK
    <2>1. /\ stack \in Seq(Slot) /\ frame \in Seq(Frame)
          /\ kind \in [Obj -> Kind] /\ field \in [Obj -> [Field -> Ref]]
          /\ static \in [Static -> Ref] /\ exception \in Ref
        BY <1>1 DEF Init, Kind, NoFields, Ref
    <2>2. request \in RequestType
        BY NoRequestType DEF Init
    <2>3. heapSize \in Int /\ threshold \in Int
        BY SizeAssumption DEF Init
    <2> QED BY <2>1, <2>2, <2>3 DEF Init, TypeOK, RequestType
<1> QED BY <1>1, <1>2, <1>3, <1>4
        DEF Init, IInv, SlotsFlagged, NoLocals, NoRequest, FramesOnStack,
            RequestOK, RootsLive, FieldsLive, Marking, Sweeping

(* Every step keeps the invariant. *)
LEMMA NextInv ==
    ASSUME NoSubstr, IInv, [Next]_vars
    PROVE  IInv'
<1>1. CASE Instructions
    <2>1. CASE PushNull
        BY <2>1, PushInv DEF PushNull
    <2>2. ASSUME NEW v \in Static, PushStatic(v)
          PROVE  IInv'
        BY <2>2, InvFacts, PushInv DEF PushStatic
    <2> QED BY <1>1, <2>1, <2>2, PopInv, ThrowInv, InitReturnInv, PopStaticInv,
               PushFieldInv, PopFieldInv, DuplicateInv, AllocateInv,
               AllocateInFieldInv DEF Instructions
<1>2. CASE NativeCode
    BY <1>2, InvokeNativeInv, AllocateInNativeInv, AllocateInNativeFieldInv,
       SetExceptionInv, ReturnNativeInv DEF NativeCode
<1>3. CASE Collect
    BY <1>3, CheckGCInv, StartSweepInv, EndSweepInv, GcMarkInv, GcSweepInv
       DEF Collect
<1>4. CASE UNCHANGED vars
    <2>1. /\ Roots' = Roots /\ Floor' = Floor /\ InNative' = InNative
          /\ SlotsFlagged' = SlotsFlagged /\ FramesOnStack' = FramesOnStack
        BY <1>4, SameRoots DEF vars
    <2>2. TypeOK' /\ NoLocals' /\ RequestOK'
        BY <1>4, <2>1 DEF vars, heapVars, rootVars, sweepVars, IInv, TypeOK,
                         NoLocals, RequestOK, InException, Children
    <2> QED BY <1>4, <2>1, <2>2
            DEF vars, heapVars, sweepVars, IInv, RootsLive, FieldsLive,
                Children, Marking, Sweeping
<1>5. CASE Complete
    BY <1>5, AllocObjectInv, ResizeArrayInv DEF Complete
<1> QED BY <1>1, <1>2, <1>3, <1>4, <1>5, ChangeArrayInv, RequestResizeInv DEF Next

(* The collector's invariant holds in every reachable state of every       *)
(* program that does not use substr: between the marking and the end of    *)
(* the sweep of dvm_garbage_collect nothing reachable is unmarked.         *)
THEOREM Invariance ==
    ASSUME NoSubstr
    PROVE  Spec => []IInv
<1>1. Init => IInv
    BY InitInv
<1>2. IInv /\ [Next]_vars => IInv'
    BY NextInv
<1> QED BY <1>1, <1>2, PTL DEF Spec

(* Type correctness of the interpreter's heap, stack and frames. *)
THEOREM TypeCorrect ==
    ASSUME NoSubstr
    PROVE  Spec => []TypeOK
<1>1. IInv => TypeOK
    BY DEF IInv
<1> QED BY <1>1, Invariance, PTL

(* Whatever the interpreter can name is a root of gc_mark_objects. *)
LEMMA InUseRoots ==
    ASSUME IInv
    PROVE  InUse \subseteq Roots
<1>1. Operands \subseteq Roots \cup {Null}
    BY OperandLive DEF Operands
<1>2. Held \subseteq Roots
    BY InvFacts, NoLocal DEF Held
<1> QED BY <1>1, <1>2 DEF InUse, Roots

(* What a set leads to lies in every closed set around it. *)
LEMMA ReachSubset ==
    ASSUME NEW R, NEW S \in SUBSET Obj, R \subseteq S,
           \A p \in S : Children(p) \subseteq S
    PROVE  Reach(R) \subseteq S
BY DEF Reach

(* The invariant rules out dangling references. *)
LEMMA InvNoDangling ==
    ASSUME IInv
    PROVE  NoDangling
<1>1. InUse \subseteq Roots /\ Roots \subseteq live /\ live \subseteq Obj
    BY InUseRoots DEF IInv, RootsLive, TypeOK
<1>2. CASE phase # "sweep"
    <2>1. \A p \in live : Children(p) \subseteq live
        BY <1>2 DEF IInv, FieldsLive
    <2> QED BY <1>1, <2>1, ReachSubset DEF NoDangling
<1>3. CASE phase = "sweep"
    <2>1. /\ marked \subseteq live /\ Roots \subseteq marked
          /\ \A p \in marked : Children(p) \subseteq marked
        BY <1>3 DEF IInv, Sweeping
    <2>2. Reach(InUse) \subseteq marked
        BY <1>1, <2>1, ReachSubset
    <2> QED BY <2>1, <2>2 DEF NoDangling
<1> QED BY <1>2, <1>3

(* The collector never frees what the program can still reach: for every   *)
(* number of objects, stack depth, nesting of native functions and program *)
(* that does not call substr.                                              *)
THEOREM Safety ==
    ASSUME NoSubstr
    PROVE  Spec => []NoDangling
<1>1. IInv => NoDangling
    BY InvNoDangling
<1> QED BY <1>1, Invariance, PTL
=============================================================================
