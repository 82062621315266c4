--------------------------- MODULE CallStackProofs ---------------------------
(***************************************************************************)
(* Proofs about CallStack: for every program that calls its functions with *)
(* the operands they need, the frames on the stack are those the program   *)
(* means, the flags tell the references, and the arrays hold what their    *)
(* methods mean; for every STACK_ALLOC_SIZE, size of the call information  *)
(* and ARRAY_ALLOC_SIZE.                                                   *)
(* When the functions are small enough the stack is never written past its *)
(* end.                                                                    *)
(***************************************************************************)
EXTENDS CallStack, VMArrayProofs, FiniteSetTheorems

-----------------------------------------------------------------------------
(* Sequences and slots.                                                    *)

LEMMA WrittenIs ==
    ASSUME NEW S, NEW s \in Seq(S), NEW i \in 0..(Len(s) - 1), NEW v \in S
    PROVE  /\ Written(s, i, v) \in Seq(S) /\ Len(Written(s, i, v)) = Len(s)
           /\ \A j \in 0..(Len(s) - 1) : At(Written(s, i, v), j) = IF j = i THEN v ELSE At(s, j)
<1> DEFINE t == Written(s, i, v)
<1>1. t = [s EXCEPT ![i + 1] = v]
  BY DEF Written
<1>2. t \in Seq(S) /\ Len(t) = Len(s)
  BY <1>1
<1>3. \A j \in 1..Len(s) : t[j] = IF j = i + 1 THEN v ELSE s[j]
  BY <1>1
<1> HIDE DEF t
<1>4. \A j \in 0..(Len(s) - 1) : At(t, j) = IF j = i THEN v ELSE At(s, j)
  BY <1>3 DEF At
<1> QED
  BY <1>2, <1>4 DEF t

LEMMA WriteAllIs ==
    ASSUME NEW S, NEW s \in Seq(S), NEW from \in Nat, NEW values \in Seq(S)
    PROVE  /\ WriteAll(s, from, values) \in Seq(S) /\ Len(WriteAll(s, from, values)) = Len(s)
           /\ \A j \in 0..(Len(s) - 1) :
                 At(WriteAll(s, from, values), j) =
                     IF j \in from .. from + Len(values) - 1 THEN values[j - from + 1] ELSE At(s, j)
<1> DEFINE n == Len(values)
           F(i) == IF i - 1 \in from .. from + n - 1 THEN values[i - from] ELSE s[i]
           t == [i \in 1..Len(s) |-> F(i)]
<1>1. n \in Nat /\ Len(s) \in Nat /\ DOMAIN s = 1..Len(s)
  OBVIOUS
<1>2. WriteAll(s, from, values) = t
  BY <1>1 DEF WriteAll
<1>3. \A i \in 1..Len(s) : F(i) \in S
  <2> TAKE i \in 1..Len(s)
  <2>1. CASE i - 1 \in from .. from + n - 1
    <3>1. i - from \in 1..n
      BY <1>1, <2>1
    <3>2. values[i - from] \in S
      BY <3>1
    <3> QED BY <2>1, <3>2
  <2>2. CASE i - 1 \notin from .. from + n - 1
    BY <2>2
  <2> QED BY <2>1, <2>2
<1>4. t \in Seq(S) /\ Len(t) = Len(s)
  <2> HIDE DEF F
  <2> QED BY <1>1, <1>3
<1>5. ASSUME NEW j \in 0..(Len(s) - 1)
      PROVE  At(t, j) = IF j \in from .. from + n - 1 THEN values[j - from + 1] ELSE At(s, j)
  <2>1. j + 1 \in 1..Len(s) /\ j + 1 - 1 = j /\ j + 1 - from = j - from + 1
    BY <1>1
  <2>2. At(t, j) = F(j + 1)
    BY <2>1 DEF At
  <2> QED BY <2>1, <2>2 DEF At
<1> QED
  BY <1>2, <1>4, <1>5

LEMMA FlagsWritten ==
    ASSUME NEW flags, NEW b, NEW from, flags \in Seq(BOOLEAN), b \in Seq(BOOLEAN), from \in Nat
    PROVE  /\ WriteAll(flags, from, b) \in Seq(BOOLEAN) /\ Len(WriteAll(flags, from, b)) = Len(flags)
           /\ \A j \in 0..(Len(flags) - 1) :
                 At(WriteAll(flags, from, b), j) =
                     IF j \in from .. from + Len(b) - 1 THEN b[j - from + 1] ELSE At(flags, j)
  BY WriteAllIs, ZenonT(60)

LEMMA GrownIs ==
    ASSUME NEW S, NEW s \in Seq(S), NEW by \in Int, NEW fill \in S
    PROVE  /\ Grown(s, by, fill) \in Seq(S)
           /\ Len(Grown(s, by, fill)) = Len(s) + (IF by > 0 THEN by ELSE 0)
           /\ \A j \in 0..(Len(s) - 1) : At(Grown(s, by, fill), j) = At(s, j)
<1> DEFINE t == [i \in 1..by |-> fill]
           n == IF by > 0 THEN by ELSE 0
<1>1. t \in Seq(S) /\ Len(t) = n
  <2>1. n \in Nat /\ 1..by = 1..n
    OBVIOUS
  <2>2. t = [i \in 1..n |-> fill]
    BY <2>1
  <2> HIDE DEF n, t
  <2>3. [i \in 1..n |-> fill] \in Seq(S) /\ Len([i \in 1..n |-> fill]) = n
    BY <2>1
  <2> QED BY <2>2, <2>3
<1>2. Grown(s, by, fill) = s \o t
  BY DEF Grown
<1> HIDE DEF t, n
<1>3. /\ s \o t \in Seq(S) /\ Len(s \o t) = Len(s) + n
      /\ \A i \in 1..Len(s) : (s \o t)[i] = s[i]
  BY <1>1
<1> QED
  BY <1>2, <1>3 DEF At, n

LEMMA FlagsGrown ==
    ASSUME NEW flags, flags \in Seq(BOOLEAN), NEW by \in Int
    PROVE  /\ Grown(flags, by, FALSE) \in Seq(BOOLEAN)
           /\ Len(Grown(flags, by, FALSE)) = Len(flags) + (IF by > 0 THEN by ELSE 0)
           /\ \A j \in 0..(Len(flags) - 1) : At(Grown(flags, by, FALSE), j) = At(flags, j)
<1> DEFINE fill == FALSE
<1>1. fill \in BOOLEAN
  OBVIOUS
<1> HIDE DEF fill
<1>2. /\ Grown(flags, by, fill) \in Seq(BOOLEAN)
      /\ Len(Grown(flags, by, fill)) = Len(flags) + (IF by > 0 THEN by ELSE 0)
      /\ \A j \in 0..(Len(flags) - 1) : At(Grown(flags, by, fill), j) = At(flags, j)
  BY <1>1, GrownIs
<1> QED
  BY <1>2 DEF fill

LEMMA NoPointersAre ==
    ASSUME NEW n \in Nat
    PROVE  /\ NoPointers(n) \in Seq(BOOLEAN) /\ Len(NoPointers(n)) = n
           /\ \A i \in 1..n : NoPointers(n)[i] = FALSE
<1> DEFINE fill == FALSE
           t == [i \in 1..n |-> fill]
<1>1. fill \in BOOLEAN /\ NoPointers(n) = t
  BY DEF NoPointers
<1> HIDE DEF fill
<1>2. t \in Seq(BOOLEAN) /\ Len(t) = n
  BY <1>1
<1>3. \A i \in 1..n : t[i] = fill
  OBVIOUS
<1> HIDE DEF t
<1>4. \A i \in 1..n : t[i] = FALSE
  BY <1>3 DEF fill
<1> QED
  BY <1>1, <1>2, <1>4

LEMMA LowerIs ==
    ASSUME NEW S, NEW s \in Seq(S), NEW n \in 0..Len(s)
    PROVE  /\ SubSeq(s, 1, Len(s) - n) \in Seq(S) /\ Len(SubSeq(s, 1, Len(s) - n)) = Len(s) - n
           /\ \A i \in 1..(Len(s) - n) : SubSeq(s, 1, Len(s) - n)[i] = s[i]
  OBVIOUS

LEMMA LastOfIs ==
    ASSUME NEW S, NEW s \in Seq(S), NEW n \in 0..Len(s)
    PROVE  /\ LastOf(s, n) \in Seq(S) /\ Len(LastOf(s, n)) = n
           /\ \A i \in 1..n : LastOf(s, n)[i] = s[Len(s) - n + i]
<1>1. LastOf(s, n) = SubSeq(s, Len(s) - n + 1, Len(s))
  BY DEF LastOf
<1>2. SubSeq(s, Len(s) - n + 1, Len(s)) \in Seq(S)
  OBVIOUS
<1>3. /\ Len(SubSeq(s, Len(s) - n + 1, Len(s))) = n
      /\ \A i \in 1..n : SubSeq(s, Len(s) - n + 1, Len(s))[i] = s[Len(s) - n + i]
  OBVIOUS
<1> QED
  BY <1>1, <1>2, <1>3

LEMMA FrontIs ==
    ASSUME NEW S, NEW s \in Seq(S), s # << >>
    PROVE  /\ Front(s) = SubSeq(s, 1, Len(s) - 1) /\ Last(s) = s[Len(s)]
           /\ Front(s) \in Seq(S) /\ Len(Front(s)) = Len(s) - 1 /\ Len(s) > 0 /\ Last(s) \in S
           /\ \A i \in 1..(Len(s) - 1) : Front(s)[i] = s[i]
<1>1. Len(s) \in Nat \ {0}
  OBVIOUS
<1>2. Front(s) = SubSeq(s, 1, Len(s) - 1) /\ Last(s) = s[Len(s)]
  BY DEF Front, Last
<1>3. /\ SubSeq(s, 1, Len(s) - 1) \in Seq(S) /\ Len(SubSeq(s, 1, Len(s) - 1)) = Len(s) - 1
      /\ \A i \in 1..(Len(s) - 1) : SubSeq(s, 1, Len(s) - 1)[i] = s[i]
  <2>1. 1 \in 0..Len(s)
    BY <1>1
  <2> QED BY <2>1, LowerIs
<1>4. s[Len(s)] \in S
  BY <1>1
<1> QED
  BY <1>1, <1>2, <1>3, <1>4

LEMMA AppendIs ==
    ASSUME NEW S, NEW s \in Seq(S), NEW v \in S
    PROVE  /\ Append(s, v) \in Seq(S) /\ Len(Append(s, v)) = Len(s) + 1
           /\ \A i \in 1..(Len(s) + 1) : Append(s, v)[i] = IF i <= Len(s) THEN s[i] ELSE v
  OBVIOUS

LEMMA ConcatIs ==
    ASSUME NEW S, NEW s \in Seq(S), NEW t \in Seq(S)
    PROVE  /\ s \o t \in Seq(S) /\ Len(s \o t) = Len(s) + Len(t)
           /\ \A i \in 1..(Len(s) + Len(t)) :
                 (s \o t)[i] = IF i <= Len(s) THEN s[i] ELSE t[i - Len(s)]
  OBVIOUS

-----------------------------------------------------------------------------
(* Frames on the stack, for a program p, a stack s and the frames m that   *)
(* the program means.                                                      *)
Type       == STRING \cup {"int", "array", "object", "delegate", "garbage", "call"}
Value      == Type \X Int
Slot       == Value \cup (Type \X Int \X Int \X Int)
FrameType  == [function : Nat, first : Nat, variables : Seq(Value), operands : Seq(Value),
               pc : Nat \ {0}]
Activation == [function : Nat, func : Nat, pc : Nat, base : Nat, moved : Nat]

Arity(p, f)        == Len(p[f].parameters) + (IF p[f].method THEN 1 ELSE 0)
NativeIn(p, frame) == p[frame.function].kind = "native"

(* What one frame must be.                                                 *)
Shaped(p, frame) ==
    /\ frame \in FrameType /\ frame.function \in DOMAIN p
    /\ Len(frame.variables) = Arity(p, frame.function) + Len(p[frame.function].locals)
    /\ NativeIn(p, frame) => frame.operands = << >> /\ ~p[frame.function].return_pointer

(* The frames lie one after the other; a native function is called by a    *)
(* function that is not.                                                   *)
Layout(p, m) ==
    /\ m \in Seq(FrameType) /\ Len(m) > 0 /\ m[1].first = 0
    /\ \A k \in DOMAIN m :
          /\ Shaped(p, m[k])
          /\ m[k].function = Top <=> k = 1
          /\ k > 1 => m[k].first = End(m[k - 1])
          /\ k > 1 /\ NativeIn(p, m[k]) => ~NativeIn(p, m[k - 1])
    /\ \A j, k \in DOMAIN m : j < k => End(m[j]) <= m[k].first

Within(p, s, frame) ==
    /\ \A i \in 1..Len(frame.variables) :
          At(s, frame.first + i - 1 + (IF i <= Arity(p, frame.function) THEN 0 ELSE InfoSize(frame)))
              = frame.variables[i]
    /\ \A i \in 1..Len(frame.operands) :
          At(s, frame.first + InfoSize(frame) + Len(frame.variables) + i - 1) = frame.operands[i]

Linked(p, s, frame, below) ==
    LET info == At(s, frame.first + Arity(p, frame.function))
    IN  /\ NativeIn(p, below) <=> CallerAddress(info) = CallFromNative
        /\ ~NativeIn(p, below) => /\ Caller(info) = below.function
                                  /\ CallerAddress(info) + 1 = below.pc
                                  /\ CallerBase(info) = below.first

Stored(p, s, m) ==
    \A k \in DOMAIN m : Within(p, s, m[k]) /\ (k > 1 => Linked(p, s, m[k], m[k - 1]))

Sound(p, s, m) == p \in Programs /\ Layout(p, m) /\ Stored(p, s, m)

Agree(s, t, n) == \A j \in 0..(n - 1) : At(t, j) = At(s, j)

LEMMA ProgramIs ==
    ASSUME NEW p \in Programs, NEW f \in DOMAIN p
    PROVE  /\ Arity(p, f) \in Nat /\ Len(p[f].parameters) \in Nat /\ Len(p[f].locals) \in Nat
           /\ f \in Nat /\ p[f].method \in BOOLEAN /\ p[f].locals \in Seq(STRING)
           /\ p[f].parameters \in Seq(STRING) /\ p[f].kind \in {"diksam", "native"}
           /\ p[f].type \in STRING /\ p[f].code \in Seq([op : STRING, n : Int])
           /\ p[f].kind = "native" => Len(p[f].locals) = 0
           /\ Arity(p, f) = Len(p[f].parameters) + (IF p[f].method THEN 1 ELSE 0)
           /\ Top \in DOMAIN p /\ Arity(p, Top) = 0 /\ Len(p[Top].locals) = 0
           /\ p[Top].kind = "diksam"
<1>1. p[f] \in [kind : {"diksam", "native"}, method : BOOLEAN, parameters : Seq(STRING),
                locals : Seq(STRING), type : STRING, proc : STRING,
                return_pointer : BOOLEAN, code : Seq([op : STRING, n : Int])]
  BY ProgramsAssumption
<1>2. /\ f \in Nat /\ (p[f].kind = "native" => p[f].locals = << >>)
      /\ Top \in DOMAIN p /\ p[Top].kind = "diksam" /\ ~p[Top].method
      /\ p[Top].parameters = << >> /\ p[Top].locals = << >>
  BY ProgramsAssumption DEF Top
<1> QED
  BY <1>1, <1>2 DEF Arity

LEMMA RegisteredIs ==
    ASSUME NEW p \in Programs, NEW f \in DOMAIN p
    PROVE  p[f].return_pointer \in BOOLEAN
<1>1. p[f] \in [kind : {"diksam", "native"}, method : BOOLEAN, parameters : Seq(STRING),
                locals : Seq(STRING), type : STRING, proc : STRING,
                return_pointer : BOOLEAN, code : Seq([op : STRING, n : Int])]
  BY ProgramsAssumption
<1> QED
  BY <1>1

LEMMA FrameIs ==
    ASSUME NEW p \in Programs, NEW frame, Shaped(p, frame)
    PROVE  /\ frame.first \in Nat /\ frame.function \in DOMAIN p /\ frame.function \in Nat
           /\ frame.variables \in Seq(Value) /\ frame.operands \in Seq(Value)
           /\ Len(frame.variables) \in Nat /\ Len(frame.operands) \in Nat /\ frame.pc \in Nat \ {0}
           /\ InfoSize(frame) \in Nat /\ InfoSize(frame) <= CallInfoSize
           /\ frame.function # Top => InfoSize(frame) = CallInfoSize
           /\ frame.function = Top => InfoSize(frame) = 0
           /\ End(frame) \in Nat
           /\ End(frame) = frame.first + InfoSize(frame) + Len(frame.variables) + Len(frame.operands)
           /\ Arity(p, frame.function) \in 0..Len(frame.variables)
           /\ Len(frame.variables) = Arity(p, frame.function) + Len(p[frame.function].locals)
           /\ frame.first <= End(frame)
<1>1. /\ frame \in FrameType /\ frame.function \in DOMAIN p
      /\ Len(frame.variables) = Arity(p, frame.function) + Len(p[frame.function].locals)
  BY DEF Shaped
<1>2. /\ frame.first \in Nat /\ frame.variables \in Seq(Value) /\ frame.operands \in Seq(Value)
      /\ Len(frame.variables) \in Nat /\ Len(frame.operands) \in Nat /\ frame.pc \in Nat \ {0}
      /\ frame.function \in Nat
  <2> HIDE DEF Value
  <2> QED BY <1>1 DEF FrameType
<1>3. Arity(p, frame.function) \in Nat /\ Len(p[frame.function].locals) \in Nat
  BY <1>1, ProgramIs
<1>4. CallInfoSize \in Nat \ {0}
  BY StackAllocSizeAssumption
<1>5. /\ InfoSize(frame) \in Nat /\ InfoSize(frame) <= CallInfoSize
      /\ frame.function # Top => InfoSize(frame) = CallInfoSize
      /\ frame.function = Top => InfoSize(frame) = 0
  BY <1>4 DEF InfoSize
<1>6. End(frame) = frame.first + InfoSize(frame) + Len(frame.variables) + Len(frame.operands)
  BY DEF End
<1>7. End(frame) \in Nat /\ frame.first <= End(frame)
  BY ONLY <1>2, <1>5, <1>6
<1>8. Arity(p, frame.function) \in 0..Len(frame.variables)
  <2> DEFINE a == Arity(p, frame.function)
             x == Len(p[frame.function].locals)
             v == Len(frame.variables)
  <2>1. a \in Nat /\ x \in Nat /\ v = a + x
    BY <1>1, <1>3
  <2> HIDE DEF a, x, v
  <2>2. a \in 0..v
    BY ONLY <2>1
  <2> QED BY <2>2 DEF a, v
<1> QED
  BY ONLY <1>1, <1>2, <1>5, <1>6, <1>7, <1>8

(* A frame depends on its own slots only.                                  *)
LEMMA HoldsOn ==
    ASSUME NEW p \in Programs, NEW frame, Shaped(p, frame), NEW s, NEW t, NEW n \in Nat,
           Agree(s, t, n), End(frame) <= n, Within(p, s, frame)
    PROVE  Within(p, t, frame)
<1> DEFINE a == Arity(p, frame.function)
           b == frame.first
           v == Len(frame.variables)
           o == Len(frame.operands)
           z == InfoSize(frame)
<1>1. /\ a \in Nat /\ b \in Nat /\ v \in Nat /\ o \in Nat /\ z \in Nat
      /\ b + z + v + o <= n
  <2>1. End(frame) = b + z + v + o
    BY FrameIs
  <2> QED BY <2>1, FrameIs
<1>2. /\ \A i \in 1..v : At(s, b + i - 1 + (IF i <= a THEN 0 ELSE z)) = frame.variables[i]
      /\ \A i \in 1..o : At(s, b + z + v + i - 1) = frame.operands[i]
  BY DEF Within
<1> HIDE DEF a, b, v, o, z
<1>3. ASSUME NEW i \in 1..v
      PROVE  b + i - 1 + (IF i <= a THEN 0 ELSE z) \in 0..(n - 1)
  BY <1>1
<1>4. ASSUME NEW i \in 1..o
      PROVE  b + z + v + i - 1 \in 0..(n - 1)
  BY <1>1
<1>5. \A i \in 1..v : At(t, b + i - 1 + (IF i <= a THEN 0 ELSE z)) = frame.variables[i]
  BY <1>2, <1>3 DEF Agree
<1>6. \A i \in 1..o : At(t, b + z + v + i - 1) = frame.operands[i]
  BY <1>2, <1>4 DEF Agree
<1> QED
  BY <1>5, <1>6 DEF Within, a, b, v, o, z

LEMMA LinkedOn ==
    ASSUME NEW p \in Programs, NEW frame, Shaped(p, frame), frame.function # Top,
           NEW s, NEW t, NEW n \in Nat, NEW below,
           Agree(s, t, n), End(frame) <= n, Linked(p, s, frame, below)
    PROVE  Linked(p, t, frame, below)
<1>1. CallInfoSize \in Nat \ {0}
  BY StackAllocSizeAssumption
<1>2. frame.first + Arity(p, frame.function) \in 0..(n - 1)
  <2> DEFINE a == Arity(p, frame.function)
  <2>1. /\ frame.first \in Nat /\ a \in Nat /\ InfoSize(frame) = CallInfoSize
        /\ Len(frame.variables) \in Nat /\ Len(frame.operands) \in Nat
        /\ a <= Len(frame.variables)
    BY FrameIs
  <2>2. End(frame) = frame.first + CallInfoSize + Len(frame.variables) + Len(frame.operands)
    BY <2>1, FrameIs
  <2> HIDE DEF a
  <2>3. frame.first + a \in 0..(n - 1)
    BY <1>1, <2>1, <2>2
  <2> QED BY <2>3 DEF a
<1>3. At(t, frame.first + Arity(p, frame.function)) = At(s, frame.first + Arity(p, frame.function))
  BY <1>2 DEF Agree
<1> QED
  BY <1>3 DEF Linked

LEMMA Ends ==
    ASSUME NEW p \in Programs, NEW m, Layout(p, m), NEW k \in DOMAIN m
    PROVE  /\ Len(m) \in Nat \ {0} /\ DOMAIN m = 1..Len(m) /\ Shaped(p, m[k])
           /\ End(m[k]) \in Nat /\ End(m[k]) <= End(m[Len(m)])
<1>1. Len(m) \in Nat \ {0} /\ DOMAIN m = 1..Len(m) /\ Shaped(p, m[k]) /\ Shaped(p, m[Len(m)])
  BY DEF Layout
<1>2. End(m[k]) \in Nat /\ End(m[Len(m)]) \in Nat /\ m[Len(m)].first <= End(m[Len(m)])
      /\ m[Len(m)].first \in Nat
  BY <1>1, FrameIs
<1>3. k < Len(m) => End(m[k]) <= m[Len(m)].first
  BY <1>1 DEF Layout
<1> QED
  BY <1>1, <1>2, <1>3

LEMMA Kept ==
    ASSUME NEW p \in Programs, NEW m, Layout(p, m), NEW s, NEW t,
           Agree(s, t, End(m[Len(m)])), Stored(p, s, m)
    PROVE  Stored(p, t, m)
<1> SUFFICES ASSUME NEW k \in DOMAIN m
             PROVE  Within(p, t, m[k]) /\ (k > 1 => Linked(p, t, m[k], m[k - 1]))
  BY DEF Stored
<1>1. /\ Shaped(p, m[k]) /\ End(m[k]) <= End(m[Len(m)]) /\ Len(m) \in DOMAIN m
  BY Ends
<1>2. End(m[Len(m)]) \in Nat
  BY <1>1, Ends
<1>3. k > 1 => m[k].function # Top
  BY DEF Layout
<1>4. Within(p, s, m[k]) /\ (k > 1 => Linked(p, s, m[k], m[k - 1]))
  BY DEF Stored
<1>5. Within(p, t, m[k])
  BY <1>1, <1>2, <1>4, HoldsOn
<1>6. k > 1 => Linked(p, t, m[k], m[k - 1])
  BY <1>1, <1>2, <1>3, <1>4, LinkedOn
<1> QED
  BY <1>5, <1>6

(* A frame on top.                                                         *)
LEMMA FramePushed ==
    ASSUME NEW p \in Programs, NEW m, Layout(p, m), NEW s, Stored(p, s, m),
           NEW frame, Shaped(p, frame), frame.function # Top,
           frame.first = End(m[Len(m)]), NativeIn(p, frame) => ~NativeIn(p, m[Len(m)]),
           Within(p, s, frame), Linked(p, s, frame, m[Len(m)])
    PROVE  Layout(p, Append(m, frame)) /\ Stored(p, s, Append(m, frame))
<1> DEFINE n == Len(m)
           t == Append(m, frame)
<1>1. /\ m \in Seq(FrameType) /\ n \in Nat \ {0} /\ DOMAIN m = 1..n /\ frame \in FrameType
      /\ m[1].first = 0
  BY DEF Layout, Shaped
<1>2. /\ t \in Seq(FrameType) /\ Len(t) = n + 1 /\ DOMAIN t = 1..(n + 1)
      /\ \A k \in 1..n : t[k] = m[k]
      /\ t[n + 1] = frame
  BY <1>1, AppendIs
<1> HIDE DEF t, n
<1>3. ASSUME NEW k \in 1..(n + 1)
      PROVE  /\ Shaped(p, t[k])
             /\ t[k].function = Top <=> k = 1
             /\ k > 1 => t[k].first = End(t[k - 1])
             /\ k > 1 /\ NativeIn(p, t[k]) => ~NativeIn(p, t[k - 1])
             /\ Within(p, s, t[k]) /\ (k > 1 => Linked(p, s, t[k], t[k - 1]))
  <2>1. CASE k <= n
    <3>1. k \in DOMAIN m /\ t[k] = m[k] /\ (k > 1 => t[k - 1] = m[k - 1])
      BY <1>1, <1>2, <2>1
    <3> QED BY <3>1 DEF Layout, Stored
  <2>2. CASE k = n + 1
    <3>1. k > 1 /\ t[k] = frame /\ t[k - 1] = m[n] /\ k - 1 = n
      BY <1>1, <1>2, <2>2
    <3> QED BY <3>1 DEF n
  <2> QED BY <1>1, <2>1, <2>2
<1>4. ASSUME NEW j \in 1..(n + 1), NEW k \in 1..(n + 1), j < k
      PROVE  End(t[j]) <= t[k].first
  <2>1. j \in DOMAIN m /\ t[j] = m[j]
    BY <1>1, <1>2, <1>4
  <2>2. CASE k <= n
    BY <1>1, <1>2, <1>4, <2>1, <2>2 DEF Layout
  <2>3. CASE k = n + 1
    BY <1>2, <2>1, <2>3, Ends DEF n
  <2> QED BY <1>1, <2>2, <2>3
<1>5. t[1].first = 0 /\ Len(t) > 0
  BY <1>1, <1>2
<1>6. Layout(p, t)
  BY <1>2, <1>3, <1>4, <1>5 DEF Layout
<1>7. Stored(p, s, t)
  BY <1>2, <1>3 DEF Stored
<1> QED
  BY <1>6, <1>7 DEF t

(* The last frames away.                                                   *)
LEMMA FramesPopped ==
    ASSUME NEW p, NEW s, NEW m, Sound(p, s, m), NEW i \in 1..(Len(m) - 1)
    PROVE  /\ Sound(p, s, Lower(m, i))
           /\ Len(Lower(m, i)) = Len(m) - i /\ DOMAIN Lower(m, i) = 1..(Len(m) - i)
           /\ Len(m) \in Nat \ {0} /\ DOMAIN m = 1..Len(m)
           /\ \A k \in 1..(Len(m) - i) : Lower(m, i)[k] = m[k]
<1> DEFINE n == Len(m)
           t == Lower(m, i)
<1>1. /\ m \in Seq(FrameType) /\ n \in Nat /\ n > 1 /\ DOMAIN m = 1..n /\ i \in 1..(n - 1)
      /\ p \in Programs /\ Layout(p, m) /\ Stored(p, s, m)
  <2>1. m \in Seq(FrameType) /\ p \in Programs /\ Layout(p, m) /\ Stored(p, s, m)
    BY DEF Sound, Layout
  <2>2. n \in Nat /\ DOMAIN m = 1..n
    BY <2>1
  <2> HIDE DEF n
  <2> QED BY <2>1, <2>2 DEF n
<1>2. /\ t \in Seq(FrameType) /\ Len(t) = n - i /\ DOMAIN t = 1..(n - i)
      /\ \A k \in 1..(n - i) : t[k] = m[k]
  <2>1. i \in 0..Len(m) /\ m \in Seq(FrameType) /\ n - i \in Nat
    <3> HIDE DEF n
    <3>1. i \in 0..n /\ n - i \in Nat
      BY <1>1
    <3> QED BY <1>1, <3>1 DEF n
  <2>2. t = SubSeq(m, 1, Len(m) - i)
    BY DEF Lower
  <2> HIDE DEF t, n
  <2>3. /\ t \in Seq(FrameType) /\ Len(t) = n - i
        /\ \A k \in 1..(n - i) : t[k] = m[k]
    <3>1. /\ SubSeq(m, 1, Len(m) - i) \in Seq(FrameType)
          /\ Len(SubSeq(m, 1, Len(m) - i)) = Len(m) - i
          /\ \A k \in 1..(Len(m) - i) : SubSeq(m, 1, Len(m) - i)[k] = m[k]
      BY <2>1, LowerIs
    <3> QED BY <2>2, <3>1 DEF n
  <2> QED BY <2>1, <2>3
<1> HIDE DEF t, n
<1>3. \A k \in 1..(n - i) : k \in DOMAIN m /\ t[k] = m[k] /\ (k > 1 => t[k - 1] = m[k - 1])
  BY <1>1, <1>2
<1>4. Layout(p, t)
  <2>1. t[1].first = 0
    BY <1>1, <1>3 DEF Layout
  <2>2. Len(t) > 0
    BY <1>1, <1>2
  <2>3. \A k \in DOMAIN t :
          /\ Shaped(p, t[k])
          /\ t[k].function = Top <=> k = 1
          /\ k > 1 => t[k].first = End(t[k - 1])
          /\ k > 1 /\ NativeIn(p, t[k]) => ~NativeIn(p, t[k - 1])
    BY <1>1, <1>2, <1>3 DEF Layout
  <2>4. \A j, k \in DOMAIN t : j < k => End(t[j]) <= t[k].first
    BY <1>1, <1>2, <1>3 DEF Layout
  <2> QED BY <1>2, <2>1, <2>2, <2>3, <2>4 DEF Layout
<1>5. Stored(p, s, t)
  BY <1>1, <1>2, <1>3 DEF Stored
<1>6. Sound(p, s, t)
  BY <1>1, <1>4, <1>5 DEF Sound
<1> QED
  BY <1>1, <1>2, <1>6 DEF t, n

(* The top frame changed: its variables, its operands and where it goes    *)
(* on, in slots of its own.                                                *)
Changes(p, s, t, top, frame) ==
    /\ Agree(s, t, top.first)
    /\ top.function # Top => At(t, top.first + Arity(p, top.function))
                              = At(s, top.first + Arity(p, top.function))
    /\ Shaped(p, frame) /\ Within(p, t, frame)
    /\ frame.function = top.function /\ frame.first = top.first

OnTop(p, m, t, frame, u) ==
    /\ Layout(p, u) /\ Stored(p, t, u)
    /\ Len(u) = Len(m) /\ DOMAIN u = 1..Len(m) /\ u[Len(m)] = frame
    /\ \A k \in 1..(Len(m) - 1) : u[k] = m[k]

LEMMA FrameChanged ==
    ASSUME NEW p, NEW s, NEW m, Sound(p, s, m), NEW t, NEW frame,
           Changes(p, s, t, m[Len(m)], frame)
    PROVE  OnTop(p, m, t, frame, Append(Lower(m, 1), frame))
<1> SUFFICES ASSUME p \in Programs, Layout(p, m), Stored(p, s, m),
                    Agree(s, t, m[Len(m)].first),
                    m[Len(m)].function # Top =>
                        At(t, m[Len(m)].first + Arity(p, m[Len(m)].function))
                            = At(s, m[Len(m)].first + Arity(p, m[Len(m)].function)),
                    Shaped(p, frame), Within(p, t, frame),
                    frame.function = m[Len(m)].function, frame.first = m[Len(m)].first
             PROVE  OnTop(p, m, t, frame, Append(Lower(m, 1), frame))
  BY DEF Sound, Changes
<1> DEFINE n == Len(m)
           u == Append(Lower(m, 1), frame)
<1>1. m \in Seq(FrameType) /\ n \in Nat \ {0} /\ DOMAIN m = 1..n /\ frame \in FrameType
  BY DEF Layout, Shaped
<1>2. /\ u \in Seq(FrameType) /\ Len(u) = n /\ DOMAIN u = 1..n
      /\ \A k \in 1..(n - 1) : u[k] = m[k]
      /\ u[n] = frame
  <2>1. 1 \in 0..Len(m)
    BY <1>1
  <2>2. /\ Lower(m, 1) \in Seq(FrameType) /\ Len(Lower(m, 1)) = n - 1
        /\ \A k \in 1..(n - 1) : Lower(m, 1)[k] = m[k]
    BY <1>1, <2>1, LowerIs DEF Lower
  <2> HIDE DEF n
  <2> QED BY <1>1, <2>2, AppendIs
<1> HIDE DEF u, n
<1>3. NativeIn(p, frame) <=> NativeIn(p, m[n])
  BY DEF NativeIn, n
<1>4. \A k \in 1..n : /\ k \in DOMAIN m /\ u[k].function = m[k].function /\ u[k].first = m[k].first
                      /\ Shaped(p, u[k]) /\ (NativeIn(p, u[k]) <=> NativeIn(p, m[k]))
                      /\ k > 1 => k - 1 \in 1..(n - 1) /\ u[k - 1] = m[k - 1]
                      /\ k < n => u[k] = m[k] /\ Shaped(p, m[k])
  <2> TAKE k \in 1..n
  <2>1. k \in DOMAIN m /\ (k > 1 => k - 1 \in 1..(n - 1))
    BY <1>1
  <2>2. CASE k < n
    <3>1. Shaped(p, m[k])
      BY <2>1 DEF Layout
    <3>2. u[k] = m[k]
      BY <1>1, <1>2, <2>2
    <3> QED BY <1>2, <2>1, <3>1, <3>2
  <2>3. CASE k = n
    <3>1. u[k] = frame
      BY <1>2, <2>3
    <3> QED BY <1>2, <1>3, <2>1, <2>3, <3>1 DEF n
  <2> QED BY <1>1, <2>2, <2>3
<1>5. Layout(p, u)
  <2>1. u[1].first = 0 /\ Len(u) > 0
    BY <1>1, <1>2, <1>4 DEF Layout
  <2>2. ASSUME NEW k \in 1..n
        PROVE  /\ Shaped(p, u[k])
               /\ u[k].function = Top <=> k = 1
               /\ k > 1 => u[k].first = End(u[k - 1])
               /\ k > 1 /\ NativeIn(p, u[k]) => ~NativeIn(p, u[k - 1])
    BY <1>4 DEF Layout
  <2>3. ASSUME NEW j \in 1..n, NEW k \in 1..n, j < k
        PROVE  End(u[j]) <= u[k].first
    <3>1. u[j] = m[j]
      BY <1>1, <1>2, <2>3
    <3> QED BY <1>4, <2>3, <3>1 DEF Layout
  <2> QED BY <1>2, <2>1, <2>2, <2>3 DEF Layout
<1>6. Stored(p, t, u)
  <2> SUFFICES ASSUME NEW k \in 1..n
               PROVE  Within(p, t, u[k]) /\ (k > 1 => Linked(p, t, u[k], u[k - 1]))
    BY <1>2 DEF Stored
  <2>1. Within(p, s, m[k]) /\ (k > 1 => Linked(p, s, m[k], m[k - 1]))
    BY <1>4 DEF Stored
  <2>2. CASE k < n
    <3>1. End(m[k]) <= m[n].first /\ m[n].first \in Nat
      <4>1. n \in DOMAIN m /\ k \in DOMAIN m /\ Shaped(p, m[n])
        BY <1>1 DEF Layout
      <4> QED BY <2>2, <4>1, FrameIs DEF Layout
    <3>2. k > 1 => m[k].function # Top
      BY <1>4 DEF Layout
    <3>3. Agree(s, t, m[n].first)
      BY DEF n
    <3>4. Shaped(p, m[k]) /\ u[k] = m[k]
      BY <1>4, <2>2
    <3>5. Within(p, t, m[k])
      BY <2>1, <3>1, <3>3, <3>4, HoldsOn
    <3>6. k > 1 => Linked(p, t, m[k], m[k - 1])
      BY <2>1, <3>1, <3>2, <3>3, <3>4, LinkedOn
    <3> QED BY <1>4, <3>4, <3>5, <3>6
  <2>3. CASE k = n
    <3>1. u[k] = frame /\ Within(p, t, frame)
      BY <1>2, <2>3
    <3>2. k > 1 => Linked(p, t, frame, m[k - 1])
      <4>1. k > 1 => m[k].function # Top
        BY <1>4 DEF Layout
      <4> QED BY <2>1, <2>3, <4>1 DEF Linked, n
    <3> QED BY <1>4, <3>1, <3>2
  <2> QED BY <1>1, <2>2, <2>3
<1> QED
  BY <1>2, <1>5, <1>6 DEF OnTop, u, n

-----------------------------------------------------------------------------
(* The native functions that run, n, and their frames.                     *)
NativesIn(p, m, k) == {j \in 1..k : NativeIn(p, m[j])}
Natives(p, m, k)   == Cardinality(NativesIn(p, m, k))

Activated(p, m, n) ==
    /\ n \in Seq(Activation) /\ Len(n) = Natives(p, m, Len(m))
    /\ \A k \in DOMAIN m : k > 1 /\ NativeIn(p, m[k]) =>
          LET e == n[Natives(p, m, k)]
          IN  /\ e.function = m[k].function /\ e.func = m[k - 1].function
              /\ e.pc + 1 = m[k - 1].pc /\ e.base = m[k - 1].first

LEMMA NativesAre ==
    ASSUME NEW p, NEW m, NEW k \in Nat
    PROVE  /\ IsFiniteSet(NativesIn(p, m, k)) /\ Natives(p, m, k) \in Nat
           /\ NativeIn(p, m[k + 1]) => Natives(p, m, k + 1) = Natives(p, m, k) + 1
           /\ ~NativeIn(p, m[k + 1]) => Natives(p, m, k + 1) = Natives(p, m, k)
<1>1. IsFiniteSet(NativesIn(p, m, k))
  <2>1. NativesIn(p, m, k) \subseteq 1..k
    BY DEF NativesIn
  <2>2. IsFiniteSet(1..k)
    BY FS_Interval
  <2> QED BY <2>1, <2>2, FS_Subset
<1>2. Natives(p, m, k) \in Nat
  BY <1>1, FS_CardinalityType DEF Natives
<1>3. CASE NativeIn(p, m[k + 1])
  <2>1. NativesIn(p, m, k + 1) = NativesIn(p, m, k) \cup {k + 1}
    BY <1>3 DEF NativesIn
  <2>2. k + 1 \notin NativesIn(p, m, k)
    BY DEF NativesIn
  <2> QED BY <1>1, <1>2, <1>3, <2>1, <2>2, FS_AddElement DEF Natives
<1>4. CASE ~NativeIn(p, m[k + 1])
  <2>1. NativesIn(p, m, k + 1) = NativesIn(p, m, k)
    BY <1>4 DEF NativesIn
  <2> QED BY <1>1, <1>2, <1>4, <2>1 DEF Natives
<1> QED
  BY <1>1, <1>2, <1>3, <1>4

LEMMA SameNatives ==
    ASSUME NEW p, NEW m, NEW t, NEW k \in Nat,
           \A j \in 1..k : NativeIn(p, t[j]) <=> NativeIn(p, m[j])
    PROVE  Natives(p, t, k) = Natives(p, m, k)
  BY DEF Natives, NativesIn

LEMMA NativesGrow ==
    ASSUME NEW p, NEW m, NEW k \in Nat, NEW j \in 1..k, NativeIn(p, m[j])
    PROVE  Natives(p, m, j) \in 1..Natives(p, m, k)
<1>1. NativesIn(p, m, j) \subseteq NativesIn(p, m, k) /\ j \in NativesIn(p, m, j)
  BY DEF NativesIn
<1>2. IsFiniteSet(NativesIn(p, m, k)) /\ IsFiniteSet(NativesIn(p, m, j))
  BY NativesAre
<1>3. Natives(p, m, j) <= Natives(p, m, k)
  BY <1>1, <1>2, FS_Subset DEF Natives
<1>4. Natives(p, m, j) # 0
  BY <1>1, <1>2, FS_EmptySet DEF Natives
<1>5. Natives(p, m, j) \in Nat /\ Natives(p, m, k) \in Nat
  BY NativesAre
<1> QED
  BY <1>3, <1>4, <1>5

(* Changing the top frame, and pushing and popping one that is not native. *)
LEMMA ActivatedChanged ==
    ASSUME NEW p, NEW m, NEW t, NEW n, Activated(p, m, n),
           Len(m) \in Nat \ {0}, DOMAIN m = 1..Len(m), Len(t) = Len(m), DOMAIN t = 1..Len(m),
           \A k \in 1..(Len(m) - 1) : t[k] = m[k],
           ~NativeIn(p, m[Len(m)]), ~NativeIn(p, t[Len(m)])
    PROVE  Activated(p, t, n)
<1>1. \A j \in 1..Len(m) : NativeIn(p, t[j]) <=> NativeIn(p, m[j])
  OBVIOUS
<1>2. \A k \in 1..Len(m) : Natives(p, t, k) = Natives(p, m, k)
  BY <1>1, SameNatives
<1>3. ASSUME NEW k \in DOMAIN t, k > 1, NativeIn(p, t[k])
      PROVE  /\ n[Natives(p, t, k)].function = t[k].function
             /\ n[Natives(p, t, k)].func = t[k - 1].function
             /\ n[Natives(p, t, k)].pc + 1 = t[k - 1].pc
             /\ n[Natives(p, t, k)].base = t[k - 1].first
  <2>1. k \in 1..(Len(m) - 1) /\ k - 1 \in 1..(Len(m) - 1)
    BY <1>3
  <2>2. t[k] = m[k] /\ t[k - 1] = m[k - 1] /\ Natives(p, t, k) = Natives(p, m, k) /\ k \in DOMAIN m
    BY <1>2, <2>1
  <2> QED BY <1>3, <2>2 DEF Activated
<1> QED
  BY <1>2, <1>3 DEF Activated

LEMMA ActivatedPushed ==
    ASSUME NEW p, NEW m, NEW t, NEW n, Activated(p, m, n),
           Len(m) \in Nat \ {0}, DOMAIN m = 1..Len(m),
           Len(t) = Len(m) + 1, DOMAIN t = 1..(Len(m) + 1),
           \A k \in 1..Len(m) : t[k] = m[k], ~NativeIn(p, t[Len(m) + 1])
    PROVE  Activated(p, t, n)
<1>1. \A k \in 1..Len(m) : Natives(p, t, k) = Natives(p, m, k)
  BY SameNatives
<1>2. Natives(p, t, Len(m) + 1) = Natives(p, t, Len(m))
  BY NativesAre
<1>3. ASSUME NEW k \in DOMAIN t, k > 1, NativeIn(p, t[k])
      PROVE  /\ n[Natives(p, t, k)].function = t[k].function
             /\ n[Natives(p, t, k)].func = t[k - 1].function
             /\ n[Natives(p, t, k)].pc + 1 = t[k - 1].pc
             /\ n[Natives(p, t, k)].base = t[k - 1].first
  <2>1. k \in 1..Len(m) /\ k - 1 \in 1..Len(m)
    BY <1>3
  <2>2. t[k] = m[k] /\ t[k - 1] = m[k - 1] /\ Natives(p, t, k) = Natives(p, m, k) /\ k \in DOMAIN m
    BY <1>1, <2>1
  <2> QED BY <1>3, <2>2 DEF Activated
<1> QED
  BY <1>1, <1>2, <1>3 DEF Activated

LEMMA ActivatedPopped ==
    ASSUME NEW p, NEW m, NEW t, NEW n, Activated(p, m, n),
           Len(m) \in Nat, Len(m) > 1, DOMAIN m = 1..Len(m),
           Len(t) = Len(m) - 1, DOMAIN t = 1..(Len(m) - 1),
           \A k \in 1..(Len(m) - 1) : t[k] = m[k], ~NativeIn(p, m[Len(m)])
    PROVE  Activated(p, t, n)
<1>1. \A k \in 1..(Len(m) - 1) : Natives(p, t, k) = Natives(p, m, k)
  <2> TAKE k \in 1..(Len(m) - 1)
  <2>1. \A j \in 1..k : NativeIn(p, t[j]) <=> NativeIn(p, m[j])
    OBVIOUS
  <2> QED BY <2>1, SameNatives
<1>2. Natives(p, m, Len(m)) = Natives(p, m, Len(m) - 1)
  <2>1. Len(m) - 1 \in Nat /\ Len(m) - 1 + 1 = Len(m)
    OBVIOUS
  <2> DEFINE k == Len(m) - 1
  <2>2. ~NativeIn(p, m[k + 1])
    BY <2>1
  <2>3. Natives(p, m, k + 1) = Natives(p, m, k)
    <3> HIDE DEF k
    <3> QED BY <2>1, <2>2, NativesAre DEF k
  <2> QED BY <2>1, <2>3
<1>3. ASSUME NEW k \in DOMAIN t, k > 1, NativeIn(p, t[k])
      PROVE  /\ n[Natives(p, t, k)].function = t[k].function
             /\ n[Natives(p, t, k)].func = t[k - 1].function
             /\ n[Natives(p, t, k)].pc + 1 = t[k - 1].pc
             /\ n[Natives(p, t, k)].base = t[k - 1].first
  <2>1. k \in 1..(Len(m) - 1) /\ k - 1 \in 1..(Len(m) - 1)
    BY <1>3
  <2>2. t[k] = m[k] /\ t[k - 1] = m[k - 1] /\ Natives(p, t, k) = Natives(p, m, k) /\ k \in DOMAIN m
    BY <1>1, <2>1
  <2> QED BY <1>3, <2>2 DEF Activated
<1> QED
  BY <1>1, <1>2, <1>3 DEF Activated

(* A native function's frame comes and goes with its activation.           *)
LEMMA ActivatedCalls ==
    ASSUME NEW p, NEW m, NEW t, NEW n, Activated(p, m, n), NEW e \in Activation,
           Len(m) \in Nat \ {0}, DOMAIN m = 1..Len(m),
           Len(t) = Len(m) + 1, DOMAIN t = 1..(Len(m) + 1),
           \A k \in 1..Len(m) : t[k] = m[k], NativeIn(p, t[Len(m) + 1]),
           e.function = t[Len(m) + 1].function, e.func = m[Len(m)].function,
           e.pc + 1 = m[Len(m)].pc, e.base = m[Len(m)].first
    PROVE  Activated(p, t, Append(n, e))
<1> DEFINE o == Append(n, e)
<1>1. \A k \in 1..Len(m) : Natives(p, t, k) = Natives(p, m, k)
  BY SameNatives
<1>2. Natives(p, t, Len(m) + 1) = Natives(p, t, Len(m)) + 1
  BY NativesAre
<1>3. /\ n \in Seq(Activation) /\ Len(n) = Natives(p, m, Len(m)) /\ Len(n) \in Nat
      /\ o \in Seq(Activation) /\ Len(o) = Len(n) + 1
      /\ (\A i \in 1..Len(n) : o[i] = n[i]) /\ o[Len(n) + 1] = e
  <2>1. n \in Seq(Activation) /\ Len(n) = Natives(p, m, Len(m))
    BY DEF Activated
  <2> QED BY <2>1, AppendIs
<1> HIDE DEF o
<1>4. ASSUME NEW k \in DOMAIN t, k > 1, NativeIn(p, t[k])
      PROVE  /\ o[Natives(p, t, k)].function = t[k].function
             /\ o[Natives(p, t, k)].func = t[k - 1].function
             /\ o[Natives(p, t, k)].pc + 1 = t[k - 1].pc
             /\ o[Natives(p, t, k)].base = t[k - 1].first
  <2>1. CASE k \in 1..Len(m)
    <3>1. t[k] = m[k] /\ t[k - 1] = m[k - 1] /\ Natives(p, t, k) = Natives(p, m, k) /\ k \in DOMAIN m
      BY <1>1, <1>4, <2>1
    <3>2. Natives(p, m, k) \in 1..Len(n)
      BY <1>3, <1>4, <2>1, <3>1, NativesGrow
    <3>3. o[Natives(p, t, k)] = n[Natives(p, m, k)]
      BY <1>3, <3>1, <3>2
    <3> QED BY <1>4, <3>1, <3>3 DEF Activated
  <2>2. CASE k = Len(m) + 1
    <3>1. Natives(p, t, k) = Len(n) + 1 /\ t[k - 1] = m[Len(m)]
      BY <1>1, <1>2, <1>3, <2>2
    <3> QED BY <1>3, <2>2, <3>1
  <2> QED BY <2>1, <2>2
<1>5. Len(o) = Natives(p, t, Len(t))
  BY <1>1, <1>2, <1>3
<1>6. Activated(p, t, o)
  BY <1>3, <1>4, <1>5 DEF Activated
<1> QED
  BY <1>6 DEF o

LEMMA ActivatedReturns ==
    ASSUME NEW p, NEW m, NEW t, NEW n, Activated(p, m, n),
           Len(m) \in Nat, Len(m) > 1, DOMAIN m = 1..Len(m),
           Len(t) = Len(m) - 1, DOMAIN t = 1..(Len(m) - 1),
           \A k \in 1..(Len(m) - 1) : t[k] = m[k], NativeIn(p, m[Len(m)])
    PROVE  /\ n # << >> /\ Last(n) = n[Natives(p, m, Len(m))]
           /\ Activated(p, t, Front(n))
<1>1. \A k \in 1..(Len(m) - 1) : Natives(p, t, k) = Natives(p, m, k)
  <2> TAKE k \in 1..(Len(m) - 1)
  <2>1. \A j \in 1..k : NativeIn(p, t[j]) <=> NativeIn(p, m[j])
    OBVIOUS
  <2> QED BY <2>1, SameNatives
<1>2. Natives(p, m, Len(m)) = Natives(p, m, Len(m) - 1) + 1 /\ Natives(p, m, Len(m) - 1) \in Nat
  <2>1. Len(m) - 1 \in Nat /\ Len(m) - 1 + 1 = Len(m)
    OBVIOUS
  <2> DEFINE k == Len(m) - 1
  <2>2. NativeIn(p, m[k + 1])
    BY <2>1
  <2>3. Natives(p, m, k + 1) = Natives(p, m, k) + 1 /\ Natives(p, m, k) \in Nat
    <3> HIDE DEF k
    <3> QED BY <2>1, <2>2, NativesAre DEF k
  <2> QED BY <2>1, <2>3
<1>3. /\ n \in Seq(Activation) /\ Len(n) = Natives(p, m, Len(m)) /\ Len(n) \in Nat /\ Len(n) > 0
  BY <1>2 DEF Activated
<1>4. /\ n # << >> /\ Last(n) = n[Len(n)]
      /\ Front(n) \in Seq(Activation) /\ Len(Front(n)) = Len(n) - 1
      /\ \A i \in 1..(Len(n) - 1) : Front(n)[i] = n[i]
  <2>1. n \in Seq(Activation) /\ n # << >>
    BY <1>3
  <2> HIDE DEF Activation
  <2> QED BY <2>1, FrontIs
<1> DEFINE o == Front(n)
<1>5. ASSUME NEW k \in DOMAIN t, k > 1, NativeIn(p, t[k])
      PROVE  /\ o[Natives(p, t, k)].function = t[k].function
             /\ o[Natives(p, t, k)].func = t[k - 1].function
             /\ o[Natives(p, t, k)].pc + 1 = t[k - 1].pc
             /\ o[Natives(p, t, k)].base = t[k - 1].first
  <2>1. /\ t[k] = m[k] /\ t[k - 1] = m[k - 1] /\ Natives(p, t, k) = Natives(p, m, k)
        /\ k \in DOMAIN m /\ k \in 1..(Len(m) - 1)
    BY <1>1, <1>5
  <2>2. Natives(p, m, k) \in 1..(Len(n) - 1)
    <3>1. Natives(p, m, k) \in 1..Natives(p, m, Len(m) - 1)
      BY <1>5, <2>1, NativesGrow
    <3> QED BY <1>2, <1>3, <3>1
  <2>3. o[Natives(p, t, k)] = n[Natives(p, m, k)]
    BY <1>4, <2>1, <2>2
  <2> QED BY <1>5, <2>1, <2>3 DEF Activated
<1> HIDE DEF o
<1>6. Len(o) = Natives(p, t, Len(t)) /\ o \in Seq(Activation)
  BY <1>1, <1>2, <1>3, <1>4 DEF o
<1>7. Activated(p, t, o)
  BY <1>5, <1>6 DEF Activated
<1> QED
  BY <1>3, <1>4, <1>7 DEF o

-----------------------------------------------------------------------------
(* The top frame with other operands, which begin at its floor.            *)
Floor(frame) == frame.first + InfoSize(frame) + Len(frame.variables)

Lies(s, n, o)        == \A i \in 1..Len(o) : At(s, n + i - 1) = o[i]
Resumed(top, o, n)   == Frame(top.function, top.first, top.variables, o, n)
Operating(m, o, n)   == Append(Lower(m, 1), Resumed(m[Len(m)], o, n))

(* The stack t holds the operands o of the top frame, and below them what  *)
(* the stack s held.                                                       *)
Resumes(p, s, t, top, o, n) ==
    /\ ~NativeIn(p, top) /\ Agree(s, t, Floor(top)) /\ Lies(t, Floor(top), o)
    /\ o \in Seq(Value) /\ n \in Nat \ {0}

LEMMA Operands ==
    ASSUME NEW p, NEW s, NEW m, Sound(p, s, m), NEW t, NEW o, NEW n,
           Resumes(p, s, t, m[Len(m)], o, n)
    PROVE  /\ OnTop(p, m, t, Resumed(m[Len(m)], o, n), Operating(m, o, n))
           /\ ~NativeIn(p, Resumed(m[Len(m)], o, n))
           /\ End(Resumed(m[Len(m)], o, n)) = Floor(m[Len(m)]) + Len(o)
<1> SUFFICES ASSUME p \in Programs, Layout(p, m), Stored(p, s, m), ~NativeIn(p, m[Len(m)]),
                    Agree(s, t, Floor(m[Len(m)])), Lies(t, Floor(m[Len(m)]), o),
                    o \in Seq(Value), n \in Nat \ {0}
             PROVE  /\ OnTop(p, m, t, Resumed(m[Len(m)], o, n), Operating(m, o, n))
                    /\ ~NativeIn(p, Resumed(m[Len(m)], o, n))
                    /\ End(Resumed(m[Len(m)], o, n)) = Floor(m[Len(m)]) + Len(o)
  BY DEF Sound, Resumes
<1> DEFINE top   == m[Len(m)]
           frame == Frame(top.function, top.first, top.variables, o, n)
           u     == Append(Lower(m, 1), frame)
<1>1. /\ Len(m) \in Nat \ {0} /\ DOMAIN m = 1..Len(m) /\ Shaped(p, top) /\ Len(m) \in DOMAIN m
  BY DEF Layout
<1>2. /\ frame.function = top.function /\ frame.first = top.first /\ frame.operands = o
      /\ frame.variables = top.variables /\ frame.pc = n
  BY DEF Frame
<1>3. Shaped(p, frame) /\ ~NativeIn(p, frame)
  <2>1. top \in FrameType
    BY <1>1 DEF Shaped
  <2>2. frame \in FrameType
    <3> HIDE DEF top
    <3>1. /\ top.function \in Nat /\ top.first \in Nat /\ top.variables \in Seq(Value)
      BY <2>1 DEF FrameType
    <3> QED BY <3>1 DEF FrameType, Frame
  <2> HIDE DEF frame, top
  <2> QED BY <1>1, <1>2, <2>2 DEF Shaped, NativeIn, top
<1>4. /\ InfoSize(frame) = InfoSize(top) /\ Floor(frame) = Floor(top)
      /\ End(frame) = Floor(top) + Len(o)
  <2> HIDE DEF frame, top
  <2> QED BY <1>2 DEF InfoSize, Floor, End
<1>5. /\ top.first \in Nat /\ InfoSize(top) \in Nat /\ Len(top.variables) \in Nat
      /\ Arity(p, top.function) \in 0..Len(top.variables)
      /\ top.function # Top => InfoSize(top) = CallInfoSize
      /\ Floor(top) \in Nat /\ top.first <= Floor(top)
      /\ Floor(top) = top.first + InfoSize(top) + Len(top.variables)
  BY <1>1, FrameIs DEF Floor
<1>6. Within(p, s, top)
  BY <1>1 DEF Stored
<1> HIDE DEF frame, top
<1>7. Agree(s, t, top.first)
  BY <1>5 DEF Agree, top
<1>8. ASSUME top.function # Top
      PROVE  At(t, top.first + Arity(p, top.function)) = At(s, top.first + Arity(p, top.function))
  <2>2. CallInfoSize \in Nat \ {0}
    BY StackAllocSizeAssumption
  <2>3. top.first + Arity(p, top.function) \in 0..(Floor(top) - 1)
    <3> DEFINE a == Arity(p, top.function)
               v == Len(top.variables)
               b == top.first
               e == Floor(top)
    <3>1. a \in Nat /\ v \in Nat /\ a <= v /\ b \in Nat /\ e = b + CallInfoSize + v
      BY <1>5, <1>8
    <3> HIDE DEF a, v, b, e
    <3>2. b + a \in 0..(e - 1)
      BY <2>2, <3>1
    <3> QED BY <3>2 DEF a, b, e
  <2> QED BY <2>3 DEF Agree, top
<1>9. Within(p, t, frame)
  <2> DEFINE a == Arity(p, top.function)
             b == top.first
             z == InfoSize(top)
             v == Len(top.variables)
  <2>1. /\ a \in 0..v /\ b \in Nat /\ z \in Nat /\ v \in Nat /\ Floor(top) = b + z + v
    BY <1>5
  <2>2. \A i \in 1..v : At(s, b + i - 1 + (IF i <= a THEN 0 ELSE z)) = top.variables[i]
    BY <1>6 DEF Within
  <2> HIDE DEF a, b, z, v
  <2>3. ASSUME NEW i \in 1..v
        PROVE  b + i - 1 + (IF i <= a THEN 0 ELSE z) \in 0..(Floor(top) - 1)
    BY <2>1
  <2>4. \A i \in 1..v : At(t, b + i - 1 + (IF i <= a THEN 0 ELSE z)) = top.variables[i]
    BY <2>2, <2>3 DEF Agree, top
  <2>5. \A i \in 1..Len(o) : At(t, b + z + v + i - 1) = o[i]
    BY <2>1 DEF top, Lies
  <2> QED BY <1>2, <1>4, <2>4, <2>5 DEF Within, a, b, z, v
<1>10. OnTop(p, m, t, frame, Append(Lower(m, 1), frame))
  <2>1. Changes(p, s, t, m[Len(m)], frame)
    BY <1>2, <1>3, <1>7, <1>8, <1>9 DEF Changes, top
  <2>2. Sound(p, s, m)
    BY DEF Sound
  <2> QED BY <2>1, <2>2, FrameChanged
<1>11. u = Operating(m, o, n) /\ frame = Resumed(top, o, n)
  BY DEF Operating, Resumed, frame, top
<1> QED
  BY <1>3, <1>4, <1>10, <1>11 DEF top

-----------------------------------------------------------------------------
(* The program as it is meant: each instruction has the operands and the   *)
(* variable it needs, and of the types that count here.  The checks of the *)
(* compiler (fix_tree.c) are to give this.                                 *)
Suits(proc, n, arguments) ==
    CASE proc = "size"   -> n = 0
      [] proc = "resize" -> n = 1 /\ arguments[1][2] >= 0
      [] proc = "insert" -> n = 2
      [] proc = "remove" -> n = 1
      [] proc = "add"    -> n = 1
      [] OTHER           -> FALSE

(* A call of value v, with the operands o below it.                        *)
CallTyped(v, o) ==
    LET f == Callee(v)
        n == Len(Fun(f).parameters)
    IN  /\ v[1] = "delegate" => v[2] \in DOMAIN Delegates
        /\ f \in DOMAIN program \ {Top}
        /\ Len(o) >= n
        /\ Fun(f).kind = "diksam" => (Fun(f).method <=> OfMethod(v))
        /\ Fun(f).kind = "native" => ~OfMethod(v) /\ ~Fun(f).return_pointer
        /\ Fun(f).kind = "native" /\ Fun(f).method =>
              /\ Len(o) > n /\ o[Len(o)][2] \in DOMAIN elements
              /\ Suits(Fun(f).proc, n, SubSeq(o, Len(o) - n, Len(o) - 1))
        /\ Fun(f).kind = "native" /\ ~Fun(f).method =>
              LET d == o[Len(o)]
                  g == Callee(d)
              IN  /\ n = 1 /\ d[1] = "delegate" /\ d[2] \in DOMAIN Delegates
                  /\ g \in DOMAIN program \ {Top} /\ Fun(g).kind = "diksam"
                  /\ Len(Fun(g).parameters) = 1
                  /\ Fun(g).method <=> OfMethod(d)

CodeTyped(c, o) ==
    /\ c.op \in {"load", "store"} => c.n + 1 \in DOMAIN TopFrame.variables
    /\ c.op \in {"store", "pop", "return", "invoke"} => o # << >>
    /\ c.op = "return" => /\ TopFrame.function # Top
                          /\ IsPointer(o[Len(o)][1]) = IsPointer(Fun(TopFrame.function).type)
    /\ c.op = "invoke" => CallTyped(o[Len(o)], SubSeq(o, 1, Len(o) - 1))

WellTyped ==
    TopFrame.pc \in DOMAIN Fun(TopFrame.function).code =>
        CodeTyped(Fun(TopFrame.function).code[TopFrame.pc], TopFrame.operands)

-----------------------------------------------------------------------------
(* The inductive invariant: the block of the stack with its flags, the     *)
(* frames on it, and the arrays.                                           *)
Flagged(s, flags, n) == \A i \in 0..(n - 1) : At(flags, i) = IsPointer(At(s, i)[1])

Block(s, flags, n) ==
    /\ s \in Seq(Slot) /\ flags \in Seq(BOOLEAN) /\ Len(flags) = Len(s)
    /\ n \in 0..Len(s) /\ Flagged(s, flags, n)

Framed(p, s, m, n, f, next, first, end) ==
    /\ Layout(p, m) /\ Stored(p, s, m) /\ Activated(p, m, n)
    /\ ~NativeIn(p, m[Len(m)])
    /\ f = m[Len(m)].function /\ next = m[Len(m)].pc
    /\ first = m[Len(m)].first /\ end = End(m[Len(m)])

Types  == program \in Programs /\ moved \in Nat /\ Block(stack, pointer_flags, sp)
Frames == Framed(program, stack, meant, native, func, pc, base, sp)

ArraysRight ==
    /\ elements \in Seq(Seq(Int)) /\ DOMAIN array = DOMAIN elements
    /\ \A a \in DOMAIN elements : Whole(array[a]) /\ Elements(array[a]) = elements[a]
    /\ outcome # "wrong exception"

IInv == Types /\ Frames /\ ArraysRight

(* The top frame, and what the machine finds of it.                        *)
LEMMA TopTypes ==
    ASSUME Types, Frames
    PROVE  /\ Len(meant) \in Nat \ {0} /\ DOMAIN meant = 1..Len(meant) /\ Len(meant) \in DOMAIN meant
           /\ Shaped(program, TopFrame) /\ meant \in Seq(FrameType) /\ TopFrame \in FrameType
           /\ TopFrame.first \in Nat /\ TopFrame.function \in DOMAIN program
           /\ TopFrame.variables \in Seq(Value) /\ TopFrame.operands \in Seq(Value)
           /\ Len(TopFrame.variables) \in Nat /\ Len(TopFrame.operands) \in Nat
           /\ TopFrame.pc \in Nat \ {0} /\ InfoSize(TopFrame) \in Nat
           /\ Arity(program, TopFrame.function) \in 0..Len(TopFrame.variables)
           /\ TopFrame.function # Top => InfoSize(TopFrame) = CallInfoSize
           /\ Within(program, stack, TopFrame)
<1>1. Layout(program, meant) /\ Stored(program, stack, meant)
  BY DEF Frames, Framed
<1>2. /\ Len(meant) \in Nat \ {0} /\ DOMAIN meant = 1..Len(meant) /\ meant \in Seq(FrameType)
      /\ Len(meant) \in DOMAIN meant
  BY <1>1 DEF Layout
<1>3. Shaped(program, TopFrame) /\ Within(program, stack, TopFrame)
  BY <1>1, <1>2 DEF Layout, Stored, TopFrame
<1>4. program \in Programs /\ TopFrame \in FrameType
  BY <1>3 DEF Types, Shaped
<1>5. /\ TopFrame.first \in Nat /\ TopFrame.function \in DOMAIN program
      /\ TopFrame.variables \in Seq(Value) /\ TopFrame.operands \in Seq(Value)
      /\ Len(TopFrame.variables) \in Nat /\ Len(TopFrame.operands) \in Nat
      /\ TopFrame.pc \in Nat \ {0} /\ InfoSize(TopFrame) \in Nat
      /\ Arity(program, TopFrame.function) \in 0..Len(TopFrame.variables)
      /\ TopFrame.function # Top => InfoSize(TopFrame) = CallInfoSize
  BY <1>3, <1>4, FrameIs
<1> QED
  BY ONLY <1>2, <1>3, <1>4, <1>5

LEMMA TopIs ==
    ASSUME Types, Frames
    PROVE  /\ func = TopFrame.function /\ pc = TopFrame.pc /\ base = TopFrame.first
           /\ sp \in Nat /\ Len(stack) \in Nat /\ Floor(TopFrame) \in Nat
           /\ Floor(TopFrame) = base + InfoSize(TopFrame) + Len(TopFrame.variables)
           /\ sp = Floor(TopFrame) + Len(TopFrame.operands)
           /\ func = Top <=> Len(meant) = 1
<1>1. /\ func = TopFrame.function /\ pc = TopFrame.pc /\ base = TopFrame.first /\ sp = End(TopFrame)
  BY DEF Frames, Framed, TopFrame
<1>2. Len(stack) \in Nat
  BY DEF Types, Block
<1>3. /\ Floor(TopFrame) = base + InfoSize(TopFrame) + Len(TopFrame.variables)
      /\ sp = base + InfoSize(TopFrame) + Len(TopFrame.variables) + Len(TopFrame.operands)
  BY <1>1 DEF Floor, End
<1>4. Floor(TopFrame) \in Nat /\ sp = Floor(TopFrame) + Len(TopFrame.operands) /\ sp \in Nat
  <2> DEFINE v == Len(TopFrame.variables)
             o == Len(TopFrame.operands)
             z == InfoSize(TopFrame)
  <2>1. v \in Nat /\ o \in Nat /\ z \in Nat /\ base \in Nat
    BY <1>1, TopTypes
  <2> HIDE DEF v, o, z
  <2> QED BY <1>3, <2>1 DEF v, o, z
<1>5. func = Top <=> Len(meant) = 1
  <2>1. Layout(program, meant)
    BY DEF Frames, Framed
  <2> QED BY <1>1, <2>1, TopTypes DEF Layout, TopFrame
<1> QED
  BY ONLY <1>1, <1>2, <1>3, <1>4, <1>5

LEMMA TopSlots ==
    ASSUME Types, Frames
    PROVE  /\ \A i \in 1..Len(TopFrame.operands) :
                 At(stack, Floor(TopFrame) + i - 1) = TopFrame.operands[i]
           /\ \A i \in 1..Len(TopFrame.variables) :
                 At(stack, base + i - 1 + (IF i <= Arity(program, func) THEN 0
                                           ELSE InfoSize(TopFrame))) = TopFrame.variables[i]
<1>1. Within(program, stack, TopFrame) /\ base = TopFrame.first /\ func = TopFrame.function
  BY TopTypes, TopIs
<1>2. \A i \in 1..Len(TopFrame.operands) : At(stack, Floor(TopFrame) + i - 1) = TopFrame.operands[i]
  BY <1>1 DEF Within, Floor
<1>3. \A i \in 1..Len(TopFrame.variables) :
         At(stack, base + i - 1 + (IF i <= Arity(program, func) THEN 0
                                   ELSE InfoSize(TopFrame))) = TopFrame.variables[i]
  BY <1>1 DEF Within
<1> QED
  BY <1>2, <1>3

(* An instruction that only pushes and pops.                               *)
LEMMA OperandsStep ==
    ASSUME Types, Frames, program' = program, native' = native, func' = func, base' = base,
           pc' = pc + 1, NEW o \in Seq(Value), meant' = MeantTop(o),
           Agree(stack, stack', Floor(TopFrame)),
           Lies(stack', Floor(TopFrame), o), sp' = Floor(TopFrame) + Len(o)
    PROVE  Frames'
<1> DEFINE m == meant
           top == m[Len(m)]
           n == top.pc + 1
           frame == Resumed(top, o, n)
           u == Operating(m, o, n)
<1>1. meant' = u /\ TopFrame = top
  BY DEF MeantTop, MeantNext, TopFrame, Operating, Resumed
<1>2. /\ Sound(program, stack, m) /\ ~NativeIn(program, top) /\ Activated(program, m, native)
  BY DEF Types, Frames, Framed, Sound
<1>3. Len(m) \in Nat \ {0} /\ DOMAIN m = 1..Len(m) /\ n \in Nat \ {0}
  BY TopTypes DEF TopFrame
<1>4. Resumes(program, stack, stack', top, o, n)
  BY <1>1, <1>2, <1>3 DEF Resumes
<1> HIDE DEF m, n
<1>5. /\ OnTop(program, m, stack', frame, u)
      /\ ~NativeIn(program, frame) /\ End(frame) = Floor(top) + Len(o)
  BY <1>2, <1>4, Operands
<1> HIDE DEF u
<1>6. Activated(program, u, native)
  BY <1>2, <1>3, <1>5, ActivatedChanged DEF OnTop
<1>7. func = top.function /\ pc = top.pc /\ base = top.first
  BY DEF Frames, Framed, m
<1>8. frame.function = top.function /\ frame.pc = n /\ frame.first = top.first
  BY DEF Frame, Resumed
<1>9. Len(u) = Len(m) /\ u[Len(u)] = frame /\ Layout(program, u) /\ Stored(program, stack', u)
  BY <1>5 DEF OnTop
<1> HIDE DEF frame
<1>10. /\ func' = frame.function /\ pc' = frame.pc /\ base' = frame.first /\ sp' = End(frame)
  BY <1>1, <1>5, <1>7, <1>8 DEF n
<1>11. Framed(program, stack', u, native, func', pc', base', sp')
  BY <1>5, <1>6, <1>9, <1>10 DEF Framed
<1> QED
  BY <1>1, <1>11 DEF Frames

-----------------------------------------------------------------------------
(* The block of the stack.                                                 *)
LEMMA BlockWritten ==
    ASSUME NEW s, NEW flags, NEW n, Block(s, flags, n), NEW i \in 0..(Len(s) - 1),
           NEW v \in Slot, NEW b \in BOOLEAN, b = IsPointer(v[1]),
           NEW k \in 0..Len(s), \A j \in 0..(k - 1) : j < n \/ j = i
    PROVE  Block(Written(s, i, v), Written(flags, i, b), k)
<1>1. /\ s \in Seq(Slot) /\ flags \in Seq(BOOLEAN) /\ Len(flags) = Len(s) /\ n \in 0..Len(s)
      /\ i \in 0..(Len(flags) - 1) /\ Len(s) \in Nat
  BY DEF Block
<1>2. /\ Written(s, i, v) \in Seq(Slot) /\ Len(Written(s, i, v)) = Len(s)
      /\ \A j \in 0..(Len(s) - 1) : At(Written(s, i, v), j) = IF j = i THEN v ELSE At(s, j)
  <2>1. s \in Seq(Slot) /\ i \in 0..(Len(s) - 1) /\ v \in Slot
    BY <1>1
  <2> QED BY ONLY <2>1, WrittenIs
<1>3. /\ Written(flags, i, b) \in Seq(BOOLEAN) /\ Len(Written(flags, i, b)) = Len(flags)
      /\ \A j \in 0..(Len(flags) - 1) :
            At(Written(flags, i, b), j) = IF j = i THEN b ELSE At(flags, j)
  <2>1. flags \in Seq(BOOLEAN) /\ i \in 0..(Len(flags) - 1) /\ b \in BOOLEAN
    BY <1>1
  <2> QED BY ONLY <2>1, WrittenIs
<1>4. ASSUME NEW j \in 0..(k - 1)
      PROVE  At(Written(flags, i, b), j) = IsPointer(At(Written(s, i, v), j)[1])
  <2>1. j \in 0..(Len(s) - 1) /\ j \in 0..(Len(flags) - 1) /\ (j < n \/ j = i)
    <3>1. /\ k \in 0..Len(s) /\ j \in 0..(k - 1) /\ Len(flags) = Len(s) /\ Len(s) \in Nat
          /\ \A x \in 0..(k - 1) : x < n \/ x = i
      BY <1>1
    <3> QED BY ONLY <3>1
  <2>2. CASE j = i
    BY <1>2, <1>3, <2>1, <2>2
  <2>3. CASE j # i
    <3>1. j \in 0..(n - 1)
      BY <1>1, <2>1, <2>3
    <3>2. At(flags, j) = IsPointer(At(s, j)[1])
      BY <3>1 DEF Block, Flagged
    <3> QED BY <1>2, <1>3, <2>1, <2>3, <3>2
  <2> QED BY <2>2, <2>3
<1> QED
  BY <1>1, <1>2, <1>3, <1>4 DEF Block, Flagged

Fills(s, flags, n, from, v, b, k) ==
    /\ Block(s, flags, n) /\ from \in Nat /\ v \in Seq(Slot)
    /\ b \in Seq(BOOLEAN) /\ Len(b) = Len(v)
    /\ \A i \in 1..Len(v) : b[i] = IsPointer(v[i][1])
    /\ k \in 0..Len(s) /\ \A j \in 0..(k - 1) : j < n \/ j \in from .. from + Len(v) - 1

LEMMA BlockWrittenAll ==
    ASSUME NEW s, NEW flags, NEW n, NEW from, NEW v, NEW b, NEW k,
           Fills(s, flags, n, from, v, b, k)
    PROVE  Block(WriteAll(s, from, v), WriteAll(flags, from, b), k)
<1> SUFFICES ASSUME Block(s, flags, n), from \in Nat, v \in Seq(Slot),
                    b \in Seq(BOOLEAN), Len(b) = Len(v),
                    \A i \in 1..Len(v) : b[i] = IsPointer(v[i][1]),
                    k \in 0..Len(s), \A j \in 0..(k - 1) : j < n \/ j \in from .. from + Len(v) - 1
             PROVE  Block(WriteAll(s, from, v), WriteAll(flags, from, b), k)
  BY DEF Fills
<1> DEFINE t == WriteAll(s, from, v)
           g == WriteAll(flags, from, b)
           z == Len(v)
<1>1. /\ s \in Seq(Slot) /\ flags \in Seq(BOOLEAN) /\ Len(flags) = Len(s) /\ n \in 0..Len(s)
      /\ Len(s) \in Nat /\ z \in Nat
  BY DEF Block
<1>2. /\ t \in Seq(Slot) /\ Len(t) = Len(s)
      /\ \A j \in 0..(Len(s) - 1) :
            At(t, j) = IF j \in from .. from + z - 1 THEN v[j - from + 1] ELSE At(s, j)
  BY <1>1, WriteAllIs
<1>3. /\ g \in Seq(BOOLEAN) /\ Len(g) = Len(s)
      /\ \A j \in 0..(Len(s) - 1) :
            At(g, j) = IF j \in from .. from + z - 1 THEN b[j - from + 1] ELSE At(flags, j)
  <2>1. /\ g \in Seq(BOOLEAN) /\ Len(g) = Len(flags)
        /\ \A j \in 0..(Len(flags) - 1) :
              At(g, j) = IF j \in from .. from + Len(b) - 1 THEN b[j - from + 1] ELSE At(flags, j)
    <3>1. flags \in Seq(BOOLEAN) /\ b \in Seq(BOOLEAN) /\ from \in Nat
      BY <1>1
    <3> QED BY ONLY <3>1, FlagsWritten
  <2>2. Len(b) = z /\ Len(flags) = Len(s)
    BY <1>1
  <2> HIDE DEF g, z
  <2> QED BY <2>1, <2>2
<1> HIDE DEF t, g, z
<1>4. ASSUME NEW j \in 0..(k - 1)
      PROVE  At(g, j) = IsPointer(At(t, j)[1])
  <2>1. j \in 0..(Len(s) - 1)
    BY <1>1
  <2>2. CASE j \in from .. from + z - 1
    <3>1. j - from + 1 \in 1..z
      BY <1>1, <2>2
    <3>2. b[j - from + 1] = IsPointer(v[j - from + 1][1])
      BY <3>1 DEF z
    <3> QED BY <1>2, <1>3, <2>1, <2>2, <3>2
  <2>3. CASE j \notin from .. from + z - 1
    <3>1. j \in 0..(n - 1)
      BY <1>1, <2>3 DEF z
    <3>2. At(flags, j) = IsPointer(At(s, j)[1])
      BY <3>1 DEF Block, Flagged
    <3> QED BY <1>2, <1>3, <2>1, <2>3, <3>2
  <2> QED BY <2>2, <2>3
<1>5. Block(t, g, k)
  BY <1>1, <1>2, <1>3, <1>4 DEF Block, Flagged
<1> QED
  BY <1>5 DEF t, g

LEMMA Values ==
    ASSUME NEW type \in Type, NEW n \in Int
    PROVE  <<type, n>> \in Value /\ <<type, n>>[1] = type /\ <<type, n>>[2] = n
  BY DEF Value

LEMMA Slots ==
    Value \subseteq Slot /\ Uninitialised \in Value /\ ~IsPointer(Uninitialised[1])
<1>1. Uninitialised = <<"garbage", 0>>
  BY DEF Uninitialised
<1>2. Uninitialised \in Value /\ Uninitialised[1] = "garbage"
  <2>1. "garbage" \in Type
    BY DEF Type
  <2> QED BY <1>1, <2>1, Values
<1>3. "garbage" \notin {"array", "object", "delegate"}
  OBVIOUS
<1> QED
  BY <1>2, <1>3 DEF Slot, IsPointer

LEMMA BlockGrown ==
    ASSUME NEW s, NEW flags, NEW n, Block(s, flags, n), NEW by \in Int
    PROVE  Block(Grown(s, by, Uninitialised), Grown(flags, by, FALSE), n)
<1> DEFINE t == Grown(s, by, Uninitialised)
           g == Grown(flags, by, FALSE)
           more == IF by > 0 THEN by ELSE 0
<1>1. /\ s \in Seq(Slot) /\ flags \in Seq(BOOLEAN) /\ Len(flags) = Len(s) /\ n \in 0..Len(s)
      /\ Len(s) \in Nat /\ Flagged(s, flags, n) /\ more \in Nat
  BY DEF Block
<1>2. Uninitialised \in Slot
  BY Slots
<1>3. /\ t \in Seq(Slot) /\ Len(t) = Len(s) + more
      /\ \A j \in 0..(Len(s) - 1) : At(t, j) = At(s, j)
  BY <1>1, <1>2, GrownIs
<1>4. /\ g \in Seq(BOOLEAN) /\ Len(g) = Len(s) + more
      /\ \A j \in 0..(Len(s) - 1) : At(g, j) = At(flags, j)
  BY <1>1, FlagsGrown
<1> HIDE DEF t, g, more
<1>5. ASSUME NEW j \in 0..(n - 1)
      PROVE  At(g, j) = IsPointer(At(t, j)[1])
  <2>1. j \in 0..(Len(s) - 1)
    BY <1>1
  <2>2. At(flags, j) = IsPointer(At(s, j)[1])
    BY <1>1 DEF Flagged
  <2> QED BY <1>1, <1>3, <1>4, <2>1, <2>2
<1>6. n \in 0..Len(t)
  BY <1>1, <1>3
<1>7. Block(t, g, n)
  BY <1>3, <1>4, <1>5, <1>6 DEF Block, Flagged
<1> QED
  BY <1>7 DEF t, g

LEMMA BlockLowered ==
    ASSUME NEW s, NEW flags, NEW n, Block(s, flags, n), NEW k \in 0..n
    PROVE  Block(s, flags, k)
<1>1. n \in 0..Len(s) /\ Len(s) \in Nat
  BY DEF Block
<1>2. k \in 0..Len(s) /\ \A j \in 0..(k - 1) : j \in 0..(n - 1)
  BY <1>1
<1> QED
  BY <1>2 DEF Block, Flagged

Writes(s, t, i, v)       == s \in Seq(Slot) /\ i \in 0..(Len(s) - 1) /\ v \in Slot /\ t = Written(s, i, v)
WritesAll(s, t, from, v) == s \in Seq(Slot) /\ from \in Nat /\ v \in Seq(Slot) /\ t = WriteAll(s, from, v)

LEMMA SlotWritten ==
    ASSUME NEW s, NEW t, NEW i, NEW v, Writes(s, t, i, v)
    PROVE  /\ t \in Seq(Slot) /\ Len(t) = Len(s)
           /\ \A j \in 0..(Len(s) - 1) : At(t, j) = IF j = i THEN v ELSE At(s, j)
<1>1. s \in Seq(Slot) /\ i \in 0..(Len(s) - 1) /\ v \in Slot /\ t = Written(s, i, v)
  BY DEF Writes
<1>2. /\ Written(s, i, v) \in Seq(Slot) /\ Len(Written(s, i, v)) = Len(s)
      /\ \A j \in 0..(Len(s) - 1) : At(Written(s, i, v), j) = IF j = i THEN v ELSE At(s, j)
  <2>1. s \in Seq(Slot) /\ i \in 0..(Len(s) - 1) /\ v \in Slot
    BY <1>1
  <2> QED BY ONLY <2>1, WrittenIs
<1> QED
  BY <1>1, <1>2

LEMMA SlotsWritten ==
    ASSUME NEW s, NEW t, NEW from, NEW v, WritesAll(s, t, from, v)
    PROVE  /\ t \in Seq(Slot) /\ Len(t) = Len(s)
           /\ \A j \in 0..(Len(s) - 1) :
                 At(t, j) = IF j \in from .. from + Len(v) - 1 THEN v[j - from + 1] ELSE At(s, j)
<1>1. s \in Seq(Slot) /\ from \in Nat /\ v \in Seq(Slot) /\ t = WriteAll(s, from, v)
  BY DEF WritesAll
<1>2. /\ WriteAll(s, from, v) \in Seq(Slot) /\ Len(WriteAll(s, from, v)) = Len(s)
      /\ \A j \in 0..(Len(s) - 1) :
            At(WriteAll(s, from, v), j) =
                IF j \in from .. from + Len(v) - 1 THEN v[j - from + 1] ELSE At(s, j)
  <2>1. s \in Seq(Slot) /\ from \in Nat /\ v \in Seq(Slot)
    BY <1>1
  <2> QED BY ONLY <2>1, WriteAllIs, ZenonT(60)
<1> QED
  BY <1>1, <1>2

-----------------------------------------------------------------------------
(* What an instruction of the running function finds.                      *)
LEMMA CodeIs ==
    ASSUME Types, Frames, WellTyped, Running
    PROVE  /\ Code \in [op : STRING, n : Int] /\ CodeTyped(Code, TopFrame.operands)
           /\ outcome = "running"
<1>1. func = TopFrame.function /\ pc = TopFrame.pc /\ pc \in Nat \ {0} /\ func \in DOMAIN program
  BY TopTypes, TopIs
<1>2. Fun(func).code \in Seq([op : STRING, n : Int])
  BY <1>1, ProgramIs DEF Types, Fun
<1>3. pc \in 1..Len(Fun(func).code) /\ outcome = "running"
  BY <1>1, <1>2 DEF Running
<1>4. Fun(func).code[pc] \in [op : STRING, n : Int] /\ pc \in DOMAIN Fun(func).code
  <2> DEFINE c == Fun(func).code
             R == [op : STRING, n : Int]
  <2>1. c \in Seq(R) /\ pc \in 1..Len(c)
    BY <1>2, <1>3
  <2> HIDE DEF c, R
  <2>2. DOMAIN c = 1..Len(c) /\ c[pc] \in R
    BY <2>1
  <2> QED BY <2>1, <2>2 DEF c, R
<1>5. CodeTyped(Fun(func).code[pc], TopFrame.operands)
  BY <1>1, <1>4 DEF WellTyped
<1> QED
  BY <1>3, <1>4, <1>5 DEF Code

(* The slot of a variable, by the conversion of the loader.                *)
LEMMA VariableAt ==
    ASSUME Types, Frames, NEW i \in 1..Len(TopFrame.variables)
    PROVE  /\ base + Converted(func, i - 1) =
                 base + i - 1 + (IF i <= Arity(program, func) THEN 0 ELSE InfoSize(TopFrame))
           /\ base + Converted(func, i - 1) \in 0..(Floor(TopFrame) - 1)
           /\ At(stack, base + Converted(func, i - 1)) = TopFrame.variables[i]
<1> DEFINE a == Arity(program, func)
           v == Len(TopFrame.variables)
           z == InfoSize(TopFrame)
           e == Floor(TopFrame)
<1>1. /\ a \in 0..v /\ v \in Nat /\ z \in Nat /\ base \in Nat /\ e = base + z + v /\ i \in 1..v
      /\ func = TopFrame.function /\ Shaped(program, TopFrame) /\ func \in DOMAIN program
  BY TopTypes, TopIs
<1>2. z = CallInfoSize
  <2>1. func # Top
    <3> SUFFICES ASSUME func = Top PROVE FALSE
      OBVIOUS
    <3>1. v = a + Len(program[func].locals)
      BY <1>1 DEF Shaped
    <3>2. Arity(program, Top) = 0 /\ Len(program[Top].locals) = 0
      <4>1. program \in Programs
        BY DEF Types
      <4> QED BY <1>1, <4>1, ProgramIs
    <3>3. v = 0
      BY <3>1, <3>2
    <3> QED BY <1>1, <3>3
  <2> QED BY <1>1, <2>1, TopTypes
<1>3. WithThis(func) = a
  BY DEF WithThis, Fun, Arity
<1>4. Converted(func, i - 1) = i - 1 + (IF i <= a THEN 0 ELSE z)
  <2>1. Converted(func, i - 1) = IF i - 1 >= a THEN i - 1 + z ELSE i - 1
    BY <1>2, <1>3 DEF Converted
  <2> HIDE DEF a, z
  <2> QED BY <1>1, <2>1
<1> DEFINE d == Converted(func, i - 1)
<1>5. base + d = base + i - 1 + (IF i <= a THEN 0 ELSE z) /\ base + d \in 0..(e - 1)
  <2> HIDE DEF a, v, z, e, d
  <2> QED BY <1>1, <1>4 DEF d
<1>6. At(stack, base + i - 1 + (IF i <= a THEN 0 ELSE z)) = TopFrame.variables[i]
  BY TopSlots
<1> QED
  BY <1>5, <1>6

LEMMA StopsKeeps ==
    ASSUME IInv, NEW why, why # "wrong exception", Stops(why)
    PROVE  IInv'
  BY DEF IInv, Types, Frames, ArraysRight, Stops, machine

LEMMA ArraysKept ==
    ASSUME ArraysRight, UNCHANGED <<array, elements, outcome>>
    PROVE  ArraysRight'
  BY DEF ArraysRight

-----------------------------------------------------------------------------
(* Instructions that push and pop.                                         *)
LEMMA PushedIs ==
    ASSUME Types, Frames, WellTyped, Running, Code.op \in Pushes
    PROVE  MeantPush \in Value /\ Pushed = MeantPush
<1>1. Code.n \in Int /\ CodeTyped(Code, TopFrame.operands)
  BY CodeIs
<1>2. CASE Code.op = "load"
  <2> DEFINE i == Code.n + 1
             vs == TopFrame.variables
  <2>1. i \in 1..Len(vs) /\ vs \in Seq(Value)
    BY <1>1, <1>2, TopTypes DEF CodeTyped
  <2>2. i - 1 = Code.n
    BY <1>1
  <2> HIDE DEF i
  <2>3. vs[i] \in Value /\ At(stack, base + Converted(func, i - 1)) = vs[i]
    <3>1. At(stack, base + Converted(func, i - 1)) = vs[i]
      BY <2>1, VariableAt
    <3> HIDE DEF vs
    <3> QED BY <2>1, <3>1
  <2>4. MeantPush = vs[i]
    BY <1>2 DEF MeantPush, i
  <2>5. Pushed = At(stack, base + Converted(func, Code.n))
    BY <1>2 DEF Pushed
  <2> QED BY <2>2, <2>3, <2>4, <2>5
<1>3. CASE Code.op \in {"int", "function"}
  <2>1. Pushed = <<"int", Code.n>>
    BY <1>3 DEF Pushed, IntValue
  <2> QED BY <1>1, <1>3, <2>1, Values DEF MeantPush, Type
<1>4. CASE Code.op = "array"
  <2>1. Pushed = <<"array", Code.n>>
    BY <1>4 DEF Pushed
  <2> QED BY <1>1, <1>4, <2>1, Values DEF MeantPush, Type
<1>5. CASE Code.op = "delegate"
  <2>1. Pushed = <<"delegate", Code.n>>
    BY <1>5 DEF Pushed
  <2> QED BY <1>1, <1>5, <2>1, Values DEF MeantPush, Type
<1> QED
  BY <1>2, <1>3, <1>4, <1>5 DEF Pushes

LEMMA PushKeeps ==
    ASSUME IInv, WellTyped, Push
    PROVE  IInv'
<1> USE DEF IInv
<1>1. CASE Stops("overrun")
  BY <1>1, StopsKeeps
<1> DEFINE v == MeantPush
           o == TopFrame.operands
           e == Floor(TopFrame)
<1>2. CASE /\ sp < Alloc
           /\ stack' = Written(stack, sp, Pushed)
           /\ pointer_flags' = Written(pointer_flags, sp, IsPointer(MeantPush[1]))
           /\ sp' = sp + 1 /\ pc' = pc + 1
           /\ meant' = MeantTop(Append(TopFrame.operands, MeantPush))
           /\ UNCHANGED <<program, moved, func, base, native, array, elements, outcome>>
  <2>1. v \in Value /\ Pushed = v /\ v \in Slot
    BY PushedIs, Slots DEF Push
  <2>2. /\ o \in Seq(Value) /\ Len(o) \in Nat /\ e \in Nat /\ sp = e + Len(o)
        /\ sp \in 0..(Len(stack) - 1) /\ Len(stack) \in Nat /\ stack \in Seq(Slot)
    BY <1>2, TopTypes, TopIs DEF Alloc, Types, Block
  <2> HIDE DEF v, o, e
  <2>3. Block(stack', pointer_flags', sp')
    <3>1. Block(stack, pointer_flags, sp) /\ IsPointer(v[1]) \in BOOLEAN
      BY DEF Types, IsPointer
    <3>2. sp + 1 \in 0..Len(stack) /\ \A j \in 0..(sp + 1 - 1) : j < sp \/ j = sp
      BY <2>2
    <3>3. Block(Written(stack, sp, v), Written(pointer_flags, sp, IsPointer(v[1])), sp + 1)
      BY <2>1, <2>2, <3>1, <3>2, BlockWritten
    <3> QED BY <1>2, <2>1, <3>3 DEF v
  <2>4. \A j \in 0..(Len(stack) - 1) : At(stack', j) = IF j = sp THEN v ELSE At(stack, j)
    <3>1. stack' = Written(stack, sp, v)
      BY <1>2, <2>1
    <3>2. Writes(stack, stack', sp, v)
      BY <2>1, <2>2, <3>1 DEF Writes
    <3> QED BY <3>2, SlotWritten
  <2>5. Append(o, v) \in Seq(Value) /\ Len(Append(o, v)) = Len(o) + 1
        /\ \A i \in 1..(Len(o) + 1) : Append(o, v)[i] = IF i <= Len(o) THEN o[i] ELSE v
    BY <2>1, <2>2, AppendIs
  <2>6. Agree(stack, stack', e)
    BY <2>2, <2>4 DEF Agree
  <2>7. Lies(stack', e, Append(o, v))
    <3> SUFFICES ASSUME NEW i \in 1..(Len(o) + 1)
                 PROVE  At(stack', e + i - 1) = Append(o, v)[i]
      BY <2>5 DEF Lies
    <3>1. e + i - 1 \in 0..(Len(stack) - 1) /\ (e + i - 1 = sp <=> i = Len(o) + 1)
      BY <2>2
    <3>2. i <= Len(o) => At(stack, e + i - 1) = o[i]
      BY <2>2, TopSlots DEF o, e
    <3> QED BY <2>2, <2>4, <2>5, <3>1, <3>2
  <2>8. Frames'
    <3>1. meant' = MeantTop(Append(o, v)) /\ sp' = e + Len(Append(o, v))
      BY <1>2, <2>2, <2>5 DEF o, v
    <3> QED BY <1>2, <2>5, <2>6, <2>7, <3>1, OperandsStep DEF e
  <2> QED BY <1>2, <2>3, <2>8, ArraysKept DEF Types
<1>3. sp \in Nat /\ Len(stack) \in Nat
  BY TopIs
<1> QED
  BY <1>1, <1>2, <1>3 DEF Push, Alloc

(* The last operand of an instruction that takes one.                      *)
LEMMA LastIs ==
    ASSUME Types, Frames, TopFrame.operands # << >>
    PROVE  /\ Last(TopFrame.operands) = TopFrame.operands[Len(TopFrame.operands)]
           /\ Last(TopFrame.operands) \in Value
           /\ At(stack, sp - 1) = Last(TopFrame.operands)
           /\ Front(TopFrame.operands) = SubSeq(TopFrame.operands, 1, Len(TopFrame.operands) - 1)
           /\ Front(TopFrame.operands) \in Seq(Value)
           /\ Len(Front(TopFrame.operands)) = Len(TopFrame.operands) - 1
           /\ \A i \in 1..(Len(TopFrame.operands) - 1) :
                 Front(TopFrame.operands)[i] = TopFrame.operands[i]
           /\ Len(TopFrame.operands) \in Nat \ {0}
           /\ sp - 1 \in Floor(TopFrame)..(Len(stack) - 1)
<1> DEFINE o == TopFrame.operands
           e == Floor(TopFrame)
<1>1. o \in Seq(Value) /\ o # << >>
  BY TopTypes
<1>2. sp = e + Len(o) /\ e \in Nat /\ sp \in 0..Len(stack) /\ Len(stack) \in Nat
  BY TopIs DEF Types, Block
<1>3. \A i \in 1..Len(o) : At(stack, e + i - 1) = o[i]
  BY TopSlots
<1> HIDE DEF o, e
<1>4. /\ Front(o) = SubSeq(o, 1, Len(o) - 1) /\ Last(o) = o[Len(o)] /\ Last(o) \in Value
      /\ Front(o) \in Seq(Value) /\ Len(Front(o)) = Len(o) - 1
      /\ \A i \in 1..(Len(o) - 1) : Front(o)[i] = o[i]
  BY <1>1, FrontIs
<1>5. Len(o) \in Nat \ {0}
  BY <1>1
<1>6. sp - 1 \in e..(Len(stack) - 1) /\ sp - 1 = e + Len(o) - 1 /\ Len(o) \in 1..Len(o)
  BY <1>2, <1>5
<1>7. At(stack, sp - 1) = Last(o)
  BY <1>3, <1>4, <1>6
<1> QED
  BY <1>4, <1>5, <1>6, <1>7 DEF o, e

LEMMA PopKeeps ==
    ASSUME IInv, WellTyped, Pop
    PROVE  IInv'
<1> USE DEF IInv
<1> DEFINE o == TopFrame.operands
           e == Floor(TopFrame)
<1>1. o # << >>
  BY CodeIs DEF Pop, CodeTyped
<1>2. /\ Front(o) \in Seq(Value) /\ Len(Front(o)) = Len(o) - 1 /\ Len(o) \in Nat \ {0}
      /\ \A i \in 1..(Len(o) - 1) : Front(o)[i] = o[i] /\ At(stack, e + i - 1) = o[i]
  <2>1. \A i \in 1..Len(o) : At(stack, e + i - 1) = o[i]
    BY TopSlots
  <2>2. /\ Front(o) \in Seq(Value) /\ Len(Front(o)) = Len(o) - 1 /\ Len(o) \in Nat \ {0}
        /\ \A i \in 1..(Len(o) - 1) : Front(o)[i] = o[i]
    BY <1>1, LastIs
  <2> HIDE DEF o, e
  <2> QED BY <2>1, <2>2
<1>3. /\ sp' = sp - 1 /\ pc' = pc + 1 /\ meant' = MeantTop(Front(o))
      /\ UNCHANGED <<program, stack, pointer_flags, moved, func, base, native, array, elements, outcome>>
  BY DEF Pop
<1>4. sp' = e + Len(Front(o)) /\ e \in Nat /\ sp = e + Len(o) /\ sp' \in 0..sp
  <2>1. e \in Nat /\ sp = e + Len(o)
    BY TopIs
  <2> HIDE DEF o, e
  <2> QED BY <1>2, <1>3, <2>1
<1>5. Block(stack', pointer_flags', sp')
  BY <1>3, <1>4, BlockLowered DEF Types
<1>6. Agree(stack, stack', e) /\ Lies(stack', e, Front(o))
  <2> HIDE DEF o, e
  <2> QED BY <1>2, <1>3 DEF Agree, Lies
<1>7. Frames'
  BY <1>2, <1>3, <1>4, <1>6, OperandsStep
<1> QED
  BY <1>3, <1>5, <1>7, ArraysKept DEF Types

(* The top frame changed, by an instruction of it.                         *)
LEMMA ChangedStep ==
    ASSUME Types, Frames, program' = program, native' = native, func' = func, base' = base,
           NEW frame, Changes(program, stack, stack', TopFrame, frame),
           meant' = Append(Lower(meant, 1), frame), pc' = frame.pc, sp' = End(frame)
    PROVE  Frames'
<1> DEFINE m == meant
           top == m[Len(m)]
           u == Append(Lower(m, 1), frame)
<1>1. meant' = u /\ TopFrame = top
  BY DEF TopFrame
<1>2. /\ Sound(program, stack, m) /\ ~NativeIn(program, top) /\ Activated(program, m, native)
  BY DEF Types, Frames, Framed, Sound
<1>3. Len(m) \in Nat \ {0} /\ DOMAIN m = 1..Len(m)
  BY TopTypes
<1>4. Changes(program, stack, stack', top, frame)
  BY <1>1
<1> HIDE DEF m
<1>5. OnTop(program, m, stack', frame, u)
  BY <1>2, <1>4, FrameChanged
<1> HIDE DEF u
<1>6. ~NativeIn(program, frame) /\ frame.function = top.function /\ frame.first = top.first
  BY <1>2, <1>4 DEF Changes, NativeIn
<1>7. Activated(program, u, native)
  BY <1>2, <1>3, <1>5, <1>6, ActivatedChanged DEF OnTop
<1>8. func = top.function /\ base = top.first
  BY DEF Frames, Framed, m
<1>9. Len(u) = Len(m) /\ u[Len(u)] = frame /\ Layout(program, u) /\ Stored(program, stack', u)
  BY <1>5 DEF OnTop
<1>10. /\ func' = frame.function /\ pc' = frame.pc /\ base' = frame.first /\ sp' = End(frame)
  BY <1>6, <1>8
<1>11. Framed(program, stack', u, native, func', pc', base', sp')
  BY <1>6, <1>7, <1>9, <1>10 DEF Framed
<1> QED
  BY <1>1, <1>11 DEF Frames

LEMMA StoreKeeps ==
    ASSUME IInv, WellTyped, Store
    PROVE  IInv'
<1> USE DEF IInv
<1> DEFINE o == TopFrame.operands
           e == Floor(TopFrame)
           vs == TopFrame.variables
           i == Code.n + 1
           v == Last(o)
           ws == [vs EXCEPT ![i] = v]
           slot == base + Converted(func, Code.n)
           frame == Frame(TopFrame.function, TopFrame.first, ws, Front(o), TopFrame.pc + 1)
           a == Arity(program, func)
           z == InfoSize(TopFrame)
<1>1. o # << >> /\ Code.n \in Int /\ i \in 1..Len(vs) /\ i - 1 = Code.n /\ vs \in Seq(Value)
  <2>1. Code \in [op : STRING, n : Int] /\ CodeTyped(Code, o) /\ Code.op = "store"
    BY CodeIs DEF Store
  <2>2. Code.n \in Int /\ o # << >> /\ Code.n + 1 \in DOMAIN vs
    BY <2>1 DEF CodeTyped
  <2>3. vs \in Seq(Value)
    BY TopTypes
  <2> HIDE DEF vs, o
  <2> QED BY <2>2, <2>3
<1>2. /\ v \in Value /\ At(stack, sp - 1) = v /\ Front(o) \in Seq(Value)
      /\ Len(Front(o)) = Len(o) - 1 /\ Len(o) \in Nat \ {0}
      /\ \A j \in 1..(Len(o) - 1) : Front(o)[j] = o[j]
  BY <1>1, LastIs
<1>3. /\ stack' = Written(stack, slot, v)
      /\ pointer_flags' = Written(pointer_flags, slot, IsPointer(v[1]))
      /\ sp' = sp - 1 /\ pc' = pc + 1 /\ meant' = Append(Lower(meant, 1), frame)
      /\ UNCHANGED <<program, moved, func, base, native, array, elements, outcome>>
  BY <1>2 DEF Store, MeantNext
<1>4. /\ e \in Nat /\ sp = e + Len(o) /\ sp \in 0..Len(stack) /\ base \in Nat /\ z \in Nat
      /\ e = base + z + Len(vs) /\ Len(vs) \in Nat /\ a \in 0..Len(vs) /\ Len(stack) \in Nat
      /\ func = TopFrame.function /\ base = TopFrame.first
  BY TopTypes, TopIs DEF Types, Block
<1>5. slot = base + i - 1 + (IF i <= a THEN 0 ELSE z) /\ slot \in 0..(e - 1)
  <2> HIDE DEF i
  <2>1. /\ base + Converted(func, i - 1) = base + i - 1 + (IF i <= a THEN 0 ELSE z)
        /\ base + Converted(func, i - 1) \in 0..(e - 1)
    BY <1>1, VariableAt
  <2> QED BY <1>1, <2>1
<1>6. ws \in Seq(Value) /\ Len(ws) = Len(vs)
      /\ \A j \in 1..Len(vs) : ws[j] = IF j = i THEN v ELSE vs[j]
  <2> HIDE DEF vs, v, i
  <2> QED BY <1>1, <1>2
<1>7. /\ frame.function = TopFrame.function /\ frame.first = TopFrame.first
      /\ frame.variables = ws /\ frame.operands = Front(o) /\ frame.pc = TopFrame.pc + 1
  BY DEF Frame
<1>8. Shaped(program, frame)
  <2>1. TopFrame \in FrameType /\ Shaped(program, TopFrame)
    BY TopTypes
  <2>2. ~NativeIn(program, frame)
    BY <1>7 DEF Frames, Framed, NativeIn, TopFrame
  <2>3. frame \in FrameType
    <3> HIDE DEF ws
    <3>1. TopFrame.function \in Nat /\ TopFrame.first \in Nat /\ TopFrame.pc + 1 \in Nat \ {0}
      BY <2>1 DEF FrameType
    <3> HIDE DEF o
    <3> QED BY <1>2, <1>6, <3>1 DEF FrameType, Frame
  <2> HIDE DEF frame
  <2> QED BY <1>6, <1>7, <2>1, <2>2, <2>3 DEF Shaped
<1> HIDE DEF slot, v, ws, i
<1>9. /\ Len(stack') = Len(stack)
      /\ \A j \in 0..(Len(stack) - 1) : At(stack', j) = IF j = slot THEN v ELSE At(stack, j)
  <2>1. slot \in 0..(Len(stack) - 1)
    <3> HIDE DEF e, o
    <3> QED BY <1>2, <1>4, <1>5
  <2>2. v \in Slot /\ stack \in Seq(Slot)
    BY <1>2, Slots DEF Types, Block
  <2>3. Writes(stack, stack', slot, v)
    BY <1>3, <2>1, <2>2 DEF Writes
  <2> QED BY <2>3, SlotWritten
<1>10. Block(stack', pointer_flags', sp')
  <2>1. Block(stack, pointer_flags, sp) /\ v \in Slot /\ IsPointer(v[1]) \in BOOLEAN
    BY <1>2, Slots DEF Types, IsPointer
  <2>2. /\ slot \in 0..(Len(stack) - 1) /\ sp - 1 \in 0..Len(stack)
        /\ \A j \in 0..(sp - 1 - 1) : j < sp \/ j = slot
    <3> DEFINE x == Len(o)
               l == Len(stack)
    <3>1. /\ x \in Nat \ {0} /\ l \in Nat /\ e \in Nat /\ sp = e + x /\ sp \in 0..l
          /\ slot \in 0..(e - 1)
      BY <1>2, <1>4, <1>5
    <3> HIDE DEF e, x, l
    <3>2. /\ slot \in 0..(l - 1) /\ sp - 1 \in 0..l
          /\ \A j \in 0..(sp - 1 - 1) : j < sp
      BY ONLY <3>1
    <3> QED BY <3>2 DEF l
  <2>3. Block(Written(stack, slot, v), Written(pointer_flags, slot, IsPointer(v[1])), sp - 1)
    BY <2>1, <2>2, BlockWritten
  <2> QED BY <1>3, <2>3
<1>11. Within(program, stack', frame)
  <2> DEFINE n == Len(vs)
             x == Len(o)
             S(j) == base + j - 1 + (IF j <= a THEN 0 ELSE z)
  <2>1. /\ \A j \in 1..n : At(stack, S(j)) = vs[j]
        /\ \A j \in 1..x : At(stack, e + j - 1) = o[j]
    BY TopSlots
  <2>2. InfoSize(frame) = z
    BY <1>7 DEF InfoSize
  <2>3. /\ n \in Nat /\ x \in Nat /\ e + x <= Len(stack) /\ Len(stack) \in Nat /\ e \in Nat
        /\ i \in 1..n /\ a \in 0..n /\ e = base + z + n /\ base \in Nat /\ z \in Nat
    <3> HIDE DEF e, a, z
    <3> QED BY <1>1, <1>2, <1>4
  <2> HIDE DEF e, a, z, n, x, frame
  <2>4. ASSUME NEW j \in 1..n
        PROVE  S(j) \in 0..(Len(stack) - 1) /\ (S(j) = slot <=> j = i)
    <3> DEFINE l == Len(stack)
    <3>1. /\ n \in Nat /\ x \in Nat /\ l \in Nat /\ e + x <= l /\ e = base + z + n
          /\ base \in Nat /\ z \in Nat /\ a \in 0..n /\ i \in 1..n /\ j \in 1..n
          /\ slot = base + i - 1 + (IF i <= a THEN 0 ELSE z)
      BY <1>5, <2>3
    <3> HIDE DEF l
    <3>2. S(j) \in 0..(l - 1) /\ (S(j) = slot <=> j = i)
      BY ONLY <3>1
    <3> QED BY <3>2 DEF l
  <2>5. ASSUME NEW j \in 1..(x - 1)
        PROVE  e + j - 1 \in 0..(Len(stack) - 1) /\ e + j - 1 # slot /\ j \in 1..x
    <3> DEFINE l == Len(stack)
    <3>1. x \in Nat /\ l \in Nat /\ e \in Nat /\ e + x <= l /\ slot \in 0..(e - 1) /\ j \in 1..(x - 1)
      BY <1>5, <2>3
    <3> HIDE DEF l
    <3>2. e + j - 1 \in 0..(l - 1) /\ e + j - 1 # slot /\ j \in 1..x
      BY ONLY <3>1
    <3> QED BY <3>2 DEF l
  <2>6. \A j \in 1..n : At(stack', S(j)) = ws[j]
    BY <1>6, <1>9, <2>1, <2>4 DEF n
  <2>7. \A j \in 1..(x - 1) : At(stack', e + j - 1) = Front(o)[j]
    BY <1>2, <1>9, <2>1, <2>5 DEF x
  <2>8. Len(frame.variables) = n /\ Len(frame.operands) = x - 1
    BY <1>6, <1>7, <1>2 DEF n, x
  <2>9. \A j \in 1..Len(frame.variables) :
          At(stack', frame.first + j - 1 + (IF j <= Arity(program, frame.function) THEN 0
                                            ELSE InfoSize(frame))) = frame.variables[j]
    BY <1>4, <1>7, <2>2, <2>6, <2>8 DEF a
  <2>10. e = frame.first + InfoSize(frame) + Len(frame.variables)
    BY <1>4, <1>7, <2>2, <2>8 DEF n
  <2>11. \A j \in 1..Len(frame.operands) :
          At(stack', frame.first + InfoSize(frame) + Len(frame.variables) + j - 1) = frame.operands[j]
    BY <1>7, <2>7, <2>8, <2>10
  <2> QED BY <2>9, <2>11 DEF Within
<1> DEFINE l == Len(stack)
<1>12. /\ l \in Nat /\ e \in 0..l /\ base \in Nat /\ z \in Nat /\ a \in Nat /\ base + z + a <= e
       /\ slot \in base..(e - 1) /\ i \in Nat /\ slot = base + i - 1 + (IF i <= a THEN 0 ELSE z)
  <2> DEFINE n == Len(vs)
             x == Len(o)
  <2>1. /\ n \in Nat /\ x \in Nat /\ l \in Nat /\ e \in Nat /\ sp = e + x /\ sp \in 0..l
        /\ i \in 1..n /\ a \in 0..n /\ e = base + z + n /\ base \in Nat /\ z \in Nat
        /\ slot = base + i - 1 + (IF i <= a THEN 0 ELSE z) /\ slot \in 0..(e - 1)
    BY <1>1, <1>2, <1>4, <1>5
  <2> HIDE DEF n, x, e, z, a, l
  <2> QED BY ONLY <2>1
<1>13. Agree(stack, stack', TopFrame.first)
  <2>1. ASSUME NEW j \in 0..(base - 1)
        PROVE  At(stack', j) = At(stack, j)
    <3> HIDE DEF e, z, a, l
    <3>1. j \in 0..(l - 1) /\ j # slot
      BY <1>12
    <3> QED BY <1>9, <3>1 DEF l
  <2> QED BY <1>4, <2>1 DEF Agree
<1>14. TopFrame.function # Top =>
         At(stack', TopFrame.first + Arity(program, TopFrame.function))
             = At(stack, TopFrame.first + Arity(program, TopFrame.function))
  <2> SUFFICES ASSUME TopFrame.function # Top
               PROVE  At(stack', base + a) = At(stack, base + a)
    BY <1>4
  <2>1. z = CallInfoSize /\ CallInfoSize \in Nat \ {0}
    BY TopTypes, StackAllocSizeAssumption
  <2> HIDE DEF e, z, a, l
  <2>2. base + a \in 0..(l - 1) /\ base + a # slot
    BY <1>12, <2>1
  <2> QED BY <1>9, <2>2 DEF l
<1>15. Changes(program, stack, stack', TopFrame, frame)
  <2> HIDE DEF frame
  <2> QED BY <1>7, <1>8, <1>11, <1>13, <1>14 DEF Changes
<1>16. pc' = frame.pc /\ sp' = End(frame)
  <2>1. pc = TopFrame.pc
    BY TopIs
  <2>2. InfoSize(frame) = z
    BY <1>7 DEF InfoSize
  <2>3. End(frame) = base + z + Len(vs) + Len(Front(o))
    BY <1>4, <1>6, <1>7, <2>2 DEF End
  <2> HIDE DEF frame, z, vs, o, e
  <2>4. sp' = End(frame)
    BY <1>2, <1>3, <1>4, <2>3
  <2> QED BY <1>3, <1>7, <2>1, <2>4
<1> HIDE DEF frame
<1>17. Frames'
  BY <1>3, <1>15, <1>16, ChangedStep
<1> QED
  BY <1>3, <1>10, <1>17, ArraysKept DEF Types

-----------------------------------------------------------------------------
(* The call information and the local variables of a frame, at slot q.     *)
Calls(s, t, q, c, a, b, v) ==
    /\ s \in Seq(Slot) /\ q \in Nat /\ c \in Int /\ a \in Int /\ b \in Int /\ v \in Seq(Slot)
    /\ q + CallInfoSize + Len(v) <= Len(s)
    /\ t = WriteAll(WriteAll(s, q, CallInfo(c, a, b)), q + CallInfoSize, v)

LEMMA CallInfoIs ==
    ASSUME NEW c \in Int, NEW a \in Int, NEW b \in Int
    PROVE  /\ CallInfo(c, a, b) \in Seq(Slot) /\ Len(CallInfo(c, a, b)) = CallInfoSize
           /\ CallInfo(c, a, b)[1] = <<"call", c, a, b>>
           /\ \A i \in 1..CallInfoSize : ~IsPointer(CallInfo(c, a, b)[i][1])
<1> DEFINE w == <<"call", c, a, b>>
           t == [i \in 1 .. CallInfoSize - 1 |-> Uninitialised]
<1>1. CallInfoSize \in Nat \ {0}
  BY StackAllocSizeAssumption
<1>2. w \in Slot /\ ~IsPointer(w[1])
  BY DEF Slot, Type, IsPointer
<1>3. Uninitialised \in Slot /\ ~IsPointer(Uninitialised[1])
  BY Slots
<1>4. CallInfo(c, a, b) = <<w>> \o t
  BY DEF CallInfo
<1>5. /\ t \in Seq(Slot) /\ Len(t) = CallInfoSize - 1
      /\ \A i \in 1..(CallInfoSize - 1) : t[i] = Uninitialised
  BY <1>1, <1>3
<1>6. <<w>> \in Seq(Slot) /\ Len(<<w>>) = 1 /\ <<w>>[1] = w
  <2> HIDE DEF w
  <2> QED BY <1>2
<1> DEFINE u == <<w>>
<1> HIDE DEF w, t, u
<1>7. /\ u \o t \in Seq(Slot) /\ Len(u \o t) = CallInfoSize
      /\ \A i \in 1..CallInfoSize : (u \o t)[i] = IF i <= 1 THEN u[i] ELSE t[i - 1]
  BY <1>1, <1>5, <1>6, ConcatIs DEF u
<1>8. (u \o t)[1] = w /\ \A i \in 1..CallInfoSize : ~IsPointer((u \o t)[i][1])
  <2>1. \A i \in 1..CallInfoSize : (u \o t)[i] = IF i = 1 THEN w ELSE Uninitialised
    BY <1>1, <1>5, <1>6, <1>7 DEF u
  <2>2. (u \o t)[1] = w
    <3>1. 1 \in 1..CallInfoSize
      BY <1>1
    <3>2. (u \o t)[1] = IF 1 = 1 THEN w ELSE Uninitialised
      BY <2>1, <3>1
    <3> QED BY <3>2
  <2>3. ASSUME NEW i \in 1..CallInfoSize
        PROVE  ~IsPointer((u \o t)[i][1])
    <3>1. (u \o t)[i] = w \/ (u \o t)[i] = Uninitialised
      BY <2>1
    <3> QED BY <1>2, <1>3, <3>1
  <2> QED BY <2>2, <2>3
<1> QED
  BY <1>4, <1>7, <1>8 DEF w, u

LEMMA CallWritten ==
    ASSUME NEW s, NEW t, NEW q, NEW c, NEW a, NEW b, NEW v, Calls(s, t, q, c, a, b, v)
    PROVE  /\ t \in Seq(Slot) /\ Len(t) = Len(s)
           /\ \A j \in 0..(q - 1) : At(t, j) = At(s, j)
           /\ At(t, q) = <<"call", c, a, b>>
           /\ \A i \in 1..Len(v) : At(t, q + CallInfoSize + i - 1) = v[i]
<1> DEFINE info == CallInfo(c, a, b)
           r == WriteAll(s, q, info)
           z == CallInfoSize
           x == Len(v)
           l == Len(s)
<1>1. /\ s \in Seq(Slot) /\ q \in Nat /\ v \in Seq(Slot) /\ x \in Nat /\ l \in Nat /\ z \in Nat \ {0}
      /\ q + z + x <= l /\ t = WriteAll(r, q + z, v) /\ q + z \in Nat
  BY StackAllocSizeAssumption DEF Calls
<1>2. info \in Seq(Slot) /\ Len(info) = z /\ info[1] = <<"call", c, a, b>>
  BY CallInfoIs DEF Calls
<1> HIDE DEF info, z
<1>3. /\ r \in Seq(Slot) /\ Len(r) = l
      /\ \A j \in 0..(l - 1) :
            At(r, j) = IF j \in q .. q + z - 1 THEN info[j - q + 1] ELSE At(s, j)
  <2>1. WritesAll(s, r, q, info)
    BY <1>1, <1>2 DEF WritesAll
  <2> QED BY <1>2, <2>1, SlotsWritten
<1> HIDE DEF r
<1>4. /\ t \in Seq(Slot) /\ Len(t) = l
      /\ \A j \in 0..(l - 1) :
            At(t, j) = IF j \in q + z .. q + z + x - 1 THEN v[j - (q + z) + 1] ELSE At(r, j)
  <2>1. WritesAll(r, t, q + z, v)
    BY <1>1, <1>3 DEF WritesAll
  <2> QED BY <1>3, <2>1, SlotsWritten
<1> HIDE DEF x, l
<1>5. \A j \in 0..(q - 1) : At(t, j) = At(s, j)
  BY <1>1, <1>3, <1>4
<1>6. At(t, q) = info[1]
  <2>1. q \in 0..(l - 1) /\ q \in q .. q + z - 1 /\ q \notin q + z .. q + z + x - 1 /\ q - q + 1 = 1
    BY <1>1
  <2> QED BY <1>3, <1>4, <2>1
<1>7. ASSUME NEW i \in 1..x
      PROVE  At(t, q + z + i - 1) = v[i]
  <2> DEFINE j == q + z + i - 1
  <2>1. j \in 0..(l - 1) /\ j \in q + z .. q + z + x - 1 /\ j - (q + z) + 1 = i
    BY <1>1
  <2> HIDE DEF j
  <2>2. At(t, j) = v[j - (q + z) + 1]
    BY <1>4, <2>1
  <2>3. At(t, j) = v[i]
    BY <2>1, <2>2
  <2> QED BY <2>3 DEF j
<1> QED
  BY <1>2, <1>4, <1>5, <1>6, <1>7 DEF x, z, l

LEMMA CallFlagged ==
    ASSUME NEW s, NEW t, NEW q, NEW c, NEW a, NEW b, NEW v, Calls(s, t, q, c, a, b, v),
           NEW flags, NEW n, Block(s, flags, n), q <= n,
           NEW f, f \in Seq(BOOLEAN), Len(f) = Len(v),
           \A i \in 1..Len(v) : f[i] = IsPointer(v[i][1])
    PROVE  Block(t, WriteAll(WriteAll(flags, q, NoPointers(CallInfoSize)), q + CallInfoSize, f),
                 q + CallInfoSize + Len(v))
<1> DEFINE info == CallInfo(c, a, b)
           z == CallInfoSize
           r == WriteAll(s, q, info)
           np == NoPointers(z)
           g == WriteAll(flags, q, np)
           x == Len(v)
           l == Len(s)
<1>1. /\ s \in Seq(Slot) /\ q \in Nat /\ v \in Seq(Slot) /\ x \in Nat /\ l \in Nat /\ z \in Nat \ {0}
      /\ q + z + x <= l /\ t = WriteAll(r, q + z, v) /\ q + z \in Nat
  BY StackAllocSizeAssumption DEF Calls
<1>2. info \in Seq(Slot) /\ Len(info) = z /\ \A i \in 1..z : ~IsPointer(info[i][1])
  BY CallInfoIs DEF Calls
<1>3. np \in Seq(BOOLEAN) /\ Len(np) = z /\ \A i \in 1..z : np[i] = FALSE
  <2>1. z \in Nat
    BY <1>1
  <2> HIDE DEF z
  <2> QED BY <2>1, NoPointersAre
<1>4. n \in 0..l
  BY DEF Block
<1> HIDE DEF info, z, np
<1>5. Block(r, g, q + z)
  <2>1. q + z \in 0..l /\ \A j \in 0..(q + z - 1) : j < n \/ j \in q .. q + z - 1
    <3> HIDE DEF x, l
    <3> QED BY <1>1, <1>4
  <2>2. \A i \in 1..Len(info) : np[i] = IsPointer(info[i][1])
    BY <1>2, <1>3 DEF IsPointer
  <2>3. Fills(s, flags, n, q, info, np, q + z)
    BY <1>1, <1>2, <1>3, <2>1, <2>2 DEF Fills
  <2> QED BY <2>3, BlockWrittenAll DEF r, g
<1>6. Len(r) = l
  BY <1>1, <1>2, WriteAllIs
<1> HIDE DEF r, g
<1>7. Block(WriteAll(r, q + z, v), WriteAll(g, q + z, f), q + z + x)
  <2>1. q + z + x \in 0..Len(r)
        /\ \A j \in 0..(q + z + x - 1) : j < q + z \/ j \in q + z .. q + z + x - 1
    <3> HIDE DEF x, l
    <3> QED BY <1>1, <1>6
  <2>2. Fills(r, g, q + z, q + z, v, f, q + z + x)
    BY <1>1, <1>5, <2>1 DEF Fills
  <2> QED BY <2>2, BlockWrittenAll
<1> QED
  BY <1>1, <1>7 DEF g, np, z

-----------------------------------------------------------------------------
(* A call: what the code finds on the stack is what is meant.              *)
LEMMA CallIs ==
    ASSUME Types, Frames, WellTyped, Invoking
    PROVE  /\ TopFrame.operands # << >> /\ outcome = "running"
           /\ Called = MeantCallee /\ MeantCallee \in DOMAIN program \ {Top}
           /\ CallTyped(Last(TopFrame.operands), Front(TopFrame.operands))
           /\ MeantArity = Len(program[MeantCallee].parameters)
           /\ MeantArity \in 0..(Len(TopFrame.operands) - 1)
<1> DEFINE o == TopFrame.operands
           v == Last(o)
<1>1. o # << >> /\ CallTyped(o[Len(o)], SubSeq(o, 1, Len(o) - 1)) /\ outcome = "running"
  BY CodeIs DEF Invoking, CodeTyped
<1>2. v = o[Len(o)] /\ At(stack, sp - 1) = v /\ Front(o) = SubSeq(o, 1, Len(o) - 1)
      /\ Len(Front(o)) = Len(o) - 1 /\ Len(o) \in Nat
  BY <1>1, LastIs
<1>3. CallTyped(v, Front(o))
  BY <1>1, <1>2
<1>4. Called = MeantCallee /\ MeantCallee = Callee(v)
  BY <1>2 DEF Called, MeantCallee
<1> HIDE DEF o, v
<1>5. MeantCallee \in DOMAIN program \ {Top} /\ Len(Front(o)) >= Len(Fun(MeantCallee).parameters)
  BY <1>3, <1>4 DEF CallTyped
<1>6. MeantArity = Len(program[MeantCallee].parameters)
  BY DEF MeantArity, Fun
<1>7. MeantArity \in Nat /\ Len(Front(o)) >= MeantArity
  <2>1. program \in Programs
    BY DEF Types
  <2> QED BY <1>5, <1>6, <2>1, ProgramIs DEF MeantArity
<1>8. MeantArity \in 0..(Len(o) - 1)
  <2> DEFINE n == MeantArity
             x == Len(o)
             y == Len(Front(o))
  <2>1. n \in Nat /\ y >= n /\ y = x - 1 /\ x \in Nat
    BY <1>2, <1>7
  <2> HIDE DEF n, x, y
  <2>2. n \in 0..(x - 1)
    BY ONLY <2>1
  <2> QED BY <2>2 DEF n, x
<1> QED
  BY <1>1, <1>3, <1>4, <1>5, <1>6, <1>8 DEF o, v

LEMMA ArgumentsAre ==
    ASSUME Types, Frames, WellTyped, Invoking
    PROVE  /\ MeantArguments \in Seq(Value) /\ Len(MeantArguments) = MeantArity
           /\ \A i \in 1..MeantArity :
                 MeantArguments[i] = TopFrame.operands[Len(TopFrame.operands) - 1 - MeantArity + i]
           /\ MeantRest \in Seq(Value) /\ Len(MeantRest) = Len(TopFrame.operands) - 1 - MeantArity
           /\ \A i \in 1..Len(MeantRest) : MeantRest[i] = TopFrame.operands[i]
<1> DEFINE o == TopFrame.operands
           n == MeantArity
           g == Front(o)
<1>1. o # << >> /\ n \in 0..(Len(o) - 1)
  BY CallIs
<1>2. o \in Seq(Value) /\ Len(o) \in Nat /\ g \in Seq(Value) /\ Len(g) = Len(o) - 1
      /\ \A i \in 1..(Len(o) - 1) : g[i] = o[i]
  BY <1>1, TopTypes, LastIs
<1>3. MeantArguments = LastOf(g, n) /\ MeantRest = SubSeq(o, 1, Len(o) - (n + 1))
  BY DEF MeantArguments, MeantRest, Taken
<1> HIDE DEF o, n, g
<1>4. /\ LastOf(g, n) \in Seq(Value) /\ Len(LastOf(g, n)) = n
      /\ \A i \in 1..n : LastOf(g, n)[i] = g[Len(g) - n + i]
  <2>1. n \in 0..Len(g)
    BY <1>1, <1>2
  <2> QED BY <1>2, <2>1, LastOfIs
<1>5. ASSUME NEW i \in 1..n
      PROVE  LastOf(g, n)[i] = o[Len(o) - 1 - n + i]
  <2>1. Len(g) - n + i \in 1..(Len(o) - 1) /\ Len(g) - n + i = Len(o) - 1 - n + i
    BY <1>1, <1>2
  <2> QED BY <1>2, <1>4, <2>1
<1>6. n + 1 \in 0..Len(o) /\ Len(o) - (n + 1) = Len(o) - 1 - n
  BY <1>1, <1>2
<1>7. /\ MeantRest \in Seq(Value) /\ Len(MeantRest) = Len(o) - 1 - n
      /\ \A i \in 1..Len(MeantRest) : MeantRest[i] = o[i]
  <2>1. /\ SubSeq(o, 1, Len(o) - (n + 1)) \in Seq(Value)
        /\ Len(SubSeq(o, 1, Len(o) - (n + 1))) = Len(o) - (n + 1)
        /\ \A i \in 1..(Len(o) - (n + 1)) : SubSeq(o, 1, Len(o) - (n + 1))[i] = o[i]
    BY <1>2, <1>6, LowerIs
  <2> QED BY <1>3, <1>6, <2>1
<1> QED
  BY <1>3, <1>4, <1>5, <1>7 DEF o, n

(* The object of a delegate.                                               *)
LEMMA ThisIs ==
    ASSUME NEW v \in Value, v[1] = "delegate" => v[2] \in DOMAIN Delegates
    PROVE  /\ This(v) \in Seq(Value) /\ Len(This(v)) = (IF OfMethod(v) THEN 1 ELSE 0)
           /\ \A i \in 1..Len(This(v)) : IsPointer(This(v)[i][1])
           /\ OfMethod(v) => IsPointer(v[1]) /\ This(v)[1] \in Value
<1>1. CASE OfMethod(v)
  <2> DEFINE w == <<"object", DelegateOf(v).object>>
  <2>1. v[1] = "delegate" /\ v[2] \in DOMAIN Delegates
    BY <1>1 DEF OfMethod
  <2>2. Delegates[v[2]] \in [object : Nat, function : Nat]
    <3> DEFINE R == [object : Nat, function : Nat]
               i == v[2]
    <3>1. Delegates \in Seq(R) /\ i \in DOMAIN Delegates
      BY <2>1, DelegatesAssumption
    <3> HIDE DEF R, i
    <3>2. Delegates[i] \in R
      BY ONLY <3>1
    <3> QED BY <3>2 DEF R, i
  <2>3. DelegateOf(v).object \in Int
    BY <2>2 DEF DelegateOf
  <2>4. w \in Value /\ w[1] = "object"
    BY <2>3, Values DEF Type
  <2>5. This(v) = <<w>>
    BY <1>1 DEF This
  <2> HIDE DEF w
  <2>6. <<w>> \in Seq(Value) /\ Len(<<w>>) = 1 /\ <<w>>[1] = w
    BY <2>4
  <2>7. \A i \in 1..Len(<<w>>) : i = 1
    BY <2>6
  <2> QED BY <1>1, <2>1, <2>4, <2>5, <2>6, <2>7 DEF IsPointer
<1>2. CASE ~OfMethod(v)
  <2>1. This(v) = << >>
    BY <1>2 DEF This
  <2> QED BY <1>2, <2>1
<1> QED
  BY <1>1, <1>2

LEMMA InitialIs ==
    ASSUME program \in Programs, NEW f \in DOMAIN program, NEW old
    PROVE  /\ Initial(f) \in Seq(Value) /\ Len(Initial(f)) = Len(program[f].locals)
           /\ Len(program[f].locals) \in Nat
           /\ LocalFlags(f, old) \in Seq(BOOLEAN) /\ Len(LocalFlags(f, old)) = Len(program[f].locals)
           /\ \A i \in 1..Len(program[f].locals) : LocalFlags(f, old)[i] = IsPointer(Initial(f)[i][1])
<1> DEFINE l == program[f].locals
           n == Len(l)
           zeros == [i \in 1..n |-> Zero(l[i])]
           flags == [i \in 1..n |-> IsPointer(l[i])]
<1>1. l \in Seq(STRING) /\ n \in Nat /\ DOMAIN l = 1..n
  <2>1. l \in Seq(STRING)
    BY ProgramIs
  <2> HIDE DEF l
  <2> QED BY <2>1
<1>2. Initial(f) = zeros /\ LocalFlags(f, old) = flags
  BY <1>1 DEF Initial, LocalFlags, Fun
<1> HIDE DEF l, n
<1>3. \A i \in 1..n : Zero(l[i]) \in Value /\ Zero(l[i])[1] = l[i] /\ IsPointer(l[i]) \in BOOLEAN
  <2> TAKE i \in 1..n
  <2>1. l[i] \in STRING
    BY <1>1
  <2>2. l[i] \in Type /\ 0 \in Int
    BY <2>1 DEF Type
  <2> QED BY <2>2, Values DEF Zero, IsPointer
<1>4. zeros \in Seq(Value) /\ Len(zeros) = n /\ \A i \in 1..n : zeros[i] = Zero(l[i])
  BY <1>1, <1>3
<1>5. flags \in Seq(BOOLEAN) /\ Len(flags) = n
  BY <1>1, <1>3
<1>6. \A i \in 1..n : flags[i] = IsPointer(l[i])
  OBVIOUS
<1> HIDE DEF zeros, flags
<1>7. \A i \in 1..n : flags[i] = IsPointer(zeros[i][1])
  BY <1>3, <1>4, <1>6
<1> QED
  BY <1>1, <1>2, <1>4, <1>5, <1>7 DEF n, l

(* A frame that begins: its parameters, with this, lie below the call      *)
(* information, and its local variables above.                             *)
Enters(p, t, f, first, arguments, locals) ==
    /\ p \in Programs /\ f \in DOMAIN p \ {Top} /\ first \in Nat
    /\ p[f].kind = "native" => ~p[f].return_pointer
    /\ arguments \in Seq(Value) /\ Len(arguments) = Arity(p, f)
    /\ locals \in Seq(Value) /\ Len(locals) = Len(p[f].locals)
    /\ \A i \in 1..Len(arguments) : At(t, first + i - 1) = arguments[i]
    /\ \A i \in 1..Len(locals) : At(t, first + Len(arguments) + CallInfoSize + i - 1) = locals[i]

LEMMA FrameEntered ==
    ASSUME NEW p, NEW t, NEW f, NEW first, NEW arguments, NEW locals,
           Enters(p, t, f, first, arguments, locals)
    PROVE  /\ Shaped(p, Began(f, first, arguments \o locals))
           /\ Within(p, t, Began(f, first, arguments \o locals))
           /\ End(Began(f, first, arguments \o locals))
                = first + Len(arguments) + CallInfoSize + Len(locals)
           /\ Began(f, first, arguments \o locals).function = f
           /\ Began(f, first, arguments \o locals).first = first
           /\ Began(f, first, arguments \o locals).pc = 1
<1> DEFINE frame == Began(f, first, arguments \o locals)
           a == Len(arguments)
           x == Len(locals)
           vs == arguments \o locals
           z == CallInfoSize
<1>1. /\ p \in Programs /\ f \in DOMAIN p /\ f # Top /\ first \in Nat /\ f \in Nat
      /\ arguments \in Seq(Value) /\ locals \in Seq(Value) /\ a \in Nat /\ x \in Nat
      /\ a = Arity(p, f) /\ x = Len(p[f].locals) /\ z \in Nat
  <2>1. /\ p \in Programs /\ f \in DOMAIN p /\ f # Top /\ first \in Nat
        /\ arguments \in Seq(Value) /\ locals \in Seq(Value)
        /\ a = Arity(p, f) /\ x = Len(p[f].locals)
    BY DEF Enters
  <2> QED BY <2>1, ProgramIs, StackAllocSizeAssumption
<1>2. /\ \A i \in 1..a : At(t, first + i - 1) = arguments[i]
      /\ \A i \in 1..x : At(t, first + a + z + i - 1) = locals[i]
  BY DEF Enters
<1>3. /\ vs \in Seq(Value) /\ Len(vs) = a + x
      /\ \A i \in 1..(a + x) : vs[i] = IF i <= a THEN arguments[i] ELSE locals[i - a]
  BY <1>1, ConcatIs
<1>4. /\ frame.function = f /\ frame.first = first /\ frame.variables = vs
      /\ frame.operands = << >> /\ frame.pc = 1
  BY DEF Began, Frame
<1>5. frame \in FrameType
  <2> HIDE DEF vs
  <2>1. frame = [function |-> f, first |-> first, variables |-> vs, operands |-> << >>, pc |-> 1]
    BY DEF Began, Frame, vs
  <2> HIDE DEF frame
  <2>2. << >> \in Seq(Value) /\ 1 \in Nat \ {0}
    OBVIOUS
  <2> QED BY <1>1, <1>3, <2>1, <2>2 DEF FrameType
<1> HIDE DEF frame, vs, a, x, z
<1>6. Shaped(p, frame)
  <2>1. NativeIn(p, frame) => frame.operands = << >> /\ ~p[frame.function].return_pointer
    BY <1>4 DEF Enters, NativeIn
  <2> QED BY <1>1, <1>3, <1>4, <1>5, <2>1 DEF Shaped
<1>7. InfoSize(frame) = z /\ Len(frame.operands) = 0
  BY <1>1, <1>4 DEF InfoSize, z
<1>8. End(frame) = first + a + z + x
  <2>1. /\ Len(frame.variables) = a + x /\ Len(frame.operands) = 0 /\ frame.first = first
        /\ first \in Nat /\ a \in Nat /\ x \in Nat /\ z \in Nat /\ InfoSize(frame) = z
    BY <1>1, <1>3, <1>4, <1>7
  <2>2. End(frame) = frame.first + InfoSize(frame) + Len(frame.variables) + Len(frame.operands)
    BY DEF End
  <2> QED BY ONLY <2>1, <2>2
<1>9. ASSUME NEW i \in 1..(a + x)
      PROVE  At(t, first + i - 1 + (IF i <= a THEN 0 ELSE z)) = vs[i]
  <2>1. CASE i <= a
    <3>1. i \in 1..a /\ first + i - 1 + 0 = first + i - 1
      BY <1>1, <2>1
    <3> QED BY <1>2, <1>3, <2>1, <3>1
  <2>2. CASE ~(i <= a)
    <3> DEFINE j == i - a
    <3>1. j \in 1..x /\ first + a + z + j - 1 = first + i - 1 + z
      BY <1>1, <2>2
    <3> HIDE DEF j
    <3>2. At(t, first + a + z + j - 1) = locals[j] /\ vs[i] = locals[j]
      BY <1>2, <1>3, <2>2, <3>1 DEF j
    <3> QED BY <2>2, <3>1, <3>2
  <2> QED BY <2>1, <2>2
<1>10. Within(p, t, frame)
  BY <1>1, <1>3, <1>4, <1>7, <1>9 DEF Within
<1> QED
  BY <1>4, <1>6, <1>8, <1>10 DEF frame, vs, a, x, z

(* A frame that begins on top of others, and is linked to the last.        *)
LinkOf(p, info, below) ==
    /\ NativeIn(p, below) <=> CallerAddress(info) = CallFromNative
    /\ ~NativeIn(p, below) => /\ Caller(info) = below.function
                              /\ CallerAddress(info) + 1 = below.pc
                              /\ CallerBase(info) = below.first

Begins(p, t, m, f, first, arguments, locals) ==
    /\ Sound(p, t, m) /\ Enters(p, t, f, first, arguments, locals)
    /\ first = End(m[Len(m)])
    /\ p[f].kind = "native" => ~NativeIn(p, m[Len(m)])
    /\ LinkOf(p, At(t, first + Len(arguments)), m[Len(m)])

Topped(p, t, m, frame, u) ==
    /\ Sound(p, t, u) /\ Len(m) \in Nat \ {0} /\ DOMAIN m = 1..Len(m)
    /\ Len(u) = Len(m) + 1 /\ DOMAIN u = 1..(Len(m) + 1)
    /\ u[Len(m) + 1] = frame
    /\ \A k \in 1..Len(m) : u[k] = m[k]

LEMMA FrameBegun ==
    ASSUME NEW p, NEW t, NEW m, NEW f, NEW first, NEW arguments, NEW locals,
           Begins(p, t, m, f, first, arguments, locals)
    PROVE  LET frame == Began(f, first, arguments \o locals)
           IN  /\ Topped(p, t, m, frame, Append(m, frame))
               /\ frame.function = f /\ frame.first = first /\ frame.pc = 1
               /\ End(frame) = first + Len(arguments) + CallInfoSize + Len(locals)
<1> DEFINE frame == Began(f, first, arguments \o locals)
           u == Append(m, frame)
<1>1. /\ p \in Programs /\ Layout(p, m) /\ Stored(p, t, m) /\ f # Top
      /\ Enters(p, t, f, first, arguments, locals) /\ first = End(m[Len(m)])
      /\ p[f].kind = "native" => ~NativeIn(p, m[Len(m)])
      /\ LinkOf(p, At(t, first + Len(arguments)), m[Len(m)])
      /\ Len(arguments) = Arity(p, f)
  BY DEF Begins, Sound, Enters
<1>2. /\ Shaped(p, frame) /\ Within(p, t, frame)
      /\ End(frame) = first + Len(arguments) + CallInfoSize + Len(locals)
      /\ frame.function = f /\ frame.first = first /\ frame.pc = 1
  BY <1>1, FrameEntered
<1> HIDE DEF frame
<1>3. Linked(p, t, frame, m[Len(m)])
  BY <1>1, <1>2 DEF Linked, LinkOf
<1>4. frame.function # Top /\ frame.first = End(m[Len(m)])
      /\ (NativeIn(p, frame) => ~NativeIn(p, m[Len(m)]))
  BY <1>1, <1>2 DEF NativeIn
<1>5. Layout(p, u) /\ Stored(p, t, u)
  BY <1>1, <1>2, <1>3, <1>4, FramePushed
<1>6. m \in Seq(FrameType) /\ Len(m) \in Nat \ {0} /\ DOMAIN m = 1..Len(m) /\ frame \in FrameType
  BY <1>1, <1>2 DEF Layout, Shaped
<1>7. /\ Len(u) = Len(m) + 1 /\ DOMAIN u = 1..(Len(m) + 1)
      /\ \A k \in 1..Len(m) : u[k] = m[k]
      /\ u[Len(m) + 1] = frame
  BY <1>6, AppendIs
<1>8. Topped(p, t, m, frame, u)
  BY <1>1, <1>5, <1>6, <1>7 DEF Topped, Sound
<1> QED
  BY <1>2, <1>8 DEF frame

-----------------------------------------------------------------------------
(* INVOKE of a function of the program, and of a delegate.                 *)
LEMMA CalledBlock ==
    ASSUME IInv, WellTyped, Invoking, Fun(Called).kind = "diksam"
    PROVE  /\ Block(CalledStack, pointer_flags, sp) /\ Len(CalledStack) = Len(stack)
           /\ MeantThis \in Seq(Value) /\ Len(MeantThis) \in {0, 1} /\ CalledSp = sp + Len(MeantThis)
           /\ Agree(stack, CalledStack, sp - 1)
           /\ Len(MeantThis) = 1 => At(CalledStack, sp - 1) = MeantThis[1]
           /\ Arity(program, MeantCallee) = MeantArity + Len(MeantThis)
<1> USE DEF IInv
<1> DEFINE o == TopFrame.operands
           v == Last(o)
           w == This(v)[1]
<1>1. /\ o # << >> /\ Called = MeantCallee /\ CallTyped(v, Front(o))
      /\ MeantArity = Len(program[MeantCallee].parameters) /\ MeantCallee = Callee(v)
  BY CallIs DEF MeantCallee
<1>2. v \in Value /\ At(stack, sp - 1) = v
  BY <1>1, LastIs
<1>3. sp - 1 \in 0..(Len(stack) - 1) /\ sp \in 0..Len(stack) /\ Len(stack) \in Nat
  <2>1. sp - 1 \in Floor(TopFrame)..(Len(stack) - 1) /\ Floor(TopFrame) \in Nat
        /\ sp \in Nat /\ Len(stack) \in Nat
    BY <1>1, LastIs, TopIs
  <2> QED BY ONLY <2>1
<1>4. v[1] = "delegate" => v[2] \in DOMAIN Delegates
  BY <1>1 DEF CallTyped
<1>5. program[MeantCallee].method <=> OfMethod(v)
  BY <1>1 DEF CallTyped, Fun
<1>6. /\ MeantThis = This(v) /\ This(v) \in Seq(Value)
      /\ Len(This(v)) = (IF OfMethod(v) THEN 1 ELSE 0)
      /\ (\A i \in 1..Len(This(v)) : IsPointer(This(v)[i][1]))
      /\ OfMethod(v) => IsPointer(v[1]) /\ w \in Value
  BY <1>2, <1>4, ThisIs DEF MeantThis
<1>7. Arity(program, MeantCallee) = MeantArity + Len(MeantThis)
  BY <1>1, <1>5, <1>6 DEF Arity
<1>8. CalledSp = sp + Len(MeantThis)
  BY <1>2, <1>3, <1>6 DEF CalledSp
<1>9. Block(stack, pointer_flags, sp)
  BY DEF Types
<1>10. CASE OfMethod(v)
  <2>1. CalledStack = Written(stack, sp - 1, w) /\ w \in Slot /\ Len(This(v)) = 1
    BY <1>2, <1>6, <1>10, Slots DEF CalledStack
  <2>2. stack \in Seq(Slot)
    BY <1>9 DEF Block
  <2>3. /\ CalledStack \in Seq(Slot) /\ Len(CalledStack) = Len(stack)
        /\ \A j \in 0..(Len(stack) - 1) : At(CalledStack, j) = IF j = sp - 1 THEN w ELSE At(stack, j)
    <3>1. Writes(stack, CalledStack, sp - 1, w)
      BY <1>3, <2>1, <2>2 DEF Writes
    <3> QED BY <3>1, SlotWritten
  <2>4. IsPointer(w[1]) /\ IsPointer(v[1])
    <3>1. 1 \in 1..Len(This(v))
      BY <2>1
    <3> QED BY <1>6, <1>10, <3>1
  <2> HIDE DEF w
  <2>5. Flagged(CalledStack, pointer_flags, sp)
    <3> SUFFICES ASSUME NEW j \in 0..(sp - 1)
                 PROVE  At(pointer_flags, j) = IsPointer(At(CalledStack, j)[1])
      BY DEF Flagged
    <3>1. j \in 0..(Len(stack) - 1)
      BY <1>3
    <3>2. At(pointer_flags, j) = IsPointer(At(stack, j)[1])
      BY <1>9 DEF Block, Flagged
    <3>3. CASE j = sp - 1
      <4>1. At(pointer_flags, j) = IsPointer(v[1]) /\ At(CalledStack, j) = w
        BY <1>2, <2>3, <3>1, <3>2, <3>3
      <4> QED BY <2>4, <4>1 DEF IsPointer
    <3>4. CASE j # sp - 1
      <4>1. At(CalledStack, j) = At(stack, j)
        BY <2>3, <3>1, <3>4
      <4> QED BY <3>2, <4>1
    <3> QED BY <3>3, <3>4
  <2>6. Block(CalledStack, pointer_flags, sp)
    BY <1>9, <2>3, <2>5 DEF Block
  <2>7. Agree(stack, CalledStack, sp - 1) /\ At(CalledStack, sp - 1) = w
    BY <1>3, <2>3 DEF Agree
  <2> QED BY <1>6, <1>7, <1>8, <2>1, <2>3, <2>6, <2>7 DEF w
<1>11. CASE ~OfMethod(v)
  <2>1. CalledStack = stack
    BY <1>2, <1>11 DEF CalledStack
  <2> QED BY <1>6, <1>7, <1>8, <1>9, <1>11, <2>1 DEF Agree
<1> QED
  BY <1>10, <1>11

(* The stack after the call: the frame of the caller without what it has   *)
(* pushed for the call, then that of the called function.                  *)
LEMMA InvokedStack ==
    ASSUME IInv, WellTyped, Invoking, Fun(Called).kind = "diksam", NEW by \in Int,
           stack' = WriteAll(WriteAll(Grown(CalledStack, by, Uninitialised), CalledSp - 1,
                                      CallInfo(func, pc, base)),
                             CalledSp + CallInfoSize - 1, Initial(Called)),
           ~(CalledSp + CallInfoSize - 1 + Len(Fun(Called).locals)
                > Len(Grown(CalledStack, by, Uninitialised)))
    PROVE  /\ Calls(Grown(CalledStack, by, Uninitialised), stack', CalledSp - 1, func, pc, base,
                    Initial(Called))
           /\ Block(Grown(CalledStack, by, Uninitialised), Grown(pointer_flags, by, FALSE), sp)
           /\ CalledSp - 1 <= sp /\ CalledSp \in Nat
           /\ At(stack', CalledSp - 1) = <<"call", func, pc, base>>
           /\ \A i \in 1..Len(Initial(Called)) :
                 At(stack', CalledSp - 1 + CallInfoSize + i - 1) = Initial(Called)[i]
           /\ Agree(stack, stack', sp - 1)
           /\ Len(MeantThis) = 1 => At(stack', sp - 1) = MeantThis[1]
<1> USE DEF IInv
<1> DEFINE s == CalledStack
           g == Grown(s, by, Uninitialised)
           q == CalledSp - 1
           v == Initial(Called)
           k == Len(MeantThis)
           l == Len(stack)
           z == CallInfoSize
<1>1. /\ Block(s, pointer_flags, sp) /\ Len(s) = l
      /\ k \in {0, 1} /\ CalledSp = sp + k
      /\ Agree(stack, s, sp - 1)
      /\ k = 1 => At(s, sp - 1) = MeantThis[1]
  BY CalledBlock
<1>2. sp \in 1..l /\ l \in Nat /\ z \in Nat \ {0} /\ base \in Nat
  <2>1. sp - 1 \in Floor(TopFrame)..(l - 1) /\ Floor(TopFrame) \in Nat /\ sp \in Nat /\ l \in Nat
    BY CallIs, LastIs, TopIs
  <2>2. base \in Nat
    BY TopTypes, TopIs
  <2> HIDE DEF l
  <2>3. sp \in 1..l
    BY ONLY <2>1
  <2> QED BY <2>1, <2>2, <2>3, StackAllocSizeAssumption
<1>3. func \in Int /\ pc \in Int /\ base \in Int
  <2>1. program \in Programs /\ func \in DOMAIN program /\ pc \in Nat \ {0}
    BY TopTypes, TopIs DEF Types
  <2>2. func \in Nat
    BY <2>1, ProgramIs
  <2> QED BY <1>2, <2>1, <2>2
<1>4. v \in Seq(Slot) /\ Len(v) = Len(program[Called].locals) /\ Len(v) \in Nat
  <2>1. Called \in DOMAIN program /\ program \in Programs
    BY CallIs DEF Types
  <2>2. v \in Seq(Value) /\ Len(v) = Len(program[Called].locals) /\ Len(v) \in Nat
    BY <2>1, InitialIs
  <2>3. Value \subseteq Slot
    BY Slots
  <2> HIDE DEF v
  <2> QED BY <2>2, <2>3
<1>5. /\ Block(g, Grown(pointer_flags, by, FALSE), sp)
      /\ g \in Seq(Slot) /\ Len(g) \in Nat /\ Len(g) >= l
      /\ \A j \in 0..(l - 1) : At(g, j) = At(s, j)
  <2>1. s \in Seq(Slot) /\ Uninitialised \in Slot
    BY <1>1, Slots DEF Block
  <2>2. /\ g \in Seq(Slot) /\ Len(g) = Len(s) + (IF by > 0 THEN by ELSE 0)
        /\ \A j \in 0..(Len(s) - 1) : At(g, j) = At(s, j)
    BY <2>1, GrownIs
  <2>3. Len(g) \in Nat /\ Len(g) >= l
    <3> DEFINE x == Len(g)
    <3>1. x = l + (IF by > 0 THEN by ELSE 0) /\ l \in Nat /\ by \in Int
      BY <1>1, <1>2, <2>2
    <3> HIDE DEF x, l
    <3>2. x \in Nat /\ x >= l
      BY ONLY <3>1
    <3> QED BY <3>2 DEF x
  <2> QED BY <1>1, <2>2, <2>3, BlockGrown
<1> HIDE DEF g, v, s, k, l
<1>6. /\ q \in Nat /\ q <= sp /\ q + z = CalledSp + z - 1 /\ CalledSp \in Nat
      /\ q = sp - 1 + k
  BY ONLY <1>1, <1>2
<1>7. q + z + Len(v) <= Len(g)
  <2> DEFINE x == Len(v)
             y == Len(g)
  <2>1. ~(CalledSp + z - 1 + x > y)
    BY <1>4 DEF Fun, g, s
  <2>2. /\ ~(CalledSp + z - 1 + x > y) /\ x \in Nat /\ y \in Nat /\ q + z = CalledSp + z - 1
        /\ q \in Nat /\ z \in Nat
    BY <1>2, <1>4, <1>5, <1>6, <2>1
  <2> HIDE DEF x, y, q, z
  <2>3. q + z + x <= y
    BY ONLY <2>2
  <2> QED BY <2>3 DEF x, y
<1>8. Calls(g, stack', q, func, pc, base, v)
  <2>1. stack' = WriteAll(WriteAll(g, q, CallInfo(func, pc, base)), q + z, v)
    BY <1>6 DEF g, v, s
  <2> HIDE DEF q
  <2> QED BY <1>3, <1>4, <1>5, <1>6, <1>7, <2>1 DEF Calls
<1> HIDE DEF q, z
<1>9. /\ \A j \in 0..(q - 1) : At(stack', j) = At(g, j)
      /\ At(stack', q) = <<"call", func, pc, base>>
      /\ \A i \in 1..Len(v) : At(stack', q + z + i - 1) = v[i]
  BY <1>8, CallWritten DEF z
<1>10. Agree(stack, stack', sp - 1)
  <2> SUFFICES ASSUME NEW j \in 0..(sp - 1 - 1)
               PROVE  At(stack', j) = At(stack, j)
    BY DEF Agree
  <2>1. j \in 0..(q - 1) /\ j \in 0..(l - 1) /\ j \in 0..(sp - 1 - 1)
    BY <1>1, <1>2, <1>6
  <2>2. At(s, j) = At(stack, j)
    BY <1>1, <2>1 DEF Agree
  <2> QED BY <1>5, <1>9, <2>1, <2>2
<1>11. k = 1 => At(stack', sp - 1) = MeantThis[1]
  <2> SUFFICES ASSUME k = 1
               PROVE  At(stack', sp - 1) = MeantThis[1]
    OBVIOUS
  <2>1. sp - 1 \in 0..(q - 1) /\ sp - 1 \in 0..(l - 1)
    BY <1>1, <1>2, <1>6
  <2> QED BY <1>1, <1>5, <1>9, <2>1
<1> QED
  BY <1>5, <1>6, <1>8, <1>9, <1>10, <1>11 DEF g, v, s, k, q, z


(* The frame of the caller during the call, and the arguments above it.    *)
LEMMA BelowIs ==
    ASSUME IInv, WellTyped, Invoking, Agree(stack, stack', sp - 1)
    PROVE  /\ Sound(program, stack', Below) /\ Activated(program, Below, native)
           /\ Len(Below) \in Nat \ {0} /\ DOMAIN Below = 1..Len(Below)
           /\ Last(Below) = Below[Len(Below)] /\ ~NativeIn(program, Below[Len(Below)])
           /\ Below[Len(Below)].function = func /\ Below[Len(Below)].first = base
           /\ Below[Len(Below)].pc = pc + 1
           /\ End(Below[Len(Below)]) = sp - 1 - MeantArity
           /\ sp - 1 - MeantArity \in Nat /\ MeantArity \in Nat /\ sp \in 1..Len(stack)
           /\ \A i \in 1..MeantArity : At(stack', sp - 1 - MeantArity + i - 1) = MeantArguments[i]
<1> USE DEF IInv
<1> DEFINE o == TopFrame.operands
           e == Floor(TopFrame)
           r == MeantRest
           n == MeantArity
           x == Len(o)
           y == Len(r)
           l == Len(stack)
           m == meant
           frame == Resumed(TopFrame, r, pc + 1)
<1>1. /\ r \in Seq(Value) /\ y = x - 1 - n /\ \A i \in 1..y : r[i] = o[i]
      /\ \A i \in 1..n : MeantArguments[i] = o[x - 1 - n + i]
  BY ArgumentsAre
<1>2. n \in 0..(x - 1) /\ x \in Nat /\ e \in Nat /\ sp = e + x /\ l \in Nat /\ sp \in 0..l
  BY CallIs, TopTypes, TopIs DEF Types, Block
<1>3. \A i \in 1..x : At(stack, e + i - 1) = o[i]
  BY TopSlots
<1>4. /\ Sound(program, stack, m) /\ ~NativeIn(program, TopFrame) /\ Activated(program, m, native)
      /\ Len(m) \in Nat \ {0} /\ DOMAIN m = 1..Len(m) /\ TopFrame = m[Len(m)]
      /\ pc = TopFrame.pc /\ pc \in Nat \ {0} /\ func = TopFrame.function /\ base = TopFrame.first
  BY TopTypes, TopIs DEF Types, Frames, Framed, Sound, TopFrame
<1>5. Below = Operating(m, r, pc + 1)
  BY <1>4 DEF Below, MeantTop, MeantNext, Operating, Resumed
<1> HIDE DEF o, e, r, n, x, y, l, m
<1>6. Agree(stack, stack', e)
  <2>1. \A j \in 0..(e - 1) : j \in 0..(sp - 1 - 1)
    BY <1>2
  <2> QED BY <2>1 DEF Agree
<1>7. \A i \in 1..(x - 1) : At(stack', e + i - 1) = o[i]
  <2> TAKE i \in 1..(x - 1)
  <2>1. e + i - 1 \in 0..(sp - 1 - 1) /\ i \in 1..x
    BY <1>2
  <2> QED BY <1>3, <2>1 DEF Agree
<1>8. Lies(stack', e, r)
  <2>1. ASSUME NEW i \in 1..y
        PROVE  At(stack', e + i - 1) = r[i]
    <3>1. i \in 1..(x - 1)
      BY <1>1, <1>2
    <3> QED BY <1>1, <1>7, <3>1
  <2> QED BY <2>1 DEF Lies, y
<1>9. Resumes(program, stack, stack', m[Len(m)], r, pc + 1)
  BY <1>1, <1>4, <1>6, <1>8 DEF Resumes, e
<1>10. /\ OnTop(program, m, stack', frame, Below)
       /\ ~NativeIn(program, frame) /\ End(frame) = e + y
  <2> DEFINE top == m[Len(m)]
             c == pc + 1
  <2> HIDE DEF top, c, frame
  <2>1. Sound(program, stack, m) /\ Resumes(program, stack, stack', m[Len(m)], r, c)
    BY <1>4, <1>9 DEF c
  <2>2. /\ OnTop(program, m, stack', Resumed(m[Len(m)], r, c), Operating(m, r, c))
        /\ ~NativeIn(program, Resumed(m[Len(m)], r, c))
        /\ End(Resumed(m[Len(m)], r, c)) = Floor(m[Len(m)]) + Len(r)
    BY ONLY <2>1, Operands
  <2>3. frame = Resumed(m[Len(m)], r, c) /\ Below = Operating(m, r, c) /\ e = Floor(m[Len(m)])
    BY <1>4, <1>5 DEF frame, c, e
  <2> QED BY <2>2, <2>3 DEF y
<1>11. frame.function = func /\ frame.first = base /\ frame.pc = pc + 1
  BY <1>4 DEF Resumed, Frame
<1> HIDE DEF frame
<1>12. /\ Len(Below) = Len(m) /\ DOMAIN Below = 1..Len(m) /\ Below[Len(m)] = frame
       /\ Layout(program, Below) /\ Stored(program, stack', Below)
       /\ \A k \in 1..(Len(m) - 1) : Below[k] = m[k]
  BY <1>10 DEF OnTop
<1>13. Activated(program, Below, native)
  BY <1>4, <1>10, <1>12, ActivatedChanged
<1>14. Sound(program, stack', Below)
  BY <1>4, <1>12 DEF Sound
<1>15. /\ e + y = sp - 1 - n /\ sp - 1 - n \in Nat /\ n \in Nat /\ sp \in 1..l
  BY ONLY <1>1, <1>2
<1>16. ASSUME NEW i \in 1..n
       PROVE  At(stack', sp - 1 - n + i - 1) = MeantArguments[i]
  <2> DEFINE j == x - 1 - n + i
  <2>1. j \in 1..(x - 1) /\ e + j - 1 = sp - 1 - n + i - 1
    BY <1>2
  <2> HIDE DEF j
  <2>2. At(stack', e + j - 1) = o[j]
    BY <1>7, <2>1
  <2>3. MeantArguments[i] = o[j]
    BY <1>1 DEF j
  <2> QED BY <2>1, <2>2, <2>3
<1>17. Last(Below) = Below[Len(Below)]
  BY DEF Last
<1> QED
  BY <1>4, <1>10, <1>11, <1>12, <1>13, <1>14, <1>15, <1>16, <1>17 DEF n, l

LEMMA InvokeDiksamKeeps ==
    ASSUME IInv, WellTyped, InvokeDiksam
    PROVE  IInv'
<1> USE DEF IInv
<1> DEFINE f == MeantCallee
           locals == Len(Fun(Called).locals)
           by == Expansion(Alloc - CalledSp,
                           CallInfoSize + locals + calc_need_stack_size(Called), locals)
           grown == Grown(CalledStack, by, Uninitialised)
           flags == Grown(pointer_flags, by, FALSE)
           first == CalledSp + CallInfoSize - 1
           z == CallInfoSize
           n == MeantArity
           k == Len(MeantThis)
           q == CalledSp - 1
           b == sp - 1 - n
           x == Len(Initial(f))
<1>1. CASE Stops("overrun")
  BY <1>1, StopsKeeps
<1>2. ASSUME ~(first + locals > Len(grown)),
             stack' = WriteAll(WriteAll(grown, CalledSp - 1, CallInfo(func, pc, base)),
                               first, Initial(Called)),
             pointer_flags' =
                 WriteAll(WriteAll(flags, CalledSp - 1, NoPointers(CallInfoSize)),
                          first, LocalFlags(Called, SubSeq(flags, first + 1, first + locals))),
             sp' = first + locals,
             moved' = moved + (IF by > 0 THEN 1 ELSE 0),
             func' = Called, pc' = 1, base' = FrameBase(Called, CalledSp),
             meant' = Append(Below, Began(MeantCallee, End(Last(Below)), MeantVariables)),
             UNCHANGED <<program, native, array, elements, outcome>>
      PROVE  IInv'
  <2>1. /\ Invoking /\ Fun(Called).kind = "diksam" /\ Called = f /\ f \in DOMAIN program \ {Top}
        /\ program \in Programs
    BY CallIs DEF InvokeDiksam, Types
  <2>2. /\ k \in {0, 1} /\ CalledSp = sp + k /\ MeantThis \in Seq(Value)
        /\ Arity(program, f) = n + k
    BY <2>1, CalledBlock
  <2>3. by \in Int
    <3>1. Alloc - CalledSp \in Int /\ StackAllocSize \in Nat \ {0}
      <4>1. sp \in Nat /\ Len(stack) \in Nat
        BY TopIs
      <4> QED BY <2>2, <4>1, StackAllocSizeAssumption DEF Alloc
    <3> DEFINE rest == Alloc - CalledSp
               d == rest \div StackAllocSize
               w == StackAllocSize
    <3>2. d \in Int /\ w \in Int
      BY <3>1
    <3> HIDE DEF d, w
    <3>3. (d + 1) * w \in Int /\ 0 \in Int
      BY <3>2
    <3>4. by = (d + 1) * w \/ by = 0
      BY DEF Expansion, d, w
    <3> QED BY <3>3, <3>4
  <2> HIDE DEF by
  <2>4. /\ Calls(grown, stack', q, func, pc, base, Initial(f))
        /\ Block(grown, flags, sp) /\ q <= sp /\ CalledSp \in Nat
        /\ At(stack', q) = <<"call", func, pc, base>>
        /\ \A i \in 1..x : At(stack', q + z + i - 1) = Initial(f)[i]
        /\ Agree(stack, stack', sp - 1)
        /\ k = 1 => At(stack', sp - 1) = MeantThis[1]
    BY <1>2, <2>1, <2>3, InvokedStack
  <2> HIDE DEF grown, flags
  <2>5. /\ Sound(program, stack', Below) /\ Activated(program, Below, native)
        /\ Len(Below) \in Nat \ {0} /\ DOMAIN Below = 1..Len(Below)
        /\ Last(Below) = Below[Len(Below)] /\ ~NativeIn(program, Below[Len(Below)])
        /\ Below[Len(Below)].function = func /\ Below[Len(Below)].first = base
        /\ Below[Len(Below)].pc = pc + 1
        /\ End(Below[Len(Below)]) = b
        /\ b \in Nat /\ n \in Nat /\ sp \in 1..Len(stack)
        /\ \A i \in 1..n : At(stack', b + i - 1) = MeantArguments[i]
    BY <2>1, <2>4, BelowIs
  <2>6. /\ MeantArguments \in Seq(Value) /\ Len(MeantArguments) = n
    BY <2>1, ArgumentsAre
  <2> DEFINE arguments == MeantArguments \o MeantThis
             old == SubSeq(flags, first + 1, first + locals)
             frame == Began(f, b, arguments \o Initial(f))
  <2>7. /\ Initial(f) \in Seq(Value) /\ x = locals /\ x = Len(program[f].locals) /\ x \in Nat
        /\ LocalFlags(f, old) \in Seq(BOOLEAN) /\ Len(LocalFlags(f, old)) = x
        /\ \A i \in 1..x : LocalFlags(f, old)[i] = IsPointer(Initial(f)[i][1])
    BY <2>1, InitialIs DEF Fun
  <2>8. /\ z \in Nat \ {0} /\ sp \in Nat \ {0} /\ b = sp - 1 - n /\ b \in Nat /\ n \in Nat
        /\ k \in {0, 1} /\ CalledSp = sp + k /\ q = CalledSp - 1 /\ first = CalledSp + z - 1
        /\ sp' = first + x /\ x \in Nat
    BY <1>2, <2>2, <2>5, <2>7, StackAllocSizeAssumption
  <2> HIDE DEF q, first, z, n, k, b, x
  <2>9. q + z = first /\ b + (n + k) = q /\ sp' = q + z + x
    BY ONLY <2>8
  <2>10. /\ arguments \in Seq(Value) /\ Len(arguments) = n + k
         /\ \A i \in 1..(n + k) :
               arguments[i] = IF i <= n THEN MeantArguments[i] ELSE MeantThis[i - n]
    BY <2>2, <2>6, ConcatIs DEF k
  <2> HIDE DEF arguments
  <2>11. \A i \in 1..(n + k) : At(stack', b + i - 1) = arguments[i]
    <3> TAKE i \in 1..(n + k)
    <3>1. CASE i <= n
      <4>1. i \in 1..n
        BY <2>8, <3>1
      <4> QED BY <2>5, <2>10, <3>1, <4>1 DEF b, n
    <3>2. CASE ~(i <= n)
      <4>1. k = 1 /\ i - n = 1 /\ b + i - 1 = sp - 1
        BY <2>8, <3>2
      <4> QED BY <2>4, <2>10, <3>2, <4>1 DEF k
    <3> QED BY <3>1, <3>2
  <2>12. Enters(program, stack', f, b, arguments, Initial(f))
    <3>1. \A i \in 1..x : At(stack', b + (n + k) + z + i - 1) = Initial(f)[i]
      BY <2>4, <2>9 DEF q, z, x
    <3>2. program[f].kind # "native"
      BY <2>1 DEF Fun
    <3>3. /\ Len(arguments) = Arity(program, f)
          /\ \A i \in 1..Len(arguments) : At(stack', b + i - 1) = arguments[i]
      BY <2>2, <2>10, <2>11 DEF k, n
    <3>4. \A i \in 1..Len(Initial(f)) :
             At(stack', b + Len(arguments) + CallInfoSize + i - 1) = Initial(f)[i]
      BY <2>10, <3>1 DEF x, z
    <3> QED BY <2>1, <2>7, <2>8, <2>10, <3>2, <3>3, <3>4 DEF Enters, x
  <2>13. Begins(program, stack', Below, f, b, arguments, Initial(f))
    <3> DEFINE info == At(stack', b + Len(arguments))
    <3>1. info = <<"call", func, pc, base>>
      BY <2>4, <2>9, <2>10 DEF q
    <3>2. CallerAddress(info) = pc /\ Caller(info) = func /\ CallerBase(info) = base
      BY <3>1 DEF CallerAddress, Caller, CallerBase
    <3>3. pc \in Nat
      BY TopTypes, TopIs
    <3>4. LinkOf(program, info, Below[Len(Below)])
      <4> HIDE DEF info
      <4>1. CallerAddress(info) # CallFromNative
        BY <3>2, <3>3 DEF CallFromNative
      <4> QED BY <2>5, <3>2, <4>1 DEF LinkOf
    <3>5. program[f].kind # "native"
      BY <2>1 DEF Fun
    <3> QED BY <2>5, <2>12, <3>4, <3>5 DEF Begins, b, n
  <2>14. /\ Topped(program, stack', Below, frame, Append(Below, frame))
         /\ frame.function = f /\ frame.first = b /\ frame.pc = 1
         /\ End(frame) = b + (n + k) + z + x
    BY <2>10, <2>13, FrameBegun DEF z, x
  <2>15. meant' = Append(Below, frame)
    BY <1>2, <2>5 DEF MeantVariables, arguments, b, n
  <2> HIDE DEF frame
  <2>16. ~NativeIn(program, frame)
    BY <2>1, <2>14 DEF NativeIn, Fun
  <2> DEFINE u == Append(Below, frame)
  <2>17. /\ Len(u) = Len(Below) + 1 /\ DOMAIN u = 1..(Len(Below) + 1)
         /\ u[Len(Below) + 1] = frame /\ Sound(program, stack', u)
         /\ \A j \in 1..Len(Below) : u[j] = Below[j]
    BY <2>14 DEF Topped
  <2> HIDE DEF u
  <2>18. Activated(program, u, native)
    BY <2>5, <2>16, <2>17, ActivatedPushed
  <2>19. base' = b /\ func' = f /\ pc' = 1 /\ sp' = b + (n + k) + z + x
    <3>1. FrameBase(Called, CalledSp) = CalledSp - Arity(program, f) - 1
      BY <2>1 DEF FrameBase, WithThis, Fun, Arity
    <3>2. base' = CalledSp - (n + k) - 1
      BY <1>2, <2>2, <3>1 DEF n, k
    <3>3. CalledSp - (n + k) - 1 = b
      BY ONLY <2>8
    <3>4. sp' = b + (n + k) + z + x
      BY <2>9
    <3> QED BY <1>2, <2>1, <3>2, <3>3, <3>4
  <2>20. Frames'
    <3>1. u[Len(u)] = frame
      BY <2>17
    <3>2. Framed(program, stack', u, native, func', pc', base', sp')
      BY <2>14, <2>16, <2>17, <2>18, <2>19, <3>1 DEF Framed, Sound
    <3> QED BY <1>2, <2>15, <3>2 DEF Frames, u
  <2>21. Block(stack', pointer_flags', sp')
    <3>1. Block(stack', WriteAll(WriteAll(flags, q, NoPointers(z)), q + z, LocalFlags(f, old)),
                q + z + x)
      BY <2>4, <2>7, CallFlagged DEF q, z, x
    <3> QED BY <1>2, <2>1, <2>9, <3>1 DEF q, z
  <2>22. moved' \in Nat
    BY <1>2 DEF Types
  <2> QED BY <1>2, <2>20, <2>21, <2>22, ArraysKept DEF Types
<1> QED
  BY <1>1, <1>2 DEF InvokeDiksam


-----------------------------------------------------------------------------
(* A frame goes on with the result of a call, where the frames above it    *)
(* began.                                                                  *)
Continues(p, s, t, below, v) ==
    /\ ~NativeIn(p, below) /\ v \in Value
    /\ Agree(s, t, End(below)) /\ At(t, End(below)) = v

LEMMA ResultIs ==
    ASSUME NEW p, NEW s, NEW m, Sound(p, s, m), NEW t, NEW v,
           Continues(p, s, t, m[Len(m)], v)
    PROVE  LET below == m[Len(m)]
               o     == Append(below.operands, v)
           IN  /\ Resumes(p, s, t, below, o, below.pc)
               /\ Floor(below) + Len(o) = End(below) + 1
               /\ [below EXCEPT !.operands = o] = Resumed(below, o, below.pc)
<1> DEFINE below == m[Len(m)]
           r == below.operands
           o == Append(r, v)
           e == Floor(below)
           x == Len(r)
<1>1. /\ p \in Programs /\ Len(m) \in DOMAIN m /\ Shaped(p, below) /\ Within(p, s, below)
  BY DEF Sound, Layout, Stored
<1>2. ~NativeIn(p, below) /\ v \in Value /\ Agree(s, t, End(below)) /\ At(t, End(below)) = v
  BY DEF Continues
<1>3. /\ below \in FrameType /\ r \in Seq(Value) /\ x \in Nat /\ below.pc \in Nat \ {0}
      /\ below.first \in Nat /\ InfoSize(below) \in Nat /\ Len(below.variables) \in Nat
  <2> HIDE DEF below
  <2>1. below \in FrameType
    BY <1>1 DEF Shaped
  <2> QED BY <1>1, <2>1, FrameIs
<1>4. \A i \in 1..x : At(s, e + i - 1) = r[i]
  BY <1>1 DEF Within, Floor
<1>5. e \in Nat /\ End(below) = e + x
  <2>1. e = below.first + InfoSize(below) + Len(below.variables)
        /\ End(below) = below.first + InfoSize(below) + Len(below.variables) + x
    BY DEF Floor, End
  <2> HIDE DEF below, e, x
  <2> QED BY <1>3, <2>1
<1>6. [below EXCEPT !.operands = o] = Resumed(below, o, below.pc)
  <2> HIDE DEF below, o
  <2> QED BY <1>3 DEF FrameType, Resumed, Frame
<1>7. /\ o \in Seq(Value) /\ Len(o) = x + 1
      /\ \A i \in 1..(x + 1) : o[i] = IF i <= x THEN r[i] ELSE v
  BY <1>2, <1>3, AppendIs
<1> HIDE DEF below, e, x, o, r
<1>8. Agree(s, t, e)
  <2>1. \A j \in 0..(e - 1) : j \in 0..(End(below) - 1)
    BY <1>3, <1>5
  <2> QED BY <1>2, <2>1 DEF Agree
<1>9. \A i \in 1..(x + 1) : At(t, e + i - 1) = o[i]
  <2> TAKE i \in 1..(x + 1)
  <2>1. CASE i <= x
    <3>1. i \in 1..x /\ e + i - 1 \in 0..(End(below) - 1)
      BY <1>3, <1>5, <2>1
    <3> QED BY <1>2, <1>4, <1>7, <2>1, <3>1 DEF Agree
  <2>2. CASE ~(i <= x)
    <3>1. e + i - 1 = End(below)
      BY <1>3, <1>5, <2>2
    <3> QED BY <1>2, <1>7, <2>2, <3>1
  <2> QED BY <2>1, <2>2
<1>10. Lies(t, e, o)
  BY <1>7, <1>9 DEF Lies
<1>11. Resumes(p, s, t, below, o, below.pc)
  BY <1>2, <1>3, <1>7, <1>8, <1>10 DEF Resumes, e
<1>12. e + Len(o) = End(below) + 1
  BY <1>3, <1>5, <1>7
<1> QED
  BY <1>6, <1>11, <1>12 DEF below, e, o, r

LEMMA ReturnsTo ==
    ASSUME Types, Frames, program' = program, NEW n \in 1..(Len(meant) - 1), NEW v,
           Continues(program, stack, stack', meant[Len(meant) - n], v),
           Activated(program, Lower(meant, n), native'), meant' = MeantCaller(n, v),
           func' = meant[Len(meant) - n].function, pc' = meant[Len(meant) - n].pc,
           base' = meant[Len(meant) - n].first, sp' = End(meant[Len(meant) - n]) + 1
    PROVE  Frames'
<1> DEFINE m == Lower(meant, n)
           below == m[Len(m)]
           o == Append(below.operands, v)
           frame == Resumed(below, o, below.pc)
           u == Operating(m, o, below.pc)
<1>1. Sound(program, stack, meant)
  BY DEF Types, Frames, Framed, Sound
<1>2. /\ Sound(program, stack, m) /\ Len(m) = Len(meant) - n /\ DOMAIN m = 1..Len(m)
      /\ below = meant[Len(meant) - n] /\ Len(m) \in Nat \ {0}
  <2>1. /\ Sound(program, stack, m) /\ Len(m) = Len(meant) - n /\ DOMAIN m = 1..(Len(meant) - n)
        /\ Len(meant) \in Nat \ {0}
        /\ \A k \in 1..(Len(meant) - n) : m[k] = meant[k]
    BY <1>1, FramesPopped
  <2> DEFINE x == Len(meant)
             y == Len(m)
  <2>2. x \in Nat \ {0} /\ y = x - n /\ n \in 1..(x - 1)
    BY <2>1
  <2> HIDE DEF x, y
  <2>3. y \in Nat \ {0} /\ y \in 1..(x - n)
    BY ONLY <2>2
  <2> QED BY <2>1, <2>3 DEF x, y
<1>3. meant' = Append(Lower(m, 1), [Last(m) EXCEPT !.operands = Append(@, v)])
  BY DEF MeantCaller
<1>4. Last(m) = below
  BY DEF Last
<1> HIDE DEF m
<1>5. Continues(program, stack, stack', m[Len(m)], v)
  BY <1>2
<1>6. /\ Resumes(program, stack, stack', m[Len(m)], o, below.pc)
      /\ Floor(below) + Len(o) = End(below) + 1
      /\ [below EXCEPT !.operands = o] = frame
  <2>1. Sound(program, stack, m)
    BY <1>2
  <2> HIDE DEF u
  <2> QED BY ONLY <1>5, <2>1, ResultIs
<1>7. meant' = u
  BY <1>3, <1>4, <1>6 DEF Operating
<1>8. ~NativeIn(program, m[Len(m)])
  BY <1>5 DEF Continues
<1> DEFINE c == below.pc
<1>9. /\ OnTop(program, m, stack', frame, u) /\ ~NativeIn(program, frame)
      /\ End(frame) = Floor(below) + Len(o)
  <2> HIDE DEF o, c
  <2>1. Sound(program, stack, m) /\ Resumes(program, stack, stack', m[Len(m)], o, c)
    BY <1>2, <1>6 DEF c
  <2>2. /\ OnTop(program, m, stack', Resumed(m[Len(m)], o, c), Operating(m, o, c))
        /\ ~NativeIn(program, Resumed(m[Len(m)], o, c))
        /\ End(Resumed(m[Len(m)], o, c)) = Floor(m[Len(m)]) + Len(o)
    BY ONLY <2>1, Operands
  <2> QED BY <2>2 DEF c
<1>10. /\ frame.function = below.function /\ frame.first = below.first /\ frame.pc = below.pc
  BY DEF Resumed, Frame
<1> HIDE DEF u, frame
<1>11. Activated(program, u, native')
  <2>1. /\ Len(u) = Len(m) /\ DOMAIN u = 1..Len(m) /\ u[Len(m)] = frame
        /\ \A k \in 1..(Len(m) - 1) : u[k] = m[k]
    BY <1>9 DEF OnTop
  <2>2. Activated(program, m, native')
    BY DEF m
  <2> QED BY <1>2, <1>8, <1>9, <2>1, <2>2, ActivatedChanged
<1>12. /\ Len(u) = Len(m) /\ u[Len(u)] = frame /\ Layout(program, u) /\ Stored(program, stack', u)
  BY <1>9 DEF OnTop
<1>13. func' = frame.function /\ pc' = frame.pc /\ base' = frame.first /\ sp' = End(frame)
  BY <1>2, <1>6, <1>9, <1>10
<1>14. Framed(program, stack', u, native', func', pc', base', sp')
  BY <1>9, <1>11, <1>12, <1>13 DEF Framed
<1> QED
  BY <1>7, <1>14 DEF Frames


-----------------------------------------------------------------------------
(* return: to a function, and to the native function that called back.     *)
LEMMA ReturnIs ==
    ASSUME Types, Frames, WellTyped, Running, Code.op = "return"
    PROVE  /\ Len(meant) \in Nat /\ Len(meant) > 1 /\ DOMAIN meant = 1..Len(meant)
           /\ Len(meant) - 1 \in DOMAIN meant /\ outcome = "running"
           /\ ReturnValue = Last(TopFrame.operands) /\ ReturnValue \in Value
           /\ IsPointer(ReturnValue[1]) = IsPointer(Fun(func).type)
           /\ base = End(meant[Len(meant) - 1]) /\ base \in 0..(sp - 1) /\ sp \in 1..Len(stack)
           /\ Sound(program, stack, meant) /\ Activated(program, meant, native)
           /\ ~NativeIn(program, meant[Len(meant)])
           /\ LinkOf(program, ReturnInfo, meant[Len(meant) - 1])
<1> DEFINE l == Len(meant)
           o == TopFrame.operands
           below == meant[l - 1]
<1>1. /\ o # << >> /\ outcome = "running" /\ TopFrame.function # Top
      /\ IsPointer(o[Len(o)][1]) = IsPointer(Fun(TopFrame.function).type)
  BY CodeIs DEF CodeTyped
<1>2. /\ func = TopFrame.function /\ base = TopFrame.first /\ l \in Nat \ {0}
      /\ DOMAIN meant = 1..l /\ TopFrame = meant[l] /\ (func = Top <=> l = 1)
  BY TopTypes, TopIs DEF TopFrame
<1>3. l > 1 /\ l \in DOMAIN meant /\ l - 1 \in DOMAIN meant
  <2>1. l # 1 /\ l \in Nat \ {0}
    BY <1>1, <1>2
  <2> HIDE DEF l
  <2>2. l > 1 /\ l \in 1..l /\ l - 1 \in 1..l
    BY ONLY <2>1
  <2> QED BY <1>2, <2>2 DEF l
<1>4. /\ Layout(program, meant) /\ Stored(program, stack, meant) /\ program \in Programs
      /\ Activated(program, meant, native) /\ ~NativeIn(program, meant[l])
  BY DEF Types, Frames, Framed
<1>5. base = End(below) /\ Linked(program, stack, meant[l], below)
  BY <1>2, <1>3, <1>4 DEF Layout, Stored
<1>6. LinkOf(program, ReturnInfo, below)
  <2>1. ReturnInfo = At(stack, meant[l].first + Arity(program, meant[l].function))
    BY <1>2 DEF ReturnInfo, WithThis, Fun, Arity
  <2> HIDE DEF l, below
  <2> QED BY <1>5, <2>1 DEF Linked, LinkOf
<1>7. /\ At(stack, sp - 1) = Last(o) /\ Last(o) = o[Len(o)] /\ Last(o) \in Value
      /\ sp - 1 \in Floor(TopFrame)..(Len(stack) - 1)
  BY <1>1, LastIs
<1>8. base \in 0..(sp - 1) /\ sp \in 1..Len(stack)
  <2> DEFINE e == Floor(TopFrame)
             s == Len(stack)
             z == InfoSize(TopFrame)
             v == Len(TopFrame.variables)
  <2>1. /\ e = base + z + v /\ e \in Nat /\ sp \in Nat /\ s \in Nat
        /\ z \in Nat /\ v \in Nat /\ base \in Nat /\ sp - 1 \in e..(s - 1)
    BY <1>2, <1>7, TopTypes, TopIs
  <2> HIDE DEF e, s, z, v
  <2>2. base \in 0..(sp - 1) /\ sp \in 1..s
    BY ONLY <2>1
  <2> QED BY <2>2 DEF s
<1>9. ReturnValue = Last(o)
  BY <1>7 DEF ReturnValue
<1>10. Sound(program, stack, meant)
  BY <1>4 DEF Sound
<1> QED
  BY <1>1, <1>2, <1>3, <1>4, <1>5, <1>6, <1>7, <1>8, <1>9, <1>10

LEMMA ReturnKeeps ==
    ASSUME IInv, WellTyped, Return
    PROVE  IInv'
<1> USE DEF IInv
<1> DEFINE v == Last(TopFrame.operands)
           l == Len(meant)
           below == meant[l - 1]
<1>1. /\ l \in Nat /\ l > 1 /\ DOMAIN meant = 1..l
      /\ ReturnValue = v /\ v \in Value /\ IsPointer(v[1]) = IsPointer(Fun(func).type)
      /\ base = End(below) /\ base \in 0..(sp - 1) /\ sp \in 1..Len(stack)
      /\ Sound(program, stack, meant) /\ Activated(program, meant, native)
      /\ ~NativeIn(program, meant[l]) /\ LinkOf(program, ReturnInfo, below)
  BY ReturnIs DEF Return
<1>2. /\ stack' = Written(stack, base, v)
      /\ pointer_flags' = Written(pointer_flags, base, IsPointer(v[1]))
      /\ sp' = base + 1
      /\ func' = Caller(ReturnInfo) /\ pc' = CallerAddress(ReturnInfo) + 1
      /\ base' = CallerBase(ReturnInfo)
      /\ meant' = MeantCaller(1, v)
      /\ CallerAddress(ReturnInfo) # CallFromNative
      /\ UNCHANGED <<program, moved, native, array, elements, outcome>>
  BY <1>1 DEF Return
<1> HIDE DEF v
<1>3. /\ ~NativeIn(program, below) /\ func' = below.function /\ pc' = below.pc
      /\ base' = below.first
  BY <1>1, <1>2 DEF LinkOf
<1>4. base \in 0..(Len(stack) - 1) /\ base + 1 \in 0..Len(stack)
      /\ \A j \in 0..(base + 1 - 1) : j < sp \/ j = base
  <2> DEFINE s == Len(stack)
  <2>1. s \in Nat
    BY TopIs
  <2> HIDE DEF s
  <2>2. base \in 0..(sp - 1) /\ sp \in 1..s /\ s \in Nat
    BY <1>1, <2>1 DEF s
  <2>3. base \in 0..(s - 1) /\ base + 1 \in 0..s /\ \A j \in 0..(base + 1 - 1) : j < sp \/ j = base
    BY ONLY <2>2
  <2> QED BY <2>3 DEF s
<1>5. v \in Slot /\ IsPointer(v[1]) \in BOOLEAN
  BY <1>1, Slots DEF IsPointer
<1>6. Block(stack', pointer_flags', sp')
  <2>1. Block(stack, pointer_flags, sp)
    BY DEF Types
  <2>2. Block(Written(stack, base, v), Written(pointer_flags, base, IsPointer(v[1])), base + 1)
    BY <1>4, <1>5, <2>1, BlockWritten
  <2> QED BY <1>2, <2>2
<1>7. \A j \in 0..(Len(stack) - 1) : At(stack', j) = IF j = base THEN v ELSE At(stack, j)
  <2>1. Writes(stack, stack', base, v)
    BY <1>2, <1>4, <1>5 DEF Writes, Types, Block
  <2> QED BY <2>1, SlotWritten
<1>8. Continues(program, stack, stack', below, v)
  <2>1. Agree(stack, stack', base)
    <3>1. \A j \in 0..(base - 1) : j \in 0..(Len(stack) - 1) /\ j # base
      <4> DEFINE s == Len(stack)
      <4>1. base \in 0..(s - 1)
        BY <1>4
      <4>2. s \in Nat
        BY TopIs
      <4> HIDE DEF s
      <4>3. \A j \in 0..(base - 1) : j \in 0..(s - 1) /\ j # base
        BY ONLY <4>1, <4>2
      <4> QED BY <4>3 DEF s
    <3> QED BY <1>7, <3>1 DEF Agree
  <2>2. At(stack', base) = v
    BY <1>4, <1>7
  <2> QED BY <1>1, <1>3, <2>1, <2>2 DEF Continues
<1>9. 1 \in 1..(l - 1) /\ l \in Nat \ {0}
  <2> HIDE DEF l
  <2> QED BY ONLY <1>1
<1>10. Activated(program, Lower(meant, 1), native)
  <2>1. /\ Len(Lower(meant, 1)) = l - 1 /\ DOMAIN Lower(meant, 1) = 1..(l - 1)
        /\ \A k \in 1..(l - 1) : Lower(meant, 1)[k] = meant[k]
    <3> DEFINE i == 1
    <3>1. i \in 1..(Len(meant) - 1) /\ Sound(program, stack, meant)
      BY <1>1, <1>9
    <3> HIDE DEF i
    <3>2. /\ Len(Lower(meant, i)) = Len(meant) - i /\ DOMAIN Lower(meant, i) = 1..(Len(meant) - i)
          /\ \A k \in 1..(Len(meant) - i) : Lower(meant, i)[k] = meant[k]
      BY ONLY <3>1, FramesPopped
    <3> QED BY <3>2 DEF i
  <2> QED BY <1>1, <2>1, ActivatedPopped
<1>11. Frames'
  <2>1. sp' = End(below) + 1
    BY <1>1, <1>2
  <2>2. Activated(program, Lower(meant, 1), native') /\ program' = program
    BY <1>2, <1>10
  <2> QED BY <1>2, <1>3, <1>8, <1>9, <2>1, <2>2, ReturnsTo
<1>12. moved' \in Nat
  BY <1>2 DEF Types
<1> QED
  BY <1>2, <1>6, <1>11, <1>12, ArraysKept DEF Types


LEMMA NativeBelow ==
    ASSUME Types, Frames, WellTyped, Running, Code.op = "return",
           CallerAddress(ReturnInfo) = CallFromNative
    PROVE  LET l == Len(meant)
               n == Last(native)
               inner  == meant[l - 1]
               caller == meant[l - 2]
           IN  /\ l \in Nat /\ l > 2 /\ ~NativeIn(program, caller)
               /\ Fun(n.function).return_pointer = FALSE
               /\ inner.first = End(caller) /\ inner.first \in 0..(base - 1)
               /\ base - CallInfoSize - WithThis(n.function) = End(caller)
               /\ n.func = caller.function /\ n.pc + 1 = caller.pc /\ n.base = caller.first
               /\ Activated(program, Lower(meant, 2), Front(native))
<1> DEFINE l == Len(meant)
           n == Last(native)
           inner == meant[l - 1]
           caller == meant[l - 2]
           m == Lower(meant, 1)
           t == Lower(meant, 2)
<1>1. /\ l \in Nat /\ l > 1 /\ DOMAIN meant = 1..l /\ base = End(inner)
      /\ Sound(program, stack, meant) /\ Activated(program, meant, native)
      /\ ~NativeIn(program, meant[l]) /\ NativeIn(program, inner)
  BY ReturnIs DEF LinkOf
<1>2. Layout(program, meant) /\ program \in Programs
  BY <1>1 DEF Sound
<1>3. l - 1 \in DOMAIN meant
  BY ReturnIs
<1>4. l > 2 /\ l - 2 \in 1..(l - 1) /\ l - 1 \in 1..l /\ l - 2 \in 1..l
      /\ 1 \in 1..(l - 1) /\ 2 \in 1..(l - 1) /\ l - 1 - 1 = l - 2 /\ l - 1 > 1
  <2>1. inner.function # Top
    <3>1. inner.function = Top => ~NativeIn(program, inner)
      BY <1>2, ProgramsAssumption DEF NativeIn, Top
    <3> QED BY <1>1, <3>1
  <2>2. l - 1 # 1
    BY <1>2, <1>3, <2>1 DEF Layout
  <2>3. l \in Nat /\ l > 1 /\ l - 1 # 1
    BY <1>1, <2>2
  <2> HIDE DEF l
  <2> QED BY ONLY <2>3
<1>5. /\ ~NativeIn(program, caller) /\ inner.first = End(caller)
      /\ Shaped(program, inner) /\ Shaped(program, caller)
  <2>1. l - 2 \in DOMAIN meant
    BY <1>1, <1>4
  <2> HIDE DEF l
  <2>2. /\ l - 1 > 1 /\ NativeIn(program, meant[l - 1]) /\ l - 1 - 1 = l - 2
    BY <1>1, <1>4
  <2>3. ~NativeIn(program, meant[l - 1 - 1]) /\ meant[l - 1].first = End(meant[l - 1 - 1])
        /\ Shaped(program, meant[l - 1])
    BY <1>2, <1>3, <2>2 DEF Layout
  <2>4. Shaped(program, meant[l - 2])
    BY <1>2, <2>1 DEF Layout
  <2> QED BY <2>2, <2>3, <2>4
<1>6. /\ m = Lower(meant, 1) /\ Len(m) = l - 1 /\ DOMAIN m = 1..(l - 1)
      /\ \A k \in 1..(l - 1) : m[k] = meant[k]
  <2> DEFINE i == 1
  <2>1. i \in 1..(Len(meant) - 1) /\ Sound(program, stack, meant)
    BY <1>1, <1>4
  <2> HIDE DEF i
  <2>2. /\ Len(Lower(meant, i)) = Len(meant) - i /\ DOMAIN Lower(meant, i) = 1..(Len(meant) - i)
        /\ \A k \in 1..(Len(meant) - i) : Lower(meant, i)[k] = meant[k]
    BY ONLY <2>1, FramesPopped
  <2> QED BY <2>2 DEF i
<1>7. /\ t = Lower(meant, 2) /\ Len(t) = l - 2 /\ DOMAIN t = 1..(l - 2)
      /\ \A k \in 1..(l - 2) : t[k] = meant[k]
  <2> DEFINE i == 2
  <2>1. i \in 1..(Len(meant) - 1) /\ Sound(program, stack, meant)
    BY <1>1, <1>4
  <2> HIDE DEF i
  <2>2. /\ Len(Lower(meant, i)) = Len(meant) - i /\ DOMAIN Lower(meant, i) = 1..(Len(meant) - i)
        /\ \A k \in 1..(Len(meant) - i) : Lower(meant, i)[k] = meant[k]
    BY ONLY <2>1, FramesPopped
  <2> QED BY <2>2 DEF i
<1> HIDE DEF l, m, t
<1>8. Activated(program, m, native)
  <2>1. Len(meant) \in Nat /\ Len(meant) > 1 /\ DOMAIN meant = 1..Len(meant)
    BY <1>1 DEF l
  <2>2. /\ Len(m) = Len(meant) - 1 /\ DOMAIN m = 1..(Len(meant) - 1)
        /\ \A k \in 1..(Len(meant) - 1) : m[k] = meant[k]
    BY <1>6 DEF l
  <2>3. ~NativeIn(program, meant[Len(meant)]) /\ Activated(program, meant, native)
    BY <1>1 DEF l
  <2> QED BY <2>1, <2>2, <2>3, ActivatedPopped
<1>9. /\ Len(m) \in Nat /\ Len(m) > 1 /\ DOMAIN m = 1..Len(m) /\ NativeIn(program, m[Len(m)])
      /\ m[Len(m)] = inner /\ m[Len(m) - 1] = caller
      /\ Len(t) = Len(m) - 1 /\ DOMAIN t = 1..(Len(m) - 1)
      /\ \A k \in 1..(Len(m) - 1) : t[k] = m[k]
  <2>1. l - 1 \in Nat /\ l - 1 \in 1..(l - 1)
    BY <1>1, <1>4
  <2>2. m[l - 1] = inner /\ m[l - 2] = caller
    BY <1>4, <1>6, <2>1
  <2>3. \A k \in 1..(l - 2) : t[k] = m[k]
    <3>1. \A k \in 1..(l - 2) : k \in 1..(l - 1)
      BY <1>1
    <3> QED BY <1>6, <1>7, <3>1
  <2> QED BY <1>1, <1>4, <1>6, <1>7, <2>1, <2>2, <2>3
<1>10. /\ Last(native) = native[Natives(program, m, Len(m))]
       /\ Activated(program, t, Front(native))
  BY <1>8, <1>9, ActivatedReturns
<1>11. /\ n.function = inner.function /\ n.func = caller.function
       /\ n.pc + 1 = caller.pc /\ n.base = caller.first
  <2>1. Len(m) \in DOMAIN m
    BY <1>9
  <2> HIDE DEF inner, caller
  <2> QED BY <1>8, <1>9, <1>10, <2>1 DEF Activated
<1>12. Fun(n.function).return_pointer = FALSE /\ inner.operands = << >>
  <2>1. ~Fun(n.function).return_pointer /\ inner.operands = << >>
    BY <1>1, <1>5, <1>11 DEF Shaped, Fun
  <2>2. Fun(n.function) = program[inner.function] /\ inner.function \in DOMAIN program
    BY <1>5, <1>11 DEF Shaped, Fun
  <2>3. Fun(n.function).return_pointer \in BOOLEAN
    <3> HIDE DEF inner, n
    <3> QED BY <1>2, <2>2, RegisteredIs
  <2> QED BY <2>1, <2>3
<1>13. /\ base - CallInfoSize - WithThis(n.function) = End(caller)
       /\ inner.first \in 0..(base - 1)
  <2> DEFINE f == inner.function
             a == Arity(program, f)
             x == Len(inner.variables)
             z == CallInfoSize
             b == inner.first
  <2>1. /\ b \in Nat /\ f \in DOMAIN program /\ InfoSize(inner) \in Nat
        /\ End(inner) = b + InfoSize(inner) + x + Len(inner.operands)
        /\ x = a + Len(program[f].locals) /\ (f # Top => InfoSize(inner) = z)
    <3> HIDE DEF inner
    <3> QED BY <1>2, <1>5, FrameIs
  <2>2. f # Top /\ Len(program[f].locals) = 0 /\ a \in Nat
    <3>1. program[f].kind = "native"
      BY <1>1 DEF NativeIn
    <3> HIDE DEF f
    <3> QED BY <1>2, <2>1, <3>1, ProgramIs
  <2>3. WithThis(n.function) = a
    BY <1>11 DEF WithThis, Fun, Arity
  <2>4. Len(inner.operands) = 0
    BY <1>12
  <2> HIDE DEF a, x, z, b, f, inner, n
  <2>5. z \in Nat \ {0}
    BY StackAllocSizeAssumption DEF z
  <2>6. base = b + z + a
    BY <1>1, <2>1, <2>2, <2>4
  <2>7. base - z - a = b /\ b \in 0..(base - 1)
    BY <2>1, <2>2, <2>5, <2>6
  <2> QED BY <1>5, <2>3, <2>7 DEF z, b
<1> QED
  BY <1>1, <1>4, <1>5, <1>10, <1>11, <1>12, <1>13 DEF l, t


LEMMA ReturnToNativeKeeps ==
    ASSUME IInv, WellTyped, ReturnToNative
    PROVE  IInv'
<1> USE DEF IInv
<1> DEFINE v == Last(TopFrame.operands)
           l == Len(meant)
           n == Last(native)
           inner == meant[l - 1]
           caller == meant[l - 2]
           slot == base - CallInfoSize - WithThis(n.function)
           u == Uninitialised
           s == Len(stack)
           stack1 == Written(stack, base, v)
           flags1 == Written(pointer_flags, base, IsPointer(v[1]))
<1>1. CASE Stops("moved")
  BY <1>1, StopsKeeps
<1>2. ASSUME stack' = Written(Written(stack, base, ReturnValue), slot, Uninitialised),
             pointer_flags' = Written(Written(pointer_flags, base, IsPointer(Fun(func).type)),
                                      slot, Fun(n.function).return_pointer),
             sp' = slot + 1, func' = n.func, pc' = n.pc + 1, base' = n.base,
             native' = Front(native), meant' = MeantCaller(2, Uninitialised),
             UNCHANGED <<program, moved, array, elements, outcome>>
      PROVE  IInv'
  <2>1. /\ l \in Nat /\ l > 1 /\ ReturnValue = v /\ v \in Value
        /\ IsPointer(v[1]) = IsPointer(Fun(func).type)
        /\ base \in 0..(sp - 1) /\ sp \in 1..Len(stack)
    BY ReturnIs DEF ReturnToNative
  <2>2. /\ l > 2 /\ ~NativeIn(program, caller)
        /\ Fun(n.function).return_pointer = FALSE
        /\ inner.first = End(caller) /\ inner.first \in 0..(base - 1)
        /\ slot = End(caller)
        /\ n.func = caller.function /\ n.pc + 1 = caller.pc /\ n.base = caller.first
        /\ Activated(program, Lower(meant, 2), Front(native))
    BY NativeBelow DEF ReturnToNative
  <2>3. slot \in 0..(base - 1) /\ s \in Nat
    BY <2>2, TopIs
  <2>4. /\ base \in 0..(s - 1) /\ slot \in 0..(s - 1) /\ slot + 1 \in 0..s /\ sp \in 0..s
        /\ \A j \in 0..(sp - 1) : j < sp \/ j = base
        /\ \A j \in 0..(slot + 1 - 1) : j < sp \/ j = slot
        /\ \A j \in 0..(slot - 1) : j \in 0..(s - 1) /\ j # base /\ j # slot
    <3>1. /\ slot \in 0..(base - 1) /\ s \in Nat /\ base \in 0..(sp - 1) /\ sp \in 1..s
      BY <2>1, <2>3
    <3> HIDE DEF slot, s
    <3> QED BY ONLY <3>1
  <2>5. v \in Slot /\ IsPointer(v[1]) \in BOOLEAN /\ u \in Slot /\ u \in Value
        /\ IsPointer(u[1]) = FALSE /\ IsPointer(u[1]) \in BOOLEAN
    BY <2>1, Slots DEF IsPointer
  <2>6. /\ stack' = Written(stack1, slot, u) /\ pointer_flags' = Written(flags1, slot, IsPointer(u[1]))
    <3>1. Fun(n.function).return_pointer = IsPointer(u[1])
      BY <2>2, <2>5
    <3> HIDE DEF slot, u, n
    <3> QED BY <1>2, <2>1, <3>1 DEF u
  <2> HIDE DEF v, u, slot
  <2>7. Block(stack1, flags1, sp)
    <3>1. Block(stack, pointer_flags, sp)
      BY DEF Types
    <3> QED BY <2>4, <2>5, <3>1, BlockWritten
  <2>8. /\ stack1 \in Seq(Slot) /\ Len(stack1) = s
        /\ \A j \in 0..(s - 1) : At(stack1, j) = IF j = base THEN v ELSE At(stack, j)
    <3>1. Writes(stack, stack1, base, v)
      BY <2>4, <2>5 DEF Writes, Types, Block
    <3> QED BY <3>1, SlotWritten
  <2> HIDE DEF stack1, flags1
  <2>9. Block(stack', pointer_flags', sp')
    <3> DEFINE k == slot + 1
               b == IsPointer(u[1])
    <3>1. /\ slot \in 0..(Len(stack1) - 1) /\ k \in 0..Len(stack1)
          /\ \A j \in 0..(k - 1) : j < sp \/ j = slot
          /\ u \in Slot /\ b \in BOOLEAN /\ b = IsPointer(u[1])
      BY <2>4, <2>5, <2>8
    <3> HIDE DEF k, b
    <3>2. Block(Written(stack1, slot, u), Written(flags1, slot, b), k)
      BY ONLY <2>7, <3>1, BlockWritten
    <3> QED BY <1>2, <2>6, <3>2 DEF k, b
  <2>10. \A j \in 0..(s - 1) : At(stack', j) = IF j = slot THEN u ELSE At(stack1, j)
    <3>1. Writes(stack1, stack', slot, u)
      BY <2>4, <2>5, <2>6, <2>8 DEF Writes
    <3> QED BY <2>8, <3>1, SlotWritten
  <2>11. Continues(program, stack, stack', caller, u)
    <3>1. Agree(stack, stack', slot)
      <4> HIDE DEF s
      <4> QED BY <2>4, <2>8, <2>10 DEF Agree
    <3>2. At(stack', slot) = u
      BY <2>4, <2>10
    <3> QED BY <2>2, <2>5, <3>1, <3>2 DEF Continues
  <2>12. Frames'
    <3> DEFINE i == 2
    <3>1. i \in 1..(Len(meant) - 1)
      <4>1. l \in Nat /\ l > 2
        BY <2>1, <2>2
      <4> HIDE DEF l
      <4>2. i \in 1..(l - 1)
        BY ONLY <4>1
      <4> QED BY <4>2 DEF l
    <3>2. /\ program' = program /\ Continues(program, stack, stack', meant[Len(meant) - i], u)
          /\ Activated(program, Lower(meant, i), native') /\ meant' = MeantCaller(i, u)
          /\ func' = meant[Len(meant) - i].function /\ pc' = meant[Len(meant) - i].pc
          /\ base' = meant[Len(meant) - i].first /\ sp' = End(meant[Len(meant) - i]) + 1
      BY <1>2, <2>2, <2>11 DEF u
    <3>3. Types /\ Frames
      OBVIOUS
    <3> HIDE DEF i
    <3> QED BY ONLY <3>1, <3>2, <3>3, ReturnsTo
  <2>13. moved' \in Nat
    BY <1>2 DEF Types
  <2> QED BY <1>2, <2>9, <2>12, <2>13, ArraysKept DEF Types
<1> QED
  BY <1>1, <1>2 DEF ReturnToNative


-----------------------------------------------------------------------------
(* A native function that calls its delegate back: a frame of its own, and *)
(* that of the function the delegate is of.                                *)
LEMMA NeedIs ==
    ASSUME program \in Programs, NEW f \in DOMAIN program
    PROVE  calc_need_stack_size(f) \in Nat
<1> DEFINE c == Fun(f).code
           n == Len(c)
           pushing == {i \in DOMAIN c : c[i].op \in Pushes}
<1>1. c \in Seq([op : STRING, n : Int])
  BY ProgramIs DEF Fun
<1>2. DOMAIN c = 1..n /\ n \in Nat
  <2> HIDE DEF c
  <2> QED BY <1>1
<1>3. IsFiniteSet(1..n)
  <2> HIDE DEF n
  <2> QED BY <1>2, FS_Interval
<1>4. pushing \subseteq 1..n
  BY <1>2
<1> HIDE DEF pushing, n
<1>5. IsFiniteSet(pushing)
  BY <1>3, <1>4, FS_Subset
<1>6. Cardinality(pushing) \in Nat
  BY <1>5, FS_CardinalityType
<1> QED
  BY <1>6 DEF calc_need_stack_size, pushing

LEMMA CalledBackIs ==
    ASSUME IInv, WellTyped, Invoking, Fun(Called).kind = "native", ~Fun(Called).method
    PROVE  LET d == MeantArguments[1]
               g == Callee(d)
           IN  /\ MeantArity = 1 /\ Argument(1) = d /\ d \in Value
               /\ g \in DOMAIN program \ {Top} /\ program[g].kind = "diksam"
               /\ This(d) \in Seq(Value) /\ Len(This(d)) \in Nat
               /\ Arity(program, g) = 1 + Len(This(d))
               /\ \A i \in 1..Len(This(d)) : IsPointer(This(d)[i][1])
               /\ Arity(program, Called) = 1 /\ ~program[Called].return_pointer
<1> USE DEF IInv
<1> DEFINE o == TopFrame.operands
           d == MeantArguments[1]
           g == Callee(d)
           r == Front(o)
<1>1. /\ o # << >> /\ Called = MeantCallee /\ MeantCallee \in DOMAIN program \ {Top}
      /\ CallTyped(Last(o), Front(o)) /\ program \in Programs
      /\ MeantArity = Len(program[MeantCallee].parameters)
      /\ MeantArity \in 0..(Len(o) - 1)
      /\ MeantCallee = Callee(Last(o))
  BY CallIs DEF Types, MeantCallee
<1>2. /\ MeantArity = 1 /\ r[Len(r)][1] = "delegate" /\ r[Len(r)][2] \in DOMAIN Delegates
      /\ Callee(r[Len(r)]) \in DOMAIN program \ {Top} /\ Fun(Callee(r[Len(r)])).kind = "diksam"
      /\ Len(Fun(Callee(r[Len(r)])).parameters) = 1
      /\ Fun(Callee(r[Len(r)])).method <=> OfMethod(r[Len(r)])
      /\ ~Fun(MeantCallee).return_pointer
  BY <1>1 DEF CallTyped, Fun
<1>3. /\ Len(r) = Len(o) - 1 /\ Len(o) \in Nat /\ \A i \in 1..(Len(o) - 1) : r[i] = o[i]
      /\ sp - 1 \in Floor(TopFrame)..(Len(stack) - 1)
  BY <1>1, LastIs
<1>4. d = o[Len(o) - 1] /\ d \in Value /\ Len(o) - 1 \in 1..Len(o)
  <2>1. /\ MeantArguments \in Seq(Value) /\ Len(MeantArguments) = 1
        /\ MeantArguments[1] = o[Len(o) - 1 - 1 + 1]
    BY <1>2, ArgumentsAre
  <2> DEFINE x == Len(o)
  <2>2. x \in Nat /\ 1 \in 0..(x - 1)
    BY <1>1, <1>2, <1>3
  <2> HIDE DEF x
  <2>3. x - 1 - 1 + 1 = x - 1 /\ x - 1 \in 1..x
    BY ONLY <2>2
  <2>4. MeantArguments[1] \in Value
    <3> DEFINE a == MeantArguments
    <3>1. a \in Seq(Value) /\ 1 \in 1..Len(a)
      BY <2>1
    <3> HIDE DEF a
    <3>2. a[1] \in Value
      BY ONLY <3>1
    <3> QED BY <3>2 DEF a
  <2> QED BY <2>1, <2>3, <2>4 DEF x
<1>5. d = r[Len(r)]
  <2> DEFINE x == Len(o)
  <2>1. x - 1 \in 1..(x - 1)
    <3>1. x \in Nat /\ x - 1 \in 1..x
      BY <1>3, <1>4
    <3> HIDE DEF x
    <3> QED BY ONLY <3>1
  <2>2. r[x - 1] = o[x - 1]
    BY <1>3, <2>1
  <2> QED BY <1>3, <1>4, <2>2
<1>6. Arity(program, Called) = 1
  BY <1>1, <1>2 DEF Arity, Fun
<1>7. Argument(1) = d
  <2> DEFINE x == Len(o)
             e == Floor(TopFrame)
  <2>1. At(stack, e + (x - 1) - 1) = o[x - 1]
    <3>1. x - 1 \in 1..x /\ \A i \in 1..x : At(stack, e + i - 1) = o[i]
      BY <1>4, TopSlots
    <3> DEFINE i == x - 1
    <3>2. i \in 1..x
      BY <3>1
    <3> HIDE DEF i
    <3>3. At(stack, e + i - 1) = o[i]
      BY <3>1, <3>2
    <3> QED BY <3>3 DEF i
  <2>2. sp = e + x /\ e \in Nat /\ x \in Nat
    BY TopTypes, TopIs
  <2>3. WithThis(Called) = 1
    BY <1>6 DEF WithThis, Arity, Fun
  <2>4. Argument(1) = At(stack, sp - 1 - 1 + 1 - 1)
    BY <2>3 DEF Argument
  <2> HIDE DEF x, e
  <2>5. sp - 1 - 1 + 1 - 1 = e + (x - 1) - 1
    BY ONLY <2>2
  <2> QED BY <1>4, <2>1, <2>4, <2>5 DEF x
<1>8. /\ This(d) \in Seq(Value) /\ Len(This(d)) = (IF OfMethod(d) THEN 1 ELSE 0)
      /\ \A i \in 1..Len(This(d)) : IsPointer(This(d)[i][1])
  BY <1>2, <1>4, <1>5, ThisIs
<1>9. Arity(program, g) = 1 + Len(This(d))
  BY <1>2, <1>5, <1>8 DEF Arity, Fun
<1> QED
  BY <1>1, <1>2, <1>4, <1>5, <1>6, <1>7, <1>8, <1>9 DEF Fun


(* The flags of the values that are pushed.                                *)
LEMMA PushedFlags ==
    ASSUME NEW v \in Seq(Value)
    PROVE  /\ [i \in DOMAIN v |-> IsPointer(v[i][1])] \in Seq(BOOLEAN)
           /\ Len([i \in DOMAIN v |-> IsPointer(v[i][1])]) = Len(v)
           /\ \A j \in 1..Len(v) : [i \in DOMAIN v |-> IsPointer(v[i][1])][j] = IsPointer(v[j][1])
<1> DEFINE n == Len(v)
           b == [i \in 1..n |-> IsPointer(v[i][1])]
<1>1. DOMAIN v = 1..n /\ n \in Nat
  OBVIOUS
<1>2. \A i \in 1..n : IsPointer(v[i][1]) \in BOOLEAN
  BY DEF IsPointer
<1>3. b \in Seq(BOOLEAN) /\ Len(b) = n
  <2> HIDE DEF n
  <2> QED BY <1>1, <1>2
<1>4. \A j \in 1..n : b[j] = IsPointer(v[j][1])
  OBVIOUS
<1>5. [i \in DOMAIN v |-> IsPointer(v[i][1])] = b
  BY <1>1
<1> HIDE DEF b
<1> QED
  BY <1>3, <1>4, <1>5

LEMMA CallBackKeeps ==
    ASSUME IInv, WellTyped, CallBack
    PROVE  IInv'
<1> USE DEF IInv
<1> DEFINE d == Argument(1)
           f == Callee(d)
           pushed == <<IntValue(13)>> \o This(d)
           first == NativeSp + Len(pushed) + CallInfoSize
           locals == Len(Fun(f).locals)
           args == WriteAll(NativeStack, NativeSp, pushed)
           pushedFlags == [i \in DOMAIN pushed |-> IsPointer(pushed[i][1])]
           argFlags == WriteAll(NativeFlags, NativeSp, pushedFlags)
           old == SubSeq(pointer_flags, first + 1, first + locals)
           entry == [function |-> Called, func |-> func, pc |-> pc, base |-> base, moved |-> moved]
           z == CallInfoSize
           k == Len(pushed)
           q == first - CallInfoSize
           x == Len(Initial(f))
           s == Len(stack)
           b == sp - 1 - 1
<1>1. CASE Stops("no room")
  BY <1>1, StopsKeeps
<1>2. ASSUME ~(first + locals + calc_need_stack_size(f) > Alloc),
             stack' = WriteAll(WriteAll(args, first - CallInfoSize,
                                        CallInfo(Called, CallFromNative, 0)),
                               first, Initial(f)),
             pointer_flags' =
                 WriteAll(WriteAll(argFlags, first - CallInfoSize, NoPointers(CallInfoSize)),
                          first, LocalFlags(f, old)),
             sp' = first + locals, func' = f, pc' = 1, base' = NativeSp,
             native' = Append(native, entry),
             LET its    == Callee(MeantArguments[1])
                 caller == Began(MeantCallee, End(Last(Below)), MeantArguments)
             IN  meant' = Below \o <<caller, Began(its, End(caller),
                              <<IntValue(13)>> \o This(MeantArguments[1]) \o Initial(its))>>,
             UNCHANGED <<program, moved, array, elements, outcome>>
      PROVE  IInv'
  <2>1. /\ Invoking /\ Called = MeantCallee /\ Called \in DOMAIN program \ {Top}
        /\ program \in Programs /\ Called \in Nat /\ program[Called].kind = "native"
        /\ Fun(Called).kind = "native" /\ ~Fun(Called).method
        /\ Len(program[Called].locals) = 0
    <3>1. /\ Invoking /\ Called = MeantCallee /\ Called \in DOMAIN program \ {Top}
          /\ program \in Programs /\ Fun(Called).kind = "native" /\ ~Fun(Called).method
      BY CallIs DEF CallBack, Types
    <3> QED BY <3>1, ProgramIs DEF Fun
  <2>2. /\ MeantArity = 1 /\ MeantArguments[1] = d
        /\ f \in DOMAIN program \ {Top} /\ program[f].kind = "diksam"
        /\ This(d) \in Seq(Value) /\ Len(This(d)) \in Nat
        /\ Arity(program, f) = 1 + Len(This(d))
        /\ \A i \in 1..Len(This(d)) : IsPointer(This(d)[i][1])
        /\ Arity(program, Called) = 1 /\ ~program[Called].return_pointer
    BY <2>1, CalledBackIs
  <2>3. pushed \in Seq(Value) /\ k = 1 + Len(This(d)) /\ k \in Nat
    <3>1. IntValue(13) \in Value
      BY Values DEF IntValue, Type
    <3>2. <<IntValue(13)>> \in Seq(Value) /\ Len(<<IntValue(13)>>) = 1
      BY <3>1
    <3> HIDE DEF d
    <3> QED BY <2>2, <3>2, ConcatIs
  <2>4. /\ pushedFlags \in Seq(BOOLEAN) /\ Len(pushedFlags) = k
        /\ \A i \in 1..k : pushedFlags[i] = IsPointer(pushed[i][1])
    <3>1. pushed \in Seq(Value)
      BY <2>3
    <3> HIDE DEF pushed
    <3> QED BY <3>1, PushedFlags
  <2> HIDE DEF pushedFlags
  <2>5. /\ Initial(f) \in Seq(Value) /\ x = locals /\ x = Len(program[f].locals) /\ x \in Nat
        /\ LocalFlags(f, old) \in Seq(BOOLEAN) /\ Len(LocalFlags(f, old)) = x
        /\ \A i \in 1..x : LocalFlags(f, old)[i] = IsPointer(Initial(f)[i][1])
    <3> HIDE DEF f
    <3> QED BY <2>1, <2>2, InitialIs DEF Fun
  <2>6. pushed \in Seq(Slot) /\ Initial(f) \in Seq(Slot)
    <3> DEFINE v == Initial(f)
    <3>1. v \in Seq(Value) /\ pushed \in Seq(Value) /\ Value \subseteq Slot
      BY <2>3, <2>5, Slots
    <3> HIDE DEF v, pushed
    <3> QED BY <3>1 DEF v
  <2> HIDE DEF d, f, pushed
  <2>7. func \in Int /\ pc \in Nat /\ base \in Nat /\ func \in Nat
    <3>1. func \in DOMAIN program /\ pc \in Nat \ {0} /\ base \in Nat
      BY TopTypes, TopIs
    <3> QED BY <2>1, <3>1, ProgramIs
  <2>8. /\ sp \in 1..s /\ s \in Nat /\ z \in Nat \ {0} /\ k \in Nat /\ x \in Nat
        /\ NativeSp = sp - 1 + z /\ first = NativeSp + k + z /\ q = sp - 1 + z + k
        /\ first + x <= s /\ b = sp - 1 - 1 /\ b \in Nat
    <3>1. sp - 1 \in Floor(TopFrame)..(s - 1) /\ Floor(TopFrame) \in Nat /\ s \in Nat /\ sp \in Nat
      BY <2>1, CallIs, LastIs, TopIs
    <3>2. calc_need_stack_size(f) \in Nat
      BY <2>1, <2>2, NeedIs
    <3>3. ~(first + x + calc_need_stack_size(f) > s)
      BY <1>2, <2>5 DEF Alloc
    <3>4. NativeSp = sp - 1 + z
      BY DEF NativeSp
    <3>5. Len(TopFrame.operands) \in Nat /\ sp = Floor(TopFrame) + Len(TopFrame.operands)
          /\ 1 \in 0..(Len(TopFrame.operands) - 1)
      BY <2>1, <2>2, CallIs, TopTypes, TopIs
    <3> DEFINE need == calc_need_stack_size(f)
               o == Len(TopFrame.operands)
               e == Floor(TopFrame)
    <3>6. /\ z \in Nat \ {0} /\ k \in Nat /\ x \in Nat /\ need \in Nat /\ s \in Nat /\ sp \in Nat
          /\ sp - 1 \in e..(s - 1) /\ e \in Nat /\ o \in Nat /\ 1 \in 0..(o - 1) /\ sp = e + o
          /\ NativeSp = sp - 1 + z /\ first = NativeSp + k + z /\ ~(first + x + need > s)
          /\ q = first - z /\ b = sp - 1 - 1
      BY <2>3, <2>5, <3>1, <3>2, <3>3, <3>4, <3>5, StackAllocSizeAssumption
    <3> HIDE DEF z, k, x, need, s, first, o, e, b, q
    <3> QED BY ONLY <3>6
  <2>9. /\ Calls(stack, args, sp - 1, func, pc, base, pushed)
        /\ Block(args, argFlags, sp - 1 + z + k)
    <3>1. Block(stack, pointer_flags, sp) /\ stack \in Seq(Slot)
      BY DEF Types, Block
    <3>2. args = WriteAll(WriteAll(stack, sp - 1, CallInfo(func, pc, base)), sp - 1 + z, pushed)
      BY DEF NativeStack, NativeSp
    <3>3. sp - 1 \in Nat /\ sp - 1 + z + k <= s /\ sp - 1 <= sp
      <4> HIDE DEF s, z, k, x, first, b, q
      <4> QED BY ONLY <2>8
    <3> HIDE DEF args
    <3>4. Calls(stack, args, sp - 1, func, pc, base, pushed)
      BY <2>6, <2>7, <3>1, <3>2, <3>3 DEF Calls
    <3>5. argFlags = WriteAll(WriteAll(pointer_flags, sp - 1, NoPointers(z)), sp - 1 + z, pushedFlags)
      BY DEF NativeFlags, NativeSp
    <3> HIDE DEF argFlags
    <3> DEFINE q1 == sp - 1
    <3>6. /\ Calls(stack, args, q1, func, pc, base, pushed) /\ Block(stack, pointer_flags, sp) /\ q1 <= sp
          /\ pushedFlags \in Seq(BOOLEAN) /\ Len(pushedFlags) = Len(pushed)
          /\ \A i \in 1..Len(pushed) : pushedFlags[i] = IsPointer(pushed[i][1])
      BY <2>4, <3>1, <3>3, <3>4
    <3> HIDE DEF q1
    <3>7. Block(args, WriteAll(WriteAll(pointer_flags, q1, NoPointers(CallInfoSize)),
                               q1 + CallInfoSize, pushedFlags),
                q1 + CallInfoSize + Len(pushed))
      BY ONLY <3>6, CallFlagged
    <3> QED BY <3>4, <3>5, <3>7 DEF q1
  <2>10. /\ args \in Seq(Slot) /\ Len(args) = s
         /\ \A j \in 0..(sp - 1 - 1) : At(args, j) = At(stack, j)
         /\ At(args, sp - 1) = <<"call", func, pc, base>>
         /\ \A i \in 1..k : At(args, NativeSp + i - 1) = pushed[i]
    <3> DEFINE q1 == sp - 1
    <3>1. Calls(stack, args, q1, func, pc, base, pushed)
      BY <2>9
    <3> HIDE DEF q1, args
    <3>2. /\ args \in Seq(Slot) /\ Len(args) = Len(stack)
          /\ \A j \in 0..(q1 - 1) : At(args, j) = At(stack, j)
          /\ At(args, q1) = <<"call", func, pc, base>>
          /\ \A i \in 1..Len(pushed) : At(args, q1 + CallInfoSize + i - 1) = pushed[i]
      BY ONLY <3>1, CallWritten
    <3> QED BY <2>8, <3>2 DEF q1
  <2> HIDE DEF args, argFlags
  <2>11. /\ Calls(args, stack', q, Called, CallFromNative, 0, Initial(f))
         /\ q + z = first /\ q + z + x = sp' /\ q = NativeSp + k
    <3>1. /\ q \in Nat /\ q + z = first /\ q + z + x <= s /\ q + z + x = first + x
          /\ q = NativeSp + k /\ NativeSp \in Nat
      <4> HIDE DEF s, z, k, x, first, b, q
      <4> QED BY ONLY <2>8
    <3>2. stack' = WriteAll(WriteAll(args, q, CallInfo(Called, CallFromNative, 0)), q + z, Initial(f))
      BY <1>2, <3>1
    <3> HIDE DEF q, first
    <3>3. Called \in Int /\ CallFromNative \in Int /\ 0 \in Int
      BY <2>1 DEF CallFromNative
    <3>4. Calls(args, stack', q, Called, CallFromNative, 0, Initial(f))
      BY <2>6, <2>10, <3>1, <3>2, <3>3 DEF Calls
    <3> QED BY <1>2, <2>5, <3>1, <3>4
  <2>12. Block(stack', pointer_flags', sp')
    <3> DEFINE n == sp - 1 + z + k
               g == LocalFlags(f, old)
    <3>1. q = n /\ q <= n /\ n \in Nat
      <4> HIDE DEF s, z, k, x, first, b, q
      <4> QED BY ONLY <2>8
    <3>2. pointer_flags' = WriteAll(WriteAll(argFlags, q, NoPointers(z)), q + z, g)
      BY <1>2, <2>11
    <3> HIDE DEF q, first, n, g
    <3>3. /\ Calls(args, stack', q, Called, CallFromNative, 0, Initial(f)) /\ Block(args, argFlags, n)
          /\ q <= n /\ g \in Seq(BOOLEAN) /\ Len(g) = Len(Initial(f))
          /\ \A i \in 1..Len(Initial(f)) : g[i] = IsPointer(Initial(f)[i][1])
      BY <2>5, <2>9, <2>11, <3>1 DEF n, g
    <3>4. Block(stack', WriteAll(WriteAll(argFlags, q, NoPointers(CallInfoSize)), q + CallInfoSize, g),
                q + CallInfoSize + Len(Initial(f)))
      BY ONLY <3>3, CallFlagged
    <3> QED BY <2>11, <3>2, <3>4
  <2>13. /\ \A j \in 0..(q - 1) : At(stack', j) = At(args, j)
         /\ At(stack', q) = <<"call", Called, CallFromNative, 0>>
         /\ \A i \in 1..x : At(stack', q + z + i - 1) = Initial(f)[i]
    <3> HIDE DEF q
    <3> QED BY <2>11, CallWritten
  <2>14. /\ Agree(stack, stack', sp - 1)
         /\ At(stack', sp - 1) = <<"call", func, pc, base>>
         /\ \A i \in 1..k : At(stack', NativeSp + i - 1) = pushed[i]
    <3>1. /\ \A j \in 0..(sp - 1 - 1) : j \in 0..(q - 1)
          /\ sp - 1 \in 0..(q - 1)
          /\ \A i \in 1..k : NativeSp + i - 1 \in 0..(q - 1)
      <4> HIDE DEF s, z, k, x, first, b, q
      <4> QED BY ONLY <2>8
    <3> HIDE DEF q
    <3>2. Agree(stack, stack', sp - 1)
      BY <2>10, <2>13, <3>1 DEF Agree
    <3> QED BY <2>10, <2>13, <3>1, <3>2
  <2>15. /\ Sound(program, stack', Below) /\ Activated(program, Below, native)
         /\ Len(Below) \in Nat \ {0} /\ DOMAIN Below = 1..Len(Below)
         /\ Last(Below) = Below[Len(Below)] /\ ~NativeIn(program, Below[Len(Below)])
         /\ Below[Len(Below)].function = func /\ Below[Len(Below)].first = base
         /\ Below[Len(Below)].pc = pc + 1
         /\ End(Below[Len(Below)]) = b
         /\ At(stack', b) = MeantArguments[1]
    <3>1. /\ Sound(program, stack', Below) /\ Activated(program, Below, native)
          /\ Len(Below) \in Nat \ {0} /\ DOMAIN Below = 1..Len(Below)
          /\ Last(Below) = Below[Len(Below)] /\ ~NativeIn(program, Below[Len(Below)])
          /\ Below[Len(Below)].function = func /\ Below[Len(Below)].first = base
          /\ Below[Len(Below)].pc = pc + 1
          /\ End(Below[Len(Below)]) = sp - 1 - MeantArity
          /\ \A i \in 1..MeantArity : At(stack', sp - 1 - MeantArity + i - 1) = MeantArguments[i]
      BY <2>1, <2>14, BelowIs
    <3>2. At(stack', sp - 1 - 1 + 1 - 1) = MeantArguments[1] /\ sp - 1 - 1 + 1 - 1 = b
      BY <2>2, <2>8, <3>1
    <3> QED BY <2>2, <3>1, <3>2
  <2>16. MeantArguments \in Seq(Value) /\ Len(MeantArguments) = 1
    BY <2>1, <2>2, ArgumentsAre
  <2> DEFINE none == << >>
             frame1 == Began(Called, b, MeantArguments \o none)
             m1 == Append(Below, frame1)
  <2>17. none \in Seq(Value) /\ Len(none) = 0 /\ MeantArguments \o none = MeantArguments
    <3> DEFINE a == MeantArguments
    <3>1. a \in Seq(Value)
      BY <2>16
    <3> HIDE DEF a
    <3>2. a \o << >> = a
      BY ONLY <3>1
    <3> QED BY <3>2 DEF a
  <2> HIDE DEF none, b
  <2>18. Enters(program, stack', Called, b, MeantArguments, none)
    <3>1. \A i \in 1..Len(MeantArguments) : At(stack', b + i - 1) = MeantArguments[i]
      <4>1. \A i \in 1..Len(MeantArguments) : i = 1 /\ b + i - 1 = b
        BY <2>8, <2>16
      <4> QED BY <2>15, <4>1
    <3>2. \A i \in 1..Len(none) :
             At(stack', b + Len(MeantArguments) + CallInfoSize + i - 1) = none[i]
      BY <2>17
    <3> QED BY <2>1, <2>2, <2>8, <2>16, <2>17, <3>1, <3>2 DEF Enters
  <2>19. Begins(program, stack', Below, Called, b, MeantArguments, none)
    <3> DEFINE info == At(stack', b + Len(MeantArguments))
    <3>1. info = <<"call", func, pc, base>>
      <4>1. b + Len(MeantArguments) = sp - 1
        BY <2>8, <2>16
      <4> QED BY <2>14, <4>1
    <3>2. CallerAddress(info) = pc /\ Caller(info) = func /\ CallerBase(info) = base
      BY <3>1 DEF CallerAddress, Caller, CallerBase
    <3>3. LinkOf(program, info, Below[Len(Below)])
      <4> HIDE DEF info
      <4>1. CallerAddress(info) # CallFromNative
        BY <2>7, <3>2 DEF CallFromNative
      <4> QED BY <2>15, <3>2, <4>1 DEF LinkOf
    <3> QED BY <2>15, <2>18, <3>3 DEF Begins
  <2>20. /\ Topped(program, stack', Below, frame1, m1)
         /\ frame1.function = Called /\ frame1.first = b /\ frame1.pc = 1
         /\ End(frame1) = NativeSp
    <3>1. /\ Topped(program, stack', Below, frame1, m1)
          /\ frame1.function = Called /\ frame1.first = b /\ frame1.pc = 1
          /\ End(frame1) = b + Len(MeantArguments) + CallInfoSize + Len(none)
      BY <2>19, FrameBegun
    <3>2. b + 1 + z + 0 = NativeSp
      <4> HIDE DEF s, z, k, x, first, q
      <4> QED BY ONLY <2>8
    <3> QED BY <2>16, <2>17, <3>1, <3>2
  <2>21. frame1 = Began(MeantCallee, End(Last(Below)), MeantArguments)
    BY <2>1, <2>15, <2>17
  <2> HIDE DEF frame1
  <2>22. /\ Sound(program, stack', m1) /\ Len(m1) = Len(Below) + 1 /\ DOMAIN m1 = 1..(Len(Below) + 1)
         /\ m1[Len(Below) + 1] = frame1 /\ \A j \in 1..Len(Below) : m1[j] = Below[j]
    BY <2>20 DEF Topped
  <2> HIDE DEF m1
  <2>23. NativeIn(program, frame1)
    BY <2>1, <2>20 DEF NativeIn
  <2>24. Activated(program, m1, Append(native, entry))
    <3>1. entry \in Activation
      <4>1. moved \in Nat
        BY DEF Types
      <4> QED BY <2>1, <2>7, <4>1 DEF Activation
    <3>2. /\ entry.function = Called /\ entry.func = func /\ entry.pc + 1 = pc + 1
          /\ entry.base = base
      OBVIOUS
    <3> HIDE DEF entry
    <3> QED BY <2>15, <2>20, <2>22, <2>23, <3>1, <3>2, ActivatedCalls
  <2> DEFINE frame2 == Began(f, NativeSp, pushed \o Initial(f))
             m2 == Append(m1, frame2)
  <2>25. Enters(program, stack', f, NativeSp, pushed, Initial(f))
    <3>1. \A i \in 1..x : At(stack', NativeSp + k + z + i - 1) = Initial(f)[i]
      BY <2>11, <2>13
    <3>2. program[f].kind # "native" /\ k = Arity(program, f)
      BY <2>2, <2>3
    <3>3. NativeSp \in Nat
      <4> HIDE DEF s, z, k, x, first, q
      <4> QED BY ONLY <2>8
    <3> QED BY <2>1, <2>2, <2>3, <2>5, <2>14, <3>1, <3>2, <3>3 DEF Enters
  <2>26. Begins(program, stack', m1, f, NativeSp, pushed, Initial(f))
    <3> DEFINE info == At(stack', NativeSp + Len(pushed))
    <3>1. info = <<"call", Called, CallFromNative, 0>>
      BY <2>11, <2>13
    <3>2. CallerAddress(info) = CallFromNative
      BY <3>1 DEF CallerAddress
    <3>3. m1[Len(m1)] = frame1
      BY <2>22
    <3>4. LinkOf(program, info, m1[Len(m1)])
      <4> HIDE DEF info
      <4> QED BY <2>23, <3>2, <3>3 DEF LinkOf
    <3>5. program[f].kind # "native" /\ NativeSp = End(m1[Len(m1)])
      BY <2>2, <2>20, <3>3
    <3> QED BY <2>22, <2>25, <3>4, <3>5 DEF Begins
  <2>27. /\ Topped(program, stack', m1, frame2, m2)
         /\ frame2.function = f /\ frame2.first = NativeSp /\ frame2.pc = 1
         /\ End(frame2) = NativeSp + k + z + x
    BY <2>26, FrameBegun
  <2>28. frame2 = Began(Callee(MeantArguments[1]), End(frame1),
                        <<IntValue(13)>> \o This(MeantArguments[1]) \o Initial(Callee(MeantArguments[1])))
    BY <2>2, <2>20 DEF f, pushed
  <2> HIDE DEF frame2
  <2>29. meant' = m2
    <3>1. meant' = Below \o <<frame1, frame2>>
      BY <1>2, <2>21, <2>28
    <3>2. Below \in Seq(FrameType) /\ frame1 \in FrameType /\ frame2 \in FrameType
      <4>1. Len(m1) \in DOMAIN m1 /\ m1[Len(m1)] = frame1 /\ m1 \in Seq(FrameType)
        BY <2>15, <2>22 DEF Sound, Layout
      <4>2. m2 \in Seq(FrameType) /\ Len(m1) + 1 \in DOMAIN m2 /\ m2[Len(m1) + 1] = frame2
        BY <2>27 DEF Topped, Sound, Layout
      <4>3. Below \in Seq(FrameType)
        BY <2>15 DEF Sound, Layout
      <4>4. frame1 \in FrameType
        <5> HIDE DEF m2
        <5> QED BY <4>1
      <4>5. frame2 \in FrameType
        <5> HIDE DEF m2
        <5> QED BY <4>2
      <4> QED BY <4>3, <4>4, <4>5
    <3>3. Below \o <<frame1, frame2>> = Append(Append(Below, frame1), frame2)
      <4> DEFINE w == Below
                 R == FrameType
      <4>1. w \in Seq(R) /\ frame1 \in R /\ frame2 \in R
        BY <3>2
      <4> HIDE DEF w, R
      <4>2. w \o <<frame1, frame2>> = Append(Append(w, frame1), frame2)
        BY ONLY <4>1
      <4> QED BY <4>2 DEF w
    <3> QED BY <3>1, <3>3 DEF m1
  <2>30. /\ Sound(program, stack', m2) /\ Len(m1) \in Nat \ {0} /\ DOMAIN m1 = 1..Len(m1)
         /\ Len(m2) = Len(m1) + 1 /\ DOMAIN m2 = 1..(Len(m1) + 1)
         /\ m2[Len(m1) + 1] = frame2 /\ \A j \in 1..Len(m1) : m2[j] = m1[j]
    BY <2>27 DEF Topped
  <2> HIDE DEF m2
  <2>31. ~NativeIn(program, frame2)
    BY <2>2, <2>27 DEF NativeIn
  <2>32. Activated(program, m2, Append(native, entry))
    <3> HIDE DEF entry
    <3> QED BY <2>24, <2>30, <2>31, ActivatedPushed
  <2>33. Frames'
    <3>1. m2[Len(m2)] = frame2
      BY <2>30
    <3>2. sp' = End(frame2)
      BY <2>11, <2>27
    <3>3. Framed(program, stack', m2, native', func', pc', base', sp')
      BY <1>2, <2>27, <2>30, <2>31, <2>32, <3>1, <3>2 DEF Framed, Sound
    <3> QED BY <1>2, <2>29, <3>3 DEF Frames
  <2>34. moved' \in Nat
    BY <1>2 DEF Types
  <2> QED BY <1>2, <2>12, <2>33, <2>34, ArraysKept DEF Types
<1> QED
  BY <1>1, <1>2 DEF CallBack


-----------------------------------------------------------------------------
(* The methods of arrays.                                                  *)
MeantArgument(i) == TopFrame.operands[Len(TopFrame.operands) - 2 - MeantArity + i]
MeantNumbers     == [i \in 1..MeantArity |-> MeantArgument(i)[2]]
ArrayMethod      == Invoking /\ Fun(Called).kind = "native" /\ Fun(Called).method

LEMMA NumberIs ==
    ASSUME NEW v \in Value
    PROVE  v[2] \in Int
  BY DEF Value

LEMMA ArgumentsFound ==
    ASSUME Types, Frames, WellTyped, ArrayMethod
    PROVE  /\ Called = MeantCallee /\ Called \in DOMAIN program \ {Top}
           /\ WithThis(Called) = MeantArity + 1 /\ MeantArity \in 0..(Len(TopFrame.operands) - 2)
           /\ Len(TopFrame.operands) \in Nat
           /\ MeantNativeThis[2] \in DOMAIN elements /\ ~Fun(Called).return_pointer
           /\ Argument(WithThis(Called)) = MeantNativeThis
           /\ \A i \in 1..MeantArity : Argument(i) = MeantArgument(i) /\ MeantArgument(i)[2] \in Int
           /\ NativeRest \in Seq(Value) /\ Len(NativeRest) = Len(TopFrame.operands) - 2 - MeantArity
           /\ \A i \in 1..Len(NativeRest) : NativeRest[i] = TopFrame.operands[i]
<1> DEFINE o == TopFrame.operands
           g == Front(o)
           x == Len(o)
           n == MeantArity
           e == Floor(TopFrame)
<1>1. /\ Called = MeantCallee /\ Called \in DOMAIN program \ {Top} /\ o # << >>
      /\ n = Len(program[Called].parameters) /\ n \in 0..(x - 1)
      /\ CallTyped(Last(o), g) /\ program \in Programs
  BY CallIs DEF ArrayMethod, Types
<1>2. /\ o \in Seq(Value) /\ x \in Nat \ {0} /\ Len(g) = x - 1 /\ \A i \in 1..(x - 1) : g[i] = o[i]
  BY <1>1, TopTypes, LastIs
<1>3. /\ Len(g) > n /\ g[Len(g)][2] \in DOMAIN elements /\ ~Fun(Called).return_pointer
  <2> DEFINE f == Callee(Last(o))
  <2>1. f = Called /\ Fun(f).kind = "native" /\ Fun(f).method
    BY <1>1 DEF ArrayMethod, MeantCallee
  <2>2. n = Len(Fun(f).parameters)
    BY <1>1, <2>1 DEF Fun
  <2> HIDE DEF n, g
  <2> QED BY <1>1, <2>1, <2>2 DEF CallTyped
<1>4. WithThis(Called) = n + 1 /\ n \in 0..(x - 2)
  <2>1. WithThis(Called) = Len(program[Called].parameters) + 1
    BY DEF WithThis, Fun, ArrayMethod
  <2> HIDE DEF n, x, g
  <2> QED BY <1>1, <1>2, <1>3, <2>1
<1>5. sp = e + x /\ e \in Nat /\ \A i \in 1..x : At(stack, e + i - 1) = o[i]
  BY TopIs, TopSlots
<1>6. MeantNativeThis = o[x - 1]
  BY DEF MeantNativeThis
<1>7. MeantNativeThis[2] \in DOMAIN elements
  <2>1. x - 1 \in 1..(x - 1)
    <3> HIDE DEF n, x
    <3> QED BY <1>2, <1>4
  <2>2. g[Len(g)] = o[x - 1]
    <3> HIDE DEF x, g
    <3> QED BY <1>2, <2>1
  <2> QED BY <1>3, <1>6, <2>2
<1>8. Argument(WithThis(Called)) = MeantNativeThis
  <2>1. Argument(n + 1) = At(stack, sp - 1 - (n + 1) + (n + 1) - 1)
    BY <1>4 DEF Argument
  <2>2. sp - 1 - (n + 1) + (n + 1) - 1 = e + (x - 1) - 1 /\ x - 1 \in 1..x
    <3> HIDE DEF n, x, e
    <3> QED BY <1>2, <1>4, <1>5
  <2> QED BY <1>4, <1>5, <1>6, <2>1, <2>2
<1>9. ASSUME NEW i \in 1..n
      PROVE  Argument(i) = MeantArgument(i) /\ MeantArgument(i)[2] \in Int
  <2> DEFINE j == x - 2 - n + i
  <2>1. Argument(i) = At(stack, sp - 1 - (n + 1) + i - 1)
    BY <1>4 DEF Argument
  <2>2. sp - 1 - (n + 1) + i - 1 = e + j - 1 /\ j \in 1..x
    <3> HIDE DEF n, x, e
    <3> QED BY <1>2, <1>4, <1>5
  <2>3. MeantArgument(i) = o[j]
    BY DEF MeantArgument
  <2>4. o[j] \in Value
    <3> HIDE DEF o, j
    <3> QED BY <1>2, <2>2 DEF x
  <2>5. o[j][2] \in Int
    BY <2>4, NumberIs
  <2> HIDE DEF j
  <2>6. Argument(i) = o[j]
    BY <1>5, <2>1, <2>2
  <2> QED BY <2>3, <2>5, <2>6
<1>10. /\ NativeRest \in Seq(Value) /\ Len(NativeRest) = x - 2 - n
       /\ \A i \in 1..Len(NativeRest) : NativeRest[i] = o[i]
  <2> DEFINE k == n + 1 + 1
  <2>1. NativeRest = SubSeq(o, 1, x - k)
    BY <1>1 DEF NativeRest, Taken, ArrayMethod
  <2>2. k \in 0..x /\ x - k = x - 2 - n
    <3> HIDE DEF n, x
    <3> QED BY <1>2, <1>4
  <2> HIDE DEF o, k
  <2>3. /\ SubSeq(o, 1, Len(o) - k) \in Seq(Value) /\ Len(SubSeq(o, 1, Len(o) - k)) = Len(o) - k
        /\ \A i \in 1..(Len(o) - k) : SubSeq(o, 1, Len(o) - k)[i] = o[i]
    BY <1>2, <2>2, LowerIs DEF x
  <2> QED BY <2>1, <2>2, <2>3 DEF x
<1> QED
  BY <1>1, <1>2, <1>3, <1>4, <1>7, <1>8, <1>9, <1>10

(* The arguments suit the method.                                          *)
LEMMA ArgumentsSuit ==
    ASSUME Types, Frames, WellTyped, ArrayMethod
    PROVE  LET proc == Fun(Called).proc
           IN  /\ proc \in {"size", "resize", "insert", "remove", "add"}
               /\ proc = "insert" => MeantArity = 2
               /\ proc \in {"resize", "remove", "add"} => MeantArity = 1
               /\ proc = "resize" => MeantArgument(1)[2] >= 0
<1> DEFINE o == TopFrame.operands
           g == Front(o)
           x == Len(o)
           n == MeantArity
           proc == Fun(Called).proc
           a == SubSeq(g, Len(g) - n, Len(g) - 1)
<1>1. n \in 0..(x - 2) /\ x \in Nat /\ n = Len(Fun(Called).parameters) /\ Called = Callee(Last(o))
  BY ArgumentsFound DEF MeantArity, MeantCallee
<1>2. CallTyped(Last(o), g) /\ o # << >>
  BY CallIs DEF ArrayMethod
<1>3. g \in Seq(Value) /\ Len(g) = x - 1 /\ \A i \in 1..(x - 1) : g[i] = o[i]
  BY <1>2, LastIs
<1>4. Suits(proc, n, a)
  <2> HIDE DEF g
  <2> QED BY <1>1, <1>2 DEF CallTyped, ArrayMethod
<1>5. ASSUME n = 1
      PROVE  a[1] = MeantArgument(1)
  <2>0. x - 2 \in 1..(x - 1) /\ x - 2 - 1 + 1 = x - 2 /\ x - 1 - n = x - 2 /\ x - 1 - 1 = x - 2
    <3>1. x \in Nat /\ n \in 0..(x - 2) /\ n = 1
      BY <1>1, <1>5
    <3> HIDE DEF x, n
    <3> QED BY ONLY <3>1
  <2>1. a = SubSeq(g, x - 2, x - 2) /\ x - 2 \in 1..Len(g)
    <3> HIDE DEF g, x, n
    <3> QED BY <2>0, <1>3
  <2>2. SubSeq(g, x - 2, x - 2)[1] = g[x - 2]
    <3> DEFINE k == x - 2
    <3>1. k \in 1..Len(g)
      BY <2>1
    <3> HIDE DEF k, g, x
    <3>2. SubSeq(g, k, k)[1] = g[k]
      BY <1>3, <3>1
    <3> QED BY <3>2 DEF k
  <2>3. MeantArgument(1) = o[x - 2]
    BY <1>5, <2>0 DEF MeantArgument
  <2> HIDE DEF a, g, x, o
  <2> QED BY <1>3, <2>0, <2>1, <2>2, <2>3
<1> HIDE DEF a, proc, n
<1>6. proc \in {"size", "resize", "insert", "remove", "add"}
  BY <1>4 DEF Suits
<1>7. proc = "insert" => n = 2
  BY <1>4 DEF Suits
<1>8. proc \in {"resize", "remove", "add"} => n = 1
  BY <1>4 DEF Suits
<1>9. proc = "resize" => a[1][2] >= 0
  BY <1>4 DEF Suits
<1> QED
  BY <1>5, <1>6, <1>7, <1>8, <1>9 DEF proc, n


(* A method does what it means, unless it overruns its block.              *)
Means(done, says, proc) ==
    /\ ~done.overrun
    /\ done.raises = says.raises /\ Whole(done.array) /\ Elements(done.array) = says.elements
    /\ says.elements \in Seq(Int)
    /\ Result(proc, done.result) = Result(proc, says.result) /\ Result(proc, says.result) \in Value

ResizesPast(proc, at) == proc = "resize" /\ TooLarge(Allocated(at), MeantArgument(1)[2])

LEMMA RightMeans ==
    ASSUME NEW done, NEW says, NEW proc, Right(done, says), proc # "size" \/ says.result \in Int
    PROVE  Means(done, says, proc)
<1>1. Elements(done.array) \in Seq(Int)
  BY ElementsAre DEF Right, Whole
<1>2. Result(proc, says.result) \in Value
  <2>1. says.result \in Int => IntValue(says.result) \in Value
    BY Values DEF IntValue, Type
  <2> QED BY <2>1, Slots DEF Result
<1> QED
  BY <1>1, <1>2 DEF Right, Means

LEMMA ArrayProcIs ==
    ASSUME Types, Frames, WellTyped, ArrayMethod, NEW at, Whole(at)
    PROVE  LET proc == Fun(Called).proc
               done == ArrayProc(proc, at)
           IN  \/ done.overrun /\ ResizesPast(proc, at)
               \/ Means(done, MeantCall(proc, Elements(at), MeantNumbers), proc)
<1> DEFINE proc == Fun(Called).proc
           done == ArrayProc(proc, at)
           e == Elements(at)
           says == MeantCall(proc, e, MeantNumbers)
           x == MeantArgument(1)[2]
           y == MeantArgument(2)[2]
<1>1. /\ proc \in {"size", "resize", "insert", "remove", "add"}
      /\ proc = "insert" => MeantArity = 2
      /\ proc \in {"resize", "remove", "add"} => MeantArity = 1
      /\ proc = "resize" => x >= 0
  BY ArgumentsSuit
<1>2. \A i \in 1..MeantArity : Argument(i) = MeantArgument(i) /\ MeantArgument(i)[2] \in Int
  BY ArgumentsFound
<1>3. proc # "size" => /\ Argument(1)[2] = x /\ x \in Int /\ MeantNumbers[1] = x
  <2> SUFFICES ASSUME proc # "size" PROVE Argument(1)[2] = x /\ x \in Int /\ MeantNumbers[1] = x
    OBVIOUS
  <2>1. 1 \in 1..MeantArity
    BY <1>1
  <2> QED BY <1>2, <2>1 DEF MeantNumbers
<1>4. proc = "insert" => /\ Argument(2)[2] = y /\ y \in Int /\ MeantNumbers[2] = y
  <2> SUFFICES ASSUME proc = "insert" PROVE Argument(2)[2] = y /\ y \in Int /\ MeantNumbers[2] = y
    OBVIOUS
  <2>1. 2 \in 1..MeantArity
    BY <1>1
  <2> QED BY <1>2, <2>1 DEF MeantNumbers
<1> DEFINE r == MeantNumbers
<1> HIDE DEF proc, x, y, r
<1>5. CASE proc = "size"
  <2>1. done = nv_array_size_proc(at)
    BY <1>5 DEF ArrayProc
  <2>2. Right(nv_array_size_proc(at), MeantCall("size", e, << >>))
    BY ArrayMethods
  <2>3. says = Meant(e, Len(e)) /\ MeantCall("size", e, << >>) = Meant(e, Len(e))
    BY <1>5 DEF MeantCall
  <2>4. says.result \in Int
    <3>1. Len(e) \in Int
      <4>1. e \in Seq(Int)
        BY ElementsAre DEF Whole
      <4> HIDE DEF e
      <4> QED BY <4>1
    <3> QED BY <2>3, <3>1 DEF Meant
  <2>5. Right(done, says)
    BY <2>1, <2>2, <2>3
  <2> HIDE DEF done, says
  <2>6. Means(done, says, proc)
    BY <2>4, <2>5, RightMeans
  <2> QED BY <2>6 DEF done, says, proc
<1>6. CASE proc = "resize"
  <2>1. done = nv_array_resize_proc(at, x) /\ x \in Nat
    BY <1>1, <1>3, <1>6 DEF ArrayProc
  <2>2. \/ nv_array_resize_proc(at, x).overrun /\ TooLarge(Allocated(at), x)
        \/ Right(nv_array_resize_proc(at, x), MeantCall("resize", e, <<x>>))
    BY <2>1, ArrayResize
  <2>3. says = MeantCall("resize", e, <<x>>)
    <3>1. r[1] = x
      BY <1>3, <1>6 DEF r
    <3> QED BY <1>6, <3>1 DEF MeantCall, r
  <2>4. (done.overrun /\ ResizesPast(proc, at)) \/ Right(done, says)
    BY <1>6, <2>1, <2>2, <2>3 DEF ResizesPast, x
  <2> HIDE DEF done, says
  <2>5. (done.overrun /\ ResizesPast(proc, at)) \/ Means(done, says, proc)
    BY <1>6, <2>4, RightMeans
  <2> QED BY <2>5 DEF done, says, proc
<1>7. CASE proc = "insert"
  <2>1. done = nv_array_insert_proc(at, x, y) /\ x \in Int /\ y \in Int
    BY <1>3, <1>4, <1>7 DEF ArrayProc
  <2>2. Right(nv_array_insert_proc(at, x, y), MeantCall("insert", e, <<x, y>>))
    BY <2>1, ArrayMethods
  <2>3. says = MeantCall("insert", e, <<x, y>>)
    <3>1. r[1] = x /\ r[2] = y
      BY <1>3, <1>4, <1>7 DEF r
    <3> QED BY <1>7, <3>1 DEF MeantCall, r
  <2>4. Right(done, says)
    BY <2>1, <2>2, <2>3
  <2> HIDE DEF done, says
  <2>5. Means(done, says, proc)
    BY <1>7, <2>4, RightMeans
  <2> QED BY <2>5 DEF done, says, proc
<1>8. CASE proc = "remove"
  <2>1. done = nv_array_remove_proc(at, x) /\ x \in Int
    BY <1>3, <1>8 DEF ArrayProc
  <2>2. Right(nv_array_remove_proc(at, x), MeantCall("remove", e, <<x>>))
    BY <2>1, ArrayMethods
  <2>3. says = MeantCall("remove", e, <<x>>)
    <3>1. r[1] = x
      BY <1>3, <1>8 DEF r
    <3> QED BY <1>8, <3>1 DEF MeantCall, r
  <2>4. Right(done, says)
    BY <2>1, <2>2, <2>3
  <2> HIDE DEF done, says
  <2>5. Means(done, says, proc)
    BY <1>8, <2>4, RightMeans
  <2> QED BY <2>5 DEF done, says, proc
<1>9. CASE proc = "add"
  <2>1. done = nv_array_add_proc(at, x) /\ x \in Int
    BY <1>3, <1>9 DEF ArrayProc
  <2>2. Right(nv_array_add_proc(at, x), MeantCall("add", e, <<x>>))
    BY <2>1, ArrayMethods
  <2>3. says = MeantCall("add", e, <<x>>)
    <3>1. r[1] = x
      BY <1>3, <1>9 DEF r
    <3> QED BY <1>9, <3>1 DEF MeantCall, r
  <2>4. Right(done, says)
    BY <2>1, <2>2, <2>3
  <2> HIDE DEF done, says
  <2>5. Means(done, says, proc)
    BY <1>9, <2>4, RightMeans
  <2> QED BY <2>5 DEF done, says, proc
<1>10. \/ proc = "size" \/ proc = "resize" \/ proc = "insert" \/ proc = "remove" \/ proc = "add"
  BY <1>1
<1> QED
  BY <1>5, <1>6, <1>7, <1>8, <1>9, <1>10 DEF proc


LEMMA ResultFlag ==
    ASSUME NEW proc, NEW n
    PROVE  ~IsPointer(Result(proc, n)[1])
<1>1. "int" \notin {"array", "object", "delegate"} /\ IntValue(n)[1] = "int"
  BY DEF IntValue
<1> QED
  BY <1>1, Slots DEF Result, IsPointer

(* The result of a native function, in the slot of its first argument.     *)
LEMMA NativeResult ==
    ASSUME Types, Frames, WellTyped, ArrayMethod,
           NEW slot, slot = sp - 1 - WithThis(Called), NEW r \in Value, ~IsPointer(r[1]),
           stack' = Written(NativeStack, slot, r),
           pointer_flags' = Written(NativeFlags, slot, Fun(Called).return_pointer),
           sp' = slot + 1, pc' = pc + 1, meant' = MeantTop(Append(NativeRest, r)),
           UNCHANGED <<program, moved, func, base, native>>
    PROVE  Types' /\ Frames'
<1> DEFINE o == TopFrame.operands
           rest == NativeRest
           x == Len(o)
           n == MeantArity
           e == Floor(TopFrame)
           s == Len(stack)
           info == CallInfo(func, pc, base)
           np == NoPointers(CallInfoSize)
           t == NativeStack
           g == NativeFlags
           b == FALSE
           q == sp - 1
           y == Len(rest)
<1>1. /\ WithThis(Called) = n + 1 /\ n \in 0..(x - 2) /\ x \in Nat /\ ~Fun(Called).return_pointer
      /\ rest \in Seq(Value) /\ y = x - 2 - n /\ \A i \in 1..y : rest[i] = o[i]
  BY ArgumentsFound
<1>2. /\ sp = e + x /\ e \in Nat /\ s \in Nat /\ \A i \in 1..x : At(stack, e + i - 1) = o[i]
      /\ sp \in 0..s /\ stack \in Seq(Slot) /\ Block(stack, pointer_flags, sp)
  BY TopIs, TopSlots DEF Types, Block
<1>3. /\ slot = e + y /\ y \in Nat /\ y <= x /\ q \in Nat /\ q = sp - 1 /\ slot \in 0..(q - 1)
      /\ slot \in 0..(s - 1) /\ slot + 1 \in 0..s /\ q <= s
      /\ \A j \in 0..(sp - 1) : j < sp \/ j \in q .. q + CallInfoSize - 1
      /\ \A j \in 0..(slot + 1 - 1) : j < sp \/ j = slot
      /\ \A j \in 0..(q - 1) : j \in 0..(s - 1) /\ j \notin q .. q + CallInfoSize - 1
      /\ \A j \in 0..(e - 1) : j \in 0..(q - 1) /\ j # slot
      /\ \A i \in 1..y : e + i - 1 \in 0..(q - 1) /\ e + i - 1 # slot /\ i \in 1..x
  <2>1. /\ slot = sp - 1 - (n + 1) /\ n \in 0..(x - 2) /\ x \in Nat /\ y = x - 2 - n
        /\ sp = e + x /\ e \in Nat /\ s \in Nat /\ sp \in 0..s /\ q = sp - 1 /\ CallInfoSize \in Nat
    BY <1>1, <1>2, StackAllocSizeAssumption
  <2> HIDE DEF x, n, e, s, q, y
  <2> QED BY ONLY <2>1
<1>4. info \in Seq(Slot) /\ Len(info) = CallInfoSize /\ \A i \in 1..CallInfoSize : ~IsPointer(info[i][1])
  <2>1. func \in Nat /\ pc \in Nat /\ base \in Nat
    <3>1. func \in DOMAIN program /\ pc \in Nat \ {0} /\ base \in Nat
      BY TopTypes, TopIs
    <3> QED BY <3>1, ProgramIs DEF Types
  <2>2. func \in Int /\ pc \in Int /\ base \in Int
    BY ONLY <2>1
  <2> QED BY ONLY <2>2, CallInfoIs
<1>5. np \in Seq(BOOLEAN) /\ Len(np) = CallInfoSize /\ \A i \in 1..CallInfoSize : np[i] = FALSE
  BY NoPointersAre, StackAllocSizeAssumption
<1>6. t = WriteAll(stack, q, info) /\ g = WriteAll(pointer_flags, q, np)
  BY DEF NativeStack, NativeFlags
<1> HIDE DEF o, x, n, e, s, info, np, t, g, q, y, rest
<1>7. Block(t, g, sp)
  <2>1. \A i \in 1..Len(info) : np[i] = IsPointer(info[i][1])
    BY <1>4, <1>5 DEF IsPointer
  <2>2. Fills(stack, pointer_flags, sp, q, info, np, sp)
    BY <1>2, <1>3, <1>4, <1>5, <2>1 DEF Fills, s
  <2>3. Block(WriteAll(stack, q, info), WriteAll(pointer_flags, q, np), sp)
    BY ONLY <2>2, BlockWrittenAll
  <2> QED BY <1>6, <2>3
<1>8. /\ t \in Seq(Slot) /\ Len(t) = s /\ \A j \in 0..(q - 1) : At(t, j) = At(stack, j)
  <2>1. WritesAll(stack, t, q, info)
    BY <1>2, <1>3, <1>4, <1>6 DEF WritesAll
  <2>2. /\ t \in Seq(Slot) /\ Len(t) = Len(stack)
        /\ \A j \in 0..(Len(stack) - 1) :
              At(t, j) = IF j \in q .. q + Len(info) - 1 THEN info[j - q + 1] ELSE At(stack, j)
    BY ONLY <2>1, SlotsWritten
  <2> QED BY <1>3, <1>4, <2>2 DEF s
<1>9. /\ b \in BOOLEAN /\ b = Fun(Called).return_pointer /\ b = IsPointer(r[1])
  BY <1>1 DEF IsPointer
<1> HIDE DEF b
<1>10. r \in Slot
  BY Slots
<1>11. Block(stack', pointer_flags', sp')
  <2> DEFINE k == slot + 1
  <2>1. /\ Block(t, g, sp) /\ slot \in 0..(Len(t) - 1) /\ r \in Slot /\ b \in BOOLEAN
        /\ b = IsPointer(r[1]) /\ k \in 0..Len(t) /\ \A j \in 0..(k - 1) : j < sp \/ j = slot
    BY <1>3, <1>7, <1>8, <1>9, <1>10
  <2> HIDE DEF k
  <2>2. Block(Written(t, slot, r), Written(g, slot, b), k)
    BY ONLY <2>1, BlockWritten
  <2> QED BY <1>9, <2>2 DEF k, t, g
<1>12. \A j \in 0..(s - 1) : At(stack', j) = IF j = slot THEN r ELSE At(t, j)
  <2>1. Writes(t, stack', slot, r)
    BY <1>3, <1>8, <1>10 DEF Writes, t
  <2> QED BY <1>8, <2>1, SlotWritten
<1>13. Agree(stack, stack', e)
  BY <1>3, <1>8, <1>12 DEF Agree
<1>14. /\ Append(rest, r) \in Seq(Value) /\ Len(Append(rest, r)) = y + 1
       /\ \A i \in 1..(y + 1) : Append(rest, r)[i] = IF i <= y THEN rest[i] ELSE r
  <2> HIDE DEF t
  <2> QED BY <1>1, AppendIs DEF y
<1>15. Lies(stack', e, Append(rest, r))
  <2> SUFFICES ASSUME NEW i \in 1..(y + 1)
               PROVE  At(stack', e + i - 1) = Append(rest, r)[i]
    BY <1>14 DEF Lies
  <2>1. CASE i <= y
    <3>1. i \in 1..y
      BY <1>3, <2>1
    <3>2. /\ e + i - 1 \in 0..(q - 1) /\ e + i - 1 # slot /\ i \in 1..x
      BY <1>3, <3>1
    <3>3. At(stack', e + i - 1) = At(stack, e + i - 1)
      BY <1>3, <1>8, <1>12, <3>2
    <3> QED BY <1>1, <1>2, <1>14, <2>1, <3>1, <3>2, <3>3
  <2>2. CASE i = y + 1
    <3>1. e + i - 1 = slot /\ ~(i <= y)
      <4>1. y \in Nat /\ e \in Nat
        BY <1>2, <1>3
      <4> QED BY <1>3, <2>2, <4>1
    <3> QED BY <1>3, <1>12, <1>14, <3>1
  <2>3. i <= y \/ i = y + 1
    <3>1. y \in Nat /\ i \in 1..(y + 1)
      BY <1>3
    <3> QED BY ONLY <3>1
  <2> QED BY <2>1, <2>2, <2>3
<1>16. Frames'
  <2>1. sp' = e + Len(Append(rest, r))
    <3>1. e \in Nat /\ y \in Nat
      BY <1>2, <1>3
    <3> QED BY <1>3, <1>14, <3>1
  <2>2. meant' = MeantTop(Append(rest, r))
    BY DEF rest
  <2> DEFINE p == Append(rest, r)
  <2>3. /\ p \in Seq(Value) /\ meant' = MeantTop(p) /\ Agree(stack, stack', Floor(TopFrame))
        /\ Lies(stack', Floor(TopFrame), p) /\ sp' = Floor(TopFrame) + Len(p)
    BY <1>13, <1>14, <1>15, <2>1, <2>2 DEF e
  <2> HIDE DEF p
  <2>4. /\ Types /\ Frames /\ program' = program /\ native' = native /\ func' = func /\ base' = base
        /\ pc' = pc + 1
    OBVIOUS
  <2> QED BY ONLY <2>3, <2>4, OperandsStep
<1> QED
  BY <1>11, <1>16 DEF Types

LEMMA InvokeArrayMethodKeeps ==
    ASSUME IInv, WellTyped, InvokeArrayMethod
    PROVE  IInv'
<1> USE DEF IInv
<1> DEFINE proc == Fun(Called).proc
           this == Argument(WithThis(Called))[2]
           slot == sp - 1 - WithThis(Called)
           done == ArrayProc(proc, array[this])
           its  == MeantNativeThis[2]
           says == MeantCall(proc, elements[its], MeantNumbers)
           r    == Result(proc, says.result)
<1>1. ArrayMethod
  BY DEF InvokeArrayMethod, ArrayMethod
<1>2. its \in DOMAIN elements /\ this = its
  BY <1>1, ArgumentsFound
<1>3. Whole(array[this]) /\ Elements(array[this]) = elements[its] /\ DOMAIN array = DOMAIN elements
  BY <1>2 DEF ArraysRight
<1>4. (done.overrun /\ ResizesPast(proc, array[this])) \/ Means(done, says, proc)
  <2> DEFINE at == array[this]
  <2>1. Whole(at) /\ Elements(at) = elements[its]
    BY <1>3
  <2> HIDE DEF at, this, its
  <2>2. (ArrayProc(proc, at).overrun /\ ResizesPast(proc, at)) \/ Means(ArrayProc(proc, at), MeantCall(proc, Elements(at), MeantNumbers), proc)
    BY <1>1, <2>1, ArrayProcIs
  <2> QED BY <2>1, <2>2 DEF at
<1>5. CASE NativeSp > Alloc \/ done.overrun
  <2>1. Stops("overrun")
    BY <1>5 DEF InvokeArrayMethod
  <2> QED BY <2>1, StopsKeeps
<1> DEFINE its1 == [i \in 1..MeantArity |->
                       TopFrame.operands[Len(TopFrame.operands) - 2 - MeantArity + i][2]]
<1>6. MeantNumbers = its1
  BY DEF MeantNumbers, MeantArgument
<1>7. CASE ~(NativeSp > Alloc \/ done.overrun) /\ done.raises
  <2>1. says.raises
    BY <1>4, <1>7 DEF Means
  <2>2. Stops(IF says.raises THEN "exception" ELSE "wrong exception")
    BY <1>6, <1>7 DEF InvokeArrayMethod
  <2>3. Stops("exception")
    BY <2>1, <2>2
  <2> QED BY <2>3, StopsKeeps
<1>8. CASE ~(NativeSp > Alloc \/ done.overrun) /\ ~done.raises
  <2>1. /\ stack' = Written(NativeStack, slot, Result(proc, done.result))
        /\ pointer_flags' = Written(NativeFlags, slot, Fun(Called).return_pointer)
        /\ sp' = slot + 1 /\ pc' = pc + 1
        /\ array' = [array EXCEPT ![this] = done.array]
        /\ elements' = [elements EXCEPT ![its] = says.elements]
        /\ meant' = MeantTop(Append(NativeRest, Result(proc, says.result)))
        /\ UNCHANGED <<program, moved, func, base, native, outcome>>
    BY <1>6, <1>8 DEF InvokeArrayMethod
  <2>2. Means(done, says, proc)
    BY <1>4, <1>8
  <2>3. r \in Value /\ ~IsPointer(r[1]) /\ stack' = Written(NativeStack, slot, r)
    BY <2>1, <2>2, ResultFlag DEF Means
  <2>4. /\ Whole(done.array) /\ Elements(done.array) = says.elements /\ says.elements \in Seq(Int)
    BY <2>2 DEF Means
  <2> HIDE DEF done, says, this, its
  <2>5. ArraysRight'
    <3> DEFINE R == Seq(Int)
    <3>1. elements \in Seq(R) /\ outcome # "wrong exception"
      BY DEF ArraysRight
    <3>2. says.elements \in R
      BY <2>4
    <3> HIDE DEF R
    <3>3. elements' \in Seq(R) /\ DOMAIN elements' = DOMAIN elements
      <4> DEFINE w == says.elements
      <4>1. /\ elements' = [elements EXCEPT ![its] = w] /\ w \in R /\ elements \in Seq(R)
            /\ its \in DOMAIN elements
        BY <1>2, <2>1, <3>1, <3>2
      <4> HIDE DEF w
      <4> QED BY ONLY <4>1
    <3>4. DOMAIN array' = DOMAIN array
      BY <2>1
    <3>5. ASSUME NEW a \in DOMAIN elements'
          PROVE  Whole(array'[a]) /\ Elements(array'[a]) = elements'[a]
      <4>1. a \in DOMAIN elements /\ a \in DOMAIN array
        BY <1>3, <3>3
      <4>2. CASE a = its
        <5>1. array'[a] = done.array /\ elements'[a] = says.elements
          BY <1>2, <2>1, <4>1, <4>2
        <5> QED BY <2>4, <5>1
      <4>3. CASE a # its
        <5>1. array'[a] = array[a] /\ elements'[a] = elements[a]
          BY <1>2, <2>1, <4>1, <4>3
        <5> QED BY <4>1, <5>1 DEF ArraysRight
      <4> QED BY <4>2, <4>3
    <3>6. outcome' # "wrong exception"
      BY <2>1, <3>1
    <3> QED BY <1>3, <3>3, <3>4, <3>5, <3>6 DEF ArraysRight, R
  <2>6. Types' /\ Frames'
    <3>1. meant' = MeantTop(Append(NativeRest, r))
      BY <2>1
    <3> HIDE DEF r, slot
    <3>2. /\ Types /\ Frames /\ WellTyped /\ ArrayMethod /\ slot = sp - 1 - WithThis(Called)
          /\ r \in Value /\ ~IsPointer(r[1]) /\ stack' = Written(NativeStack, slot, r)
          /\ pointer_flags' = Written(NativeFlags, slot, Fun(Called).return_pointer)
          /\ sp' = slot + 1 /\ pc' = pc + 1 /\ meant' = MeantTop(Append(NativeRest, r))
          /\ UNCHANGED <<program, moved, func, base, native>>
      BY <1>1, <2>1, <2>3, <3>1 DEF slot
    <3> QED BY ONLY <3>2, NativeResult
  <2> QED BY <2>5, <2>6
<1> QED
  BY <1>5, <1>7, <1>8


-----------------------------------------------------------------------------
(* The invariant holds from the beginning on.                              *)
LEMMA BlockBegins ==
    ASSUME Init
    PROVE  Block(stack, pointer_flags, 0)
<1> DEFINE by == StackAllocSize + Expansion(StackAllocSize, calc_need_stack_size(Top), 0)
           none == << >>
           n == Len(stack)
           fill == FALSE
           flags == [i \in 1..n |-> fill]
<1>1. by \in Int
  <2> DEFINE a == StackAllocSize
             k == a \div a
             need == calc_need_stack_size(Top)
  <2>1. a \in Nat \ {0}
    BY StackAllocSizeAssumption
  <2>2. k \in Int
    <3> HIDE DEF a
    <3> QED BY ONLY <2>1 DEF k
  <2>3. Expansion(a, need, 0) = IF a <= need THEN (k + 1) * a ELSE 0
    BY DEF Expansion
  <2> HIDE DEF a, k, need
  <2>4. a + (IF a <= need THEN (k + 1) * a ELSE 0) \in Int
    <3>1. (k + 1) * a \in Int
      BY ONLY <2>1, <2>2
    <3> QED BY ONLY <2>1, <3>1
  <2> QED BY <2>3, <2>4 DEF a, need
<1>2. stack = Grown(none, by, Uninitialised) /\ pointer_flags = [i \in DOMAIN stack |-> FALSE]
  BY DEF Init
<1> HIDE DEF by
<1>3. none \in Seq(Slot) /\ Uninitialised \in Slot
  BY Slots
<1> HIDE DEF none
<1>4. stack \in Seq(Slot)
  BY <1>1, <1>2, <1>3, GrownIs
<1>5. n \in Nat /\ DOMAIN stack = 1..n /\ fill \in BOOLEAN
  <2> DEFINE R == Slot
  <2>1. stack \in Seq(R)
    BY <1>4
  <2> HIDE DEF R
  <2>2. Len(stack) \in Nat /\ DOMAIN stack = 1..Len(stack)
    BY ONLY <2>1
  <2> QED BY <2>2
<1>6. pointer_flags = flags
  BY <1>2, <1>5
<1>7. flags \in Seq(BOOLEAN) /\ Len(flags) = n
  <2> HIDE DEF n, fill
  <2> QED BY <1>5
<1> HIDE DEF flags
<1>8. Flagged(stack, pointer_flags, 0)
  BY DEF Flagged
<1> QED
  BY <1>4, <1>5, <1>6, <1>7, <1>8 DEF Block

LEMMA FramesBegin ==
    ASSUME Init
    PROVE  Frames
<1> DEFINE frame == Began(Top, 0, << >>)
           m == <<frame>>
<1>1. /\ program \in Programs /\ meant = m /\ native = << >> /\ sp = 0 /\ func = Top /\ pc = 1
      /\ base = 0
  BY DEF Init
<1>2. /\ frame.function = Top /\ frame.first = 0 /\ frame.variables = << >>
      /\ frame.operands = << >> /\ frame.pc = 1
  BY DEF Began, Frame
<1>3. frame \in FrameType
  <2>1. << >> \in Seq(Value) /\ Top \in Nat
    BY DEF Top
  <2> HIDE DEF Value
  <2> QED BY <2>1 DEF FrameType, Began, Frame
<1>4. Top \in DOMAIN program /\ Arity(program, Top) = 0 /\ Len(program[Top].locals) = 0
      /\ program[Top].kind = "diksam"
  <2>1. Top \in DOMAIN program
    BY <1>1, ProgramsAssumption DEF Top
  <2> QED BY <1>1, <2>1, ProgramIs
<1>5. ~NativeIn(program, frame)
  BY <1>2, <1>4 DEF NativeIn
<1> HIDE DEF frame
<1>6. Shaped(program, frame)
  <2>1. Len(frame.variables) = 0
    BY <1>2
  <2> QED BY <1>2, <1>3, <1>4, <1>5, <2>1 DEF Shaped
<1>7. m \in Seq(FrameType) /\ Len(m) = 1 /\ DOMAIN m = 1..1 /\ m[1] = frame
  <2> DEFINE R == FrameType
  <2>1. frame \in R
    BY <1>3
  <2> HIDE DEF R
  <2>2. m \in Seq(R) /\ Len(m) = 1 /\ DOMAIN m = 1..1 /\ m[1] = frame
    BY ONLY <2>1
  <2> QED BY <2>2 DEF R
<1> HIDE DEF m
<1>8. \A k \in DOMAIN m : k = 1 /\ ~(k > 1) /\ m[k] = frame
  BY <1>7
<1>9. Layout(program, m)
  BY <1>2, <1>6, <1>7, <1>8 DEF Layout
<1>10. Stored(program, stack, m)
  <2>1. Within(program, stack, frame)
    BY <1>2 DEF Within
  <2> QED BY <1>8, <2>1 DEF Stored
<1>11. Activated(program, m, native)
  <2>1. native \in Seq(Activation) /\ Len(native) = 0
    <3> HIDE DEF Activation
    <3> QED BY <1>1
  <2>2. NativesIn(program, m, 1) = {}
    BY <1>5, <1>7 DEF NativesIn
  <2>3. Natives(program, m, Len(m)) = 0
    BY <1>7, <2>2, FS_EmptySet DEF Natives
  <2> QED BY <1>8, <2>1, <2>3 DEF Activated
<1>12. End(frame) = 0 /\ InfoSize(frame) = 0
  BY <1>2 DEF End, InfoSize
<1>13. Framed(program, stack, m, native, func, pc, base, sp)
  BY <1>1, <1>2, <1>5, <1>7, <1>9, <1>10, <1>11, <1>12 DEF Framed
<1> QED
  BY <1>1, <1>13 DEF Frames

LEMMA ArraysBegin ==
    ASSUME Init
    PROVE  ArraysRight
<1>1. /\ array = [i \in DOMAIN Arrays |-> NewArray(Arrays[i])] /\ elements = Arrays
      /\ outcome = "running"
  BY DEF Init
<1>2. Arrays \in Seq(Seq(Int))
  BY ArraysAssumption
<1>3. ASSUME NEW a \in DOMAIN Arrays
      PROVE  Whole(array[a]) /\ Elements(array[a]) = Arrays[a]
  <2>1. Arrays[a] \in Seq(Int)
    <3> DEFINE R == Seq(Int)
    <3>1. Arrays \in Seq(R)
      BY <1>2
    <3> HIDE DEF R
    <3>2. Arrays[a] \in R
      BY ONLY <1>3, <3>1
    <3> QED BY <3>2 DEF R
  <2>2. array[a] = NewArray(Arrays[a])
    BY <1>1
  <2> QED BY <2>1, <2>2, ArrayMethods
<1> QED
  BY <1>1, <1>2, <1>3 DEF ArraysRight

LEMMA Begin == Init => IInv
<1> SUFFICES ASSUME Init PROVE IInv
  OBVIOUS
<1>1. program \in Programs /\ moved \in Nat /\ sp = 0
  BY DEF Init
<1>2. Types
  BY <1>1, BlockBegins DEF Types
<1> QED
  BY <1>2, FramesBegin, ArraysBegin DEF IInv

LEMMA Keep == IInv /\ WellTyped /\ [Next]_vars => IInv'
<1> SUFFICES ASSUME IInv, WellTyped, [Next]_vars PROVE IInv'
  OBVIOUS
<1>1. CASE Push
  BY <1>1, PushKeeps
<1>2. CASE Store
  BY <1>2, StoreKeeps
<1>3. CASE Pop
  BY <1>3, PopKeeps
<1>4. CASE InvokeDiksam
  BY <1>4, InvokeDiksamKeeps
<1>5. CASE Return
  BY <1>5, ReturnKeeps
<1>6. CASE InvokeArrayMethod
  BY <1>6, InvokeArrayMethodKeeps
<1>7. CASE CallBack
  BY <1>7, CallBackKeeps
<1>8. CASE ReturnToNative
  BY <1>8, ReturnToNativeKeeps
<1>9. CASE Finish
  <2>1. Stops("done")
    BY <1>9 DEF Finish, Stops
  <2> QED BY <2>1, StopsKeeps
<1>10. CASE UNCHANGED vars
  BY <1>10 DEF IInv, Types, Frames, ArraysRight, vars, machine
<1> QED
  BY <1>1, <1>2, <1>3, <1>4, <1>5, <1>6, <1>7, <1>8, <1>9, <1>10 DEF Next


-----------------------------------------------------------------------------
(* What the invariant says to the reader of CallStack.                     *)
LEMMA HeldIs ==
    ASSUME program \in Programs, NEW frame, Shaped(program, frame), Within(program, stack, frame)
    PROVE  Held(frame)
<1> DEFINE vs == frame.variables
           o == frame.operands
           a == Arity(program, frame.function)
           b == frame.first
           z == InfoSize(frame)
           v == Len(vs)
           c == Contents(frame)
<1>1. /\ b \in Nat /\ z \in Nat /\ a \in 0..v /\ v \in Nat /\ Len(o) \in Nat
      /\ vs \in Seq(Value) /\ o \in Seq(Value)
  BY FrameIs
<1>2. /\ \A i \in 1..v : At(stack, b + i - 1 + (IF i <= a THEN 0 ELSE z)) = vs[i]
      /\ \A i \in 1..Len(o) : At(stack, b + z + v + i - 1) = o[i]
  BY DEF Within
<1>3. c = vs \o o
  BY DEF Contents
<1>4. \A i \in 1..(v + Len(o)) : SlotOf(frame, i) = b + i - 1 + (IF i <= a THEN 0 ELSE z)
  BY DEF SlotOf, WithThis, Fun, Arity
<1> HIDE DEF vs, o, a, b, z, c
<1>5. /\ c \in Seq(Value) /\ Len(c) = v + Len(o)
      /\ \A i \in 1..(v + Len(o)) : c[i] = IF i <= v THEN vs[i] ELSE o[i - v]
  <2>1. /\ vs \o o \in Seq(Value) /\ Len(vs \o o) = Len(vs) + Len(o)
        /\ \A i \in 1..(Len(vs) + Len(o)) : (vs \o o)[i] = IF i <= Len(vs) THEN vs[i] ELSE o[i - Len(vs)]
    BY <1>1, ConcatIs
  <2> QED BY <1>3, <2>1
<1>6. DOMAIN c = 1..(v + Len(o))
  <2> DEFINE R == Value
  <2>1. c \in Seq(R) /\ Len(c) = v + Len(o)
    BY <1>5
  <2> HIDE DEF R
  <2>2. DOMAIN c = 1..Len(c)
    BY ONLY <2>1
  <2> QED BY <2>1, <2>2
<1> HIDE DEF v
<1>7. ASSUME NEW i \in 1..(v + Len(o))
      PROVE  At(stack, SlotOf(frame, i)) = c[i]
  <2>1. CASE i <= v
    <3>1. i \in 1..v
      BY <1>1, <2>1
    <3> QED BY <1>2, <1>4, <1>5, <2>1, <3>1
  <2>2. CASE ~(i <= v)
    <3> DEFINE j == i - v
    <3>1. j \in 1..Len(o) /\ b + i - 1 + (IF i <= a THEN 0 ELSE z) = b + z + v + j - 1
      <4>1. b \in Nat /\ z \in Nat /\ a \in 0..v /\ v \in Nat /\ Len(o) \in Nat
        BY <1>1
      <4> QED BY <2>2, <4>1
    <3> HIDE DEF j
    <3>2. At(stack, b + z + v + j - 1) = o[j]
      BY <1>2, <3>1
    <3>3. c[i] = o[j]
      BY <1>5, <2>2 DEF j
    <3> QED BY <1>4, <3>1, <3>2, <3>3
  <2> QED BY <2>1, <2>2
<1> QED
  BY <1>6, <1>7 DEF Held, c

LEMMA NativesMatch ==
    ASSUME NEW k
    PROVE  Cardinality(NativesTo(k)) = Natives(program, meant, k)
<1>1. NativesTo(k) = NativesIn(program, meant, k)
  BY DEF NativesTo, NativesIn, IsNative, NativeIn, Fun
<1> QED
  BY <1>1 DEF Natives

LEMMA LinksAre ==
    ASSUME NEW k \in DOMAIN meant, k > 1, Linked(program, stack, meant[k], meant[k - 1]),
           Activated(program, meant, native)
    PROVE  Links(k)
<1>1. At(stack, InfoAt(meant[k])) = At(stack, meant[k].first + Arity(program, meant[k].function))
  BY DEF InfoAt, WithThis, Arity, Fun
<1>2. \A frame : IsNative(frame) <=> NativeIn(program, frame)
  BY DEF IsNative, NativeIn, Fun
<1>3. IsNative(meant[k]) =>
         LET n == native[Cardinality(NativesTo(k))]
         IN  /\ n.function = meant[k].function /\ n.func = meant[k - 1].function
             /\ n.pc + 1 = meant[k - 1].pc /\ n.base = meant[k - 1].first
  BY <1>2, NativesMatch DEF Activated
<1> QED
  BY <1>1, <1>2, <1>3 DEF Links, Linked

LEMMA Intact == IInv => FramesIntact
<1> SUFFICES ASSUME IInv PROVE FramesIntact
  OBVIOUS
<1>1. /\ program \in Programs /\ Layout(program, meant) /\ Stored(program, stack, meant)
      /\ Activated(program, meant, native)
  BY DEF IInv, Types, Frames, Framed
<1>2. /\ func = TopFrame.function /\ pc = TopFrame.pc /\ base = TopFrame.first /\ sp = End(TopFrame)
  BY DEF IInv, Frames, Framed, TopFrame
<1>3. Len(native) = Cardinality(NativesTo(Len(meant)))
  BY <1>1, NativesMatch DEF Activated
<1>4. ASSUME NEW k \in DOMAIN meant
      PROVE  Held(meant[k]) /\ (k > 1 => Links(k))
  <2>1. Shaped(program, meant[k]) /\ Within(program, stack, meant[k])
    BY <1>1 DEF Layout, Stored
  <2>2. k > 1 => Linked(program, stack, meant[k], meant[k - 1])
    BY <1>1 DEF Stored
  <2>3. k > 1 => Links(k)
    BY <1>1, <2>2, LinksAre
  <2> QED BY <1>1, <2>1, <2>3, HeldIs
<1> QED
  BY <1>2, <1>3, <1>4 DEF FramesIntact

LEMMA FlagsAre == IInv => FlagsRight /\ sp \in 0..Alloc
  BY DEF IInv, Types, Block, Flagged, FlagsRight, Alloc

LEMMA ArraysAre == IInv => ArraysAgree /\ BlockFits
<1> SUFFICES ASSUME IInv PROVE ArraysAgree /\ BlockFits
  OBVIOUS
<1>1. ArraysAgree
  BY DEF IInv, ArraysRight, ArraysAgree
<1>2. ASSUME NEW a \in DOMAIN array
      PROVE  /\ Allocated(array[a]) - array[a].size \in 0..ArrayAllocSize
             /\ array[a].charged = Allocated(array[a])
  <2> DEFINE at == array[a]
             x == Allocated(at)
             y == at.size
  <2>1. Whole(at)
    BY DEF IInv, ArraysRight
  <2> HIDE DEF at
  <2>2. at \in Array /\ y <= x /\ at.charged = x /\ x - y <= ArrayAllocSize
    BY <2>1 DEF Whole, InBlock
  <2>3. x \in Nat /\ y \in Nat /\ ArrayAllocSize \in Nat
    BY <2>2, ArrayAllocSizeAssumption DEF Array, Allocated
  <2> HIDE DEF x, y
  <2>4. x - y \in 0..ArrayAllocSize
    BY <2>2, <2>3
  <2> QED BY <2>2, <2>4 DEF x, y, at
<1> QED
  BY <1>1, <1>2 DEF BlockFits

-----------------------------------------------------------------------------
(* The invariant: dvm->stack and pointer_flags, the frames on the stack    *)
(* and the activations of native functions, and the arrays are what the    *)
(* program means, of every program whose instructions always find the      *)
(* operands they need (WellTyped).                                         *)
THEOREM CallInvariance == Spec /\ []WellTyped => []IInv
<1>1. Init => IInv
  BY Begin
<1>2. IInv /\ WellTyped /\ [Next]_vars => IInv'
  BY Keep
<1> QED
  BY <1>1, <1>2, PTL DEF Spec

(* Every frame has its parameters, this, local variables and operands, and *)
(* every return goes on where the call was: for all programs, sizes of the *)
(* stack and of the call information, and depths of calls and call backs.  *)
THEOREM CallFrames == Spec /\ []WellTyped => []FramesIntact
  BY CallInvariance, Intact, PTL

(* pointer_flags tells the references of the whole stack, and the stack    *)
(* pointer stays in the block.                                             *)
THEOREM CallFlags == Spec /\ []WellTyped => [](FlagsRight /\ sp \in 0..Alloc)
  BY CallInvariance, FlagsAre, PTL

(* Arrays hold what their methods mean, and a method raises just when it   *)
(* means to, on whatever stack the arguments came.                         *)
THEOREM CallArrays == Spec /\ []WellTyped => []ArraysAgree
  BY CallInvariance, ArraysAre, PTL

(* The block of an array is at most ARRAY_ALLOC_SIZE larger than it, and   *)
(* the heap is charged for all of it.                                      *)
THEOREM CallBlocks == Spec /\ []WellTyped => []BlockFits
  BY CallInvariance, ArraysAre, PTL

-----------------------------------------------------------------------------
(* The room on the stack.  Before instruction n of function f at most      *)
(* Count values have been pushed, of all Need.                             *)
Pushing(p, f, n) == {i \in DOMAIN p[f].code : i < n /\ p[f].code[i].op \in Pushes}
Count(p, f, n)   == Cardinality(Pushing(p, f, n))
Need(p, f)       == Cardinality({i \in DOMAIN p[f].code : p[f].code[i].op \in Pushes})

(* The frame fits in a block of l slots whatever it pushes, and w more     *)
(* values than it has.                                                     *)
RoomFor(p, frame, l, w) ==
    ~NativeIn(p, frame) =>
        /\ Floor(frame) + Need(p, frame.function) < l
        /\ Len(frame.operands) + w <= Count(p, frame.function, frame.pc)

(* A function that waits for another gets a value from it.                 *)
Room(p, m, l) ==
    /\ \A k \in 1..(Len(m) - 1) : RoomFor(p, m[k], l, 1)
    /\ RoomFor(p, m[Len(m)], l, 0)

LEMMA CountIs ==
    ASSUME NEW p \in Programs, NEW f \in DOMAIN p, NEW n \in Nat
    PROVE  /\ Count(p, f, n) \in Nat /\ Need(p, f) \in Nat /\ Count(p, f, n + 1) \in Nat
           /\ Count(p, f, n) <= Need(p, f) /\ Count(p, f, n) <= Count(p, f, n + 1)
           /\ n \in DOMAIN p[f].code /\ p[f].code[n].op \in Pushes =>
                 Count(p, f, n + 1) = Count(p, f, n) + 1
<1> DEFINE c == p[f].code
           all == {i \in DOMAIN c : c[i].op \in Pushes}
           s == Pushing(p, f, n)
           t == Pushing(p, f, n + 1)
<1>1. c \in Seq([op : STRING, n : Int])
  BY ProgramIs
<1>2. DOMAIN c = 1..Len(c) /\ Len(c) \in Nat
  <2> HIDE DEF c
  <2> QED BY <1>1
<1>3. IsFiniteSet(DOMAIN c)
  <2> DEFINE l == Len(c)
  <2>1. l \in Nat
    BY <1>2
  <2> HIDE DEF l
  <2>2. IsFiniteSet(1..l)
    BY <2>1, FS_Interval
  <2> QED BY <1>2, <2>2 DEF l
<1>4. all \subseteq DOMAIN c /\ s \subseteq all /\ t \subseteq all /\ s \subseteq t
  <2>1. \A i \in DOMAIN c : i < n => i < n + 1
    BY <1>2
  <2> QED BY <2>1 DEF Pushing
<1>5. n \in DOMAIN c /\ c[n].op \in Pushes => t = s \cup {n} /\ n \notin s
  <2>1. \A i \in DOMAIN c : (i < n + 1 <=> i < n \/ i = n) /\ ~(n < n)
    BY <1>2
  <2> QED BY <2>1 DEF Pushing
<1> HIDE DEF c, all, s, t
<1>6. IsFiniteSet(all)
  BY <1>3, <1>4, FS_Subset
<1>7. /\ IsFiniteSet(s) /\ IsFiniteSet(t) /\ Cardinality(s) <= Cardinality(all)
      /\ Cardinality(s) <= Cardinality(t)
  BY <1>4, <1>6, FS_Subset
<1>8. Cardinality(s) \in Nat /\ Cardinality(t) \in Nat /\ Cardinality(all) \in Nat
  BY <1>6, <1>7, FS_CardinalityType
<1>9. n \in DOMAIN c /\ c[n].op \in Pushes => Cardinality(t) = Cardinality(s) + 1
  BY <1>5, <1>7, FS_AddElement
<1> QED
  BY <1>7, <1>8, <1>9 DEF Count, Need, c, all, s, t

Upon(m, n, frame, u) ==
    /\ Len(u) = Len(m) - n + 1 /\ u[Len(m) - n + 1] = frame
    /\ \A i \in 1..(Len(m) - n) : u[i] = m[i]

LEMMA OnLower ==
    ASSUME NEW m, m \in Seq(FrameType), NEW n, n \in 1..Len(m), NEW frame
    PROVE  Upon(m, n, frame, Append(Lower(m, n), frame))
<1> DEFINE R == FrameType \cup {frame}
           t == Lower(m, n)
<1>1. m \in Seq(FrameType) /\ frame \in R /\ FrameType \subseteq R
  OBVIOUS
<1> HIDE DEF FrameType
<1>2. m \in Seq(R)
  BY <1>1
<1> HIDE DEF R
<1>3. n \in 0..Len(m)
  BY <1>2
<1>4. t \in Seq(R) /\ Len(t) = Len(m) - n /\ \A i \in 1..(Len(m) - n) : t[i] = m[i]
  BY <1>2, <1>3, LowerIs DEF Lower
<1> HIDE DEF t
<1>5. /\ Len(Append(t, frame)) = Len(t) + 1
      /\ \A i \in 1..(Len(t) + 1) : Append(t, frame)[i] = IF i <= Len(t) THEN t[i] ELSE frame
  BY <1>1, <1>4, AppendIs
<1> DEFINE x == Len(t)
<1>6. x \in Nat /\ x = Len(m) - n
  <2>1. Len(m) \in Nat
    BY <1>2
  <2> QED BY <1>3, <1>4, <2>1
<1> HIDE DEF x
<1>7. x + 1 \in 1..(x + 1) /\ ~(x + 1 <= x) /\ \A i \in 1..x : i \in 1..(x + 1) /\ i <= x
  BY <1>6
<1>8. Append(t, frame)[x + 1] = frame /\ \A i \in 1..x : Append(t, frame)[i] = t[i]
  BY <1>5, <1>7 DEF x
<1> QED
  BY <1>4, <1>5, <1>6, <1>8 DEF t, x, Upon

(* The frames that stay below still have room.                             *)
LEMMA RoomBelow ==
    ASSUME NEW p \in Programs, NEW m, Layout(p, m), NEW l \in Nat, NEW g \in Nat, l <= g,
           Room(p, m, l), NEW j \in 1..Len(m), NEW i \in 1..(j - 1)
    PROVE  RoomFor(p, m[i], g, 1)
<1>1. i \in DOMAIN m /\ i \in 1..(Len(m) - 1)
  <2> DEFINE x == Len(m)
  <2>1. x \in Nat /\ DOMAIN m = 1..x
    BY DEF Layout
  <2> HIDE DEF x
  <2>2. j \in 1..x
    BY DEF x
  <2>3. i \in 1..x /\ i \in 1..(x - 1)
    BY ONLY <2>1, <2>2, i \in 1..(j - 1)
  <2> QED BY <2>1, <2>3 DEF x
<1>2. RoomFor(p, m[i], l, 1) /\ Shaped(p, m[i])
  BY <1>1 DEF Room, Layout
<1> DEFINE e == Floor(m[i])
           d == Need(p, m[i].function)
<1>3. e \in Int /\ d \in Int
  <2>1. /\ m[i].first \in Nat /\ InfoSize(m[i]) \in Nat /\ Len(m[i].variables) \in Nat
        /\ m[i].function \in DOMAIN p
    BY <1>2, FrameIs
  <2>2. e \in Int
    BY <2>1 DEF Floor
  <2>3. 0 \in Nat
    OBVIOUS
  <2>4. d \in Nat
    BY <2>1, <2>3, CountIs
  <2> QED BY <2>2, <2>4
<1>4. e + d < l => e + d < g
  <2> HIDE DEF e, d
  <2> QED BY <1>3
<1> QED
  BY <1>2, <1>4 DEF RoomFor

LEMMA RoomTop ==
    ASSUME Types, Frames, Room(program, meant, Alloc)
    PROVE  /\ sp < Alloc /\ Alloc \in Nat /\ sp \in Nat
           /\ Floor(TopFrame) + Need(program, func) < Alloc
           /\ Len(TopFrame.operands) <= Count(program, func, pc)
           /\ Len(TopFrame.operands) <= Count(program, func, pc + 1)
           /\ pc \in DOMAIN program[func].code /\ program[func].code[pc].op \in Pushes =>
                 Len(TopFrame.operands) + 1 <= Count(program, func, pc + 1)
<1> DEFINE x == Len(TopFrame.operands)
           e == Floor(TopFrame)
           d == Need(program, func)
           c == Count(program, func, pc)
           n == Count(program, func, pc + 1)
<1>1. /\ program \in Programs /\ func \in DOMAIN program /\ pc \in Nat /\ e \in Nat
      /\ sp = e + x /\ x \in Nat /\ sp \in Nat /\ Alloc \in Nat
      /\ func = TopFrame.function /\ pc = TopFrame.pc
  BY TopTypes, TopIs DEF Types, Alloc
<1>2. /\ c \in Nat /\ d \in Nat /\ n \in Nat /\ c <= d /\ c <= n
      /\ pc \in DOMAIN program[func].code /\ program[func].code[pc].op \in Pushes => n = c + 1
  BY <1>1, CountIs
<1>3. e + d < Alloc /\ x + 0 <= c
  <2>1. ~NativeIn(program, TopFrame)
    BY DEF Frames, Framed, TopFrame
  <2>2. RoomFor(program, TopFrame, Alloc, 0)
    BY DEF Room, TopFrame
  <2> QED BY <1>1, <2>1, <2>2 DEF RoomFor
<1> HIDE DEF x, e, d, c, n
<1>4. sp < Alloc /\ x <= c /\ x <= n
  BY <1>1, <1>2, <1>3
<1>5. n = c + 1 => x + 1 <= n
  BY <1>1, <1>2, <1>4
<1> QED
  BY <1>1, <1>2, <1>3, <1>4, <1>5 DEF x, e, d, c, n


LEMMA RunningAt ==
    ASSUME Types, Frames, Running
    PROVE  pc \in DOMAIN program[func].code /\ Code = program[func].code[pc]
<1>1. pc \in Nat \ {0} /\ func \in DOMAIN program /\ program \in Programs
  BY TopTypes, TopIs DEF Types
<1> DEFINE c == program[func].code
<1>2. c \in Seq([op : STRING, n : Int])
  BY <1>1, ProgramIs
<1>3. pc <= Len(c) /\ Code = c[pc]
  BY DEF Running, Code, Fun
<1> HIDE DEF c
<1>4. DOMAIN c = 1..Len(c) /\ Len(c) \in Nat
  BY <1>2
<1>5. pc \in DOMAIN c
  BY <1>1, <1>3, <1>4
<1> QED
  BY <1>3, <1>5 DEF c


-----------------------------------------------------------------------------
(* When the stack is large enough: the call information takes one or two   *)
(* slots, as it does where pointers have 8 bytes or 4, and no function     *)
(* needs as much as STACK_ALLOC_SIZE, which dvm_expand_stack adds at       *)
(* least; and where the code does not look, an array is not resized past   *)
(* what its block grows to, and dvm_expand_stack would have nothing to do  *)
(* for a function that is called back.                                     *)
SmallFunctions ==
    /\ CallInfoSize <= 2
    /\ \A f \in DOMAIN program :
          CallInfoSize + Len(program[f].locals) + Need(program, f) < StackAllocSize

ResizeFits ==
    Invoking /\ Fun(Called).kind = "native" /\ Fun(Called).method =>
        ~ResizesPast(Fun(Called).proc, array[Argument(WithThis(Called))[2]])

CallBackFits ==
    Invoking /\ Fun(Called).kind = "native" /\ ~Fun(Called).method =>
        LET d == Argument(1)
            f == Callee(d)
        IN  NativeSp + Len(<<IntValue(13)>> \o This(d)) + CallInfoSize
                + Len(Fun(f).locals) + calc_need_stack_size(f) < Alloc

Fits == SmallFunctions /\ ResizeFits /\ CallBackFits

Roomy == IInv /\ Room(program, meant, Alloc) /\ outcome # "overrun"

(* The top frame, at the next instruction.                                 *)
LEMMA RoomStep ==
    ASSUME Roomy, NEW vs, NEW o, Len(vs) = Len(TopFrame.variables), Len(o) \in Nat,
           Len(o) <= Count(program, func, pc + 1),
           meant' = MeantNext(vs, o), program' = program, Alloc' = Alloc
    PROVE  Room(program, meant, Alloc)'
<1> USE DEF Roomy, IInv
<1> DEFINE l == Len(meant)
           frame == Frame(TopFrame.function, TopFrame.first, vs, o, TopFrame.pc + 1)
           i == 1
<1>1. /\ l \in Nat \ {0} /\ i \in 1..l /\ meant \in Seq(FrameType) /\ program \in Programs
      /\ Layout(program, meant) /\ Alloc \in Nat /\ Alloc <= Alloc /\ l \in 1..l
  <2>1. l \in Nat \ {0} /\ meant \in Seq(FrameType) /\ Alloc \in Nat
    BY TopTypes, TopIs DEF Alloc
  <2> HIDE DEF l
  <2>2. i \in 1..l /\ l \in 1..l /\ Alloc <= Alloc
    BY ONLY <2>1
  <2> QED BY <2>1, <2>2 DEF Types, Frames, Framed
<1>2. meant' = Append(Lower(meant, 1), frame)
  BY DEF MeantNext
<1> DEFINE u == Append(Lower(meant, i), frame)
<1>3. /\ Len(u) = Len(meant) - i + 1 /\ u[Len(meant) - i + 1] = frame
      /\ \A k \in 1..(Len(meant) - i) : u[k] = meant[k]
  <2> HIDE DEF i, frame
  <2>1. meant \in Seq(FrameType) /\ i \in 1..Len(meant)
    BY <1>1
  <2>2. Upon(meant, i, frame, Append(Lower(meant, i), frame))
    BY ONLY <2>1, OnLower
  <2> QED BY <2>2 DEF Upon
<1>4. meant' = u
  BY <1>2
<1> HIDE DEF u
<1>5. Len(u) = l /\ u[l] = frame /\ \A k \in 1..(l - 1) : u[k] = meant[k]
  <2>1. l - i + 1 = l /\ l - i = l - 1
    <3> HIDE DEF l
    <3> QED BY ONLY <1>1 DEF i
  <2> QED BY <1>3, <2>1
<1>6. ASSUME NEW k \in 1..(l - 1)
      PROVE  RoomFor(program, u[k], Alloc, 1)
  <2>1. RoomFor(program, meant[k], Alloc, 1)
    <3> DEFINE a == Alloc
    <3>1. Room(program, meant, a) /\ a \in Nat /\ a <= a
      BY <1>1
    <3> HIDE DEF a
    <3>2. RoomFor(program, meant[k], a, 1)
      BY <1>1, <3>1, RoomBelow
    <3> QED BY <3>2 DEF a
  <2> QED BY <1>5, <2>1
<1>7. RoomFor(program, frame, Alloc, 0)
  <2>1. /\ frame.function = TopFrame.function /\ frame.first = TopFrame.first
        /\ frame.variables = vs /\ frame.operands = o /\ frame.pc = TopFrame.pc + 1
    BY DEF Frame
  <2> HIDE DEF frame
  <2>2. Floor(frame) = Floor(TopFrame)
    BY <2>1 DEF Floor, InfoSize
  <2>3. func = TopFrame.function /\ pc = TopFrame.pc
    BY TopIs
  <2>4. Floor(TopFrame) + Need(program, func) < Alloc
    BY RoomTop
  <2>5. Len(o) + 0 = Len(o)
    OBVIOUS
  <2> QED BY <2>1, <2>2, <2>3, <2>4, <2>5 DEF RoomFor
<1>8. Room(program, u, Alloc)
  BY <1>5, <1>6, <1>7 DEF Room
<1> QED
  BY <1>4, <1>8

LEMMA WrittenLength ==
    ASSUME NEW S, NEW s \in Seq(S), NEW i, NEW v, NEW from, NEW values
    PROVE  Len(Written(s, i, v)) = Len(s) /\ Len(WriteAll(s, from, values)) = Len(s)
<1> DEFINE n == Len(s)
<1>1. n \in Nat /\ DOMAIN s = 1..n
  OBVIOUS
<1>2. Len(Written(s, i, v)) = n
  <2> DEFINE R == S \cup {v}
             t == Written(s, i, v)
  <2>1. t = [s EXCEPT ![i + 1] = v]
    BY DEF Written
  <2>2. t \in Seq(R)
    <3>1. s \in [1..n -> R] /\ v \in R
      OBVIOUS
    <3> HIDE DEF R, t, n
    <3>2. t \in [1..n -> R]
      BY <2>1, <3>1
    <3> QED BY <1>1, <3>2
  <2>3. DOMAIN t = 1..n
    BY <1>1, <2>1
  <2> HIDE DEF R, t, n
  <2> QED BY <1>1, <2>2, <2>3 DEF t
<1>3. Len(WriteAll(s, from, values)) = n
  <2> DEFINE F(j) == IF j - 1 \in from .. from + Len(values) - 1 THEN values[j - from] ELSE s[j]
             R == {F(j) : j \in 1..n}
             t == [j \in 1..n |-> F(j)]
  <2>1. WriteAll(s, from, values) = t
    BY <1>1 DEF WriteAll
  <2> HIDE DEF F, n
  <2>2. t \in [1..n -> R] /\ DOMAIN t = 1..n
    OBVIOUS
  <2>3. t \in Seq(R)
    <3> HIDE DEF R, t
    <3> QED BY <1>1, <2>2
  <2> HIDE DEF R, t
  <2>4. Len(t) = n
    BY <1>1, <2>2, <2>3
  <2> QED BY <2>1, <2>4
<1> QED
  BY <1>2, <1>3

LEMMA WrittenStays ==
    ASSUME Types, NEW i, NEW v, NEW from, NEW values
    PROVE  /\ Len(Written(stack, i, v)) = Alloc /\ Len(WriteAll(stack, from, values)) = Alloc
  BY WrittenLength DEF Types, Block, Alloc

LEMMA PushFits ==
    ASSUME Roomy, WellTyped, Push
    PROVE  Roomy'
<1> USE DEF Roomy, IInv
<1>1. IInv'
  BY PushKeeps
<1>2. sp < Alloc /\ sp \in Nat /\ Alloc \in Nat
  BY RoomTop
<1>3. /\ stack' = Written(stack, sp, Pushed)
      /\ meant' = MeantTop(Append(TopFrame.operands, MeantPush))
      /\ program' = program /\ outcome' = outcome
  BY <1>2 DEF Push
<1>4. Alloc' = Alloc
  BY <1>3, WrittenStays DEF Alloc
<1> DEFINE o == Append(TopFrame.operands, MeantPush)
<1>5. Len(o) = Len(TopFrame.operands) + 1 /\ Len(o) \in Nat
  <2>1. TopFrame.operands \in Seq(Value) /\ MeantPush \in Value
    BY TopTypes, PushedIs DEF Push
  <2>2. Len(o) = Len(TopFrame.operands) + 1
    BY <2>1, AppendIs
  <2>3. Len(TopFrame.operands) \in Nat
    BY TopTypes
  <2> QED BY <2>2, <2>3
<1>6. pc \in DOMAIN program[func].code /\ program[func].code[pc].op \in Pushes
  BY RunningAt DEF Push
<1>7. Len(o) <= Count(program, func, pc + 1)
  BY <1>5, <1>6, RoomTop
<1>8. meant' = MeantNext(TopFrame.variables, o)
  BY <1>3 DEF MeantTop
<1> HIDE DEF o
<1>9. Room(program, meant, Alloc)'
  BY <1>3, <1>4, <1>5, <1>7, <1>8, RoomStep
<1> QED
  BY <1>1, <1>3, <1>9


LEMMA NativeBlock ==
    ASSUME Types, Frames, WellTyped, Invoking
    PROVE  NativeStack \in Seq(Slot)
<1> DEFINE info == CallInfo(func, pc, base)
           q == sp - 1
<1>1. func \in Int /\ pc \in Int /\ base \in Int
  <2>1. func \in DOMAIN program /\ pc \in Nat \ {0} /\ base \in Nat
    BY TopTypes, TopIs
  <2> QED BY <2>1, ProgramIs DEF Types
<1>2. info \in Seq(Slot)
  BY <1>1, CallInfoIs
<1>3. q \in Nat /\ stack \in Seq(Slot)
  <2>1. q \in Floor(TopFrame)..(Len(stack) - 1) /\ Floor(TopFrame) \in Nat /\ Len(stack) \in Nat
    BY CallIs, LastIs, TopIs
  <2> HIDE DEF q
  <2> QED BY <2>1 DEF Types, Block
<1> HIDE DEF info, q
<1>4. WriteAll(stack, q, info) \in Seq(Slot)
  BY <1>2, <1>3, WriteAllIs
<1> QED
  BY <1>4 DEF NativeStack, info, q


LEMMA StopsFits ==
    ASSUME Roomy, NEW why, why \notin {"overrun", "wrong exception"}, Stops(why)
    PROVE  Roomy'
<1>1. IInv'
  BY StopsKeeps DEF Roomy
<1> QED
  BY <1>1 DEF Roomy, Room, RoomFor, NativeIn, Alloc, Stops, machine

LEMMA PopFits ==
    ASSUME Roomy, WellTyped, Pop
    PROVE  Roomy'
<1> USE DEF Roomy, IInv
<1>1. IInv'
  BY PopKeeps
<1> DEFINE o == Front(TopFrame.operands)
           x == Len(TopFrame.operands)
           y == Len(o)
           c == Count(program, func, pc + 1)
<1>2. meant' = MeantNext(TopFrame.variables, o) /\ UNCHANGED <<program, stack, outcome>>
  BY DEF Pop, MeantTop
<1>3. y = x - 1 /\ x \in Nat \ {0}
  <2>1. TopFrame.operands # << >>
    BY CodeIs DEF Pop, CodeTyped
  <2> QED BY <2>1, LastIs
<1>4. x <= c /\ c \in Nat
  <2>1. pc \in Nat /\ func \in DOMAIN program /\ program \in Programs
    BY TopTypes, TopIs DEF Types
  <2> QED BY <2>1, RoomTop, CountIs
<1>5. y \in Nat /\ y <= c
  <2> HIDE DEF x, y, c
  <2> QED BY ONLY <1>3, <1>4
<1>6. Alloc' = Alloc
  BY <1>2 DEF Alloc
<1>7. Room(program, meant, Alloc)'
  <2> HIDE DEF o
  <2> QED BY <1>2, <1>5, <1>6, RoomStep
<1> QED
  BY <1>1, <1>2, <1>7

LEMMA StoreFits ==
    ASSUME Roomy, WellTyped, Store
    PROVE  Roomy'
<1> USE DEF Roomy, IInv
<1>1. IInv'
  BY StoreKeeps
<1> DEFINE o == Front(TopFrame.operands)
           vs == TopFrame.variables
           ws == [vs EXCEPT ![Code.n + 1] = Last(TopFrame.operands)]
           x == Len(TopFrame.operands)
           y == Len(o)
           c == Count(program, func, pc + 1)
<1>2. /\ meant' = MeantNext(ws, o) /\ UNCHANGED <<program, outcome>>
      /\ stack' = Written(stack, base + Converted(func, Code.n), At(stack, sp - 1))
  BY DEF Store
<1>3. y = x - 1 /\ x \in Nat \ {0}
  <2>1. TopFrame.operands # << >>
    BY CodeIs DEF Store, CodeTyped
  <2> QED BY <2>1, LastIs
<1>4. x <= c /\ c \in Nat
  <2>1. pc \in Nat /\ func \in DOMAIN program /\ program \in Programs
    BY TopTypes, TopIs DEF Types
  <2> QED BY <2>1, RoomTop, CountIs
<1>5. y \in Nat /\ y <= c
  <2> HIDE DEF x, y, c
  <2> QED BY ONLY <1>3, <1>4
<1>6. Alloc' = Alloc
  BY <1>2, WrittenStays DEF Alloc
<1>7. Len(ws) = Len(vs)
  <2> DEFINE i == Code.n
             v == Last(TopFrame.operands)
  <2>1. vs \in Seq(Value)
    BY TopTypes
  <2> HIDE DEF vs, i, v
  <2>2. Len(Written(vs, i, v)) = Len(vs)
    BY <2>1, WrittenLength
  <2> QED BY <2>2 DEF Written, i, v
<1>8. Room(program, meant, Alloc)'
  <2> HIDE DEF o, ws
  <2> QED BY <1>2, <1>5, <1>6, <1>7, RoomStep
<1> QED
  BY <1>1, <1>2, <1>8

LEMMA InvokeArrayMethodFits ==
    ASSUME Roomy, WellTyped, Fits, InvokeArrayMethod
    PROVE  Roomy'
<1> USE DEF Roomy, IInv
<1> DEFINE proc == Fun(Called).proc
           this == Argument(WithThis(Called))[2]
           slot == sp - 1 - WithThis(Called)
           at   == array[this]
           done == ArrayProc(proc, at)
           its  == MeantNativeThis[2]
           says == MeantCall(proc, elements[its], MeantNumbers)
           r    == Result(proc, says.result)
           o    == Append(NativeRest, r)
           x    == Len(TopFrame.operands)
           y    == Len(o)
           c    == Count(program, func, pc + 1)
<1>1. IInv'
  BY InvokeArrayMethodKeeps
<1>2. ArrayMethod
  BY DEF InvokeArrayMethod, ArrayMethod
<1>3. its \in DOMAIN elements /\ this = its
  BY <1>2, ArgumentsFound
<1>4. Whole(at) /\ Elements(at) = elements[its]
  BY <1>3 DEF ArraysRight
<1>5. ~ResizesPast(proc, at)
  BY <1>2 DEF Fits, ResizeFits, ArrayMethod
<1>6. Means(done, says, proc)
  <2> HIDE DEF at, this, its
  <2>1. (ArrayProc(proc, at).overrun /\ ResizesPast(proc, at))
        \/ Means(ArrayProc(proc, at), MeantCall(proc, Elements(at), MeantNumbers), proc)
    BY <1>2, <1>4, ArrayProcIs
  <2> QED BY <1>4, <1>5, <2>1
<1>7. ~done.overrun /\ (done.raises => says.raises)
  BY <1>6 DEF Means
<1>8. ~(NativeSp > Alloc)
  <2>1. sp < Alloc /\ sp \in Nat /\ Alloc \in Nat
    BY RoomTop
  <2>2. CallInfoSize \in Nat /\ CallInfoSize <= 2
    BY StackAllocSizeAssumption DEF Fits, SmallFunctions
  <2>3. sp - 1 + CallInfoSize <= Alloc
    BY ONLY <2>1, <2>2
  <2> QED BY <2>1, <2>2, <2>3 DEF NativeSp
<1> DEFINE its1 == [i \in 1..MeantArity |->
                       TopFrame.operands[Len(TopFrame.operands) - 2 - MeantArity + i][2]]
<1>9. MeantNumbers = its1
  BY DEF MeantNumbers, MeantArgument
<1>10. CASE done.raises
  <2>1. Stops(IF says.raises THEN "exception" ELSE "wrong exception")
    BY <1>7, <1>8, <1>9, <1>10 DEF InvokeArrayMethod
  <2>2. Stops("exception")
    BY <1>7, <1>10, <2>1
  <2> QED BY <2>2, StopsFits
<1>11. CASE ~done.raises
  <2>1. /\ stack' = Written(NativeStack, slot, Result(proc, done.result))
        /\ meant' = MeantTop(o) /\ UNCHANGED <<program, outcome>>
    BY <1>7, <1>8, <1>9, <1>11 DEF InvokeArrayMethod
  <2>2. Alloc' = Alloc
    <3> DEFINE t == NativeStack
    <3>1. stack \in Seq(Slot) /\ t = WriteAll(stack, sp - 1, CallInfo(func, pc, base))
      BY DEF Types, Block, NativeStack
    <3>2. Len(t) = Alloc
      BY <3>1, WrittenStays
    <3>3. t \in Seq(Slot)
      BY <1>2, NativeBlock DEF ArrayMethod
    <3> HIDE DEF t
    <3>4. Len(Written(t, slot, Result(proc, done.result))) = Len(t)
      BY <3>3, WrittenLength
    <3> QED BY <2>1, <3>2, <3>4 DEF t, Alloc
  <2>3. y = x - 1 - MeantArity /\ MeantArity \in 0..(x - 2) /\ x \in Nat
    <3>1. /\ NativeRest \in Seq(Value) /\ Len(NativeRest) = x - 2 - MeantArity
          /\ MeantArity \in 0..(x - 2) /\ x \in Nat
      BY <1>2, ArgumentsFound
    <3>2. r \in Value
      BY <1>6 DEF Means
    <3>3. y = Len(NativeRest) + 1
      <4> HIDE DEF r
      <4> QED BY <3>1, <3>2, AppendIs
    <3> HIDE DEF x, y
    <3> QED BY <3>1, <3>3
  <2>4. x <= c /\ c \in Nat
    <3>1. pc \in Nat /\ func \in DOMAIN program /\ program \in Programs
      BY TopTypes, TopIs DEF Types
    <3> QED BY <3>1, RoomTop, CountIs
  <2>5. y \in Nat /\ y <= c
    <3> HIDE DEF x, y, c
    <3> QED BY <2>3, <2>4
  <2>6. Room(program, meant, Alloc)'
    <3>1. meant' = MeantNext(TopFrame.variables, o)
      BY <2>1 DEF MeantTop
    <3> HIDE DEF o
    <3> QED BY <2>1, <2>2, <2>5, <3>1, RoomStep
  <2> QED BY <1>1, <2>1, <2>6
<1> QED
  BY <1>10, <1>11


(* A return to the n-th frame below the top.                               *)
LEMMA RoomReturns ==
    ASSUME Roomy, NEW n, n \in 1..(Len(meant) - 1), NEW v, v \in Value,
           ~NativeIn(program, meant[Len(meant) - n]),
           meant' = MeantCaller(n, v), program' = program, Alloc' = Alloc
    PROVE  Room(program, meant, Alloc)'
<1> USE DEF Roomy, IInv
<1> DEFINE l == Len(meant)
           j == l - n
           m == Lower(meant, n)
           below == meant[j]
           o == Append(below.operands, v)
           frame == [below EXCEPT !.operands = o]
           i == 1
           u == Append(Lower(m, i), frame)
<1>1. /\ Sound(program, stack, meant) /\ l \in Nat \ {0} /\ n \in 1..(l - 1) /\ Alloc \in Nat
      /\ DOMAIN meant = 1..l
  BY TopTypes, TopIs DEF Types, Frames, Framed, Sound, Alloc
<1>2. /\ j \in 1..l /\ j \in 1..(l - 1) /\ j \in Nat \ {0} /\ i \in 1..j /\ j - i + 1 = j /\ j - i = j - 1
      /\ \A k \in 1..(j - 1) : k \in 1..j
  <2> HIDE DEF l
  <2> QED BY ONLY <1>1
<1>3. /\ Sound(program, stack, m) /\ Len(m) = j
      /\ \A k \in 1..j : m[k] = meant[k]
  <2>1. Sound(program, stack, meant) /\ n \in 1..(Len(meant) - 1)
    BY <1>1
  <2>2. /\ Sound(program, stack, Lower(meant, n)) /\ Len(Lower(meant, n)) = Len(meant) - n
        /\ \A k \in 1..(Len(meant) - n) : Lower(meant, n)[k] = meant[k]
    BY ONLY <2>1, FramesPopped
  <2> QED BY <2>2
<1>4. m \in Seq(FrameType) /\ m[j] = below /\ below \in FrameType
  <2>1. j \in DOMAIN meant
    <3> HIDE DEF l, j
    <3> QED BY ONLY <1>1, <1>2
  <2>2. below \in FrameType
    <3> HIDE DEF j
    <3> QED BY ONLY <1>1, <2>1 DEF Sound, Layout, Shaped
  <2>3. m \in Seq(FrameType)
    <3> HIDE DEF m
    <3> QED BY ONLY <1>3 DEF Sound, Layout
  <2>4. m[j] = below
    <3>1. \A k \in 1..j : m[k] = meant[k]
      BY ONLY <1>3
    <3>2. j \in 1..j
      BY ONLY <1>2
    <3> QED BY ONLY <3>1, <3>2
  <2> QED BY ONLY <2>2, <2>3, <2>4
<1>5. meant' = u
  <2>1. Last(m) = below
    BY <1>3, <1>4 DEF Last
  <2>2. MeantCaller(n, v) = Append(Lower(m, 1), [Last(m) EXCEPT !.operands = Append(@, v)])
    BY DEF MeantCaller
  <2> HIDE DEF m, below
  <2> QED BY <2>1, <2>2
<1>6. /\ frame.function = below.function /\ frame.first = below.first
      /\ frame.variables = below.variables /\ frame.operands = o /\ frame.pc = below.pc
      /\ below.operands \in Seq(Value)
  <2> HIDE DEF below, o
  <2> QED BY <1>4 DEF FrameType
<1> HIDE DEF frame, u, m
<1>7. Len(u) = j /\ u[j] = frame /\ \A k \in 1..(j - 1) : u[k] = meant[k]
  <2> HIDE DEF j
  <2>1. m \in Seq(FrameType) /\ i \in 1..Len(m)
    BY <1>2, <1>3, <1>4
  <2> HIDE DEF i
  <2>2. Upon(m, i, frame, Append(Lower(m, i), frame))
    BY ONLY <2>1, OnLower
  <2>3. /\ Len(u) = j - i + 1 /\ u[j - i + 1] = frame
        /\ \A k \in 1..(j - i) : u[k] = m[k]
    BY <1>3, <2>2 DEF Upon, u
  <2> QED BY <1>2, <1>3, <2>3
<1>8. ASSUME NEW k \in 1..(j - 1)
      PROVE  RoomFor(program, u[k], Alloc, 1)
  <2> DEFINE a == Alloc
  <2>1. /\ program \in Programs /\ Layout(program, meant) /\ Room(program, meant, a)
        /\ a \in Nat
    BY <1>1 DEF Sound
  <2>3. j \in 1..Len(meant)
    BY <1>2
  <2> HIDE DEF a, j
  <2>4. a <= a
    BY <2>1
  <2>2. RoomFor(program, meant[k], a, 1)
    BY <1>8, <2>1, <2>3, <2>4, RoomBelow
  <2> QED BY <1>7, <2>2 DEF a
<1>9. RoomFor(program, frame, Alloc, 0)
  <2>1. RoomFor(program, below, Alloc, 1)
    <3> HIDE DEF j
    <3> QED BY <1>2 DEF Room
  <2>2. ~NativeIn(program, below)
    OBVIOUS
  <2> HIDE DEF below, o
  <2>3. Len(o) + 0 = Len(below.operands) + 1
    <3>1. Len(o) = Len(below.operands) + 1 /\ Len(below.operands) \in Nat
      BY <1>6, AppendIs DEF o
    <3> QED BY <3>1
  <2>4. Floor(frame) = Floor(below)
    BY <1>6 DEF Floor, InfoSize
  <2> QED BY <1>6, <2>1, <2>2, <2>3, <2>4 DEF RoomFor
<1>10. Room(program, u, Alloc)
  <2> HIDE DEF j
  <2> QED BY <1>7, <1>8, <1>9 DEF Room
<1> QED
  BY <1>5, <1>10

LEMMA ReturnFits ==
    ASSUME Roomy, WellTyped, Return
    PROVE  Roomy'
<1> USE DEF Roomy, IInv
<1> DEFINE v == ReturnValue
           l == Len(meant)
           n == 1
<1>1. IInv'
  BY ReturnKeeps
<1>2. /\ l \in Nat /\ l > 1 /\ v = Last(TopFrame.operands) /\ v \in Value
      /\ LinkOf(program, ReturnInfo, meant[l - 1])
  BY ReturnIs DEF Return
<1>3. /\ stack' = Written(stack, base, v) /\ meant' = MeantCaller(n, v)
      /\ CallerAddress(ReturnInfo) # CallFromNative
      /\ UNCHANGED <<program, outcome>>
  BY <1>2 DEF Return
<1>4. ~NativeIn(program, meant[l - n])
  BY <1>2, <1>3 DEF LinkOf
<1>5. Alloc' = Alloc
  BY <1>3, WrittenStays DEF Alloc
<1>6. n \in 1..(l - 1)
  <2> HIDE DEF l
  <2> QED BY ONLY <1>2 DEF n
<1>7. Room(program, meant, Alloc)'
  <2> HIDE DEF n, v
  <2> QED BY <1>2, <1>3, <1>4, <1>5, <1>6, RoomReturns
<1> QED
  BY <1>1, <1>3, <1>7

LEMMA ReturnToNativeFits ==
    ASSUME Roomy, WellTyped, ReturnToNative
    PROVE  Roomy'
<1> USE DEF Roomy, IInv
<1>1. CASE Stops("moved")
  BY <1>1, StopsFits
<1> DEFINE u == Uninitialised
           l == Len(meant)
           n == 2
           slot == base - CallInfoSize - WithThis(Last(native).function)
           t == Written(stack, base, ReturnValue)
<1>2. ASSUME stack' = Written(t, slot, u), meant' = MeantCaller(n, u), UNCHANGED <<program, outcome>>
      PROVE  Roomy'
  <2>1. IInv'
    BY ReturnToNativeKeeps
  <2>2. /\ l \in Nat /\ l > 2 /\ ~NativeIn(program, meant[l - n])
        /\ u \in Value
    BY NativeBelow, Slots DEF ReturnToNative
  <2>3. Len(t) = Alloc /\ t \in Seq(Slot)
    <3> DEFINE w == ReturnValue
    <3>1. /\ base \in 0..(sp - 1) /\ sp \in 1..Len(stack) /\ w \in Slot
      BY ReturnIs, Slots DEF ReturnToNative
    <3>2. stack \in Seq(Slot) /\ Len(stack) \in Nat
      BY TopIs DEF Types, Block
    <3> HIDE DEF w
    <3>3. base \in 0..(Len(stack) - 1)
      BY <3>1, <3>2
    <3>4. Written(stack, base, w) \in Seq(Slot)
      BY <3>1, <3>2, <3>3, WrittenIs
    <3> QED BY <3>4, WrittenStays DEF w
  <2> HIDE DEF t, slot
  <2>4. Alloc' = Alloc
    <3>1. Len(Written(t, slot, u)) = Len(t)
      BY <2>3, WrittenLength
    <3> QED BY <1>2, <2>3, <3>1 DEF Alloc
  <2>5. n \in 1..(l - 1)
    <3> HIDE DEF l
    <3> QED BY ONLY <2>2 DEF n
  <2>6. Room(program, meant, Alloc)'
    <3> HIDE DEF n, u
    <3> QED BY <1>2, <2>2, <2>4, <2>5, RoomReturns
  <2> QED BY <1>2, <2>1, <2>6
<1> QED
  BY <1>1, <1>2 DEF ReturnToNative


LEMMA SameLength ==
    ASSUME NEW S, NEW s \in Seq(S), NEW t \in Seq(S), DOMAIN s = DOMAIN t
    PROVE  Len(s) = Len(t)
<1> DEFINE x == Len(s)
           y == Len(t)
<1>1. x \in Nat /\ y \in Nat /\ 1..x = 1..y
  OBVIOUS
<1> HIDE DEF x, y
<1>2. (x \in 1..y \/ x = 0) /\ (y \in 1..x \/ y = 0)
  <2>1. (x \in 1..x \/ x = 0) /\ (y \in 1..y \/ y = 0)
    BY <1>1
  <2> QED BY ONLY <1>1, <2>1
<1>3. x <= y /\ y <= x
  BY ONLY <1>1, <1>2
<1>4. x = y
  BY ONLY <1>1, <1>3
<1> QED
  BY <1>4 DEF x, y

(* dvm_expand_stack adds by the rest, and yet enough.                      *)
LEMMA ExpansionEnough ==
    ASSUME NEW l \in Nat, NEW c \in 0..l, NEW z \in Nat, NEW x \in Nat, NEW d \in Nat,
           z + x + d < StackAllocSize
    PROVE  /\ Expansion(l - c, z + x + d, x) \in Nat
           /\ c + z + x + d < l + Expansion(l - c, z + x + d, x)
<1> DEFINE a == StackAllocSize
           rest == l - c
           need == z + x + d
           k == rest \div a
           by == Expansion(rest, need, x)
<1>1. rest \in Nat /\ need \in Nat /\ a \in Nat \ {0} /\ need < a /\ c + rest = l /\ c \in Nat
      /\ l \in Nat /\ c + z + x + d = c + need
  BY StackAllocSizeAssumption
<1>2. k \in Nat
  <2> HIDE DEF a, rest
  <2> QED BY ONLY <1>1 DEF k
<1>3. by = IF rest <= need THEN (k + 1) * a ELSE 0
  BY DEF Expansion
<1> HIDE DEF a, rest, need, k, by
<1>4. CASE rest <= need
  <2>1. k * a \in Nat /\ (k + 1) * a = k * a + a
    BY ONLY <1>1, <1>2
  <2>2. by \in Nat /\ a <= by
    <3> DEFINE m == k * a
    <3>1. m \in Nat /\ by = m + a
      BY <1>3, <1>4, <2>1
    <3> HIDE DEF m
    <3> QED BY ONLY <1>1, <3>1
  <2>3. c + need < l + by
    BY ONLY <1>1, <2>2
  <2> QED BY <1>1, <2>2, <2>3 DEF by, rest, need
<1>5. CASE ~(rest <= need)
  <2>1. by = 0 /\ c + need < l + by
    BY <1>1, <1>3, <1>5
  <2> QED BY <1>1, <2>1 DEF by, rest, need
<1> QED
  BY <1>4, <1>5

LEMMA BelowRoom ==
    ASSUME Roomy, WellTyped, Invoking, NEW g \in Nat, Alloc <= g
    PROVE  /\ Below \in Seq(FrameType) /\ Len(Below) = Len(meant)
           /\ \A k \in 1..Len(meant) : RoomFor(program, Below[k], g, 1)
<1> USE DEF Roomy, IInv
<1> DEFINE l == Len(meant)
           r == MeantRest
           frame == Frame(TopFrame.function, TopFrame.first, TopFrame.variables, r, TopFrame.pc + 1)
           i == 1
           x == Len(TopFrame.operands)
           c == Count(program, func, pc + 1)
<1>1. /\ l \in Nat \ {0} /\ meant \in Seq(FrameType) /\ TopFrame \in FrameType
      /\ program \in Programs /\ Layout(program, meant) /\ Alloc \in Nat
      /\ func = TopFrame.function /\ pc = TopFrame.pc /\ func \in DOMAIN program /\ pc \in Nat
  BY TopTypes, TopIs DEF Types, Frames, Framed, Alloc
<1>2. i \in 1..l /\ l \in 1..l /\ l - i + 1 = l /\ l - i = l - 1
  <2> HIDE DEF l
  <2> QED BY ONLY <1>1 DEF i
<1>3. Below = Append(Lower(meant, i), frame)
  BY DEF Below, MeantTop, MeantNext
<1>4. r \in Seq(Value) /\ Len(r) = x - 1 - MeantArity /\ MeantArity \in 0..(x - 1) /\ x \in Nat
  BY ArgumentsAre, CallIs, TopTypes
<1>5. frame \in FrameType
  <2>1. /\ TopFrame.function \in Nat /\ TopFrame.first \in Nat /\ TopFrame.variables \in Seq(Value)
        /\ TopFrame.pc + 1 \in Nat \ {0}
    BY <1>1 DEF FrameType
  <2> HIDE DEF r
  <2> QED BY <1>4, <2>1 DEF FrameType, Frame
<1>6. /\ frame.function = func /\ frame.first = TopFrame.first
      /\ frame.variables = TopFrame.variables /\ frame.operands = r /\ frame.pc = pc + 1
  BY <1>1 DEF Frame
<1> HIDE DEF frame, r
<1>7. Upon(meant, i, frame, Below)
  <2> HIDE DEF i
  <2>1. meant \in Seq(FrameType) /\ i \in 1..Len(meant)
    BY <1>1, <1>2
  <2>2. Upon(meant, i, frame, Append(Lower(meant, i), frame))
    BY ONLY <2>1, OnLower
  <2> QED BY <1>3, <2>2
<1>8. Len(Below) = l /\ Below[l] = frame /\ \A k \in 1..(l - 1) : Below[k] = meant[k]
  BY <1>2, <1>7 DEF Upon
<1>9. Below \in Seq(FrameType)
  <2> DEFINE R == FrameType
  <2>1. meant \in Seq(R) /\ frame \in R
    BY <1>1, <1>5
  <2> HIDE DEF R
  <2>2. i \in 0..Len(meant)
    BY <1>2
  <2>3. Lower(meant, i) \in Seq(R)
    BY <2>1, <2>2, LowerIs DEF Lower
  <2> QED BY <1>3, <2>1, <2>3, AppendIs DEF R
<1>10. RoomFor(program, frame, g, 1)
  <2> DEFINE e == Floor(TopFrame)
             d == Need(program, func)
             y == Len(r)
             a == Alloc
  <2>1. e + d < a /\ x <= c
    BY RoomTop
  <2>2. e \in Nat /\ d \in Nat /\ c \in Nat /\ a \in Nat /\ a <= g
    BY <1>1, TopIs, CountIs
  <2>3. Floor(frame) = e
    BY <1>1, <1>6 DEF Floor, InfoSize
  <2>4. y = x - 1 - MeantArity
    BY <1>4
  <2> HIDE DEF e, d, a, x, y, c
  <2>5. e + d < g /\ y + 1 <= c
    BY <1>4, <2>1, <2>2, <2>4
  <2> QED BY <1>6, <2>3, <2>5 DEF RoomFor, e, d, y, c
<1>11. ASSUME NEW k \in 1..(l - 1)
       PROVE  RoomFor(program, Below[k], g, 1)
  <2> DEFINE a == Alloc
  <2>1. Room(program, meant, a) /\ a \in Nat /\ a <= g
    BY <1>1
  <2>2. l \in 1..Len(meant)
    BY <1>2
  <2> HIDE DEF a, l
  <2>3. RoomFor(program, meant[k], g, 1)
    BY <1>1, <1>11, <2>1, <2>2, RoomBelow
  <2> QED BY <1>8, <2>3
<1>12. \A k \in 1..l : k = l \/ k \in 1..(l - 1)
  <2> HIDE DEF l
  <2> QED BY ONLY <1>1
<1> QED
  BY <1>8, <1>9, <1>10, <1>11, <1>12


(* A function has begun, on top of the frame that waits for it.            *)
Entered(u, j, f, b, vs) ==
    /\ Len(u) = j /\ u[j] = Began(f, b, vs) /\ f \in DOMAIN program
    /\ \A k \in 1..Len(meant) : u[k] = Below[k]
    /\ \A k \in (Len(meant) + 1)..(j - 1) : NativeIn(program, u[k])

LEMMA RoomEntered ==
    ASSUME Roomy, IInv', WellTyped, Invoking, program' = program, Alloc <= Alloc',
           NEW j, j \in Nat, j > Len(meant), NEW f, NEW b, NEW vs, Entered(meant', j, f, b, vs),
           sp' + Need(program, f) < Alloc'
    PROVE  Room(program, meant, Alloc)'
<1> USE DEF Roomy, IInv
<1> DEFINE u == meant'
           g == Alloc'
           l == Len(meant)
           frame == u[j]
<1>1. g \in Nat /\ Layout(program, u) /\ program \in Programs /\ l \in Nat
  <2>1. Block(stack', pointer_flags', sp') /\ program' \in Programs
    BY DEF Types
  <2>2. g \in Nat
    BY <2>1 DEF Block, Alloc
  <2>3. Layout(program, u)
    BY DEF Frames, Framed
  <2>4. l \in Nat
    BY TopTypes
  <2> QED BY <2>1, <2>2, <2>3, <2>4
<1>2. sp' = End(frame)
  BY DEF Frames, Framed, Entered
<1>3. ASSUME NEW k \in 1..(j - 1)
      PROVE  RoomFor(program, u[k], g, 1)
  <2>1. CASE k <= l
    <3>1. k \in 1..l
      <4> HIDE DEF l
      <4> QED BY <1>1, <2>1
    <3>2. u[k] = Below[k]
      BY <3>1 DEF Entered
    <3>3. Alloc <= g
      OBVIOUS
    <3> HIDE DEF u, g
    <3>4. RoomFor(program, Below[k], g, 1)
      BY <1>1, <3>1, <3>3, BelowRoom
    <3> QED BY <3>2, <3>4
  <2>2. CASE ~(k <= l)
    <3>1. k \in (l + 1)..(j - 1)
      <4> HIDE DEF l
      <4> QED BY <1>1, <2>2
    <3> QED BY <3>1 DEF Entered, RoomFor
  <2> QED BY <2>1, <2>2
<1>4. RoomFor(program, frame, g, 0)
  <2>1. /\ frame.function = f /\ frame.operands = << >> /\ frame.pc = 1 /\ f \in DOMAIN program
    BY DEF Entered, Began, Frame
  <2>2. j \in DOMAIN u
    <3> DEFINE R == FrameType
    <3>1. u \in Seq(R) /\ Len(u) = j /\ j > 0
      BY <1>1 DEF Layout, Entered
    <3> HIDE DEF R, u
    <3> QED BY ONLY <3>1
  <2>3. Shaped(program, frame)
    BY <1>1, <2>2 DEF Layout
  <2> DEFINE e == Floor(frame)
             o == Len(frame.operands)
             i == 1
             c == Count(program, f, i)
  <2>4. o = 0
    BY <2>1
  <2>5. e \in Nat /\ End(frame) = e
    <3>1. /\ frame.first \in Nat /\ InfoSize(frame) \in Nat /\ Len(frame.variables) \in Nat
          /\ End(frame) = frame.first + InfoSize(frame) + Len(frame.variables) + o
      BY <1>1, <2>3, FrameIs
    <3> HIDE DEF frame
    <3>2. End(frame) = frame.first + InfoSize(frame) + Len(frame.variables)
      BY <2>4, <3>1
    <3> QED BY <3>1, <3>2 DEF Floor
  <2>6. c \in Nat
    <3>1. i \in Nat
      OBVIOUS
    <3> HIDE DEF i
    <3> QED BY <1>1, <2>1, <3>1, CountIs
  <2>7. e + Need(program, f) < g
    BY <1>2, <2>5
  <2>8. o + 0 <= c
    <3> HIDE DEF o, c
    <3> QED BY <2>4, <2>6
  <2> HIDE DEF frame, g
  <2> QED BY <2>1, <2>7, <2>8 DEF RoomFor
<1>5. Room(program, u, g)
  <2>1. Len(u) = j
    BY DEF Entered
  <2> QED BY <1>3, <1>4, <2>1 DEF Room
<1> QED
  BY <1>5

LEMMA InvokeDiksamFits ==
    ASSUME Roomy, WellTyped, Fits, InvokeDiksam
    PROVE  Roomy'
<1> USE DEF Roomy, IInv
<1> DEFINE f == MeantCallee
           locals == Len(Fun(Called).locals)
           need == calc_need_stack_size(Called)
           by == Expansion(Alloc - CalledSp, CallInfoSize + locals + need, locals)
           grown == Grown(CalledStack, by, Uninitialised)
           first == CalledSp + CallInfoSize - 1
           z == CallInfoSize
           l == Len(meant)
           a == Alloc
           b == End(Last(Below))
           frame == Began(f, b, MeantVariables)
<1>1. IInv'
  BY InvokeDiksamKeeps
<1>2. /\ Invoking /\ Fun(Called).kind = "diksam" /\ Called = f /\ f \in DOMAIN program \ {Top}
      /\ program \in Programs
  BY CallIs DEF InvokeDiksam, Types
<1>3. need = Need(program, f)
  BY <1>2 DEF calc_need_stack_size, Need, Fun
<1>4. /\ z \in Nat \ {0} /\ locals \in Nat /\ need \in Nat /\ z + locals + need < StackAllocSize
  <2>1. 0 \in Nat
    OBVIOUS
  <2>2. need \in Nat /\ locals \in Nat
    BY <1>2, <1>3, <2>1, CountIs, ProgramIs DEF Fun
  <2>3. z + locals + need < StackAllocSize
    BY <1>2, <1>3 DEF Fits, SmallFunctions, Fun
  <2> QED BY <2>2, <2>3, StackAllocSizeAssumption
<1>5. CalledSp \in 0..a /\ a \in Nat
  <2>1. Len(MeantThis) \in {0, 1} /\ CalledSp = sp + Len(MeantThis)
    BY <1>2, CalledBlock
  <2>2. sp < a /\ sp \in Nat /\ a \in Nat
    BY RoomTop
  <2> DEFINE c == CalledSp
             k == Len(MeantThis)
  <2>3. k \in {0, 1} /\ c = sp + k
    BY <2>1
  <2> HIDE DEF a, c, k
  <2>4. c \in 0..a
    BY ONLY <2>2, <2>3
  <2> QED BY <2>2, <2>4 DEF c
<1>6. by \in Nat /\ CalledSp + z + locals + need < a + by
  <2> DEFINE c == CalledSp
             x == locals
             d == need
  <2>1. c \in 0..a /\ a \in Nat /\ z \in Nat /\ x \in Nat /\ d \in Nat /\ z + x + d < StackAllocSize
    BY <1>4, <1>5
  <2>2. by = Expansion(a - c, z + x + d, x)
    OBVIOUS
  <2> HIDE DEF a, c, z, x, d, by
  <2>3. /\ Expansion(a - c, z + x + d, x) \in Nat
        /\ c + z + x + d < a + Expansion(a - c, z + x + d, x)
    BY ONLY <2>1, ExpansionEnough
  <2>4. by \in Nat /\ c + z + x + d < a + by
    BY <2>2, <2>3
  <2> QED BY <2>4 DEF c, x, d
<1>7. grown \in Seq(Slot) /\ Len(grown) = a + by
  <2>1. CalledStack \in Seq(Slot) /\ Len(CalledStack) = a
    BY <1>2, CalledBlock DEF Block, Alloc
  <2>2. Uninitialised \in Slot /\ by \in Int
    BY <1>6, Slots
  <2> HIDE DEF by, a
  <2>3. grown \in Seq(Slot) /\ Len(grown) = a + (IF by > 0 THEN by ELSE 0)
    BY <2>1, <2>2, GrownIs
  <2> QED BY <1>5, <1>6, <2>3
<1>8. /\ first + locals + need < a + by /\ ~(first + locals > a + by) /\ a <= a + by
      /\ first + locals \in Int
  <2> DEFINE c == CalledSp
             x == locals
             d == need
             q == first
  <2>3. q = c + z - 1
    OBVIOUS
  <2> HIDE DEF q
  <2>1. /\ c \in Nat /\ z \in Nat \ {0} /\ x \in Nat /\ d \in Nat /\ by \in Nat /\ a \in Nat
        /\ c + z + x + d < a + by /\ q = c + z - 1
    <3> HIDE DEF a, by, z
    <3>1. c \in Nat /\ a \in Nat
      BY <1>5
    <3> QED BY <1>4, <1>6, <2>3, <3>1
  <2> HIDE DEF a, c, z, x, d, by
  <2>2. q + x + d < a + by /\ ~(q + x > a + by) /\ a <= a + by /\ q + x \in Int
    BY ONLY <2>1
  <2> QED BY <2>2 DEF x, d, q
<1>9. /\ stack' = WriteAll(WriteAll(grown, CalledSp - 1, CallInfo(func, pc, base)),
                           first, Initial(Called))
      /\ sp' = first + locals /\ meant' = Append(Below, frame) /\ UNCHANGED <<program, outcome>>
  <2>1. ~(first + locals > Len(grown))
    <3> HIDE DEF by, grown, locals, a
    <3> QED BY <1>7, <1>8
  <2> QED BY <2>1 DEF InvokeDiksam
<1>10. Alloc' = a + by
  <2>1. stack' \in Seq(Slot)
    BY <1>1 DEF Types, Block
  <2>2. DOMAIN stack' = DOMAIN grown
    BY <1>9 DEF WriteAll
  <2>3. Len(stack') = Len(grown)
    <3> HIDE DEF grown
    <3> QED BY <1>7, <2>1, <2>2, SameLength
  <2> QED BY <1>7, <2>3 DEF Alloc
<1> DEFINE j == l + 1
<1>11. l \in Nat /\ j \in Nat /\ j > l
  <2>1. l \in Nat
    BY TopTypes
  <2> HIDE DEF l
  <2> QED BY <2>1
<1>12. Entered(meant', j, f, b, MeantVariables)
  <2> DEFINE R == FrameType \cup {frame}
             u == Append(Below, frame)
  <2>1. Below \in Seq(FrameType) /\ Len(Below) = l
    <3>1. a \in Nat /\ a <= a
      <4> HIDE DEF a
      <4> QED BY <1>5
    <3> QED BY <1>2, <3>1, BelowRoom
  <2>2. Below \in Seq(R) /\ frame \in R
    <3> HIDE DEF FrameType
    <3> QED BY <2>1
  <2> HIDE DEF R, frame
  <2>3. /\ Len(u) = Len(Below) + 1
        /\ \A k \in 1..(Len(Below) + 1) : u[k] = IF k <= Len(Below) THEN Below[k] ELSE frame
    BY <2>2, AppendIs
  <2> HIDE DEF u, l
  <2>4. Len(u) = j /\ u[j] = frame /\ \A k \in 1..l : u[k] = Below[k]
    BY <1>11, <2>1, <2>3
  <2>5. ~\E k \in (l + 1)..(j - 1) : TRUE
    BY <1>11
  <2>6. meant' = u
    BY <1>9 DEF u
  <2> QED BY <1>2, <2>4, <2>5, <2>6 DEF Entered, frame, l
<1>13. Room(program, meant, Alloc)'
  <2>1. sp' + Need(program, f) < Alloc' /\ a <= Alloc'
    BY <1>3, <1>8, <1>9, <1>10
  <2> HIDE DEF j, f, b
  <2> QED BY <1>1, <1>2, <1>9, <1>11, <1>12, <2>1, RoomEntered
<1> QED
  BY <1>1, <1>9, <1>13


(* Where the called back function has its call information.                *)
LEMMA FirstIs ==
    ASSUME IInv, WellTyped, Invoking, Fun(Called).kind = "native", ~Fun(Called).method
    PROVE  LET d == Argument(1)
               f == Callee(d)
           IN  NativeSp + Len(<<IntValue(13)>> \o This(d)) + CallInfoSize
                   + Len(Fun(f).locals) + calc_need_stack_size(f) \in Int
<1> USE DEF IInv
<1> DEFINE d == Argument(1)
           f == Callee(d)
           one == <<IntValue(13)>>
           k == Len(one \o This(d))
           x == Len(Fun(f).locals)
           n == calc_need_stack_size(f)
           s == NativeSp
           z == CallInfoSize
<1>1. f \in DOMAIN program /\ This(d) \in Seq(Value) /\ program \in Programs
  BY CalledBackIs DEF Types
<1>2. k \in Nat
  <2>1. IntValue(13) \in Value
    BY Values DEF IntValue, Type
  <2>2. one \in Seq(Value)
    <3> HIDE DEF Value
    <3> QED BY <2>1
  <2> HIDE DEF d, one
  <2>3. one \o This(d) \in Seq(Value)
    BY <1>1, <2>2, ConcatIs
  <2> DEFINE t == one \o This(d)
             R == Value
  <2>4. t \in Seq(R)
    BY <2>3
  <2> HIDE DEF t, R
  <2>5. Len(t) \in Nat
    BY ONLY <2>4
  <2> QED BY <2>5 DEF t
<1>3. x \in Nat /\ n \in Nat
  BY <1>1, NeedIs, ProgramIs DEF Fun
<1>4. s \in Int /\ z \in Nat
  <2>1. sp \in Nat /\ CallInfoSize \in Nat
    BY TopIs, StackAllocSizeAssumption
  <2>2. sp - 1 + CallInfoSize \in Int
    BY <2>1
  <2> QED BY <2>1, <2>2 DEF NativeSp
<1> HIDE DEF k, x, n, s, z
<1>5. s + k + z + x + n \in Int
  BY <1>2, <1>3, <1>4
<1> QED
  BY <1>5 DEF k, x, n, s, z


LEMMA CallBackStays ==
    ASSUME Roomy, WellTyped, Fits, CallBack
    PROVE  Roomy'
<1> USE DEF Roomy, IInv
<1> DEFINE d == Argument(1)
           f == Callee(d)
           pushed == <<IntValue(13)>> \o This(d)
           first == NativeSp + Len(pushed) + CallInfoSize
           locals == Len(Fun(f).locals)
           args == WriteAll(NativeStack, NativeSp, pushed)
           l == Len(meant)
           its == Callee(MeantArguments[1])
           caller == Began(MeantCallee, End(Last(Below)), MeantArguments)
           b == End(caller)
           vs == <<IntValue(13)>> \o This(MeantArguments[1]) \o Initial(its)
           frame == Began(its, b, vs)
<1>1. IInv'
  BY CallBackKeeps
<1>2. /\ Invoking /\ Fun(Called).kind = "native" /\ ~Fun(Called).method /\ Called = MeantCallee
      /\ program \in Programs
  BY CallIs DEF CallBack, Types
<1>3. first + locals + calc_need_stack_size(f) < Alloc
  BY <1>2 DEF Fits, CallBackFits
<1>4. CASE Stops("no room")
  BY <1>4, StopsFits
<1>5. ASSUME stack' = WriteAll(WriteAll(args, first - CallInfoSize, CallInfo(Called, CallFromNative, 0)),
                               first, Initial(f)),
             sp' = first + locals,
             meant' = Below \o <<caller, frame>>,
             UNCHANGED <<program, outcome>>
      PROVE  Roomy'
  <2>1. its = f /\ f \in DOMAIN program
    BY <1>2, CalledBackIs
  <2>2. Alloc' = Alloc
    <3>1. stack' \in Seq(Slot) /\ stack \in Seq(Slot)
      BY <1>1 DEF Types, Block
    <3>2. DOMAIN stack' = DOMAIN stack
      BY <1>5 DEF WriteAll, NativeStack
    <3> QED BY <3>1, <3>2, SameLength DEF Alloc
  <2> DEFINE j == l + 2
             a == Alloc
  <2>3. l \in Nat /\ j \in Nat /\ j > l /\ a \in Nat /\ a <= a
    <3>1. l \in Nat /\ a \in Nat
      BY TopTypes, RoomTop
    <3> HIDE DEF l, a
    <3> QED BY <3>1
  <2>4. Below \in Seq(FrameType) /\ Len(Below) = l
    BY <1>2, <2>3, BelowRoom
  <2>5. NativeIn(program, caller)
    BY <1>2 DEF NativeIn, Began, Frame, Fun
  <2>6. Entered(meant', j, its, b, vs)
    <3> DEFINE R == FrameType \cup {caller, frame}
               two == <<caller, frame>>
               u == Below \o two
    <3>1. Below \in Seq(R) /\ two \in Seq(R)
      <4> HIDE DEF FrameType, caller, frame
      <4> QED BY <2>4
    <3>2. Len(two) = 2 /\ two[1] = caller /\ two[2] = frame
      OBVIOUS
    <3> HIDE DEF R, frame, caller, two
    <3>3. /\ Len(u) = Len(Below) + Len(two)
          /\ \A k \in 1..(Len(Below) + Len(two)) :
                u[k] = IF k <= Len(Below) THEN Below[k] ELSE two[k - Len(Below)]
      BY <3>1, ConcatIs
    <3> HIDE DEF u, l
    <3>4. Len(u) = j /\ \A k \in 1..j : u[k] = IF k <= l THEN Below[k] ELSE two[k - l]
      BY <2>4, <3>2, <3>3
    <3>5. /\ j \in 1..j /\ ~(j <= l) /\ j - l = 2 /\ l + 1 \in 1..j /\ ~(l + 1 <= l) /\ l + 1 - l = 1
          /\ \A k \in 1..l : k \in 1..j /\ k <= l
          /\ \A k \in (l + 1)..(j - 1) : k = l + 1
      BY <2>3
    <3>6. u[j] = frame /\ u[l + 1] = caller /\ \A k \in 1..l : u[k] = Below[k]
      <4> HIDE DEF j
      <4>1. u[j] = frame
        BY <3>2, <3>4, <3>5
      <4> DEFINE i == l + 1
      <4>2. i \in 1..j /\ ~(i <= l) /\ i - l = 1
        BY <2>3 DEF j
      <4> HIDE DEF i
      <4>3. u[i] = caller
        BY <3>2, <3>4, <4>2
      <4>4. \A k \in 1..l : u[k] = Below[k]
        BY <3>4, <3>5
      <4> QED BY <4>1, <4>3, <4>4 DEF i
    <3>7. meant' = u
      BY <1>5 DEF u, two
    <3> HIDE DEF j, vs, its, b
    <3> QED BY <2>1, <2>5, <3>4, <3>5, <3>6, <3>7 DEF Entered, frame, l
  <2>7. sp' + Need(program, its) < Alloc'
    <3>1. calc_need_stack_size(f) = Need(program, f)
      BY DEF calc_need_stack_size, Need, Fun
    <3> QED BY <1>3, <1>5, <2>1, <2>2, <3>1
  <2>8. Room(program, meant, Alloc)'
    <3>1. Alloc <= Alloc' /\ j \in Nat /\ j > Len(meant) /\ program' = program
      BY <1>5, <2>2, <2>3
    <3> HIDE DEF j, its, b, vs
    <3> QED BY <1>1, <1>2, <2>6, <2>7, <3>1, RoomEntered
  <2> QED BY <1>1, <1>5, <2>8
<1> QED
  <2>1. ~(first + locals + calc_need_stack_size(f) > Alloc)
    <3> DEFINE x == first + locals + calc_need_stack_size(f)
               a == Alloc
    <3>1. x < a
      BY <1>3
    <3>2. a \in Nat /\ x \in Int
      BY RoomTop, <1>2, FirstIs
    <3> HIDE DEF x, a
    <3>3. ~(x > a)
      BY ONLY <3>1, <3>2
    <3> QED BY <3>3 DEF x, a
  <2> QED BY <1>4, <1>5, <2>1 DEF CallBack

LEMMA RoomBegins == Init /\ Fits => Roomy
<1> SUFFICES ASSUME Init, Fits PROVE Roomy
  OBVIOUS
<1> DEFINE frame == Began(Top, 0, << >>)
           need == calc_need_stack_size(Top)
           a == StackAllocSize
           by == a + Expansion(a, need, 0)
<1>1. IInv
  BY Begin
<1>2. meant = <<frame>> /\ program \in Programs /\ outcome = "running"
      /\ stack = Grown(<< >>, by, Uninitialised)
  BY DEF Init
<1>3. /\ Top \in DOMAIN program /\ need = Need(program, Top)
      /\ need \in Nat /\ Count(program, Top, 1) \in Nat
  <2> DEFINE i == 1
  <2>1. i \in Nat
    OBVIOUS
  <2>2. Top \in DOMAIN program
    BY <1>2, ProgramsAssumption DEF Top
  <2> HIDE DEF i
  <2>3. Need(program, Top) \in Nat /\ Count(program, Top, i) \in Nat
    BY <1>2, <2>1, <2>2, CountIs
  <2> QED BY <2>2, <2>3 DEF i, calc_need_stack_size, Need, Fun
<1>4. need < a
  <2> DEFINE x == Len(program[Top].locals)
             z == CallInfoSize
  <2>1. x \in Nat /\ z \in Nat
    BY <1>2, <1>3, ProgramIs, StackAllocSizeAssumption
  <2>2. z + x + need < a
    BY <1>3 DEF Fits, SmallFunctions
  <2>3. a \in Nat
    BY StackAllocSizeAssumption
  <2> HIDE DEF x, z, need, a
  <2> QED BY <1>3, <2>1, <2>2, <2>3
<1>5. Alloc = a
  <2>1. by = a
    <3>1. a \in Nat
      BY StackAllocSizeAssumption
    <3> HIDE DEF a, need
    <3> QED BY <1>3, <1>4, <3>1 DEF Expansion
  <2>2. a \in Nat \ {0}
    BY StackAllocSizeAssumption
  <2> DEFINE none == << >>
  <2>3. none \in Seq(Slot) /\ Uninitialised \in Slot /\ Len(none) = 0
    BY Slots
  <2> HIDE DEF none, a, by
  <2>6. by \in Int
    BY <2>1, <2>2
  <2>4. Len(Grown(none, by, Uninitialised)) = Len(none) + (IF by > 0 THEN by ELSE 0)
    BY <2>3, <2>6, GrownIs
  <2>5. Len(none) + (IF by > 0 THEN by ELSE 0) = a
    BY <2>1, <2>2, <2>3
  <2> QED BY <1>2, <2>4, <2>5 DEF Alloc, none
<1>6. RoomFor(program, frame, Alloc, 0)
  <2>1. /\ frame.function = Top /\ frame.first = 0 /\ frame.variables = << >>
        /\ frame.operands = << >> /\ frame.pc = 1
    BY DEF Began, Frame
  <2> HIDE DEF frame
  <2>2. Floor(frame) = 0
    BY <2>1 DEF Floor, InfoSize
  <2>3. Floor(frame) + Need(program, Top) < Alloc
    <3> HIDE DEF need, a
    <3> QED BY <1>3, <1>4, <1>5, <2>2
  <2>4. Len(frame.operands) + 0 <= Count(program, Top, 1)
    <3> DEFINE c == Count(program, Top, 1)
               o == Len(frame.operands)
    <3>1. c \in Nat /\ o = 0
      BY <1>3, <2>1
    <3> HIDE DEF c, o
    <3>2. o + 0 <= c
      BY <3>1
    <3> QED BY <3>2 DEF c, o
  <2> QED BY <2>1, <2>3, <2>4 DEF RoomFor
<1>7. Room(program, meant, Alloc)
  <2>1. Len(meant) = 1 /\ meant[1] = frame
    BY <1>2
  <2> HIDE DEF frame
  <2>2. ~\E k \in 1..(Len(meant) - 1) : TRUE
    BY <2>1
  <2> QED BY <1>6, <2>1, <2>2 DEF Room
<1> QED
  BY <1>1, <1>2, <1>7 DEF Roomy

LEMMA RoomKept == Roomy /\ WellTyped /\ Fits /\ [Next]_vars => Roomy'
<1> SUFFICES ASSUME Roomy, WellTyped, Fits, [Next]_vars PROVE Roomy'
  OBVIOUS
<1>1. CASE Push
  BY <1>1, PushFits
<1>2. CASE Store
  BY <1>2, StoreFits
<1>3. CASE Pop
  BY <1>3, PopFits
<1>4. CASE InvokeDiksam
  BY <1>4, InvokeDiksamFits
<1>5. CASE Return
  BY <1>5, ReturnFits
<1>6. CASE InvokeArrayMethod
  BY <1>6, InvokeArrayMethodFits
<1>7. CASE CallBack
  BY <1>7, CallBackStays
<1>8. CASE ReturnToNative
  BY <1>8, ReturnToNativeFits
<1>9. CASE Finish
  <2>1. Stops("done")
    BY <1>9 DEF Finish, Stops
  <2> QED BY <2>1, StopsFits
<1>10. CASE UNCHANGED vars
  <2>1. IInv'
    BY <1>10 DEF Roomy, IInv, Types, Frames, ArraysRight, vars, machine
  <2> QED BY <1>10, <2>1 DEF Roomy, Room, RoomFor, NativeIn, Alloc, vars, machine
<1> QED
  BY <1>1, <1>2, <1>3, <1>4, <1>5, <1>6, <1>7, <1>8, <1>9, <1>10 DEF Next

LEMMA NoOverrun == Roomy => NeverOverrun
  BY FlagsAre DEF Roomy, NeverOverrun

(* The expansion at a call is enough, however deep the calls: what is      *)
(* added goes by what is left and not by what is needed, but no function   *)
(* needs as much as is added at least.                                     *)
THEOREM CallFits == Spec /\ []WellTyped /\ []Fits => []NeverOverrun
<1>1. Init /\ Fits => Roomy
  BY RoomBegins
<1>2. Roomy /\ WellTyped /\ Fits /\ [Next]_vars => Roomy'
  BY RoomKept
<1> QED
  BY <1>1, <1>2, NoOverrun, PTL DEF Spec
=============================================================================
