------------------------------ MODULE VMArray ------------------------------
(***************************************************************************)
(* The methods of arrays (nativeif.c, native.c): resize, insert, remove    *)
(* and add over a block of memory that is larger than the array.           *)
(*                                                                         *)
(* An array is [cells, size, charged]: the cells of its block, of which    *)
(* the first size are elements, and what current_heap_size holds for it,   *)
(* in elements.  A call returns [array, result, raises], or [overrun] when *)
(* it moves memory past the end of the block.                              *)
(***************************************************************************)
EXTENDS Integers, Sequences, SequencesExt

CONSTANT ArrayAllocSize         \* ARRAY_ALLOC_SIZE
ASSUME ArrayAllocSizeAssumption == ArrayAllocSize \in Nat \ {0}

Garbage == -1                   \* what realloc leaves in new memory

Allocated(array) == Len(array.cells)

NewArray(elements) ==
    [cells |-> elements, size |-> Len(elements), charged |-> Len(elements)]

-----------------------------------------------------------------------------
(* Faulty variant: the new block is measured by the old size.              *)
NewAllocSizeOfSize(alloc_size, new_size) ==
    IF new_size > alloc_size THEN new_size + ArrayAllocSize
    ELSE IF alloc_size - new_size > ArrayAllocSize THEN new_size + 2 * ArrayAllocSize
    ELSE alloc_size

NewAllocSize(alloc_size, new_size) ==
    CASE new_size > alloc_size ->
           (CASE 2 * alloc_size < new_size -> new_size + ArrayAllocSize
              [] 2 * alloc_size >= new_size /\ alloc_size > ArrayAllocSize ->
                   alloc_size + ArrayAllocSize
              [] OTHER -> 2 * alloc_size)
      [] new_size <= alloc_size /\ alloc_size - new_size > ArrayAllocSize -> new_size
      [] OTHER -> alloc_size

(* resize_array: the block, not the size.                                  *)
resize_array(array, new_size) ==
    LET new_alloc == NewAllocSize(Allocated(array), new_size)
    IN  [array EXCEPT
            !.cells = [i \in 1..new_alloc |-> IF i <= Allocated(array) THEN @[i] ELSE Garbage],
            !.charged = @ + new_alloc - Allocated(array)]

Elements(array) == SubSeq(array.cells, 1, array.size)

Done(array, result) == [array |-> array, result |-> result, raises |-> FALSE, overrun |-> FALSE]
Raises(array)  == [array |-> array, result |-> Garbage, raises |-> TRUE, overrun |-> FALSE]
Overruns(array) == [array |-> array, result |-> Garbage, raises |-> FALSE, overrun |-> TRUE]

DVM_array_resize(array, new_size) ==
    LET resized == resize_array(array, new_size)
    IN  IF new_size > Allocated(resized) THEN Overruns(array)
        ELSE Done([resized EXCEPT !.size = new_size,
                      !.cells = [i \in DOMAIN @ |->
                                    IF i \in array.size + 1 .. new_size THEN 0 ELSE @[i]]],
                  Garbage)

(* Faulty variant: memmove starts one element too far.                     *)
InsertMovesLess(array, pos, value) ==
    LET resized == resize_array(array, array.size + 1)
    IN  Done([resized EXCEPT !.size = @ + 1,
                 !.cells = [i \in DOMAIN @ |->
                               CASE i = pos + 1 -> value
                                 [] i \in pos + 3 .. array.size + 1 -> @[i - 1]
                                 [] OTHER -> @[i]]],
             Garbage)

(* memmove of the elements from pos on, then the value; pos counts from 0. *)
DVM_array_insert(array, pos, value) ==
    LET resized == resize_array(array, array.size + 1)
    IN  IF array.size + 1 > Allocated(resized) THEN Overruns(array)
        ELSE Done([resized EXCEPT !.size = @ + 1,
                      !.cells = [i \in DOMAIN @ |->
                                    CASE i = pos + 1 -> value
                                      [] i \in pos + 2 .. array.size + 1 -> @[i - 1]
                                      [] OTHER -> @[i]]],
                  Garbage)

DVM_array_remove(array, pos) ==
    LET moved == [array EXCEPT !.cells =
                     [i \in DOMAIN @ |-> IF i \in pos + 1 .. array.size - 1 THEN @[i + 1] ELSE @[i]]]
        resized == resize_array(moved, array.size - 1)
    IN  Done([resized EXCEPT !.size = @ - 1], Garbage)

-----------------------------------------------------------------------------
(* The native functions; their arguments come in order, this is last.      *)
nv_array_size_proc(array)             == Done(array, array.size)
nv_array_resize_proc(array, new_size) == DVM_array_resize(array, new_size)
nv_array_insert_proc(array, pos, value) ==
    IF pos < 0 \/ pos > array.size THEN Raises(array) ELSE DVM_array_insert(array, pos, value)
nv_array_remove_proc(array, pos) ==
    IF pos < 0 \/ pos >= array.size THEN Raises(array) ELSE DVM_array_remove(array, pos)
nv_array_add_proc(array, value)  == DVM_array_insert(array, array.size, value)

(* What the methods mean for the sequence of the elements.                 *)
Meant(elements, result) == [elements |-> elements, result |-> result, raises |-> FALSE]
MeantRaise(elements)    == [elements |-> elements, result |-> Garbage, raises |-> TRUE]
MeantCall(proc, elements, arguments) ==
    CASE proc = "size" -> Meant(elements, Len(elements))
      [] proc = "resize" ->
           Meant([i \in 1..arguments[1] |-> IF i <= Len(elements) THEN elements[i] ELSE 0], Garbage)
      [] proc = "insert" ->
           (IF arguments[1] \in 0..Len(elements)
            THEN Meant(InsertAt(elements, arguments[1] + 1, arguments[2]), Garbage)
            ELSE MeantRaise(elements))
      [] proc = "remove" ->
           (IF arguments[1] \in 0..Len(elements) - 1
            THEN Meant(RemoveAt(elements, arguments[1] + 1), Garbage)
            ELSE MeantRaise(elements))
      [] proc = "add" -> Meant(Append(elements, arguments[1]), Garbage)
=============================================================================
