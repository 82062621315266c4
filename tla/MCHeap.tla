------------------------------- MODULE MCHeap -------------------------------
(* Model-checking instances of Heap. *)
EXTENDS Heap, TLC

(* The addresses are interchangeable. *)
Symmetry == Permutations(Obj)
=============================================================================
