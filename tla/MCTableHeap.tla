----------------------------- MODULE MCTableHeap -----------------------------
(* Instances of the table heap for TLC.  Tuple contents are interchangeable. *)
EXTENDS TableHeap, TLC

DataSymmetry == Permutations(Data)
=============================================================================
