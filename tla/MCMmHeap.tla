------------------------------ MODULE MCMmHeap ------------------------------
(* Two regions, as on the board: one in which an aligned block fits behind *)
(* another one, one of two small chunks.                                   *)
EXTENDS MmHeap, TLC

MCRegions == {[base |-> 16, size |-> 128], [base |-> 160, size |-> 48]}
MCSizes == {8, 9, 40}
MCAlignments == {32}
Symmetry == Permutations(Threads)
=============================================================================
