--------------------------- MODULE MCNmeaPipeline ---------------------------
(* NmeaPipeline with one phone more than the table has slots and buffers   *)
(* small enough to overflow within the sentences of two passes.            *)
EXTENDS NmeaPipeline, TLC

Symmetry == Permutations(Phones)
=============================================================================
