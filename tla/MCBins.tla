------------------------------ MODULE MCBins ------------------------------
(* The chunks' names are interchangeable: no operator chooses among them.  *)
EXTENDS Bins, TLC

Symmetry == Permutations(Chunk)
===========================================================================
