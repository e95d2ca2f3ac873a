---------------------------- MODULE MCFaissOutbox ---------------------------
(* The instance of FaissHealth, and FaissOutbox with it, of two reapers.   *)
EXTENDS FaissHealth, TLC

(* Faces are interchangeable, and so are reapers.                          *)
Symmetry == Permutations(Face) \union Permutations(Callers)
=============================================================================
