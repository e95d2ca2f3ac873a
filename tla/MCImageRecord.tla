--------------------------- MODULE MCImageRecord ----------------------------
(* ImageRecord with interchangeable workers. *)
EXTENDS ImageRecord, TLC

Symmetry == Permutations(Workers)
=============================================================================
