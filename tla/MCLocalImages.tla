--------------------------- MODULE MCLocalImages ---------------------------
(* Two terminals update and build while releases, images and edits come.    *)
EXTENDS LocalImages, TLC

Symmetry == Permutations(Terminals)
=============================================================================
