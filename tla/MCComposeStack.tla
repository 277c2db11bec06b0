--------------------------- MODULE MCComposeStack ---------------------------
(* Commands of two terminals against the developer's edits.                 *)
EXTENDS ComposeStack, TLC

Symmetry == Permutations(Terminals) \cup Permutations(Domains) \cup Permutations(Inis)
=============================================================================
