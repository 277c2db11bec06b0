--------------------------- MODULE MCDatabaseOps ---------------------------
(* Backups, restores and inits of two terminals on one development stack.   *)
EXTENDS DatabaseOps, TLC

Symmetry == Permutations(Terminals) \cup Permutations(Datas) \cup Permutations(Kernels)
=============================================================================
