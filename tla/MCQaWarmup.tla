---------------------------- MODULE MCQaWarmup ----------------------------
(* Instances of QaWarmup for TLC: a commit, one that adds a migration, and one that
   replaced it. *)
EXTENDS QaWarmup

CONSTANTS first, second, third
MCNeeds == [s \in Sources |-> CASE s = first -> {"core"} [] s = second -> {"core", "a"}
                                [] s = third -> {"core", "b"}]
=============================================================================
