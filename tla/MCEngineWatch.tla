--------------------------- MODULE MCEngineWatch ---------------------------
(* Instances of EngineWatch for TLC: the first commands of the QA and of the test step, which
   are the same. *)
EXTENDS EngineWatch

CONSTANTS qa, test
MCPrevious == [c \in Commands |-> NoCommand]
MCMatching == [c \in Commands |-> Commands]
MCNLines == [c \in Commands |-> IF c = qa THEN 2 ELSE 0]
=============================================================================
