--------------------------- MODULE MCTestDatabase ---------------------------
(* Instances of TestDatabase for TLC.  The vanilla source has no migrations of its own,
   the project adds one, and the upgraded source is a vanilla one on the next platform. *)
EXTENDS TestDatabase

CONSTANTS vanilla, project, upgraded, main, branch

MCPlatform == [s \in Sources |-> IF s = upgraded THEN "v6.1" ELSE "v6.0"]
MCVanilla == [p \in {"v6.0", "v6.1"} |-> IF p = "v6.0" THEN {"core"} ELSE {"core", "core61"}]
MCOwn == [s \in Sources |-> IF s = project THEN {"own"} ELSE {}]
NoExtra == [s \in Sources |-> {}]
VendorExtra == [s \in Sources |-> {"vendor"}]
=============================================================================
