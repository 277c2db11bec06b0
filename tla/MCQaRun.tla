------------------------------ MODULE MCQaRun ------------------------------
(* Sequences of these commands on one checkout, and edits between and       *)
(* during them.                                                             *)
EXTENDS QaRun

Qa == [kind |-> "qa", engine |-> "compose", agent |-> FALSE, report |-> FALSE, staged |-> FALSE,
       baseline |-> FALSE, suites |-> FALSE, want |-> {"rector", "eslint"}]
Baseline == [Qa EXCEPT !.baseline = TRUE, !.want = {}]
Hook == [Qa EXCEPT !.kind = "hook", !.staged = TRUE]
Test == [Qa EXCEPT !.kind = "test", !.want = {}]

MCCommands ==
  { Qa, [Qa EXCEPT !.report = TRUE, !.want = {"phpstan", "eslint"}],
    [Qa EXCEPT !.agent = TRUE, !.want = {"phpstan", "rector"}], [Qa EXCEPT !.agent = TRUE, !.want = {"eslint"}],
    [Qa EXCEPT !.agent = TRUE, !.report = TRUE, !.want = {"rector"}],
    [Qa EXCEPT !.engine = "dagger", !.report = TRUE, !.want = {"phpstan"}],
    Baseline, [Baseline EXCEPT !.agent = TRUE], [Baseline EXCEPT !.report = TRUE],
    Hook, [Hook EXCEPT !.agent = TRUE],
    Test, [Test EXCEPT !.report = TRUE], [Test EXCEPT !.engine = "dagger", !.agent = TRUE, !.suites = TRUE] }
=============================================================================
