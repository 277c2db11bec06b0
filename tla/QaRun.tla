------------------------------- MODULE QaRun -------------------------------
(* `orobox qa` and `orobox test` on a checkout, by hand and from the        *)
(* pre-commit hook: which tools run and in which mode, the shell script     *)
(* that runs them, the report files it leaves, and the exit code the        *)
(* command derives. The report files outlive the command, and every command *)
(* of the checkout uses the same directory.                                 *)
(* Three tools stand for the seven: PHPStan, which is never narrowed and    *)
(* has a baseline; Rector, a fixer whose report lists what it rewrote;      *)
(* ESLint, which writes its report file itself and may have no              *)
(* configuration to run with. Each has one source file, dirty or not.       *)
EXTENDS Naturals

CONSTANTS
  Commands,     \* the command lines considered, records of Options
  MaxCommands,  \* bound: commands started
  MaxEdits      \* bound: changes the developer makes in the checkout

Tools == {"phpstan", "rector", "eslint"}
RunOrder == <<"phpstan", "rector", "eslint">>
Narrowed == {"rector", "eslint"}   \* stagedExtensions
Fixers == {"rector"}               \* appliedFixReporters
None == 2

Options == [kind: {"qa", "test", "hook"}, engine: {"compose", "dagger"}, agent: BOOLEAN,
            report: BOOLEAN, staged: BOOLEAN, baseline: BOOLEAN, suites: BOOLEAN, want: SUBSET Tools]

(* The flags of `test` are fewer; the hook checks what is staged.           *)
ASSUME CommandsAssumption ==
  /\ Commands \subseteq Options /\ Commands # {} /\ MaxCommands \in Nat /\ MaxEdits \in Nat
  /\ \A o \in Commands : o.kind = "test" => o.want = {} /\ ~o.baseline /\ ~o.staged
  /\ \A o \in Commands : o.kind = "hook" => o.staged

VARIABLES
  work,      \* per tool and for the tests, the violations in the working tree: 0 or 1
  index,     \* per narrowed tool, those in its staged file, None when it is not staged
  neon,      \* phpstan.neon: plain or absent, names the baseline in prose only, includes it
  accepted,  \* the violations the baseline records, None while there is no baseline
  raw,       \* var/orobox/reports/raw/qa: per tool its report and recorded code, the aggregate
  logs,      \* var/orobox/reports/raw/test: JUnit of the whole run and of a suite, the aggregate
  merged,    \* what has findings in the merged code-quality.json and junit.xml
  cmd,       \* the command that runs, or the last one that did
  started, edits

vars == <<work, index, neon, accepted, raw, logs, merged, cmd, started, edits>>

NoReports == [report |-> [n \in Tools |-> "absent"],
              code |-> [n \in Tools |-> 0], status |-> None]
NoLogs == [whole |-> "absent", suite |-> "absent", status |-> None]

(* A command: where it is, its options and mode, the tools it chose and has *)
(* still to run, the status its script gathers, the pipeline's reports. The *)
(* rest is history: what each tool did, and whether the files were staged   *)
(* as they are when it started and stayed so.                               *)
Idle == [at |-> "idle", o |-> CHOOSE o \in Commands : TRUE, mode |-> "fix", chosen |-> {}, todo |-> {},
         status |-> 0, box |-> NoReports, exit |-> 0,
         outcome |-> [n \in Tools \cup {"phpunit"} |-> "unrun"], whole |-> FALSE]

Init ==
  /\ work \in [Tools \cup {"phpunit"} -> {0, 1}]
  /\ index = [n \in Narrowed |-> None]
  /\ neon \in {"plain", "prose"} /\ accepted = None
  /\ raw = NoReports /\ logs = NoLogs /\ merged = {}
  /\ cmd = Idle /\ started = 0 /\ edits = 0

At(point) == cmd.at = point
Goes(c) == cmd' = c
Ended(c, code) == [c EXCEPT !.at = "done", !.exit = code]
Busy == cmd.at \notin {"idle", "done"}

(* The machine-readable reports are produced for --report and, underneath   *)
(* it, for --agent; agentOnly is the latter alone.                          *)
Reporting(o) == o.report \/ o.agent
agentOnly(o) == o.agent /\ ~o.report

-----------------------------------------------------------------------------
(* The command line.                                                        *)

(* A baseline is PHPStan's alone; neither it nor the staged files exist on  *)
(* the Dagger engine, and the two cannot be combined.                       *)
Refused(o) ==
  \/ o.baseline /\ (o.engine = "dagger" \/ o.report \/ o.want \ {"phpstan"} # {})
  \/ o.staged /\ (o.engine = "dagger" \/ o.baseline)

(* Check-only: a report the caller asked for, the staged files of a hook,   *)
(* the pipeline. Agent mode is none of them.                                *)
ModeM(o) == IF o.report \/ o.engine = "dagger" THEN "check" ELSE "fix"   \* mutant: a staged run may fix
Mode(o) == IF o.report \/ o.staged \/ o.engine = "dagger" THEN "check" ELSE "fix"

(* A staged run drops the tools nothing is staged for; PHPStan is not       *)
(* narrowed and stays.                                                      *)
Restrict(tools) == {n \in tools : n \in Narrowed => index[n] # None}

Enabled(o) == LET tools == IF o.baseline THEN {"phpstan"} ELSE o.want
              IN IF o.staged THEN Restrict(tools) ELSE tools

Accepted(o) ==
  LET c == [Idle EXCEPT !.o = o, !.mode = Mode(o), !.chosen = Enabled(o),
                        !.whole = \A n \in Narrowed : index[n] \in {None, work[n]}]
  IN IF o.kind = "test" THEN [c EXCEPT !.at = "services"]
     ELSE IF Refused(o) THEN Ended(c, 1)
     ELSE IF Enabled(o) = {}
     THEN IF o.kind = "hook" THEN [c EXCEPT !.at = "checked"] ELSE Ended(c, 0)
     ELSE [c EXCEPT !.at = "binaries", !.todo = Enabled(o)]

Start ==
  /\ started < MaxCommands /\ ~Busy
  /\ \E o \in Commands : Goes(Accepted(o))
  /\ started' = started + 1
  /\ UNCHANGED <<work, index, neon, accepted, raw, logs, merged, edits>>

-----------------------------------------------------------------------------
(* The script of the QA tools.                                              *)

(* Missing binaries stop a compose run before anything runs; a report path  *)
(* or an image layer that cannot be resolved, a Dagger run.                 *)
Begin ==
  /\ Goes(Ended(cmd, 1)) \/ Goes([cmd EXCEPT !.at = "tools"])
  /\ UNCHANGED <<work, index, neon, accepted, raw, logs, merged, started, edits>>
BeginOnCompose == At("binaries") /\ cmd.o.engine = "compose" /\ Begin
BeginOnDagger == At("binaries") /\ cmd.o.engine = "dagger" /\ Begin

(* What one tool does. Its setup or the tool can fail before its report     *)
(* file is opened; it can be skipped and write an empty report; it can die, *)
(* after the shell has opened the file unless the tool opens it itself; and *)
(* it can finish. In fix mode ESLint reports what it left; Rector what it   *)
(* rewrote, and, with exit code 1, the files it stopped on: its errors,     *)
(* which its report lists like the rest and after which they are as before. *)
R(code, report, fixed, outcome) == [code |-> code, report |-> report, fixed |-> fixed, outcome |-> outcome]
Broken == R(1, "kept", FALSE, "broken")

Results(n, mode, dirty) ==
  {Broken}
    \cup (IF n = "eslint" THEN {R(0, "none", FALSE, "skipped")}
                          ELSE {R(1, "blank", FALSE, "died"), R(1, "garbage", FALSE, "died")})
    \cup (IF ~dirty THEN {R(0, "none", FALSE, "clean"), R(0, "blank", FALSE, "clean")}
          ELSE {R(1, "issues", FALSE, IF mode = "fix" /\ n \in Fixers THEN "errors" ELSE "findings")}
                 \cup (IF mode = "check" \/ n = "phpstan" THEN {}
                       ELSE {R(0, IF n \in Fixers THEN "issues" ELSE "none", TRUE, "fixed")}))

(* What a tool finds: on the compose engine in the working tree, staged or  *)
(* not, less what an included baseline records; on the other in a clone.    *)
Dirty(n) ==
  IF cmd.o.engine = "dagger" THEN {TRUE, FALSE}
  ELSE {work[n] = 1 /\ ~(n = "phpstan" /\ neon = "included" /\ accepted = 1)}

Recorded(reports, n, r) ==
  [reports EXCEPT !.report[n] = IF r.report = "kept" THEN @ ELSE r.report, !.code[n] = r.code]

ComesFirst(n) == \A i, j \in DOMAIN RunOrder : RunOrder[i] = n /\ RunOrder[j] \in cmd.todo => i <= j

(* The report script runs every tool whatever the one before it said; the   *)
(* plain one is a chain of &&.                                              *)
LeftM(n, r) == IF r.code = 1 THEN {} ELSE cmd.todo \ {n}   \* mutant: both scripts are chains
Left(n, r) == IF ~Reporting(cmd.o) /\ r.code = 1 THEN {} ELSE cmd.todo \ {n}

StatusAfterM(r) == r.code   \* mutant: the last tool decides
StatusAfter(r) == IF r.code = 1 THEN 1 ELSE cmd.status

RunTool ==
  /\ At("tools") /\ ~cmd.o.baseline
  /\ \E n \in cmd.todo : \E dirty \in Dirty(n) : \E r \in Results(n, cmd.mode, dirty) :
       /\ ComesFirst(n)
       /\ work' = [work EXCEPT ![n] = IF r.fixed THEN 0 ELSE @]
       /\ raw' = IF Reporting(cmd.o) /\ cmd.o.engine = "compose" THEN Recorded(raw, n, r) ELSE raw
       /\ Goes([cmd EXCEPT !.todo = Left(n, r), !.status = StatusAfter(r), !.outcome[n] = r.outcome,
                     !.box = IF Reporting(cmd.o) /\ cmd.o.engine = "dagger" THEN Recorded(@, n, r) ELSE @])
  /\ UNCHANGED <<index, neon, accepted, logs, merged, started, edits>>

(* The export of the pipeline's files goes over what the host directory     *)
(* already holds.                                                           *)
OverReports(old, new, status) ==
  [status |-> status,
   report |-> [n \in Tools |-> IF new.report[n] = "absent" THEN old.report[n] ELSE new.report[n]],
   code |-> [n \in Tools |-> IF new.report[n] = "absent" THEN old.code[n] ELSE new.code[n]]]

EndScript ==
  /\ At("tools") /\ cmd.todo = {}
  /\ LET o == cmd.o IN
     IF ~Reporting(o)
     THEN /\ UNCHANGED raw
          /\ Goes(IF o.kind = "hook" /\ cmd.status = 0 THEN [cmd EXCEPT !.at = "checked"]
                  ELSE Ended(cmd, cmd.status))
     ELSE /\ raw' = IF o.engine = "dagger" THEN OverReports(raw, cmd.box, cmd.status)
                    ELSE [raw EXCEPT !.status = cmd.status]
          /\ Goes([cmd EXCEPT !.at = "collect"])
  /\ UNCHANGED <<work, index, neon, accepted, logs, merged, started, edits>>

(* The engine fails, or the command is interrupted: no report is merged and *)
(* no clean-up runs.                                                        *)
Dies ==
  /\ cmd.at \in {"tools", "collect", "phpunit", "tested", "include"}
  /\ Goes(Ended(cmd, 1))
  /\ UNCHANGED <<work, index, neon, accepted, raw, logs, merged, started, edits>>

-----------------------------------------------------------------------------
(* The verdict of the QA tools.                                             *)

Having(content) == {n \in Tools : raw.report[n] = content}

(* A report that is neither blank nor the tool's document is an error; the  *)
(* merge and the list of findings read the same issues from the others.     *)
toolIssues == Having("issues")
Unreadable == Having("garbage") # {}
MergeCodeQuality == (merged \cap {"phpunit"}) \cup toolIssues
Findings(tools) == tools \cap toolIssues

reportStatusFailed(status) == status \notin {0, None}

finishQaReport ==
  /\ At("collect") /\ ~cmd.o.agent
  /\ IF Unreadable
     THEN Goes(Ended(cmd, 1)) /\ UNCHANGED merged
     ELSE /\ merged' = MergeCodeQuality
          /\ Goes(Ended(cmd, IF reportStatusFailed(raw.status) THEN 1 ELSE 0))
  /\ UNCHANGED <<work, index, neon, accepted, raw, logs, started, edits>>

(* Agent mode judges by the report files alone: a blank one with a non-zero *)
(* code is a tool that could not run, and in fix mode whatever a fixer      *)
(* reports counts as rewritten. Exiting non-zero skips the deferred         *)
(* clean-up.                                                                *)
ToolStatus(n) == raw.code[n]   \* 0 when the script never recorded one
CouldNotRunM == {}   \* mutant: a blank report is a clean one
CouldNotRun == {n \in Having("blank") : ToolStatus(n) # 0}
Listed == Findings(Tools \ (IF cmd.mode = "fix" THEN Fixers ELSE {}))

finishQaAgent ==
  /\ At("collect") /\ cmd.o.agent
  /\ IF Unreadable \/ CouldNotRun # {} \/ Listed # {}
     THEN Goes(Ended(cmd, 1)) /\ UNCHANGED raw
     ELSE /\ raw' = IF agentOnly(cmd.o) THEN NoReports ELSE raw
          /\ Goes(IF cmd.o.kind = "hook" THEN [cmd EXCEPT !.at = "checked"] ELSE Ended(cmd, 0))
  /\ UNCHANGED <<work, index, neon, accepted, logs, merged, started, edits>>

-----------------------------------------------------------------------------
(* The baseline. With --agent the report script carries PHPStan, and that   *)
(* script exits 0 whatever PHPStan did.                                     *)

runBaseline ==
  /\ At("tools") /\ cmd.o.baseline /\ cmd.todo # {}
  /\ \E r \in {R(0, "garbage", FALSE, "clean"), Broken, R(1, "blank", FALSE, "died")} :
       /\ accepted' = IF r.code = 0 THEN work["phpstan"] ELSE accepted
       /\ raw' = IF cmd.o.agent THEN [Recorded(raw, "phpstan", r) EXCEPT !.status = r.code] ELSE raw
       /\ Goes([IF r.code = 0 \/ cmd.o.agent THEN [cmd EXCEPT !.at = "include"] ELSE Ended(cmd, 1)
                     EXCEPT !.todo = {}, !.outcome["phpstan"] = r.outcome])
  /\ UNCHANGED <<work, index, neon, logs, merged, started, edits>>

(* A comment that explains the baseline is not an include of it.            *)
hasBaselineIncludeM == neon \in {"prose", "included"}   \* mutant: comments are not stripped
hasBaselineInclude == neon = "included"
EnsureBaselineInclude == IF hasBaselineInclude THEN neon ELSE "included"

(* A phpstan.neon that cannot be read or written is a warning, recorded in  *)
(* the outcome.                                                             *)
finishBaseline ==
  /\ At("include")
  /\ \/ accepted = None /\ Goes(Ended(cmd, 1)) /\ UNCHANGED neon
     \/ /\ accepted # None /\ neon' = EnsureBaselineInclude
        /\ Goes(Ended(cmd, 0))
     \/ /\ accepted # None /\ UNCHANGED neon
        /\ Goes(Ended([cmd EXCEPT !.outcome["phpstan"] = "warned"], 0))
  /\ UNCHANGED <<work, index, accepted, raw, logs, merged, started, edits>>

-----------------------------------------------------------------------------
(* The test suite.                                                          *)

(* On the compose engine the probe of the test database decides first.      *)
ProbeTests ==
  /\ At("services")
  /\ \/ cmd.o.engine = "compose" /\ Goes(Ended(cmd, 1))
     \/ Goes([cmd EXCEPT !.at = "phpunit"])
  /\ UNCHANGED <<work, index, neon, accepted, raw, logs, merged, started, edits>>

(* PHPUnit truncates the log it was given and writes it when it ends.       *)
TestResults(dirty) ==
  {R(1, "kept", FALSE, "broken"), R(1, "blank", FALSE, "broken")}
    \cup {IF dirty THEN R(1, "issues", FALSE, "findings") ELSE R(0, "none", FALSE, "clean")}

(* One invocation and one log on the compose engine; on the other a suite   *)
(* that is named has a log of its own.                                      *)
Logged(old, o, r) ==
  IF r.report = "kept" \/ ~Reporting(o) THEN old
  ELSE IF o.engine = "dagger" /\ o.suites THEN [old EXCEPT !.suite = r.report]
  ELSE [old EXCEPT !.whole = r.report]

PhpUnit(dirtiness) ==
  /\ LET o == cmd.o IN
     \E dirty \in dirtiness : \E r \in TestResults(dirty) :
       LET c == [cmd EXCEPT !.status = r.code, !.outcome["phpunit"] = r.outcome]
           passed == IF o.kind = "hook" THEN [c EXCEPT !.at = "commit"] ELSE Ended(c, 0)
       IN IF Reporting(o)
          THEN /\ logs' = [Logged(logs, o, r) EXCEPT !.status = IF o.engine = "dagger" THEN r.code ELSE @]
               /\ Goes([c EXCEPT !.at = "tested"])
          ELSE UNCHANGED logs /\ Goes(IF r.code = 0 THEN passed ELSE Ended(c, 1))
  /\ UNCHANGED <<work, index, neon, accepted, raw, merged, started, edits>>

runTestOnCompose == At("phpunit") /\ cmd.o.engine = "compose" /\ PhpUnit({work["phpunit"] = 1})
runTestOnDagger == At("phpunit") /\ cmd.o.engine = "dagger" /\ PhpUnit({TRUE, FALSE})

(* The compose engine has PHPUnit's own exit code, the other the status     *)
(* file.                                                                    *)
SuiteFailed == IF cmd.o.engine = "dagger" THEN reportStatusFailed(logs.status) ELSE cmd.status = 1

(* An empty log is no failure; the merge takes every log of the directory,  *)
(* agent mode the log of the whole run.                                     *)
MergeJUnit == (merged \ {"phpunit"}) \cup (IF "issues" \in {logs.whole, logs.suite} THEN {"phpunit"} ELSE {})
FailuresFromJUnit == logs.whole = "issues"

finishTestReport ==
  /\ At("tested") /\ ~cmd.o.agent
  /\ merged' = MergeJUnit
  /\ Goes(Ended(cmd, IF SuiteFailed THEN 1 ELSE 0))
  /\ UNCHANGED <<work, index, neon, accepted, raw, logs, started, edits>>

finishTestAgent ==
  /\ At("tested") /\ cmd.o.agent
  /\ IF logs.whole = "absent" \/ FailuresFromJUnit \/ SuiteFailed
     THEN Goes(Ended(cmd, 1)) /\ UNCHANGED logs
     ELSE /\ logs' = IF agentOnly(cmd.o) THEN NoLogs ELSE logs
          /\ Goes(IF cmd.o.kind = "hook" THEN [cmd EXCEPT !.at = "commit"] ELSE Ended(cmd, 0))
  /\ UNCHANGED <<work, index, neon, accepted, raw, merged, started, edits>>

-----------------------------------------------------------------------------
(* The pre-commit hook runs the tests when PHP is staged, and git writes    *)
(* the commit when the hook exits 0.                                        *)

HookTests ==
  /\ At("checked")
  /\ Goes([cmd EXCEPT !.at = IF index["rector"] # None THEN "services" ELSE "commit"])
  /\ UNCHANGED <<work, index, neon, accepted, raw, logs, merged, started, edits>>

Commit ==
  /\ At("commit")
  /\ index' = [n \in Narrowed |-> None]
  /\ Goes(Ended(cmd, 0))
  /\ UNCHANGED <<work, neon, accepted, raw, logs, merged, started, edits>>

(* The developer changes a file, or stages some or all of its hunks.        *)
Edit(n) ==
  /\ edits < MaxEdits /\ edits' = edits + 1
  /\ work' = [work EXCEPT ![n] = 1 - @]
  /\ Goes([cmd EXCEPT !.whole = FALSE])
  /\ UNCHANGED <<index, neon, accepted, raw, logs, merged, started>>

Stage(n) ==
  /\ edits < MaxEdits /\ edits' = edits + 1
  /\ ~(Busy /\ cmd.o.kind = "hook")
  /\ \E v \in {0, 1} : index' = [index EXCEPT ![n] = v]
  /\ UNCHANGED <<work, neon, accepted, raw, logs, merged, cmd, started>>

Next ==
  \/ Start \/ BeginOnCompose \/ BeginOnDagger \/ RunTool \/ EndScript \/ Dies
  \/ finishQaReport \/ finishQaAgent \/ runBaseline \/ finishBaseline
  \/ ProbeTests \/ runTestOnCompose \/ runTestOnDagger \/ finishTestReport \/ finishTestAgent
  \/ HookTests \/ Commit
  \/ \E n \in Tools \cup {"phpunit"} : Edit(n)
  \/ \E n \in Narrowed : Stage(n)

Spec == Init /\ [][Next]_vars

-----------------------------------------------------------------------------
(* Properties.                                                              *)

Succeeded == At("done") /\ cmd.exit = 0

(* Exit code 0 of `qa`, with or without --report, means that every tool it  *)
(* chose ran to its end and left nothing to act on, whatever the report     *)
(* directory held before.                                                   *)
ExitZeroMeansPassed ==
  Succeeded /\ cmd.o.kind # "test" /\ ~cmd.o.agent /\ ~cmd.o.baseline =>
    \A n \in cmd.chosen : cmd.outcome[n] \in {"clean", "skipped", "fixed"}

(* With --agent, exit code 0 means that no tool left findings, none died    *)
(* over the report file it had opened, and the tests passed if they ran.    *)
(* Two ways to fail unseen are left to the next two properties: a tool that *)
(* opens no report file, and the errors of a fixer, in fix mode only.       *)
AgentHidesNoFinding ==
  Succeeded /\ cmd.o.agent /\ ~cmd.o.baseline =>
    /\ cmd.outcome["phpunit"] \in {"unrun", "clean"}
    /\ \A n \in cmd.chosen : cmd.outcome[n] \notin {"unrun", "died", "findings"}
    /\ \A n \in cmd.chosen : cmd.outcome[n] = "errors" => cmd.mode = "fix" /\ n \in Fixers

(* docs/qa.md: in agent mode the exit code is 1 when findings remain, "fixes *)
(* alone do not fail the run": what a fixer stopped on is no fix.            *)
AgentReportsErrors ==
  Succeeded /\ cmd.o.agent /\ ~cmd.o.baseline => \A n \in cmd.chosen : cmd.outcome[n] # "errors"

(* docs/qa.md: in agent mode the exit code is 1 when a tool could not run.  *)
AgentFailsWhenAToolCouldNotRun ==
  Succeeded /\ cmd.o.agent /\ ~cmd.o.baseline => \A n \in cmd.chosen : cmd.outcome[n] # "broken"

(* The merged report of a --report run covers every chosen tool: each has   *)
(* run, and those that found something are in it.                           *)
ReportHoldsTheFindings ==
  [][finishQaReport /\ ~Unreadable =>
       \A n \in cmd.chosen : cmd.outcome[n] # "unrun" /\ (cmd.outcome[n] = "findings" => n \in merged')]_vars

(* A commit the hook lets through holds nothing that its tools find in the  *)
(* staged files. Premises: the files are staged as they are in the working  *)
(* tree, nobody edits while the hook runs, and the tools ran.               *)
CommitHasFindings ==
  \E n \in cmd.o.want \cap Narrowed : index[n] = 1 /\ cmd.outcome[n] \notin {"skipped", "broken"}
CommitIsChecked == [][Commit /\ cmd.whole => ~CommitHasFindings]_vars

(* A baseline run that succeeds without a warning leaves a baseline that    *)
(* phpstan.neon includes; without --agent PHPStan has just written it.      *)
BaselineTakesEffect ==
  Succeeded /\ cmd.o.baseline /\ cmd.outcome["phpstan"] # "warned" =>
    /\ accepted # None /\ neon = "included"
    /\ ~cmd.o.agent => cmd.outcome["phpstan"] = "clean"
=============================================================================
