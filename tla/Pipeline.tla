------------------------------ MODULE Pipeline ------------------------------
(***************************************************************************)
(* One run of `orobox deploy`, or of `orobox qa` / `orobox test` on the    *)
(* Dagger engine: cmd/deploy.go turns the invocation into a plan           *)
(* (internal/pipeline/plan.go) and internal/pipeline/run.go executes it.   *)
(*                                                                         *)
(* The build steps run one after the other on the main goroutine.  The QA  *)
(* and the test step run in an errgroup whose first error cancels the      *)
(* other.  The artifacts are exported before the stage host is touched.    *)
(* The environment may push to the deployed branch at any time.            *)
(***************************************************************************)
EXTENDS Naturals, FiniteSets

CONSTANTS
  Commits,      \* the revisions of the repository
  Branch,       \* the name of the deployed branch, a ref that moves
  NoRef,        \* no --ref on the command line
  Checkout,     \* the commit the working tree of the job or developer holds
  Invocations,  \* the invocations considered
  StageRef,     \* the ref the stage configures
  HasLayer,     \* whether .orobox.yaml customises the image
  ShipsAssets,  \* deploy.pre_built_assets_enabled
  NCommands     \* how many commands each step runs

Parts == {"qa", "test", "release"}
Checks == {"qa", "test"}
Refs == Commits \cup {Branch}

\* The steps whose commands run in the engine, and those on the main goroutine.
MainSteps == {"deps", "depsDev", "qaTools", "vendor", "assets", "release"}
Steps == MainSteps \cup Checks

AllInvocations ==
  [command : {"deploy", "qa", "test"},
   ref     : Refs \cup {NoRef},            \* --ref
   skip    : SUBSET Parts,                 \* --skip-qa, --skip-test, --skip-release
   report  : BOOLEAN,                      \* --report gitlab, or agent mode
   ci      : {"none", "sha", "checkout"},  \* CI unset, with CI_COMMIT_SHA, without it
   yes     : BOOLEAN,                      \* --yes
   tty     : BOOLEAN,                      \* stdin is a terminal
   ssh     : BOOLEAN]                      \* an agent socket or a deploy key is present

ASSUME PipelineAssumption ==
  /\ Branch \notin Commits /\ NoRef \notin Refs
  /\ Checkout \in Commits
  /\ Invocations \subseteq AllInvocations
  /\ StageRef \in Refs
  /\ HasLayer \in BOOLEAN /\ ShipsAssets \in BOOLEAN
  /\ NCommands \in [Steps -> Nat \ {0}]

VARIABLES
  inv,         \* the invocation
  plan,        \* the plan it resolves to
  pc,          \* where the main goroutine is
  consent,     \* what let a release past the confirmation prompt
  head,        \* the commit the branch names in the remote repository
  built,       \* the commit the steps were built from
  status,      \* per step: idle between commands, running, passed, failed, cancelled
  ran,         \* per step: commands completed
  returned,    \* group goroutines that returned to the errgroup
  groupErr,    \* the step whose error the errgroup kept, "none" before
  violations,  \* checks that concluded badly without failing (report mode)
  reports,     \* report directories exported to the host
  exported,    \* artifacts exported to the host
  remote,      \* what Deployer has put on the stage host
  outcome      \* how the command ended

invocation == <<inv, plan, consent>>
engine == <<status, ran>>
group == <<returned, groupErr>>
host == <<reports, exported>>
vars == <<invocation, pc, head, built, engine, group, violations, host, remote, outcome>>

Untouched == [code |-> NoRef, payload |-> NoRef]

-----------------------------------------------------------------------------
(* The plan: predicates and constructors *)

RunsQA(p) == "qa" \notin p.skip
RunsTests(p) == "test" \notin p.skip
RunsRelease(p) == "release" \notin p.skip
BuildsAssets(p) == p.assets

NeedsDevDependenciesM(p) == RunsTests(p)
NeedsDevDependencies(p) == RunsQA(p) \/ RunsTests(p)

BuildsArtifacts(p) == RunsRelease(p) \/ ~NeedsDevDependencies(p)

Artifacts(p) ==
  {a \in {"vendor", "assets"} : BuildsArtifacts(p) /\ (a = "assets" => BuildsAssets(p))}

Required(p) == {c \in Checks : c \notin p.skip}

Plans ==
  [skip : SUBSET Parts, assets : BOOLEAN, layer : BOOLEAN,
   source : {"git", "host"}, ref : Refs \cup {NoRef}, report : BOOLEAN]

BlankPlan ==
  [skip |-> Parts, assets |-> FALSE, layer |-> FALSE, source |-> "git",
   ref |-> NoRef, report |-> FALSE]

\* A CI job builds its own checkout and, unless --ref names a revision, releases that
\* very commit; a developer's deploy builds a clone of the ref.
DeployRefM(i) == IF i.ref # NoRef THEN i.ref ELSE StageRef
DeployRef(i) ==
  IF i.ref # NoRef THEN i.ref ELSE IF i.ci = "none" THEN StageRef ELSE Checkout

DeployPlan(i) ==
  [skip |-> i.skip, assets |-> ~ShipsAssets, layer |-> HasLayer,
   source |-> IF i.ci = "none" THEN "git" ELSE "host",
   ref |-> DeployRef(i), report |-> FALSE]

\* `orobox qa` and `orobox test` run one step on the host's tree and never release.
ChecksPlan(i) ==
  [skip |-> Parts \ {i.command}, assets |-> ~ShipsAssets, layer |-> HasLayer,
   source |-> "host", ref |-> NoRef, report |-> i.report]

Resolve(ref) == IF ref = Branch THEN head ELSE ref

-----------------------------------------------------------------------------
(* The run *)

After ==
  [connect |-> "layer", layer |-> "source", source |-> "lock", lock |-> "deps",
   deps |-> "depsDev", depsDev |-> "qaTools", qaTools |-> "vendor",
   vendor |-> "assets", assets |-> "checks", release |-> "done"]

Included(p, step) ==
  CASE step = "layer" -> p.layer
    [] step = "depsDev" -> NeedsDevDependencies(p)
    [] step = "qaTools" -> RunsQA(p)
    [] step = "vendor" -> BuildsArtifacts(p)
    [] step = "assets" -> BuildsArtifacts(p) /\ BuildsAssets(p)
    [] OTHER -> TRUE

\* The layer a step's container starts from; "deps" starts from the image.
Base ==
  [deps |-> "deps", depsDev |-> "deps", qaTools |-> "depsDev", vendor |-> "deps",
   assets |-> "vendor", qa |-> "qaTools", test |-> "depsDev", release |-> "deps"]

PCs == {"command", "prompt", "connect", "layer", "source", "lock", "checks",
        "reports", "artifacts", "credentials", "done"} \cup MainSteps

Init ==
  /\ inv \in Invocations
  /\ plan = BlankPlan
  /\ pc = "command"
  /\ consent = "none"
  /\ head \in Commits
  /\ built = NoRef
  /\ status = [s \in Steps |-> "idle"]
  /\ ran = [s \in Steps |-> 0]
  /\ returned = {}
  /\ groupErr = "none"
  /\ violations = {}
  /\ reports = {}
  /\ exported = {}
  /\ remote = Untouched
  /\ outcome = "running"

\* The command gives up with an error, or ends.
End(result) == pc' = "done" /\ outcome' = result
Advance == pc' = After[pc] /\ UNCHANGED outcome

\* Configuration, Deployer files, repository, HEAD or credentials: refused before any
\* engine starts.
RefuseInvocation ==
  /\ pc = "command"
  /\ End("refused")
  /\ UNCHANGED <<invocation, head, built, engine, group, violations, host, remote>>

ResolveDeploy ==
  /\ pc = "command"
  /\ inv.command = "deploy"
  /\ RunsRelease(inv) => inv.ssh
  /\ plan' = DeployPlan(inv)
  /\ pc' = "prompt"
  /\ UNCHANGED <<inv, consent, head, built, engine, group, violations, host, remote, outcome>>

ResolveChecks ==
  /\ pc = "command"
  /\ inv.command \in Checks
  /\ plan' = ChecksPlan(inv)
  /\ pc' = "connect"
  /\ UNCHANGED <<inv, consent, head, built, engine, group, violations, host, remote, outcome>>

\* No question is asked when nothing is released, with --yes, or when stdin is a file
\* that is not a terminal.
SkipPrompt ==
  /\ pc = "prompt"
  /\ ~RunsRelease(plan) \/ inv.yes \/ ~inv.tty
  /\ consent' = IF inv.yes THEN "flag" ELSE "unasked"
  /\ pc' = "connect"
  /\ UNCHANGED <<inv, plan, head, built, engine, group, violations, host, remote, outcome>>

AnswerPrompt ==
  /\ pc = "prompt"
  /\ RunsRelease(plan) /\ ~inv.yes /\ inv.tty
  /\ \/ consent' = "answer" /\ pc' = "connect" /\ UNCHANGED outcome
     \/ consent' = "declined" /\ End("aborted")
  /\ UNCHANGED <<inv, plan, head, built, engine, group, violations, host, remote>>

\* Connecting the engine, building the image layer and reading the composer files.
Prepare ==
  /\ pc \in {"connect", "layer", "lock"}
  /\ Advance \/ (Included(plan, pc) /\ End(pc))
  /\ UNCHANGED <<invocation, head, built, engine, group, violations, host, remote>>

\* The tree is resolved eagerly: a branch is read once, here.
ResolveSource ==
  /\ pc = "source"
  /\ \/ /\ built' = IF plan.source = "host" THEN Checkout ELSE Resolve(plan.ref)
        /\ Advance
     \/ End("source") /\ UNCHANGED built
  /\ UNCHANGED <<invocation, head, engine, group, violations, host, remote>>

SkipStep ==
  /\ pc \in MainSteps
  /\ ~Included(plan, pc)
  /\ Advance
  /\ UNCHANGED <<invocation, head, built, engine, group, violations, host, remote>>

-----------------------------------------------------------------------------
(* exec: a step's commands, one at a time *)

Running(s) ==
  IF s \in Checks THEN pc = "checks" /\ s \in Required(plan)
                  ELSE pc = s /\ Included(plan, s)

CancelledM(s) == FALSE
Cancelled(s) == s \in Checks /\ groupErr # "none"

StartCommand(s) ==
  /\ Running(s)
  /\ status[s] = "idle"
  /\ ~Cancelled(s)
  /\ status' = [status EXCEPT ![s] = "running"]
  /\ UNCHANGED <<invocation, pc, head, built, ran, group, violations, host, remote, outcome>>

\* In report mode a check exits 0 whatever its tools concluded.
PassCommand(s) ==
  /\ Running(s)
  /\ status[s] = "running"
  /\ s = "release" /\ ran[s] + 1 = NCommands[s] => remote # Untouched
  /\ ran' = [ran EXCEPT ![s] = @ + 1]
  /\ status' = [status EXCEPT ![s] = IF ran[s] + 1 = NCommands[s] THEN "passed" ELSE "idle"]
  /\ \/ UNCHANGED violations
     \/ plan.report /\ s \in Checks /\ violations' = violations \cup {s}
  /\ UNCHANGED <<invocation, pc, head, built, group, host, remote, outcome>>

FailCommand(s) ==
  /\ Running(s)
  /\ status[s] = "running"
  /\ status' = [status EXCEPT ![s] = "failed"]
  /\ UNCHANGED <<invocation, pc, head, built, ran, group, violations, host, remote, outcome>>

\* A cancelled context ends the command in the engine, or refuses the next one.
CancelCommand(s) ==
  /\ Running(s)
  /\ Cancelled(s)
  /\ status[s] \in {"idle", "running"}
  /\ status' = [status EXCEPT ![s] = "cancelled"]
  /\ UNCHANGED <<invocation, pc, head, built, ran, group, violations, host, remote, outcome>>

EndStep(s) ==
  /\ s \in MainSteps
  /\ Running(s)
  /\ \/ status[s] = "passed" /\ s # "release" /\ Advance
     \/ status[s] = "passed" /\ s = "release" /\ End("ok")
     \/ status[s] = "failed" /\ End(s)
  /\ UNCHANGED <<invocation, head, built, engine, group, violations, host, remote>>

-----------------------------------------------------------------------------
(* The group of checks *)

Finished(s) == status[s] \in {"passed", "failed", "cancelled"}

\* The errgroup keeps the first error it is handed, and cancels on it.
GroupReturnM(s) ==
  /\ Running(s)
  /\ s \in Checks \ returned
  /\ Finished(s)
  /\ returned' = returned \cup {s}
  /\ groupErr' = IF status[s] # "passed" THEN s ELSE groupErr
  /\ UNCHANGED <<invocation, pc, head, built, engine, violations, host, remote, outcome>>

GroupReturn(s) ==
  /\ Running(s)
  /\ s \in Checks \ returned
  /\ Finished(s)
  /\ returned' = returned \cup {s}
  /\ groupErr' = IF status[s] # "passed" /\ groupErr = "none" THEN s ELSE groupErr
  /\ UNCHANGED <<invocation, pc, head, built, engine, violations, host, remote, outcome>>

WaitUncheckedM ==
  /\ pc = "checks"
  /\ Required(plan) \subseteq returned
  /\ pc' = "reports"
  /\ UNCHANGED <<invocation, head, built, engine, group, violations, host, remote, outcome>>

Wait ==
  /\ pc = "checks"
  /\ Required(plan) \subseteq returned
  /\ IF groupErr = "none" THEN pc' = "reports" /\ UNCHANGED outcome ELSE End(groupErr)
  /\ UNCHANGED <<invocation, head, built, engine, group, violations, host, remote>>

-----------------------------------------------------------------------------
(* Exports and the release *)

ExportReport(c) ==
  /\ pc = "reports"
  /\ plan.report
  /\ c \in Required(plan) \ reports
  /\ c = "test" /\ "qa" \in Required(plan) => "qa" \in reports
  /\ \/ reports' = reports \cup {c} /\ UNCHANGED <<pc, outcome>>
     \/ End("reports") /\ UNCHANGED reports
  /\ UNCHANGED <<invocation, head, built, engine, group, violations, exported, remote>>

ReportsDone ==
  /\ pc = "reports"
  /\ plan.report => Required(plan) \subseteq reports
  /\ pc' = "artifacts"
  /\ UNCHANGED <<invocation, head, built, engine, group, violations, host, remote, outcome>>

ExportArtifact(a) ==
  /\ pc = "artifacts"
  /\ a \in Artifacts(plan) \ exported
  /\ a = "assets" => "vendor" \in exported
  /\ \/ exported' = exported \cup {a} /\ UNCHANGED <<pc, outcome>>
     \/ End("artifacts") /\ UNCHANGED exported
  /\ UNCHANGED <<invocation, head, built, engine, group, violations, reports, remote>>

ArtifactsDoneM ==
  /\ pc = "artifacts"
  /\ IF RunsRelease(plan) THEN pc' = "credentials" /\ UNCHANGED outcome ELSE End("ok")
  /\ UNCHANGED <<invocation, head, built, engine, group, violations, host, remote>>

ArtifactsDone ==
  /\ pc = "artifacts"
  /\ Artifacts(plan) \subseteq exported
  /\ IF RunsRelease(plan) THEN pc' = "credentials" /\ UNCHANGED outcome ELSE End("ok")
  /\ UNCHANGED <<invocation, head, built, engine, group, violations, host, remote>>

PrepareRelease ==
  /\ pc = "credentials"
  /\ IF inv.ssh THEN pc' = "release" /\ UNCHANGED outcome ELSE End("credentials")
  /\ UNCHANGED <<invocation, head, built, engine, group, violations, host, remote>>

\* The last command of the step is Deployer, which clones OROBOX_DEPLOY_REF on the host
\* and uploads the tarballs of this run.
CheckOutOnRemote ==
  /\ pc = "release"
  /\ status["release"] = "running"
  /\ ran["release"] + 1 = NCommands["release"]
  /\ remote = Untouched
  /\ remote' = [code |-> Resolve(plan.ref), payload |-> built]
  /\ UNCHANGED <<invocation, pc, head, built, engine, group, violations, host, outcome>>

\* Somebody pushes to the branch while the command runs.
Push ==
  /\ pc # "done"
  /\ head' \in Commits \ {head}
  /\ UNCHANGED <<invocation, pc, built, engine, group, violations, host, remote, outcome>>

Returned == pc = "done" /\ UNCHANGED vars

MainStep ==
  \/ RefuseInvocation \/ ResolveDeploy \/ ResolveChecks \/ SkipPrompt \/ AnswerPrompt
  \/ Prepare \/ ResolveSource \/ SkipStep \/ Wait
  \/ ReportsDone \/ ArtifactsDone \/ PrepareRelease
  \/ (\E c \in Checks : ExportReport(c))
  \/ (\E a \in {"vendor", "assets"} : ExportArtifact(a))
  \/ (\E s \in MainSteps : EndStep(s))

\* What the engine and the remote host do with a command they were handed.
Answer == CheckOutOnRemote \/ (\E s \in Steps : PassCommand(s) \/ FailCommand(s))

Next ==
  \/ MainStep \/ Answer \/ Push \/ Returned
  \/ \E s \in Steps : StartCommand(s) \/ CancelCommand(s) \/ GroupReturn(s)

Spec == Init /\ [][Next]_vars

\* Goroutines keep being scheduled and a cancelled exec returns; commands may hang.
GoFairness ==
  /\ WF_vars(MainStep)
  /\ \A s \in Steps :
       /\ WF_vars(StartCommand(s)) /\ WF_vars(CancelCommand(s)) /\ WF_vars(GroupReturn(s))

FairSpec == Spec /\ GoFairness

-----------------------------------------------------------------------------
(* Properties *)

Statuses == {"idle", "running", "passed", "failed", "cancelled"}
Consents == {"none", "unasked", "flag", "answer", "declined"}
Outcomes == {"running", "ok", "refused", "aborted", "reports", "connect", "layer",
             "source", "lock", "artifacts", "credentials"} \cup Steps

\* Every variable has its type.
TypeOK ==
  /\ inv \in AllInvocations
  /\ plan \in Plans
  /\ pc \in PCs
  /\ consent \in Consents
  /\ head \in Commits
  /\ built \in Refs \cup {NoRef}
  /\ status \in [Steps -> Statuses]
  /\ ran \in [Steps -> Nat]
  /\ returned \in SUBSET Checks
  /\ groupErr \in Checks \cup {"none"}
  /\ violations \in SUBSET Checks
  /\ reports \in SUBSET Checks
  /\ exported \in SUBSET {"vendor", "assets"}
  /\ remote \in [code : Refs \cup {NoRef}, payload : Refs \cup {NoRef}]
  /\ outcome \in Outcomes

Passed(c) == status[c] = "passed" /\ c \notin violations

\* "Nothing reaches the remote host after a violation" (run.go, Run): once Deployer has
\* touched the host, every check the plan runs has passed, none of them swallowed a
\* violation, and the artifacts of the run are on the developer's disk.
ReleaseOnlyAfterChecks ==
  remote # Untouched =>
    /\ \A c \in Required(plan) : Passed(c)
    /\ Artifacts(plan) \subseteq exported

\* "The first failure cancels the other" (run.go, the group of checks): the error a run
\* reports is that of the check that failed, never that of the check it took down.
BlamesTheRealFailure == outcome \in Checks => status[outcome] = "failed"

\* The container a step starts from is never the nil it is declared with: whatever
\* subset of the steps is skipped, the layer under a running step was built before it.
BuiltOnALayer ==
  \A s \in Steps \ {"deps"} : status[s] # "idle" => status[Base[s]] = "passed"

\* A job that builds its own checkout releases that very commit, wherever the branch has
\* moved since; an explicit --ref is the caller's own choice (cmd/deploy.go, deploySource).
PinnedReleaseMatchesBuild ==
  remote # Untouched /\ plan.source = "host" /\ inv.ref = NoRef =>
    remote.code = remote.payload

\* "The ref it builds is also the ref Deployer checks out remotely, so the uploaded
\* artifacts can never belong to a different commit than the deployed code"
\* (config/deploy.go, StageConfig), for every run but one with an explicit --ref in CI.
ReleaseMatchesBuild ==
  remote # Untouched /\ (plan.source = "git" \/ inv.ref = NoRef) =>
    remote.code = remote.payload

\* "An unanswered release prompt means no release" (cmd/deploy.go, runDeployCommand).
UnansweredMeansNoRelease ==
  remote # Untouched => consent \in {"flag", "answer"}

\* A failed check ends the run even when the commands of the other one hang: the shared
\* context takes them down.
FailureEndsTheRun ==
  \A c \in Checks : status[c] = "failed" ~> pc = "done"

-----------------------------------------------------------------------------
(* The abstract gate: verdicts are the final statuses of the required checks *)

Verdict(c) ==
  CASE Passed(c) -> "passed"
    [] status[c] \in {"idle", "running"} /\ c \notin violations -> "open"
    [] OTHER -> "failed"

Gate == INSTANCE ReleaseGate WITH
  required <- IF pc = "command" THEN {} ELSE Required(plan),
  verdict  <- [c \in Checks |-> Verdict(c)],
  payload  <- Artifacts(plan) \subseteq exported /\ exported # {},
  remote   <- remote # Untouched,
  over     <- pc = "done"

\* The run implements the release gate.
ImplementsGate == Gate!Spec
=============================================================================
