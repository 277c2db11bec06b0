--------------------------- MODULE PipelineProofs ---------------------------
(***************************************************************************)
(* Proofs about Pipeline: type correctness, the gate before the release,   *)
(* the blame of a failed group, and the refinement of ReleaseGate; and     *)
(* about EngineWatch, the live output of its commands: no line is printed  *)
(* twice or out of order, and without a mishap none is lost.               *)
(***************************************************************************)
EXTENDS Pipeline, EngineWatch, TLAPS, WellFoundedInduction

\* The plans built from an invocation are plans.
LEMMA PlanTypes ==
  ASSUME NEW i \in AllInvocations
  PROVE  /\ i.command = "deploy" => DeployPlan(i) \in Plans
         /\ i.command \in Checks => ChecksPlan(i) \in Plans
         /\ DeployRef(i) \in Refs
<1>1. DeployRef(i) \in Refs
  BY PipelineAssumption DEF DeployRef, AllInvocations, Refs
<1>2. QED
  BY <1>1, PipelineAssumption DEF DeployPlan, ChecksPlan, Plans, AllInvocations, Parts, Checks

\* The main goroutine only ever advances to a program point.
LEMMA AfterType ==
  ASSUME NEW p \in MainSteps \cup {"connect", "layer", "source", "lock"}
  PROVE  After[p] \in PCs
BY DEF After, PCs, MainSteps

\* Every reachable state is well typed: no step of the run, of the engine or of the
\* group leaves a variable of Pipeline outside its type, whatever the constants.
THEOREM TypeCorrect == Spec => []TypeOK
<1>1. Init => TypeOK
  BY PipelineAssumption
     DEF Init, TypeOK, Plans, BlankPlan, Parts, PCs, MainSteps, Steps, Checks, Consents,
         Statuses, Outcomes, Untouched, Refs
<1>2. TypeOK /\ [Next]_vars => TypeOK'
  <2> SUFFICES ASSUME TypeOK, [Next]_vars PROVE TypeOK'
    OBVIOUS
  <2> USE DEF TypeOK, invocation, engine, group, host
  <2>1. CASE RefuseInvocation
    BY <2>1 DEF RefuseInvocation, End, PCs, Outcomes
  <2>2. CASE ResolveDeploy
    BY <2>2, PlanTypes DEF ResolveDeploy, PCs
  <2>3. CASE ResolveChecks
    BY <2>3, PlanTypes DEF ResolveChecks, PCs
  <2>4. CASE SkipPrompt
    BY <2>4 DEF SkipPrompt, PCs, Consents
  <2>5. CASE AnswerPrompt
    BY <2>5 DEF AnswerPrompt, End, PCs, Consents, Outcomes
  <2>6. CASE Prepare
    BY <2>6, AfterType DEF Prepare, Advance, End, PCs, Outcomes
  <2>7. CASE ResolveSource
    <3>1. built' \in Refs \cup {NoRef}
      BY <2>7, PipelineAssumption DEF ResolveSource, Resolve, Refs, Plans
    <3>2. QED
      BY <2>7, <3>1, AfterType DEF ResolveSource, Advance, End, PCs, Outcomes
  <2>8. CASE SkipStep
    BY <2>8, AfterType DEF SkipStep, Advance
  <2>9. CASE Wait
    BY <2>9 DEF Wait, End, PCs, Outcomes, Checks, Steps
  <2>10. CASE ReportsDone
    BY <2>10 DEF ReportsDone, PCs
  <2>11. CASE ArtifactsDone
    BY <2>11 DEF ArtifactsDone, End, PCs, Outcomes
  <2>12. CASE PrepareRelease
    BY <2>12 DEF PrepareRelease, End, PCs, Outcomes, MainSteps
  <2>13. ASSUME NEW c \in Checks, ExportReport(c) PROVE TypeOK'
    BY <2>13 DEF ExportReport, End, PCs, Outcomes
  <2>14. ASSUME NEW a \in {"vendor", "assets"}, ExportArtifact(a) PROVE TypeOK'
    BY <2>14 DEF ExportArtifact, End, PCs, Outcomes
  <2>15. ASSUME NEW s \in MainSteps, EndStep(s) PROVE TypeOK'
    <3>1. CASE status[s] = "passed" /\ s # "release" /\ Advance
      <4>1. pc = s
        BY <2>15, <3>1 DEF EndStep, Running, MainSteps, Checks
      <4>2. QED
        BY <2>15, <3>1, <4>1, AfterType DEF EndStep, Advance
    <3>2. CASE End("ok") \/ End(s)
      BY <2>15, <3>2 DEF EndStep, End, PCs, Outcomes, Steps
    <3>3. QED
      BY <2>15, <3>1, <3>2 DEF EndStep
  <2>16. CASE CheckOutOnRemote
    BY <2>16, PipelineAssumption DEF CheckOutOnRemote, Resolve, Refs, Plans
  <2>17. ASSUME NEW s \in Steps, PassCommand(s) PROVE TypeOK'
    <3>1. ran' \in [Steps -> Nat]
      BY <2>17 DEF PassCommand
    <3>2. status' \in [Steps -> Statuses]
      BY <2>17 DEF PassCommand, Statuses
    <3>3. violations' \in SUBSET Checks
      BY <2>17 DEF PassCommand
    <3>4. QED
      BY <2>17, <3>1, <3>2, <3>3 DEF PassCommand
  <2>18. ASSUME NEW s \in Steps, FailCommand(s) PROVE TypeOK'
    BY <2>18 DEF FailCommand, Statuses
  <2>19. CASE Push
    BY <2>19 DEF Push
  <2>20. ASSUME NEW s \in Steps, StartCommand(s) PROVE TypeOK'
    BY <2>20 DEF StartCommand, Statuses
  <2>21. ASSUME NEW s \in Steps, CancelCommand(s) PROVE TypeOK'
    BY <2>21 DEF CancelCommand, Statuses
  <2>22. ASSUME NEW s \in Steps, GroupReturn(s) PROVE TypeOK'
    BY <2>22 DEF GroupReturn, Checks
  <2>23. CASE UNCHANGED vars
    BY <2>23 DEF vars
  <2>24. QED
    BY <2>1, <2>2, <2>3, <2>4, <2>5, <2>6, <2>7, <2>8, <2>9, <2>10, <2>11, <2>12, <2>13,
       <2>14, <2>15, <2>16, <2>17, <2>18, <2>19, <2>20, <2>21, <2>22, <2>23
       DEF Next, MainStep, Answer, Returned
<1>3. QED
  BY <1>1, <1>2, PTL DEF Spec

-----------------------------------------------------------------------------
(* The inductive invariant *)

BeforeChecks == {"command", "prompt", "connect", "layer", "source", "lock", "deps",
                 "depsDev", "qaTools", "vendor", "assets"}
AfterChecks == {"reports", "artifacts", "credentials", "release"}

\* Nothing has concluded while the tree is being built.
NothingYet ==
  /\ pc = "command" => plan = BlankPlan
  /\ pc \in BeforeChecks =>
       /\ \A c \in Checks : status[c] = "idle"
       /\ violations = {} /\ exported = {}
       /\ returned = {} /\ groupErr = "none"

\* The error the group keeps is a real failure, and a goroutine that returned without
\* passing has left one behind.
GroupInv ==
  /\ groupErr # "none" => status[groupErr] = "failed"
  /\ \A c \in Checks : status[c] = "cancelled" => groupErr # "none"
  /\ \A c \in returned : Finished(c) /\ (status[c] # "passed" => groupErr # "none")
  /\ pc \in AfterChecks => \A c \in Required(plan) : status[c] = "passed"

\* Only a run that cannot release tolerates a violation.
ReportInv ==
  /\ violations # {} => plan.report
  /\ plan.report => ~RunsRelease(plan)

\* The host is touched from the last phase only, and that phase follows the export.
ReleaseInv ==
  /\ pc \in {"credentials", "release"} => RunsRelease(plan) /\ Artifacts(plan) \subseteq exported
  /\ remote # Untouched => pc \in {"release", "done"}
  /\ RunsRelease(plan) => plan.ref \in Refs
  /\ ReleaseOnlyAfterChecks

OutcomeInv ==
  /\ pc # "done" => outcome = "running"
  /\ BlamesTheRealFailure

IInv == TypeOK /\ NothingYet /\ GroupInv /\ ReportInv /\ ReleaseInv /\ OutcomeInv

\* What the invariant reads of the plan is the same in both states of a step that keeps it.
LEMMA PlanFrame ==
  ASSUME plan' = plan
  PROVE  /\ Required(plan)' = Required(plan)
         /\ Artifacts(plan)' = Artifacts(plan)
         /\ RunsRelease(plan)' = RunsRelease(plan)
BY DEF Required, Artifacts, RunsRelease, BuildsArtifacts, BuildsAssets,
       NeedsDevDependencies, RunsQA, RunsTests

\* The inductive step, from the type of both states.
LEMMA InductiveStep ==
  ASSUME IInv, TypeOK', [Next]_vars
  PROVE  IInv'
<1> USE DEF IInv, NothingYet, GroupInv, ReportInv, ReleaseInv, OutcomeInv,
            ReleaseOnlyAfterChecks, BlamesTheRealFailure, Passed, Finished,
            BeforeChecks, AfterChecks, Untouched, invocation, engine, group, host
<1>1. CASE RefuseInvocation
  BY <1>1, PlanFrame DEF RefuseInvocation, End, TypeOK, Checks
<1>2. CASE ResolveDeploy
  BY <1>2, PlanFrame, PlanTypes DEF ResolveDeploy, DeployPlan, RunsRelease, TypeOK, Checks
<1>3. CASE ResolveChecks
  BY <1>3, PlanFrame DEF ResolveChecks, ChecksPlan, RunsRelease, Parts, TypeOK, Checks
<1>4. CASE SkipPrompt
  BY <1>4, PlanFrame DEF SkipPrompt, TypeOK, Checks
<1>5. CASE AnswerPrompt
  BY <1>5, PlanFrame DEF AnswerPrompt, End, TypeOK, Checks
<1>6. CASE Prepare
  BY <1>6, PlanFrame DEF Prepare, Advance, End, After, TypeOK, Checks
<1>7. CASE ResolveSource
  BY <1>7, PlanFrame DEF ResolveSource, Advance, End, After, TypeOK, Checks
<1>8. CASE SkipStep
  BY <1>8, PlanFrame DEF SkipStep, Advance, After, MainSteps, Included, TypeOK, Checks
<1>9. CASE Wait
  BY <1>9, PlanFrame DEF Wait, End, TypeOK, Checks
<1>10. CASE ReportsDone
  BY <1>10, PlanFrame DEF ReportsDone, TypeOK, Checks
<1>11. CASE ArtifactsDone
  BY <1>11, PlanFrame DEF ArtifactsDone, End, TypeOK, Checks
<1>12. CASE PrepareRelease
  BY <1>12, PlanFrame DEF PrepareRelease, End, TypeOK, Checks
<1>13. ASSUME NEW c \in Checks, ExportReport(c) PROVE IInv'
  BY <1>13, PlanFrame DEF ExportReport, End, TypeOK, Checks
<1>14. ASSUME NEW a \in {"vendor", "assets"}, ExportArtifact(a) PROVE IInv'
  BY <1>14, PlanFrame DEF ExportArtifact, End, TypeOK, Checks
<1>15. ASSUME NEW s \in MainSteps, EndStep(s) PROVE IInv'
  BY <1>15, PlanFrame DEF EndStep, End, Advance, After, MainSteps, Running, TypeOK, Checks
<1>16. CASE CheckOutOnRemote
  BY <1>16, PlanFrame DEF CheckOutOnRemote, TypeOK, Checks
<1>17. ASSUME NEW s \in Steps, PassCommand(s) PROVE IInv'
  BY <1>17, PlanFrame DEF PassCommand, Running, Steps, MainSteps, TypeOK, Checks
<1>18. ASSUME NEW s \in Steps, FailCommand(s) PROVE IInv'
  BY <1>18, PlanFrame DEF FailCommand, Running, Steps, MainSteps, TypeOK, Checks
<1>19. CASE Push
  BY <1>19, PlanFrame DEF Push, TypeOK, Checks
<1>20. ASSUME NEW s \in Steps, StartCommand(s) PROVE IInv'
  BY <1>20, PlanFrame DEF StartCommand, Running, Steps, MainSteps, TypeOK, Checks
<1>21. ASSUME NEW s \in Steps, CancelCommand(s) PROVE IInv'
  BY <1>21, PlanFrame DEF CancelCommand, Running, Cancelled, Steps, MainSteps, TypeOK, Checks
<1>22. ASSUME NEW s \in Steps, GroupReturn(s) PROVE IInv'
  BY <1>22, PlanFrame DEF GroupReturn, Running, Steps, MainSteps, TypeOK, Checks
<1>23. CASE UNCHANGED vars
  BY <1>23, PlanFrame DEF vars
<1>24. QED
  BY <1>1, <1>2, <1>3, <1>4, <1>5, <1>6, <1>7, <1>8, <1>9, <1>10, <1>11, <1>12, <1>13, <1>14, <1>15, <1>16, <1>17, <1>18, <1>19, <1>20, <1>21, <1>22, <1>23
     DEF Next, MainStep, Answer, Returned

LEMMA InvariantHolds == Spec => []IInv
<1>1. Init /\ TypeOK => IInv
  BY DEF Init, IInv, NothingYet, GroupInv, ReportInv, ReleaseInv, OutcomeInv,
         ReleaseOnlyAfterChecks, BlamesTheRealFailure, BeforeChecks, AfterChecks,
         BlankPlan, RunsRelease, Parts, Checks, Steps, MainSteps
<1>2. IInv /\ TypeOK' /\ [Next]_vars => IInv'
  BY InductiveStep
<1>3. QED
  BY <1>1, <1>2, TypeCorrect, PTL DEF Spec

\* Deployer touches the stage host only in a run whose checks all passed without
\* swallowing a violation and whose artifacts are exported, for every set of commits,
\* invocations and command counts.
THEOREM ReleaseGated == Spec => []ReleaseOnlyAfterChecks
BY InvariantHolds, PTL DEF IInv, ReleaseInv

\* Whatever the order in which the two checks fail, are cancelled and return, a run that
\* fails in the group names a check that failed by itself.
THEOREM BlameIsRight == Spec => []BlamesTheRealFailure
BY InvariantHolds, PTL DEF IInv, OutcomeInv

-----------------------------------------------------------------------------
(* The layers: what the program point says of the steps behind it *)

BehindDevDeps == {"qaTools", "vendor", "assets", "checks", "reports", "artifacts",
                  "credentials", "release"}
Layers ==
  /\ pc \in BehindDevDeps \cup {"depsDev"} => status["deps"] = "passed"
  /\ pc \in BehindDevDeps /\ NeedsDevDependencies(plan) => status["depsDev"] = "passed"
  /\ pc \in BehindDevDeps \ {"qaTools"} /\ RunsQA(plan) => status["qaTools"] = "passed"
  /\ pc \in BehindDevDeps \ {"qaTools", "vendor"} /\ BuildsArtifacts(plan) =>
       status["vendor"] = "passed"
LayerInv == Layers /\ BuiltOnALayer

\* The statuses of the steps before and after: one that has passed stays passed, and
\* only a running one leaves idle.
LEMMA StatusSteps ==
  ASSUME TypeOK, [Next]_vars, NEW s \in Steps
  PROVE  /\ status[s] = "passed" => status'[s] = "passed"
         /\ status[s] = "idle" /\ status'[s] # "idle" => Running(s)
<1> USE DEF TypeOK, engine
<1>1. ASSUME UNCHANGED status PROVE /\ status[s] = "passed" => status'[s] = "passed"
                                    /\ status[s] = "idle" /\ status'[s] # "idle" => Running(s)
  BY <1>1
<1>2. ASSUME NEW r \in Steps,
             StartCommand(r) \/ PassCommand(r) \/ FailCommand(r) \/ CancelCommand(r)
      PROVE  /\ status[s] = "passed" => status'[s] = "passed"
             /\ status[s] = "idle" /\ status'[s] # "idle" => Running(s)
  BY <1>2 DEF StartCommand, PassCommand, FailCommand, CancelCommand
<1>3. QED
  BY <1>1, <1>2
     DEF Next, MainStep, Answer, Returned, vars, RefuseInvocation, ResolveDeploy, ResolveChecks,
         SkipPrompt, AnswerPrompt, Prepare, ResolveSource, SkipStep, Wait, ReportsDone,
         ArtifactsDone, PrepareRelease, ExportReport, ExportArtifact, EndStep, CheckOutOnRemote,
         Push, GroupReturn

\* A step runs over the layer it is built on.
LEMMA RunsOnItsBase ==
  ASSUME Layers, NEW s \in Steps \ {"deps"}, Running(s)
  PROVE  status[Base[s]] = "passed"
BY DEF Layers, BehindDevDeps, Running, Included, Base, Steps, MainSteps, Checks, Required,
       NeedsDevDependencies, RunsQA, RunsTests

\* The plan's parts are the same in both states of a step that keeps it.
LEMMA PartsFrame ==
  ASSUME plan' = plan
  PROVE  /\ NeedsDevDependencies(plan)' = NeedsDevDependencies(plan)
         /\ RunsQA(plan)' = RunsQA(plan)
         /\ BuildsArtifacts(plan)' = BuildsArtifacts(plan)
BY DEF NeedsDevDependencies, RunsQA, RunsTests, BuildsArtifacts, RunsRelease

\* The program point leaves a step behind only when it has passed or is not in the plan.
LEMMA LayersStep ==
  ASSUME TypeOK, Layers, [Next]_vars
  PROVE  Layers'
<1> USE DEF invocation, engine, group, host, BehindDevDeps
<1>1. /\ status["deps"] = "passed" => status'["deps"] = "passed"
      /\ status["depsDev"] = "passed" => status'["depsDev"] = "passed"
      /\ status["qaTools"] = "passed" => status'["qaTools"] = "passed"
      /\ status["vendor"] = "passed" => status'["vendor"] = "passed"
  BY StatusSteps DEF Steps, MainSteps, Checks
<1>2. ASSUME pc' \notin BehindDevDeps \cup {"depsDev"} PROVE Layers'
  BY <1>2 DEF Layers
<1>3. ASSUME plan' = plan,
             pc' = pc \/ {pc, pc'} \subseteq {"checks", "reports", "artifacts", "credentials", "release"}
      PROVE  Layers'
  BY <1>1, <1>3, PartsFrame DEF Layers
<1>4. ASSUME NEW s \in MainSteps, EndStep(s) PROVE Layers'
  <2>1. CASE pc' = "done"
    BY <1>2, <2>1
  <2>2. CASE pc' # "done"
    <3>1. pc = s /\ status[s] = "passed" /\ pc' = After[s] /\ plan' = plan /\ s # "release"
      BY <1>4, <2>2 DEF EndStep, End, Advance, Running, MainSteps, Checks
    <3>2. QED
      BY <1>1, <3>1, PartsFrame DEF Layers, After, MainSteps
  <2>3. QED
    BY <2>1, <2>2
<1>5. CASE SkipStep
  <2>1. pc \in MainSteps /\ ~Included(plan, pc) /\ pc' = After[pc] /\ plan' = plan
    BY <1>5 DEF SkipStep, Advance
  <2>2. QED
    BY <1>1, <2>1, PartsFrame DEF Layers, After, MainSteps, Included
<1>6. CASE Prepare
  BY <1>2, <1>6 DEF Prepare, Advance, End, After
<1>7. QED
  BY <1>2, <1>3, <1>4, <1>5, <1>6
     DEF Next, MainStep, Answer, Returned, vars, RefuseInvocation, ResolveDeploy, ResolveChecks,
         SkipPrompt, AnswerPrompt, ResolveSource, Wait, ReportsDone, Advance, End, After,
         ArtifactsDone, PrepareRelease, ExportReport, ExportArtifact, CheckOutOnRemote,
         PassCommand, FailCommand, Push, StartCommand, CancelCommand, GroupReturn

LEMMA LayerInvStep ==
  ASSUME TypeOK, LayerInv, [Next]_vars
  PROVE  LayerInv'
<1>1. \A s \in Steps : Base[s] \in Steps
  BY DEF Steps, MainSteps, Checks, Base
<1>2. ASSUME NEW s \in Steps \ {"deps"}, status'[s] # "idle"
      PROVE  status'[Base[s]] = "passed"
  <2>1. status[Base[s]] = "passed"
    BY <1>2, StatusSteps, RunsOnItsBase DEF LayerInv, BuiltOnALayer
  <2>2. QED
    BY <1>1, <2>1, StatusSteps
<1>3. QED
  BY <1>2, LayersStep DEF LayerInv, BuiltOnALayer

\* No container is ever asked for on the nil the step's layer is declared with: whatever
\* the flags leave out, a step that has started has a base that was built.
THEOREM LayersAreBuilt == Spec => []BuiltOnALayer
<1>1. Init => LayerInv
  BY DEF Init, LayerInv, Layers, BuiltOnALayer, BehindDevDeps
<1>2. TypeOK /\ LayerInv /\ [Next]_vars => LayerInv'
  BY LayerInvStep
<1>3. LayerInv => BuiltOnALayer
  BY DEF LayerInv
<1>4. QED
  BY <1>1, <1>2, <1>3, TypeCorrect, PTL DEF Spec

-----------------------------------------------------------------------------
(* The pinned release: a job's own checkout is the ref of its plan *)

PinInv ==
  /\ plan.source = "host" /\ RunsRelease(plan) /\ inv.ref = NoRef => plan.ref = Checkout
  /\ pc \in {"lock", "deps", "checks"} \cup AfterChecks \cup MainSteps /\ plan.source = "host" =>
       built = Checkout
  /\ PinnedReleaseMatchesBuild

LEMMA PinStep ==
  ASSUME TypeOK, ReleaseInv, PinInv, [Next]_vars
  PROVE  PinInv'
<1> USE DEF invocation, engine, group, host, AfterChecks, MainSteps, PinInv, TypeOK,
            PinnedReleaseMatchesBuild
<1>1. ASSUME UNCHANGED <<inv, plan, remote, built>>,
             pc' \in {"lock", "deps", "checks"} \cup AfterChecks \cup MainSteps =>
               pc \in {"lock", "deps", "checks"} \cup AfterChecks \cup MainSteps
      PROVE  PinInv'
  BY <1>1, PlanFrame
<1>2. CASE ResolveDeploy
  BY <1>2 DEF ResolveDeploy, DeployPlan, DeployRef, ReleaseInv, Untouched
<1>3. CASE ResolveChecks
  BY <1>3 DEF ResolveChecks, ChecksPlan, ReleaseInv, RunsRelease, Parts, Checks, Untouched
<1>4. CASE ResolveSource
  BY <1>4, PlanFrame DEF ResolveSource, End, Advance, After, ReleaseInv, Untouched
<1>5. CASE CheckOutOnRemote
  <2>1. plan.source = "host" /\ inv.ref = NoRef => plan.ref = Checkout /\ built = Checkout
    BY <1>5 DEF CheckOutOnRemote, ReleaseInv
  <2>2. Resolve(Checkout) = Checkout
    BY PipelineAssumption DEF Resolve
  <2>3. QED
    BY <1>5, <2>1, <2>2, PlanFrame DEF CheckOutOnRemote
<1>6. ASSUME NEW s \in MainSteps, EndStep(s) PROVE PinInv'
  BY <1>1, <1>6 DEF EndStep, Running, Checks
<1>7. CASE Prepare \/ SkipStep
  BY <1>1, <1>7, PlanFrame DEF Prepare, SkipStep, Advance, End, After
<1>8. QED
  BY <1>1, <1>2, <1>3, <1>4, <1>5, <1>6, <1>7
     DEF Next, MainStep, Answer, Returned, vars, RefuseInvocation,
         SkipPrompt, AnswerPrompt, Wait, ReportsDone, Advance, End, After,
         ArtifactsDone, PrepareRelease, ExportReport, ExportArtifact,
         PassCommand, FailCommand, Push, StartCommand, CancelCommand, GroupReturn

\* A CI job without --ref releases the commit of its own checkout, the one its artifacts
\* were built from, wherever the deployed branch has moved since.
THEOREM PinnedReleases == Spec => []PinnedReleaseMatchesBuild
<1>1. Init => PinInv
  BY DEF Init, PinInv, BlankPlan, PinnedReleaseMatchesBuild, AfterChecks, MainSteps
<1>2. TypeOK /\ ReleaseInv /\ PinInv /\ [Next]_vars => PinInv'
  BY PinStep
<1>3. IInv => TypeOK /\ ReleaseInv
  BY DEF IInv
<1>4. PinInv => PinnedReleaseMatchesBuild
  BY DEF PinInv
<1>5. QED
  BY <1>1, <1>2, <1>3, <1>4, InvariantHolds, PTL DEF Spec

-----------------------------------------------------------------------------
(* Refinement of the abstract gate *)

LEMMA GateInit ==
  ASSUME Init
  PROVE  Gate!Init
BY DEF Init, Gate!Init, Verdict, Passed, BlankPlan, Artifacts, BuildsArtifacts,
       NeedsDevDependencies, RunsQA, RunsTests, RunsRelease, Parts, Checks, Steps, MainSteps

LEMMA VerdictFrame ==
  ASSUME status' = status, violations' = violations
  PROVE  [c \in Checks |-> Verdict(c)]' = [c \in Checks |-> Verdict(c)]
BY DEF Verdict, Passed

\* A step of one check leaves the verdict of the other one alone, and its own verdict
\* moves at most once.
LEMMA VerdictStep ==
  ASSUME TypeOK, NEW s \in Steps, PassCommand(s) \/ FailCommand(s) \/ CancelCommand(s)
  PROVE  \/ [c \in Checks |-> Verdict(c)]' = [c \in Checks |-> Verdict(c)]
         \/ /\ s \in Checks
            /\ Verdict(s) = "open"
            /\ \E v \in {"passed", "failed"} :
                 [c \in Checks |-> Verdict(c)]' = [[c \in Checks |-> Verdict(c)] EXCEPT ![s] = v]
<1> DEFINE before == [c \in Checks |-> Verdict(c)]
           step == PassCommand(s) \/ FailCommand(s) \/ CancelCommand(s)
<1>1. \A c \in Checks \ {s} : status'[c] = status[c] /\ (c \in violations' <=> c \in violations)
  BY DEF TypeOK, PassCommand, FailCommand, CancelCommand, Steps
<1>2. \A c \in Checks \ {s} : Verdict(c)' = Verdict(c)
  BY <1>1 DEF Verdict, Passed
<1>3. CASE s \notin Checks
  BY <1>2, <1>3
<1>4. CASE s \in Checks
  <2>1. status[s] \in {"idle", "running"} /\ violations \subseteq violations'
    BY DEF PassCommand, FailCommand, CancelCommand
  <2>2. Verdict(s) = IF s \in violations THEN "failed" ELSE "open"
    BY <2>1 DEF Verdict, Passed
  <2>3. status'[s] \in Statuses
    BY DEF TypeOK, PassCommand, FailCommand, CancelCommand, Statuses
  <2>4. Verdict(s)' \in {"open", "passed", "failed"} /\ (s \in violations => Verdict(s)' = "failed")
    BY <2>1, <2>3 DEF Verdict, Passed
  <2>5. CASE Verdict(s)' = Verdict(s)
    BY <1>2, <2>5
  <2>6. CASE Verdict(s)' # Verdict(s)
    <3>1. Verdict(s) = "open" /\ Verdict(s)' \in {"passed", "failed"}
      BY <2>2, <2>4, <2>6
    <3>2. [c \in Checks |-> Verdict(c)]' = [before EXCEPT ![s] = Verdict(s)']
      BY <1>2
    <3>3. QED
      BY <1>4, <3>1, <3>2
  <2>7. QED
    BY <2>5, <2>6
<1>5. QED
  BY <1>3, <1>4

\* Every step of the run is a step of the gate or leaves its five facts alone.
LEMMA GateStep ==
  ASSUME IInv, [Next]_vars
  PROVE  [Gate!Next]_(Gate!gateVars)
<1> USE DEF IInv, NothingYet, ReleaseInv, Gate!gateVars, Gate!Next, invocation, engine, group, host
<1>1. CASE RefuseInvocation
  BY <1>1, PlanFrame, VerdictFrame
     DEF RefuseInvocation, End, Gate!Return, BlankPlan, Required, Parts, Checks
<1>2. CASE ResolveDeploy \/ ResolveChecks
  <2>1. \A c \in Checks : Verdict(c) = "open"
    BY <1>2 DEF ResolveDeploy, ResolveChecks, BeforeChecks, Verdict, Passed
  <2>2. exported = {} /\ exported' = {} /\ Required(plan)' \in SUBSET Checks
    BY <1>2 DEF ResolveDeploy, ResolveChecks, BeforeChecks, Required
  <2>3. [c \in Checks |-> Verdict(c)]' = [c \in Checks |-> Verdict(c)]
    BY <1>2, VerdictFrame DEF ResolveDeploy, ResolveChecks
  <2>4. pc = "command" /\ pc' \notin {"command", "done"} /\ remote' = remote
    BY <1>2 DEF ResolveDeploy, ResolveChecks
  <2>5. Gate!Require
    BY <2>1, <2>2, <2>3, <2>4 DEF Gate!Require
  <2>6. QED
    BY <2>5
<1>4. CASE SkipPrompt \/ Prepare \/ ResolveSource \/ SkipStep \/ Wait \/ ReportsDone
           \/ ArtifactsDone \/ PrepareRelease \/ AnswerPrompt
  BY <1>4, PlanFrame, VerdictFrame
     DEF SkipPrompt, Prepare, ResolveSource, SkipStep, Wait, ReportsDone, ArtifactsDone,
         PrepareRelease, AnswerPrompt, End, Advance, After, MainSteps, Gate!Return
<1>5. ASSUME NEW c \in Checks, ExportReport(c) PROVE [Gate!Next]_(Gate!gateVars)
  BY <1>5, PlanFrame, VerdictFrame DEF ExportReport, End, Gate!Return
<1>6. ASSUME NEW a \in {"vendor", "assets"}, ExportArtifact(a) PROVE [Gate!Next]_(Gate!gateVars)
  BY <1>6, PlanFrame, VerdictFrame DEF ExportArtifact, End, Gate!Return, Gate!Deliver
<1>7. ASSUME NEW s \in MainSteps, EndStep(s) PROVE [Gate!Next]_(Gate!gateVars)
  BY <1>7, PlanFrame, VerdictFrame
     DEF EndStep, Running, End, Advance, After, MainSteps, Checks, Gate!Return
<1>8. CASE CheckOutOnRemote
  <2>1. \A c \in Required(plan) : Verdict(c) = "passed"
    BY <1>8 DEF CheckOutOnRemote, GroupInv, ReportInv, AfterChecks, Verdict, Passed
  <2>2. Artifacts(plan) \subseteq exported /\ exported # {}
    BY <1>8 DEF CheckOutOnRemote, Artifacts, BuildsArtifacts
  <2>3. Required(plan) \subseteq Checks
    BY DEF Required
  <2>4. remote' # Untouched
    BY <1>8, PipelineAssumption DEF CheckOutOnRemote, Untouched, Resolve, Refs, TypeOK
  <2>5. Gate!Release
    BY <1>8, <2>1, <2>2, <2>3, <2>4, PlanFrame, VerdictFrame DEF CheckOutOnRemote, Gate!Release
  <2>6. QED
    BY <2>5
<1>9. ASSUME NEW s \in Steps, PassCommand(s) \/ FailCommand(s) \/ CancelCommand(s)
      PROVE [Gate!Next]_(Gate!gateVars)
  BY <1>9, PlanFrame, VerdictStep DEF PassCommand, FailCommand, CancelCommand, Running, Gate!Conclude
<1>10. CASE Push
  BY <1>10, PlanFrame, VerdictFrame DEF Push
<1>11. ASSUME NEW s \in Steps, StartCommand(s) PROVE [Gate!Next]_(Gate!gateVars)
  <2>1. \A c \in Checks : Verdict(c)' = Verdict(c)
    BY <1>11 DEF StartCommand, Verdict, Passed, TypeOK
  <2>2. QED
    BY <1>11, <2>1, PlanFrame DEF StartCommand
<1>12. ASSUME NEW s \in Steps, GroupReturn(s) PROVE [Gate!Next]_(Gate!gateVars)
  BY <1>12, PlanFrame, VerdictFrame DEF GroupReturn
<1>13. CASE UNCHANGED vars
  BY <1>13, PlanFrame, VerdictFrame DEF vars
<1>14. QED
  BY <1>1, <1>2, <1>4, <1>5, <1>6, <1>7, <1>8, <1>9, <1>10, <1>11, <1>12, <1>13
     DEF Next, MainStep, Answer, Returned

\* A run of the pipeline is a behaviour of the abstract release gate: verdicts are final,
\* the host is touched only after every required check passed and the payload has been
\* delivered, and nothing changes once the run has returned.
THEOREM PipelineImplementsGate == Spec => ImplementsGate
<1>1. Init => Gate!Init
  BY GateInit
<1>2. IInv /\ [Next]_vars => [Gate!Next]_(Gate!gateVars)
  BY GateStep
<1>3. QED
  BY <1>1, <1>2, InvariantHolds, PTL DEF Spec, ImplementsGate, Gate!Spec

-----------------------------------------------------------------------------
(* Induction over the naturals, from the least element of a set.            *)

\* A set of naturals that is not empty has a least element.
LEMMA LeastElement ==
  ASSUME NEW S \in SUBSET Nat, S # {}
  PROVE  \E m \in S : \A k \in S : m <= k
<1>1. PICK x \in S : \A y \in S : ~(<<y, x>> \in OpToRel(<, Nat))
  <2>1. IsWellFoundedOn(OpToRel(<, Nat), Nat)
    BY NatLessThanWellFounded
  <2>2. QED
    BY <2>1, WFMin
<1>2. \A y \in S : ~(y < x)
  <2>1. \A y \in S : y < x => <<y, x>> \in OpToRel(<, Nat)
    BY DEF OpToRel
  <2>2. QED
    BY <1>1, <2>1, Zenon
<1>3. x \in S /\ x \in Nat
  OBVIOUS
<1> HIDE <1>1
<1>4. QED
  BY <1>2, <1>3

\* A set that holds 0 and with every natural its successor holds them all.
LEMMA EveryNatural ==
  ASSUME NEW S, 0 \in S, \A n \in Nat : n \in S => n + 1 \in S
  PROVE  Nat \subseteq S
<1>1. SUFFICES ASSUME Nat \ S # {} PROVE FALSE
  OBVIOUS
<1>2. PICK m \in Nat \ S : \A k \in Nat \ S : m <= k
  BY <1>1, LeastElement
<1>3. m - 1 \in Nat /\ m - 1 \in S
  BY <1>2
<1>4. QED
  BY <1>2, <1>3

-----------------------------------------------------------------------------
(* The entries of a span, picked from the log one by one.                   *)

Matches(e, c, kinds) == e.span = c /\ e.kind \in kinds

Picks(F, s, c, kinds, n) ==
  F = [i \in 0..n |-> IF i = 0 THEN <<>>
                      ELSE IF s[i].span = c /\ s[i].kind \in kinds
                             THEN Append(F[i - 1], s[i]) ELSE F[i - 1]]

\* What each value of such a function is, one entry at a time.
OneByOne(F, s, c, kinds, n) ==
  /\ F[0] = <<>>
  /\ \A i \in 1..n : F[i] = IF Matches(s[i], c, kinds) THEN Append(F[i - 1], s[i]) ELSE F[i - 1]

\* The function that picks does so one entry at a time.
LEMMA PicksOneByOne ==
  ASSUME NEW F, NEW s, NEW c, NEW kinds, NEW n \in Nat, Picks(F, s, c, kinds, n)
  PROVE  OneByOne(F, s, c, kinds, n)
<1> DEFINE G(i) == IF i = 0 THEN <<>> ELSE IF s[i].span = c /\ s[i].kind \in kinds
                             THEN Append(F[i - 1], s[i]) ELSE F[i - 1]
<1>1. \A i \in 0..n : F[i] = G(i)
  <2>1. F = [i \in 0..n |-> G(i)]
    BY Zenon DEF Picks
  <2> HIDE DEF G
  <2>2. QED
    BY <2>1, Zenon
<1>2. 0 \in 0..n /\ \A i \in 1..n : i \in 0..n /\ i # 0
  OBVIOUS
<1>3. F[0] = <<>>
  BY <1>1, <1>2
<1>4. \A i \in 1..n : F[i] = IF Matches(s[i], c, kinds) THEN Append(F[i - 1], s[i]) ELSE F[i - 1]
  BY <1>1, <1>2 DEF Matches
<1>5. QED
  BY <1>3, <1>4 DEF OneByOne

\* There is one for every length of the log.
LEMMA PicksExist ==
  ASSUME NEW s, NEW c, NEW kinds, NEW n \in Nat
  PROVE  \E F : Picks(F, s, c, kinds, n)
<1> DEFINE Good == {k \in Nat : \E F : Picks(F, s, c, kinds, k)}
<1>1. 0 \in Good
  <2> DEFINE F == [i \in 0..0 |-> <<>>]
  <2>1. Picks(F, s, c, kinds, 0)
    BY DEF Picks
  <2>2. QED
    BY <2>1
<1>2. ASSUME NEW k \in Nat, k \in Good PROVE k + 1 \in Good
  <2>1. PICK F : Picks(F, s, c, kinds, k)
    BY <1>2
  <2> DEFINE Step(G, i) == IF i = 0 THEN <<>>
                           ELSE IF s[i].span = c /\ s[i].kind \in kinds
                                  THEN Append(G[i - 1], s[i]) ELSE G[i - 1]
             G == [i \in 0..k + 1 |-> IF i <= k THEN F[i] ELSE Step(F, i)]
  <2>2. \A i \in 0..k : G[i] = F[i]
    OBVIOUS
  <2>3. G[k + 1] = Step(G, k + 1)
    <3>1. G[k + 1] = Step(F, k + 1)
      OBVIOUS
    <3>2. G[k] = F[k] /\ (k + 1) - 1 = k
      BY <2>2
    <3> HIDE DEF G
    <3>3. QED
      BY <3>1, <3>2
  <2>4. \A i \in 0..k : F[i] = Step(F, i)
    <3>1. F = [i \in 0..k |-> Step(F, i)]
      BY <2>1, Zenon DEF Picks
    <3> HIDE DEF Step
    <3>2. QED
      BY <3>1, Zenon
  <2>5. G = [i \in 0..k + 1 |-> G[i]]
    OBVIOUS
  <2> HIDE DEF G
  <2>6. \A i \in 0..k + 1 : G[i] = Step(G, i)
    <3> TAKE i \in 0..k + 1
    <3>1. CASE i = k + 1
      BY <2>3, <3>1
    <3>2. CASE i # k + 1
      <4>1. i \in 0..k /\ (i # 0 => i - 1 \in 0..k)
        BY <3>2
      <4>2. QED
        BY <2>2, <2>4, <4>1
    <3>3. QED
      BY <3>1, <3>2
  <2>7. Picks(G, s, c, kinds, k + 1)
    BY <2>5, <2>6 DEF Picks
  <2>8. QED
    BY <2>7
<1> HIDE DEF Good
<1>3. Nat \subseteq Good
  BY <1>1, <1>2, EveryNatural
<1>4. QED
  BY <1>3 DEF Good

\* Of is the last value of such a function.
LEMMA OfPicks ==
  ASSUME NEW s, NEW c, NEW kinds, Len(s) \in Nat
  PROVE  \E F : OneByOne(F, s, c, kinds, Len(s)) /\ Of(s, c, kinds) = F[Len(s)]
<1> DEFINE H == CHOOSE F : Picks(F, s, c, kinds, Len(s))
<1>1. Of(s, c, kinds) = H[Len(s)]
  BY DEF Of, Picks
<1>2. Picks(H, s, c, kinds, Len(s))
  BY PicksExist
<1>3. OneByOne(H, s, c, kinds, Len(s))
  BY <1>2, PicksOneByOne
<1>4. QED
  BY <1>1, <1>3

\* What is picked comes from the log, in the order of the log.
Picked(r, s, c, kinds, n) ==
  /\ \A k \in DOMAIN r : \E i \in 1..n : r[k] = s[i] /\ Matches(s[i], c, kinds)
  /\ \A k, l \in DOMAIN r : k < l => \E i, j \in 1..n : i < j /\ r[k] = s[i] /\ r[l] = s[j]

\* What Of picks are entries of the log, in the order of the log.
LEMMA OfKeeps ==
  ASSUME NEW N, NEW s \in Seq(N), NEW c, NEW kinds
  PROVE  /\ Of(s, c, kinds) \in Seq(N)
         /\ Picked(Of(s, c, kinds), s, c, kinds, Len(s))
<1>1. Len(s) \in Nat /\ DOMAIN s = 1..Len(s)
  OBVIOUS
<1>2. PICK F : OneByOne(F, s, c, kinds, Len(s)) /\ Of(s, c, kinds) = F[Len(s)]
  BY <1>1, OfPicks
<1> DEFINE Good == {n \in Nat : n <= Len(s) => F[n] \in Seq(N) /\ Picked(F[n], s, c, kinds, n)}
<1>3. 0 \in Good
  <2>1. F[0] = <<>> /\ <<>> \in Seq(N) /\ DOMAIN <<>> = {}
    BY <1>2 DEF OneByOne
  <2>2. Picked(<<>>, s, c, kinds, 0)
    BY <2>1 DEF Picked
  <2>3. QED
    BY <2>1, <2>2
<1>4. ASSUME NEW n \in Nat, n \in Good PROVE n + 1 \in Good
  <2> SUFFICES ASSUME n + 1 <= Len(s)
               PROVE  F[n + 1] \in Seq(N) /\ Picked(F[n + 1], s, c, kinds, n + 1)
    OBVIOUS
  <2>1. F[n] \in Seq(N) /\ Picked(F[n], s, c, kinds, n) /\ n + 1 \in 1..Len(s) /\ (n + 1) - 1 = n
    BY <1>1, <1>4
  <2>2. 1..n \subseteq 1..n + 1 /\ n + 1 \in 1..n + 1 /\ \A i \in 1..n : i < n + 1
    OBVIOUS
  <2>3. CASE ~Matches(s[n + 1], c, kinds)
    <3>1. F[n + 1] = F[n]
      BY <1>2, <2>1, <2>3 DEF OneByOne
    <3>2. Picked(F[n], s, c, kinds, n + 1)
      BY <2>1, <2>2 DEF Picked
    <3>3. QED
      BY <2>1, <3>1, <3>2
  <2>4. CASE Matches(s[n + 1], c, kinds)
    <3> DEFINE r == F[n]
               q == Append(r, s[n + 1])
    <3>1. F[n + 1] = q
      BY <1>2, <2>1, <2>4 DEF OneByOne
    <3>2. /\ q \in Seq(N) /\ DOMAIN q = 1..Len(r) + 1 /\ Len(r) \in Nat /\ DOMAIN r = 1..Len(r)
          /\ q[Len(r) + 1] = s[n + 1] /\ \A k \in 1..Len(r) : q[k] = r[k]
      BY <1>1, <2>1
    <3>3. Picked(r, s, c, kinds, n)
      BY <2>1
    <3> HIDE DEF q, r
    <3>4. \A k \in DOMAIN q : \E i \in 1..n + 1 : q[k] = s[i] /\ Matches(s[i], c, kinds)
      <4> TAKE k \in DOMAIN q
      <4>1. CASE k = Len(r) + 1
        BY <2>2, <2>4, <3>2, <4>1
      <4>2. CASE k # Len(r) + 1
        <5>1. k \in DOMAIN r /\ q[k] = r[k]
          BY <3>2, <4>2
        <5>2. QED
          BY <2>2, <3>3, <5>1 DEF Picked
      <4>3. QED
        BY <4>1, <4>2
    <3>5. \A k, l \in DOMAIN q : k < l => \E i, j \in 1..n + 1 : i < j /\ q[k] = s[i] /\ q[l] = s[j]
      <4> TAKE k, l \in DOMAIN q
      <4> HAVE k < l
      <4>1. k \in DOMAIN r /\ q[k] = r[k]
        BY <3>2
      <4>2. CASE l = Len(r) + 1
        <5>1. PICK i \in 1..n : r[k] = s[i]
          BY <3>3, <4>1 DEF Picked
        <5>2. QED
          BY <2>2, <3>2, <4>1, <4>2, <5>1
      <4>3. CASE l # Len(r) + 1
        <5>1. l \in DOMAIN r /\ q[l] = r[l]
          BY <3>2, <4>3
        <5>2. PICK i, j \in 1..n : i < j /\ r[k] = s[i] /\ r[l] = s[j]
          BY <3>3, <4>1, <5>1 DEF Picked
        <5>3. QED
          BY <2>2, <4>1, <5>1, <5>2
      <4>4. QED
        BY <4>2, <4>3
    <3>6. QED
      BY <3>1, <3>2, <3>4, <3>5 DEF Picked
  <2>5. QED
    BY <2>3, <2>4
<1> HIDE DEF Good
<1>5. Nat \subseteq Good
  BY <1>3, <1>4, EveryNatural
<1>6. QED
  BY <1>1, <1>2, <1>5 DEF Good

\* There is nothing to pick from an empty log.
LEMMA OfNothing ==
  ASSUME NEW c, NEW kinds
  PROVE  Of(<<>>, c, kinds) = <<>>
<1>1. Len(<<>>) = 0
  OBVIOUS
<1>2. PICK F : OneByOne(F, <<>>, c, kinds, Len(<<>>)) /\ Of(<<>>, c, kinds) = F[Len(<<>>)]
  BY <1>1, OfPicks
<1>3. QED
  BY <1>1, <1>2 DEF OneByOne

\* An entry added to the log is picked last, or not at all.
LEMMA OfAppend ==
  ASSUME NEW N, NEW s \in Seq(N), NEW e \in N, NEW c, NEW kinds
  PROVE  Of(Append(s, e), c, kinds) = IF Matches(e, c, kinds) THEN Append(Of(s, c, kinds), e)
                                      ELSE Of(s, c, kinds)
<1> DEFINE t == Append(s, e)
<1>1. /\ Len(s) \in Nat /\ Len(t) = Len(s) + 1 /\ t[Len(s) + 1] = e
      /\ \A i \in 1..Len(s) : t[i] = s[i]
  OBVIOUS
<1> HIDE DEF t
<1>2. PICK F : OneByOne(F, s, c, kinds, Len(s)) /\ Of(s, c, kinds) = F[Len(s)]
  BY <1>1, OfPicks
<1>3. PICK G : OneByOne(G, t, c, kinds, Len(t)) /\ Of(t, c, kinds) = G[Len(t)]
  BY <1>1, OfPicks
<1> DEFINE Good == {n \in Nat : n <= Len(s) => G[n] = F[n]}
<1>4. 0 \in Good
  BY <1>2, <1>3 DEF OneByOne
<1>5. ASSUME NEW n \in Nat, n \in Good PROVE n + 1 \in Good
  <2> SUFFICES ASSUME n + 1 <= Len(s) PROVE G[n + 1] = F[n + 1]
    OBVIOUS
  <2>1. G[n] = F[n] /\ n + 1 \in 1..Len(s) /\ n + 1 \in 1..Len(t) /\ (n + 1) - 1 = n /\ t[n + 1] = s[n + 1]
    BY <1>1, <1>5
  <2>2. F[n + 1] = IF Matches(s[n + 1], c, kinds) THEN Append(F[n], s[n + 1]) ELSE F[n]
    BY <1>2, <2>1 DEF OneByOne
  <2>3. G[n + 1] = IF Matches(t[n + 1], c, kinds) THEN Append(G[n], t[n + 1]) ELSE G[n]
    BY <1>3, <2>1 DEF OneByOne
  <2>4. QED
    BY <2>1, <2>2, <2>3
<1> HIDE DEF Good
<1>6. Len(s) \in Good
  BY <1>1, <1>4, <1>5, EveryNatural
<1>7. G[Len(s)] = Of(s, c, kinds)
  BY <1>1, <1>2, <1>6 DEF Good
<1>8. Len(t) \in 1..Len(t) /\ Len(t) - 1 = Len(s)
  BY <1>1
<1>9. G[Len(t)] = IF Matches(e, c, kinds) THEN Append(G[Len(s)], e) ELSE G[Len(s)]
  BY <1>1, <1>3, <1>8 DEF OneByOne
<1>10. QED
  BY <1>3, <1>7, <1>9 DEF t

-----------------------------------------------------------------------------
(* The order of lines. A command writes its lines in ascending order: what  *)
(* comes before what can only be said of two lines of one command.          *)

Before(x, y) == x[1] = y[1] => x[2] < y[2]
InOrder(s) == \A i, j \in DOMAIN s : i < j => Before(s[i], s[j])
Apart(s, t) == \A i \in DOMAIN s, j \in DOMAIN t : s[i] # t[j]

Entries == [span : Commands, kind : {"describe", "output"} \cup SpanStatuses, line : Lines]
Outputs(q) == {j \in DOMAIN q : q[j].kind = "output"}
BehindQueue(s, q) == \A i \in DOMAIN s : \A j \in Outputs(q) : Before(s[i], q[j].line)
Numbered(s, em) == \A i \in DOMAIN s : s[i][2] < em[s[i][1]]

\* em: what each command has emitted; q: the entries not folded yet; sp: the spans;
\* rd: the readers; pr: what each reader has returned, printed or about to be.
QueueInv(em, q) ==
  /\ \A i, j \in Outputs(q) : i < j => Before(q[i].line, q[j].line)
  /\ \A j \in Outputs(q) : q[j].line[2] < em[q[j].line[1]]

SpansInv(em, q, sp) ==
  /\ \A s \in Commands : Len(sp[s].lines) <= SpanLimit
  /\ \A s \in Commands : InOrder(sp[s].lines)
  /\ \A s \in Commands : BehindQueue(sp[s].lines, q)
  /\ \A s \in Commands : Numbered(sp[s].lines, em)
  /\ \A s, t \in Commands : s # t => Apart(sp[s].lines, sp[t].lines)

PrintedInv(em, q, pr) ==
  /\ \A c \in Commands : InOrder(pr[c])
  /\ \A c \in Commands : BehindQueue(pr[c], q)
  /\ \A c \in Commands : Numbered(pr[c], em)
  /\ \A c, d \in Commands : c # d => Apart(pr[c], pr[d])

BehindSpan(s, lines, seen) ==
  \A i \in DOMAIN s, j \in DOMAIN lines : j > seen => Before(s[i], lines[j])

ReadersInv(sp, rd, pr) ==
  /\ \A c \in Commands : rd[c].span = NoCommand => rd[c].seen = 0 /\ pr[c] = <<>>
  /\ \A c, d \in Commands : rd[c].span # NoCommand /\ rd[d].span = rd[c].span => d = c
  /\ \A c \in Commands : rd[c].span # NoCommand =>
       /\ rd[c].seen <= Len(sp[rd[c].span].lines)
       /\ BehindSpan(pr[c], sp[rd[c].span].lines, rd[c].seen)
  /\ \A c, s \in Commands : rd[c].span # s => Apart(pr[c], sp[s].lines)

LinesInv(em, q, sp, rd, pr) ==
  QueueInv(em, q) /\ SpansInv(em, q, sp) /\ PrintedInv(em, q, pr) /\ ReadersInv(sp, rd, pr)

Readers == [span : Commands \cup {NoCommand}, seen : 0..SpanLimit]

\* What a task's reader has returned.
Printed == [c \in Commands |-> shown[c] \o hand[c]]

\* A line is not before itself.
LEMMA BeforeDiffers ==
  ASSUME NEW x \in Lines, NEW y \in Lines, Before(x, y)
  PROVE  x # y
<1>1. x[2] \in Nat
  BY DEF Lines
<1>2. QED
  BY <1>1 DEF Before

-----------------------------------------------------------------------------
(* What is read of a log whose beginning is cut off.                        *)

\* The entries a look can read: the log, without its cut entry, or with that one misread.
LEMMA UnreadEntries ==
  ASSUME log \in Seq(Entries), NEW entries \in Unread
  PROVE  /\ entries \in Seq(Entries)
         /\ \/ entries = log
            \/ /\ cut /\ Len(log) > 0 /\ Len(entries) = Len(log) - 1
               /\ \A i \in 1..Len(entries) : entries[i] = log[i + 1]
            \/ /\ cut /\ Len(log) > 0 /\ Len(entries) = Len(log)
               /\ entries[1].kind = log[1].kind /\ entries[1].line = log[1].line
               /\ \A i \in 2..Len(entries) : entries[i] = log[i]
<1>1. CASE ~(cut /\ log # <<>>)
  BY <1>1 DEF Unread
<1>2. CASE cut /\ log # <<>>
  <2> DEFINE rest == Tail(log)
             first == Head(log)
  <2>1. /\ Len(log) \in Nat \ {0} /\ first \in Entries /\ first = log[1] /\ rest \in Seq(Entries)
        /\ Len(rest) = Len(log) - 1 /\ \A i \in 1..Len(rest) : rest[i] = log[i + 1]
    BY <1>2
  <2>2. PICK r \in Readings(first) : entries = r \o rest
    BY <1>2 DEF Unread
  <2> HIDE DEF rest, first
  <2>3. ASSUME r = <<>>
        PROVE  /\ entries \in Seq(Entries) /\ Len(entries) = Len(log) - 1
               /\ \A i \in 1..Len(entries) : entries[i] = log[i + 1]
    <3>1. entries = rest
      BY <2>1, <2>2, <2>3
    <3>2. QED
      BY <2>1, <3>1
  <2>4. ASSUME NEW e \in Entries, r = <<e>>, e.kind = first.kind, e.line = first.line
        PROVE  /\ entries \in Seq(Entries) /\ Len(entries) = Len(log)
               /\ entries[1].kind = log[1].kind /\ entries[1].line = log[1].line
               /\ \A i \in 2..Len(entries) : entries[i] = log[i]
    <3>1. entries = <<e>> \o rest
      BY <2>2, <2>4
    <3>2. /\ entries \in Seq(Entries) /\ Len(entries) = Len(rest) + 1 /\ entries[1] = e
          /\ \A i \in 2..Len(rest) + 1 : entries[i] = rest[i - 1]
      BY <2>1, <2>4, <3>1
    <3>3. \A i \in 2..Len(rest) + 1 : i - 1 \in 1..Len(rest) /\ (i - 1) + 1 = i
      BY <2>1
    <3> HIDE <3>1
    <3>4. QED
      BY <2>1, <2>4, <3>2, <3>3
  <2>5. ASSUME r = <<first>>
        PROVE  /\ entries \in Seq(Entries) /\ Len(entries) = Len(log)
               /\ entries[1].kind = log[1].kind /\ entries[1].line = log[1].line
               /\ \A i \in 2..Len(entries) : entries[i] = log[i]
    BY <2>1, <2>4, <2>5
  <2>6. ASSUME NEW c \in Commands, r = <<[first EXCEPT !.span = c]>> PROVE
          /\ entries \in Seq(Entries) /\ Len(entries) = Len(log)
          /\ entries[1].kind = log[1].kind /\ entries[1].line = log[1].line
          /\ \A i \in 2..Len(entries) : entries[i] = log[i]
    <3> DEFINE e == [first EXCEPT !.span = c]
    <3>1. e \in Entries /\ e.kind = first.kind /\ e.line = first.line
      BY <2>1, <2>6 DEF Entries
    <3> HIDE DEF e
    <3>2. r = <<e>>
      BY <2>6 DEF e
    <3>3. QED
      BY <2>4, <3>1, <3>2
  <2>7. r = <<>> \/ r = <<first>> \/ \E c \in Commands : r = <<[first EXCEPT !.span = c]>>
    BY <2>2, Zenon DEF Readings
  <2>8. Len(log) > 0
    BY <2>1
  <2>9. CASE \E c \in Commands : r = <<[first EXCEPT !.span = c]>>
    BY <1>2, <2>6, <2>8, <2>9, Zenon
  <2>10. CASE r = <<first>>
    BY <1>2, <2>5, <2>8, <2>10, Zenon
  <2>11. CASE r = <<>>
    BY <1>2, <2>3, <2>8, <2>11, Zenon
  <2>12. QED
    BY <2>7, <2>9, <2>10, <2>11, Zenon
<1>3. QED
  BY <1>1, <1>2

\* Whatever is read of the log keeps its order, and holds no line the log does not hold.
LEMMA UnreadKeeps ==
  ASSUME log \in Seq(Entries), NEW entries \in Unread, NEW em, NEW sp, NEW rd, NEW pr,
         LinesInv(em, log, sp, rd, pr)
  PROVE  LinesInv(em, entries, sp, rd, pr)
<1>1. \A i \in Outputs(entries) : \E k \in Outputs(log) : entries[i].line = log[k].line
  <2> TAKE i \in Outputs(entries)
  <2>1. i \in 1..Len(entries) /\ Len(entries) \in Nat /\ Len(log) \in Nat /\ DOMAIN log = 1..Len(log)
    BY UnreadEntries DEF Outputs
  <2>2. CASE entries = log
    BY <2>2
  <2>3. CASE Len(entries) = Len(log) - 1 /\ \A k \in 1..Len(entries) : entries[k] = log[k + 1]
    BY <2>1, <2>3 DEF Outputs
  <2>4. CASE /\ Len(entries) = Len(log)
             /\ entries[1].kind = log[1].kind /\ entries[1].line = log[1].line
             /\ \A k \in 2..Len(entries) : entries[k] = log[k]
    BY <2>1, <2>4 DEF Outputs
  <2>5. QED
    BY <2>2, <2>3, <2>4, UnreadEntries
<1>2. \A i, j \in Outputs(entries) : i < j =>
        \E k, l \in Outputs(log) : k < l /\ entries[i].line = log[k].line /\ entries[j].line = log[l].line
  <2> TAKE i, j \in Outputs(entries)
  <2> HAVE i < j
  <2>1. /\ i \in 1..Len(entries) /\ j \in 1..Len(entries) /\ Len(entries) \in Nat /\ Len(log) \in Nat
        /\ DOMAIN log = 1..Len(log) /\ entries[i].kind = "output" /\ entries[j].kind = "output"
    BY UnreadEntries DEF Outputs
  <2>2. CASE entries = log
    BY <2>2
  <2>3. CASE Len(entries) = Len(log) - 1 /\ \A k \in 1..Len(entries) : entries[k] = log[k + 1]
    <3>1. i + 1 \in Outputs(log) /\ j + 1 \in Outputs(log) /\ i + 1 < j + 1
      BY <2>1, <2>3 DEF Outputs
    <3>2. QED
      BY <2>1, <2>3, <3>1
  <2>4. CASE /\ Len(entries) = Len(log)
             /\ entries[1].kind = log[1].kind /\ entries[1].line = log[1].line
             /\ \A k \in 2..Len(entries) : entries[k] = log[k]
    BY <2>1, <2>4 DEF Outputs
  <2>5. QED
    BY <2>2, <2>3, <2>4, UnreadEntries
<1>3. QueueInv(em, entries)
  BY <1>1, <1>2 DEF LinesInv, QueueInv
<1>4. SpansInv(em, entries, sp)
  BY <1>1 DEF LinesInv, SpansInv, BehindQueue
<1>5. PrintedInv(em, entries, pr)
  BY <1>1 DEF LinesInv, PrintedInv, BehindQueue
<1>6. QED
  BY <1>3, <1>4, <1>5 DEF LinesInv

-----------------------------------------------------------------------------
(* Folding the log into the spans.                                          *)

Written(entries, s) == Of(entries, s, {"output"})

\* A sequence without its first d elements.
LEMMA WithoutFirst ==
  ASSUME NEW N, NEW s \in Seq(N), NEW d \in Nat, d <= Len(s)
  PROVE  /\ SubSeq(s, d + 1, Len(s)) \in Seq(N)
         /\ Len(SubSeq(s, d + 1, Len(s))) = Len(s) - d
         /\ \A j \in 1..Len(s) - d : SubSeq(s, d + 1, Len(s))[j] = s[d + j]
<1> DEFINE r == SubSeq(s, d + 1, Len(s))
<1>1. Len(s) \in Nat /\ \A k \in 1..Len(s) : s[k] \in N
  OBVIOUS
<1>2. Len(r) = Len(s) - d /\ \A j \in 1..Len(s) - d : r[j] = s[d + j]
  <2>1. r = [j \in 1..Len(s) - d |-> s[d + j]]
    BY <1>1
  <2>2. Len(s) - d \in Nat
    BY <1>1
  <2> HIDE DEF r
  <2>3. QED
    BY <2>1, <2>2
<1>3. r \in Seq(N)
  BY <1>1
<1>4. QED
  BY <1>2, <1>3

LinesOf(w) == [i \in DOMAIN w |-> w[i].line]

\* The lines of entries are lines.
LEMMA LinesOfType ==
  ASSUME NEW w \in Seq(Entries)
  PROVE  /\ LinesOf(w) \in Seq(Lines) /\ Len(LinesOf(w)) = Len(w) /\ Len(w) \in Nat
         /\ \A i \in 1..Len(w) : LinesOf(w)[i] = w[i].line
<1>1. \A i \in 1..Len(w) : w[i] \in Entries
  OBVIOUS
<1>2. \A e \in Entries : e.line \in Lines
  BY DEF Entries
<1>3. Len(w) \in Nat /\ DOMAIN w = 1..Len(w)
  OBVIOUS
<1>4. QED
  BY <1>1, <1>2, <1>3 DEF LinesOf

\* A span's new lines are its old ones and those it is given, without its first d.
Folded(old, w, d, new) ==
  /\ old \in Seq(Lines) /\ new \in Seq(Lines) /\ w \in Seq(Entries)
  /\ d \in Nat /\ d <= Len(old) + Len(w) /\ Len(new) = Len(old) + Len(w) - d
  /\ Len(new) <= SpanLimit
  /\ d > 0 => Len(new) = SpanLimit
  /\ \A j \in DOMAIN new :
       /\ d + j <= Len(old) => new[j] = old[d + j]
       /\ d + j > Len(old) => /\ (d + j) - Len(old) \in DOMAIN w
                              /\ new[j] = w[(d + j) - Len(old)].line

Joined(old, w) == old \o LinesOf(w)
Excess(n) == IF n > SpanLimit THEN n - SpanLimit ELSE 0
WithoutExcess(all) == SubSeq(all, Excess(Len(all)) + 1, Len(all))

\* The lines of a span and those the log adds to it.
LEMMA JoinedLines ==
  ASSUME NEW old \in Seq(Lines), NEW w \in Seq(Entries)
  PROVE  /\ Joined(old, w) \in Seq(Lines) /\ Len(Joined(old, w)) = Len(old) + Len(w)
         /\ Len(old) \in Nat /\ Len(w) \in Nat
         /\ \A k \in 1..Len(old) : Joined(old, w)[k] = old[k]
         /\ \A k \in 1..Len(w) : Joined(old, w)[Len(old) + k] = w[k].line
<1> DEFINE v == LinesOf(w)
<1>1. /\ v \in Seq(Lines) /\ Len(v) = Len(w) /\ Len(w) \in Nat
      /\ \A i \in 1..Len(w) : v[i] = w[i].line
  BY LinesOfType
<1> HIDE DEF v
<1>2. /\ old \o v \in Seq(Lines) /\ Len(old \o v) = Len(old) + Len(v) /\ Len(old) \in Nat
      /\ \A k \in 1..Len(old) : (old \o v)[k] = old[k]
      /\ \A k \in 1..Len(v) : (old \o v)[Len(old) + k] = v[k]
  <2> DEFINE all == old \o v
  <2>1. all \in Seq(Lines)
    BY <1>1
  <2>2. Len(all) = Len(old) + Len(v) /\ Len(old) \in Nat
    BY <1>1
  <2>3. \A k \in 1..Len(old) : all[k] = old[k]
    BY <1>1
  <2>4. \A k \in 1..Len(v) : all[Len(old) + k] = v[k]
    BY <1>1
  <2>5. QED
    BY <2>1, <2>2, <2>3, <2>4
<1>3. Joined(old, w) = old \o v
  BY DEF Joined, v
<1>4. QED
  BY <1>1, <1>2, <1>3

\* A span keeps the last of its lines.
LEMMA Trimmed ==
  ASSUME NEW old \in Seq(Lines), NEW w \in Seq(Entries)
  PROVE  Folded(old, w, Excess(Len(Joined(old, w))), WithoutExcess(Joined(old, w)))
<1> DEFINE all == Joined(old, w)
           d == Excess(Len(all))
           new == WithoutExcess(all)
<1>1. /\ all \in Seq(Lines) /\ Len(all) = Len(old) + Len(w)
      /\ Len(old) \in Nat /\ Len(w) \in Nat
      /\ \A k \in 1..Len(old) : all[k] = old[k]
      /\ \A k \in 1..Len(w) : all[Len(old) + k] = w[k].line
  BY JoinedLines
<1> HIDE DEF all
<1>2. SpanLimit \in Nat \ {0} /\ Len(all) \in Nat
  BY <1>1, WatchAssumption
<1>3. d \in Nat /\ d <= Len(all) /\ Len(all) - d <= SpanLimit /\ (d > 0 => Len(all) - d = SpanLimit)
  BY <1>2 DEF Excess
<1>4. new = SubSeq(all, d + 1, Len(all))
  BY DEF WithoutExcess
<1> HIDE DEF d, new
<1>5. /\ new \in Seq(Lines) /\ Len(new) = Len(all) - d
      /\ \A j \in 1..Len(all) - d : new[j] = all[d + j]
  BY <1>1, <1>3, <1>4, WithoutFirst
<1>6. DOMAIN new = 1..Len(all) - d /\ DOMAIN w = 1..Len(w)
  BY <1>5
<1>7. ASSUME NEW j \in DOMAIN new
      PROVE  /\ d + j <= Len(old) => new[j] = old[d + j]
             /\ d + j > Len(old) => /\ (d + j) - Len(old) \in DOMAIN w
                                    /\ new[j] = w[(d + j) - Len(old)].line
  <2>1. new[j] = all[d + j] /\ j \in 1..Len(all) - d
    BY <1>5, <1>6
  <2>2. d + j \in 1..Len(old) + Len(w)
    BY <1>1, <1>3, <2>1
  <2>3. ASSUME d + j <= Len(old) PROVE all[d + j] = old[d + j]
    <3>1. d + j \in 1..Len(old)
      BY <1>1, <2>2, <2>3
    <3>2. QED
      BY <1>1, <3>1
  <2>4. ASSUME d + j > Len(old)
        PROVE  (d + j) - Len(old) \in DOMAIN w /\ all[d + j] = w[(d + j) - Len(old)].line
    <3> DEFINE k == (d + j) - Len(old)
    <3>1. k \in 1..Len(w) /\ Len(old) + k = d + j
      BY <1>1, <2>2, <2>4
    <3> HIDE DEF k
    <3>2. all[Len(old) + k] = w[k].line
      BY <1>1, <3>1
    <3>3. QED
      BY <1>6, <3>1, <3>2 DEF k
  <2>5. QED
    BY <2>1, <2>3, <2>4
<1>8. d <= Len(old) + Len(w) /\ Len(new) = Len(old) + Len(w) - d
  BY <1>1, <1>3, <1>5
<1>9. Len(new) <= SpanLimit /\ (d > 0 => Len(new) = SpanLimit)
  BY <1>3, <1>5
<1>10. Folded(old, w, d, new)
  BY <1>3, <1>5, <1>7, <1>8, <1>9, Zenon DEF Folded
<1>11. QED
  BY <1>10 DEF all, d, new

\* The lines of a folded span.
LEMMA FoldedLines ==
  ASSUME spans \in [Commands -> Spans], NEW entries \in Seq(Entries), NEW s \in Commands
  PROVE  Folded(spans[s].lines, Written(entries, s), Dropped(entries, s), Consumed(entries)[s].lines)
<1> DEFINE old == spans[s].lines
           w == Written(entries, s)
<1>1. w \in Seq(Entries)
  BY OfKeeps DEF Written
<1>2. old \in Seq(Lines)
  BY DEF Spans
<1>3. AllLines(entries, s) = Joined(old, w)
  BY DEF AllLines, Written, LinesOf, Joined
<1>4. Consumed(entries)[s].lines = WithoutExcess(AllLines(entries, s))
  BY DEF Consumed, WithoutExcess, Excess, Dropped
<1>5. Dropped(entries, s) = Excess(Len(AllLines(entries, s)))
  BY DEF Dropped, Excess
<1> HIDE DEF old, w
<1>6. Folded(old, w, Dropped(entries, s), Consumed(entries)[s].lines)
  BY <1>1, <1>2, <1>3, <1>4, <1>5, Trimmed
<1>7. QED
  BY <1>6 DEF old, w

\* What a span is given are lines of the log, in the order of the log, and a line of the
\* log is given to one span.
LEMMA WrittenLines ==
  ASSUME NEW entries \in Seq(Entries), NEW s \in Commands
  PROVE  /\ Written(entries, s) \in Seq(Entries)
         /\ \A k \in DOMAIN Written(entries, s) :
              \E i \in Outputs(entries) :
                Written(entries, s)[k] = entries[i] /\ entries[i].span = s
         /\ \A k, l \in DOMAIN Written(entries, s) : k < l =>
              \E i, j \in Outputs(entries) :
                i < j /\ Written(entries, s)[k] = entries[i] /\ Written(entries, s)[l] = entries[j]
<1> DEFINE w == Written(entries, s)
<1>1. w \in Seq(Entries) /\ Picked(w, entries, s, {"output"}, Len(entries))
  BY OfKeeps DEF Written
<1>2. DOMAIN entries = 1..Len(entries)
  OBVIOUS
<1> HIDE DEF w
<1>3. \A k \in DOMAIN w : \E i \in Outputs(entries) : w[k] = entries[i] /\ entries[i].span = s
  BY <1>1, <1>2 DEF Picked, Matches, Outputs
<1>4. \A k \in DOMAIN w : w[k].kind = "output"
  BY <1>3 DEF Outputs
<1>5. \A k, l \in DOMAIN w : k < l =>
        \E i, j \in Outputs(entries) : i < j /\ w[k] = entries[i] /\ w[l] = entries[j]
  <2> TAKE k, l \in DOMAIN w
  <2> HAVE k < l
  <2>1. PICK i, j \in 1..Len(entries) : i < j /\ w[k] = entries[i] /\ w[l] = entries[j]
    BY <1>1 DEF Picked
  <2>2. i \in Outputs(entries) /\ j \in Outputs(entries)
    BY <1>2, <1>4, <2>1 DEF Outputs
  <2>3. QED
    BY <2>1, <2>2
<1>6. QED
  BY <1>1, <1>3, <1>5 DEF w

\* Each of them was in the span or is in the log.
LEMMA FoldedOrigin ==
  ASSUME spans \in [Commands -> Spans], NEW entries \in Seq(Entries), NEW s \in Commands,
         NEW j \in DOMAIN Consumed(entries)[s].lines
  PROVE  \/ /\ Dropped(entries, s) + j \in DOMAIN spans[s].lines
            /\ Consumed(entries)[s].lines[j] = spans[s].lines[Dropped(entries, s) + j]
         \/ \E i \in Outputs(entries) :
              Consumed(entries)[s].lines[j] = entries[i].line /\ entries[i].span = s
<1> DEFINE old == spans[s].lines
           new == Consumed(entries)[s].lines
           w == Written(entries, s)
           d == Dropped(entries, s)
<1>1. Folded(old, w, d, new)
  BY FoldedLines
<1>2. j \in DOMAIN new
  OBVIOUS
<1>3. \A k \in DOMAIN w : \E i \in Outputs(entries) : w[k] = entries[i] /\ entries[i].span = s
  BY WrittenLines
<1> HIDE DEF old, new, w, d
<1>4. j \in Nat \ {0} /\ Len(old) \in Nat /\ DOMAIN old = 1..Len(old) /\ d \in Nat
  BY <1>1, <1>2 DEF Folded
<1>5. CASE d + j <= Len(old)
  BY <1>1, <1>2, <1>4, <1>5 DEF Folded, old, new, d
<1>6. CASE d + j > Len(old)
  <2>1. \E k \in DOMAIN w : new[j] = w[k].line
    BY <1>1, <1>2, <1>6 DEF Folded
  <2>2. QED
    BY <1>3, <2>1 DEF new
<1>7. QED
  BY <1>4, <1>5, <1>6

\* Two lines of a folded span were two of its lines, one of its lines and a line of the
\* log, or two lines of the log, in that order.
LEMMA FoldedOrder ==
  ASSUME spans \in [Commands -> Spans], NEW entries \in Seq(Entries), NEW s \in Commands,
         InOrder(spans[s].lines), BehindQueue(spans[s].lines, entries),
         \A i, j \in Outputs(entries) : i < j => Before(entries[i].line, entries[j].line)
  PROVE  InOrder(Consumed(entries)[s].lines)
<1> DEFINE old == spans[s].lines
           new == Consumed(entries)[s].lines
           w == Written(entries, s)
           d == Dropped(entries, s)
<1>1. Folded(old, w, d, new)
  BY FoldedLines
<1>2. /\ \A k \in DOMAIN w : \E i \in Outputs(entries) : w[k] = entries[i]
      /\ \A k, l \in DOMAIN w : k < l =>
           \E i, j \in Outputs(entries) : i < j /\ w[k] = entries[i] /\ w[l] = entries[j]
  BY WrittenLines
<1>3. InOrder(old) /\ BehindQueue(old, entries)
  OBVIOUS
<1> HIDE DEF old, new, w, d
<1> SUFFICES ASSUME NEW j \in DOMAIN new, NEW k \in DOMAIN new, j < k
             PROVE  Before(new[j], new[k])
  BY DEF InOrder, new
<1>4. /\ j \in Nat \ {0} /\ k \in Nat \ {0} /\ Len(old) \in Nat /\ DOMAIN old = 1..Len(old) /\ d \in Nat
      /\ DOMAIN w \subseteq Nat
  BY <1>1 DEF Folded
<1>5. CASE d + k <= Len(old)
  <2>1. d + j \in DOMAIN old /\ d + k \in DOMAIN old /\ d + j < d + k /\ d + j <= Len(old)
    BY <1>4, <1>5
  <2>2. new[j] = old[d + j] /\ new[k] = old[d + k]
    BY <1>1, <1>5, <2>1 DEF Folded
  <2>3. QED
    BY <1>3, <2>1, <2>2 DEF InOrder
<1>6. CASE d + k > Len(old) /\ d + j <= Len(old)
  <2>1. new[j] = old[d + j]
    BY <1>1, <1>6 DEF Folded
  <2>2. d + j \in DOMAIN old
    BY <1>4, <1>6
  <2>3. PICK l \in DOMAIN w : new[k] = w[l].line
    BY <1>1, <1>6 DEF Folded
  <2>4. PICK i \in Outputs(entries) : w[l] = entries[i]
    BY <1>2
  <2>5. QED
    BY <1>3, <2>1, <2>2, <2>3, <2>4 DEF BehindQueue
<1>7. CASE d + k > Len(old) /\ d + j > Len(old)
  <2> DEFINE m == (d + j) - Len(old)
             n == (d + k) - Len(old)
  <2>1. m \in DOMAIN w /\ n \in DOMAIN w /\ new[j] = w[m].line /\ new[k] = w[n].line
    BY <1>1, <1>7 DEF Folded
  <2>2. m < n
    BY <1>4
  <2> HIDE DEF m, n
  <2>3. PICK a, b \in Outputs(entries) : a < b /\ w[m] = entries[a] /\ w[n] = entries[b]
    BY <1>2, <2>1, <2>2
  <2>4. QED
    BY <2>1, <2>3
<1>8. QED
  BY <1>4, <1>5, <1>6, <1>7

\* Folding moves the place of a reader and never its span.
LEMMA RebasedReader ==
  ASSUME reader \in [Commands -> Readers], NEW entries, NEW c \in Commands
  PROVE  /\ Rebased(entries)[c].span = reader[c].span
         /\ reader[c].span = NoCommand => Rebased(entries)[c].seen = reader[c].seen
         /\ reader[c].span # NoCommand =>
              Rebased(entries)[c].seen = IF reader[c].seen > Dropped(entries, reader[c].span)
                                         THEN reader[c].seen - Dropped(entries, reader[c].span) ELSE 0
         /\ Rebased(entries)[c] = [span |-> Rebased(entries)[c].span, seen |-> Rebased(entries)[c].seen]
BY DEF Rebased, Readers

\* Folding what is unread keeps every line in one place, in order.
LEMMA FoldKeeps ==
  ASSUME spans \in [Commands -> Spans], reader \in [Commands -> Readers],
         NEW entries \in Seq(Entries), NEW em, NEW pr \in [Commands -> Seq(Lines)],
         LinesInv(em, entries, spans, reader, pr)
  PROVE  LinesInv(em, <<>>, Consumed(entries), Rebased(entries), pr)
<1> DEFINE sp == Consumed(entries)
           rd == Rebased(entries)
<1>1. \A s \in Commands : Folded(spans[s].lines, Written(entries, s), Dropped(entries, s), sp[s].lines)
  BY FoldedLines
<1>2. \A s \in Commands : \A j \in DOMAIN sp[s].lines :
        \/ /\ Dropped(entries, s) + j \in DOMAIN spans[s].lines
           /\ sp[s].lines[j] = spans[s].lines[Dropped(entries, s) + j]
        \/ \E i \in Outputs(entries) : sp[s].lines[j] = entries[i].line /\ entries[i].span = s
  BY FoldedOrigin
<1>3. \A c \in Commands : /\ rd[c].span = reader[c].span
                          /\ reader[c].span = NoCommand => rd[c].seen = reader[c].seen
                          /\ reader[c].span # NoCommand =>
                               rd[c].seen = IF reader[c].seen > Dropped(entries, reader[c].span)
                                            THEN reader[c].seen - Dropped(entries, reader[c].span) ELSE 0
  BY RebasedReader
<1>4. QueueInv(em, entries) /\ SpansInv(em, entries, spans)
      /\ PrintedInv(em, entries, pr) /\ ReadersInv(spans, reader, pr)
  BY DEF LinesInv
<1>5. \A s \in Commands : InOrder(sp[s].lines)
  BY <1>4, FoldedOrder DEF QueueInv, SpansInv
<1> HIDE DEF sp, rd
<1>6. Outputs(<<>>) = {}
  BY DEF Outputs
<1>7. QueueInv(em, <<>>) /\ PrintedInv(em, <<>>, pr)
  BY <1>4, <1>6 DEF QueueInv, PrintedInv, BehindQueue
<1>8. \A i \in Outputs(entries) : entries[i].line \in Lines
  <2>1. \A i \in DOMAIN entries : entries[i] \in Entries
    OBVIOUS
  <2>2. \A e \in Entries : e.line \in Lines
    BY DEF Entries
  <2>3. QED
    BY <2>1, <2>2 DEF Outputs
<1>9. \A s \in Commands : spans[s].lines \in Seq(Lines)
  BY <1>1 DEF Folded
<1>10. SpansInv(em, <<>>, sp)
  <2>1. \A s \in Commands : Len(sp[s].lines) <= SpanLimit
    BY <1>1 DEF Folded
  <2>2. ASSUME NEW s \in Commands PROVE Numbered(sp[s].lines, em)
    <3> SUFFICES ASSUME NEW j \in DOMAIN sp[s].lines
                 PROVE  sp[s].lines[j][2] < em[sp[s].lines[j][1]]
      BY DEF Numbered
    <3>1. ASSUME NEW i \in DOMAIN spans[s].lines
          PROVE  spans[s].lines[i][2] < em[spans[s].lines[i][1]]
      BY <1>4 DEF SpansInv, Numbered
    <3>2. \A i \in Outputs(entries) : entries[i].line[2] < em[entries[i].line[1]]
      BY <1>4 DEF QueueInv
    <3>3. QED
      BY <1>2, <3>1, <3>2
  <2>3. ASSUME NEW s \in Commands, NEW t \in Commands, s # t
        PROVE  Apart(sp[s].lines, sp[t].lines)
    <3> SUFFICES ASSUME NEW j \in DOMAIN sp[s].lines, NEW k \in DOMAIN sp[t].lines
                 PROVE  sp[s].lines[j] # sp[t].lines[k]
      BY DEF Apart
    <3>1. \A a \in DOMAIN spans[s].lines, b \in DOMAIN spans[t].lines : spans[s].lines[a] # spans[t].lines[b]
      BY <1>4, <2>3 DEF SpansInv, Apart
    <3>2. \A a \in DOMAIN spans[s].lines, b \in Outputs(entries) : spans[s].lines[a] # entries[b].line
      BY <1>4, <1>8, <1>9, BeforeDiffers DEF SpansInv, BehindQueue
    <3>3. \A a \in DOMAIN spans[t].lines, b \in Outputs(entries) : spans[t].lines[a] # entries[b].line
      BY <1>4, <1>8, <1>9, BeforeDiffers DEF SpansInv, BehindQueue
    <3>4. \A a, b \in Outputs(entries) : entries[a].span = s /\ entries[b].span = t =>
            entries[a].line # entries[b].line
      <4> TAKE a, b \in Outputs(entries)
      <4> HAVE entries[a].span = s /\ entries[b].span = t
      <4>1. a \in Nat /\ b \in Nat /\ (a < b \/ b < a)
        BY <2>3 DEF Outputs
      <4>2. Before(entries[a].line, entries[b].line) \/ Before(entries[b].line, entries[a].line)
        BY <1>4, <4>1 DEF QueueInv
      <4>3. QED
        BY <1>8, <4>2, BeforeDiffers
    <3>5. QED
      BY <1>2, <3>1, <3>2, <3>3, <3>4
  <2>4. QED
    BY <1>5, <1>6, <2>1, <2>2, <2>3 DEF SpansInv, BehindQueue
<1>11. ReadersInv(sp, rd, pr)
  <2>1. ASSUME NEW c \in Commands, rd[c].span = NoCommand
        PROVE  rd[c].seen = 0 /\ pr[c] = <<>>
    BY <1>3, <1>4, <2>1 DEF ReadersInv
  <2>2. ASSUME NEW c \in Commands, NEW d \in Commands, rd[c].span # NoCommand, rd[d].span = rd[c].span
        PROVE  d = c
    BY <1>3, <1>4, <2>2 DEF ReadersInv
  <2>3. ASSUME NEW c \in Commands, rd[c].span # NoCommand
        PROVE  /\ rd[c].seen <= Len(sp[rd[c].span].lines)
               /\ BehindSpan(pr[c], sp[rd[c].span].lines, rd[c].seen)
    <3> DEFINE s == reader[c].span
               old == spans[s].lines
               new == sp[s].lines
               d == Dropped(entries, s)
               w == Written(entries, s)
    <3>1. s \in Commands /\ rd[c].span = s /\ reader[c].seen \in Nat
      <4>1. reader[c] \in Readers
        OBVIOUS
      <4>2. rd[c].span = reader[c].span
        BY <1>3
      <4>3. SpanLimit \in Nat
        BY WatchAssumption
      <4>4. QED
        BY <2>3, <4>1, <4>2, <4>3 DEF Readers
    <3>2. Folded(old, w, d, new)
      BY <1>1, <3>1
    <3>3. rd[c].seen = IF reader[c].seen > d THEN reader[c].seen - d ELSE 0
      BY <1>3, <2>3
    <3>4. reader[c].seen <= Len(old) /\ BehindSpan(pr[c], old, reader[c].seen)
      BY <1>4, <2>3, <3>1 DEF ReadersInv
    <3>5. \A j \in DOMAIN new :
            \/ d + j \in DOMAIN old /\ new[j] = old[d + j]
            \/ \E i \in Outputs(entries) : new[j] = entries[i].line
      BY <1>2, <3>1
    <3>6. BehindQueue(pr[c], entries)
      BY <1>4 DEF PrintedInv
    <3> HIDE DEF s, old, new, d, w
    <3>7. /\ Len(old) \in Nat /\ Len(new) \in Nat /\ Len(w) \in Nat /\ d \in Nat /\ DOMAIN new \subseteq Nat
          /\ Len(new) = Len(old) + Len(w) - d
      BY <3>2 DEF Folded
    <3>8. rd[c].seen <= Len(new)
      BY <3>1, <3>3, <3>4, <3>7
    <3>9. BehindSpan(pr[c], new, rd[c].seen)
      <4> SUFFICES ASSUME NEW i \in DOMAIN pr[c], NEW j \in DOMAIN new, j > rd[c].seen
                   PROVE  Before(pr[c][i], new[j])
        BY DEF BehindSpan
      <4>1. d + j > reader[c].seen
        BY <3>1, <3>3, <3>7
      <4>2. QED
        BY <3>4, <3>5, <3>6, <4>1 DEF BehindSpan, BehindQueue
    <3>10. QED
      BY <3>1, <3>8, <3>9 DEF s, new
  <2>4. ASSUME NEW c \in Commands, NEW s \in Commands, rd[c].span # s
        PROVE  Apart(pr[c], sp[s].lines)
    <3> SUFFICES ASSUME NEW i \in DOMAIN pr[c], NEW j \in DOMAIN sp[s].lines
                 PROVE  pr[c][i] # sp[s].lines[j]
      BY DEF Apart
    <3>1. \A b \in DOMAIN spans[s].lines : pr[c][i] # spans[s].lines[b]
      BY <1>3, <1>4, <2>4 DEF ReadersInv, Apart
    <3>2. \A b \in Outputs(entries) : pr[c][i] # entries[b].line
      <4>1. pr[c] \in Seq(Lines) /\ pr[c][i] \in Lines
        OBVIOUS
      <4>2. \A b \in Outputs(entries) : Before(pr[c][i], entries[b].line)
        BY <1>4 DEF PrintedInv, BehindQueue
      <4>3. QED
        BY <1>8, <4>1, <4>2, BeforeDiffers, Zenon
    <3>3. \/ \E b \in DOMAIN spans[s].lines : sp[s].lines[j] = spans[s].lines[b]
          \/ \E b \in Outputs(entries) : sp[s].lines[j] = entries[b].line
      BY <1>2, Zenon
    <3>4. QED
      BY <3>1, <3>2, <3>3, Zenon
  <2>5. QED
    BY <2>1, <2>2, <2>3, <2>4 DEF ReadersInv
<1>12. QED
  BY <1>7, <1>10, <1>11 DEF LinesInv, sp, rd

-----------------------------------------------------------------------------
(* Binding a reader to a span, and returning what is new in it.             *)

\* Binding a reader to a span that no other has.
LEMMA BindKeeps ==
  ASSUME NEW sp, NEW rd \in [Commands -> Readers], NEW em, NEW pr, LinesInv(em, <<>>, sp, rd, pr),
         NEW c \in Commands, NEW b \in Commands, rd[c].span = NoCommand,
         \A d \in Commands : rd[d].span # b,
         \A s \in Commands : Len(sp[s].lines) \in Nat
  PROVE  LinesInv(em, <<>>, sp, [rd EXCEPT ![c] = [span |-> b, seen |-> rd[c].seen]], pr)
<1> DEFINE r == [rd EXCEPT ![c] = [span |-> b, seen |-> rd[c].seen]]
<1>1. \A d \in Commands : /\ d = c => r[d].span = b /\ r[d].seen = rd[d].seen
                          /\ d # c => r[d] = rd[d]
  OBVIOUS
<1>2. ReadersInv(sp, rd, pr)
  BY DEF LinesInv
<1> HIDE DEF r
<1>3. rd[c].seen = 0 /\ pr[c] = <<>> /\ DOMAIN pr[c] = {} /\ b # NoCommand
  <2>1. rd[c].seen = 0 /\ pr[c] = <<>>
    BY <1>2 DEF ReadersInv
  <2>2. QED
    BY <2>1, WatchAssumption
<1>4. ASSUME NEW d \in Commands, r[d].span = NoCommand PROVE r[d].seen = 0 /\ pr[d] = <<>>
  BY <1>1, <1>2, <1>3, <1>4 DEF ReadersInv
<1>5. ASSUME NEW d \in Commands, NEW e \in Commands, r[d].span # NoCommand, r[e].span = r[d].span
      PROVE  e = d
  BY <1>1, <1>2, <1>5 DEF ReadersInv
<1>6. ASSUME NEW d \in Commands, r[d].span # NoCommand
      PROVE  /\ r[d].seen <= Len(sp[r[d].span].lines)
             /\ BehindSpan(pr[d], sp[r[d].span].lines, r[d].seen)
  <2>1. CASE d = c
    BY <1>1, <1>3, <2>1 DEF BehindSpan
  <2>2. CASE d # c
    BY <1>1, <1>2, <1>6, <2>2 DEF ReadersInv
  <2>3. QED
    BY <2>1, <2>2
<1>7. ASSUME NEW d \in Commands, NEW s \in Commands, r[d].span # s PROVE Apart(pr[d], sp[s].lines)
  <2>1. CASE d = c
    BY <1>3, <2>1 DEF Apart
  <2>2. CASE d # c
    BY <1>1, <1>2, <1>7, <2>2 DEF ReadersInv
  <2>3. QED
    BY <2>1, <2>2
<1>8. ReadersInv(sp, r, pr)
  BY <1>4, <1>5, <1>6, <1>7 DEF ReadersInv
<1>9. QED
  BY <1>8 DEF LinesInv, r

\* q is r and the lines that follow the first `seen' ones.
Grown(q, r, lines, seen) ==
  /\ q \in Seq(Lines) /\ Len(q) = Len(r) + (Len(lines) - seen) /\ Len(r) \in Nat
  /\ \A k \in DOMAIN q :
       /\ k <= Len(r) => k \in DOMAIN r /\ q[k] = r[k]
       /\ k > Len(r) => /\ seen + (k - Len(r)) \in DOMAIN lines
                        /\ q[k] = lines[seen + (k - Len(r))]

\* Where an element of the second of two joined sequences is.
LEMMA PartOfTotal ==
  ASSUME NEW k \in Nat, NEW m \in Nat, NEW seen \in Nat, NEW n \in Nat,
         seen <= n, k > m, k <= m + (n - seen)
  PROVE  /\ k - m \in 1..n - seen /\ m + (k - m) = k /\ seen + (k - m) \in 1..n
OBVIOUS

\* Appending the lines that follow the first ones.
LEMMA GrownByRest ==
  ASSUME NEW r \in Seq(Lines), NEW lines \in Seq(Lines), NEW seen \in Nat, seen <= Len(lines)
  PROVE  Grown(r \o SubSeq(lines, seen + 1, Len(lines)), r, lines, seen)
<1> DEFINE fresh == SubSeq(lines, seen + 1, Len(lines))
           q == r \o fresh
<1>1. /\ fresh \in Seq(Lines) /\ Len(fresh) = Len(lines) - seen
      /\ \A j \in 1..Len(lines) - seen : fresh[j] = lines[seen + j]
  BY WithoutFirst
<1> HIDE DEF fresh
<1>2. fresh \in Seq(Lines)
  BY <1>1
<1>3. /\ q \in Seq(Lines) /\ Len(q) = Len(r) + Len(fresh) /\ Len(r) \in Nat /\ Len(fresh) \in Nat
  BY <1>2
<1>4. /\ \A k \in 1..Len(r) : q[k] = r[k]
      /\ \A k \in 1..Len(fresh) : q[Len(r) + k] = fresh[k]
  BY <1>2
<1> HIDE DEF q
<1>5. DOMAIN q = 1..Len(r) + Len(fresh) /\ DOMAIN r = 1..Len(r) /\ DOMAIN lines = 1..Len(lines)
  BY <1>3
<1>6. ASSUME NEW k \in DOMAIN q, k <= Len(r) PROVE k \in DOMAIN r /\ q[k] = r[k]
  <2>1. k \in 1..Len(r)
    BY <1>3, <1>5, <1>6
  <2>2. QED
    BY <1>4, <1>5, <2>1
<1>7. ASSUME NEW k \in DOMAIN q, k > Len(r)
      PROVE  seen + (k - Len(r)) \in DOMAIN lines /\ q[k] = lines[seen + (k - Len(r))]
  <2> DEFINE l == k - Len(r)
  <2>1. k \in Nat /\ Len(lines) \in Nat /\ k <= Len(r) + (Len(lines) - seen)
    BY <1>1, <1>3, <1>5
  <2>2. l \in 1..Len(lines) - seen /\ Len(r) + l = k /\ seen + l \in 1..Len(lines)
    BY <1>3, <1>7, <2>1, PartOfTotal
  <2> HIDE DEF l
  <2>3. q[Len(r) + l] = fresh[l] /\ fresh[l] = lines[seen + l]
    BY <1>1, <1>4, <2>2
  <2>4. seen + l \in DOMAIN lines /\ q[k] = lines[seen + l]
    BY <1>5, <2>2, <2>3
  <2>5. QED
    BY <2>4 DEF l
<1>8. Grown(q, r, lines, seen)
  <2>1. Len(q) = Len(r) + (Len(lines) - seen)
    BY <1>1, <1>3
  <2>2. QED
    BY <1>3, <1>6, <1>7, <2>1, Zenon DEF Grown
<1>9. QED
  BY <1>8 DEF q, fresh

\* A reader returns the lines of its span it has not returned yet.
LEMMA ReturnKeeps ==
  ASSUME NEW sp \in [Commands -> Spans], NEW rd \in [Commands -> Readers], NEW em,
         NEW pr \in [Commands -> Seq(Lines)], LinesInv(em, <<>>, sp, rd, pr),
         NEW c \in Commands, rd[c].span # NoCommand
  PROVE  LET lines == sp[rd[c].span].lines
         IN  LinesInv(em, <<>>, sp,
                      [rd EXCEPT ![c] = [span |-> rd[c].span, seen |-> Len(lines)]],
                      [pr EXCEPT ![c] = pr[c] \o SubSeq(lines, rd[c].seen + 1, Len(lines))])
<1> DEFINE b == rd[c].span
           seen == rd[c].seen
           lines == sp[b].lines
           fresh == SubSeq(lines, seen + 1, Len(lines))
           r == [rd EXCEPT ![c] = [span |-> b, seen |-> Len(lines)]]
           p == [pr EXCEPT ![c] = pr[c] \o fresh]
<1>1. /\ SpansInv(em, <<>>, sp) /\ PrintedInv(em, <<>>, pr) /\ ReadersInv(sp, rd, pr)
      /\ QueueInv(em, <<>>)
  BY DEF LinesInv
<1>2. b \in Commands /\ seen \in Nat /\ \A s \in Commands : sp[s].lines \in Seq(Lines)
  <2>1. rd[c] \in Readers /\ SpanLimit \in Nat /\ \A s \in Commands : sp[s] \in Spans
    BY WatchAssumption
  <2>2. QED
    BY <2>1 DEF Readers, Spans
<1>3. seen <= Len(lines) /\ BehindSpan(pr[c], lines, seen) /\ Len(lines) \in Nat /\ lines \in Seq(Lines)
  BY <1>1, <1>2 DEF ReadersInv
<1>4. \A d \in Commands : /\ d = c => r[d].span = b /\ r[d].seen = Len(lines) /\ p[d] = pr[c] \o fresh
                          /\ d # c => r[d] = rd[d] /\ p[d] = pr[d]
  OBVIOUS
<1> DEFINE q == pr[c] \o fresh
<1> HIDE DEF b, seen, lines, r, p
<1>5. pr[c] \in Seq(Lines)
  OBVIOUS
<1>6. Grown(q, pr[c], lines, seen)
  BY <1>2, <1>3, <1>5, GrownByRest
<1> HIDE DEF q, fresh
<1>7. DOMAIN q \subseteq Nat /\ Len(pr[c]) \in Nat /\ DOMAIN lines = 1..Len(lines)
  <2>1. q \in Seq(Lines) /\ Len(pr[c]) \in Nat
    BY <1>6 DEF Grown
  <2>2. QED
    BY <1>3, <2>1
<1>8. \A k \in DOMAIN q : /\ k <= Len(pr[c]) => k \in DOMAIN pr[c] /\ q[k] = pr[c][k]
                          /\ k > Len(pr[c]) => /\ seen + (k - Len(pr[c])) \in DOMAIN lines
                                               /\ q[k] = lines[seen + (k - Len(pr[c]))]
  BY <1>6 DEF Grown
<1>9. \A k \in DOMAIN q : k <= Len(pr[c]) \/ k > Len(pr[c])
  BY <1>7
<1>10. \A k \in DOMAIN q : (\E i \in DOMAIN pr[c] : q[k] = pr[c][i]) \/ (\E j \in DOMAIN lines : q[k] = lines[j])
  BY <1>8, <1>9
<1>11. InOrder(q)
  <2> SUFFICES ASSUME NEW k \in DOMAIN q, NEW l \in DOMAIN q, k < l PROVE Before(q[k], q[l])
    BY DEF InOrder
  <2>1. InOrder(pr[c]) /\ InOrder(lines)
    BY <1>1, <1>2 DEF PrintedInv, SpansInv, lines
  <2>2. k \in Nat /\ l \in Nat
    BY <1>7
  <2>3. CASE l <= Len(pr[c])
    <3>1. /\ k \in DOMAIN pr[c] /\ q[k] = pr[c][k] /\ l \in DOMAIN pr[c] /\ q[l] = pr[c][l]
      BY <1>7, <1>8, <2>2, <2>3
    <3>2. QED
      BY <2>1, <3>1 DEF InOrder
  <2>4. CASE l > Len(pr[c]) /\ k <= Len(pr[c])
    <3>1. k \in DOMAIN pr[c] /\ q[k] = pr[c][k]
      BY <1>7, <1>8, <2>2, <2>4
    <3>2. seen + (l - Len(pr[c])) \in DOMAIN lines /\ q[l] = lines[seen + (l - Len(pr[c]))]
      BY <1>8, <2>2, <2>4
    <3>3. seen + (l - Len(pr[c])) > seen
      BY <1>2, <1>7, <2>2, <2>4
    <3>4. QED
      BY <1>3, <3>1, <3>2, <3>3 DEF BehindSpan
  <2>5. CASE l > Len(pr[c]) /\ k > Len(pr[c])
    <3>1. seen + (l - Len(pr[c])) \in DOMAIN lines /\ q[l] = lines[seen + (l - Len(pr[c]))]
      BY <1>8, <2>2, <2>5
    <3>2. seen + (k - Len(pr[c])) \in DOMAIN lines /\ q[k] = lines[seen + (k - Len(pr[c]))]
      BY <1>8, <2>2, <2>5
    <3>3. seen + (k - Len(pr[c])) < seen + (l - Len(pr[c]))
      BY <1>2, <1>7, <2>2
    <3>4. QED
      BY <2>1, <3>1, <3>2, <3>3 DEF InOrder
  <2>6. QED
    BY <1>7, <2>2, <2>3, <2>4, <2>5
<1>12. Outputs(<<>>) = {}
  BY DEF Outputs
<1>13. PrintedInv(em, <<>>, p)
  <2>1. \A d \in Commands : InOrder(p[d])
    BY <1>1, <1>4, <1>11 DEF PrintedInv, q
  <2>2. Numbered(q, em)
    <3>1. Numbered(pr[c], em) /\ Numbered(lines, em)
      BY <1>1, <1>2 DEF PrintedInv, SpansInv, lines
    <3>2. QED
      BY <1>10, <3>1 DEF Numbered
  <2>3. \A d \in Commands : Numbered(p[d], em)
    BY <1>1, <1>4, <2>2 DEF PrintedInv, q
  <2>4. ASSUME NEW d \in Commands, d # c PROVE Apart(q, pr[d]) /\ Apart(pr[d], q)
    <3>1. rd[d].span # b
      BY <1>1, <2>4 DEF ReadersInv, b
    <3>2. Apart(pr[c], pr[d])
      BY <1>1, <2>4 DEF PrintedInv
    <3>3. Apart(pr[d], lines)
      BY <1>1, <1>2, <3>1 DEF ReadersInv, lines
    <3>4. ASSUME NEW k \in DOMAIN q, NEW i \in DOMAIN pr[d] PROVE q[k] # pr[d][i]
      BY <1>10, <3>2, <3>3 DEF Apart
    <3>5. QED
      BY <3>4 DEF Apart
  <2>5. \A d, e \in Commands : d # e => Apart(p[d], p[e])
    BY <1>1, <1>4, <2>4 DEF PrintedInv, q
  <2>6. QED
    BY <1>12, <2>1, <2>3, <2>5 DEF PrintedInv, BehindQueue
<1>14. ReadersInv(sp, r, p)
  <2>1. b # NoCommand
    BY <1>2, WatchAssumption
  <2>2. ASSUME NEW d \in Commands, r[d].span = NoCommand PROVE r[d].seen = 0 /\ p[d] = <<>>
    BY <1>1, <1>4, <2>1, <2>2 DEF ReadersInv
  <2>3. ASSUME NEW d \in Commands, NEW e \in Commands, r[d].span # NoCommand, r[e].span = r[d].span
        PROVE  e = d
    <3>1. r[d].span = rd[d].span /\ r[e].span = rd[e].span
      BY <1>4 DEF b
    <3>2. QED
      BY <1>1, <2>3, <3>1 DEF ReadersInv
  <2>4. ASSUME NEW d \in Commands, r[d].span # NoCommand
        PROVE  /\ r[d].seen <= Len(sp[r[d].span].lines)
               /\ BehindSpan(p[d], sp[r[d].span].lines, r[d].seen)
    <3>1. CASE d = c
      <4>1. r[d].span = b /\ r[d].seen = Len(lines) /\ sp[b].lines = lines
        BY <1>4, <3>1 DEF lines
      <4>2. \A j \in DOMAIN lines : ~(j > Len(lines))
        BY <1>3, <1>7
      <4>3. QED
        BY <1>3, <4>1, <4>2 DEF BehindSpan
    <3>2. CASE d # c
      BY <1>1, <1>4, <2>4, <3>2 DEF ReadersInv
    <3>3. QED
      BY <3>1, <3>2
  <2>5. ASSUME NEW d \in Commands, NEW s \in Commands, r[d].span # s PROVE Apart(p[d], sp[s].lines)
    <3>1. CASE d = c
      <4>1. b # s /\ p[d] = q
        BY <1>4, <2>5, <3>1 DEF q
      <4>2. Apart(pr[c], sp[s].lines)
        BY <1>1, <4>1 DEF ReadersInv, b
      <4>3. Apart(lines, sp[s].lines)
        BY <1>1, <1>2, <4>1 DEF SpansInv, lines
      <4>4. QED
        BY <1>10, <4>1, <4>2, <4>3 DEF Apart
    <3>2. CASE d # c
      BY <1>1, <1>4, <2>5, <3>2 DEF ReadersInv
    <3>3. QED
      BY <3>1, <3>2
  <2>6. QED
    BY <2>2, <2>3, <2>4, <2>5 DEF ReadersInv
<1>15. LinesInv(em, <<>>, sp, r, p)
  BY <1>1, <1>13, <1>14 DEF LinesInv
<1>16. QED
  BY <1>15 DEF r, p, fresh, lines, seen, b

-----------------------------------------------------------------------------
(* One look at the log: fold what is unread, find the span, return.         *)

\* Folded spans are spans.
LEMMA ConsumedType ==
  ASSUME spans \in [Commands -> Spans], NEW entries \in Seq(Entries)
  PROVE  Consumed(entries) \in [Commands -> Spans]
<1> SUFFICES ASSUME NEW s \in Commands
             PROVE  /\ Described(entries, s) \in Commands \cup {NoCommand}
                    /\ Closed(entries, s) \in SpanStatuses
                    /\ Consumed(entries)[s].lines \in Seq(Lines)
  BY DEF Consumed, Spans
<1>1. spans[s].of \in Commands \cup {NoCommand} /\ spans[s].status \in SpanStatuses
  BY DEF Spans
<1>2. Consumed(entries)[s].lines \in Seq(Lines)
  BY FoldedLines DEF Folded
<1>3. Described(entries, s) \in Commands \cup {NoCommand}
  <2> DEFINE found == Of(entries, s, {"describe"})
  <2>1. found \in Seq(Entries)
    BY OfKeeps
  <2> HIDE DEF found
  <2>2. found # <<>> => Head(found) \in Entries
    BY <2>1
  <2>3. \A e \in Entries : e.line[1] \in Commands
    BY DEF Entries, Lines
  <2>4. QED
    BY <1>1, <2>2, <2>3 DEF Described, found
<1>4. Closed(entries, s) \in SpanStatuses
  <2> DEFINE found == Of(entries, s, {"DONE", "CACHED"})
  <2>1. found \in Seq(Entries) /\ Picked(found, entries, s, {"DONE", "CACHED"}, Len(entries))
    BY OfKeeps
  <2> HIDE DEF found
  <2>2. ASSUME found # <<>> PROVE found[Len(found)].kind \in {"DONE", "CACHED"}
    <3>1. Len(found) \in DOMAIN found
      BY <2>1, <2>2
    <3>2. QED
      BY <2>1, <3>1 DEF Picked, Matches
  <2>3. QED
    BY <1>1, <2>2 DEF Closed, found, Last, SpanStatuses
<1>5. QED
  BY <1>2, <1>3, <1>4

\* Readers stay readers.
LEMMA RebasedType ==
  ASSUME spans \in [Commands -> Spans], reader \in [Commands -> Readers],
         NEW entries \in Seq(Entries)
  PROVE  Rebased(entries) \in [Commands -> Readers]
<1> SUFFICES ASSUME NEW c \in Commands PROVE Rebased(entries)[c] \in Readers
  BY DEF Rebased
<1>1. /\ reader[c] \in Readers /\ SpanLimit \in Nat
  BY WatchAssumption
<1>2. /\ reader[c].span \in Commands \cup {NoCommand} /\ reader[c].seen \in 0..SpanLimit
  BY <1>1 DEF Readers
<1>3. reader[c].span # NoCommand => Dropped(entries, reader[c].span) \in Nat
  BY <1>2, FoldedLines DEF Folded
<1>4. /\ Rebased(entries)[c].span = reader[c].span
      /\ reader[c].span = NoCommand => Rebased(entries)[c].seen = reader[c].seen
      /\ reader[c].span # NoCommand =>
           Rebased(entries)[c].seen = IF reader[c].seen > Dropped(entries, reader[c].span)
                                      THEN reader[c].seen - Dropped(entries, reader[c].span) ELSE 0
      /\ Rebased(entries)[c] = [span |-> Rebased(entries)[c].span, seen |-> Rebased(entries)[c].seen]
  BY RebasedReader
<1>5. Rebased(entries)[c].seen \in 0..SpanLimit
  BY <1>1, <1>2, <1>3, <1>4
<1>6. QED
  BY <1>2, <1>4, <1>5 DEF Readers

\* found is what a look of c's reader finds, after the given entries are folded.
Found(found, entries, c) ==
  /\ found.spans = Consumed(entries) /\ found.readers = Rebased(entries)
  /\ found.burst = Burst(entries)
  /\ found.span \in Bindings(Consumed(entries), c)
  /\ found.fresh = IF found.span = NoCommand THEN <<>>
                   ELSE LET lines == Consumed(entries)[found.span].lines
                        IN  SubSeq(lines, Rebased(entries)[c].seen + 1, Len(lines))

\* What a look finds comes from one reading of the log.
LEMMA LooksFind ==
  ASSUME NEW c \in Commands, NEW found \in Looks(c)
  PROVE  \E entries \in Unread : Found(found, entries, c)
<1>1. PICK entries \in Unread :
        \E s \in Bindings(Consumed(entries), c) :
          found = [spans |-> Consumed(entries), readers |-> Rebased(entries),
                   burst |-> Burst(entries), span |-> s,
                   fresh |-> IF s = NoCommand THEN <<>>
                             ELSE SubSeq(Consumed(entries)[s].lines, Rebased(entries)[c].seen + 1,
                                         Len(Consumed(entries)[s].lines))]
  BY DEF Looks
<1>2. QED
  BY <1>1 DEF Found

\* The reader is bound already, finds nothing, or takes a span that no reader has.
LEMMA BindingsAre ==
  ASSUME reader \in [Commands -> Readers], NEW entries, NEW c \in Commands,
         NEW b \in Bindings(Consumed(entries), c)
  PROVE  \/ b = reader[c].span
         \/ /\ b \in Commands /\ reader[c].span = NoCommand
            /\ \A d \in Commands : reader[d].span # b
BY DEF Bindings, Candidates

Bound(rd, c, b, seen) == [rd EXCEPT ![c] = [span |-> b, seen |-> seen]]

\* A look keeps every line in one place and in order.
LEMMA LookKeeps ==
  ASSUME log \in Seq(Entries), spans \in [Commands -> Spans], reader \in [Commands -> Readers],
         NEW em, NEW pr \in [Commands -> Seq(Lines)], LinesInv(em, log, spans, reader, pr),
         NEW c \in Commands, NEW found \in Looks(c)
  PROVE  LET readers(n) == [found.readers EXCEPT ![c] = [span |-> found.span, seen |-> @.seen + n]]
         IN  /\ found.spans \in [Commands -> Spans] /\ found.fresh \in Seq(Lines)
             /\ readers(0) \in [Commands -> Readers]
             /\ LinesInv(em, <<>>, found.spans, readers(0), pr)
             /\ readers(Len(found.fresh)) \in [Commands -> Readers]
             /\ LinesInv(em, <<>>, found.spans, readers(Len(found.fresh)),
                         [pr EXCEPT ![c] = pr[c] \o found.fresh])
<1> DEFINE sp == found.spans
           rd == found.readers
           b == found.span
           fresh == found.fresh
           lines == sp[b].lines
           bound == Bound(rd, c, b, rd[c].seen)
           p == [pr EXCEPT ![c] = pr[c] \o fresh]
<1>1. PICK entries \in Unread : Found(found, entries, c)
  BY LooksFind
<1>2. entries \in Seq(Entries) /\ LinesInv(em, entries, spans, reader, pr)
  BY UnreadEntries, UnreadKeeps
<1>3. /\ sp \in [Commands -> Spans] /\ rd \in [Commands -> Readers]
      /\ LinesInv(em, <<>>, sp, rd, pr)
      /\ \A d \in Commands : rd[d].span = reader[d].span
  <2>1. sp = Consumed(entries) /\ rd = Rebased(entries)
    BY <1>1 DEF Found
  <2>2. Consumed(entries) \in [Commands -> Spans] /\ Rebased(entries) \in [Commands -> Readers]
    BY <1>2, ConsumedType, RebasedType
  <2>3. LinesInv(em, <<>>, Consumed(entries), Rebased(entries), pr)
    BY <1>2, FoldKeeps
  <2>4. \A d \in Commands : Rebased(entries)[d].span = reader[d].span
    BY RebasedReader
  <2>5. QED
    BY <2>1, <2>2, <2>3, <2>4, Zenon
<1>4. \/ b = rd[c].span
      \/ /\ b \in Commands /\ rd[c].span = NoCommand
         /\ \A d \in Commands : rd[d].span # b
  <2>1. b \in Bindings(Consumed(entries), c)
    BY <1>1 DEF Found
  <2>2. \/ b = reader[c].span
        \/ /\ b \in Commands /\ reader[c].span = NoCommand
           /\ \A d \in Commands : reader[d].span # b
    BY <2>1, BindingsAre
  <2> HIDE DEF rd, b
  <2>3. QED
    BY <1>3, <2>2
<1>5. fresh = IF b = NoCommand THEN <<>> ELSE SubSeq(lines, rd[c].seen + 1, Len(lines))
  BY <1>1 DEF Found
<1>6. rd[c] \in Readers /\ rd[c].seen \in Nat /\ SpanLimit \in Nat
  BY <1>3, WatchAssumption DEF Readers
<1>7. b \in Commands \cup {NoCommand} /\ rd[c] = [span |-> rd[c].span, seen |-> rd[c].seen]
  BY <1>4, <1>6 DEF Readers
<1> HIDE DEF sp, rd, b, fresh, lines
<1>8. bound \in [Commands -> Readers] /\ bound[c].span = b /\ bound[c].seen = rd[c].seen
  BY <1>3, <1>6, <1>7 DEF Bound, Readers
<1>9. LinesInv(em, <<>>, sp, bound, pr)
  <2>1. CASE b = rd[c].span
    <3>1. bound = rd
      BY <1>3, <1>7, <2>1 DEF Bound
    <3>2. QED
      BY <1>3, <3>1
  <2>2. CASE b # rd[c].span
    <3>1. \A s \in Commands : Len(sp[s].lines) \in Nat
      BY <1>3 DEF Spans
    <3>2. QED
      BY <1>3, <1>4, <2>2, <3>1, BindKeeps DEF Bound
  <2>3. QED
    BY <2>1, <2>2
<1>10. [rd EXCEPT ![c] = [span |-> b, seen |-> @.seen + 0]] = bound
  <2>1. rd[c].seen + 0 = rd[c].seen
    BY <1>6
  <2>2. [rd EXCEPT ![c] = [span |-> b, seen |-> @.seen + 0]] = Bound(rd, c, b, rd[c].seen + 0)
    BY <1>3 DEF Bound
  <2>3. QED
    BY <2>1, <2>2
<1>11. [rd EXCEPT ![c] = [span |-> b, seen |-> @.seen + Len(fresh)]] = Bound(rd, c, b, rd[c].seen + Len(fresh))
  BY <1>3 DEF Bound
<1>12. CASE b = NoCommand
  <2>1. fresh = <<>> /\ fresh \in Seq(Lines) /\ Len(fresh) = 0
    BY <1>5, <1>12
  <2>2. p = pr
    <3>1. pr[c] \in Seq(Lines)
      OBVIOUS
    <3>2. pr[c] \o <<>> = pr[c]
      BY <3>1
    <3>3. QED
      BY <2>1, <3>2
  <2>3. Bound(rd, c, b, rd[c].seen + Len(fresh)) = bound
    BY <1>6, <2>1
  <2>4. QED
    BY <1>3, <1>8, <1>9, <1>10, <1>11, <2>1, <2>2, <2>3 DEF sp, rd, b, fresh
<1>13. CASE b # NoCommand
  <2>1. b \in Commands /\ lines \in Seq(Lines) /\ lines = sp[bound[c].span].lines
    BY <1>3, <1>7, <1>8, <1>13 DEF Spans, lines
  <2>2. rd[c].seen <= Len(lines) /\ Len(lines) <= SpanLimit
    BY <1>8, <1>9, <1>13, <2>1 DEF LinesInv, ReadersInv, SpansInv
  <2>3. fresh = SubSeq(lines, rd[c].seen + 1, Len(lines))
    BY <1>5, <1>13
  <2>4. fresh \in Seq(Lines) /\ Len(fresh) = Len(lines) - rd[c].seen
    BY <1>6, <2>1, <2>2, <2>3, WithoutFirst
  <2>5. rd[c].seen + Len(fresh) = Len(lines) /\ Len(lines) \in 0..SpanLimit
    <3>1. Len(lines) \in Nat
      BY <2>1
    <3>2. QED
      BY <1>6, <2>2, <2>4, <3>1
  <2>6. LinesInv(em, <<>>, sp,
                 [bound EXCEPT ![c] = [span |-> bound[c].span, seen |-> Len(lines)]],
                 [pr EXCEPT ![c] = pr[c] \o SubSeq(lines, bound[c].seen + 1, Len(lines))])
    BY <1>3, <1>8, <1>9, <1>13, <2>1, ReturnKeeps
  <2>7. /\ [bound EXCEPT ![c] = [span |-> bound[c].span, seen |-> Len(lines)]]
             = Bound(rd, c, b, Len(lines))
        /\ Bound(rd, c, b, Len(lines)) \in [Commands -> Readers]
    BY <1>3, <1>7, <1>8, <2>5 DEF Bound, Readers
  <2>8. LinesInv(em, <<>>, sp, Bound(rd, c, b, rd[c].seen + Len(fresh)), p)
    BY <1>8, <2>3, <2>5, <2>6, <2>7
  <2>9. QED
    BY <1>3, <1>8, <1>9, <1>10, <1>11, <2>4, <2>5, <2>7, <2>8 DEF sp, rd, b, fresh
<1>14. QED
  BY <1>12, <1>13

-----------------------------------------------------------------------------
(* What the engine writes.                                                  *)

\* What the engine writes is an entry of its command.
LEMMA NextEntryType ==
  ASSUME WatchTypeOK, NEW c \in Commands, NEW e \in NextEntries(c)
  PROVE  e \in Entries /\ e.span = c /\ (e.kind = "output" => e.line = <<c, emitted[c]>>)
<1>1. emitted[c] \in Nat
  BY DEF WatchTypeOK
<1>2. \A kind \in {"describe", "output"} \cup SpanStatuses, i \in Nat :
        /\ Entry(c, kind, i) \in Entries /\ Entry(c, kind, i).span = c
        /\ Entry(c, kind, i).kind = kind /\ Entry(c, kind, i).line = <<c, i>>
  BY DEF Entry, Entries, Lines, Line
<1>3. \/ e = Entry(c, "describe", 0) \/ e = Entry(c, "output", emitted[c])
      \/ e = Entry(c, "DONE", 0) \/ e = Entry(c, "CACHED", 0)
  BY DEF NextEntries
<1>4. QED
  BY <1>1, <1>2, <1>3 DEF SpanStatuses

\* The log loses its oldest entry.
LEMMA TailKeeps ==
  ASSUME NEW em, NEW sp, NEW rd, NEW pr, LinesInv(em, log, sp, rd, pr),
         log \in Seq(Entries), Len(log) > 0
  PROVE  Tail(log) \in Seq(Entries) /\ LinesInv(em, Tail(log), sp, rd, pr)
<1> DEFINE t == Tail(log)
<1>1. /\ t \in Seq(Entries) /\ Len(t) = Len(log) - 1 /\ Len(log) \in Nat /\ log # <<>>
      /\ \A i \in 1..Len(t) : t[i] = log[i + 1]
  OBVIOUS
<1> HIDE DEF t
<1>2. DOMAIN t = 1..Len(t) /\ DOMAIN log = 1..Len(log)
  BY <1>1
<1>3. \A i \in Outputs(t) : i \in Nat /\ i + 1 \in Outputs(log) /\ t[i] = log[i + 1]
  <2> TAKE i \in Outputs(t)
  <2>1. i \in 1..Len(t) /\ t[i].kind = "output" /\ i + 1 \in 1..Len(log) /\ i \in Nat
    BY <1>1, <1>2 DEF Outputs
  <2>2. QED
    BY <1>1, <1>2, <2>1 DEF Outputs
<1>4. QueueInv(em, t)
  <2>1. \A i, j \in Outputs(t) : i < j => i + 1 < j + 1
    BY <1>3
  <2>2. QED
    BY <1>3, <2>1 DEF LinesInv, QueueInv
<1>5. SpansInv(em, t, sp)
  BY <1>3 DEF LinesInv, SpansInv, BehindQueue
<1>6. PrintedInv(em, t, pr)
  BY <1>3 DEF LinesInv, PrintedInv, BehindQueue
<1>7. QED
  BY <1>1, <1>4, <1>5, <1>6 DEF LinesInv, t

\* The log gains the next entry of a command.
LEMMA EmittedKeeps ==
  ASSUME NEW em \in [Commands -> Nat], NEW t \in Seq(Entries), NEW rd,
         NEW sp \in [Commands -> Spans], NEW pr \in [Commands -> Seq(Lines)],
         LinesInv(em, t, sp, rd, pr), NEW c \in Commands,
         NEW e \in Entries, e.kind = "output" => e.line = <<c, em[c]>>
  PROVE  LinesInv([em EXCEPT ![c] = @ + 1], Append(t, e), sp, rd, pr)
<1> DEFINE q == Append(t, e)
           n == [em EXCEPT ![c] = @ + 1]
<1>1. /\ Len(q) = Len(t) + 1 /\ Len(t) \in Nat /\ q[Len(t) + 1] = e
      /\ DOMAIN q = 1..Len(t) + 1 /\ DOMAIN t = 1..Len(t)
      /\ \A i \in 1..Len(t) : q[i] = t[i]
  OBVIOUS
<1>2. \A d \in Commands : em[d] <= n[d] /\ em[c] < n[c] /\ em[d] \in Nat /\ n[d] \in Nat
  OBVIOUS
<1> HIDE DEF q, n
<1>3. \A j \in Outputs(q) :
        \/ j \in Outputs(t) /\ q[j] = t[j] /\ j <= Len(t) /\ j \in Nat
        \/ j = Len(t) + 1 /\ q[j].line = <<c, em[c]>>
  <2> TAKE j \in Outputs(q)
  <2>1. CASE j = Len(t) + 1
    BY <1>1, <2>1 DEF Outputs
  <2>2. CASE j # Len(t) + 1
    <3>1. j \in 1..Len(t)
      BY <1>1, <2>2 DEF Outputs
    <3>2. QED
      BY <1>1, <3>1 DEF Outputs
  <2>3. QED
    BY <2>1, <2>2
<1>4. \A x \in Lines : x[1] \in Commands /\ x[2] \in Nat /\ (x[2] < em[x[1]] => Before(x, <<c, em[c]>>) /\ x[2] < n[x[1]])
  <2> TAKE x \in Lines
  <2>1. x[1] \in Commands /\ x[2] \in Nat
    BY DEF Lines
  <2>2. ASSUME x[2] < em[x[1]] PROVE Before(x, <<c, em[c]>>) /\ x[2] < n[x[1]]
    <3>1. x[2] < n[x[1]]
      BY <1>2, <2>1, <2>2
    <3>2. Before(x, <<c, em[c]>>)
      BY <2>2 DEF Before
    <3>3. QED
      BY <3>1, <3>2
  <2>3. QED
    BY <2>1, <2>2
<1>5. QueueInv(em, t) /\ SpansInv(em, t, sp) /\ PrintedInv(em, t, pr) /\ ReadersInv(sp, rd, pr)
  BY DEF LinesInv
<1>6. \A i \in Outputs(t) : t[i].line \in Lines
  <2>1. \A i \in DOMAIN t : t[i] \in Entries
    OBVIOUS
  <2>2. \A f \in Entries : f.line \in Lines
    BY DEF Entries
  <2>3. QED
    BY <2>1, <2>2 DEF Outputs
<1>7. QueueInv(n, q)
  <2>1. ASSUME NEW i \in Outputs(q), NEW j \in Outputs(q), i < j
        PROVE  Before(q[i].line, q[j].line)
    <3>1. i \in 1..Len(t) + 1 /\ j \in 1..Len(t) + 1
      BY <1>1 DEF Outputs
    <3>2. i # Len(t) + 1
      BY <1>1, <2>1, <3>1
    <3>3. i \in Outputs(t) /\ q[i] = t[i]
      BY <1>3, <3>2
    <3>4. CASE j = Len(t) + 1
      <4>1. t[i].line \in Lines /\ t[i].line[2] < em[t[i].line[1]]
        BY <1>5, <1>6, <3>3 DEF QueueInv
      <4>2. Before(t[i].line, <<c, em[c]>>)
        BY <1>4, <4>1
      <4>3. q[j].line = <<c, em[c]>>
        <5>1. ~(j <= Len(t))
          BY <1>1, <3>4
        <5>2. QED
          BY <1>3, <5>1
      <4>4. QED
        BY <3>3, <4>2, <4>3
    <3>5. CASE j # Len(t) + 1
      <4>1. j \in Outputs(t) /\ q[j] = t[j]
        BY <1>3, <3>5
      <4>2. QED
        BY <1>5, <2>1, <3>3, <4>1 DEF QueueInv
    <3>6. QED
      BY <3>4, <3>5
  <2>2. ASSUME NEW j \in Outputs(q) PROVE q[j].line[2] < n[q[j].line[1]]
    <3>1. CASE j = Len(t) + 1
      <4>1. q[j].line = <<c, em[c]>>
        BY <1>1, <1>3, <3>1
      <4>2. QED
        BY <1>2, <4>1
    <3>2. CASE j # Len(t) + 1
      BY <1>3, <1>4, <1>5, <1>6, <3>2 DEF QueueInv
    <3>3. QED
      BY <3>1, <3>2
  <2>3. QED
    BY <2>1, <2>2 DEF QueueInv
<1>8. ASSUME NEW s \in Seq(Lines), BehindQueue(s, t), Numbered(s, em)
      PROVE  BehindQueue(s, q) /\ Numbered(s, n)
  <2>1. \A i \in DOMAIN s : s[i] \in Lines
    OBVIOUS
  <2>2. \A i \in DOMAIN s : Before(s[i], <<c, em[c]>>) /\ s[i][2] < n[s[i][1]]
    BY <1>4, <1>8, <2>1 DEF Numbered
  <2>3. ASSUME NEW i \in DOMAIN s, NEW j \in Outputs(q) PROVE Before(s[i], q[j].line)
    BY <1>3, <1>8, <2>2 DEF BehindQueue
  <2>4. QED
    BY <2>2, <2>3 DEF BehindQueue, Numbered
<1>9. \A s \in Commands : sp[s].lines \in Seq(Lines) /\ pr[s] \in Seq(Lines)
  BY DEF Spans
<1>10. SpansInv(n, q, sp)
  BY <1>5, <1>8, <1>9 DEF SpansInv
<1>11. PrintedInv(n, q, pr)
  BY <1>5, <1>8, <1>9 DEF PrintedInv
<1>12. QED
  BY <1>5, <1>7, <1>10, <1>11 DEF LinesInv, q, n

-----------------------------------------------------------------------------
(* The invariant and its theorems                                           *)

\* Only a task whose goroutine runs holds lines it has not printed.
HandInv == \A c \in Commands : hand[c] # <<>> => task[c].pc \in {"running", "stopping"}

WatchInv == WatchTypeOK /\ HandInv /\ LinesInv(emitted, log, spans, reader, Printed)

\* The type invariant, with its sets named.
LEMMA TypesNamed ==
  WatchTypeOK <=> /\ fate \in [Commands -> {"none", "run", "cached"}]
                  /\ emitted \in [Commands -> Nat]
                  /\ log \in Seq(Entries) /\ cut \in BOOLEAN
                  /\ spans \in [Commands -> Spans] /\ reader \in [Commands -> Readers]
                  /\ task \in [Commands -> [pc : {"idle", "running", "stopping", "closing", "asking", "closed"},
                                            result : {"none", "ok", "failed"}]]
                  /\ hand \in [Commands -> Seq(Lines)] /\ shown \in [Commands -> Seq(Lines)]
                  /\ closing \in [Commands -> {"none", "timings", "output", "cached", "failed"}]
                  /\ mishaps \subseteq {"overrun", "burst", "late"}
BY Zenon DEF WatchTypeOK, Entries, Readers

\* What is returned are lines.
LEMMA PrintedType ==
  ASSUME WatchTypeOK
  PROVE  Printed \in [Commands -> Seq(Lines)]
<1>1. ASSUME NEW c \in Commands PROVE shown[c] \o hand[c] \in Seq(Lines)
  <2>1. shown[c] \in Seq(Lines) /\ hand[c] \in Seq(Lines)
    BY TypesNamed
  <2>2. QED
    BY <2>1
<1>2. QED
  BY <1>1 DEF Printed

\* What a look leaves of the log, the spans and the readers.
LEMMA LookStep ==
  ASSUME WatchInv, NEW c \in Commands, NEW found \in Looks(c), NEW count,
         Look(c, found, count)
  PROVE  /\ log' \in Seq(Entries) /\ cut' \in BOOLEAN /\ mishaps' \subseteq {"overrun", "burst", "late"}
         /\ spans' \in [Commands -> Spans] /\ found.fresh \in Seq(Lines)
         /\ count = 0 => /\ reader' \in [Commands -> Readers]
                            /\ LinesInv(emitted, log', spans', reader', Printed)
         /\ count = Len(found.fresh) =>
              /\ reader' \in [Commands -> Readers]
              /\ LinesInv(emitted, log', spans', reader',
                          [Printed EXCEPT ![c] = Printed[c] \o found.fresh])
<1> DEFINE readers(n) == [found.readers EXCEPT ![c] = [span |-> found.span, seen |-> @.seen + n]]
<1>1. /\ log \in Seq(Entries) /\ spans \in [Commands -> Spans] /\ reader \in [Commands -> Readers]
      /\ mishaps \subseteq {"overrun", "burst", "late"} /\ Printed \in [Commands -> Seq(Lines)]
      /\ LinesInv(emitted, log, spans, reader, Printed)
  BY TypesNamed, PrintedType DEF WatchInv
<1>2. /\ found.spans \in [Commands -> Spans] /\ found.fresh \in Seq(Lines)
      /\ readers(0) \in [Commands -> Readers]
      /\ LinesInv(emitted, <<>>, found.spans, readers(0), Printed)
      /\ readers(Len(found.fresh)) \in [Commands -> Readers]
      /\ LinesInv(emitted, <<>>, found.spans, readers(Len(found.fresh)),
                  [Printed EXCEPT ![c] = Printed[c] \o found.fresh])
  BY <1>1, LookKeeps
<1>3. /\ log' = <<>> /\ cut' = FALSE /\ spans' = found.spans /\ reader' = readers(count)
  BY DEF Look
<1>4. mishaps' \subseteq {"overrun", "burst", "late"}
  BY <1>1 DEF Look, Mishaps
<1>5. <<>> \in Seq(Entries)
  OBVIOUS
<1> HIDE DEF readers
<1>6. count = 0 => reader' \in [Commands -> Readers] /\ LinesInv(emitted, log', spans', reader', Printed)
  BY <1>2, <1>3, Zenon
<1>7. count = Len(found.fresh) =>
        /\ reader' \in [Commands -> Readers]
        /\ LinesInv(emitted, log', spans', reader', [Printed EXCEPT ![c] = Printed[c] \o found.fresh])
  BY <1>2, <1>3, Zenon
<1>8. QED
  BY <1>2, <1>3, <1>4, <1>5, <1>6, <1>7, Zenon

\* The invariant holds before anything is written.
LEMMA InitKeeps ==
  ASSUME WatchInit
  PROVE  WatchInv
<1> USE DEF WatchInit
<1>1. WatchTypeOK
  <2>1. <<>> \in Seq(Entries) /\ <<>> \in Seq(Lines) /\ SpanLimit \in Nat
    BY WatchAssumption
  <2>2. spans \in [Commands -> Spans] /\ reader \in [Commands -> Readers]
    BY <2>1 DEF NoSpan, Spans, SpanStatuses, Readers
  <2>3. QED
    BY <2>1, <2>2, TypesNamed
<1>2. HandInv
  BY DEF HandInv
<1>3. \A c \in Commands : /\ spans[c].lines = <<>> /\ Printed[c] = <<>>
                          /\ reader[c].span = NoCommand /\ reader[c].seen = 0
  <2>1. <<>> \o <<>> = <<>>
    OBVIOUS
  <2>2. QED
    BY <2>1 DEF NoSpan, Printed
<1>4. log = <<>> /\ Outputs(<<>>) = {} /\ DOMAIN <<>> = {} /\ Len(<<>>) = 0 /\ SpanLimit > 0
  BY WatchAssumption DEF Outputs
<1> HIDE DEF WatchInit
<1>5. QueueInv(emitted, log)
  BY <1>4 DEF QueueInv
<1>6. /\ InOrder(<<>>) /\ BehindQueue(<<>>, log) /\ Numbered(<<>>, emitted)
      /\ \A s : Apart(<<>>, s)
  BY <1>4 DEF InOrder, BehindQueue, Numbered, Apart
<1>7. SpansInv(emitted, log, spans)
  <2>1. \A s \in Commands : Len(spans[s].lines) <= SpanLimit
    BY <1>3, <1>4, WatchAssumption
  <2>2. QED
    BY <1>3, <1>6, <2>1 DEF SpansInv
<1>8. PrintedInv(emitted, log, Printed)
  BY <1>3, <1>6 DEF PrintedInv
<1>9. ReadersInv(spans, reader, Printed)
  BY <1>3, <1>4 DEF ReadersInv, Apart
<1>10. QED
  BY <1>1, <1>2, <1>5, <1>7, <1>8, <1>9 DEF WatchInv, LinesInv

\* A step that leaves the log, the spans, the readers and what was returned alone.
LEMMA OutsideKeeps ==
  ASSUME WatchInv, WatchTypeOK', HandInv', UNCHANGED <<emitted, log, spans, reader>>,
         Printed' = Printed
  PROVE  WatchInv'
BY DEF WatchInv

\* Nothing drained and nothing shown.
LEMMA SamePrinted ==
  ASSUME UNCHANGED <<hand, shown>>
  PROVE  Printed' = Printed
BY DEF Printed

\* The engine writes an entry.
LEMMA EmitKeeps ==
  ASSUME WatchInv, NEW c \in Commands, Emit(c)
  PROVE  WatchInv'
<1> USE DEF Emit
<1>1. /\ log \in Seq(Entries) /\ spans \in [Commands -> Spans] /\ reader \in [Commands -> Readers]
      /\ emitted \in [Commands -> Nat] /\ Printed \in [Commands -> Seq(Lines)]
      /\ mishaps \subseteq {"overrun", "burst", "late"} /\ cut \in BOOLEAN
      /\ LinesInv(emitted, log, spans, reader, Printed) /\ WatchTypeOK /\ HandInv
  BY TypesNamed, PrintedType DEF WatchInv
<1>2. PICK e \in NextEntries(c) :
        IF Len(log) < Retained THEN log' = Append(log, e) /\ UNCHANGED cut
        ELSE log' = Append(Tail(log), e) /\ cut' = TRUE
  OBVIOUS
<1>3. e \in Entries /\ (e.kind = "output" => e.line = <<c, emitted[c]>>)
  BY <1>1, <1>2, NextEntryType
<1>4. emitted' = [emitted EXCEPT ![c] = @ + 1] /\ emitted' \in [Commands -> Nat]
  BY <1>1
<1>5. mishaps' \subseteq {"overrun", "burst", "late"} /\ cut' \in BOOLEAN
  BY <1>1, <1>2 DEF Mishaps
<1>6. UNCHANGED <<fate, spans, reader, task, hand, shown, closing>>
  BY DEF terminal
<1>7. Printed' = Printed
  BY <1>6, SamePrinted
<1> DEFINE t == IF Len(log) < Retained THEN log ELSE Tail(log)
<1>8. t \in Seq(Entries) /\ LinesInv(emitted, t, spans, reader, Printed)
  <2>1. CASE Len(log) < Retained
    BY <1>1, <2>1
  <2>2. CASE ~(Len(log) < Retained)
    <3>1. Len(log) > 0
      BY <1>1, <2>2, WatchAssumption
    <3>2. QED
      BY <1>1, <2>2, <3>1, TailKeeps
  <2>3. QED
    BY <2>1, <2>2
<1>9. log' = Append(t, e)
  BY <1>2
<1> HIDE DEF t
<1>10. log' \in Seq(Entries)
  BY <1>3, <1>8, <1>9
<1>11. LinesInv(emitted', log', spans', reader', Printed')
  <2>1. LinesInv([emitted EXCEPT ![c] = @ + 1], Append(t, e), spans, reader, Printed)
    BY <1>1, <1>3, <1>8, EmittedKeeps
  <2>2. spans' = spans /\ reader' = reader
    BY <1>6
  <2>3. QED
    BY <1>4, <1>7, <1>9, <2>1, <2>2, Zenon
<1>12. WatchTypeOK'
  <2>1. /\ fate' \in [Commands -> {"none", "run", "cached"}]
        /\ spans' \in [Commands -> Spans] /\ reader' \in [Commands -> Readers]
        /\ hand' \in [Commands -> Seq(Lines)] /\ shown' \in [Commands -> Seq(Lines)]
        /\ closing' \in [Commands -> {"none", "timings", "output", "cached", "failed"}]
        /\ task' \in [Commands -> [pc : {"idle", "running", "stopping", "closing", "asking", "closed"},
                                   result : {"none", "ok", "failed"}]]
    BY <1>1, <1>6, TypesNamed
  <2>2. QED
    BY <1>4, <1>5, <1>10, <2>1, Zenon DEF WatchTypeOK, Entries, Readers
<1>13. HandInv'
  BY <1>1, <1>6 DEF HandInv
<1>14. QED
  BY <1>11, <1>12, <1>13 DEF WatchInv

\* The lines of a look go to the goroutine's hand or straight to the terminal.
LEMMA PrintedGrows ==
  ASSUME hand \in [Commands -> Seq(Lines)], shown \in [Commands -> Seq(Lines)],
         NEW c \in Commands, NEW fresh \in Seq(Lines), hand[c] = <<>>,
         \/ hand' = [hand EXCEPT ![c] = fresh] /\ UNCHANGED shown
         \/ shown' = [shown EXCEPT ![c] = @ \o fresh] /\ UNCHANGED hand
  PROVE  Printed' = [Printed EXCEPT ![c] = Printed[c] \o fresh]
<1>1. shown[c] \in Seq(Lines) /\ Printed[c] = shown[c]
  BY DEF Printed
<1>2. \A d \in Commands : shown'[d] \o hand'[d] = IF d = c THEN shown[c] \o fresh
                                                 ELSE shown[d] \o hand[d]
  <2> TAKE d \in Commands
  <2>1. CASE d # c
    BY <2>1
  <2>2. CASE d = c /\ hand' = [hand EXCEPT ![c] = fresh] /\ UNCHANGED shown
    BY <2>2
  <2>3. CASE d = c /\ shown' = [shown EXCEPT ![c] = @ \o fresh] /\ UNCHANGED hand
    <3> DEFINE r == shown[c] \o fresh
    <3>1. r \in Seq(Lines)
      BY <1>1
    <3> HIDE DEF r
    <3>2. r \o <<>> = r
      BY <3>1
    <3>3. shown'[d] = r /\ hand'[d] = <<>>
      BY <2>3 DEF r
    <3>4. QED
      BY <2>3, <3>2, <3>3 DEF r
  <2>4. QED
    BY <2>1, <2>2, <2>3
<1>3. QED
  BY <1>1, <1>2 DEF Printed

\* A look whose lines are drained or shown keeps the invariant.
LEMMA ReturnedLook ==
  ASSUME WatchInv, NEW c \in Commands, NEW found \in Looks(c), Look(c, found, Len(found.fresh)),
         UNCHANGED <<fate, emitted>>,
         task' \in [Commands -> [pc : {"idle", "running", "stopping", "closing", "asking", "closed"},
                                 result : {"none", "ok", "failed"}]],
         closing' \in [Commands -> {"none", "timings", "output", "cached", "failed"}],
         HandInv', hand[c] = <<>>,
         \/ hand' = [hand EXCEPT ![c] = found.fresh] /\ UNCHANGED shown
         \/ shown' = [shown EXCEPT ![c] = @ \o found.fresh] /\ UNCHANGED hand
  PROVE  WatchInv'
<1>1. /\ WatchTypeOK /\ HandInv /\ hand \in [Commands -> Seq(Lines)] /\ shown \in [Commands -> Seq(Lines)]
      /\ fate \in [Commands -> {"none", "run", "cached"}] /\ emitted \in [Commands -> Nat]
  BY TypesNamed DEF WatchInv
<1>2. /\ log' \in Seq(Entries) /\ cut' \in BOOLEAN /\ mishaps' \subseteq {"overrun", "burst", "late"}
      /\ spans' \in [Commands -> Spans] /\ found.fresh \in Seq(Lines) /\ reader' \in [Commands -> Readers]
      /\ LinesInv(emitted, log', spans', reader', [Printed EXCEPT ![c] = Printed[c] \o found.fresh])
  BY LookStep
<1>3. shown[c] \in Seq(Lines) /\ hand[c] \in Seq(Lines) /\ Printed[c] = shown[c]
  BY <1>1 DEF Printed
<1>4. hand' \in [Commands -> Seq(Lines)] /\ shown' \in [Commands -> Seq(Lines)]
  <2> DEFINE S == Seq(Lines)
             f == found.fresh
             r == shown[c] \o f
  <2>1. f \in S /\ r \in S
    BY <1>2, <1>3
  <2>2. hand \in [Commands -> S] /\ shown \in [Commands -> S]
    BY <1>1
  <2>3. \/ hand' = [hand EXCEPT ![c] = f] /\ shown' = shown
        \/ shown' = [shown EXCEPT ![c] = r] /\ hand' = hand
    OBVIOUS
  <2> HIDE DEF r, S, f
  <2>4. hand' \in [Commands -> S] /\ shown' \in [Commands -> S]
    <3>1. CASE hand' = [hand EXCEPT ![c] = f] /\ shown' = shown
      BY <2>1, <2>2, <3>1
    <3>2. CASE shown' = [shown EXCEPT ![c] = r] /\ hand' = hand
      BY <2>1, <2>2, <3>2
    <3>3. QED
      BY <2>3, <3>1, <3>2
  <2>5. QED
    BY <2>4 DEF S
<1>5. Printed' = [Printed EXCEPT ![c] = Printed[c] \o found.fresh]
  BY <1>1, <1>2, PrintedGrows
<1>6. WatchTypeOK'
  <2>1. fate' \in [Commands -> {"none", "run", "cached"}] /\ emitted' \in [Commands -> Nat]
    BY <1>1
  <2>2. QED
    BY <1>2, <1>4, <2>1, Zenon DEF WatchTypeOK, Entries, Readers
<1>7. LinesInv(emitted', log', spans', reader', Printed')
  BY <1>2, <1>5, Zenon
<1>8. QED
  BY <1>6, <1>7 DEF WatchInv

\* Writing the drained lines to the terminal moves them from the hand to what is shown.
LEMMA WritingMoves ==
  ASSUME hand \in [Commands -> Seq(Lines)], shown \in [Commands -> Seq(Lines)],
         NEW c \in Commands, WriteOutput(c)
  PROVE  /\ shown' \in [Commands -> Seq(Lines)] /\ hand' \in [Commands -> Seq(Lines)]
         /\ Printed' = Printed /\ hand' = [hand EXCEPT ![c] = <<>>]
<1> DEFINE r == shown[c] \o hand[c]
<1>1. shown[c] \in Seq(Lines) /\ hand[c] \in Seq(Lines) /\ <<>> \in Seq(Lines)
  OBVIOUS
<1>2. r \in Seq(Lines)
  BY <1>1
<1>3. shown' = [shown EXCEPT ![c] = r] /\ hand' = [hand EXCEPT ![c] = <<>>]
  BY DEF WriteOutput
<1> HIDE DEF r
<1>4. shown' \in [Commands -> Seq(Lines)] /\ hand' \in [Commands -> Seq(Lines)]
  BY <1>1, <1>2, <1>3
<1>5. \A d \in Commands : shown'[d] \o hand'[d] = shown[d] \o hand[d]
  <2> TAKE d \in Commands
  <2>1. CASE d # c
    BY <1>3, <2>1
  <2>2. CASE d = c
    <3>1. shown'[d] = r /\ hand'[d] = <<>>
      BY <1>3, <2>2
    <3>2. r \o <<>> = r
      BY <1>2
    <3>3. QED
      BY <2>2, <3>1, <3>2 DEF r
  <2>3. QED
    BY <2>1, <2>2
<1>6. Printed' = Printed
  BY <1>5 DEF Printed
<1>7. QED
  BY <1>3, <1>4, <1>6

\* Every step keeps the invariant.
LEMMA WatchNextKeeps ==
  ASSUME WatchInv, [WatchNext]_watchVars
  PROVE  WatchInv'
<1> DEFINE Tasks == [Commands -> [pc : {"idle", "running", "stopping", "closing", "asking", "closed"},
                                  result : {"none", "ok", "failed"}]]
           Blocks == [Commands -> {"none", "timings", "output", "cached", "failed"}]
<1>1. WatchTypeOK /\ HandInv /\ task \in Tasks /\ closing \in Blocks
  BY TypesNamed DEF WatchInv
<1>2. ASSUME NEW c \in Commands, Start(c) PROVE WatchInv'
  <2> USE <1>2 DEF Start, Startable, At, Goto, watch, terminal
  <2>1. WatchTypeOK'
    <3>1. fate' \in [Commands -> {"none", "run", "cached"}] /\ task' \in Tasks
      <4>1. fate \in [Commands -> {"none", "run", "cached"}]
        BY <1>1, TypesNamed
      <4>2. fate' \in [Commands -> {"none", "run", "cached"}]
        BY <4>1
      <4>3. task' \in Tasks
        BY <1>1
      <4>4. QED
        BY <4>2, <4>3
    <3>2. UNCHANGED <<emitted, log, cut, spans, reader, hand, shown, closing, mishaps>>
      OBVIOUS
    <3> HIDE DEF Start
    <3>3. QED
      BY <1>1, <3>1, <3>2 DEF WatchTypeOK
  <2>2. HandInv'
    BY <1>1 DEF HandInv
  <2>3. QED
    BY <2>1, <2>2, SamePrinted, OutsideKeeps
<1>3. ASSUME NEW c \in Commands, Return(c) PROVE WatchInv'
  <2> USE <1>3 DEF Return, At, engineSide, watch, terminal
  <2>1. WatchTypeOK'
    BY <1>1 DEF WatchTypeOK
  <2>2. HandInv'
    BY <1>1 DEF HandInv
  <2>3. QED
    BY <2>1, <2>2, SamePrinted, OutsideKeeps
<1>4. ASSUME NEW c \in Commands, Finish(c) PROVE WatchInv'
  <2> USE <1>4 DEF Finish, At, Goto, engineSide, watch, terminal
  <2>1. WatchTypeOK'
    BY <1>1 DEF WatchTypeOK
  <2>2. HandInv'
    BY <1>1 DEF HandInv
  <2>3. QED
    BY <2>1, <2>2, SamePrinted, OutsideKeeps
<1>5. ASSUME NEW c \in Commands, CloseUnasked(c) PROVE WatchInv'
  <2> USE <1>5 DEF CloseUnasked, Close, At, Goto, engineSide, watch
  <2>1. WatchTypeOK'
    <3>1. task' \in Tasks /\ closing' \in Blocks
      BY <1>1
    <3>2. UNCHANGED <<fate, emitted, log, cut, spans, reader, hand, shown, mishaps>>
      OBVIOUS
    <3> HIDE DEF CloseUnasked
    <3>3. QED
      BY <1>1, <3>1, <3>2 DEF WatchTypeOK
  <2>2. HandInv'
    BY <1>1 DEF HandInv
  <2>3. QED
    BY <2>1, <2>2, SamePrinted, OutsideKeeps
<1>6. ASSUME NEW c \in Commands, WriteOutput(c) PROVE WatchInv'
  <2> USE <1>6 DEF WriteOutput, engineSide, watch
  <2>1. /\ hand \in [Commands -> Seq(Lines)] /\ shown \in [Commands -> Seq(Lines)]
        /\ shown[c] \in Seq(Lines) /\ hand[c] \in Seq(Lines)
    BY <1>1, TypesNamed
  <2>4. /\ shown' \in [Commands -> Seq(Lines)] /\ hand' \in [Commands -> Seq(Lines)]
        /\ Printed' = Printed /\ hand' = [hand EXCEPT ![c] = <<>>]
    BY <2>1, WritingMoves
  <2>6. WatchTypeOK'
    BY <1>1, <2>4 DEF WatchTypeOK
  <2>7. HandInv'
    BY <1>1, <2>1, <2>4 DEF HandInv
  <2>8. QED
    BY <2>4, <2>6, <2>7, OutsideKeeps
<1>7. ASSUME NEW c \in Commands, Drain(c) PROVE WatchInv'
  <2> USE <1>7 DEF Drain
  <2>1. PICK found \in Looks(c) : /\ Look(c, found, Len(found.fresh))
                                  /\ hand' = [hand EXCEPT ![c] = found.fresh]
    OBVIOUS
  <2>2. UNCHANGED <<fate, emitted, task, shown, closing>> /\ hand[c] = <<>>
    BY DEF engineSide
  <2>3. HandInv'
    BY <1>1, <2>1, <2>2, TypesNamed DEF HandInv
  <2>4. task' \in Tasks /\ closing' \in Blocks
    BY <1>1, <2>2
  <2>5. QED
    BY <2>1, <2>2, <2>3, <2>4, ReturnedLook
<1>8. ASSUME NEW c \in Commands, FinalPoll(c) PROVE WatchInv'
  <2> USE <1>8 DEF FinalPoll, At, Goto
  <2>1. PICK found \in Looks(c) : /\ Look(c, found, Len(found.fresh))
                                  /\ shown' = [shown EXCEPT ![c] = @ \o found.fresh]
    OBVIOUS
  <2>2. UNCHANGED <<fate, emitted, hand>>
    BY DEF engineSide
  <2>3. hand[c] = <<>>
    BY <1>1 DEF HandInv
  <2>4. HandInv'
    BY <1>1, <2>2, <2>3 DEF HandInv
  <2>5. task' \in Tasks /\ closing' \in Blocks
    BY <1>1
  <2>6. QED
    BY <2>1, <2>2, <2>3, <2>4, <2>5, ReturnedLook
<1>9. ASSUME NEW c \in Commands, NEW found \in Looks(c), Look(c, found, 0), HandInv',
             UNCHANGED <<fate, emitted, hand, shown>>, task' \in Tasks, closing' \in Blocks
      PROVE  WatchInv'
  <2>1. /\ log' \in Seq(Entries) /\ cut' \in BOOLEAN /\ mishaps' \subseteq {"overrun", "burst", "late"}
        /\ spans' \in [Commands -> Spans] /\ reader' \in [Commands -> Readers]
        /\ LinesInv(emitted, log', spans', reader', Printed)
    BY <1>9, LookStep
  <2>2. Printed' = Printed
    BY <1>9, SamePrinted
  <2>3. /\ fate' \in [Commands -> {"none", "run", "cached"}] /\ emitted' \in [Commands -> Nat]
        /\ hand' \in [Commands -> Seq(Lines)] /\ shown' \in [Commands -> Seq(Lines)]
    BY <1>1, <1>9, TypesNamed
  <2>4. WatchTypeOK'
    BY <1>9, <2>1, <2>3, Zenon DEF WatchTypeOK, Entries, Readers
  <2>5. LinesInv(emitted', log', spans', reader', Printed')
    BY <1>9, <2>1, <2>2, Zenon
  <2>6. QED
    BY <1>9, <2>4, <2>5 DEF WatchInv
<1>10. ASSUME NEW c \in Commands, AskInVain(c) PROVE WatchInv'
  <2> USE <1>10 DEF AskInVain, engineSide, terminal
  <2>1. PICK found \in Looks(c) : Look(c, found, 0)
    OBVIOUS
  <2>2. HandInv' /\ task' \in Tasks /\ closing' \in Blocks
    BY <1>1 DEF HandInv
  <2>3. QED
    BY <1>9, <2>1, <2>2
<1>11. ASSUME NEW c \in Commands, Conclude(c) PROVE WatchInv'
  <2> USE <1>11 DEF Conclude, Asking, At, Goto, engineSide
  <2>1. PICK found \in Looks(c) : /\ Look(c, found, 0)
                                  /\ closing' = [closing EXCEPT ![c] = IF StatusOf(found) = "CACHED" THEN "cached" ELSE "output"]
    OBVIOUS
  <2>2. closing' \in Blocks
    BY <1>1, <2>1
  <2>3. HandInv' /\ task' \in Tasks
    BY <1>1 DEF HandInv
  <2>4. QED
    BY <1>9, <2>1, <2>2, <2>3
<1>12. CASE UNCHANGED watchVars
  <2> USE <1>12 DEF watchVars, engineSide, watch, terminal
  <2>1. WatchTypeOK' /\ HandInv'
    BY <1>1 DEF WatchTypeOK, HandInv
  <2>2. QED
    BY <2>1, SamePrinted, OutsideKeeps
<1>13. QED
  BY <1>2, <1>3, <1>4, <1>5, <1>6, <1>7, <1>8, <1>10, <1>11, <1>12, EmitKeeps DEF WatchNext, Closes, Rest

\* Every variable of the watch has its type: no reader is ever past the end of its span.
THEOREM WatchTypeCorrect == WatchSpec => []WatchTypeOK
<1>1. WatchInv => WatchTypeOK
  BY DEF WatchInv
<1>2. QED
  BY <1>1, InitKeeps, WatchNextKeeps, PTL DEF WatchSpec

\* No line is printed twice, by one task or by two, and a command's lines are printed in the
\* order it wrote them.
THEOREM LinesPrintedOnce == WatchSpec => []PrintedOnce
<1>1. ASSUME WatchInv PROVE PrintedOnce
  <2>1. PrintedInv(emitted, log, Printed) /\ shown \in [Commands -> Seq(Lines)] /\ hand \in [Commands -> Seq(Lines)]
    BY <1>1, TypesNamed DEF WatchInv, LinesInv
  <2>2. ASSUME NEW c \in Commands, NEW i \in DOMAIN shown[c]
        PROVE  i \in DOMAIN Printed[c] /\ shown[c][i] = Printed[c][i] /\ i \in Nat
    <3> DEFINE s == shown[c]
               h == hand[c]
    <3>1. s \in Seq(Lines) /\ h \in Seq(Lines) /\ i \in DOMAIN s
      BY <2>1
    <3>2. Printed[c] = s \o h
      BY DEF Printed
    <3> HIDE DEF s, h
    <3>3. i \in DOMAIN (s \o h) /\ (s \o h)[i] = s[i] /\ i \in Nat
      BY <3>1
    <3>4. QED
      BY <3>2, <3>3 DEF s
  <2>3. ASSUME NEW c \in Commands, NEW d \in Commands, c # d
        PROVE  ToSet(shown[c]) \cap ToSet(shown[d]) = {}
    <3>1. \A i \in DOMAIN Printed[c], j \in DOMAIN Printed[d] : Printed[c][i] # Printed[d][j]
      BY <2>1, <2>3 DEF PrintedInv, Apart
    <3>2. \A i \in DOMAIN shown[c], j \in DOMAIN shown[d] : shown[c][i] # shown[d][j]
      BY <2>2, <3>1
    <3>3. QED
      BY <3>2 DEF ToSet
  <2>4. ASSUME NEW c \in Commands, NEW i \in DOMAIN shown[c], NEW j \in DOMAIN shown[c],
               i < j, shown[c][i][1] = shown[c][j][1]
        PROVE  shown[c][i][2] < shown[c][j][2]
    <3>1. InOrder(Printed[c])
      BY <2>1 DEF PrintedInv
    <3>2. Before(Printed[c][i], Printed[c][j])
      BY <2>2, <2>4, <3>1 DEF InOrder
    <3>3. Before(shown[c][i], shown[c][j])
      BY <2>2, <3>2
    <3>4. QED
      BY <2>4, <3>3 DEF Before
  <2>5. QED
    BY <2>3, <2>4 DEF PrintedOnce
<1>2. WatchInv => PrintedOnce
  BY <1>1
<1>3. QED
  BY <1>2, InitKeeps, WatchNextKeeps, PTL DEF WatchSpec

-----------------------------------------------------------------------------
(* Nothing is lost: without a mishap the lines of an operation are numbered *)
(* without a gap through its reader, its span and the log.                  *)

\* How many lines of output a command has written to the log.
Out(c) == IF emitted[c] = 0 THEN 0
          ELSE IF emitted[c] - 1 <= Total(c) THEN emitted[c] - 1 ELSE Total(c)
Outs == [c \in Commands |-> Out(c)]

\* How many lines of a span have been trimmed from it.
Gone(out, q, sp, s) == out[s] - (Len(Written(q, s)) + Len(sp[s].lines))

ContentInv(out, q, sp) ==
  \A s \in Commands :
    /\ \A j \in DOMAIN sp[s].lines : sp[s].lines[j] = <<s, Gone(out, q, sp, s) + j>>
    /\ \A k \in DOMAIN Written(q, s) :
         Written(q, s)[k].line = <<s, (out[s] - Len(Written(q, s))) + k>>

\* A reader has returned the lines of its span in full, up to its place in it; nothing has
\* been trimmed from a span that no reader has taken.
ReturnedInv(out, q, sp, rd, pr) ==
  /\ \A d \in Commands : rd[d].span # NoCommand =>
       /\ Len(pr[d]) = Gone(out, q, sp, rd[d].span) + rd[d].seen
       /\ \A i \in DOMAIN pr[d] : pr[d][i] = <<rd[d].span, i>>
  /\ \A s \in Commands : (\A d \in Commands : rd[d].span # s) => Gone(out, q, sp, s) = 0

\* What the log and the spans say of an operation is about that operation, and a reader's
\* span is one that looks like its command.
OriginInv(f, q, sp, rd) ==
  /\ \A j \in DOMAIN q : q[j].line[1] = q[j].span /\ f[q[j].span] # "none"
  /\ \A s \in Commands : sp[s].of # NoCommand => sp[s].of = s /\ f[s] # "none"
  /\ \A d \in Commands : rd[d].span # NoCommand =>
       /\ rd[d].span \in Matching[d]
       /\ f[rd[d].span] # "none"

\* The numbers of lines written are naturals.
LEMMA OutType ==
  ASSUME WatchTypeOK
  PROVE  Outs \in [Commands -> Nat] /\ \A c \in Commands : Total(c) \in Nat /\ Outs[c] = Out(c)
<1>1. \A c \in Commands : emitted[c] \in Nat /\ NLines[c] \in Nat
  BY WatchAssumption, TypesNamed
<1>2. \A c \in Commands : Total(c) \in Nat
  BY <1>1 DEF Total
<1>3. \A c \in Commands : Out(c) \in Nat
  BY <1>1, <1>2 DEF Out
<1>4. QED
  BY <1>2, <1>3 DEF Outs

\* Folding numbers the lines of a span on.
LEMMA FoldNumbers ==
  ASSUME spans \in [Commands -> Spans], NEW entries \in Seq(Entries),
         NEW out \in [Commands -> Nat], ContentInv(out, entries, spans), NEW s \in Commands
  PROVE  /\ Gone(out, <<>>, Consumed(entries), s) = Gone(out, entries, spans, s) + Dropped(entries, s)
         /\ Gone(out, entries, spans, s) \in Int /\ Dropped(entries, s) \in Nat
         /\ Written(<<>>, s) = <<>>
         /\ \A j \in DOMAIN Consumed(entries)[s].lines :
              Consumed(entries)[s].lines[j] = <<s, Gone(out, <<>>, Consumed(entries), s) + j>>
<1> DEFINE old == spans[s].lines
           new == Consumed(entries)[s].lines
           w == Written(entries, s)
           d == Dropped(entries, s)
           g == Gone(out, entries, spans, s)
           h == Gone(out, <<>>, Consumed(entries), s)
           o == out[s]
<1>1. Folded(old, w, d, new)
  BY FoldedLines
<1>2. Written(<<>>, s) = <<>>
  BY OfNothing DEF Written
<1>3. g = o - (Len(w) + Len(old)) /\ h = o - Len(new)
  <2>1. h = o - (0 + Len(new))
    BY <1>2 DEF Gone
  <2>2. Len(new) \in Nat
    BY <1>1 DEF Folded
  <2>3. g = o - (Len(w) + Len(old))
    BY DEF Gone
  <2> HIDE DEF o, new, h, g
  <2>4. QED
    BY <2>1, <2>2, <2>3
<1>4. /\ \A j \in DOMAIN old : old[j] = <<s, g + j>>
      /\ \A k \in DOMAIN w : w[k].line = <<s, (o - Len(w)) + k>>
  BY DEF ContentInv
<1>5. o \in Nat
  OBVIOUS
<1> HIDE DEF old, new, w, d, g, h, o
<1>6. /\ Len(old) \in Nat /\ Len(w) \in Nat /\ d \in Nat /\ Len(new) = Len(old) + Len(w) - d
      /\ DOMAIN new \subseteq Nat \ {0} /\ DOMAIN old = 1..Len(old)
  BY <1>1 DEF Folded
<1>7. g \in Int /\ h = g + d
  BY <1>3, <1>5, <1>6
<1>8. ASSUME NEW j \in DOMAIN new PROVE new[j] = <<s, h + j>>
  <2>1. j \in Nat \ {0}
    BY <1>6
  <2>2. CASE d + j <= Len(old)
    <3>1. d + j \in DOMAIN old
      BY <1>6, <2>1, <2>2
    <3>2. new[j] = old[d + j]
      BY <1>1, <2>2 DEF Folded
    <3>3. g + (d + j) = h + j
      BY <1>6, <1>7, <2>1
    <3>4. QED
      BY <1>4, <3>1, <3>2, <3>3
  <2>3. CASE d + j > Len(old)
    <3> DEFINE k == (d + j) - Len(old)
    <3>1. k \in DOMAIN w /\ new[j] = w[k].line
      BY <1>1, <2>3 DEF Folded
    <3>2. (o - Len(w)) + k = h + j
      BY <1>3, <1>5, <1>6, <2>1
    <3> HIDE DEF k
    <3>3. w[k].line = <<s, (o - Len(w)) + k>>
      BY <1>4, <3>1
    <3>4. QED
      BY <3>1, <3>2, <3>3
  <2>4. QED
    BY <1>6, <2>1, <2>2, <2>3
<1>9. QED
  BY <1>2, <1>6, <1>7, <1>8 DEF new, d, g, h

\* Folding keeps the numbering if no line is trimmed that its reader has not returned.
LEMMA FoldReturns ==
  ASSUME spans \in [Commands -> Spans], reader \in [Commands -> Readers],
         NEW entries \in Seq(Entries), NEW out \in [Commands -> Nat], NEW pr \in [Commands -> Seq(Lines)],
         ContentInv(out, entries, spans), ReturnedInv(out, entries, spans, reader, pr),
         ReadersInv(spans, reader, pr), ~Burst(entries)
  PROVE  /\ ContentInv(out, <<>>, Consumed(entries))
         /\ ReturnedInv(out, <<>>, Consumed(entries), Rebased(entries), pr)
<1> DEFINE sp == Consumed(entries)
           rd == Rebased(entries)
           G(s) == Gone(out, entries, spans, s)
           H(s) == Gone(out, <<>>, sp, s)
           D(s) == Dropped(entries, s)
<1>1. \A s \in Commands :
        /\ H(s) = G(s) + D(s) /\ G(s) \in Int /\ D(s) \in Nat
        /\ Written(<<>>, s) = <<>>
        /\ \A j \in DOMAIN sp[s].lines : sp[s].lines[j] = <<s, H(s) + j>>
  BY FoldNumbers
<1>2. ContentInv(out, <<>>, sp)
  BY <1>1 DEF ContentInv
<1>3. \A d \in Commands : /\ rd[d].span = reader[d].span
                          /\ reader[d].span # NoCommand =>
                               rd[d].seen = IF reader[d].seen > D(reader[d].span)
                                            THEN reader[d].seen - D(reader[d].span) ELSE 0
  BY RebasedReader
<1>4. \A s \in Commands : D(s) > 0 => \E d \in Commands : reader[d].span = s /\ ~(D(s) > reader[d].seen)
  BY DEF Burst
<1>5. \A d \in Commands : reader[d].span \in Commands \cup {NoCommand} /\ reader[d].seen \in Nat
  <2>1. \A d \in Commands : reader[d] \in Readers /\ SpanLimit \in Nat
    BY WatchAssumption
  <2>2. QED
    BY <2>1 DEF Readers
<1> HIDE DEF sp, rd, G, H, D
<1>6. ASSUME NEW d \in Commands, rd[d].span # NoCommand
      PROVE  /\ Len(pr[d]) = H(rd[d].span) + rd[d].seen
             /\ \A i \in DOMAIN pr[d] : pr[d][i] = <<rd[d].span, i>>
  <2> DEFINE s == reader[d].span
             n == reader[d].seen
  <2>1. s \in Commands /\ n \in Nat /\ rd[d].span = s
    BY <1>3, <1>5, <1>6
  <2>2. Len(pr[d]) = G(s) + n /\ \A i \in DOMAIN pr[d] : pr[d][i] = <<s, i>>
    BY <1>3, <1>6 DEF ReturnedInv, G
  <2>3. rd[d].seen = IF n > D(s) THEN n - D(s) ELSE 0
    BY <1>3, <1>6, <2>1
  <2>4. ~(D(s) > n)
    <3>1. CASE D(s) > 0
      <4>1. PICK e \in Commands : reader[e].span = s /\ ~(D(s) > reader[e].seen)
        BY <1>4, <2>1, <3>1
      <4>2. e = d
        BY <1>3, <1>6, <4>1 DEF ReadersInv
      <4>3. QED
        BY <4>1, <4>2
    <3>2. CASE ~(D(s) > 0)
      BY <1>1, <2>1, <3>2
    <3>3. QED
      BY <3>1, <3>2
  <2> HIDE DEF s, n
  <2>5. H(s) = G(s) + D(s) /\ G(s) \in Int /\ D(s) \in Nat
    BY <1>1, <2>1
  <2>6. rd[d].seen = n - D(s)
    BY <2>1, <2>3, <2>4, <2>5
  <2>7. Len(pr[d]) = H(s) + rd[d].seen
    BY <2>1, <2>2, <2>5, <2>6
  <2>8. QED
    BY <2>1, <2>2, <2>7
<1>7. ASSUME NEW s \in Commands, \A d \in Commands : rd[d].span # s PROVE H(s) = 0
  <2>1. \A d \in Commands : reader[d].span # s
    BY <1>3, <1>7
  <2>2. G(s) = 0
    BY <2>1 DEF ReturnedInv, G
  <2>3. ~(D(s) > 0)
    BY <1>4, <2>1
  <2>4. QED
    BY <1>1, <2>2, <2>3
<1>8. ReturnedInv(out, <<>>, sp, rd, pr)
  BY <1>6, <1>7 DEF ReturnedInv, H
<1>9. QED
  BY <1>2, <1>8 DEF sp, rd

\* A reader that takes a span starts at its first line.
LEMMA BindNumbers ==
  ASSUME NEW out \in [Commands -> Nat], NEW sp \in [Commands -> Spans],
         NEW rd \in [Commands -> Readers], NEW pr \in [Commands -> Seq(Lines)],
         ReturnedInv(out, <<>>, sp, rd, pr), ReadersInv(sp, rd, pr),
         NEW c \in Commands, NEW b \in Commands, rd[c].span = NoCommand,
         \A d \in Commands : rd[d].span # b
  PROVE  ReturnedInv(out, <<>>, sp, Bound(rd, c, b, rd[c].seen), pr)
<1> DEFINE r == Bound(rd, c, b, rd[c].seen)
<1>1. \A d \in Commands : /\ d = c => r[d].span = b /\ r[d].seen = rd[d].seen
                          /\ d # c => r[d] = rd[d]
  BY DEF Bound
<1>2. rd[c].seen = 0 /\ pr[c] = <<>>
  BY DEF ReadersInv
<1>3. Gone(out, <<>>, sp, b) = 0
  BY DEF ReturnedInv
<1> HIDE DEF r
<1>4. ASSUME NEW d \in Commands, r[d].span # NoCommand
      PROVE  /\ Len(pr[d]) = Gone(out, <<>>, sp, r[d].span) + r[d].seen
             /\ \A i \in DOMAIN pr[d] : pr[d][i] = <<r[d].span, i>>
  <2>1. CASE d = c
    <3>1. Len(pr[d]) = 0 /\ DOMAIN pr[d] = {}
      BY <1>2, <2>1
    <3>2. r[d].span = b /\ r[d].seen = 0
      BY <1>1, <1>2, <2>1
    <3>3. QED
      BY <1>3, <3>1, <3>2
  <2>2. CASE d # c
    BY <1>1, <1>4, <2>2 DEF ReturnedInv
  <2>3. QED
    BY <2>1, <2>2
<1>5. ASSUME NEW s \in Commands, \A d \in Commands : r[d].span # s PROVE Gone(out, <<>>, sp, s) = 0
  <2>1. ASSUME NEW d \in Commands PROVE rd[d].span # s
    <3>1. CASE d = c
      <4>1. s # NoCommand
        BY WatchAssumption
      <4>2. QED
        BY <3>1, <4>1
    <3>2. CASE d # c
      BY <1>1, <1>5, <3>2
    <3>3. QED
      BY <3>1, <3>2
  <2>2. QED
    BY <2>1 DEF ReturnedInv
<1>6. QED
  BY <1>4, <1>5 DEF ReturnedInv, r

\* What has been returned once c's reader returns the lines that follow the first `seen' ones.
Returning(pr, c, lines, seen) == [pr EXCEPT ![c] = pr[c] \o SubSeq(lines, seen + 1, Len(lines))]

\* A reader that returns the rest of its span has returned all its command wrote.
LEMMA ReturnNumbers ==
  ASSUME NEW out \in [Commands -> Nat], NEW sp \in [Commands -> Spans],
         NEW rd \in [Commands -> Readers], NEW pr \in [Commands -> Seq(Lines)],
         ContentInv(out, <<>>, sp), ReturnedInv(out, <<>>, sp, rd, pr),
         NEW c \in Commands, rd[c].span # NoCommand, rd[c].seen <= Len(sp[rd[c].span].lines)
  PROVE  LET lines == sp[rd[c].span].lines
             p == Returning(pr, c, lines, rd[c].seen)
         IN  /\ ReturnedInv(out, <<>>, sp, Bound(rd, c, rd[c].span, Len(lines)), p)
             /\ Len(p[c]) = out[rd[c].span]
<1> DEFINE b == rd[c].span
           seen == rd[c].seen
           lines == sp[b].lines
           q == pr[c] \o SubSeq(lines, seen + 1, Len(lines))
           p == [pr EXCEPT ![c] = q]
           r == Bound(rd, c, b, Len(lines))
           g == Gone(out, <<>>, sp, b)
<1>1. b \in Commands /\ seen \in Nat /\ lines \in Seq(Lines) /\ seen <= Len(lines)
  <2>1. rd[c] \in Readers /\ SpanLimit \in Nat
    BY WatchAssumption
  <2>2. b \in Commands /\ seen \in Nat
    BY <2>1 DEF Readers
  <2>3. QED
    BY <2>2 DEF Spans
<1>2. pr[c] \in Seq(Lines)
  OBVIOUS
<1>3. Grown(q, pr[c], lines, seen)
  BY <1>1, <1>2, GrownByRest
<1>4. /\ Len(pr[c]) = g + seen /\ \A i \in DOMAIN pr[c] : pr[c][i] = <<b, i>>
      /\ \A j \in DOMAIN lines : lines[j] = <<b, g + j>>
  BY <1>1 DEF ReturnedInv, ContentInv
<1>5. g = out[b] - Len(lines)
  <2>1. Written(<<>>, b) = <<>> /\ Len(<<>>) = 0
    BY OfNothing DEF Written
  <2>2. g = out[b] - (0 + Len(lines))
    BY <2>1 DEF Gone
  <2>3. Len(lines) \in Nat
    BY <1>1
  <2> HIDE DEF g, lines
  <2>4. QED
    BY <2>2, <2>3
<1>6. \A d \in Commands : /\ d = c => r[d].span = b /\ r[d].seen = Len(lines) /\ p[d] = q
                          /\ d # c => r[d] = rd[d] /\ p[d] = pr[d]
  BY DEF Bound
<1>7. out[b] \in Nat
  BY <1>1
<1> HIDE DEF seen, lines, q, p, r, g
<1>8. /\ q \in Seq(Lines) /\ Len(q) = Len(pr[c]) + (Len(lines) - seen) /\ Len(pr[c]) \in Nat
      /\ Len(lines) \in Nat /\ DOMAIN q \subseteq Nat
  <2>1. q \in Seq(Lines) /\ Len(q) = Len(pr[c]) + (Len(lines) - seen) /\ Len(pr[c]) \in Nat
    BY <1>3 DEF Grown
  <2>2. Len(lines) \in Nat
    BY <1>1
  <2>3. DOMAIN q = 1..Len(q)
    BY <2>1
  <2>4. QED
    BY <2>1, <2>2, <2>3
<1>9. Len(q) = out[b] /\ Len(q) = g + Len(lines) /\ g \in Int
  <2> DEFINE L == Len(lines)
             m == Len(pr[c])
             o == out[b]
             k == Len(q)
  <2>1. L \in Nat /\ m \in Nat /\ o \in Nat /\ seen \in Nat /\ k = m + (L - seen) /\ m = g + seen /\ g = o - L
    BY <1>1, <1>4, <1>5, <1>7, <1>8
  <2> HIDE DEF L, m, o, k
  <2>2. k = o /\ k = g + L /\ g \in Int
    BY <2>1
  <2>3. QED
    BY <2>2 DEF L, o, k
<1>10. ASSUME NEW i \in DOMAIN q PROVE q[i] = <<b, i>>
  <2>1. i \in Nat
    BY <1>8
  <2>2. CASE i <= Len(pr[c])
    BY <1>3, <1>4, <2>2 DEF Grown
  <2>3. CASE i > Len(pr[c])
    <3> DEFINE j == seen + (i - Len(pr[c]))
    <3>1. j \in DOMAIN lines /\ q[i] = lines[j]
      BY <1>3, <2>3 DEF Grown
    <3>2. g + j = i
      BY <1>1, <1>4, <1>8, <1>9, <2>1
    <3> HIDE DEF j
    <3>3. lines[j] = <<b, g + j>>
      BY <1>4, <3>1
    <3>4. QED
      BY <3>1, <3>2, <3>3
  <2>4. QED
    BY <1>8, <2>1, <2>2, <2>3
<1>11. ASSUME NEW d \in Commands, r[d].span # NoCommand
       PROVE  /\ Len(p[d]) = Gone(out, <<>>, sp, r[d].span) + r[d].seen
              /\ \A i \in DOMAIN p[d] : p[d][i] = <<r[d].span, i>>
  <2>1. CASE d = c
    <3>1. Gone(out, <<>>, sp, b) = g
      BY DEF g
    <3>2. QED
      BY <1>6, <1>9, <1>10, <2>1, <3>1
  <2>2. CASE d # c
    <3>1. rd[d].span # NoCommand /\ r[d] = rd[d] /\ p[d] = pr[d]
      BY <1>6, <1>11, <2>2
    <3>2. QED
      BY <3>1 DEF ReturnedInv
  <2>3. QED
    BY <2>1, <2>2
<1>12. ASSUME NEW s \in Commands, \A d \in Commands : r[d].span # s PROVE Gone(out, <<>>, sp, s) = 0
  <2>1. \A d \in Commands : rd[d].span # s
    BY <1>6, <1>12 DEF b
  <2>2. QED
    BY <2>1 DEF ReturnedInv
<1>13. ReturnedInv(out, <<>>, sp, r, p)
  BY <1>11, <1>12 DEF ReturnedInv
<1>14. Len(p[c]) = out[b]
  BY <1>6, <1>9
<1>15. QED
  BY <1>13, <1>14, Zenon DEF r, p, q, lines, seen, Returning

\* A folded span describes what it described, or what the log says of it.
LEMMA FoldOrigin ==
  ASSUME spans \in [Commands -> Spans], reader \in [Commands -> Readers],
         NEW entries \in Seq(Entries), NEW f, OriginInv(f, entries, spans, reader)
  PROVE  OriginInv(f, <<>>, Consumed(entries), Rebased(entries))
<1>1. ASSUME NEW s \in Commands, Consumed(entries)[s].of # NoCommand
      PROVE  Consumed(entries)[s].of = s /\ f[s] # "none"
  <2> DEFINE found == Of(entries, s, {"describe"})
  <2>1. found \in Seq(Entries) /\ Picked(found, entries, s, {"describe"}, Len(entries))
    BY OfKeeps
  <2>2. Consumed(entries)[s].of = Described(entries, s)
    BY DEF Consumed
  <2>3. CASE spans[s].of # NoCommand \/ found = <<>>
    <3>1. Described(entries, s) = spans[s].of
      BY <2>3 DEF Described
    <3>2. QED
      BY <1>1, <2>2, <3>1 DEF OriginInv
  <2>4. CASE ~(spans[s].of # NoCommand \/ found = <<>>)
    <3>1. Described(entries, s) = Head(found).line[1]
      BY <2>4 DEF Described
    <3> HIDE DEF found
    <3>2. 1 \in DOMAIN found /\ Head(found) = found[1]
      BY <2>1, <2>4
    <3>3. PICK j \in 1..Len(entries) : found[1] = entries[j] /\ entries[j].span = s
      BY <2>1, <3>2 DEF Picked, Matches
    <3>4. j \in DOMAIN entries
      OBVIOUS
    <3>5. entries[j].line[1] = s /\ f[s] # "none"
      BY <3>3, <3>4 DEF OriginInv
    <3>6. QED
      BY <2>2, <3>1, <3>2, <3>3, <3>5
  <2>5. QED
    BY <2>3, <2>4
<1>2. \A d \in Commands : Rebased(entries)[d].span = reader[d].span
  BY RebasedReader
<1>3. DOMAIN <<>> = {}
  OBVIOUS
<1>4. QED
  BY <1>1, <1>2, <1>3 DEF OriginInv

\* The span a reader takes looks like its command.
LEMMA BindOrigin ==
  ASSUME reader \in [Commands -> Readers], NEW entries, NEW f,
         NEW rd \in [Commands -> Readers], \A d \in Commands : rd[d].span = reader[d].span,
         NEW c \in Commands, NEW b \in Bindings(Consumed(entries), c), NEW n,
         OriginInv(f, <<>>, Consumed(entries), rd)
  PROVE  OriginInv(f, <<>>, Consumed(entries), Bound(rd, c, b, n))
<1> DEFINE sp == Consumed(entries)
           r == Bound(rd, c, b, n)
<1>1. \A d \in Commands : (d = c => r[d].span = b) /\ (d # c => r[d].span = rd[d].span)
  BY DEF Bound
<1>2. \/ b = rd[c].span \/ b = NoCommand
      \/ b \in Commands /\ sp[b].of \in Matching[c]
  BY DEF Bindings, Candidates
<1> HIDE DEF sp, r
<1>3. OriginInv(f, <<>>, sp, rd)
  BY DEF sp
<1>4. ASSUME NEW d \in Commands, r[d].span # NoCommand
      PROVE  r[d].span \in Matching[d] /\ f[r[d].span] # "none"
  <2>1. CASE r[d].span = rd[d].span
    BY <1>3, <1>4, <2>1 DEF OriginInv
  <2>2. CASE r[d].span # rd[d].span
    <3>1. d = c /\ r[d].span = b /\ b # rd[c].span
      BY <1>1, <2>2
    <3>2. b \in Commands /\ sp[b].of \in Matching[c]
      BY <1>2, <1>4, <3>1
    <3>3. sp[b].of # NoCommand
      BY <3>2, WatchAssumption
    <3>4. sp[b].of = b /\ f[b] # "none"
      BY <1>3, <3>2, <3>3 DEF OriginInv
    <3>5. QED
      BY <3>1, <3>2, <3>4
  <2>3. QED
    BY <2>1, <2>2
<1>5. QED
  BY <1>3, <1>4 DEF OriginInv, sp, r

FlowInv(out, f, q, sp, rd, pr) ==
  ContentInv(out, q, sp) /\ ReturnedInv(out, q, sp, rd, pr) /\ OriginInv(f, q, sp, rd)

\* What has been returned once the given lines are.
Extended(pr, c, fresh) == [pr EXCEPT ![c] = pr[c] \o fresh]

\* A span of a command that was started, in whose rendering the reader's key is found.
LooksLike(f, s, c) == s \in Matching[c] /\ f[s] # "none"

\* A look at an uncut log that trims no line unseen keeps the numbering, and after it the
\* reader has returned all that its span's command has written.
LEMMA LookFlows ==
  ASSUME log \in Seq(Entries), spans \in [Commands -> Spans], reader \in [Commands -> Readers],
         NEW em, NEW pr \in [Commands -> Seq(Lines)], LinesInv(em, log, spans, reader, pr),
         NEW out \in [Commands -> Nat], NEW f \in [Commands -> {"none", "run", "cached"}],
         FlowInv(out, f, log, spans, reader, pr),
         cut = FALSE, NEW c \in Commands, NEW found \in Looks(c), ~found.burst
  PROVE  LET readers(n) == [found.readers EXCEPT ![c] = [span |-> found.span, seen |-> @.seen + n]]
             p == Extended(pr, c, found.fresh)
         IN  /\ FlowInv(out, f, <<>>, found.spans, readers(0), pr)
             /\ FlowInv(out, f, <<>>, found.spans, readers(Len(found.fresh)), p)
             /\ found.span \in Commands \cup {NoCommand}
             /\ found.span # NoCommand =>
                  /\ Len(p[c]) = out[found.span] /\ \A i \in DOMAIN p[c] : p[c][i] = <<found.span, i>>
                  /\ LooksLike(f, found.span, c)
             /\ found.span = NoCommand => p[c] = <<>>
<1> DEFINE sp == found.spans
           rd == found.readers
           b == found.span
           fresh == found.fresh
           lines == sp[b].lines
           bound == Bound(rd, c, b, rd[c].seen)
           p == Extended(pr, c, fresh)
<1>1. Found(found, log, c)
  <2>1. PICK entries \in Unread : Found(found, entries, c)
    BY LooksFind
  <2>2. entries = log
    BY <2>1 DEF Unread
  <2>3. QED
    BY <2>1, <2>2
<1>2. sp = Consumed(log) /\ rd = Rebased(log) /\ ~Burst(log) /\ b \in Bindings(Consumed(log), c)
  BY <1>1 DEF Found
<1>3. fresh = IF b = NoCommand THEN <<>> ELSE SubSeq(lines, rd[c].seen + 1, Len(lines))
  BY <1>1 DEF Found
<1>4. /\ sp \in [Commands -> Spans] /\ rd \in [Commands -> Readers]
      /\ LinesInv(em, <<>>, sp, rd, pr)
      /\ \A d \in Commands : rd[d].span = reader[d].span
  <2>1. Consumed(log) \in [Commands -> Spans] /\ Rebased(log) \in [Commands -> Readers]
    BY ConsumedType, RebasedType
  <2>2. LinesInv(em, <<>>, Consumed(log), Rebased(log), pr)
    BY FoldKeeps
  <2>3. \A d \in Commands : Rebased(log)[d].span = reader[d].span
    BY RebasedReader
  <2>4. QED
    BY <1>2, <2>1, <2>2, <2>3, Zenon
<1>5. ContentInv(out, <<>>, sp) /\ ReturnedInv(out, <<>>, sp, rd, pr) /\ OriginInv(f, <<>>, sp, rd)
  <2>1. ContentInv(out, log, spans) /\ ReturnedInv(out, log, spans, reader, pr) /\ OriginInv(f, log, spans, reader)
    BY DEF FlowInv
  <2>2. ReadersInv(spans, reader, pr)
    BY DEF LinesInv
  <2>3. ContentInv(out, <<>>, Consumed(log)) /\ ReturnedInv(out, <<>>, Consumed(log), Rebased(log), pr)
    BY <1>2, <2>1, <2>2, FoldReturns
  <2>4. OriginInv(f, <<>>, Consumed(log), Rebased(log))
    BY <2>1, FoldOrigin
  <2>5. QED
    BY <1>2, <2>3, <2>4, Zenon
<1>6. \A n : OriginInv(f, <<>>, sp, Bound(rd, c, b, n))
  <2>1. OriginInv(f, <<>>, Consumed(log), rd)
    BY <1>2, <1>5, Zenon
  <2> HIDE DEF rd, b
  <2>2. \A n : OriginInv(f, <<>>, Consumed(log), Bound(rd, c, b, n))
    BY <1>2, <1>4, <2>1, BindOrigin
  <2>3. QED
    BY <1>2, <2>2, Zenon
<1>7. \/ b = rd[c].span
      \/ /\ b \in Commands /\ rd[c].span = NoCommand
         /\ \A d \in Commands : rd[d].span # b
  <2>1. \/ b = reader[c].span
        \/ /\ b \in Commands /\ reader[c].span = NoCommand
           /\ \A d \in Commands : reader[d].span # b
    BY <1>2, BindingsAre
  <2> HIDE DEF rd, b
  <2>2. QED
    BY <1>4, <2>1
<1>8. rd[c] \in Readers /\ rd[c].seen \in Nat /\ SpanLimit \in Nat
  BY <1>4, WatchAssumption DEF Readers
<1>9. b \in Commands \cup {NoCommand} /\ rd[c] = [span |-> rd[c].span, seen |-> rd[c].seen]
  BY <1>7, <1>8 DEF Readers
<1>10. LET readers(n) == [found.readers EXCEPT ![c] = [span |-> found.span, seen |-> @.seen + n]]
       IN  /\ readers(0) = bound /\ ReadersInv(sp, bound, pr)
           /\ readers(Len(fresh)) = Bound(rd, c, b, rd[c].seen + Len(fresh))
  <2> DEFINE readers(n) == [found.readers EXCEPT ![c] = [span |-> found.span, seen |-> @.seen + n]]
  <2>1. \A n : readers(n) = Bound(rd, c, b, rd[c].seen + n)
    BY <1>4 DEF Bound
  <2>2. rd[c].seen + 0 = rd[c].seen
    BY <1>8
  <2>3. LinesInv(em, <<>>, sp, readers(0), pr)
    BY LookKeeps
  <2> HIDE DEF rd, b, readers, sp, fresh
  <2>4. readers(0) = bound
    BY <2>1, <2>2
  <2>5. LinesInv(em, <<>>, sp, bound, pr)
    BY <2>3, <2>4, Zenon
  <2>6. ReadersInv(sp, bound, pr) /\ readers(Len(fresh)) = Bound(rd, c, b, rd[c].seen + Len(fresh))
    BY <2>1, <2>5 DEF LinesInv
  <2>7. QED
    BY <2>4, <2>6 DEF readers, rd, b, fresh
<1> HIDE DEF sp, rd, b, fresh, lines
<1>11. bound \in [Commands -> Readers] /\ bound[c].span = b /\ bound[c].seen = rd[c].seen
  BY <1>4, <1>8, <1>9 DEF Bound, Readers
<1>12. ReturnedInv(out, <<>>, sp, bound, pr)
  <2>1. CASE b = rd[c].span
    <3>1. bound = rd
      BY <1>4, <1>9, <2>1 DEF Bound
    <3>2. QED
      BY <1>5, <3>1
  <2>2. CASE b # rd[c].span
    <3>1. ReadersInv(sp, rd, pr)
      BY <1>4 DEF LinesInv
    <3>2. QED
      BY <1>4, <1>5, <1>7, <2>2, <3>1, BindNumbers
  <2>3. QED
    BY <2>1, <2>2
<1> HIDE DEF bound
<1>13. FlowInv(out, f, <<>>, sp, bound, pr)
  BY <1>5, <1>6, <1>12 DEF FlowInv, bound
<1>14. CASE b = NoCommand
  <2>1. fresh = <<>> /\ Len(fresh) = 0
    BY <1>3, <1>14
  <2>2. pr[c] = <<>>
    BY <1>10, <1>11, <1>14 DEF ReadersInv
  <2>3. p = pr
    <3>1. <<>> \o <<>> = <<>>
      OBVIOUS
    <3>2. QED
      BY <2>1, <2>2, <3>1 DEF Extended
  <2>4. Bound(rd, c, b, rd[c].seen + Len(fresh)) = bound
    BY <1>8, <2>1 DEF bound
  <2>5. p[c] = <<>>
    BY <2>2, <2>3
  <2> HIDE DEF p
  <2>6. QED
    BY <1>9, <1>10, <1>13, <1>14, <2>3, <2>4, <2>5 DEF sp, b, fresh, p
<1>15. CASE b # NoCommand
  <2>1. b \in Commands /\ lines \in Seq(Lines) /\ lines = sp[bound[c].span].lines
    BY <1>4, <1>9, <1>11, <1>15 DEF Spans, lines
  <2>2. rd[c].seen <= Len(lines)
    BY <1>10, <1>11, <1>15, <2>1 DEF ReadersInv
  <2>3. fresh = SubSeq(lines, rd[c].seen + 1, Len(lines))
    BY <1>3, <1>15
  <2>4. Len(lines) \in Nat /\ Len(SubSeq(lines, rd[c].seen + 1, Len(lines))) = Len(lines) - rd[c].seen
    <3> DEFINE n == rd[c].seen
    <3>1. n \in Nat /\ n <= Len(lines)
      BY <1>8, <2>2
    <3> HIDE DEF n
    <3>2. Len(SubSeq(lines, n + 1, Len(lines))) = Len(lines) - n
      BY <2>1, <3>1, WithoutFirst
    <3>3. Len(lines) \in Nat
      BY <2>1
    <3>4. QED
      BY <3>2, <3>3, Zenon DEF n
  <2>5. rd[c].seen + Len(fresh) = Len(lines)
    <3> DEFINE n == rd[c].seen
               L == Len(lines)
               k == Len(fresh)
    <3>1. n \in Nat /\ L \in Nat /\ k = L - n
      BY <1>8, <2>3, <2>4
    <3> HIDE DEF n, L, k
    <3>2. n + k = L
      BY <3>1
    <3>3. QED
      BY <3>2 DEF n, L, k
  <2> DEFINE q == Returning(pr, c, lines, bound[c].seen)
  <2>6. ReturnedInv(out, <<>>, sp, Bound(bound, c, bound[c].span, Len(lines)), q) /\ Len(q[c]) = out[b]
    <3> DEFINE all == sp[bound[c].span].lines
    <3>1. bound[c].span # NoCommand /\ bound[c].seen <= Len(all) /\ all = lines
      BY <1>11, <1>15, <2>1, <2>2
    <3>2. ContentInv(out, <<>>, sp) /\ ReturnedInv(out, <<>>, sp, bound, pr)
      BY <1>5, <1>12
    <3>3. bound \in [Commands -> Readers] /\ sp \in [Commands -> Spans]
      BY <1>4, <1>11
    <3> HIDE DEF q
    <3>4. /\ ReturnedInv(out, <<>>, sp, Bound(bound, c, bound[c].span, Len(all)),
                         Returning(pr, c, all, bound[c].seen))
          /\ Len(Returning(pr, c, all, bound[c].seen)[c]) = out[bound[c].span]
      BY <3>1, <3>2, <3>3, ReturnNumbers
    <3> HIDE DEF all
    <3>5. QED
      BY <1>11, <3>1, <3>4 DEF q
  <2>7. p = q
    BY <1>11, <2>3 DEF Returning, Extended
  <2> HIDE DEF q
  <2>8. Bound(bound, c, bound[c].span, Len(lines)) = Bound(rd, c, b, rd[c].seen + Len(fresh))
    BY <1>4, <1>11, <2>5 DEF Bound, bound
  <2> DEFINE final == Bound(rd, c, b, rd[c].seen + Len(fresh))
  <2>9. final[c].span = b
    BY <1>4 DEF Bound
  <2> HIDE DEF p, final
  <2>10. ReturnedInv(out, <<>>, sp, final, p) /\ Len(p[c]) = out[b]
    BY <1>11, <2>6, <2>7, <2>8 DEF final
  <2>11. OriginInv(f, <<>>, sp, final)
    BY <1>6 DEF final
  <2>12. FlowInv(out, f, <<>>, sp, final, p)
    BY <1>5, <2>10, <2>11 DEF FlowInv
  <2>13. \A i \in DOMAIN p[c] : p[c][i] = <<b, i>>
    BY <1>15, <2>9, <2>10 DEF ReturnedInv
  <2>14. LooksLike(f, b, c)
    BY <1>15, <2>9, <2>11 DEF OriginInv, LooksLike
  <2>15. QED
    BY <1>9, <1>10, <1>13, <1>15, <2>10, <2>12, <2>13, <2>14 DEF sp, b, fresh, p, final
<1>16. QED
  BY <1>14, <1>15

\* An entry is counted as the next line of its command if it is a line of output.
LEMMA EmittedOut ==
  ASSUME WatchTypeOK, NEW c \in Commands, NEW e \in NextEntries(c),
         emitted' = [emitted EXCEPT ![c] = @ + 1], UNCHANGED fate
  PROVE  /\ \A d \in Commands : d # c => Out(d)' = Out(d)
         /\ Out(c)' = IF e.kind = "output" THEN Out(c) + 1 ELSE Out(c)
         /\ e.kind = "output" => e.line = <<c, Out(c) + 1>>
         /\ e.line[1] = c
<1>1. emitted[c] \in Nat /\ Total(c) \in Nat
  BY OutType, TypesNamed
<1>2. /\ \A d \in Commands : Total(d)' = Total(d) /\ (d # c => emitted'[d] = emitted[d])
      /\ emitted'[c] = emitted[c] + 1
  BY TypesNamed DEF Total
<1>3. \A d \in Commands : d # c => Out(d)' = Out(d)
  BY <1>2 DEF Out
<1>4. Out(c)' = IF emitted[c] + 1 = 0 THEN 0
                ELSE IF (emitted[c] + 1) - 1 <= Total(c) THEN (emitted[c] + 1) - 1 ELSE Total(c)
  BY <1>2 DEF Out
<1>5. Out(c) = IF emitted[c] = 0 THEN 0
               ELSE IF emitted[c] - 1 <= Total(c) THEN emitted[c] - 1 ELSE Total(c)
  BY DEF Out
<1>6. \A kind, i : Entry(c, kind, i).kind = kind /\ Entry(c, kind, i).line = <<c, i>>
  BY DEF Entry, Line
<1>7. \/ emitted[c] = 0 /\ e = Entry(c, "describe", 0)
      \/ emitted[c] \in 1..Total(c) /\ e = Entry(c, "output", emitted[c])
      \/ emitted[c] = Total(c) + 1 /\ e = Entry(c, IF fate[c] = "run" THEN "DONE" ELSE "CACHED", 0)
  BY DEF NextEntries
<1>8. CASE emitted[c] = 0 /\ e = Entry(c, "describe", 0)
  <2>1. e.kind = "describe" /\ e.line = <<c, 0>>
    BY <1>6, <1>8
  <2>2. Out(c)' = Out(c)
    BY <1>1, <1>4, <1>5, <1>8
  <2>3. QED
    BY <1>3, <2>1, <2>2
<1>9. CASE emitted[c] \in 1..Total(c) /\ e = Entry(c, "output", emitted[c])
  <2>1. e.kind = "output" /\ e.line = <<c, emitted[c]>>
    BY <1>6, <1>9
  <2>2. Out(c)' = Out(c) + 1 /\ Out(c) + 1 = emitted[c]
    BY <1>1, <1>4, <1>5, <1>9
  <2>3. QED
    BY <1>3, <2>1, <2>2
<1>10. CASE emitted[c] = Total(c) + 1 /\ e = Entry(c, IF fate[c] = "run" THEN "DONE" ELSE "CACHED", 0)
  <2>1. e.kind # "output" /\ e.line = <<c, 0>>
    BY <1>6, <1>10
  <2>2. Out(c)' = Out(c)
    BY <1>1, <1>4, <1>5, <1>10
  <2>3. QED
    BY <1>3, <2>1, <2>2
<1>11. QED
  BY <1>7, <1>8, <1>9, <1>10

\* What the engine writes to a log with room continues the numbering.
LEMMA EmitFlows ==
  ASSUME WatchTypeOK, NEW pr, FlowInv(Outs, fate, log, spans, reader, pr), NEW c \in Commands,
         NEW e \in NextEntries(c), fate[c] # "none",
         emitted' = [emitted EXCEPT ![c] = @ + 1], UNCHANGED fate
  PROVE  FlowInv(Outs', fate, Append(log, e), spans, reader, pr)
<1> DEFINE q == Append(log, e)
           n == Outs'
           w(s) == Written(log, s)
           v(s) == Written(q, s)
<1>1. log \in Seq(Entries) /\ spans \in [Commands -> Spans]
  BY TypesNamed
<1>2. e \in Entries /\ e.span = c /\ e.line[1] = c
  BY NextEntryType, EmittedOut
<1>3. \A s \in Commands : /\ Outs[s] \in Nat
                          /\ n[s] = IF s = c /\ e.kind = "output" THEN Outs[s] + 1 ELSE Outs[s]
  <2>1. \A s \in Commands : Outs[s] = Out(s) /\ Outs[s] \in Nat
    BY OutType
  <2>2. \A s \in Commands : n[s] = Out(s)'
    BY DEF Outs
  <2> HIDE DEF n
  <2>3. /\ \A d \in Commands : d # c => Out(d)' = Out(d)
        /\ Out(c)' = IF e.kind = "output" THEN Out(c) + 1 ELSE Out(c)
    BY EmittedOut
  <2>4. ASSUME NEW s \in Commands
        PROVE  n[s] = IF s = c /\ e.kind = "output" THEN Outs[s] + 1 ELSE Outs[s]
    <3>1. n[s] = Out(s)' /\ Outs[s] = Out(s)
      BY <2>1, <2>2
    <3>2. CASE s = c
      <4>1. n[c] = Out(c)' /\ Outs[c] = Out(c)
        BY <2>1, <2>2
      <4>2. QED
        BY <2>3, <3>2, <4>1
    <3>3. CASE s # c
      BY <2>3, <3>1, <3>3
    <3>4. QED
      BY <3>2, <3>3
  <2>5. QED
    BY <2>1, <2>4
<1>4. e.kind = "output" => e.line = <<c, Outs[c] + 1>>
  <2>1. Outs[c] = Out(c)
    BY OutType
  <2>2. QED
    BY <2>1, EmittedOut
<1>5. \A s \in Commands : /\ w(s) \in Seq(Entries)
                          /\ v(s) = IF s = c /\ e.kind = "output" THEN Append(w(s), e) ELSE w(s)
  <2>1. \A s \in Commands : w(s) \in Seq(Entries)
    BY <1>1, WrittenLines
  <2>2. \A s \in Commands : v(s) = IF Matches(e, s, {"output"}) THEN Append(w(s), e) ELSE w(s)
    <3> DEFINE kinds == {"output"}
    <3>1. e \in Entries
      BY <1>2
    <3> HIDE DEF kinds
    <3>2. \A s \in Commands : Of(Append(log, e), s, kinds) = IF Matches(e, s, kinds) THEN Append(Of(log, s, kinds), e)
                                                            ELSE Of(log, s, kinds)
      BY <1>1, <3>1, OfAppend
    <3>3. QED
      BY <3>2, Zenon DEF Written, kinds
  <2> HIDE DEF w, v
  <2>3. QED
    BY <1>2, <2>1, <2>2 DEF Matches
<1> HIDE DEF q, n
<1>6. \A s \in Commands : Len(w(s)) \in Nat /\ Len(v(s)) = IF s = c /\ e.kind = "output" THEN Len(w(s)) + 1 ELSE Len(w(s))
  <2> HIDE DEF w, v
  <2>1. ASSUME NEW s \in Commands
        PROVE  Len(w(s)) \in Nat /\ Len(v(s)) = IF s = c /\ e.kind = "output" THEN Len(w(s)) + 1 ELSE Len(w(s))
    <3>1. w(s) \in Seq(Entries)
      BY <1>5
    <3>2. Len(w(s)) \in Nat /\ Len(Append(w(s), e)) = Len(w(s)) + 1
      BY <3>1
    <3>3. QED
      BY <1>5, <3>2
  <2>2. QED
    BY <2>1
<1>7. \A s \in Commands : n[s] - Len(v(s)) = Outs[s] - Len(w(s))
  <2> HIDE DEF w, v
  <2>1. \A s \in Commands : \A o \in Nat, k \in Nat : (o + 1) - (k + 1) = o - k
    OBVIOUS
  <2>2. QED
    BY <1>3, <1>6, <2>1
<1>8. \A s \in Commands : Gone(n, q, spans, s) = Gone(Outs, log, spans, s)
  <2>1. ASSUME NEW s \in Commands PROVE Gone(n, q, spans, s) = Gone(Outs, log, spans, s)
    <3> DEFINE l == Len(spans[s].lines)
               a == n[s]
               b == Outs[s]
               x == Len(v(s))
               y == Len(w(s))
    <3>1. l \in Nat
      <4>1. spans[s].lines \in Seq(Lines)
        BY <1>1 DEF Spans
      <4>2. QED
        BY <4>1
    <3>2. Gone(n, q, spans, s) = a - (x + l) /\ Gone(Outs, log, spans, s) = b - (y + l)
      BY DEF Gone
    <3>3. a \in Nat /\ b \in Nat /\ x \in Nat /\ y \in Nat /\ a - x = b - y
      <4> HIDE DEF w, v
      <4>1. QED
        BY <1>3, <1>6, <1>7
    <3> HIDE DEF l, a, b, x, y
    <3>4. QED
      BY <3>1, <3>2, <3>3
  <2>2. QED
    BY <2>1
<1>9. ContentInv(n, q, spans)
  <2>1. \A s \in Commands : \A j \in DOMAIN spans[s].lines : spans[s].lines[j] = <<s, Gone(n, q, spans, s) + j>>
    BY <1>8 DEF FlowInv, ContentInv
  <2>2. ASSUME NEW s \in Commands, NEW k \in DOMAIN v(s)
        PROVE  v(s)[k].line = <<s, (n[s] - Len(v(s))) + k>>
    <3>1. \A i \in DOMAIN w(s) : w(s)[i].line = <<s, (n[s] - Len(v(s))) + i>>
      BY <1>7 DEF FlowInv, ContentInv
    <3>2. CASE ~(s = c /\ e.kind = "output")
      BY <1>5, <2>2, <3>1, <3>2
    <3>3. CASE s = c /\ e.kind = "output"
      <4> DEFINE old == w(s)
                 m == Len(old)
                 new == Append(old, e)
      <4>1. v(s) = new /\ old \in Seq(Entries)
        BY <1>5, <3>3
      <4>2. /\ m \in Nat /\ k \in 1..m + 1 /\ new[m + 1] = e
            /\ k # m + 1 => k \in DOMAIN old /\ new[k] = old[k]
        <5>1. k \in DOMAIN new
          BY <2>2, <4>1
        <5> HIDE DEF w
        <5>2. QED
          BY <4>1, <5>1
      <4>3. e.line = <<s, Outs[s] + 1>> /\ Outs[s] \in Nat
        BY <1>3, <1>4, <3>3
      <4>4. n[s] - Len(v(s)) = Outs[s] - m
        BY <1>7
      <4> HIDE DEF w, v, old, new, m
      <4>5. CASE k = m + 1
        <5>1. (Outs[s] - m) + k = Outs[s] + 1
          BY <4>2, <4>3, <4>5
        <5>2. v(s)[k].line = e.line
          BY <4>1, <4>2, <4>5
        <5>3. QED
          BY <4>3, <4>4, <5>1, <5>2
      <4>6. CASE k # m + 1
        BY <3>1, <4>1, <4>2, <4>6 DEF old
      <4>7. QED
        BY <4>5, <4>6
    <3>4. QED
      BY <3>2, <3>3
  <2>3. QED
    BY <2>1, <2>2 DEF ContentInv
<1>10. ReturnedInv(n, q, spans, reader, pr)
  <2>1. \A d \in Commands : reader[d].span # NoCommand => reader[d].span \in Commands
    <3>1. \A d \in Commands : reader[d] \in Readers
      BY TypesNamed
    <3>2. QED
      BY <3>1 DEF Readers
  <2>2. QED
    BY <1>8, <2>1 DEF FlowInv, ReturnedInv
<1>11. OriginInv(fate, q, spans, reader)
  <2>1. ASSUME NEW j \in DOMAIN q PROVE q[j].line[1] = q[j].span /\ fate[q[j].span] # "none"
    <3>1. j \in 1..Len(log) + 1 /\ q[Len(log) + 1] = e /\ Len(log) \in Nat
          /\ (j # Len(log) + 1 => j \in DOMAIN log /\ q[j] = log[j])
      BY <1>1, <2>1 DEF q
    <3>2. CASE j = Len(log) + 1
      BY <1>2, <3>1, <3>2
    <3>3. CASE j # Len(log) + 1
      BY <3>1, <3>3 DEF FlowInv, OriginInv
    <3>4. QED
      BY <3>2, <3>3
  <2>2. QED
    BY <2>1 DEF FlowInv, OriginInv
<1>12. QED
  BY <1>9, <1>10, <1>11 DEF FlowInv, n, q

-----------------------------------------------------------------------------
(* The invariant of a run without a mishap.                                 *)

\* The engine knows nothing of a command that has not been started.
StartedInv == \A c \in Commands : At(c, "idle") => fate[c] = "none" /\ emitted[c] = 0

\* The closing block carries only the timings once lines were shown.
TimingsInv == \A c \in Commands : closing[c] = "timings" => At(c, "closed") /\ shown[c] # <<>>

\* After its final poll a command that shows any line shows them all.
CompleteInv ==
  \A c \in Commands :
    task[c].pc \in {"asking", "closed"} /\ Unique(c) /\ shown[c] # <<>>
      => shown[c] = [i \in 1..NLines[c] |-> Line(c, i)]

LossInv ==
  mishaps = {} =>
    /\ cut = FALSE
    /\ FlowInv(Outs, fate, log, spans, reader, Printed)
    /\ CompleteInv

FullInv == WatchInv /\ StartedInv /\ TimingsInv /\ LossInv

\* A step that shows nothing and moves no command behind its final poll.
LEMMA CompleteKeeps ==
  ASSUME CompleteInv, UNCHANGED shown,
         \A d \in Commands : fate[d] # "none" => fate'[d] # "none",
         \A d \in Commands : task'[d].pc \in {"asking", "closed"} => task[d].pc \in {"asking", "closed"}
  PROVE  CompleteInv'
<1>1. \A d \in Commands : Unique(d)' => Unique(d)
  BY WatchAssumption DEF Unique, HasKey
<1>2. QED
  BY <1>1 DEF CompleteInv

\* The engine takes a command it has written nothing of.
LEMMA StartFlows ==
  ASSUME NEW q \in Seq(Entries), NEW sp, NEW rd \in [Commands -> Readers], NEW pr,
         FlowInv(Outs, fate, q, sp, rd, pr), Outs' = Outs,
         \A d \in Commands : fate[d] # "none" => fate'[d] # "none"
  PROVE  FlowInv(Outs', fate', q, sp, rd, pr)
<1>1. ContentInv(Outs', q, sp) /\ ReturnedInv(Outs', q, sp, rd, pr)
  BY Zenon DEF FlowInv
<1>2. OriginInv(fate', q, sp, rd)
  <2>1. \A j \in DOMAIN q : q[j].span \in Commands
    <3>1. \A j \in DOMAIN q : q[j] \in Entries
      OBVIOUS
    <3>2. QED
      BY <3>1 DEF Entries
  <2>2. \A d \in Commands : rd[d].span # NoCommand => rd[d].span \in Commands
    <3>1. \A d \in Commands : rd[d] \in Readers
      OBVIOUS
    <3>2. QED
      BY <3>1 DEF Readers
  <2>3. OriginInv(fate, q, sp, rd)
    BY DEF FlowInv
  <2>4. QED
    BY <2>1, <2>2, <2>3 DEF OriginInv
<1>3. QED
  BY <1>1, <1>2 DEF FlowInv

\* The engine writes nothing.
LEMMA SameOuts ==
  ASSUME UNCHANGED <<fate, emitted>>
  PROVE  Outs' = Outs
BY DEF Outs, Out, Total

\* A look without a mishap.
LEMMA LookLoss ==
  ASSUME WatchInv, LossInv, mishaps' = {}, NEW c \in Commands, NEW found \in Looks(c), NEW count,
         Look(c, found, count), UNCHANGED <<fate, emitted>>,
         \/ count = 0 /\ Printed' = Printed
         \/ count = Len(found.fresh) /\ Printed' = [Printed EXCEPT ![c] = Printed[c] \o found.fresh]
  PROVE  /\ cut' = FALSE /\ FlowInv(Outs', fate', log', spans', reader', Printed')
         /\ CompleteInv /\ ~Lags(c) /\ mishaps = {} /\ ~found.burst
<1> DEFINE readers(n) == [found.readers EXCEPT ![c] = [span |-> found.span, seen |-> @.seen + n]]
           p == Extended(Printed, c, found.fresh)
<1>1. /\ log' = <<>> /\ cut' = FALSE /\ spans' = found.spans /\ reader' = readers(count)
      /\ mishaps' = mishaps \cup ((IF found.burst THEN {"burst"} ELSE {}) \cup (IF Lags(c) THEN {"late"} ELSE {}))
  BY DEF Look, Mishaps
<1>2. mishaps = {} /\ ~found.burst /\ ~Lags(c)
  BY <1>1
<1>3. cut = FALSE /\ FlowInv(Outs, fate, log, spans, reader, Printed) /\ CompleteInv
  BY <1>2 DEF LossInv
<1>4. /\ log \in Seq(Entries) /\ spans \in [Commands -> Spans] /\ reader \in [Commands -> Readers]
      /\ Printed \in [Commands -> Seq(Lines)] /\ LinesInv(emitted, log, spans, reader, Printed)
      /\ Outs \in [Commands -> Nat] /\ fate \in [Commands -> {"none", "run", "cached"}]
  BY TypesNamed, PrintedType, OutType DEF WatchInv
<1>5. /\ FlowInv(Outs, fate, <<>>, found.spans, readers(0), Printed)
      /\ FlowInv(Outs, fate, <<>>, found.spans, readers(Len(found.fresh)), p)
  BY <1>2, <1>3, <1>4, LookFlows
<1>6. Outs' = Outs /\ fate' = fate
  BY SameOuts
<1> HIDE DEF readers, p
<1>7. CASE count = 0 /\ Printed' = Printed
  BY <1>1, <1>2, <1>3, <1>5, <1>6, <1>7, Zenon
<1>8. CASE count = Len(found.fresh) /\ Printed' = p
  BY <1>1, <1>2, <1>3, <1>5, <1>6, <1>8, Zenon
<1>9. QED
  BY <1>7, <1>8 DEF p, Extended

\* The final poll of a command whose last line is in the log returns the rest of its lines.
LEMMA FinalLook ==
  ASSUME WatchInv, LossInv, mishaps = {}, NEW c \in Commands, NEW found \in Looks(c), ~found.burst,
         Unique(c), emitted[c] > Total(c)
  PROVE  LET r == Printed[c] \o found.fresh
         IN  r # <<>> => r = [i \in 1..NLines[c] |-> Line(c, i)]
<1> DEFINE r == Printed[c] \o found.fresh
           p == Extended(Printed, c, found.fresh)
<1>1. cut = FALSE /\ FlowInv(Outs, fate, log, spans, reader, Printed)
  BY DEF LossInv
<1>2. /\ log \in Seq(Entries) /\ spans \in [Commands -> Spans] /\ reader \in [Commands -> Readers]
      /\ Printed \in [Commands -> Seq(Lines)] /\ LinesInv(emitted, log, spans, reader, Printed)
      /\ Outs \in [Commands -> Nat] /\ fate \in [Commands -> {"none", "run", "cached"}]
  BY TypesNamed, PrintedType, OutType DEF WatchInv
<1>3. /\ found.span \in Commands \cup {NoCommand}
      /\ found.span # NoCommand =>
           /\ Len(p[c]) = Outs[found.span] /\ \A i \in DOMAIN p[c] : p[c][i] = <<found.span, i>>
           /\ LooksLike(fate, found.span, c)
      /\ found.span = NoCommand => p[c] = <<>>
  BY <1>1, <1>2, LookFlows
<1>4. p[c] = r
  BY <1>2 DEF Extended
<1>5. r \in Seq(Lines)
  <2>1. found.fresh \in Seq(Lines)
    BY <1>2, LookKeeps
  <2>2. Printed[c] \in Seq(Lines)
    BY <1>2
  <2>3. QED
    BY <2>1, <2>2
<1> HIDE DEF r, p
<1>6. ASSUME r # <<>> PROVE r = [i \in 1..NLines[c] |-> Line(c, i)]
  <2>1. found.span # NoCommand
    BY <1>3, <1>4, <1>6
  <2>2. found.span = c
    BY <1>3, <2>1 DEF Unique, LooksLike
  <2>3. Len(r) = Out(c) /\ \A i \in DOMAIN r : r[i] = <<c, i>>
    <3>1. Outs[c] = Out(c)
      BY OutType DEF WatchInv
    <3>2. QED
      BY <1>3, <1>4, <2>1, <2>2, <3>1
  <2>4. Out(c) = Total(c)
    <3>1. emitted[c] \in Nat /\ Total(c) \in Nat
      BY OutType, TypesNamed DEF WatchInv
    <3>2. QED
      BY <3>1 DEF Out
  <2>5. Len(r) \in Nat \ {0} /\ DOMAIN r = 1..Len(r)
    BY <1>5, <1>6
  <2>6. Len(r) = NLines[c]
    BY <2>3, <2>4, <2>5 DEF Total
  <2>7. r = [i \in 1..Len(r) |-> r[i]]
    BY <1>5
  <2>8. QED
    BY <2>3, <2>5, <2>6, <2>7 DEF Line
<1>7. QED
  BY <1>6 DEF r

\* The invariant of a run without a mishap holds at first.
LEMMA InitLoss ==
  ASSUME WatchInit
  PROVE  StartedInv /\ TimingsInv /\ LossInv
<1> USE DEF WatchInit
<1>1. StartedInv /\ TimingsInv /\ CompleteInv
  BY DEF StartedInv, TimingsInv, CompleteInv, At
<1>2. \A s \in Commands : spans[s].lines = <<>> /\ spans[s].of = NoCommand /\ Written(log, s) = <<>>
  BY OfNothing DEF NoSpan, Written
<1>3. \A s \in Commands : Outs[s] = 0
  BY DEF Outs, Out
<1>4. \A c \in Commands : reader[c].span = NoCommand
  OBVIOUS
<1>5. cut = FALSE /\ log = <<>>
  OBVIOUS
<1> HIDE DEF WatchInit
<1>6. Len(<<>>) = 0 /\ DOMAIN <<>> = {}
  OBVIOUS
<1>7. \A s \in Commands : Gone(Outs, log, spans, s) = 0
  BY <1>2, <1>3, <1>6 DEF Gone
<1>8. ContentInv(Outs, log, spans)
  BY <1>2, <1>6 DEF ContentInv
<1>9. ReturnedInv(Outs, log, spans, reader, Printed)
  BY <1>4, <1>7 DEF ReturnedInv
<1>10. OriginInv(fate, log, spans, reader)
  BY <1>2, <1>4, <1>5, <1>6 DEF OriginInv
<1>11. QED
  BY <1>1, <1>5, <1>8, <1>9, <1>10 DEF LossInv, FlowInv

\* A step that leaves the engine and the watch alone and moves no command behind its final poll.
LEMMA OutsideLoss ==
  ASSUME LossInv, UNCHANGED <<fate, emitted, log, cut, spans, reader, mishaps>>, Printed' = Printed,
         CompleteInv => CompleteInv'
  PROVE  LossInv'
<1>1. Outs' = Outs
  BY SameOuts
<1>2. SUFFICES ASSUME mishaps' = {}
               PROVE  cut' = FALSE /\ FlowInv(Outs', fate', log', spans', reader', Printed') /\ CompleteInv'
  BY Zenon DEF LossInv
<1>3. cut = FALSE /\ FlowInv(Outs, fate, log, spans, reader, Printed) /\ CompleteInv
  BY <1>2 DEF LossInv
<1>4. QED
  BY <1>1, <1>3, Zenon

\* A command starts.
LEMMA StartLoss ==
  ASSUME WatchInv, StartedInv, TimingsInv, LossInv, NEW c \in Commands, Start(c)
  PROVE  StartedInv' /\ TimingsInv' /\ LossInv'
<1> USE DEF Start, Startable, At, Goto, watch, terminal
<1>1. /\ task \in [Commands -> [pc : {"idle", "running", "stopping", "closing", "asking", "closed"},
                                result : {"none", "ok", "failed"}]]
      /\ fate \in [Commands -> {"none", "run", "cached"}]
  BY TypesNamed DEF WatchInv
<1>2. task[c].pc = "idle" /\ fate[c] = "none" /\ emitted[c] = 0
  BY DEF StartedInv
<1>3. \A d \in Commands : d # c => task'[d] = task[d] /\ fate'[d] = fate[d]
  BY <1>1
<1>4. task'[c].pc = "running" /\ fate'[c] # "none"
  BY <1>1
<1>5. UNCHANGED <<emitted, log, cut, spans, reader, hand, shown, closing, mishaps>>
  OBVIOUS
<1> HIDE DEF Start, Startable, watch, terminal
<1>6. StartedInv'
  BY <1>3, <1>4, <1>5 DEF StartedInv
<1>7. TimingsInv'
  BY <1>2, <1>3, <1>5 DEF TimingsInv
<1>8. Outs' = Outs
  <2>1. \A d \in Commands : d # c => Out(d)' = Out(d)
    BY <1>3, <1>5 DEF Out, Total
  <2>2. Out(c)' = Out(c)
    BY <1>2, <1>5 DEF Out
  <2>3. \A d \in Commands : Out(d)' = Out(d)
    BY <2>1, <2>2
  <2>4. QED
    BY <2>3 DEF Outs
<1>9. \A d \in Commands : fate[d] # "none" => fate'[d] # "none"
  BY <1>2, <1>3
<1>10. SUFFICES ASSUME mishaps' = {}
                PROVE  cut' = FALSE /\ FlowInv(Outs', fate', log', spans', reader', Printed') /\ CompleteInv'
  BY <1>6, <1>7, Zenon DEF LossInv
<1>11. cut = FALSE /\ FlowInv(Outs, fate, log, spans, reader, Printed) /\ CompleteInv
  BY <1>5, <1>10 DEF LossInv
<1>12. CompleteInv'
  BY <1>2, <1>3, <1>4, <1>5, <1>9, <1>11, CompleteKeeps
<1>13. FlowInv(Outs', fate', log, spans, reader, Printed)
  <2>1. \A d \in Commands : fate[d] # "none" => fate'[d] # "none"
    BY <1>9
  <2>2. /\ log \in Seq(Entries) /\ reader \in [Commands -> Readers]
    BY TypesNamed DEF WatchInv
  <2>3. QED
    BY <1>8, <1>11, <2>1, <2>2, StartFlows
<1>14. Printed' = Printed
  BY <1>5, SamePrinted
<1>15. QED
  BY <1>5, <1>11, <1>12, <1>13, <1>14, Zenon

\* The engine writes an entry to a log with room.
LEMMA EmitLoss ==
  ASSUME WatchInv, StartedInv, TimingsInv, LossInv, NEW c \in Commands, Emit(c)
  PROVE  StartedInv' /\ TimingsInv' /\ LossInv'
<1> USE DEF Emit, terminal
<1>1. emitted \in [Commands -> Nat]
  BY TypesNamed DEF WatchInv
<1>2. fate[c] # "none" /\ emitted' = [emitted EXCEPT ![c] = @ + 1]
  OBVIOUS
<1>3. UNCHANGED <<fate, spans, reader, task, hand, shown, closing>>
  OBVIOUS
<1>4. StartedInv'
  <2>1. \A d \in Commands : d # c => emitted'[d] = emitted[d]
    BY <1>1, <1>2
  <2>2. QED
    BY <1>2, <1>3, <2>1 DEF StartedInv, At
<1>5. TimingsInv'
  BY <1>3 DEF TimingsInv, At
<1>6. SUFFICES ASSUME mishaps' = {}
               PROVE  cut' = FALSE /\ FlowInv(Outs', fate', log', spans', reader', Printed') /\ CompleteInv'
  BY <1>4, <1>5, Zenon DEF LossInv
<1>7. mishaps = {} /\ Len(log) < Retained
  BY <1>6 DEF Mishaps
<1>8. PICK e \in NextEntries(c) : log' = Append(log, e) /\ UNCHANGED cut
  BY <1>7
<1>9. cut = FALSE /\ FlowInv(Outs, fate, log, spans, reader, Printed) /\ CompleteInv
  BY <1>7 DEF LossInv
<1> HIDE DEF Emit
<1>10. FlowInv(Outs', fate, Append(log, e), spans, reader, Printed)
  BY <1>2, <1>3, <1>9, EmitFlows DEF WatchInv
<1>11. Printed' = Printed
  BY <1>3, SamePrinted
<1>12. CompleteInv'
  BY <1>3, <1>9, CompleteKeeps
<1>13. QED
  BY <1>3, <1>8, <1>9, <1>10, <1>11, <1>12, Zenon

\* A look that returns no line, or hands the lines to the goroutine.
LEMMA LookedLoss ==
  ASSUME WatchInv, LossInv, NEW c \in Commands, NEW found \in Looks(c), NEW count,
         Look(c, found, count), UNCHANGED <<fate, emitted>>,
         \/ count = 0 /\ Printed' = Printed
         \/ count = Len(found.fresh) /\ Printed' = [Printed EXCEPT ![c] = Printed[c] \o found.fresh],
         CompleteInv => CompleteInv'
  PROVE  LossInv'
<1>1. SUFFICES ASSUME mishaps' = {}
               PROVE  cut' = FALSE /\ FlowInv(Outs', fate', log', spans', reader', Printed') /\ CompleteInv'
  BY Zenon DEF LossInv
<1>2. cut' = FALSE /\ FlowInv(Outs', fate', log', spans', reader', Printed') /\ CompleteInv
  BY <1>1, LookLoss
<1>3. QED
  BY <1>2

\* The goroutine polls.
LEMMA DrainLoss ==
  ASSUME WatchInv, StartedInv, TimingsInv, LossInv, NEW c \in Commands, Drain(c)
  PROVE  StartedInv' /\ TimingsInv' /\ LossInv'
<1>1. PICK found \in Looks(c) : /\ Look(c, found, Len(found.fresh))
                                /\ hand' = [hand EXCEPT ![c] = found.fresh]
  BY DEF Drain
<1>2. UNCHANGED <<fate, emitted, task, shown, closing>> /\ hand[c] = <<>>
  BY DEF Drain, engineSide
<1>3. hand \in [Commands -> Seq(Lines)] /\ shown \in [Commands -> Seq(Lines)] /\ found.fresh \in Seq(Lines)
  BY <1>1, TypesNamed, LookStep DEF WatchInv
<1>4. Printed' = [Printed EXCEPT ![c] = Printed[c] \o found.fresh]
  BY <1>1, <1>2, <1>3, PrintedGrows
<1>5. StartedInv' /\ TimingsInv'
  BY <1>2 DEF StartedInv, TimingsInv, At
<1>6. CompleteInv => CompleteInv'
  BY <1>2, CompleteKeeps
<1>7. QED
  BY <1>1, <1>2, <1>4, <1>5, <1>6, LookedLoss

\* The asking of the span's status.
LEMMA AskedLoss ==
  ASSUME WatchInv, StartedInv, TimingsInv, LossInv, NEW c \in Commands, Asking(c),
         NEW found \in Looks(c), Look(c, found, 0), UNCHANGED <<fate, emitted, hand, shown>>,
         \/ UNCHANGED <<task, closing>>
         \/ Goto(c, "closed") /\ closing' = [closing EXCEPT ![c] = IF StatusOf(found) = "CACHED" THEN "cached" ELSE "output"]
  PROVE  StartedInv' /\ TimingsInv' /\ LossInv'
<1>1. /\ task \in [Commands -> [pc : {"idle", "running", "stopping", "closing", "asking", "closed"},
                                result : {"none", "ok", "failed"}]]
      /\ closing \in [Commands -> {"none", "timings", "output", "cached", "failed"}]
  BY TypesNamed DEF WatchInv
<1>2. task[c].pc = "asking"
  BY DEF Asking, At
<1>3. \A d \in Commands : d # c => task'[d] = task[d] /\ closing'[d] = closing[d]
  BY <1>1 DEF Goto
<1>4. \/ task'[c] = task[c] /\ closing'[c] = closing[c]
      \/ task'[c].pc = "closed" /\ closing'[c] # "timings"
  BY <1>1 DEF Goto
<1>5. StartedInv'
  BY <1>2, <1>3, <1>4 DEF StartedInv, At
<1>6. TimingsInv'
  BY <1>2, <1>3, <1>4 DEF TimingsInv, At
<1>7. CompleteInv => CompleteInv'
  <2>1. \A d \in Commands : task'[d].pc \in {"asking", "closed"} => task[d].pc \in {"asking", "closed"}
    BY <1>2, <1>3
  <2>2. QED
    BY <2>1, CompleteKeeps
<1>8. Printed' = Printed
  BY SamePrinted
<1>9. QED
  BY <1>5, <1>6, <1>7, <1>8, LookedLoss

\* The final poll shows the rest of the lines of a command whose span is its own.
LEMMA FinalPollLoss ==
  ASSUME WatchInv, StartedInv, TimingsInv, LossInv, NEW c \in Commands, FinalPoll(c)
  PROVE  StartedInv' /\ TimingsInv' /\ LossInv'
<1> USE DEF FinalPoll, At, Goto
<1>1. PICK found \in Looks(c) : /\ Look(c, found, Len(found.fresh))
                                /\ shown' = [shown EXCEPT ![c] = @ \o found.fresh]
  OBVIOUS
<1>2. UNCHANGED <<fate, emitted, hand>> /\ task[c].pc = "closing"
  BY DEF engineSide
<1>3. /\ task \in [Commands -> [pc : {"idle", "running", "stopping", "closing", "asking", "closed"},
                                result : {"none", "ok", "failed"}]]
      /\ closing \in [Commands -> {"none", "timings", "output", "cached", "failed"}]
      /\ hand \in [Commands -> Seq(Lines)] /\ shown \in [Commands -> Seq(Lines)] /\ found.fresh \in Seq(Lines)
  BY <1>1, TypesNamed, LookStep DEF WatchInv
<1>4. hand[c] = <<>>
  BY <1>2 DEF WatchInv, HandInv
<1>5. Printed' = [Printed EXCEPT ![c] = Printed[c] \o found.fresh]
  BY <1>1, <1>2, <1>3, <1>4, PrintedGrows
<1>6. \A d \in Commands : d # c => task'[d] = task[d] /\ closing'[d] = closing[d]
  BY <1>3
<1>7. task'[c].pc \in {"asking", "closed"} /\ (closing'[c] = closing[c] \/ closing'[c] = "failed")
  BY <1>3
<1> HIDE DEF FinalPoll
<1>8. \A d \in Commands : d # c => shown'[d] = shown[d]
  BY <1>1, <1>3
<1>9. StartedInv'
  BY <1>2, <1>6, <1>7 DEF StartedInv
<1>10. TimingsInv'
  BY <1>2, <1>6, <1>7, <1>8 DEF TimingsInv
<1>11. SUFFICES ASSUME mishaps' = {}
                PROVE  cut' = FALSE /\ FlowInv(Outs', fate', log', spans', reader', Printed') /\ CompleteInv'
  BY <1>9, <1>10, Zenon DEF LossInv
<1>12. /\ cut' = FALSE /\ FlowInv(Outs', fate', log', spans', reader', Printed')
       /\ CompleteInv /\ ~Lags(c) /\ mishaps = {} /\ ~found.burst
  BY <1>1, <1>2, <1>5, <1>11, LookLoss
<1>13. emitted[c] > Total(c)
  <2>1. emitted[c] \in Nat /\ Total(c) \in Nat
    BY OutType, TypesNamed DEF WatchInv
  <2>2. ~(emitted[c] <= Total(c))
    BY <1>2, <1>12 DEF Lags
  <2>3. QED
    BY <2>1, <2>2
<1>14. \A d \in Commands : Unique(d)' => Unique(d)
  BY <1>2 DEF Unique, HasKey
<1>15. shown'[c] = Printed[c] \o found.fresh
  <2>1. shown[c] \o <<>> = shown[c]
    BY <1>3
  <2>2. Printed[c] = shown[c]
    BY <1>4, <2>1 DEF Printed
  <2>3. QED
    BY <1>1, <1>3, <2>2
<1>16. ASSUME Unique(c), shown'[c] # <<>> PROVE shown'[c] = [i \in 1..NLines[c] |-> Line(c, i)]
  BY <1>12, <1>13, <1>15, <1>16, FinalLook
<1>17. CompleteInv'
  <2>1. ASSUME NEW d \in Commands, task'[d].pc \in {"asking", "closed"}, Unique(d)', shown'[d] # <<>>
        PROVE  shown'[d] = [i \in 1..NLines[d] |-> Line(d, i)]
    <3>1. Unique(d)
      BY <1>14, <2>1
    <3>2. CASE d = c
      BY <1>16, <2>1, <3>1, <3>2
    <3>3. CASE d # c
      BY <1>6, <1>8, <1>12, <2>1, <3>1, <3>3 DEF CompleteInv
    <3>4. QED
      BY <3>2, <3>3
  <2>2. QED
    BY <2>1 DEF CompleteInv
<1>18. QED
  BY <1>12, <1>17

\* Every step keeps the invariant of a run without a mishap.
LEMMA NextLoss ==
  ASSUME WatchInv, StartedInv, TimingsInv, LossInv, [WatchNext]_watchVars
  PROVE  StartedInv' /\ TimingsInv' /\ LossInv'
<1> DEFINE Tasks == [Commands -> [pc : {"idle", "running", "stopping", "closing", "asking", "closed"},
                                  result : {"none", "ok", "failed"}]]
           Blocks == [Commands -> {"none", "timings", "output", "cached", "failed"}]
           Same == UNCHANGED <<fate, emitted, log, cut, spans, reader, mishaps>>
           Kept == StartedInv' /\ TimingsInv' /\ LossInv'
<1>1. task \in Tasks /\ closing \in Blocks /\ HandInv
  BY TypesNamed DEF WatchInv
<1>2. ASSUME NEW c \in Commands, Return(c) PROVE Kept
  <2>1. Same /\ UNCHANGED <<hand, shown, closing>>
    BY <1>2 DEF Return, engineSide, watch, terminal
  <2>2. task[c].pc = "running" /\ task'[c].pc = "stopping" /\ \A d \in Commands : d # c => task'[d] = task[d]
    BY <1>1, <1>2 DEF Return, At
  <2>3. StartedInv' /\ TimingsInv'
    BY <2>1, <2>2 DEF StartedInv, TimingsInv, At
  <2>4. CompleteInv => CompleteInv'
    BY <2>1, <2>2, CompleteKeeps
  <2>5. LossInv'
    BY <2>1, <2>4, SamePrinted, OutsideLoss
  <2>6. QED
    BY <2>3, <2>5
<1>3. ASSUME NEW c \in Commands, Finish(c) PROVE Kept
  <2>1. Same /\ UNCHANGED <<hand, shown, closing>>
    BY <1>3 DEF Finish, engineSide, watch, terminal
  <2>2. task[c].pc = "stopping" /\ task'[c].pc = "closing" /\ \A d \in Commands : d # c => task'[d] = task[d]
    BY <1>1, <1>3 DEF Finish, At, Goto
  <2>3. StartedInv' /\ TimingsInv'
    BY <2>1, <2>2 DEF StartedInv, TimingsInv, At
  <2>4. CompleteInv => CompleteInv'
    BY <2>1, <2>2, CompleteKeeps
  <2>5. LossInv'
    BY <2>1, <2>4, SamePrinted, OutsideLoss
  <2>6. QED
    BY <2>3, <2>5
<1>4. ASSUME NEW c \in Commands, CloseUnasked(c) PROVE Kept
  <2>1. Same /\ UNCHANGED <<hand, shown>>
    BY <1>4 DEF CloseUnasked, engineSide, watch
  <2>2. /\ task[c].pc = "asking" /\ task'[c].pc = "closed"
        /\ \A d \in Commands : d # c => task'[d] = task[d] /\ closing'[d] = closing[d]
    BY <1>1, <1>4 DEF CloseUnasked, Close, At, Goto
  <2>3. closing'[c] = "timings" => shown[c] # <<>>
    BY <1>1, <1>4 DEF CloseUnasked, Close
  <2>4. StartedInv' /\ TimingsInv'
    BY <2>1, <2>2, <2>3 DEF StartedInv, TimingsInv, At
  <2>5. CompleteInv => CompleteInv'
    BY <2>1, <2>2, CompleteKeeps
  <2>6. LossInv'
    BY <2>1, <2>5, SamePrinted, OutsideLoss
  <2>7. QED
    BY <2>4, <2>6
<1>5. ASSUME NEW c \in Commands, WriteOutput(c) PROVE Kept
  <2>1. Same /\ UNCHANGED <<task, closing>> /\ hand[c] # <<>>
    BY <1>5 DEF WriteOutput, engineSide, watch
  <2>2. shown \in [Commands -> Seq(Lines)] /\ hand \in [Commands -> Seq(Lines)]
    BY TypesNamed DEF WatchInv
  <2>3. Printed' = Printed
    BY <1>5, <2>2, WritingMoves
  <2>4. \A d \in Commands : d # c => shown'[d] = shown[d]
    BY <1>5, <2>2 DEF WriteOutput
  <2>5. task[c].pc \in {"running", "stopping"}
    BY <1>1, <2>1 DEF HandInv
  <2>6. StartedInv' /\ TimingsInv'
    BY <2>1, <2>4, <2>5 DEF StartedInv, TimingsInv, At
  <2>7. CompleteInv => CompleteInv'
    <3>1. \A d \in Commands : Unique(d)' = Unique(d)
      BY <2>1 DEF Unique, HasKey
    <3>2. QED
      BY <2>1, <2>4, <2>5, <3>1 DEF CompleteInv
  <2>8. LossInv'
    BY <2>1, <2>3, <2>7, OutsideLoss
  <2>9. QED
    BY <2>6, <2>8
<1>6. ASSUME NEW c \in Commands, AskInVain(c) PROVE Kept
  <2>1. PICK found \in Looks(c) : Look(c, found, 0)
    BY <1>6 DEF AskInVain
  <2>2. Asking(c) /\ UNCHANGED <<fate, emitted, hand, shown, task, closing>>
    BY <1>6 DEF AskInVain, engineSide, terminal
  <2>3. QED
    BY <2>1, <2>2, AskedLoss
<1>7. ASSUME NEW c \in Commands, Conclude(c) PROVE Kept
  <2>1. PICK found \in Looks(c) :
          /\ Look(c, found, 0)
          /\ closing' = [closing EXCEPT ![c] = IF StatusOf(found) = "CACHED" THEN "cached" ELSE "output"]
    BY <1>7 DEF Conclude
  <2>2. Asking(c) /\ Goto(c, "closed") /\ UNCHANGED <<fate, emitted, hand, shown>>
    BY <1>7 DEF Conclude, engineSide
  <2>3. QED
    BY <2>1, <2>2, AskedLoss
<1>8. CASE UNCHANGED watchVars
  <2>1. Same /\ UNCHANGED <<hand, shown, closing, task>>
    BY <1>8 DEF watchVars, engineSide, watch, terminal
  <2>2. StartedInv' /\ TimingsInv'
    BY <2>1 DEF StartedInv, TimingsInv, At
  <2>3. CompleteInv => CompleteInv'
    BY <2>1, CompleteKeeps
  <2>4. LossInv'
    BY <2>1, <2>3, SamePrinted, OutsideLoss
  <2>5. QED
    BY <2>2, <2>4
<1> HIDE DEF Kept
<1>9. \A c \in Commands : Emit(c) \/ Start(c) \/ Drain(c) \/ FinalPoll(c) => Kept
  BY EmitLoss, StartLoss, DrainLoss, FinalPollLoss DEF Kept
<1>10. Kept
  <2>1. \/ UNCHANGED watchVars
        \/ \E c \in Commands : \/ Emit(c) \/ Start(c) \/ Drain(c) \/ FinalPoll(c) \/ Return(c)
                              \/ AskInVain(c) \/ WriteOutput(c) \/ Finish(c) \/ CloseUnasked(c) \/ Conclude(c)
    BY Zenon DEF WatchNext, Closes, Rest
  <2>2. ASSUME NEW c \in Commands,
               \/ Emit(c) \/ Start(c) \/ Drain(c) \/ FinalPoll(c) \/ Return(c)
               \/ AskInVain(c) \/ WriteOutput(c) \/ Finish(c) \/ CloseUnasked(c) \/ Conclude(c)
        PROVE  Kept
    <3>1. Emit(c) \/ Start(c) \/ Drain(c) \/ FinalPoll(c) => Kept
      BY <1>9
    <3>2. (Return(c) => Kept) /\ (AskInVain(c) => Kept) /\ (WriteOutput(c) => Kept)
      BY <1>2, <1>5, <1>6
    <3>3. (Finish(c) => Kept) /\ (CloseUnasked(c) => Kept) /\ (Conclude(c) => Kept)
      BY <1>3, <1>4, <1>7
    <3>4. QED
      BY <2>2, <3>1, <3>2, <3>3
  <2>3. QED
    BY <1>8, <2>1, <2>2 DEF Kept
<1>11. QED
  BY <1>10 DEF Kept

\* A command whose closing block carries only the timings has shown every line it wrote,
\* unless the log or a span was trimmed or the log came late.
THEOREM EveryLineShown == WatchSpec => []NothingLost
<1>1. ASSUME FullInv PROVE NothingLost
  <2>1. SUFFICES ASSUME mishaps = {}, NEW c \in Commands, Unique(c), closing[c] = "timings"
                 PROVE  shown[c] = [i \in 1..NLines[c] |-> Line(c, i)]
    BY DEF NothingLost
  <2>2. task[c].pc = "closed" /\ shown[c] # <<>>
    BY <1>1, <2>1 DEF FullInv, TimingsInv, At
  <2>3. QED
    BY <1>1, <2>1, <2>2 DEF FullInv, LossInv, CompleteInv
<1>2. WatchInit => FullInv
  BY InitKeeps, InitLoss DEF FullInv
<1>3. FullInv /\ [WatchNext]_watchVars => FullInv'
  BY WatchNextKeeps, NextLoss DEF FullInv
<1>4. FullInv => NothingLost
  BY <1>1
<1>5. QED
  BY <1>2, <1>3, <1>4, PTL DEF WatchSpec
=============================================================================
