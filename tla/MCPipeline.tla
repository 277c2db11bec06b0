----------------------------- MODULE MCPipeline -----------------------------
(* Instances of Pipeline for TLC. *)
EXTENDS Pipeline

MCNCommands == [s \in Steps |-> IF s \in {"qa", "test", "release"} THEN 2 ELSE 1]

\* Every combination of skip flags and of the ways a deploy is confirmed, from a
\* developer's machine and from the two kinds of CI job.
MCDeploys ==
  {i \in AllInvocations :
     /\ i.command = "deploy" /\ ~i.report
     /\ i.ci = "sha" => ~i.tty}

\* `orobox qa` and `orobox test`, with and without a report.
MCChecks ==
  {i \in AllInvocations :
     /\ i.command \in Checks
     /\ i.ref = NoRef /\ i.skip = {} /\ ~i.yes /\ i.ci = "none" /\ ~i.tty}

MCInvocations == MCDeploys \cup MCChecks

\* Deploys from a developer's machine and from CI, for the two refuted properties.
MCFewInvocations ==
  {i \in MCInvocations :
     /\ i.ssh /\ ~i.yes /\ i.ref = NoRef /\ "release" \notin i.skip
     /\ i.ci \in {"none", "sha"}}
=============================================================================
