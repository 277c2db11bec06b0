---------------------------- MODULE ReleaseGate ----------------------------
(***************************************************************************)
(* What a pipeline run promises about the stage host, with none of the     *)
(* machinery: a run asks for a set of checks, each check reaches one       *)
(* verdict, and the host is touched only by a run whose checks all passed  *)
(* and whose payload has been exported.  Pipeline.tla implements it.       *)
(***************************************************************************)
CONSTANT Checks

VARIABLES
  required,  \* the checks this run asked for
  verdict,   \* what each check concluded so far
  payload,   \* whether every release artifact is on the developer's disk
  remote,    \* whether anything has reached the stage host
  over       \* whether the run has returned

gateVars == <<required, verdict, payload, remote, over>>

Verdicts == {"open", "passed", "failed"}

GateTypeOK ==
  /\ required \in SUBSET Checks
  /\ verdict \in [Checks -> Verdicts]
  /\ payload \in BOOLEAN
  /\ remote \in BOOLEAN
  /\ over \in BOOLEAN

Init ==
  /\ required = {}
  /\ verdict = [c \in Checks |-> "open"]
  /\ payload = FALSE
  /\ remote = FALSE
  /\ over = FALSE

\* The invocation is resolved into a plan before anything has concluded.
Require ==
  /\ ~over
  /\ \A c \in Checks : verdict[c] = "open"
  /\ required' \in SUBSET Checks
  /\ UNCHANGED <<verdict, payload, remote, over>>

\* A verdict is final: no check is run twice within a run.
Conclude(c) ==
  /\ ~over
  /\ c \in required
  /\ verdict[c] = "open"
  /\ \E v \in {"passed", "failed"} : verdict' = [verdict EXCEPT ![c] = v]
  /\ UNCHANGED <<required, payload, remote, over>>

Deliver ==
  /\ ~over
  /\ payload' = TRUE
  /\ UNCHANGED <<required, verdict, remote, over>>

Release ==
  /\ ~over
  /\ \A c \in required : verdict[c] = "passed"
  /\ payload
  /\ remote' = TRUE
  /\ UNCHANGED <<required, verdict, payload, over>>

Return ==
  /\ ~over
  /\ over' = TRUE
  /\ UNCHANGED <<required, verdict, payload, remote>>

Next == Require \/ (\E c \in Checks : Conclude(c)) \/ Deliver \/ Release \/ Return

Spec == Init /\ [][Next]_gateVars
=============================================================================
