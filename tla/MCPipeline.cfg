\* Every kind of invocation; the branch may be pushed to once the run is under way.  Only
\* goroutine scheduling is fair: a command the engine was handed may never end.
SPECIFICATION FairSpec
CONSTANTS
  Commits = {c1, c2}
  Branch = main
  NoRef = NoRef
  Checkout = c1
  Invocations <- MCInvocations
  StageRef = main
  HasLayer = TRUE
  ShipsAssets = FALSE
  NCommands <- MCNCommands
INVARIANTS
  ReleaseOnlyAfterChecks
  BlamesTheRealFailure
  BuiltOnALayer
  PinnedReleaseMatchesBuild
PROPERTIES
  ImplementsGate
  FailureEndsTheRun
