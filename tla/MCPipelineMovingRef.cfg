\* The commit released is the commit built (violated when the branch moves).
SPECIFICATION Spec
CONSTANTS
  Commits = {c1, c2}
  Branch = main
  NoRef = NoRef
  Checkout = c1
  Invocations <- MCFewInvocations
  StageRef = main
  HasLayer = TRUE
  ShipsAssets = FALSE
  NCommands <- MCNCommands
INVARIANTS
  ReleaseMatchesBuild
