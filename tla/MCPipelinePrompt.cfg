\* A release nobody confirmed does not happen (violated without a terminal).
SPECIFICATION Spec
CONSTANTS
  Commits = {c1, c2}
  Branch = main
  NoRef = NoRef
  Checkout = c1
  Invocations <- MCFewInvocations
  StageRef = main
  HasLayer = TRUE
  ShipsAssets = FALSE
  NCommands <- MCNCommands
INVARIANTS
  UnansweredMeansNoRelease
