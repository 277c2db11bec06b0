SPECIFICATION Spec
CONSTANTS
  Commands <- MCCommands
  MaxCommands = 2
  MaxEdits = 1
CHECK_DEADLOCK FALSE
INVARIANT AgentFailsWhenAToolCouldNotRun
