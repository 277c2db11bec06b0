SPECIFICATION Spec
CONSTANTS
  Terminals = {t1, t2}
  MaxVersions = 2
  MaxCommands = 4
SYMMETRY Symmetry
CHECK_DEADLOCK FALSE
INVARIANTS BinaryIsWhole UpRunsTheLayer
