SPECIFICATION Spec
CONSTANTS
  Terminals = {t1, t2}
  Kernels = {web, consumer}
  Datas = {d1, d2}
  BindWholeRepo = TRUE
  MaxCommands = 2
  MaxEvents = 1
SYMMETRY Symmetry
CHECK_DEADLOCK FALSE
INVARIANTS RestoreBringsTheDump StackAsFound TornMeansKilled
