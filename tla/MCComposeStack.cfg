SPECIFICATION Spec
CONSTANTS
  Terminals = {t1, t2}
  Domains = {d1, d2}
  Inis = {a, b}
  Overrides = {o}
  MaxEdits = 1
  MaxCommands = 3
SYMMETRY Symmetry
CHECK_DEADLOCK FALSE
INVARIANTS UpBringsTheProject NoStaleOverride RestartsInPlace
