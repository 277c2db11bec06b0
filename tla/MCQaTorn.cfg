\* A platform update is killed under a stamp that stays: TLC refutes the property below.
SPECIFICATION WarmupSpec
CONSTANTS
  first = first
  second = second
  third = third
  Sources = {first, second, third}
  Migrations = {"core", "a", "b"}
  Needs <- MCNeeds
  SeedDump = TRUE
  Seed = {"core"}
INVARIANTS
  StampMeansInstall
