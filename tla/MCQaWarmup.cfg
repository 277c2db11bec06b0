\* Any command may fail, any run may be killed, either volume may be lost.
SPECIFICATION WarmupSpec
CONSTANTS
  first = first
  second = second
  third = third
  Sources = {first, second, third}
  Migrations = {"core", "a", "b"}
  Needs <- MCNeeds
  SeedDump = TRUE
  Seed = {"core"}
INVARIANTS
  ReadyHasDatabase
  ContainerMatchesSources
