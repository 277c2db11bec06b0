\* A warm-up is killed before it writes its stamp.
SPECIFICATION WarmupSpec
CONSTANTS
  first = first
  second = second
  third = third
  Sources = {first, second, third}
  Migrations = {"core", "a", "b"}
  Needs <- MCNeeds
  SeedDump = TRUE
  Seed = {"core"}
INVARIANTS
  FingerprintDecides
