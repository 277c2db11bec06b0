\* A migration of a package outside vendor/oro: TLC refutes the property below.
SPECIFICATION Spec
CONSTANTS
  v1 = v1
  v2 = v2
  v3 = v3
  m1 = m1
  m2 = m2
  m3 = m3
  NoVersion = NoVersion
  Deploys = {d1}
  Versions <- MCVersions
  Migrations <- MCMigrations
  SrcMigrations <- MCSrc
  OroMigrations <- MCOro
  Installed = v1
  Keep = 2
  MaxName = 4
  MaxLog = 5
  RestartCommand = TRUE
  CurrentElsewhere = TRUE
  Faults = {}
INVARIANTS
  SchemaCoversPackages
