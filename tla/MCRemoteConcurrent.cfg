\* Two jobs deploy the same stage; any task under the lock may fail, and
\* any command of the clean-up.
SPECIFICATION FairSpec
CONSTANTS
  v1 = v1
  v2 = v2
  v3 = v3
  m1 = m1
  m2 = m2
  m3 = m3
  NoVersion = NoVersion
  Deploys = {d1, d2}
  Versions = {v1}
  Migrations <- MCMigrations
  SrcMigrations <- MCSrc
  OroMigrations <- MCOro
  Installed = v1
  Keep = 2
  MaxName = 3
  MaxLog = 3
  RestartCommand = FALSE
  CurrentElsewhere = TRUE
  Faults = {"task", "cleanup"}
INVARIANTS
  OneDeployAtATime
PROPERTIES
  LockIsReleased
