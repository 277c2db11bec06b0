\* A dependency outside Oro ships migrations.
SPECIFICATION Spec
CONSTANTS
  vanilla = vanilla
  project = project
  upgraded = upgraded
  main = main
  branch = branch
  Sources = {vanilla, project, upgraded}
  Platform <- MCPlatform
  Vanilla <- MCVanilla
  Extra <- VendorExtra
  Own <- MCOwn
  TestMigration = "test"
  Scopes = {main, branch}
  ImagePlatform = "v6.0"
  ImageDumps = {"seedTest", "seed"}
  MaxRemembered = 1
  MaxMishaps = 1
INVARIANTS
  CacheIsTransparent
