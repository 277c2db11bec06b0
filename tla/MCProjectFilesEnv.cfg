SPECIFICATION Spec
CONSTANTS
  Recipes <- MCRecipes
  Configured = {"blackfire"}
  WithEnv = {"blackfire"}
  WithFiles = {"varnish"}
  RecipeKey = "TOKEN"
  EnvKeys <- MCKeys
  Template <- MCTemplate
  Disks <- MCDisks
  Edits <- MCEdits
  Arguments <- MCArguments
  Terminals = {t1, t2}
  MaxCommands = 2
  MaxEdits = 1
SYMMETRY Symmetry
CHECK_DEADLOCK FALSE
PROPERTY EnvAlwaysMeansTheSame
