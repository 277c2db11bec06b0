\* Three services, the two override files in families of entries, one change between two commands.
SPECIFICATION OverridesSpec
CONSTANTS
  Names <- MCNames
  Urls <- MCUrls
  Generated <- MCGenerated
  Projects <- MCProjects
  MaxEdits = 1
INVARIANTS MeansWhatTheFilesSay ComposeAccepts UrlsAreServed
