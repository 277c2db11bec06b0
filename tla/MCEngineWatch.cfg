\* Two concurrent steps begin with the same command; the log and the spans are trimmed.
SPECIFICATION FairWatchSpec
CONSTANTS
  qa = qa
  test = test
  Commands = {qa, test}
  Previous <- MCPrevious
  NoCommand = NoCommand
  Matching <- MCMatching
  NLines <- MCNLines
  SpanLimit = 1
  Retained = 2
INVARIANTS
  PrintedOnce
  NothingLost
PROPERTIES
  AnsweredCommandsClose
