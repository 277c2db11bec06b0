\* The readers of the two steps' first commands take each other's span.
SPECIFICATION WatchSpec
CONSTANTS
  qa = qa
  test = test
  Commands = {qa, test}
  Previous <- MCPrevious
  NoCommand = NoCommand
  Matching <- MCMatching
  NLines <- MCNLines
  SpanLimit = 1
  Retained = 2
INVARIANTS
  OwnLinesOnly
