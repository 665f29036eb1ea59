SPECIFICATION Spec
CONSTANTS
  Entity = "ClipCandidate"
  Initial = "CANDIDATE"
  c1 = c1
  c2 = c2
  c3 = c3
  id1 = id1
  Callers <- MCCallers
  Ids <- MCIds
  MaxVersion = 2
INVARIANTS
  StaleHasWinner
PROPERTIES
  ImplementsLifecycle
  NoStaleOverwrite
  OneWinnerPerVersion
