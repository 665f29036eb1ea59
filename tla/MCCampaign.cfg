SPECIFICATION FairSpec
CONSTANTS
  o1 = o1
  o2 = o2
  Reviewers <- MCReviewers
  Sources <- MCSources
  Rules <- MCRules
  Attempts = 2
  MaxPages = 2
  MaxActs = 1
  MaxScans = 2
  MaxFaults = 2
INVARIANTS RevisionsParsed RulesInForce
PROPERTIES ImplementsLifecycle ParsingSettles
CHECK_DEADLOCK FALSE
