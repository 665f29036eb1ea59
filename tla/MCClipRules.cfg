SPECIFICATION RulesSpec
CONSTANTS
  Words <- MCWords
  OddWords <- MCOddWords
  Rules <- MCRules
  Surroundings <- MCSurroundings
  Hooks <- MCHooks
  DefaultMin = 2
  DefaultMax = 4
  Rounding = 1
  MaxDuration = 6
  MaxRecords = 2
  MaxRevisions = 1
  MaxTime = 2
INVARIANTS RangesTile MadeToRule PassMeansEstablished
CHECK_DEADLOCK FALSE
