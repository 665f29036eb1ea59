SPECIFICATION RotationSpec
CONSTANTS
  p1 = p1
  p2 = p2
  a1 = a1
  a2 = a2
  Processes <- MCProcesses
  Accounts <- MCAccounts
  Sandboxed <- MCSandboxed
  MaxKey = 3
  MaxTokens = 2
  MaxRuns = 4
  MaxFaults = 1
INVARIANTS OnlyLateOnesThrow CleanMeansRewrapped TokenKept
SYMMETRY MCSymmetry
CHECK_DEADLOCK FALSE
