SPECIFICATION Spec
CONSTANTS
  sourcePermission = sourcePermission
  captionLength = captionLength
  Modes <- MCAutoDraft
  SafetyChecks <- MCSafetyChecks
  OtherChecks <- MCOtherChecks
  Setups <- MCTwoSetups
  Attempts = 2
  FaultKinds <- MCAllFaults
  MaxFaults = 1
  MaxRequests = 1
  MaxEvaluations = 1
INVARIANTS PublicPostsPaidFor NeverFaked AutoIsAuthorized
CHECK_DEADLOCK FALSE
