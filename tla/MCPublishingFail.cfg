SPECIFICATION Spec
CONSTANTS
  sourcePermission = sourcePermission
  captionLength = captionLength
  Modes <- MCAuto
  SafetyChecks <- MCSafetyChecks
  OtherChecks <- MCOtherChecks
  Setups <- MCAudited
  Attempts = 3
  FaultKinds <- MCNoFaults
  MaxFaults = 0
  MaxRequests = 1
  MaxEvaluations = 2
PROPERTIES FailBlocks
CHECK_DEADLOCK FALSE
