SPECIFICATION FairSpec
CONSTANTS
  sourcePermission = sourcePermission
  captionLength = captionLength
  Modes <- MCAutoDraft
  SafetyChecks <- MCSafetyChecks
  OtherChecks <- MCOtherChecks
  Setups <- MCTwoSetups
  Attempts = 2
  FaultKinds <- MCProviderFaults
  MaxFaults = 1
  MaxRequests = 1
  MaxEvaluations = 0
PROPERTIES PendingResolves SubmissionFollows
CHECK_DEADLOCK FALSE
