SPECIFICATION Spec
CONSTANTS
  o1 = o1
  o2 = o2
  job = job
  Operators <- MCOperators
  Submitter = job
  e1 = e1
  Syncers <- MCSyncers
  Setups <- MCSetups
  Attempts = 2
  MaxConfirms = 1
  MaxResets = 1
  MaxFaults = 1
INVARIANTS SignedOff SubmittedMeansFilled NeverFabricated NotAskedAgain TrackingNotLost
SYMMETRY MCSymmetry
CHECK_DEADLOCK FALSE
