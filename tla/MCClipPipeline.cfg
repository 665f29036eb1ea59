SPECIFICATION FairSpec
CONSTANTS
  Attempts = 2
  MaxIds = 3
  MaxRequests = 1
  MaxDecisions = 2
  MaxFaults = 2
  MaxEvents = 3
INVARIANTS TypeOK AssetsBecomeCandidates RendersPaidFor EvaluatedAsRendered
PROPERTIES RenderingSettles
CHECK_DEADLOCK FALSE
