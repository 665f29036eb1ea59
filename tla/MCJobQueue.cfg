SPECIFICATION FairSpec
CONSTANTS
  k1 = k1
  w1 = w1
  w2 = w2
  o1 = o1
  o2 = o2
  NoKey = NoKey
  Keys <- MCKeys
  Workers <- MCWorkers
  Operators <- MCOperators
  Attempts = 3
  MaxStalled = 1
  MaxFaults = 2
  MaxResets = 2
  MaxEvictions = 2
INVARIANTS
  TypeOK
  RepeatsArePaidFor
  CompletedMeansDone
  OneHolder
PROPERTIES
  JobsSettle
  FailureParked
