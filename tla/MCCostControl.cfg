SPECIFICATION Spec
CONSTANTS
  publisher = publisher
  s1 = s1
  s2 = s2
  Processes = {publisher}
  Slots <- MCSlots
  ProcessOf <- MCProcessOf
  AreaOf <- MCAreaOf
  WorkspaceCap = 2
  GlobalCaps = {1}
  Cost = 1
  TTL = 2
  ReadTime = 1
  DayLength = 3
  MaxTime = 4
  MaxWrites = 1
  MaxFaults = 1
SYMMETRY MCSymmetry
INVARIANTS OverspendBounded
PROPERTIES GatesFresh
CHECK_DEADLOCK FALSE
