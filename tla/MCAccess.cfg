SPECIFICATION Spec
CONSTANTS
  i1 = i1
  i2 = i2
  c1 = c1
  c2 = c2
  Instances <- MCInstances
  Calls <- MCCalls
  Requested <- MCRequested
  Users <- MCUsers
  UserRows <- MCUserRows
  Owners <- MCOwners
  HeaderRoles <- MCHeaderRoles
  Limit = 1
  EdgeLimit = 2
  Window = 2
  MaxAge = 1
  ReadTime = 1
  MaxTime = 3
  MaxRequests = 3
  MaxChanges = 1
INVARIANTS AuthorityBounded BurstBounded RefusedForCause
SYMMETRY MCSymmetry
CHECK_DEADLOCK FALSE
