SPECIFICATION Spec
SYMMETRY MCSymmetry
CONSTANTS
  a1 = a1  a2 = a2  a3 = a3  a4 = a4  a5 = a5  a6 = a6  i1 = i1  i2 = i2
  None = None
  Attempts <- MCAttempts
  Addresses <- MCAddresses
  Limit = 2
  Window = 2
  TableLimit = 1
  Concurrency = 2
  AuthSlots = 3
  MaxClock = 2
INVARIANTS
  FailuresBounded
  HashingBounded
CHECK_DEADLOCK FALSE
