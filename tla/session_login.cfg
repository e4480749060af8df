SPECIFICATION Spec
SYMMETRY LoginSymmetry
CONSTANTS
  l1 = l1  l2 = l2  l3 = l3  r1 = r1  r2 = r2
  None = None
  Logins <- MCLogins3
  Requests = {}
  SessionLimit = 1
  PendingLimit = 1
  RefreshSlots = 1
  SessionTTL = 1
  PendingTTL = 1
  Interval <- MCInterval
  MaxClock = 2
  MaxReloads = 2
INVARIANTS
  SessionsAreCurrent
  TransactionUsedOnce
  TablesBounded
CHECK_DEADLOCK FALSE
