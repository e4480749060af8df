SPECIFICATION LiveSpec
CONSTANTS
  l1 = l1  l2 = l2  l3 = l3  r1 = r1  r2 = r2
  None = None
  Logins <- MCLogins2
  Requests <- MCRequests2
  SessionLimit = 2
  PendingLimit = 2
  RefreshSlots = 1
  SessionTTL = 2
  PendingTTL = 1
  Interval <- MCInterval
  MaxClock = 2
  MaxReloads = 1
INVARIANTS
  TypeOK
  SessionsAreCurrent
  NoSupersededToken
  NoStaleGrant
PROPERTIES
  GoneIsGone
  RequestsSettle
CHECK_DEADLOCK FALSE
