SPECIFICATION Spec
CONSTANTS
  None = None
  Entries <- MCEntries
  MaxEntries = 4
  MaxEntrySize = 3
  MaxTotalSize = 4
  MaxExtension = 1
  MaxStream = 8
  MaxManifest = 1
  MaxFiles = 2
  MaxLength = 5
  MaxTrailing = 1
INVARIANTS
  AcceptedConforms
  RejectedForAReason
CHECK_DEADLOCK FALSE
