SPECIFICATION Spec
CONSTANTS
  Limits <- MCLimits
  MaxInput = 9
  MaxFields = 3
INVARIANTS
  FileIsContent
  GivenUpRightly
  FileBounded
  OneFileOneChecksum
CHECK_DEADLOCK FALSE
