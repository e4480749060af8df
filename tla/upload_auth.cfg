SPECIFICATION LiveSpec
CONSTANTS
  None = None  Malformed = Malformed  NoHeader = NoHeader  Refused = Refused
  NoToken = NoToken  Absent = Absent
  u1 = u1
  Mapped <- MCMapped
  Files <- MCFiles
  FirstFile <- MCFirst
  MaxTTL = 2
  MaxEdits = 2
  Uploads = {u1}
  Requests <- MCRequests
  TokenFiles <- MCTokenFiles
  Contents <- MCContents
  FirstTokens <- MCFirstTokens
  Pieces <- MCPieces
  Forgeries <- MCForgeries
INVARIANTS
  PublishedWithRights
  RefusedForAReason
  AddressNotForgeable
  ConfigurationIsSound
PROPERTIES
  HangupTakesEffect
CHECK_DEADLOCK FALSE
