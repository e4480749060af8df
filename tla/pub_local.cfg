SPECIFICATION Spec
SYMMETRY Symmetry4
CONSTANTS
  u1 = u1  u2 = u2  u3 = u3  a1 = a1  a2 = a2  b1 = b1  k1 = k1  k2 = k2
  None = None
  Uploads <- MCUploads3
  LegacyUploads = {u3}
  Archives <- MCArchives3
  Keys = {k1, k2}
  Identity <- MCIdentity3
  Backend = "local"
  MaxAttempts = 1
  PowerLoss = TRUE
  FreshDirs = {}
  UploadSlots = 2
  TaskLimit = 1
INVARIANTS
  RecordHasArtifact
  CompletedTaskIsPublished
  CatalogTracksRecords
  StoppedMeansSettled
  AcceptedUploadPolls
  AcceptedIsDurable
  FailedIsUnpublished
