SPECIFICATION Spec
SYMMETRY Symmetry2
CONSTANTS
  u1 = u1  u2 = u2  u3 = u3  a1 = a1  a2 = a2  b1 = b1  k1 = k1  k2 = k2
  None = None
  Uploads <- MCUploads2
  LegacyUploads = {}
  Archives <- MCArchives2
  Keys = {k1}
  Identity <- MCIdentity2
  Backend = "s3"
  MaxAttempts = 2
  PowerLoss = FALSE
  FreshDirs = {}
  UploadSlots = 2
  TaskLimit = 1
INVARIANTS
  RecordHasArtifact
