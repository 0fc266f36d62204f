\* Two uploads under one dataset name, at most two units each, one pool
\* thread: one unit is queued while the other is at work.
CONSTANTS
  Uploads = {u1, u2}
  MaxUnits = 2
  PoolSize = 1
  NoUpload = NoUpload
SPECIFICATION SafetySpec
SYMMETRY UploadSymmetry
INVARIANTS
  ReportedIsStored
  ManifestFirst
  NoDanglingManifest
  OwnUnitsVisible
PROPERTIES KeepsContract
\* The system rests when every call is over and every transaction settled.
CHECK_DEADLOCK FALSE
