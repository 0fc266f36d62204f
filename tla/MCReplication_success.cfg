\* What the success answer is worth: one upload of at most two units.
CONSTANTS
  Uploads = {u1}
  MaxUnits = 2
  PoolSize = 2
  NoUpload = NoUpload
SPECIFICATION SafetySpec
INVARIANT SuccessMeansUploaded
CHECK_DEADLOCK FALSE
