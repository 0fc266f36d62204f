SPECIFICATION StoreSpec
CONSTANTS
  Builders = {b1, b2}
  NoUser = NoUser
  MaxBuilds = 4
CHECK_DEADLOCK FALSE
INVARIANT StoreHoldsAdmin
