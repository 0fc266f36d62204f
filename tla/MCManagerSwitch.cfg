\* Three calls on two channels: two that race and one that comes later.
CONSTANTS
  Calls = {c1, c2, c3}
  Channels = {nids, gtmw}
  Nobody = Nobody
  NoLabel = NoLabel
SPECIFICATION Spec
INVARIANTS
  LockedBuildIsFirst
  MislabelNeedsRace
  WrongChannelNeedsRace
PROPERTIES CallsReturn
\* Every call ends.
CHECK_DEADLOCK FALSE
