SPECIFICATION Spec
CONSTANTS
  Ledgers <- TheLedgers
  NoData = NoData
  Nothing = Nothing
  Queried = {4, 6}
  Spoofed = {6, 10}
  MaxMoves = 1
  MaxLate = 2
CHECK_DEADLOCK FALSE
INVARIANTS
  RoundTwoLast
  GrowsFromQueried
  SearchIsClosure
  PictureIsAccepted
  OwnAnswersAgree
  ThrowsOnlyIfMoved
PROPERTY
  PageSettles
