\* Three correct nodes agree and the first node does not.
CONSTANTS
  NodeCount = 4
  Threshold = 3
  MaxFaulty = 1
  MaxHeight = 2
  Orders = {1, 2}
  Pages = {"gtmwVictims"}
  Hash <- TheHash
  Null = Null
SPECIFICATION SafetySpec
INVARIANT ToleratesOne
CHECK_DEADLOCK FALSE
