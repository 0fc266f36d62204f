\* Four nodes of which one may be faulty, as deployed; three ledger states.
CONSTANTS
  NodeCount = 4
  Threshold = 3
  MaxFaulty = 1
  MaxHeight = 2
  Orders = {1, 2}
  Pages = {"honeypots", "gtmwApps", "gtmwVictims", "nids"}
  Hash <- TheHash
  Null = Null
SPECIFICATION Spec
INVARIANTS
  AcceptedIsTruthful
  AcceptedIsSigned
  
PROPERTIES RoundEnds
\* A page answers one query.
CHECK_DEADLOCK FALSE
