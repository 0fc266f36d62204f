\* Three requests about two nodes and an unknown id.
CONSTANTS
  Requests = {r1, r2, r3}
  Nodes = {n1, n2}
  Stranger = Stranger
  Null = Null
  NoOne = NoOne
SPECIFICATION Spec
INVARIANTS
  WrongVerdictNeedsOverlap
  SignerWasNamed
PROPERTIES RequestsAnswered
\* Every request ends.
CHECK_DEADLOCK FALSE
