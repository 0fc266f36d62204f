\* Two days, three hosts, up to three alerts in the graphs of both days.
CONSTANTS
  v = v
  h = h
  x = x
  MaxAlerts = 3
  Hosts <- TheHosts
  Victims = {v, h}
  Internal = {v, h}
  LastDay = 2
  Ledgers <- TheLedgers
  NoData = NoData
SPECIFICATION Spec
INVARIANTS
  Connected
  EdgesAreAlerts
  AlertsOnce
  AnswerIsComplete
  FindsTheHosts
PROPERTIES QueryEnds
\* A query ends.
CHECK_DEADLOCK FALSE
