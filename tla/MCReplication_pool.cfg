\* One upload of up to four units and a pool of two threads: workers run in
\* parallel and others wait for a thread.
CONSTANTS
  Uploads = {u1}
  MaxUnits = 4
  PoolSize = 2
  NoUpload = NoUpload
SPECIFICATION Spec
INVARIANTS
  AnswerAfterJoin
PROPERTIES
  NothingSentAfterAnswer
  EventuallyAnswered
\* The system rests when the call is over and every transaction settled.
CHECK_DEADLOCK FALSE
