\* Two goroutines of the handler; a frame in flight each way blocks the next.
\* A call that could not start stops for good once both ends have closed.
CONSTANTS
  t1 = t1
  t2 = t2
  m1 = m1
  bad = bad
  None = None
  Threads <- MCThreads
  Messages <- MCMessages
  Undecodable = {bad}
  Window = 1
  MaxSends = 2
SPECIFICATION FairSpec
INVARIANTS
  TypeOK
  VerdictIsTrue
PROPERTIES
  ImplementsResponses
  ImplementsRequests
  HandlerReleased
  ReceiveEnds
CHECK_DEADLOCK FALSE
