\* One goroutine, and a context that is cancelled during Receive.
CONSTANTS
  t1 = t1
  t2 = t2
  m1 = m1
  bad = bad
  None = None
  Threads <- MCOneThread
  Messages = {m1}
  Undecodable = {}
  Window = 1
  MaxSends = 1
SPECIFICATION FairSpec
PROPERTY CancelReleasesReceive
CHECK_DEADLOCK FALSE
