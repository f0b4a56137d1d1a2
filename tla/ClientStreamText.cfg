\* A text codec: no message encodes to an empty line.
CONSTANTS
  t1 = t1
  t2 = t2
  plain = plain
  refused = refused
  garbled = garbled
  empty = empty
  None = None
  Threads <- MCThreads
  Messages <- MCMessages
  Blank = {}
  Unencodable = {refused}
  Undecodable = {garbled}
  MaxSends = 2
  MaxCloses = 2
SPECIFICATION FairSpec
INVARIANTS
  TypeOK
  EOFMeansFinished
  BodyReleased
PROPERTIES
  ImplementsCall
  CallsReturn
CHECK_DEADLOCK FALSE
