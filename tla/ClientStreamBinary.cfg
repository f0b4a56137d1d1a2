\* A binary codec: a message with no field set encodes to an empty line.
CONSTANTS
  t1 = t1
  t2 = t2
  plain = plain
  refused = refused
  garbled = garbled
  empty = empty
  None = None
  Threads <- MCOneThread
  Messages <- MCBinaryMessages
  Blank <- MCBlank
  Unencodable = {}
  Undecodable = {}
  MaxSends = 2
  MaxCloses = 1
SPECIFICATION FairSpec
INVARIANT EOFMeansFinished
CHECK_DEADLOCK FALSE
