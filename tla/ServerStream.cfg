\* A binary codec: base64 in two pooled buffers, shared by two senders, and a
\* client that may cancel, close or be lost at any time.
CONSTANTS
  t1 = t1
  t2 = t2
  b1 = b1
  b2 = b2
  bulky = bulky
  plain = plain
  None = None
  Threads <- MCThreads
  Buffers <- MCBuffers
  Messages = {bulky, plain}
  Encoding = "binary"
  Envelopes = {bulky}
  Large = {bulky}
  Blank = {}
  Window = 3
  MaxSends = 2
SPECIFICATION FairSpec
INVARIANTS
  TypeOK
  PoolIsSafe
PROPERTIES
  ImplementsResponses
  SendReturns
  CancelReleases
