\* Two requests, one of which no policy treats as the other, and three
\* changes of the file.
CONSTANTS
  open = open
  barred = barred
  blank = blank
  r1 = r1
  r2 = r2
  Broken = Broken
  Missing = Missing
  Policies <- MCPolicies
  Requests <- MCRequests
  Denied <- MCDenied
  Allowed <- MCAllowed
  First = open
  MaxWrites = 3
SPECIFICATION FairSpec
INVARIANTS
  TypeOK
  ConsistentDecisions
PROPERTIES
  FileTakesEffect
  LoopExits
