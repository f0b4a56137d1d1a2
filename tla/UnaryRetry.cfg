\* Two calls, a fresh interceptor slice, no timeout on the base client.
CONSTANTS
  c1 = c1
  c2 = c2
  None = None
  Calls <- MCCalls
  WithOptions = {c1, c2}
  Idempotent = {c1}
  BaseTimeout = "unset"
  Spare = "none"
  MaxAttempts = 3
SPECIFICATION FairSpec
INVARIANTS
  TypeOK
  SideEffectsBounded
  HeadersNotRaced
  SuccessIsReal
PROPERTY CallsReturn
CHECK_DEADLOCK FALSE
