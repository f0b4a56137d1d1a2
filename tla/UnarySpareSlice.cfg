\* Base interceptors added one option at a time: append left room.
CONSTANTS
  c1 = c1
  c2 = c2
  None = None
  Calls <- MCCalls
  WithOptions = {c1, c2}
  Idempotent = {c1}
  BaseTimeout = "unset"
  Spare = "some"
  MaxAttempts = 1
SPECIFICATION Spec
INVARIANT OwnInterceptors
CHECK_DEADLOCK FALSE
