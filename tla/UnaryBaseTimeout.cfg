\* A base client built WithTimeout, and calls without options.
CONSTANTS
  c1 = c1
  c2 = c2
  None = None
  Calls <- MCCalls
  WithOptions = {}
  Idempotent = {c1}
  BaseTimeout = "set"
  Spare = "none"
  MaxAttempts = 1
SPECIFICATION Spec
INVARIANT BaseNeverMutated
CHECK_DEADLOCK FALSE
