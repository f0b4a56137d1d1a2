\* One route, /a/{x}, and names that begin with a.
CONSTANTS
  None = None
  Operations <- MCOperations
  Unparsable = {"bad"}
  Services <- MCShortService
  Interceptors <- MCInterceptors
  Paths <- MCPaths
  MaxCalls = 1
SPECIFICATION Spec
INVARIANT TreeIsPattern
CHECK_DEADLOCK FALSE
