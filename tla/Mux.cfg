\* Six services, registered in every order, also twice.
CONSTANTS
  None = None
  Operations <- MCOperations
  Unparsable = {"bad"}
  Services <- MCServices
  Interceptors <- MCInterceptors
  Paths <- MCPaths
  MaxCalls = 4
SPECIFICATION Spec
INVARIANTS
  OrdinaryTreeIsPattern
  BestRouteWins
  TypeOK
  FirstRouteWins
  InterceptorsOnce
CHECK_DEADLOCK FALSE
