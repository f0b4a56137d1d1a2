SPECIFICATION FairSpec
CONSTANTS
  None = None
  r1 = r1
  r2 = r2
  Everyone = Everyone
  Deputies = Deputies
  Addresses = Addresses
  Requests = {r1, r2}
  Policies = {Everyone, Deputies, Addresses}
  Portable = {Everyone, Deputies}
  MaxSwaps = 1
  Inputs <- MCInputs
  Operations <- MCOperations
  Methods <- MCMethods
  Exact <- MCExact
  Wild <- MCWild
  UnaryWire <- MCUnaryWire
  StreamWire <- MCStreamWire
  BoundRequest <- MCBoundRequest
  BoundFrame <- MCBoundFrame
  LostFields <- MCLost
  MayBeRefused <- MCRefusable
  FitsInPath <- MCAddressable
  TokenIn <- MCTokenIn
  ValidToken <- MCValidToken
  Authorized <- MCAuthorized
  PublicProcedures <- MCPublicProcedures
  StreamChain <- MCStreamChain
  Failures <- MCFailures
  Units <- MCUnits
  Second = 12
  MaxTimeoutValue = 9
  MaxDuration = 200
  MaxSeconds = 99
INVARIANTS
  TypeOK
  VerdictsAgree
  CodeReachesCaller
  MessageArrives
  DeadlineCarried
  AllowIsTruthful
PROPERTIES
  ImplementsAdmission
  RequestsAnswered
CHECK_DEADLOCK FALSE
