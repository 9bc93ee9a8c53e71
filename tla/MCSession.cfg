SPECIFICATION Spec
CONSTANTS
  Gateways = {g1}
  NoPin = NoPin
  Options <- MCOptions
  Threads = {t1, t2}
  MAX_RECONNECT_ATTEMPTS = 2
  MAX_REAUTH_ATTEMPTS = 2
  MetricCap = 1
INVARIANTS
  NoStrandedThread
  NetworkHasOwner
  SuccessIsClean
PROPERTIES
  RejectionIsHeeded
  StopRequestEnds
  LoopSpec
