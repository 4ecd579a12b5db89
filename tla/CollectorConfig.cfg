SPECIFICATION FairSpec
CONSTANTS
  Choices <- MCChoices
  Env <- MCEnv
  EnvFallback <- MCFallback
  Default <- MCFallback
  Convertible <- MCConvertible
  ReplayFile = FALSE
  MaxPuts = 2
  MaxFaults = 1
CHECK_DEADLOCK FALSE
INVARIANTS
  TypeOK
  FingerprintMeansLoaded
  UserValueKept
PROPERTIES
  CollectorComesBack
