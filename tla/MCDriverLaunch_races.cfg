SPECIFICATION Spec
CONSTANTS
  Sessions <- ThreeSessions
  Hal <- TwoHal
  Service <- Shared
  MaxPolls = 2
PROPERTIES LaunchesAreSafe
CHECK_DEADLOCK FALSE
