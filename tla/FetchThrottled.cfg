SPECIFICATION Spec
CONSTANTS
  AttemptLimit = 5
  Connections <- NodeConnection
INVARIANT ThrottlingIsReported
CHECK_DEADLOCK FALSE
