SPECIFICATION FairSpec
CONSTANTS
  AttemptLimit = 5
  Connections <- AllConnections
INVARIANTS
  TimerGuardsCaller
  LeftoverTimerIsExplained
PROPERTIES
  CallerIsAnswered
CHECK_DEADLOCK FALSE
