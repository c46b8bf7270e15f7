CONSTANTS
  NPlanes = 1
  RotateKeys = TRUE
  Keys <- KeyPool
  MaxCerts = 2
  MaxFaults = 1
SPECIFICATION Spec
INVARIANT PersistedSurvivesRestart
CHECK_DEADLOCK FALSE
