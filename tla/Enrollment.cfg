CONSTANTS
  NPlanes = 2
  RotateKeys = FALSE
  Keys <- KeyPool
  MaxCerts = 2
  MaxFaults = 2
SPECIFICATION Spec
INVARIANTS TypeOK PersistedSurvivesRestart NotBurnedUndisturbed
PROPERTY Settles
CHECK_DEADLOCK FALSE
