SPECIFICATION Spec
CONSTANTS
  Settings <- Extremes
  Slots = {1, 2}
  KcLifetime = 3
  Lifetime = 4
  Window = 1
  Skew = 1
  Drift = 1
  ExpirySkew = 1
  Timeout = 1
  MaxRestarts = 1
INVARIANTS
  TypeOK
  WaitingNotRefused
  UsableNotExpired
PROPERTIES
  AccessEnds
  Recovers
CHECK_DEADLOCK FALSE
