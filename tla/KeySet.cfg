SPECIFICATION Spec
CONSTANTS
  Requests = {r1, r2}
  Ttl = 2
  MinRefresh = 1
  MaxFetch = 1
  MaxRotations = 1
INVARIANT TypeOK
PROPERTIES
  NeverBack
  WithdrawnOnlyIfUnreachable
  FetchesSpaced
  RequestsEnd
  RotationHeard
CHECK_DEADLOCK FALSE
