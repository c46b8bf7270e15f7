CONSTANTS
  RecordSize = 2
  MaxBytes = 4
  MaxFaults = 2
SPECIFICATION Spec
INVARIANTS TypeOK InOrder MarkerEndsStream
PROPERTIES HalfCloseArrives ImplementsStream
CHECK_DEADLOCK FALSE
