CONSTANTS
  RecordSize = 2
  MaxBytes = 3
  MaxFaults = 1
SPECIFICATION Spec
INVARIANT EofIsMarker
CHECK_DEADLOCK FALSE
