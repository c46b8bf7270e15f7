CONSTANTS
  Proofs = {p1, p2, p3}
  Handlers = {h1, h2}
  Window = 1
  Skew = 2
  MaxEntries = 2
  SweepInterval = 1
  MaxStall = 1
  MaxRestarts = 1
  Horizon = 7
SPECIFICATION Spec
SYMMETRY Symmetry
INVARIANTS TypeOK SingleUse RememberedWhileAcceptable
PROPERTY RefusedOnlyWhenFull
CHECK_DEADLOCK FALSE
