CONSTANTS
  Credentials = {c1, c2}
  Handlers = {h1, h2}
  TornWrites = TRUE
  MaxRestarts = 1
SPECIFICATION Spec
SYMMETRY Symmetry
INVARIANT IssuedOnce
CHECK_DEADLOCK FALSE
