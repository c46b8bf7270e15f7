CONSTANTS
  Credentials = {c1, c2}
  Handlers = {h1, h2, h3}
  TornWrites = FALSE
  MaxRestarts = 2
SPECIFICATION Spec
INVARIANTS TypeOK IssuedOnce UsedIsDurable
PROPERTY ImplementsOneTime
CHECK_DEADLOCK FALSE
