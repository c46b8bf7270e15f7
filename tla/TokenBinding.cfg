CONSTANTS
  PQ = TRUE
  c1 = c1
  c2 = c2
  Callers <- TwoCallers
  MaxRotations = 1
SPECIFICATION Spec
INVARIANTS TypeOK CachedBoundToIdentity IssuanceBindsCurrent
PROPERTY DoReturns
