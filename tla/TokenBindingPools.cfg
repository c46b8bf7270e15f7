CONSTANTS
  PQ = FALSE
  c1 = c1
  c2 = c2
  Callers <- TwoCallers
  MaxRotations = 1
SPECIFICATION Spec
SYMMETRY Symmetry
INVARIANT PoolsPresentCurrent
