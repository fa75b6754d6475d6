CONSTANTS
  Dims = {32, 64}
  Edges = {4, 16}
  None = None
SPECIFICATION Spec
INVARIANTS
  TypeOK
  ScopeRestored
  KernelsMatch
