\* Gate compilation: two gate polynomials from every depth-one expression
\* and the depth-two peephole shapes; no lookups.
CONSTANTS
  P = 7
  NE = 4
  RotScale = 2
  Witnesses <- MC_Witnesses
  BetaV = 3
  GammaV = 5
  ThetaV = 2
  YV = 4
  PrevValues = {0, 6}
  GatePolys <- MC_GatePolys
  LookupExprs <- MC_LookupExprs
  MaxPolys = 2
  MaxLookups = 0
  MaxLookupWidth = 1
SPECIFICATION Spec
INVARIANT GraphsWellFormed
INVARIANT GatesMatchReference
CHECK_DEADLOCK FALSE
