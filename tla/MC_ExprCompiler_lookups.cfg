\* Lookup compilation: one lookup argument whose input and table sides are
\* one or two expressions each, compiled into a fresh graph.
CONSTANTS
  P = 7
  NE = 4
  RotScale = 2
  Witnesses <- MC_Witnesses
  BetaV = 3
  GammaV = 5
  ThetaV = 2
  YV = 4
  PrevValues = {0, 6}
  GatePolys <- MC_GatePolys
  LookupExprs <- MC_LookupExprs
  MaxPolys = 0
  MaxLookups = 1
  MaxLookupWidth = 2
SPECIFICATION Spec
INVARIANT GraphsWellFormed
INVARIANT LookupsMatchReference
CHECK_DEADLOCK FALSE
