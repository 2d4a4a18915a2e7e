CONSTANTS
  P = 7
  Values = {3}
  RotationAmounts <- MC_Rotations
  Queries <- MC_Queries
  ChallengeIndices = {}
  Scalars <- MC_Scalars
  Ops = {"Store", "Horner"}
  MaxParts = 1
  MaxCalcs = 2
SPECIFICATION Spec
INVARIANT WellFormed
