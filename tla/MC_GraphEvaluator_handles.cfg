CONSTANTS
  P = 7
  Values = {3}
  RotationAmounts = {0, 1}
  Queries <- MC_Queries
  ChallengeIndices = {}
  Scalars <- MC_Scalars
  Ops = {"Store"}
  MaxParts = 0
  MaxCalcs = 2
SPECIFICATION Spec
PROPERTY HandlesStableProp
