\* evaluate_h_with_cuda when the driver may fail: is the result still h?
CONSTANTS
  P = 73
  NE = 8
  RotScale = 2
  NumThreads = 3
  Omega = 10
  Zeta = 8
  Delta = 2
  BetaV = 17
  GammaV = 29
  YV = 41
  BlindingFactors = 1
  Degree = 4
  L0 <- MC_L0
  LLast <- MC_LLast
  LActive <- MC_LActive
  FixedCosets <- MC_FixedCosets
  PermColumns <- MC_PermColumns
  PermCosets <- MC_PermCosets
  Inputs <- MC_Inputs
  CudaEnv = "1"
  KernelFailures = {"driver"}
SPECIFICATION Spec
INVARIANT FinalMatchesReference
CHECK_DEADLOCK FALSE
