\* evaluate_h_cpu_only on a proof whose permutation sets do not match the column chunking.
CONSTANTS
  P = 73
  NE = 8
  RotScale = 2
  NumThreads = 3
  Omega = 10
  Zeta = 8
  Delta = 2
  BetaV = 17
  GammaV = 29
  YV = 41
  BlindingFactors = 1
  Degree = 4
  L0 <- MC_L0
  LLast <- MC_LLast
  LActive <- MC_LActive
  FixedCosets <- MC_FixedCosets
  PermColumns <- MC_PermColumns
  PermCosets <- MC_PermCosets
  Inputs <- MC_MischunkedInputs
  CudaEnv = "no"
  KernelFailures = {}
SPECIFICATION Spec
INVARIANT PermChunkingAgrees
CHECK_DEADLOCK FALSE
