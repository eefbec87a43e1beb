SPECIFICATION FairSpec
CONSTANTS
  H_REGS = 5
  F_REGS = 3
  Bits <- MC_Bits
  Jobs <- MC_TypeJobs
  CHECK_EVERY = 7
  NoLimit = NoLimit
INVARIANTS
  DeclaredTypeKept
CHECK_DEADLOCK FALSE
