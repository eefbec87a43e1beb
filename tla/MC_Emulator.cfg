SPECIFICATION FairSpec
CONSTANTS
  H_REGS = 5
  F_REGS = 3
  Bits <- MC_Bits
  Jobs <- MC_Jobs
  CHECK_EVERY = 7
  NoLimit = NoLimit
INVARIANTS
  RunsAsWritten
  Balanced
  RegistersReturned
  InTurn
PROPERTIES
  RunEnds
  RunsAsAlone
CHECK_DEADLOCK FALSE
