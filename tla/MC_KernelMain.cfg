SPECIFICATION KernelSpec
CONSTANTS
  W = 4194304
  PAGE_ALIGN = 4
  ALLOC_ALIGN = 1
  ZONE_KERNEL_MAX = 131072
  ZONE_SERVICE_MIN = 4096
  KernelEnds <- MC_KernelEnds
  Rams <- MC_Rams
  TestedRam <- MC_TestedRam
  SMP_MAX_CPUS = 5
  Ids = {0, 1, 2, 3, 4, 6}
  Late = {}
  Machines <- MC_Machines
  MAX_PROCESSES = 2
  MAX_SYSCALLS = 2
  NoAnswer = NoAnswer
  Pids = {0, 7, 9, 42}
  Counts = {1, 2, 3}
  TIMER_HZ = 1
  HALF = 8
  MINUTE = 4
  MaxTicks = 2
INVARIANTS
  TestPasses
  ZonesFillRam
  OwnStack
  AnswersCredited
  OthersWaitForBoot
  OneEntry
PROPERTIES
  KernelStarts
  ImplementsPolicy
\* The boot is over when every CPU is in its main loop and the ticks are used up.
CHECK_DEADLOCK FALSE
