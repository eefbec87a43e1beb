SPECIFICATION KernelSpec
CONSTANTS
  W = 4194304
  PAGE_ALIGN = 4
  ALLOC_ALIGN = 1
  ZONE_KERNEL_MAX = 131072
  ZONE_SERVICE_MIN = 4096
  KernelEnds <- MC_KernelEnds
  Rams <- MC_Rams
  TestedRam <- MC_TestedRam
  SMP_MAX_CPUS = 5
  Ids = {0, 1, 2, 3, 4, 6}
  Late = {}
  Machines <- MC_Machine
  MAX_PROCESSES = 2
  MAX_SYSCALLS = 2
  NoAnswer = NoAnswer
  Pids = {0, 7, 9, 42}
  Counts = {1, 2, 3}
  TIMER_HZ = 1
  HALF = 8
  MINUTE = 4
  MaxTicks = 10
INVARIANTS
  ReportDue
CHECK_DEADLOCK FALSE
