SPECIFICATION Spec
CONSTANTS
  c1 = c1
  c2 = c2
  Cpus = {c1, c2}
  None = None
  W = 64
  PAGE_ALIGN = 4
  ALLOC_ALIGN = 2
  ZONE_KERNEL_MAX = 4
  ZONE_SERVICE_MIN = 4
  MemStart = 27
  MemEnd = 63
  Requests = {3, 9, 63}
SYMMETRY CpuSymmetry
INVARIANTS
  TypeOK
  NoOverlap
  BlocksInZone
  ZonesTile
  NoDeadlock
PROPERTIES
  ReturnsFreshMemory
  RefusedOnlyWhenFull
