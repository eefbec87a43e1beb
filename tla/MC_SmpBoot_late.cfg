SPECIFICATION Spec
CONSTANTS
  SMP_MAX_CPUS = 5
  Ids = {0, 1, 2, 3, 4, 6}
  Late = {2}
INVARIANTS
  OwnStack
\* The start is over when every CPU is in its main loop.
CHECK_DEADLOCK FALSE
