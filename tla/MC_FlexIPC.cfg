SPECIFICATION FairSpec
CONSTANTS
  Cpus = {c1, c2, c3}
  Messages = {m1, m2}
  FLEXIPC_QUEUE_SIZE = 3
  None = None
  Busy = Busy
INVARIANTS
  TypeOK
  LockHolder
PROPERTIES
  ImplementsQueue
  CallsReturn
