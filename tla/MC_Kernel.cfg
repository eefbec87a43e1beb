SPECIFICATION KernelFairSpec
CONSTANTS
  b = b
  c1 = c1
  m1 = m1
  m2 = m2
  m3 = m3
  m4 = m4
  Cpus = {b, c1}
  Bsp = b
  None = None
  Busy = Busy
  Messages = {m1, m2, m3, m4}
  dst <- MC_dst
  FLEXIPC_QUEUE_SIZE = 3
INVARIANTS
  ExactlyOnce
  InOrder
PROPERTIES
  Delivered
