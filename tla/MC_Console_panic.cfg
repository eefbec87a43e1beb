SPECIFICATION FairSpec
CONSTANTS
  c1 = c1
  c2 = c2
  Cpus = {c1, c2}
  None = None
  Pieces = 1
  Chars = 2
  MaxLines = 1
  Faults = {c1}
  SCREEN_WIDTH = 3
  SCREEN_HEIGHT = 3
  Blank = Blank
  Unknown = Unknown
PROPERTIES
  PanicIsPrinted
\* Every CPU has printed its lines or has stopped.
CHECK_DEADLOCK FALSE
