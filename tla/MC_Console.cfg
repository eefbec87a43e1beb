SPECIFICATION FairSpec
CONSTANTS
  c1 = c1
  c2 = c2
  Cpus = {c1, c2}
  None = None
  Pieces = 2
  Chars = 2
  MaxLines = 2
  Faults = {c1, c2}
  SCREEN_WIDTH = 3
  SCREEN_HEIGHT = 3
  Blank = Blank
  Unknown = Unknown
INVARIANTS
  TypeOK
  StringsWhole
  ScreenIsWindow
PROPERTIES
  EverythingPrinted
\* Every CPU has printed its lines or has stopped.
CHECK_DEADLOCK FALSE
