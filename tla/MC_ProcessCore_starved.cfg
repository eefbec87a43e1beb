SPECIFICATION MC_Spec
CONSTANTS
  f = f
  s = s
  d = d
  None = None
  Procs = {f, s, d}
  BgType <- MC_BgType
  Q_FOREGROUND = 4
  Q_RECENT = 8
  Q_BG_BATCH = 12
  Q_BG_MIN = 1
  BG_TURN_EVERY = 8
  Elapsed = {10}
  Word = 16
  Unsigned = 10
  NewPrios = {}
PROPERTIES
  BackgroundServed
