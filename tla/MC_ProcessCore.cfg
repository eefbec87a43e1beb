SPECIFICATION MC_Spec
CONSTANTS
  f = f
  s = s
  d = d
  None = None
  Procs = {f, s, d}
  BgType <- MC_BgType
  Q_FOREGROUND = 2
  Q_RECENT = 1
  Q_BG_BATCH = 2
  Q_BG_MIN = 1
  BG_TURN_EVERY = 3
  Elapsed = {1, 2}
  Word = 3
  Unsigned = 4
  NewPrios = {2}
INVARIANTS
  TypeOK
  OneOwner
  ListsMatch
  BackgroundTurn
PROPERTIES
  TurnsApart
  StrictPriority
  ForegroundServed
  SemiBackgroundServed
