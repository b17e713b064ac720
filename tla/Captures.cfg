SPECIFICATION CapturesSpec
CONSTANTS
  dark = dark
  bright = bright
  Frames <- MCFrames
  Seconds <- MCSeconds
  Years <- MCYears
  Sizes <- MCSizes
  BLOCK = 4
  CAP = 12
  SHORT = 5
  ONE = 1
  SLOWEST = 1
  FASTEST = 2
  STEP = 2
  LAG = 1
  Texts <- MCTexts
  Times = {0, 3}
  MaxReplayed = 2
  MAX_NAMES = 2
  MaxSeen = 3
  MaxFiles = 3
INVARIANTS
  CastSound
  FilesWhole
  PictureExact
  StampIsDate
  ReplayExact
PROPERTIES
  NeverOverwrites
CHECK_DEADLOCK FALSE
SYMMETRY Alike
VIEW View
