SPECIFICATION CameraSpec
CONSTANTS
  NBUFS = 2
  MaxCount = 3
  RowBytes = 2
  Lines <- MCLines
  Sizes <- MCSizes
  MaxFrames = 3
  Modes <- MCModes
  Color = TRUE
  ARENA = 8
  Ranges <- MCRanges
  Delta = 2
  MaxReinits = 2
  MaxTurns = 2
INVARIANTS
  CaptureSound
  CameraSound
PROPERTIES
  CaptureProgress
