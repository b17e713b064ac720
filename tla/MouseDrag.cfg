SPECIFICATION WindowSpec
CONSTANTS
  MIN_W = 2
  MIN_H = 2
  MAX_W = 3
  MAX_H = 3
  PANEL_ROWS = 1
  MARGIN = 0
  FAR = 5
  COLOR = TRUE
  Sizes <- MCSizes
  Frames <- MCFrames
  Pointer <- MCPointer
INVARIANTS
  DragSound
  FrameInside
  OppositeCornerStays
  WindowSound
PROPERTIES
  ReleaseAdoptsPending
VIEW Live
