SPECIFICATION LockedSpec
CONSTANTS
  FX_SLOTS = 3
  MaxFrames = 5
  capture = capture
  render = render
  CaptureThread = capture
  RenderLoop = render
  Threads <- Both
INVARIANTS
  LockedSound
  MutexSafe
PROPERTIES
  Progress
  SectionsAreAtomic
