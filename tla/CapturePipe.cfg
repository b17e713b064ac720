SPECIFICATION PipeSpec
CONSTANTS
  FX_SLOTS = 3
  MaxFrames = 4
  Polls = 1
INVARIANTS
  PipeSound
  MemorySafe
  FrameInUseIsWhole
  FramesAccounted
PROPERTIES
  PipeSteps
  PipeImplements
  PipeProgress
