SPECIFICATION NetSpec
CONSTANTS
  Height = 2
  Width = 4
  Pictures <- MCPictures
  Odd <- MCOdd
  Links <- MCLinks
  AgeLimit = 6
  Slack = 120
  Outlines <- MCOutlines
  Panel <- MCPanel
  Notice <- MCNotice
  Status <- MCStatus
  Mouse = TRUE
  MaxEvents = 2
INVARIANTS
  EncoderSound
  FrameSent
PROPERTIES
  Settles
