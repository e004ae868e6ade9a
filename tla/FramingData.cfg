SPECIFICATION Spec
CONSTANTS
  OverRead = {}
  Platforms = {"Windows"}
  Frames <- DataWithCR
  MaxFrames = 1
  MaxLosses <- NoLosses
INVARIANTS AllMessagesProcessed
CHECK_DEADLOCK FALSE
