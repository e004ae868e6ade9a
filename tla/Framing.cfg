SPECIFICATION Spec
CONSTANTS
  OverRead = {}
  Platforms = {"Linux", "Windows"}
  Frames <- BothFrames
  MaxFrames = 3
  MaxLosses <- BothLosses
INVARIANTS TypeOK DeliveredAreMessages AllMessagesProcessed RefusalExplained LossBounded
PROPERTIES ChannelSpec
CHECK_DEADLOCK FALSE
