SPECIFICATION FairSpec
CONSTANTS
  Platform = "Linux"
  Ops = {"getStatus"}
  MaxCalls = 2
  MaxAsync = 1
  CmdLen = 1
  CanHangUp = TRUE
PROPERTIES
  HangUpStops
