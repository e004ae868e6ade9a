SPECIFICATION FairSpec
CONSTANTS
  Platform = "Linux"
  Ops = {"getStatus", "sendData"}
  MaxCalls = 2
  MaxAsync = 0
  CmdLen = 1
  CanHangUp = FALSE
INVARIANTS
  OwnResponse
