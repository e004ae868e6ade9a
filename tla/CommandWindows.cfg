SPECIFICATION FairSpec
CONSTANTS
  Platform = "Windows"
  Ops = {"getUSBDeviceInfo", "download", "switchToCustom"}
  MaxCalls = 2
  MaxAsync = 1
  CmdLen = 1
  CanHangUp = TRUE
INVARIANTS
  TypeOK
  InSync
PROPERTIES
  CallReturns
  DestroyReturns
  HangUpStops
