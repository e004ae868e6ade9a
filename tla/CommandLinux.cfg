SPECIFICATION FairSpec
CONSTANTS
  Platform = "Linux"
  Ops = {"resetTRModule", "download", "getUSBDeviceInfo"}
  MaxCalls = 3
  MaxAsync = 0
  CmdLen = 2
  CanHangUp = TRUE
INVARIANTS
  InSync
  NoLostWakeup
  StopExplained
PROPERTIES
  ServiceSpec
  AnswersNeverGoBack
  DestroyedAlone
  CallReturns
  DestroyReturns
