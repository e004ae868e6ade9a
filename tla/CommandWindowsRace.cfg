SPECIFICATION FairSpec
CONSTANTS
  Platform = "Windows"
  Ops = {"download", "enterProgrammingMode"}
  MaxCalls = 2
  MaxAsync = 0
  CmdLen = 1
  CanHangUp = FALSE
INVARIANTS
  DocumentedExceptions
