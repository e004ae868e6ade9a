SPECIFICATION Spec
CONSTANTS
  JavaObjects = {"j1", "j2"}
  MaxCalls = 2
  MaxMessages = 2
INVARIANTS TypeOK OwnListenerCalled FailuresReported QuietAfterDestroy
