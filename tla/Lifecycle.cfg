SPECIFICATION FairSpec
CONSTANTS
  Platforms = {"Linux", "Windows"}
  Listeners = {"l1", "l2"}
  ListenerDoes = {"return", "throw", "register", "destroy"}
  MaxObjects = 2
  MaxPending = 2
INVARIANTS TypeOK CalledWhileRegistered ReaderHasResources OnlyFailuresLeak NeverStopsSilently
PROPERTIES ConstructorReturns DestroyReturns
