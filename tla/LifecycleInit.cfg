SPECIFICATION Spec
CONSTANTS
  Platforms = {"Linux", "Windows"}
  Listeners = {"l1"}
  ListenerDoes = {"return"}
  MaxObjects = 1
  MaxPending = 1
INVARIANT InitErrorsThrow
