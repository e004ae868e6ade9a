SPECIFICATION Spec
CONSTANTS
  OverRead = {}
  Streams <- MCStreams
  Samples <- MCSamples
INVARIANTS LoopEnds AcceptedIsMessage MessageAccepted HeadNotRefused
PROPERTIES VerdictStands
CHECK_DEADLOCK FALSE
