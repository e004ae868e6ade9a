SPECIFICATION FairSpec
CONSTANTS
  Lines <- HexLines
  MaxLines = 3
  MaxFailures = 1
INVARIANTS TypeOK ProgrammedWhole NothingMisplaced StopExplained
PROPERTIES SessionEnds
