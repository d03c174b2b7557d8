SPECIFICATION XectlSpec
CONSTANTS
  Word = 32
  Page = 4
  MaxBytes = 16
  DefaultWait = 10
  MaxWait = 20
  BarLengths <- MCBarLengths
  ToolMax = 8
  Scalars <- MCScalars
  Rooms <- MCRooms
INVARIANTS
  XectlTypeOK RepliesFillTheRoom AllocationSound WaitWithinLimits
  RegdumpShowsRegisters NoopIsHonest ToolGetsWhatItPrints
PROPERTIES ProgramsRunDown ProgramsEndClosed
