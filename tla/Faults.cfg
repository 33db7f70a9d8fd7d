SPECIFICATION FairSpec
CONSTANTS
  Numeral <- MCNumeral
  ByteBase = 2
  WordBytes = 1
  Cases <- MCCases
  None = None
  Skipped = {"fork"}
  Handlers <- MCHandlers
  BlsGated = {"operations"}
  MaxAdvance = 1
  Worklist <- MCWorklist
  Fate <- MCFate
  Lost = Lost
  Ahead = 3
  PipeLines = 2
  MaxTries = 2
  MaxKills = 2
CHECK_DEADLOCK FALSE
INVARIANTS IInv Paired OnlyTheGuiltyLost DeafStops
PROPERTIES NoOrphan ImplementsCensus
