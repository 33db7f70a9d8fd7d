SPECIFICATION Spec
CONSTANTS
  Numeral <- MCNumeral
  ByteBase = 2
  WordBytes = 1
  Cases <- MCCases
  None = None
  Skipped = {"fork"}
  Handlers <- MCHandlers
  BlsGated = {"operations"}
  MaxAdvance = 1
  Worklist <- MCWorklist
  Fate <- MCFate
  Lost = Lost
  Ahead = 1
  PipeLines = 1
  MaxTries = 1
  MaxKills = 0
CHECK_DEADLOCK FALSE
INVARIANTS GarbledIsAnswered
