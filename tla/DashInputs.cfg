SPECIFICATION Spec
CONSTANTS
  Numeral <- MCNumeral
  ByteBase = 2
  WordBytes = 4
  Path <- MCPath
  Cases <- OperationCases
  None = None
  SlotsPerHistoricalRoot = 2
  CompiledPreset = "minimal"
  Invocations <- MCInvocations
  MaxVanish = 0
CHECK_DEADLOCK FALSE
INVARIANTS DashIsAbsent
