SPECIFICATION FairSpec
CONSTANTS
  Numeral <- MCNumeral
  ByteBase = 2
  WordBytes = 4
  Path <- MCPath
  Cases <- SingleCases
  None = None
  SlotsPerHistoricalRoot = 2
  CompiledPreset = "minimal"
  Invocations <- MCInvocations
  MaxVanish = 2
CHECK_DEADLOCK FALSE
INVARIANTS TypeOK ReadsInWireOrder FirstFileBlamedFirst BucketsAsDocumented
PROPERTIES ImplementsContract EveryCaseAnswered
