SPECIFICATION Spec
CONSTANTS
  Numeral <- MCNumeral
  ByteBase = 2
  WordBytes = 4
  Path <- MCPath
  Cases <- RoutingCases
  None = None
  SlotsPerHistoricalRoot = 2
  CompiledPreset = "minimal"
  Invocations <- MCInvocations
  MaxVanish = 1
CHECK_DEADLOCK FALSE
INVARIANTS RoutedBeforeIo BucketsAsDocumented
PROPERTIES ImplementsContract
