SPECIFICATION Spec
CONSTANTS
  Numeral <- MCNumeral
  ByteBase = 2
  WordBytes = 4
  Path <- MCPath
  Cases <- SequenceCases
  None = None
  SlotsPerHistoricalRoot = 2
  CompiledPreset = "minimal"
  Invocations <- MCInvocations
  MaxVanish = 1
CHECK_DEADLOCK FALSE
INVARIANTS ReadsInWireOrder AcceptedMeansAllApplied OnTrack
PROPERTIES ErroredStateIsFinal AdvanceBounded ImplementsContract
