SPECIFICATION Spec
CONSTANTS
  RootBytes = 2
  Alphabet = {"0", "a", "A", "x", "X", "+"}
  MaxText = 7
  Bytes = {0, 255}
  MaxBytes = 4
CHECK_DEADLOCK FALSE
INVARIANTS RootFaithful FirstDiffIsFirst
