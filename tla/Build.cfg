SPECIFICATION Spec
CONSTANTS
  Forks = {"gloas", "fulu"}
  None = None
  Missing = Missing
INVARIANTS IInv ServesAsAsked
PROPERTIES OtherBinaryKept
