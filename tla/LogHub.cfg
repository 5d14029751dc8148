CONSTANTS
  Capacity = 3
  Inputs <- MCInputs
  Empty = ""
  Blank = " "
  Info = "INFO"
  MaxIngest = 6
SPECIFICATION Spec
INVARIANTS RingHoldsNewest ChainsExact QueryExact
CHECK_DEADLOCK FALSE
