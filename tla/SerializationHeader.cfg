SPECIFICATION Spec
CONSTANTS
  HeaderLength = 3
  Radix = 2
  Sizes = {1, 3, 6, 8}
INVARIANTS HeaderReadExactly
CHECK_DEADLOCK FALSE
