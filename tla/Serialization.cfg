SPECIFICATION FairSpec
CONSTANTS
  HeaderLength = 3
  Radix = 2
  Sizes = {1, 3, 6, 8}
INVARIANTS TypeOK EchoIsTyped
PROPERTIES RoundTripEnds ImplementsEcho
CHECK_DEADLOCK FALSE
