CONSTANTS
  Session = {s1, s2}
  MaxLines = 1
  Debug = TRUE
SPECIFICATION Spec
INVARIANTS SignalIsSet
CHECK_DEADLOCK FALSE
