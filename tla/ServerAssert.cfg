CONSTANTS
  Client = {c1, c2, c3}
  MaxBacklog = 2
  MaxOpen = 1
  MultiProtocols = TRUE
SPECIFICATION Spec
INVARIANTS AcceptedSocketIsOpen
CHECK_DEADLOCK FALSE
