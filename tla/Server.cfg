CONSTANTS
  Client = {c1, c2, c3}
  MaxBacklog = 2
  MaxOpen = 1
  MultiProtocols = TRUE
SPECIFICATION FairSpec
INVARIANTS TypeOK AcceptLoopLives DemoNeverDeaf
PROPERTIES WaitingIsAccepted
CHECK_DEADLOCK FALSE
