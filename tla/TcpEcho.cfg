CONSTANTS
  MaxTyped = 6
  BufferSize = 4
  Window = 3
SPECIFICATION FairSpec
INVARIANTS TypeOK EchoInOrder OnlyCutLinesFail
PROPERTIES ImplementsEcho RawClientEnds SessionEnds EchoKeepsUp
CHECK_DEADLOCK FALSE
