CONSTANTS
  Conn = {c1, c2}
  ProtocolCount = 5
  Class <- DemoClass
  Clients <- DemoClients
SPECIFICATION FairSpec
INVARIANTS TypeOK AnnouncedProtocol RawStartsAfterGuid OneReply SocketHasKeeper 
PROPERTIES ImplementsNegotiation ClientIsHeard HangupIsNoticed
CHECK_DEADLOCK FALSE
