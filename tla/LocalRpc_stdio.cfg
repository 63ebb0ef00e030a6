CONSTANTS
  MaxCalls = 4
  MaxUnread = 2
  ServerId <- AsksOne
SPECIFICATION FairSpec
INVARIANTS TypeOK WaitersAreHeeded
PROPERTIES HandshakeIsOurs ImplementsPromise ConnectEnds
CHECK_DEADLOCK FALSE
