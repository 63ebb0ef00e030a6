CONSTANTS
  a = a
  b = b
  NoServer = NoServer
  Server = {a, b}
  Unfit = {b}
  Oversize = {}
  Rank <- RankAB
  QueueLimit = 1
  ReviewLimit = 1
  MaxTools = 1
  MaxRequests = 1
  MaxFaults = 1
  MaxExpiries = 1
SPECIFICATION Spec
INVARIANTS TypeOK SeenToWork ListedIsComplete
PROPERTIES DecisiveOnlyWhenDone ImplementsListing
