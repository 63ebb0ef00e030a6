CONSTANTS
  a = a
  b = b
  v = v
  NoBody = NoBody
  NoUser = NoUser
  Session = {a}
  Source = {}
  UserOf <- Worker
  UserLimit = 2
  MaxFaults = 0
SPECIFICATION FairSpec
CHECK_DEADLOCK FALSE
PROPERTIES MarkedIsCleanedUp
