CONSTANTS
  a = a
  b = b
  v = v
  NoBody = NoBody
  NoUser = NoUser
  Session = {a, v}
  Source = {a}
  UserOf <- Worker
  UserLimit = 2
  MaxFaults = 1
SPECIFICATION FairSpec
INVARIANTS TypeOK StoppedIsBeingDestroyed RunningIsAccountedFor LiveUnlessRaced
CHECK_DEADLOCK FALSE
PROPERTIES ExpiredIsReaped OrphansEnd
