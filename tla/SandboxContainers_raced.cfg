CONSTANTS
  a = a
  b = b
  v = v
  NoBody = NoBody
  NoUser = NoUser
  Session = {a, v}
  Source = {}
  UserOf <- Worker
  UserLimit = 2
  MaxFaults = 0
SPECIFICATION Spec
CHECK_DEADLOCK FALSE
INVARIANTS LiveSessionHasContainer
