CONSTANTS
  slack = slack
  notion = notion
  NoItem = NoItem
  Item <- Items
  Preregistered <- WithoutRegistration
  MaxSessions = 2
  MaxFlows = 1
  MaxRequests = 1
SPECIFICATION Spec
INVARIANT ResumeFindsToken
CHECK_DEADLOCK FALSE
