CONSTANTS
  slack = slack
  notion = notion
  NoItem = NoItem
  Item <- Items
  Preregistered <- WithoutRegistration
  MaxSessions = 2
  MaxFlows = 2
  MaxRequests = 2
SPECIFICATION Spec
INVARIANTS TypeOK TokensStayWithTheirItem TokenLandsWhereItWasAsked RevokedStaysGone
PROPERTIES OneExchangePerConsent KeepsPromise
CHECK_DEADLOCK FALSE
