CONSTANTS
  MaxRetries = 2
SPECIFICATION FairSpec
INVARIANTS TypeOK CauseIsNamed
PROPERTIES OnlyTransientsAreRepeated RequestEndsOrWaits
CHECK_DEADLOCK FALSE
