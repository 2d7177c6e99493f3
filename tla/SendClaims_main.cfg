SPECIFICATION FairSpec
CONSTANTS
  Envelopes = {e1, e2}
  None = None
  MaxDeliveries = 3
  MaxRestarts = 1
  MaxFaults = 1
INVARIANTS AtMostOnce DuplicateIsHonest
PROPERTY TakenIsSettled
CHECK_DEADLOCK FALSE
