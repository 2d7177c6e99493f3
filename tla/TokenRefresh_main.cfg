SPECIFICATION FairSpec
CONSTANTS
  Proc = {p1, p2, p3}
  NoOwner = NoOwner
  NoToken = NoToken
  MaxRefreshes = 3
INVARIANTS FamilyKept
PROPERTIES FileAdvances StaleLockGoes
CHECK_DEADLOCK FALSE
