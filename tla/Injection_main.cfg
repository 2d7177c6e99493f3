SPECIFICATION FairSpec
CONSTANTS
  Msgs = {m1, m2, m3}
  None = None
  MaxDialogs = 2
  MaxToolEnds = 1
  MaxFetches = 3
INVARIANTS NothingStranded ReportedOnce
PROPERTY EveryMessageReported
CHECK_DEADLOCK FALSE
