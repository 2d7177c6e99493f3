SPECIFICATION RowSpec
CONSTANTS
  StatusRequests = {r1, r2}
  Cli = cli
  Tabs = {t1, t2}
  MaxAttempts = 2
  MaxRequests = 3
SYMMETRY Sym
PROPERTIES TerminalKept FanOutIsTrue PatchesCompose
CHECK_DEADLOCK FALSE
