SPECIFICATION DaemonSpec
CONSTANTS
  Pids = {p1, p2, p3}
  Sessions = {s1}
  Calls = {c1}
  None = None
  MaxCrashes = 0
PROPERTY StoppedBeforeLaunch
CHECK_DEADLOCK FALSE
