SPECIFICATION DaemonSpec
CONSTANTS
  Pids = {p1, p2, p3}
  Sessions = {s1, s2}
  Calls = {c1}
  None = None
  MaxCrashes = 2
SYMMETRY Sym
INVARIANTS ResumableKept LiveIsTracked OneOwner
CHECK_DEADLOCK FALSE
