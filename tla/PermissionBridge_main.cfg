SPECIFICATION FairSpec
CONSTANTS
  Calls = {c1, c2, c3}
  Question = Question
  Tool = Tool
INVARIANTS ResolvedOnce OneWinner
PROPERTY CardCloses
CHECK_DEADLOCK FALSE
