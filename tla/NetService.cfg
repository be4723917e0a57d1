SPECIFICATION FairSpec
CONSTANTS
  N = 3
  Rounds = 10
  MaxConn = 2
  MaxPost = 2
INVARIANTS TypeOK HeldOpen LoopsDoneBeforeTeardown FreedOnce Balanced
PROPERTY RunningServerStops
CHECK_DEADLOCK FALSE
