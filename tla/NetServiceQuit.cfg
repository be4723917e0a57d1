SPECIFICATION FairSpec
CONSTANTS
  N = 2
  Rounds = 1
  MaxConn = 0
  MaxPost = 1
PROPERTY QuitEndsMain
CHECK_DEADLOCK FALSE
