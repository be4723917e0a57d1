SPECIFICATION FairBuild
CONSTANTS
  User = {u1, u2, u3}
  Hook = hook
  MaxSuspended = 2
INVARIANTS TypeOK NoUseAfterFree DoneIsFinal
PROPERTIES OwnershipSpec OneThread CallsReturn
CHECK_DEADLOCK FALSE
