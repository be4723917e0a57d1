SPECIFICATION Spec
CONSTANTS
  MaxIndex = 2
  Bev = {b1, b2}
  Loop = {l1, l2}
  Listener = l1
  Main = Main
  Dic = Dic
  None = None
SYMMETRY BevSymmetry
INVARIANTS TypeOK NoUseAfterFree MemoReady NoStaleEntry IdsAccounted StopReleasesAll
PROPERTIES WithdrawOnce WithdrawnBeforeDeleted ConnectionsSpec
