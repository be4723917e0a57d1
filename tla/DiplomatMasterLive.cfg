SPECIFICATION FairSpec
CONSTANTS
  MaxIndex = 1
  Bev = {b1}
  Loop = {l1, l2}
  Listener = l1
  Main = Main
  Dic = Dic
  None = None
PROPERTIES PendingReadIsServed EofIsFreed StopCompletes
