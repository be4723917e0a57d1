SPECIFICATION Spec
CONSTANTS
  l1 = l1
  l2 = l2
  c1 = c1
  c2 = c2
  Loop = {l1, l2}
  App = {app}
  Conn = {c1, c2}
  BaseOf <- TwoBases
  Package <- Packages
  MaxPackages <- TwoAndOne
  MaxPushes = 1
  MaxLost = 1
  None = None
PROPERTY LossIsReported
CHECK_DEADLOCK FALSE
