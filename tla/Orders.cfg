SPECIFICATION FairSpec
CONSTANTS
  l1 = l1
  l2 = l2
  c1 = c1
  c2 = c2
  Loop = {l1, l2}
  App = {app}
  Conn = {c1, c2}
  BaseOf <- TwoBases
  Package <- Packages
  MaxPackages <- TwoAndOne
  MaxPushes = 1
  MaxLost = 1
  None = None
INVARIANTS TypeOK AnswersMatch AnsweredInOrder NoneUnanswered SendCntRight
PROPERTY PackagesServed
CHECK_DEADLOCK FALSE
