SPECIFICATION FairSpec
CONSTANTS
  Shape <- AnyShape
  MaxPackages = 3
  Racing = FALSE
  Forward = FALSE
  LowMark = 2
  HighMark = 10
  InitialBuffer = 5
  Growth = 1
  MaxBuffer = 10
  MaxHeader = 4
  MaxMethod = 10
  Skip = 1
  Word = 64
INVARIANTS TypeOK InBounds ServedInOrder ArrivedIsRead WholePackagesServed
PROPERTY RecvReturns
