SPECIFICATION Spec
CONSTANTS
  Shape <- OnlyGood
  MaxPackages = 1
  Racing = FALSE
  Forward = TRUE
  LowMark = 2
  HighMark = 8
  InitialBuffer = 5
  Growth = 1
  MaxBuffer = 8
  MaxHeader = 4
  MaxMethod = 8
  Skip = 1
  Word = 32
PROPERTY IncompleteIsKept
