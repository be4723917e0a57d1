SPECIFICATION Spec
CONSTANTS
  Shape <- OnlyGood
  MaxPackages = 1
  Racing = TRUE
  Forward = TRUE
  LowMark = 2
  HighMark = 16
  InitialBuffer = 5
  Growth = 1
  MaxBuffer = 16
  MaxHeader = 4
  MaxMethod = 16
  Skip = 1
  Word = 64
INVARIANT WithdrawEmptiesBuffer
