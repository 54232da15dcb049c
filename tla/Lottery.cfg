SPECIFICATION LotSpec
CONSTANTS
  Cpu = {c0, c1}
  BootCpu = c0
  NoCpu = NoCpu
  NENV = 2
  NInit = 1
  MaxGen = 1
  LibUsers = TRUE
  InitTickets = 4
  Decay = 2
  Ints2Boost = 2
  RandM = 16
  Word = 256
  Percents = {50, 99}
  MaxTotal = 12
INVARIANTS TicketsInRange WhoCanWin
PROPERTIES ImplementsKernel TotalFollows
