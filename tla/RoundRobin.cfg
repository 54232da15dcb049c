SPECIFICATION SettledSpec
CONSTANTS
  Cpu = {c0, c1}
  BootCpu = c0
  NoCpu = NoCpu
  LibUsers = FALSE
  MaxGen = 1
  NENV = 3
  NInit = 3
PROPERTIES ImplementsKernel EveryoneRuns
