SPECIFICATION Spec
CONSTANTS
  Cpu = {c0, c1}
  BootCpu = c0
  NoCpu = NoCpu
  NENV = 2
  NInit = 1
  MaxGen = 2
  LibUsers = FALSE
INVARIANTS OneCpu
