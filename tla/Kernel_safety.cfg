SPECIFICATION Spec
CONSTANTS
  Cpu = {c0, c1}
  BootCpu = c0
  NoCpu = NoCpu
  NENV = 3
  NInit = 1
  MaxGen = 1
  LibUsers = TRUE
INVARIANTS TypeOK OneCpu FreeListExact OwnInv MonitorStrandsNobody LockDiscipline
PROPERTIES ReclaimedOffCpu DyingIsFinal ImplementsOwnership
