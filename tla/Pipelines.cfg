SPECIFICATION Spec
CONSTANTS
  Proc = {0, 1, 2, 3, 4, 5, 6, 7}
  Pipe = {1, 2, 3, 4, 5}
  Cap = 2
  None = None
  MaxN = 10
  Nargs = 2
  Lines = 5
  Orders <- SomeOrders
  Trees <- SomeTrees
  Limit = 2
  MaxFails = 2
CHECK_DEADLOCK FALSE
INVARIANTS Results SievePrints
PROPERTIES EveryoneEnds
