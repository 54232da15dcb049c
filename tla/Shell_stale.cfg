SPECIFICATION Spec
CONSTANTS
  Typed <- SomeLines
  Files <- SomeFiles
  End = End
  Junk = "junk"
  BufLen = 3
  Initial = 1
  MaxLines = 3
  Wild = 2
  Kid = {1, 2, 3}
  NoKid = 0
  Raw = {0, 256}
INVARIANTS SplitsAtPipes
CHECK_DEADLOCK FALSE
