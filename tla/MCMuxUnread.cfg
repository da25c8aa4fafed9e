CONSTANTS
  NServices = 2
  BufSize = 3
  Chunk = 2
  Cap = 1
  IdxModulus = 4
  LongMax = 15
  Typed = {"0", "1", "2", "-"}
  ServiceBytes = {"a", "b"}
  MaxTyped = 2
  MaxServed = 0
  SelectFaults = TRUE
SPECIFICATION Spec
INVARIANT NothingReadNothingDialed
CHECK_DEADLOCK FALSE
