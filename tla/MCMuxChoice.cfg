CONSTANTS
  NServices = 2
  BufSize = 3
  Chunk = 2
  Cap = 1
  IdxModulus = 4
  LongMax = 15
  Typed = {"0", "1", "2", "-"}
  ServiceBytes = {"a"}
  MaxTyped = 4
  MaxServed = 2
  SelectFaults = TRUE
SPECIFICATION Spec
INVARIANTS TypeOK RightService RelayExact
PROPERTIES EndsWhenSaid
CHECK_DEADLOCK FALSE
