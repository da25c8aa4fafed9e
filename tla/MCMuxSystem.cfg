CONSTANTS
  Main = main
  Procs = {p1}
  Conns = {c1}
  Listener = m_sock
  NoConn = minus1
  QLen = 1
  Watched = p1
  NServices = 1
  BufSize = 3
  Chunk = 2
  Cap = 1
  IdxModulus = 4
  LongMax = 15
  Typed = {"0"}
  ServiceBytes = {"a"}
  MaxTyped = 3
  MaxServed = 2
  SelectFaults = FALSE
SPECIFICATION SystemSpec
PROPERTIES Delivered Released
CHECK_DEADLOCK FALSE
