CONSTANTS
  Main = main
  Procs = {p1, p2}
  Conns = {c1, c2, c3}
  Listener = m_sock
  NoConn = minus1
  QLen = 1
SPECIFICATION Spec
INVARIANTS TypeOK PrivateSockets NoLostZombie
PROPERTIES NoEarlyClose ZombiesReaped QueuedAccepted AbandonedClosed
CHECK_DEADLOCK FALSE
