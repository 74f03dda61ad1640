SPECIFICATION FairSpec
CHECK_DEADLOCK FALSE
CONSTANTS
  Threads = {a1, a2}
  MaxAdds = 2
  MaxRecvs = 2
  Apps <- All
  TickMod = 8
  Retries = 2
  None = None
INVARIANTS TokenAlive SerialDispatch EdgeIsComing
PROPERTIES ReaderServed
