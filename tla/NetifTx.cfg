\* Two threads, with lwIP's core lock and without, three frames.
CONSTANTS
  None = None
  Threads = {tcpip, app}
  MaxCalls = 3
SPECIFICATION FairSpec
CHECK_DEADLOCK FALSE
INVARIANTS
  TxInv
  FramesAreWhole
  EveryCallCounted
PROPERTIES
  OutputReturns
