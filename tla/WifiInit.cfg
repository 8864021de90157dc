SPECIFICATION ModemSpec
CONSTANTS
  MaxCalls = 3
CHECK_DEADLOCK FALSE
INVARIANTS
  InitInv
  CalibratesReady
PROPERTIES
  IsolationLast
