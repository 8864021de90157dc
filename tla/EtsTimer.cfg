SPECIFICATION FairSpec
CONSTANTS
  Ids = {i1, i2}
  Callbacks = {f, g}
  None = None
CHECK_DEADLOCK FALSE
INVARIANTS
  TimerInv
  DisarmIsFinal
  NoStaleId
  CallbackIsOwn
PROPERTIES
  ArmedFires
