\* One run of the example; the driver refuses a callback at most twice.
SPECIFICATION NetSpec
CONSTANTS
  QUEUE_DEPTH = 2
  MBOX = 2
  MaxPosts = 4
  MaxAttachFails = 2
  MaxReattach = 1
  Habits = {{"reattach"}}
CHECK_DEADLOCK FALSE
INVARIANTS
  NetInv
PROPERTIES
  AlarmsAreReal
