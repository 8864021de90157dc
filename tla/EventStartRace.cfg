\* Two tasks reach the first use together.
CONSTANTS
  Callers = {app, wifiTask}
  QUEUE_DEPTH = 2
  MaxObjects = 6
  MaxFailures = 0
SPECIFICATION Spec
INVARIANTS
  OneEventTask
