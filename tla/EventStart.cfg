\* One caller at a time, as in the examples; up to two creations fail.
CONSTANTS
  Callers = {app}
  QUEUE_DEPTH = 2
  MaxObjects = 9
  MaxFailures = 2
SPECIFICATION Spec
INVARIANTS
  StartInv
  AcceptedIsServed
