\* Two threads, a queue of one, three requests.
CONSTANTS
  Tasks = {wifiTask}
  wifiTask = wifiTask
  Callers = {app, event}
  Semaphores = {s1, s2}
  queue_len = 1
  MaxSends = 3
  None = None
SPECIFICATION WifiFairSpec
CHECK_DEADLOCK FALSE
INVARIANTS
  ServiceInv
  AcceptedOnce
  AnswersAreOwn
PROPERTIES
  RequestsAreAnswered
