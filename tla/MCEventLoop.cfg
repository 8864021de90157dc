\* Two clients, a table of two slots, a queue of two.
CONSTANTS
  None = None
  AnyId = AnyId
  EventTask = eventTask
  wifi = wifi
  ip = ip
  h1 = h1
  h2 = h2
  app = app
  wifiTask = wifiTask
  Clients = {app, wifiTask}
  Events <- MCEvents
  Subscriptions <- MCSubscriptions
  HANDLERS = 2
  QUEUE_DEPTH = 2
SPECIFICATION FairSpec
INVARIANTS
  LoopInv
PROPERTIES
  PassOwnsTable
  UnregisterIsFinal
  ImplementsBus
  EventsAreServed
  CallsReturn
