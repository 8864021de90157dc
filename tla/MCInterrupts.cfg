\* Two channels over two sources, one with two callbacks in turn, and the PHY's
\* lock, which may be entered inside its own section.
CONSTANTS
  Locks = {phy}
  MaxDepth = 2
  Sources = {mac, power}
  Channels = {c1, c2}
  c1 = c1
  c2 = c2
  f = f
  g = g
  h = h
  CallbacksOf <- MCCallbacksOf
  None = None
SPECIFICATION IntrFairSpec
INVARIANTS
  InterruptsInv
  CallsAreOwn
PROPERTIES
  RequestIsServed
