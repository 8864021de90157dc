\* An application that stops the radio, one that reattaches, one that does both.
SPECIFICATION FairSpec
CONSTANTS
  QUEUE_DEPTH = 3
  MBOX = 2
  MaxPosts = 5
  MaxAttachFails = 1
  MaxReattach = 2
  Habits = {{"stop"}, {"reattach"}, {"stop", "reattach"}}
CHECK_DEADLOCK FALSE
INVARIANTS
  LinkInv
  LinkFollowsRadio
  PathFollowsRadio
PROPERTIES
  ReattachKeepsUp
  LinkSettles
