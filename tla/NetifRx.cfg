\* Two receive buffers, two pbufs, a mailbox of one, four frames.
CONSTANTS
  None = None
  Handles = {eb1, eb2}
  PBUFS = 2
  MBOX = 1
  MaxFrames = 4
SPECIFICATION Spec
CHECK_DEADLOCK FALSE
INVARIANTS
  HandleContract
  PbufInv
  FrameAccounting
