------------------------------- MODULE NetifRx -------------------------------
(***************************************************************************)
(* The receive path of src/src/rtems_esp_netif.c: the WiFi task lends the   *)
(* netif a frame and the handle (eb) of the buffer that holds it, the netif *)
(* copies the frame into a pbuf, gives the handle back and posts the pbuf   *)
(* to the tcpip thread.                                                     *)
(*                                                                          *)
(* Three finite pools meet here: the driver's receive buffers, lwIP's pbuf  *)
(* pool and the tcpip mailbox.  The WiFi task runs one receive callback at  *)
(* a time; the tcpip thread and the sockets above it run between its steps. *)
(***************************************************************************)
EXTENDS Integers

CONSTANTS
  Handles,    \* the driver's receive buffers
  PBUFS,      \* PBUF_POOL_SIZE: pbufs lwIP has for received frames
  MBOX,       \* TCPIP_MBOX_SIZE: messages the tcpip mailbox holds
  MaxFrames,  \* bound: frames received
  None        \* no handle

ASSUME RxAssumption ==
  /\ None \notin Handles
  /\ PBUFS \in Nat
  /\ MBOX \in Nat
  /\ MaxFrames \in Nat

VARIABLES
  driver,     \* handles the driver has, free to receive into
  step,       \* where the WiFi task is in rtems_esp_netif_input()
  eb,         \* the handle of the frame in hand
  valid,      \* frame # NULL, len in 1..1518, netif added
  p,          \* the call has a pbuf
  pool,       \* free pbufs
  mbox,       \* pbufs posted to the tcpip thread
  stack,      \* pbufs the stack and its sockets hold
  counters,   \* rtems_esp_netif_counters, the receive half
  refused     \* history: frames no filled pbuf came of

vars == <<driver, step, eb, valid, p, pool, mbox, stack, counters, refused>>

Counters ==
  {"eb_taken", "eb_released", "rx_frames", "rx_dropped_no_pbuf",
   "rx_dropped_stack_busy", "rx_dropped_bad_frame"}

Init ==
  /\ driver = Handles
  /\ step = "idle"
  /\ eb = None
  /\ valid = FALSE
  /\ p = FALSE
  /\ pool = PBUFS
  /\ mbox = 0
  /\ stack = 0
  /\ counters = [c \in Counters |-> 0]
  /\ refused = 0

Bump(c) == counters' = [counters EXCEPT ![c] = @ + 1]

(* rtems_esp_netif_blob_rxcb(): the driver calls with one of its buffers.   *)
Rxcb(h, ok) ==
  /\ step = "idle"
  /\ h \in driver
  /\ counters["eb_taken"] < MaxFrames
  /\ driver' = driver \ {h}
  /\ eb' = h
  /\ valid' = ok
  /\ Bump("eb_taken")
  /\ step' = "copy"
  /\ UNCHANGED <<p, pool, mbox, stack, refused>>

(* Step 1: a pbuf from the pool; one that cannot be filled goes back.       *)
CopyFrame ==
  /\ step = "copy"
  /\ valid
  /\ \/ pool > 0 /\ p' = TRUE /\ pool' = pool - 1 /\ UNCHANGED refused
     \/ refused' = refused + 1 /\ UNCHANGED <<p, pool>>
  /\ step' = "release"
  /\ UNCHANGED <<driver, eb, valid, mbox, stack, counters>>

(* Mutant: a bad frame returns before the handle is released.               *)
RejectFrameKeepsHandle ==
  /\ step = "copy"
  /\ ~valid
  /\ Bump("rx_dropped_bad_frame")
  /\ step' = "deliver"
  /\ UNCHANGED <<driver, eb, valid, p, pool, mbox, stack, refused>>

RejectFrame ==
  /\ step = "copy"
  /\ ~valid
  /\ Bump("rx_dropped_bad_frame")
  /\ step' = "release"
  /\ UNCHANGED <<driver, eb, valid, p, pool, mbox, stack, refused>>

(* Step 2: the handle goes back to the driver on every path.                *)
ReleaseHandle ==
  /\ step = "release"
  /\ driver' = driver \union {eb}
  /\ eb' = None
  /\ Bump("eb_released")
  /\ step' = "deliver"
  /\ UNCHANGED <<valid, p, pool, mbox, stack, refused>>

(* Step 3: hand the pbuf up.  tcpip_input() takes it only when it has both a *)
(* message and room in the mailbox; otherwise it is freed here.             *)
Return ==
  /\ step' = "idle"
  /\ valid' = FALSE
  /\ p' = FALSE
  /\ UNCHANGED <<driver, eb, stack, refused>>

DropWithoutPbuf ==
  /\ step = "deliver"
  /\ ~p
  /\ Bump("rx_dropped_no_pbuf")
  /\ Return
  /\ UNCHANGED <<pool, mbox>>

DeliverPbuf ==
  /\ step = "deliver"
  /\ p
  /\ mbox < MBOX
  /\ mbox' = mbox + 1
  /\ Bump("rx_frames")
  /\ Return
  /\ UNCHANGED pool

(* Mutant: the pbuf is not freed when the stack refuses it.                 *)
StackBusyLeaks ==
  /\ step = "deliver"
  /\ p
  /\ Bump("rx_dropped_stack_busy")
  /\ Return
  /\ UNCHANGED <<pool, mbox>>

(* Mutant: a refused frame is counted as delivered.                         *)
StackBusyCountedTwice ==
  /\ step = "deliver"
  /\ p
  /\ pool' = pool + 1
  /\ counters' = [counters EXCEPT !["rx_dropped_stack_busy"] = @ + 1, !["rx_frames"] = @ + 1]
  /\ Return
  /\ UNCHANGED mbox

StackBusy ==
  /\ step = "deliver"
  /\ p
  /\ pool' = pool + 1
  /\ Bump("rx_dropped_stack_busy")
  /\ Return
  /\ UNCHANGED mbox

(* The tcpip thread takes a pbuf; the stack keeps it as long as a socket     *)
(* wants it and then frees it.                                              *)
TcpipTakes ==
  /\ mbox > 0
  /\ mbox' = mbox - 1
  /\ stack' = stack + 1
  /\ UNCHANGED <<driver, step, eb, valid, p, pool, counters, refused>>

StackFrees ==
  /\ stack > 0
  /\ stack' = stack - 1
  /\ pool' = pool + 1
  /\ UNCHANGED <<driver, step, eb, valid, p, mbox, counters, refused>>

Input ==
  \/ CopyFrame \/ RejectFrame
  \/ ReleaseHandle
  \/ DropWithoutPbuf \/ DeliverPbuf \/ StackBusy

Next ==
  \/ \E h \in Handles, ok \in BOOLEAN : Rxcb(h, ok)
  \/ Input
  \/ TcpipTakes
  \/ StackFrees

Spec == Init /\ [][Next]_vars

------------------------------------------------------------------------------
(* Every variable stays in its range.                                       *)
TypeOK ==
  /\ driver \subseteq Handles
  /\ step \in {"idle", "copy", "release", "deliver"}
  /\ eb \in Handles \union {None}
  /\ valid \in BOOLEAN
  /\ p \in BOOLEAN
  /\ pool \in Nat /\ mbox \in 0 .. MBOX /\ stack \in Nat
  /\ counters \in [Counters -> Nat]
  /\ refused \in Nat

InHand == IF step \in {"copy", "release"} THEN 1 ELSE 0

(* The buffer ownership contract of rtems_esp_netif_input(): a handle is     *)
(* with the driver or is the one in hand, never both and never neither, and  *)
(* eb_taken and eb_released differ by exactly the frame in hand.            *)
HandleContract ==
  /\ driver = IF eb = None THEN Handles ELSE Handles \ {eb}
  /\ eb # None <=> step \in {"copy", "release"}
  /\ counters["eb_taken"] = counters["eb_released"] + InHand

(* No pbuf is leaked or freed twice on any of the paths, the one where the   *)
(* tcpip mailbox refuses it included.                                       *)
PbufConservation == pool + (IF p THEN 1 ELSE 0) + mbox + stack = PBUFS

(* A call holds a pbuf only between its copy and its return.                *)
PbufInHand == p => step \in {"release", "deliver"}

(* The two and the types together.                                          *)
PbufInv == TypeOK /\ PbufConservation /\ PbufInHand

(* Between calls every frame the driver lent is counted once as delivered,   *)
(* as dropped for want of a pbuf or as refused by the stack.  The second     *)
(* count holds two kinds of frames: those the pool had no pbuf for, which    *)
(* is what examples/wifi-net takes it to mean, and the bad ones, which are   *)
(* counted there a second time.                                             *)
FrameAccounting ==
  LET settled == counters["rx_frames"] + counters["rx_dropped_no_pbuf"]
                   + counters["rx_dropped_stack_busy"]
      pending == IF step \in {"release", "deliver"} /\ ~p THEN 1 ELSE 0
  IN  /\ counters["eb_taken"] = settled + (IF step = "idle" THEN 0 ELSE 1)
      /\ counters["rx_dropped_no_pbuf"] + pending = counters["rx_dropped_bad_frame"] + refused
==============================================================================
