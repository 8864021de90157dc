---------------------------- MODULE NetifRxProofs ----------------------------
(* Proofs about NetifRx for any number of buffers, pbufs and frames.        *)
EXTENDS NetifRx, TLAPS

(* The invariants are inductive together.                                   *)
RxInv == PbufInv /\ HandleContract /\ FrameAccounting

LEMMA InitRxInv == Init => RxInv
<1> SUFFICES ASSUME Init PROVE RxInv
  OBVIOUS
<1> USE RxAssumption DEF RxAssumption, Init
<1>1. TypeOK
  <2>1. counters \in [Counters -> Nat]
    OBVIOUS
  <2>2. driver \subseteq Handles /\ eb \in Handles \union {None}
    OBVIOUS
  <2>3. step \in {"idle", "copy", "release", "deliver"} /\ valid \in BOOLEAN /\ p \in BOOLEAN
    OBVIOUS
  <2>4. pool \in Nat /\ mbox \in 0 .. MBOX /\ stack \in Nat /\ refused \in Nat
    OBVIOUS
  <2> QED
    BY <2>1, <2>2, <2>3, <2>4 DEF TypeOK
<1>2. HandleContract
  BY DEF HandleContract, InHand, Counters
<1>3. PbufConservation /\ PbufInHand
  BY DEF PbufConservation, PbufInHand
<1>4. FrameAccounting
  BY DEF FrameAccounting, Counters
<1> QED
  BY <1>1, <1>2, <1>3, <1>4 DEF RxInv, PbufInv

(* Counting one thing leaves the other counters alone.                      *)
LEMMA BumpOne ==
  ASSUME counters \in [Counters -> Nat], NEW c \in Counters, Bump(c)
  PROVE /\ counters' \in [Counters -> Nat]
        /\ counters'[c] = counters[c] + 1
        /\ \A d \in Counters \ {c} : counters'[d] = counters[d]
BY DEF Bump

LEMMA NextRxInv == RxInv /\ [Next]_vars => RxInv'
<1> SUFFICES ASSUME RxInv, [Next]_vars PROVE RxInv'
  OBVIOUS
<1> USE RxAssumption
    DEF RxAssumption, RxInv, PbufInv, TypeOK, HandleContract, InHand, PbufConservation,
        FrameAccounting, PbufInHand
<1>0. Counters = {"eb_taken", "eb_released", "rx_frames", "rx_dropped_no_pbuf",
                  "rx_dropped_stack_busy", "rx_dropped_bad_frame"}
  BY DEF Counters
<1>1. CASE UNCHANGED vars
  BY <1>1 DEF vars
<1>2. ASSUME NEW h \in Handles, NEW ok \in BOOLEAN, Rxcb(h, ok)
      PROVE RxInv'
  <2>1. /\ counters' \in [Counters -> Nat]
        /\ counters'["eb_taken"] = counters["eb_taken"] + 1
        /\ \A d \in Counters \ {"eb_taken"} : counters'[d] = counters[d]
    BY <1>0, <1>2, BumpOne DEF Rxcb
  <2> QED
    BY <1>0, <1>2, <2>1 DEF Rxcb
<1>3. CASE CopyFrame
  <2>1. p = FALSE /\ step = "copy"
    BY <1>3 DEF CopyFrame
  <2>2. CASE pool > 0 /\ p' = TRUE /\ pool' = pool - 1 /\ UNCHANGED refused
    BY <1>3, <2>1, <2>2 DEF CopyFrame
  <2>3. CASE UNCHANGED <<p, pool>> /\ refused' = refused + 1
    <3>1. TypeOK' /\ PbufInHand'
      BY <1>3, <2>1, <2>3 DEF CopyFrame
    <3>2. HandleContract' /\ PbufConservation'
      BY <1>3, <2>1, <2>3 DEF CopyFrame
    <3>3. FrameAccounting'
      BY <1>0, <1>3, <2>1, <2>3 DEF CopyFrame
    <3> QED
      BY <3>1, <3>2, <3>3
  <2> QED
    BY <1>3, <2>2, <2>3 DEF CopyFrame
<1>4. CASE RejectFrame
  <2>1. /\ counters' \in [Counters -> Nat]
        /\ counters'["rx_dropped_bad_frame"] = counters["rx_dropped_bad_frame"] + 1
        /\ \A d \in Counters \ {"rx_dropped_bad_frame"} : counters'[d] = counters[d]
    BY <1>0, <1>4, BumpOne DEF RejectFrame
  <2> QED
    BY <1>0, <1>4, <2>1 DEF RejectFrame
<1>5. CASE ReleaseHandle
  <2>1. /\ counters' \in [Counters -> Nat]
        /\ counters'["eb_released"] = counters["eb_released"] + 1
        /\ \A d \in Counters \ {"eb_released"} : counters'[d] = counters[d]
    BY <1>0, <1>5, BumpOne DEF ReleaseHandle
  <2> QED
    BY <1>0, <1>5, <2>1 DEF ReleaseHandle
<1>6. CASE DropWithoutPbuf
  <2>1. /\ counters' \in [Counters -> Nat]
        /\ counters'["rx_dropped_no_pbuf"] = counters["rx_dropped_no_pbuf"] + 1
        /\ \A d \in Counters \ {"rx_dropped_no_pbuf"} : counters'[d] = counters[d]
    BY <1>0, <1>6, BumpOne DEF DropWithoutPbuf
  <2>2. TypeOK' /\ PbufInHand'
    BY <1>6, <2>1 DEF DropWithoutPbuf, Return
  <2>3. HandleContract'
    BY <1>0, <1>6, <2>1 DEF DropWithoutPbuf, Return
  <2>4. PbufConservation'
    BY <1>6 DEF DropWithoutPbuf, Return
  <2>5. FrameAccounting'
    BY <1>0, <1>6, <2>1 DEF DropWithoutPbuf, Return
  <2> QED
    BY <2>2, <2>3, <2>4, <2>5
<1>7. CASE DeliverPbuf
  <2>1. /\ counters' \in [Counters -> Nat]
        /\ counters'["rx_frames"] = counters["rx_frames"] + 1
        /\ \A d \in Counters \ {"rx_frames"} : counters'[d] = counters[d]
    BY <1>0, <1>7, BumpOne DEF DeliverPbuf
  <2>2. TypeOK' /\ PbufInHand'
    <3>1. mbox' \in 0 .. MBOX /\ pool' \in Nat /\ stack' \in Nat /\ refused' \in Nat
      BY <1>7 DEF DeliverPbuf, Return
    <3>2. step' = "idle" /\ p' = FALSE /\ valid' = FALSE /\ UNCHANGED <<driver, eb>>
      BY <1>7 DEF DeliverPbuf, Return
    <3> QED
      BY <2>1, <3>1, <3>2
  <2>3. HandleContract'
    BY <1>0, <1>7, <2>1 DEF DeliverPbuf, Return
  <2>4. PbufConservation'
    BY <1>7 DEF DeliverPbuf, Return
  <2>5. FrameAccounting'
    BY <1>0, <1>7, <2>1 DEF DeliverPbuf, Return
  <2> QED
    BY <2>2, <2>3, <2>4, <2>5
<1>8. CASE StackBusy
  <2>1. /\ counters' \in [Counters -> Nat]
        /\ counters'["rx_dropped_stack_busy"] = counters["rx_dropped_stack_busy"] + 1
        /\ \A d \in Counters \ {"rx_dropped_stack_busy"} : counters'[d] = counters[d]
    BY <1>0, <1>8, BumpOne DEF StackBusy
  <2>2. TypeOK' /\ PbufInHand'
    <3>1. mbox' \in 0 .. MBOX /\ pool' \in Nat /\ stack' \in Nat /\ refused' \in Nat
      BY <1>8 DEF StackBusy, Return
    <3>2. step' = "idle" /\ p' = FALSE /\ valid' = FALSE /\ UNCHANGED <<driver, eb>>
      BY <1>8 DEF StackBusy, Return
    <3> QED
      BY <2>1, <3>1, <3>2
  <2>3. HandleContract'
    BY <1>0, <1>8, <2>1 DEF StackBusy, Return
  <2>4. PbufConservation'
    BY <1>8 DEF StackBusy, Return
  <2>5. FrameAccounting'
    BY <1>0, <1>8, <2>1 DEF StackBusy, Return
  <2> QED
    BY <2>2, <2>3, <2>4, <2>5
<1>9. CASE TcpipTakes \/ StackFrees
  BY <1>9 DEF TcpipTakes, StackFrees
<1> QED
  BY <1>1, <1>2, <1>3, <1>4, <1>5, <1>6, <1>7, <1>8, <1>9 DEF Next, Input

(* Every handle the driver lends is given back, once, whatever the pools     *)
(* and the mailbox refuse.                                                  *)
THEOREM HandlesAreReturned == Spec => []HandleContract
<1>1. RxInv => HandleContract
  BY DEF RxInv
<1> QED
  BY InitRxInv, NextRxInv, <1>1, PTL DEF Spec

(* No path of the receive callback leaks or double-frees a pbuf.            *)
THEOREM PbufsAreConserved == Spec => []PbufInv
<1>1. RxInv => PbufInv
  BY DEF RxInv
<1> QED
  BY InitRxInv, NextRxInv, <1>1, PTL DEF Spec

(* The counters account for every frame.                                    *)
THEOREM FramesAreAccounted == Spec => []FrameAccounting
<1>1. RxInv => FrameAccounting
  BY DEF RxInv
<1> QED
  BY InitRxInv, NextRxInv, <1>1, PTL DEF Spec
==============================================================================
