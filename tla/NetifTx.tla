------------------------------- MODULE NetifTx -------------------------------
(***************************************************************************)
(* The transmit path of src/src/rtems_esp_netif.c: linkoutput() sends a     *)
(* single pbuf from its own payload and copies a chain into one static      *)
(* staging buffer under a mutex.                                            *)
(*                                                                          *)
(* Which threads get here is a configuration of lwIP: with its core lock    *)
(* they come one at a time, without it (or from a caller that does not take *)
(* it, as examples/wifi-net does) they overlap.  Copying and sending take   *)
(* two steps each, one per half of the frame, so that an overlap can be     *)
(* seen.  A counter is incremented the way the compiler does it, with a     *)
(* load and a store.                                                        *)
(***************************************************************************)
EXTENDS Integers

CONSTANTS
  Threads,     \* the tcpip thread and application threads in sockets
  MaxCalls,    \* bound: calls of linkoutput()
  None         \* nobody; nothing in the buffer

ASSUME TxAssumption ==
  /\ MaxCalls \in Nat
  /\ None \notin Threads

Shapes == {"single", "chain", "too_long"}

Counters == {"tx_frames", "tx_dropped_driver", "tx_dropped_too_long"}

VARIABLES
  coreLocked,\* linkoutput() is reached under lwIP's core lock; never changes
  core,      \* who has lwIP's core lock
  lock,      \* who has rtems_esp_netif_staging_lock
  staging,   \* whose bytes are in each half of rtems_esp_netif_staging
  sent,      \* whose bytes the driver has read for each thread's frame
  pc,        \* where each thread is
  shape,     \* the pbuf it is sending
  target,    \* the counter it is incrementing
  loaded,    \* the value it loaded
  counters,  \* rtems_esp_netif_counters, the transmit half
  linearised,\* tx_linearised
  calls      \* history: calls begun

vars == <<coreLocked, core, lock, staging, sent, pc, shape, target, loaded, counters, linearised, calls>>

Halves == {1, 2}

Init ==
  /\ coreLocked \in BOOLEAN
  /\ core = None
  /\ lock = None
  /\ staging = [h \in Halves |-> None]
  /\ sent = [t \in Threads |-> [h \in Halves |-> None]]
  /\ pc = [t \in Threads |-> "idle"]
  /\ shape = [t \in Threads |-> "single"]
  /\ target = [t \in Threads |-> "tx_frames"]
  /\ loaded = [t \in Threads |-> 0]
  /\ counters = [c \in Counters |-> 0]
  /\ linearised = 0
  /\ calls = 0

Goto(t, from, to) == pc[t] = from /\ pc' = [pc EXCEPT ![t] = to]

(* Continue at the increment of counter c, the last thing the call does.    *)
GotoCount(t, from, c) == Goto(t, from, "load") /\ target' = [target EXCEPT ![t] = c]

(* Too long is refused first; a single pbuf goes straight to the driver.    *)
Begin(t, s) ==
  /\ calls < MaxCalls
  /\ calls' = calls + 1
  /\ coreLocked => core = None
  /\ core' = IF coreLocked THEN t ELSE core
  /\ shape' = [shape EXCEPT ![t] = s]
  /\ \/ s = "too_long" /\ GotoCount(t, "idle", "tx_dropped_too_long")
     \/ s = "single" /\ Goto(t, "idle", "transmit") /\ UNCHANGED target
     \/ s = "chain" /\ Goto(t, "idle", "lock") /\ UNCHANGED target
  /\ UNCHANGED <<coreLocked, lock, staging, sent, loaded, counters, linearised>>

ObtainLock(t) ==
  /\ Goto(t, "lock", "copy")
  /\ lock = None
  /\ lock' = t
  /\ UNCHANGED <<coreLocked, core, staging, sent, shape, target, loaded, counters, linearised, calls>>

CopyFirst(t) ==
  /\ Goto(t, "copy", "copying")
  /\ staging' = [staging EXCEPT ![1] = t]
  /\ UNCHANGED <<coreLocked, core, lock, sent, shape, target, loaded, counters, linearised, calls>>

(* Mutant: the mutex goes back before the driver has read the buffer.       *)
CopySecondUnlocks(t) ==
  /\ Goto(t, "copying", "transmit")
  /\ staging' = [staging EXCEPT ![2] = t]
  /\ linearised' = linearised + 1
  /\ lock' = None
  /\ UNCHANGED <<coreLocked, core, sent, shape, target, loaded, counters, calls>>

(* pbuf_copy_partial() gave the whole frame.                                *)
CopySecond(t) ==
  /\ Goto(t, "copying", "transmit")
  /\ staging' = [staging EXCEPT ![2] = t]
  /\ linearised' = linearised + 1
  /\ UNCHANGED <<coreLocked, core, lock, sent, shape, target, loaded, counters, calls>>

(* Mutant: the drop of a short copy keeps the mutex.                        *)
CopyShortKeepsLock(t) ==
  /\ GotoCount(t, "copying", "tx_dropped_driver")
  /\ UNCHANGED <<coreLocked, core, lock, staging, sent, shape, loaded, counters, linearised, calls>>

(* It gave less: the lock goes back before the drop is counted.             *)
CopyShort(t) ==
  /\ GotoCount(t, "copying", "tx_dropped_driver")
  /\ lock' = None
  /\ UNCHANGED <<coreLocked, core, staging, sent, shape, loaded, counters, linearised, calls>>

Bytes(t, h) == IF shape[t] = "chain" THEN staging[h] ELSE t

(* ops->transmit() borrows the buffer until it returns.                     *)
TransmitFirst(t) ==
  /\ Goto(t, "transmit", "transmitting")
  /\ sent' = [sent EXCEPT ![t][1] = Bytes(t, 1)]
  /\ UNCHANGED <<coreLocked, core, lock, staging, shape, target, loaded, counters, linearised, calls>>

TransmitSecond(t) ==
  /\ pc[t] = "transmitting"
  /\ sent' = [sent EXCEPT ![t][2] = Bytes(t, 2)]
  /\ \E c \in {"tx_frames", "tx_dropped_driver"} : target' = [target EXCEPT ![t] = c]
  /\ pc' = [pc EXCEPT ![t] = IF shape[t] = "chain" THEN "unlock" ELSE "load"]
  /\ UNCHANGED <<coreLocked, core, lock, staging, shape, loaded, counters, linearised, calls>>

Unlock(t) ==
  /\ Goto(t, "unlock", "load")
  /\ lock' = None
  /\ UNCHANGED <<coreLocked, core, staging, sent, shape, target, loaded, counters, linearised, calls>>

Load(t) ==
  /\ Goto(t, "load", "store")
  /\ loaded' = [loaded EXCEPT ![t] = counters[target[t]]]
  /\ UNCHANGED <<coreLocked, core, lock, staging, sent, shape, target, counters, linearised, calls>>

(* Mutant: the call is counted only when the driver took the frame.         *)
StoreStale(t) ==
  /\ Goto(t, "store", "idle")
  /\ counters' = IF target[t] = "tx_frames" THEN [counters EXCEPT ![target[t]] = loaded[t] + 1]
                                            ELSE counters
  /\ core' = IF core = t THEN None ELSE core
  /\ sent' = [sent EXCEPT ![t] = [h \in Halves |-> None]]
  /\ UNCHANGED <<coreLocked, lock, staging, shape, target, loaded, linearised, calls>>

Store(t) ==
  /\ Goto(t, "store", "idle")
  /\ counters' = [counters EXCEPT ![target[t]] = loaded[t] + 1]
  /\ core' = IF core = t THEN None ELSE core
  /\ sent' = [sent EXCEPT ![t] = [h \in Halves |-> None]]
  /\ UNCHANGED <<coreLocked, lock, staging, shape, target, loaded, linearised, calls>>

Output(t) ==
  \/ ObtainLock(t)
  \/ CopyFirst(t) \/ CopySecond(t) \/ CopyShort(t)
  \/ TransmitFirst(t) \/ TransmitSecond(t)
  \/ Unlock(t)
  \/ Load(t) \/ Store(t)

Next == \E t \in Threads : (\E s \in Shapes : Begin(t, s)) \/ Output(t)

Spec == Init /\ [][Next]_vars

(* A thread inside linkoutput() is runnable except when it waits for the     *)
(* mutex, which is handed on when it is released.                           *)
FairSpec == Spec /\ \A t \in Threads : WF_vars(Output(t)) /\ SF_vars(ObtainLock(t))

------------------------------------------------------------------------------
(* Every variable stays in its range, and no frame longer than the staging   *)
(* buffer gets to it or to the driver.                                      *)
TypeOK ==
  /\ coreLocked \in BOOLEAN
  /\ core \in Threads \union {None}
  /\ lock \in Threads \union {None}
  /\ staging \in [Halves -> Threads \union {None}]
  /\ sent \in [Threads -> [Halves -> Threads \union {None}]]
  /\ pc \in [Threads -> {"idle", "lock", "copy", "copying", "transmit", "transmitting",
                         "unlock", "load", "store"}]
  /\ shape \in [Threads -> Shapes]
  /\ \A t \in Threads : shape[t] = "too_long" => pc[t] \in {"idle", "load", "store"}
  /\ target \in [Threads -> Counters]
  /\ loaded \in [Threads -> Nat]
  /\ counters \in [Counters -> Nat]
  /\ linearised \in Nat
  /\ calls \in Nat

(* A frame goes out in one piece: what the driver has read for a thread's    *)
(* frame is that thread's bytes in both halves, with or without the core     *)
(* lock.  Two frames interleaved in the staging buffer would go out as two   *)
(* corrupt frames and nothing would report an error.                        *)
FramesAreWhole ==
  \A t \in Threads :
    /\ pc[t] = "transmitting" => sent[t][1] = t
    /\ pc[t] \in {"unlock", "load", "store"}
         => sent[t] \in {[h \in Halves |-> t], [h \in Halves |-> None]}

(* The staging mutex is free when nobody is between obtain and release: no   *)
(* error path keeps it.                                                     *)
StagingLockComesBack ==
  \A t \in Threads :
    lock = t <=> /\ shape[t] = "chain"
                 /\ pc[t] \in {"copy", "copying", "transmit", "transmitting", "unlock"}

(* The two together, which FramesAreWhole rests on.                         *)
TxInv == TypeOK /\ StagingLockComesBack

(* No call is counted twice, as sent, refused by the driver or too long, and  *)
(* under the core lock each one has been counted when no call is in          *)
(* progress.  Without that lock two increments may fall together, and        *)
(* the second half does not hold.                                           *)
EveryCallCounted ==
  LET counted == counters["tx_frames"] + counters["tx_dropped_driver"]
                   + counters["tx_dropped_too_long"]
  IN /\ counted <= calls
     /\ coreLocked /\ (\A t \in Threads : pc[t] = "idle") => counted = calls

(* Every linkoutput() returns: no thread waits for the mutex for ever.      *)
OutputReturns == \A t \in Threads : pc[t] # "idle" ~> pc[t] = "idle"
==============================================================================
