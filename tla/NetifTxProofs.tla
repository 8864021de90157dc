---------------------------- MODULE NetifTxProofs ----------------------------
(***************************************************************************)
(* The staging buffer of the transmit path, for any number of threads, with *)
(* lwIP's core lock and without it: the mutex is held exactly between its   *)
(* obtain and its release, a frame that leaves is one thread's bytes, and   *)
(* no call is counted twice.                                                *)
(***************************************************************************)
EXTENDS NetifTx, FiniteSetTheorems, TLAPS

(* Only a chain of pbufs goes near the mutex.                               *)
ChainsLock ==
  \A t \in Threads : pc[t] \in {"lock", "copy", "copying", "unlock"} => shape[t] = "chain"

LockInv == TypeOK /\ StagingLockComesBack /\ ChainsLock

(* Between the copy and the return of the driver the buffer is the copier's. *)
StagingIsMine ==
  \A t \in Threads :
    /\ pc[t] = "copying" => staging[1] = t
    /\ pc[t] \in {"transmit", "transmitting"} /\ shape[t] = "chain"
         => staging[1] = t /\ staging[2] = t

(* The driver has read nothing of a frame that has not been handed to it.    *)
NothingSentYet ==
  \A t \in Threads :
    pc[t] \in {"idle", "lock", "copy", "copying", "transmit"} => sent[t] = [h \in Halves |-> None]

FrameInv == FramesAreWhole /\ StagingIsMine /\ NothingSentYet

LEMMA LockInit == Init => LockInv
  BY TxAssumption DEF Init, LockInv, TypeOK, StagingLockComesBack, ChainsLock, Counters, Shapes, Halves

LEMMA LockStep == LockInv /\ [Next]_vars => LockInv'
<1> SUFFICES ASSUME LockInv, [Next]_vars PROVE LockInv'
  OBVIOUS
<1> USE TxAssumption DEF LockInv, TypeOK, StagingLockComesBack, ChainsLock, Counters, Shapes, Halves
<1>1. CASE UNCHANGED vars
  BY <1>1 DEF vars
<1>2. ASSUME NEW t \in Threads, NEW s \in Shapes, Begin(t, s) PROVE LockInv'
  BY <1>2 DEF Begin, Goto, GotoCount
<1>3. ASSUME NEW t \in Threads, ObtainLock(t) PROVE LockInv'
  BY <1>3 DEF ObtainLock, Goto
<1>4. ASSUME NEW t \in Threads, CopyFirst(t) PROVE LockInv'
  BY <1>4 DEF CopyFirst, Goto
<1>5. ASSUME NEW t \in Threads, CopySecond(t) PROVE LockInv'
  BY <1>5 DEF CopySecond, Goto
<1>6. ASSUME NEW t \in Threads, CopyShort(t) PROVE LockInv'
  BY <1>6 DEF CopyShort, Goto, GotoCount
<1>7. ASSUME NEW t \in Threads, TransmitFirst(t) PROVE LockInv'
  BY <1>7 DEF TransmitFirst, Goto, Bytes
<1>8. ASSUME NEW t \in Threads, TransmitSecond(t) PROVE LockInv'
  BY <1>8 DEF TransmitSecond, Bytes
<1>9. ASSUME NEW t \in Threads, Unlock(t) PROVE LockInv'
  BY <1>9 DEF Unlock, Goto
<1>10. ASSUME NEW t \in Threads, Load(t) PROVE LockInv'
  BY <1>10 DEF Load, Goto
<1>11. ASSUME NEW t \in Threads, Store(t) PROVE LockInv'
  BY <1>11 DEF Store, Goto
<1> QED
  BY <1>1, <1>2, <1>3, <1>4, <1>5, <1>6, <1>7, <1>8, <1>9, <1>10, <1>11 DEF Next, Output

LEMMA FrameInit == Init => FrameInv
  BY DEF Init, FrameInv, FramesAreWhole, StagingIsMine, NothingSentYet, Halves

(* A half of the frame that the driver reads is the sender's own.            *)
LEMMA BytesAreMine ==
  ASSUME FrameInv, NEW t \in Threads, pc[t] \in {"transmit", "transmitting"}, NEW h \in Halves
  PROVE  Bytes(t, h) = t
  BY DEF FrameInv, StagingIsMine, Bytes, Halves

(* Two threads are never between obtain and release together, so a step that *)
(* writes the buffer disturbs nobody's frame.                               *)
LEMMA OneCopier ==
  ASSUME LockInv, NEW t \in Threads, NEW u \in Threads,
         pc[t] \in {"copy", "copying"}, shape[u] = "chain",
         pc[u] \in {"copy", "copying", "transmit", "transmitting", "unlock"}
  PROVE  u = t
  BY DEF LockInv, StagingLockComesBack, ChainsLock

LEMMA FrameStep == LockInv /\ FrameInv /\ [Next]_vars => FrameInv'
<1> SUFFICES ASSUME LockInv, FrameInv, [Next]_vars PROVE FrameInv'
  OBVIOUS
<1> USE TxAssumption DEF FrameInv, FramesAreWhole, StagingIsMine, NothingSentYet, Halves
<1>0. TypeOK /\ ChainsLock
  BY DEF LockInv
<1>1. CASE UNCHANGED vars
  BY <1>1 DEF vars
<1>2. ASSUME NEW t \in Threads, NEW s \in Shapes, Begin(t, s) PROVE FrameInv'
  BY <1>0, <1>2 DEF Begin, Goto, GotoCount, TypeOK, Shapes
<1>3. ASSUME NEW t \in Threads, ObtainLock(t) PROVE FrameInv'
  BY <1>0, <1>3 DEF ObtainLock, Goto, TypeOK
<1>4. ASSUME NEW t \in Threads, CopyFirst(t) PROVE FrameInv'
  <2>1. \A u \in Threads : (pc[u] = "copying" \/ (pc[u] \in {"transmit", "transmitting"} /\ shape[u] = "chain")) => u = t
    BY <1>0, <1>4, OneCopier DEF CopyFirst, Goto, ChainsLock
  <2> QED
    BY <1>0, <1>4, <2>1 DEF CopyFirst, Goto, TypeOK
<1>5. ASSUME NEW t \in Threads, CopySecond(t) PROVE FrameInv'
  <2>1. \A u \in Threads : (pc[u] = "copying" \/ (pc[u] \in {"transmit", "transmitting"} /\ shape[u] = "chain")) => u = t
    BY <1>0, <1>5, OneCopier DEF CopySecond, Goto, ChainsLock
  <2> QED
    BY <1>0, <1>5, <2>1 DEF CopySecond, Goto, TypeOK
<1>6. ASSUME NEW t \in Threads, CopyShort(t) PROVE FrameInv'
  BY <1>0, <1>6 DEF CopyShort, Goto, GotoCount, TypeOK
<1>7. ASSUME NEW t \in Threads, TransmitFirst(t) PROVE FrameInv'
  <2>1. Bytes(t, 1) = t
    BY <1>7, BytesAreMine DEF TransmitFirst, Goto
  <2> QED
    BY <1>0, <1>7, <2>1 DEF TransmitFirst, Goto, TypeOK
<1>8. ASSUME NEW t \in Threads, TransmitSecond(t) PROVE FrameInv'
  <2>1. Bytes(t, 2) = t
    BY <1>8, BytesAreMine DEF TransmitSecond
  <2>2. sent'[t] = [h \in Halves |-> t]
    BY <1>0, <1>8, <2>1 DEF TransmitSecond, TypeOK
  <2>3. \A u \in Threads : u # t => sent'[u] = sent[u] /\ pc'[u] = pc[u]
    BY <1>0, <1>8 DEF TransmitSecond, TypeOK
  <2>4. pc'[t] \in {"unlock", "load"}
    BY <1>0, <1>8 DEF TransmitSecond, TypeOK
  <2>5. staging' = staging /\ shape' = shape
    BY <1>8 DEF TransmitSecond
  <2> HIDE DEF FrameInv, FramesAreWhole, Halves
  <2>6. FramesAreWhole'
    <3> SUFFICES ASSUME NEW u \in Threads
                 PROVE  /\ pc'[u] = "transmitting" => sent'[u][1] = u
                        /\ pc'[u] \in {"unlock", "load", "store"}
                             => sent'[u] \in {[h \in Halves |-> u], [h \in Halves |-> None]}
      BY DEF FramesAreWhole
    <3>1. CASE u = t
      BY <2>2, <2>4, <3>1
    <3>2. CASE u # t
      BY <2>3, <3>2 DEF FrameInv, FramesAreWhole
    <3> QED
      BY <3>1, <3>2
  <2>7. StagingIsMine' /\ NothingSentYet'
    BY <2>3, <2>4, <2>5 DEF FrameInv
  <2> QED
    BY <2>6, <2>7 DEF FrameInv
<1>9. ASSUME NEW t \in Threads, Unlock(t) PROVE FrameInv'
  BY <1>0, <1>9 DEF Unlock, Goto, TypeOK
<1>10. ASSUME NEW t \in Threads, Load(t) PROVE FrameInv'
  BY <1>0, <1>10 DEF Load, Goto, TypeOK
<1>11. ASSUME NEW t \in Threads, Store(t) PROVE FrameInv'
  BY <1>0, <1>11 DEF Store, Goto, TypeOK
<1> QED
  BY <1>1, <1>2, <1>3, <1>4, <1>5, <1>6, <1>7, <1>8, <1>9, <1>10, <1>11 DEF Next, Output

(* The staging mutex is held exactly between its obtain and its release, on  *)
(* every path of linkoutput().                                              *)
THEOREM StagingLockHolds == Spec => []TxInv
<1>1. Spec => []LockInv
  BY LockInit, LockStep, PTL DEF Spec
<1>2. LockInv => TxInv
  BY DEF LockInv, TxInv
<1> QED
  BY <1>1, <1>2, PTL

(* What the driver reads for a frame is that frame, however many threads     *)
(* call linkoutput() together.                                              *)
THEOREM FramesAreWholeHolds == Spec => []FramesAreWhole
<1>1. Init => LockInv /\ FrameInv
  BY LockInit, FrameInit
<1>2. LockInv /\ FrameInv /\ [Next]_vars => (LockInv /\ FrameInv)'
  BY LockStep, FrameStep
<1>3. FrameInv => FramesAreWhole
  BY DEF FrameInv
<1> QED
  BY <1>1, <1>2, <1>3, PTL DEF Spec
------------------------------------------------------------------------------
(* The counters.  Two increments may fall together, so the counters say less *)
(* than what happened; "owed" is how many calls have ended at each, which no *)
(* variable keeps: a counter, and a value on its way to one, is at most that. *)
Active == {t \in Threads : pc[t] # "idle"}

Total(f) == f["tx_frames"] + f["tx_dropped_driver"] + f["tx_dropped_too_long"]

Owed(owed) ==
  /\ \A c \in Counters : counters[c] <= owed[c]
  /\ \A t \in Threads : pc[t] = "store" => loaded[t] <= owed[target[t]]
  /\ Total(owed) + Cardinality(Active) = calls

(* Under the core lock one call is in progress at a time, nothing changes a  *)
(* counter between its load and its store, and the counters are exact.      *)
OneAtATime ==
  coreLocked =>
    /\ \A t \in Threads : pc[t] # "idle" <=> core = t
    /\ \A t \in Threads : pc[t] = "store" => loaded[t] = counters[target[t]]
    /\ Total(counters) + Cardinality(Active) = calls

CountInv ==
  /\ TypeOK
  /\ IsFiniteSet(Active)
  /\ \E owed \in [Counters -> Nat] : Owed(owed)
  /\ OneAtATime

LEMMA TotalOfOneMore ==
  ASSUME NEW f \in [Counters -> Nat], NEW c \in Counters
  PROVE  /\ Total([f EXCEPT ![c] = f[c] + 1]) = Total(f) + 1
         /\ Total(f) \in Nat
<1>. USE DEF Counters, Total
<1>1. CASE c = "tx_frames"
  BY <1>1
<1>2. CASE c = "tx_dropped_driver"
  BY <1>2
<1>3. CASE c = "tx_dropped_too_long"
  BY <1>3
<1>. QED BY <1>1, <1>2, <1>3

(* A step inside a call that leaves the counters alone.                     *)
LEMMA CountRests ==
  ASSUME CountInv, TypeOK', NEW t \in Threads, pc[t] # "idle", pc'[t] \notin {"idle", "store"},
         \A u \in Threads \ {t} : pc'[u] = pc[u] /\ target'[u] = target[u],
         UNCHANGED <<coreLocked, core, loaded, counters, calls>>
  PROVE  CountInv'
<1>1. Active' = Active
  BY DEF Active
<1>2. \E owed \in [Counters -> Nat] : Owed(owed)'
  <2>1. PICK owed \in [Counters -> Nat] : Owed(owed)
    BY DEF CountInv
  <2>2. Owed(owed)'
    BY <1>1, <2>1 DEF Owed
  <2>. QED BY <2>2
<1>3. OneAtATime'
  BY <1>1 DEF CountInv, OneAtATime
<1>. QED BY <1>1, <1>2, <1>3 DEF CountInv

LEMMA CountInit == Init => CountInv
<1>. SUFFICES ASSUME Init PROVE CountInv
  OBVIOUS
<1>1. TypeOK
  BY LockInit DEF LockInv
<1>2. Active = {} /\ IsFiniteSet(Active) /\ Cardinality(Active) = 0
  BY FS_EmptySet DEF Init, Active
<1>3. counters \in [Counters -> Nat] /\ Total(counters) = 0 /\ calls = 0
  BY DEF Init, Counters, Total
<1>4. Owed(counters)
  BY <1>2, <1>3 DEF Init, Owed, Counters
<1>5. OneAtATime
  BY <1>2, <1>3, TxAssumption DEF Init, OneAtATime, TxAssumption
<1>. QED BY <1>1, <1>2, <1>3, <1>4, <1>5 DEF CountInv

LEMMA BeginCounts ==
  ASSUME CountInv, TypeOK', NEW t \in Threads, NEW s \in Shapes, Begin(t, s)
  PROVE  CountInv'
<1>. USE TxAssumption DEF TxAssumption
<1>1. TypeOK /\ calls \in Nat
  BY DEF CountInv, TypeOK
<1>2. /\ pc[t] = "idle" /\ pc'[t] \notin {"idle", "store"}
      /\ \A u \in Threads \ {t} : pc'[u] = pc[u] /\ target'[u] = target[u]
      /\ calls' = calls + 1 /\ UNCHANGED <<coreLocked, loaded, counters>>
  BY <1>1 DEF Begin, Goto, GotoCount, TypeOK
<1>3. Active' = Active \union {t} /\ t \notin Active
  BY <1>2 DEF Active
<1>4. IsFiniteSet(Active') /\ Cardinality(Active') = Cardinality(Active) + 1 /\ Cardinality(Active) \in Nat
  BY <1>3, FS_AddElement, FS_CardinalityType DEF CountInv
<1>5. \E owed \in [Counters -> Nat] : Owed(owed)'
  <2>1. PICK owed \in [Counters -> Nat] : Owed(owed)
    BY DEF CountInv
  <2>2. Total(owed) \in Nat
    BY <2>1, TotalOfOneMore DEF Counters
  <2>3. Owed(owed)'
    BY <1>1, <1>2, <1>4, <2>1, <2>2 DEF Owed
  <2>. QED BY <2>3
<1>6. OneAtATime'
  <2>. SUFFICES ASSUME coreLocked PROVE OneAtATime'
    BY <1>2 DEF OneAtATime
  <2>1. core = None /\ core' = t
    BY DEF Begin
  <2>2. Total(counters) \in Nat
    BY <1>1, TotalOfOneMore DEF Counters, TypeOK
  <2>. QED BY <1>1, <1>2, <1>4, <2>1, <2>2 DEF CountInv, OneAtATime
<1>. QED BY <1>4, <1>5, <1>6 DEF CountInv

LEMMA LoadCounts ==
  ASSUME CountInv, TypeOK', NEW t \in Threads, Load(t)
  PROVE  CountInv'
<1>1. TypeOK
  BY DEF CountInv
<1>2. /\ pc[t] = "load" /\ pc'[t] = "store" /\ loaded'[t] = counters[target[t]]
      /\ \A u \in Threads \ {t} : pc'[u] = pc[u] /\ loaded'[u] = loaded[u]
      /\ UNCHANGED <<coreLocked, core, target, counters, calls>>
  BY <1>1 DEF Load, Goto, TypeOK
<1>3. Active' = Active
  BY <1>2 DEF Active
<1>4. \E owed \in [Counters -> Nat] : Owed(owed)'
  <2>1. PICK owed \in [Counters -> Nat] : Owed(owed)
    BY DEF CountInv
  <2>2. loaded'[t] <= owed[target[t]]
    BY <1>1, <1>2, <2>1 DEF Owed, TypeOK
  <2>3. Owed(owed)'
    BY <1>2, <1>3, <2>1, <2>2 DEF Owed
  <2>. QED BY <2>3
<1>5. OneAtATime'
  BY <1>2, <1>3 DEF CountInv, OneAtATime
<1>. QED BY <1>3, <1>4, <1>5 DEF CountInv

LEMMA StoreCounts ==
  ASSUME CountInv, TypeOK', NEW t \in Threads, Store(t)
  PROVE  CountInv'
<1>0. PICK c \in Counters : c = target[t]
  BY DEF CountInv, TypeOK
<1>1. TypeOK /\ counters \in [Counters -> Nat] /\ loaded[t] \in Nat /\ calls \in Nat
  BY DEF CountInv, TypeOK
<1>2. /\ pc[t] = "store" /\ pc'[t] = "idle" /\ counters' = [counters EXCEPT ![c] = loaded[t] + 1]
      /\ \A u \in Threads \ {t} : pc'[u] = pc[u]
      /\ core' = IF core = t THEN None ELSE core
      /\ UNCHANGED <<coreLocked, target, loaded, calls>>
  BY <1>0, <1>1 DEF Store, Goto, TypeOK
<1>3. Active' = Active \ {t} /\ t \in Active
  BY <1>2 DEF Active
<1>4. /\ IsFiniteSet(Active') /\ Cardinality(Active') = Cardinality(Active) - 1
      /\ Cardinality(Active) \in Nat
  BY <1>3, FS_RemoveElement, FS_CardinalityType DEF CountInv
<1>5. \E owed \in [Counters -> Nat] : Owed(owed)'
  <2>1. PICK owed \in [Counters -> Nat] : Owed(owed)
    BY DEF CountInv
  <2>. DEFINE more == [owed EXCEPT ![c] = owed[c] + 1]
  <2>2. more \in [Counters -> Nat] /\ Total(more) = Total(owed) + 1 /\ Total(owed) \in Nat
    <3>1. owed \in [Counters -> Nat]
      BY <2>1
    <3>2. Total(more) = Total(owed) + 1 /\ Total(owed) \in Nat
      BY <3>1, TotalOfOneMore
    <3>3. more \in [Counters -> Nat]
      BY <3>1
    <3>. QED BY <3>2, <3>3
  <2>3. loaded[t] <= owed[c]
    BY <1>0, <1>2, <2>1 DEF Owed
  <2>4. \A d \in Counters : owed[d] <= more[d] /\ counters'[d] <= more[d]
    BY <1>1, <1>2, <2>1, <2>3 DEF Owed
  <2>. HIDE DEF more
  <2>5. \A u \in Threads : pc'[u] = "store" => loaded'[u] <= more[target'[u]]
    <3>. SUFFICES ASSUME NEW u \in Threads \ {t}, pc[u] = "store"
                  PROVE  loaded[u] <= more[target[u]]
      BY <1>2
    <3>1. loaded[u] \in Nat /\ target[u] \in Counters /\ loaded[u] <= owed[target[u]]
      BY <1>1, <2>1 DEF Owed, TypeOK
    <3>. QED BY <2>2, <2>4, <3>1
  <2>6. Owed(more)'
    BY <1>1, <1>2, <1>4, <2>1, <2>2, <2>4, <2>5 DEF Owed
  <2>. QED BY <2>2, <2>6
<1>6. OneAtATime'
  <2>. SUFFICES ASSUME coreLocked PROVE OneAtATime'
    BY <1>2 DEF OneAtATime
  <2>1. core = t /\ core' = None /\ \A u \in Threads \ {t} : pc[u] = "idle"
    BY <1>2 DEF CountInv, OneAtATime
  <2>2. \A u \in Threads : pc'[u] = "idle"
    BY <1>2, <2>1
  <2>3. loaded[t] = counters[c] /\ Total(counters) + Cardinality(Active) = calls
    BY <1>0, <1>2 DEF CountInv, OneAtATime
  <2>4. Total(counters') = Total(counters) + 1 /\ Total(counters) \in Nat
    BY <1>1, <1>2, <2>3, TotalOfOneMore
  <2>5. Total(counters') + Cardinality(Active') = calls'
    BY <1>1, <1>2, <1>4, <2>3, <2>4
  <2>. QED BY <2>1, <2>2, <2>5, TxAssumption DEF OneAtATime, TxAssumption
<1>. QED BY <1>4, <1>5, <1>6 DEF CountInv

LEMMA CountStep == LockInv /\ CountInv /\ [Next]_vars => CountInv'
<1>. SUFFICES ASSUME LockInv, CountInv, [Next]_vars PROVE CountInv'
  OBVIOUS
<1>1. TypeOK /\ TypeOK'
  BY LockStep DEF LockInv
<1>2. CASE UNCHANGED vars
  <2>1. UNCHANGED <<coreLocked, core, pc, target, loaded, counters, calls>>
    BY <1>2 DEF vars
  <2>2. Active' = Active
    BY <2>1 DEF Active
  <2>3. PICK owed \in [Counters -> Nat] : Owed(owed)
    BY DEF CountInv
  <2>4. Owed(owed)' /\ OneAtATime'
    BY <2>1, <2>2, <2>3 DEF CountInv, Owed, OneAtATime
  <2>. QED BY <1>1, <2>2, <2>4 DEF CountInv
<1>3. ASSUME NEW t \in Threads, NEW s \in Shapes, Begin(t, s)
      PROVE  CountInv'
  BY <1>1, <1>3, BeginCounts
<1>4. ASSUME NEW t \in Threads,
             \/ ObtainLock(t) \/ CopyFirst(t) \/ CopySecond(t) \/ CopyShort(t)
             \/ TransmitFirst(t) \/ TransmitSecond(t) \/ Unlock(t)
      PROVE  CountInv'
  <2>1. pc[t] # "idle" /\ pc'[t] \notin {"idle", "store"}
    BY <1>1, <1>4 DEF ObtainLock, CopyFirst, CopySecond, CopyShort, TransmitFirst, TransmitSecond,
                      Unlock, Goto, GotoCount, TypeOK
  <2>2. \A u \in Threads \ {t} : pc'[u] = pc[u] /\ target'[u] = target[u]
    BY <1>1, <1>4 DEF ObtainLock, CopyFirst, CopySecond, CopyShort, TransmitFirst, TransmitSecond,
                      Unlock, Goto, GotoCount, TypeOK
  <2>3. UNCHANGED <<coreLocked, core, loaded, counters, calls>>
    BY <1>4 DEF ObtainLock, CopyFirst, CopySecond, CopyShort, TransmitFirst, TransmitSecond, Unlock
  <2>. QED BY <1>1, <2>1, <2>2, <2>3, CountRests
<1>5. ASSUME NEW t \in Threads, Load(t)
      PROVE  CountInv'
  BY <1>1, <1>5, LoadCounts
<1>6. ASSUME NEW t \in Threads, Store(t)
      PROVE  CountInv'
  BY <1>1, <1>6, StoreCounts
<1>. QED BY <1>2, <1>3, <1>4, <1>5, <1>6 DEF Next, Output

(* No call of linkoutput() is counted twice, and under the core lock each is *)
(* counted once it is over.                                                 *)
THEOREM EveryCallCountedHolds == Spec => []EveryCallCounted
<1>1. Init => LockInv /\ CountInv
  BY LockInit, CountInit
<1>2. LockInv /\ CountInv /\ [Next]_vars => (LockInv /\ CountInv)'
  BY LockStep, CountStep
<1>3. CountInv => EveryCallCounted
  <2>. SUFFICES ASSUME CountInv PROVE EveryCallCounted
    OBVIOUS
  <2>1. Cardinality(Active) \in Nat
    BY FS_CardinalityType DEF CountInv
  <2>2. Total(counters) <= calls
    <3>1. PICK owed \in [Counters -> Nat] : Owed(owed)
      BY DEF CountInv
    <3>2. Total(counters) <= Total(owed) /\ Total(counters) \in Nat /\ Total(owed) \in Nat
      BY <3>1 DEF CountInv, TypeOK, Owed, Total, Counters
    <3>. QED BY <2>1, <3>1, <3>2 DEF Owed, CountInv, TypeOK
  <2>3. ASSUME coreLocked, \A t \in Threads : pc[t] = "idle"
        PROVE  Total(counters) = calls
    <3>1. Active = {}
      BY <2>3 DEF Active
    <3>2. Cardinality(Active) = 0
      BY <3>1, FS_EmptySet
    <3>3. Total(counters) \in Nat /\ Total(counters) + Cardinality(Active) = calls
      BY <2>3 DEF CountInv, OneAtATime, TypeOK, Total, Counters
    <3>. QED BY <3>2, <3>3
  <2>. QED BY <2>2, <2>3 DEF EveryCallCounted, Total
<1>. QED BY <1>1, <1>2, <1>3, PTL DEF Spec
=============================================================================
