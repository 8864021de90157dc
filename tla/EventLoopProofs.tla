--------------------------- MODULE EventLoopProofs ---------------------------
(* Proofs about EventLoop for any number of clients, slots and queue places. *)
EXTENDS EventLoop, TLAPS

(* TypeOK alone is not inductive: that the mutex is held at most twice and   *)
(* that the loop index stays in the table need the accounting of LoopInv.    *)
LEMMA InitLoopInv == Init => LoopInv
<1> SUFFICES ASSUME Init PROVE LoopInv
  OBVIOUS
<1> USE ConstantsAssumption DEF ConstantsAssumption, Init, Slots, Threads
<1>1. TypeOK
  <2>1. queue \in Seq(Events) /\ Len(queue) = 0
    OBVIOUS
  <2>2. table \in [Slots -> Subscriptions \union {None}]
    OBVIOUS
  <2>3. pc \in [Threads -> {"idle", "obtain", "edit"}] /\ req \in [Threads -> Requests \union {None}]
    OBVIOUS
  <2>4. Len(queue) <= QUEUE_DEPTH
    BY <2>1
  <2>5. owner \in Threads \union {None} /\ started \in BOOLEAN
    OBVIOUS
  <2>6. depth \in 0 .. 2 /\ slot \in 0 .. HANDLERS + 1
    OBVIOUS
  <2>7. phase \in {"receive", "obtain", "scan", "handler"}
    OBVIOUS
  <2>8. msg \in Events \union {None} /\ running \in Subscriptions \union {None}
    OBVIOUS
  <2> QED
    BY <2>1, <2>2, <2>3, <2>4, <2>5, <2>6, <2>7, <2>8 DEF TypeOK
<1>2. MutexAccounting
  BY DEF MutexAccounting
<1>3. CallAccounting
  BY DEF CallAccounting
<1>4. PassAccounting
  BY DEF PassAccounting
<1> QED
  BY <1>1, <1>2, <1>3, <1>4 DEF LoopInv

(* A register or unregister call, from its start to its return.             *)
LEMMA CallStep ==
  ASSUME LoopInv, NEW t \in Threads, Call(t)
  PROVE LoopInv'
<1> USE ConstantsAssumption DEF ConstantsAssumption, LoopInv, Threads
<1>1. ASSUME NEW event \in Events, Post(t, event)
      PROVE LoopInv'
  <2> USE <1>1 DEF Post, mutexVars, callVars, taskVars
  <2>1. queue' \in Seq(Events) /\ Len(queue') <= QUEUE_DEPTH
    BY DEF TypeOK
  <2>2. TypeOK'
    BY <2>1 DEF TypeOK, Slots
  <2> QED
    BY <2>2 DEF MutexAccounting, CallAccounting, PassAccounting, Slots
<1>2. ASSUME NEW sub \in Subscriptions,
             CallRegister(t, sub) \/ CallUnregister(t, sub)
      PROVE LoopInv'
  <2> USE <1>2 DEF CallRegister, CallUnregister, mutexVars, taskVars
  <2>1. PICK op \in {"register", "unregister"} :
          req' = [req EXCEPT ![t] = [op |-> op, sub |-> sub]]
    OBVIOUS
  <2>2. [op |-> op, sub |-> sub] \in Requests /\ [op |-> op, sub |-> sub] # None
    BY DEF Requests
  <2>3. TypeOK'
    BY <2>1, <2>2 DEF TypeOK, Slots
  <2>4. CallAccounting'
    BY <2>1, <2>2 DEF CallAccounting, TypeOK, MayCall
  <2>5. MutexAccounting'
    BY DEF MutexAccounting, TypeOK, MayCall
  <2> QED
    BY <2>3, <2>4, <2>5 DEF PassAccounting, Slots
<1> QED
  BY <1>1, <1>2 DEF Call

LEMMA ObtainForEditStep ==
  ASSUME LoopInv, NEW t \in Threads, ObtainForEdit(t)
  PROVE LoopInv'
<1> USE ConstantsAssumption
    DEF ConstantsAssumption, LoopInv, Threads, ObtainForEdit, Obtain, taskVars
(* Only the event task, inside a handler, can obtain what it already holds. *)
<1>1. \/ t \in Clients /\ owner = None /\ depth = 0
      \/ t = EventTask /\ owner = EventTask /\ depth = 1
  BY DEF TypeOK, MutexAccounting, CallAccounting
<1>2. depth' \in 1 .. 2
  BY <1>1
<1>3. TypeOK'
  BY <1>2 DEF TypeOK, Slots
<1>4. CallAccounting' /\ PassAccounting'
  BY DEF TypeOK, CallAccounting, PassAccounting, Slots
<1>5. MutexAccounting'
  BY <1>1 DEF TypeOK, MutexAccounting, CallAccounting
<1> QED
  BY <1>3, <1>4, <1>5

LEMMA EditStep ==
  ASSUME LoopInv, NEW t \in Threads, Edit(t)
  PROVE LoopInv'
<1> USE ConstantsAssumption
    DEF ConstantsAssumption, LoopInv, Threads, EditReturns, Release, taskVars
<1>1. PICK op \in {"register", "unregister"} : EditReturns(t, op)
  BY DEF Edit, Register, Unregister
<1>2. \/ t \in Clients /\ owner = t /\ depth = 1
      \/ t = EventTask /\ owner = EventTask /\ depth = 2
  BY <1>1 DEF TypeOK, MutexAccounting, CallAccounting
<1>3. req[t].sub \in Subscriptions
  BY <1>1 DEF TypeOK, CallAccounting, Requests
<1>4. table' \in [Slots -> Subscriptions \union {None}]
  BY <1>3 DEF Edit, Register, Unregister, TypeOK
<1>5. /\ t \in Clients => owner' = None /\ depth' = 0
      /\ t = EventTask => owner' = EventTask /\ depth' = 1
  BY <1>1, <1>2
<1>6. TypeOK'
  BY <1>1, <1>4, <1>5 DEF TypeOK, Slots
<1>7. CallAccounting' /\ PassAccounting'
  BY <1>1 DEF TypeOK, CallAccounting, PassAccounting, Slots
<1>8. MutexAccounting'
  BY <1>1, <1>2, <1>5 DEF TypeOK, MutexAccounting, CallAccounting
<1> QED
  BY <1>6, <1>7, <1>8

LEMMA EventTaskStepKeepsLoopInv ==
  ASSUME LoopInv, EventTaskStep
  PROVE LoopInv'
<1> USE ConstantsAssumption
    DEF ConstantsAssumption, LoopInv, Threads, mutexVars, callVars
<1>1. CASE Receive
  <2> USE <1>1 DEF Receive
  <2>1. Head(queue) \in Events /\ Tail(queue) \in Seq(Events) /\ Len(Tail(queue)) <= QUEUE_DEPTH
    BY DEF TypeOK
  <2>2. TypeOK'
    BY <2>1 DEF TypeOK, Slots
  <2> QED
    BY <2>1, <2>2 DEF MutexAccounting, CallAccounting, PassAccounting, TypeOK, Slots
<1>2. CASE DispatchObtain
  <2> USE <1>2 DEF DispatchObtain, Obtain
  <2>1. owner = None /\ depth = 0
    BY DEF MutexAccounting, TypeOK
  <2>2. TypeOK'
    BY <2>1 DEF TypeOK, Slots
  <2> QED
    BY <2>1, <2>2 DEF MutexAccounting, CallAccounting, PassAccounting, TypeOK, Slots
<1>3. CASE SkipSlot
  <2> USE <1>3 DEF SkipSlot
  <2>1. TypeOK'
    BY DEF TypeOK, Slots
  <2> QED
    BY <2>1 DEF MutexAccounting, CallAccounting, PassAccounting, TypeOK, Slots
<1>4. CASE CallHandler
  <2> USE <1>4 DEF CallHandler
  <2>1. table[slot] \in Subscriptions
    BY DEF TypeOK, Hit
  <2>2. TypeOK'
    BY <2>1 DEF TypeOK, Slots
  <2> QED
    BY <2>1, <2>2 DEF MutexAccounting, CallAccounting, PassAccounting, TypeOK, Slots
<1>5. CASE HandlerReturns
  <2> USE <1>5 DEF HandlerReturns
  <2>1. TypeOK'
    BY DEF TypeOK, PassAccounting, Slots
  <2> QED
    BY <2>1 DEF MutexAccounting, CallAccounting, PassAccounting, TypeOK, Slots
<1>6. CASE DispatchEnds
  <2> USE <1>6 DEF DispatchEnds, Release
  <2>1. owner = EventTask /\ depth = 1 /\ owner' = None /\ depth' = 0
    BY DEF MutexAccounting, CallAccounting, TypeOK
  <2>2. TypeOK'
    BY <2>1 DEF TypeOK, Slots
  <2> QED
    BY <2>1, <2>2 DEF MutexAccounting, CallAccounting, PassAccounting, TypeOK, Slots
<1> QED
  BY <1>1, <1>2, <1>3, <1>4, <1>5, <1>6 DEF EventTaskStep

LEMMA NextLoopInv == LoopInv /\ [Next]_vars => LoopInv'
<1> SUFFICES ASSUME LoopInv, [Next]_vars PROVE LoopInv'
  OBVIOUS
<1>1. CASE UNCHANGED vars
  BY <1>1 DEF vars, LoopInv, TypeOK, MutexAccounting, CallAccounting,
              PassAccounting, Slots, Threads
<1>2. CASE \E t \in Threads : Call(t) \/ ObtainForEdit(t) \/ Edit(t)
  BY <1>2, CallStep, ObtainForEditStep, EditStep
<1>3. CASE EventTaskStep
  BY <1>3, EventTaskStepKeepsLoopInv
<1> QED
  BY <1>1, <1>2, <1>3 DEF Next

(* In every reachable state each variable has its type: the queue never      *)
(* exceeds the depth it was created with and no loop index leaves the table. *)
THEOREM TypeCorrect == Spec => []TypeOK
<1>1. LoopInv => TypeOK
  BY DEF LoopInv
<1> QED
  BY InitLoopInv, NextLoopInv, <1>1, PTL DEF Spec

(* The mutex is held by exactly the task that scans or edits.               *)
THEOREM LoopInvariant == Spec => []LoopInv
  BY InitLoopInv, NextLoopInv, PTL DEF Spec

(* Only a register or unregister call that is inside the mutex edits.       *)
LEMMA OnlyEditsChangeTable ==
  ASSUME [Next]_vars, table' # table
  PROVE \E t \in Threads : Edit(t) /\ pc[t] = "edit"
BY DEF Next, vars, Call, Post, CallRegister, CallUnregister, ObtainForEdit, EventTaskStep,
       Receive, DispatchObtain, SkipSlot, CallHandler, HandlerReturns, DispatchEnds,
       Edit, Register, Unregister, EditReturns

(* A dispatch pass has the handler table to itself.                         *)
THEOREM PassOwnsTableHolds == Spec => PassOwnsTable
<1> DEFINE Owns == (phase \in {"scan", "handler"} /\ table' # table)
                     => (phase = "handler" /\ pc[EventTask] = "edit")
<1>1. LoopInv /\ [Next]_vars => Owns
  <2> SUFFICES ASSUME LoopInv, [Next]_vars, phase \in {"scan", "handler"}, table' # table
               PROVE phase = "handler" /\ pc[EventTask] = "edit"
    OBVIOUS
  <2>1. PICK t \in Threads : pc[t] = "edit"
    BY OnlyEditsChangeTable
  <2>2. t = EventTask
    BY <2>1, ConstantsAssumption
       DEF ConstantsAssumption, LoopInv, MutexAccounting, Threads
  <2> QED
    BY <2>1, <2>2 DEF LoopInv, CallAccounting
<1>2. LoopInv /\ [Next]_vars => [Owns]_vars
  BY <1>1
<1> QED
  BY InitLoopInv, NextLoopInv, <1>2, PTL DEF Spec, PassOwnsTable

(* When an unregister call of another task returns, its handler is neither   *)
(* running for that registration nor left in any slot.                      *)
THEOREM UnregisterIsFinalHolds == Spec => UnregisterIsFinal
<1> DEFINE Final(t) == pc[t] = "edit" /\ pc'[t] = "idle" /\ req[t].op = "unregister"
                         => /\ running' # req[t].sub
                            /\ \A s \in Slots : table'[s] # req[t].sub
<1>1. ASSUME LoopInv, [Next]_vars, NEW t \in Clients
      PROVE Final(t)
  <2> SUFFICES ASSUME pc[t] = "edit", pc'[t] = "idle", req[t].op = "unregister"
               PROVE /\ running' # req[t].sub
                     /\ \A s \in Slots : table'[s] # req[t].sub
    OBVIOUS
  <2> USE <1>1, ConstantsAssumption DEF ConstantsAssumption, LoopInv, Threads
  <2>1. req[t] \in Requests /\ req[t].sub # None
    BY DEF TypeOK, CallAccounting, Requests
  (* The caller holds the mutex, so no pass is in progress.                  *)
  <2>2. running = None
    BY DEF MutexAccounting, PassAccounting, TypeOK
  <2>3. Unregister(t)
    <3>1. PICK u \in Threads : Call(u) \/ ObtainForEdit(u) \/ Edit(u)
      BY DEF Next, vars, EventTaskStep, Receive, DispatchObtain, SkipSlot, CallHandler,
             HandlerReturns, DispatchEnds, callVars
    <3>2. CASE u = t
      BY <3>1, <3>2 DEF Call, Post, CallRegister, CallUnregister, MayCall, ObtainForEdit,
                        Edit, Register, EditReturns
    <3>3. CASE u # t
      BY <3>1, <3>3 DEF Call, Post, CallRegister, CallUnregister, callVars, ObtainForEdit,
                        Edit, Register, Unregister, EditReturns, TypeOK
    <3> QED
      BY <3>2, <3>3
  <2>4. running' = None
    BY <2>2, <2>3 DEF Unregister, EditReturns, taskVars
  <2> QED
    BY <2>1, <2>3, <2>4 DEF Unregister
<1>2. LoopInv /\ [Next]_vars => [\A t \in Clients : Final(t)]_vars
  BY <1>1
<1> QED
  BY InitLoopInv, NextLoopInv, <1>2, PTL DEF Spec, UnregisterIsFinal
------------------------------------------------------------------------------
(* Every step of the event loop is a step of the bus, or none.  Of the bus:   *)
(* the events it holds, the one it delivers, the places owed it, the place    *)
(* that hears it.                                                           *)
Pending == IF phase = "obtain" THEN <<msg>> \o queue ELSE queue
Active == IF Scanning THEN msg ELSE None
Owed == IF Scanning THEN {s \in Ahead : Hit(s)} ELSE {}
Hearing == IF phase = "handler" THEN slot ELSE None

LEMMA InitIsBusInit == Init => Bus!BusInit
BY DEF Init, Bus!BusInit, Scanning

(* What the bus sees is unchanged when none of this changes.                *)
LEMMA BusUnchanged ==
  ASSUME UNCHANGED <<queue, table, phase, msg, slot>>
  PROVE UNCHANGED Bus!busVars
BY DEF Bus!busVars, Scanning, Ahead, Hit, Matches

LEMMA PostIsAccept ==
  ASSUME LoopInv, NEW t \in Threads, NEW event \in Events, Post(t, event)
  PROVE Bus!BusNext \/ UNCHANGED Bus!busVars
<1> USE DEF Post, taskVars
<1>1. CASE queue' = queue
  BY <1>1, BusUnchanged
<1>2. CASE queue' = Append(queue, event)
  <2>1. queue \in Seq(Events) /\ msg \in Events \union {None}
    BY DEF LoopInv, TypeOK
  <2>2. <<msg>> \o Append(queue, event) = Append(<<msg>> \o queue, event)
    BY <2>1
  <2>3. Pending' = Append(Pending, event)
    BY <1>2, <2>2 DEF Pending
  <2>4. UNCHANGED <<Active, table, Owed, Hearing>>
    BY DEF Active, Owed, Hearing, Scanning, Ahead, Hit, Matches
  <2>5. Bus!Accept(event)
    BY <2>3, <2>4 DEF Bus!Accept, Pending, Active, Owed, Hearing
  <2> QED
    BY <2>5 DEF Bus!BusNext
<1> QED
  BY <1>1, <1>2

(* An edit comes from a client between passes, or from the running handler.  *)
LEMMA EditorMayEdit ==
  ASSUME LoopInv, NEW t \in Threads, pc[t] = "edit"
  PROVE /\ Active = None \/ Hearing # None
        /\ Scanning => phase = "handler"
<1> USE ConstantsAssumption
    DEF ConstantsAssumption, LoopInv, Threads, Active, Hearing, Scanning
<1>1. CASE t \in Clients
  BY <1>1 DEF MutexAccounting, TypeOK
<1>2. CASE t = EventTask
  BY <1>2 DEF CallAccounting, PassAccounting, TypeOK
<1> QED
  BY <1>1, <1>2

LEMMA RegisterIsSubscribe ==
  ASSUME LoopInv, NEW t \in Threads, Register(t)
  PROVE Bus!BusNext \/ UNCHANGED Bus!busVars
<1> USE ConstantsAssumption
    DEF ConstantsAssumption, Register, EditReturns, taskVars, LoopInv
<1>1. CASE UNCHANGED table
  BY <1>1, BusUnchanged
<1>2. CASE \E s \in Slots : FirstFree(s) /\ table' = [table EXCEPT ![s] = req[t].sub]
  <2>1. PICK s \in Slots : FirstFree(s) /\ table' = [table EXCEPT ![s] = req[t].sub]
    BY <1>2
  <2> DEFINE sub == req[t].sub
  <2>2. sub \in Subscriptions /\ sub # None
    BY DEF TypeOK, CallAccounting, Requests
  <2>3. table[s] = None /\ table \in [Slots -> Subscriptions \union {None}]
    BY <2>1 DEF FirstFree, FreeSlots, TypeOK
  <2>4. \/ Owed' = Owed
        \/ Active # None /\ Matches(sub, Active) /\ Owed' = Owed \union {s}
    <3>1. CASE ~Scanning
      BY <3>1 DEF Owed, Scanning
    <3>2. CASE Scanning
      <4>1. phase = "handler" /\ Active = msg /\ msg # None
        BY <3>2, EditorMayEdit DEF Active, PassAccounting, Scanning
      <4>2. \A r \in Slots \ {s} : Hit(r)' <=> Hit(r)
        BY <2>1, <2>3 DEF Hit, Matches
      <4>3. ~Hit(s) /\ (Hit(s)' <=> Matches(sub, msg))
        BY <2>1, <2>2, <2>3 DEF Hit, Matches
      <4>4. Ahead' = Ahead /\ Scanning'
        BY <3>2 DEF Ahead, Scanning
      <4>5. Owed = {r \in Ahead : Hit(r)} /\ Owed' = {r \in Ahead : Hit(r)'}
        BY <3>2, <4>4 DEF Owed
      <4>6. CASE s \in Ahead /\ Matches(sub, msg)
        BY <4>1, <4>2, <4>3, <4>5, <4>6 DEF Ahead
      <4>7. CASE ~(s \in Ahead /\ Matches(sub, msg))
        BY <4>2, <4>3, <4>5, <4>7 DEF Ahead
      <4> QED
        BY <4>6, <4>7
    <3> QED
      BY <3>1, <3>2
  <2>5. UNCHANGED <<Pending, Active, Hearing>>
    BY DEF Pending, Active, Hearing, Scanning
  <2>6. Bus!Subscribe(s, sub)
    BY <2>1, <2>3, <2>4, <2>5, EditorMayEdit
       DEF Bus!Subscribe, Bus!MayEdit, Bus!Wants, Matches, Pending, Active, Owed, Hearing
  <2> QED
    BY <2>2, <2>6 DEF Bus!BusNext
<1> QED
  BY <1>1, <1>2

LEMMA UnregisterIsUnsubscribe ==
  ASSUME LoopInv, NEW t \in Threads, Unregister(t)
  PROVE Bus!BusNext \/ UNCHANGED Bus!busVars
<1> USE ConstantsAssumption
    DEF ConstantsAssumption, Unregister, EditReturns, taskVars, LoopInv
<1> DEFINE sub == req[t].sub
<1>1. sub \in Subscriptions /\ sub # None
  BY DEF TypeOK, CallAccounting, Requests
<1>2. \A r \in Slots : Hit(r)' <=> Hit(r) /\ table[r] # sub
  BY <1>1 DEF Hit, Matches
<1>3. Owed' = {r \in Owed : table[r] # sub}
  <2>1. Ahead' = Ahead /\ (Scanning' <=> Scanning) /\ Ahead \subseteq Slots
    BY DEF Ahead, Scanning
  <2> QED
    BY <1>2, <2>1 DEF Owed
<1>4. UNCHANGED <<Pending, Active, Hearing>>
  BY DEF Pending, Active, Hearing, Scanning
<1>5. Bus!Unsubscribe(sub)
  BY <1>3, <1>4, EditorMayEdit
     DEF Bus!Unsubscribe, Bus!MayEdit, Pending, Active, Owed, Hearing
<1> QED
  BY <1>1, <1>5 DEF Bus!BusNext

(* Taking an event from the queue leaves it the first pending one.          *)
LEMMA ReceiveIsStutter ==
  ASSUME LoopInv, Receive
  PROVE UNCHANGED Bus!busVars
<1> USE DEF Receive, callVars
<1>1. <<Head(queue)>> \o Tail(queue) = queue
  BY DEF LoopInv, TypeOK
<1>2. UNCHANGED <<Pending, Active, table, Owed, Hearing>>
  BY <1>1 DEF Pending, Active, Owed, Hearing, Scanning
<1> QED
  BY <1>2 DEF Bus!busVars, Pending, Active, Owed, Hearing

LEMMA DispatchObtainIsBegin ==
  ASSUME LoopInv, DispatchObtain
  PROVE Bus!Begin
<1> USE ConstantsAssumption DEF ConstantsAssumption, DispatchObtain, callVars, LoopInv
<1>1. Active = None /\ Pending = <<msg>> \o queue /\ msg \in Events /\ queue \in Seq(Events)
  BY DEF Active, Pending, Scanning, TypeOK, PassAccounting
<1>2. Pending # <<>> /\ Head(Pending) = msg /\ Tail(Pending) = queue
  BY <1>1
<1>3. Pending' = queue /\ Active' = msg /\ UNCHANGED <<table, Hearing>>
  BY DEF Pending, Active, Hearing, Scanning
<1>4. Owed' = {s \in Slots : table[s] # None /\ Matches(table[s], msg)}
  BY DEF Owed, Ahead, Scanning, Hit, Slots, Matches
<1> QED
  BY <1>1, <1>2, <1>3, <1>4
     DEF Bus!Begin, Bus!Wants, Matches, Pending, Active, Owed, Hearing

LEMMA SkipSlotIsStutter ==
  ASSUME LoopInv, SkipSlot
  PROVE UNCHANGED Bus!busVars
<1> USE DEF SkipSlot, callVars
<1>1. {s \in Ahead' : Hit(s)} = {s \in Ahead : Hit(s)}
  BY DEF Ahead, Slots
<1>2. Owed' = Owed
  BY <1>1 DEF Owed, Scanning, Hit, Matches
<1>3. UNCHANGED <<Pending, Active, table, Hearing>>
  BY DEF Pending, Active, Hearing, Scanning
<1> QED
  BY <1>2, <1>3 DEF Bus!busVars, Pending, Active, Owed, Hearing

LEMMA CallHandlerIsHear ==
  ASSUME LoopInv, CallHandler
  PROVE Bus!Hear(slot)
<1> USE DEF CallHandler, callVars
<1>1. slot \in Owed /\ Hearing = None
  BY DEF Owed, Hearing, Ahead, Scanning
<1>2. Owed' = Owed \ {slot}
  BY DEF Owed, Ahead, Scanning, Slots, Hit, Matches
<1>3. Hearing' = slot /\ UNCHANGED <<Pending, Active, table>>
  BY DEF Pending, Active, Hearing, Scanning
<1> QED
  BY <1>1, <1>2, <1>3 DEF Bus!Hear, Pending, Active, Owed, Hearing

LEMMA HandlerReturnsIsHeard ==
  ASSUME LoopInv, HandlerReturns
  PROVE Bus!Heard
<1> USE ConstantsAssumption
    DEF ConstantsAssumption, HandlerReturns, callVars, LoopInv
<1>1. slot \in Slots /\ Hearing = slot /\ Hearing' = None
  BY DEF Hearing, PassAccounting
<1>2. Owed' = Owed
  BY <1>1 DEF Owed, Ahead, Scanning, Slots, Hit, Matches
<1>3. UNCHANGED <<Pending, Active, table>>
  BY DEF Pending, Active, Scanning
<1> QED
  BY <1>1, <1>2, <1>3 DEF Bus!Heard, Pending, Active, Owed, Hearing

LEMMA DispatchEndsIsFinish ==
  ASSUME LoopInv, DispatchEnds
  PROVE Bus!Finish
<1> USE DEF DispatchEnds, callVars, LoopInv
<1>1. Active # None /\ Active' = None
  BY DEF Active, Scanning, PassAccounting
<1>2. Owed = {} /\ Owed' = {}
  <2>1. slot = HANDLERS + 1
    BY ConstantsAssumption DEF ConstantsAssumption, PassAccounting, Slots
  <2> QED
    BY <2>1, ConstantsAssumption DEF ConstantsAssumption, Owed, Ahead, Scanning, Slots
<1>3. Hearing = None /\ UNCHANGED <<Pending, table, Hearing>>
  BY DEF Pending, Hearing
<1> QED
  BY <1>1, <1>2, <1>3 DEF Bus!Finish, Pending, Active, Owed, Hearing

LEMMA NextIsBusNext == LoopInv /\ [Next]_vars => [Bus!BusNext]_(Bus!busVars)
<1> SUFFICES ASSUME LoopInv, [Next]_vars
             PROVE Bus!BusNext \/ UNCHANGED Bus!busVars
  OBVIOUS
<1>1. CASE UNCHANGED vars
  BY <1>1, BusUnchanged DEF vars
<1>2. CASE \E t \in Threads : Call(t) \/ ObtainForEdit(t) \/ Edit(t)
  <2>1. PICK t \in Threads : Call(t) \/ ObtainForEdit(t) \/ Edit(t)
    BY <1>2
  <2>2. CASE \E event \in Events : Post(t, event)
    BY <2>2, PostIsAccept
  <2>3. CASE \E sub \in Subscriptions : CallRegister(t, sub) \/ CallUnregister(t, sub)
    BY <2>3, BusUnchanged DEF CallRegister, CallUnregister, taskVars
  <2>4. CASE ObtainForEdit(t)
    BY <2>4, BusUnchanged DEF ObtainForEdit, taskVars
  <2>5. CASE Edit(t)
    BY <2>5, RegisterIsSubscribe, UnregisterIsUnsubscribe DEF Edit
  <2> QED
    BY <2>1, <2>2, <2>3, <2>4, <2>5 DEF Call
<1>3. CASE EventTaskStep
  <2>1. CASE Receive
    BY <2>1, ReceiveIsStutter
  <2>2. CASE DispatchObtain
    BY <2>2, DispatchObtainIsBegin DEF Bus!BusNext
  <2>3. CASE SkipSlot
    BY <2>3, SkipSlotIsStutter
  <2>4. CASE CallHandler
    BY <2>4, CallHandlerIsHear DEF Bus!BusNext, CallHandler
  <2>5. CASE HandlerReturns
    BY <2>5, HandlerReturnsIsHeard DEF Bus!BusNext
  <2>6. CASE DispatchEnds
    BY <2>6, DispatchEndsIsFinish DEF Bus!BusNext
  <2> QED
    BY <1>3, <2>1, <2>2, <2>3, <2>4, <2>5, <2>6 DEF EventTaskStep
<1> QED
  BY <1>1, <1>2, <1>3 DEF Next

(* The event loop implements the bus: accepted events are dispatched one at  *)
(* a time in the order they were accepted and reach every handler that is    *)
(* owed them exactly once.                                                  *)
THEOREM LoopImplementsBus == Spec => ImplementsBus
<1> QED
  BY InitLoopInv, NextLoopInv, InitIsBusInit, NextIsBusNext, PTL
     DEF Spec, ImplementsBus, Bus!BusSpec
==============================================================================
