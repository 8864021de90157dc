------------------------------ MODULE EventLoop ------------------------------
(***************************************************************************)
(* The default event loop of src/src/rtems_esp_event.c: a bounded message   *)
(* queue filled by anybody who posts, one event task that drains it, a      *)
(* table of handlers, and the mutex that guards the table.                  *)
(*                                                                          *)
(* The WiFi task, the supplicant and the application are the Clients.  A    *)
(* handler is application code run by the event task; it may itself post,   *)
(* register and unregister, so the operations below are also offered to     *)
(* EventTask while a handler runs.                                          *)
(*                                                                          *)
(* The objects are created on first use; here that is one step of the first *)
(* call that needs them (module EventStart takes that step apart).          *)
(***************************************************************************)
EXTENDS Integers, Sequences

CONSTANTS
  Clients,        \* tasks other than the event task that call the API
  EventTask,      \* the task that runs rtems_esp_event_body()
  Events,         \* what is posted: records [base, id]
  Subscriptions,  \* what is registered: records [base, id, handler]
  AnyId,          \* ESP_EVENT_ANY_ID
  HANDLERS,       \* RTEMS_ESP_EVENT_HANDLERS (16 in the code)
  QUEUE_DEPTH,    \* RTEMS_ESP_EVENT_QUEUE_DEPTH (8 in the code)
  None            \* a NULL handler, no owner, no message, no request

Threads == Clients \union {EventTask}

Slots == 1 .. HANDLERS

Requests == [op : {"register", "unregister"}, sub : Subscriptions]

ASSUME ConstantsAssumption ==
  /\ HANDLERS \in Nat \ {0}
  /\ QUEUE_DEPTH \in Nat \ {0}
  /\ EventTask \notin Clients
  /\ None \notin Threads
  /\ None \notin Slots
  /\ None \notin Events
  /\ None \notin Subscriptions
  /\ None \notin Requests

VARIABLES
  started,  \* rtems_esp_event_task # 0: queue, mutex and task exist
  queue,    \* the message queue
  table,    \* rtems_esp_event_handlers[]: a subscription or None per slot
  owner,    \* the task that holds rtems_esp_event_mutex, or None
  depth,    \* how often the owner has obtained it
  pc,       \* where each thread is in a register or unregister call
  req,      \* the arguments of that call
  phase,    \* where the event task is in rtems_esp_event_body()
  msg,      \* the message it took from the queue
  slot,     \* the loop index i of rtems_esp_event_dispatch(), from 1
  running   \* the entry whose handler it is calling, or None

vars == <<started, queue, table, owner, depth, pc, req, phase, msg, slot, running>>

mutexVars == <<owner, depth>>
callVars == <<pc, req>>
taskVars == <<phase, msg, slot, running>>

(* Bases are compared as pointers and ids as integers.                      *)
Matches(entry, event) ==
  /\ entry.base = event.base
  /\ entry.id \in {AnyId, event.id}

(* The tests of the dispatch loop: taken, same base, same id or any.        *)
Hit(s) == table[s] # None /\ Matches(table[s], msg)

FreeSlots == {s \in Slots : table[s] = None}

FirstFree(s) == s \in FreeSlots /\ \A r \in FreeSlots : s <= r

Init ==
  /\ started = FALSE
  /\ queue = <<>>
  /\ table = [s \in Slots |-> None]
  /\ owner = None
  /\ depth = 0
  /\ pc = [t \in Threads |-> "idle"]
  /\ req = [t \in Threads |-> None]
  /\ phase = "receive"
  /\ msg = None
  /\ slot = 0
  /\ running = None

------------------------------------------------------------------------------
(* The API, called by a client or by the handler the event task is running. *)

MayCall(t) ==
  /\ pc[t] = "idle"
  /\ t = EventTask => phase = "handler"

(* rtems_esp_event_post(): copy into the queue if there is room, otherwise   *)
(* drop and say so.  It never waits.                                        *)
Post(t, event) ==
  /\ MayCall(t)
  /\ started' = TRUE
  /\ queue' = IF Len(queue) < QUEUE_DEPTH THEN Append(queue, event) ELSE queue
  /\ UNCHANGED <<table, mutexVars, callVars, taskVars>>

CallRegister(t, sub) ==
  /\ MayCall(t)
  /\ started' = TRUE
  /\ pc' = [pc EXCEPT ![t] = "obtain"]
  /\ req' = [req EXCEPT ![t] = [op |-> "register", sub |-> sub]]
  /\ UNCHANGED <<queue, table, mutexVars, taskVars>>

(* Before the first start there is nothing to unregister and no mutex.      *)
CallUnregister(t, sub) ==
  /\ MayCall(t)
  /\ started
  /\ pc' = [pc EXCEPT ![t] = "obtain"]
  /\ req' = [req EXCEPT ![t] = [op |-> "unregister", sub |-> sub]]
  /\ UNCHANGED <<started, queue, table, mutexVars, taskVars>>

(* rtems_semaphore_obtain() with RTEMS_WAIT on a binary semaphore with       *)
(* priority inheritance: its owner may obtain it again.                     *)
Obtain(t) ==
  /\ owner \in {None, t}
  /\ owner' = t
  /\ depth' = depth + 1

Release(t) ==
  /\ depth' = depth - 1
  /\ owner' = IF depth = 1 THEN None ELSE owner

(* Mutant: register and unregister edit the table without the mutex.        *)
EditUnlocked(t) ==
  /\ pc[t] = "obtain"
  /\ pc' = [pc EXCEPT ![t] = "edit"]
  /\ UNCHANGED <<started, queue, table, mutexVars, req, taskVars>>

ObtainForEdit(t) ==
  /\ pc[t] = "obtain"
  /\ Obtain(t)
  /\ pc' = [pc EXCEPT ![t] = "edit"]
  /\ UNCHANGED <<started, queue, table, req, taskVars>>

EditReturns(t, op) ==
  /\ pc[t] = "edit"
  /\ req[t].op = op
  /\ Release(t)
  /\ pc' = [pc EXCEPT ![t] = "idle"]
  /\ req' = [req EXCEPT ![t] = None]
  /\ UNCHANGED <<started, queue, taskVars>>

(* Mutant: the return on a full table skips the release.                    *)
RegisterFullKeepsMutex(t) ==
  \/ /\ pc[t] = "edit" /\ req[t].op = "register" /\ FreeSlots = {}
     /\ pc' = [pc EXCEPT ![t] = "idle"]
     /\ req' = [req EXCEPT ![t] = None]
     /\ UNCHANGED <<started, queue, table, mutexVars, taskVars>>
  \/ /\ EditReturns(t, "register")
     /\ \E s \in Slots : FirstFree(s) /\ table' = [table EXCEPT ![s] = req[t].sub]

(* The first free slot, or ESP_ERR_NO_MEM.  The same entry may be in the     *)
(* table twice.                                                             *)
Register(t) ==
  /\ EditReturns(t, "register")
  /\ \/ FreeSlots = {} /\ UNCHANGED table
     \/ \E s \in Slots : FirstFree(s) /\ table' = [table EXCEPT ![s] = req[t].sub]

(* Mutant: unregister stops at the first slot that matches.                 *)
UnregisterFirst(t) ==
  /\ EditReturns(t, "unregister")
  /\ table' = [s \in Slots |->
       IF table[s] = req[t].sub /\ \A r \in Slots : r < s => table[r] # req[t].sub
       THEN None ELSE table[s]]

(* Every slot that holds exactly this base, id and handler.                 *)
Unregister(t) ==
  /\ EditReturns(t, "unregister")
  /\ table' = [s \in Slots |-> IF table[s] = req[t].sub THEN None ELSE table[s]]

------------------------------------------------------------------------------
(* The event task.                                                          *)

(* Mutant: the task wakes for a full queue only.                            *)
ReceiveWhenFull ==
  /\ phase = "receive"
  /\ Len(queue) = QUEUE_DEPTH
  /\ msg' = Head(queue)
  /\ queue' = Tail(queue)
  /\ phase' = "obtain"
  /\ UNCHANGED <<started, table, mutexVars, callVars, slot, running>>

Receive ==
  /\ phase = "receive"
  /\ queue # <<>>
  /\ msg' = Head(queue)
  /\ queue' = Tail(queue)
  /\ phase' = "obtain"
  /\ UNCHANGED <<started, table, mutexVars, callVars, slot, running>>

DispatchObtain ==
  /\ phase = "obtain"
  /\ Obtain(EventTask)
  /\ phase' = "scan"
  /\ slot' = 1
  /\ UNCHANGED <<started, queue, table, callVars, msg, running>>

(* The slot's entry is free or does not match: on to the next one.          *)
SkipSlot ==
  /\ phase = "scan"
  /\ slot \in Slots
  /\ ~Hit(slot)
  /\ slot' = slot + 1
  /\ UNCHANGED <<started, queue, table, mutexVars, callVars, phase, msg, running>>

CallHandler ==
  /\ phase = "scan"
  /\ slot \in Slots
  /\ Hit(slot)
  /\ phase' = "handler"
  /\ running' = table[slot]
  /\ UNCHANGED <<started, queue, table, mutexVars, callVars, msg, slot>>

(* Mutant: the loop does not advance after a call.                          *)
HandlerReturnsSameSlot ==
  /\ phase = "handler"
  /\ pc[EventTask] = "idle"
  /\ phase' = "scan"
  /\ running' = None
  /\ UNCHANGED <<started, queue, table, mutexVars, callVars, msg, slot>>

HandlerReturns ==
  /\ phase = "handler"
  /\ pc[EventTask] = "idle"
  /\ phase' = "scan"
  /\ slot' = slot + 1
  /\ running' = None
  /\ UNCHANGED <<started, queue, table, mutexVars, callVars, msg>>

DispatchEnds ==
  /\ phase = "scan"
  /\ slot \notin Slots
  /\ Release(EventTask)
  /\ phase' = "receive"
  /\ msg' = None
  /\ slot' = 0
  /\ UNCHANGED <<started, queue, table, callVars, running>>

------------------------------------------------------------------------------
Call(t) ==
  \/ \E event \in Events : Post(t, event)
  \/ \E sub \in Subscriptions : CallRegister(t, sub) \/ CallUnregister(t, sub)

Edit(t) == Register(t) \/ Unregister(t)

EventTaskStep ==
  \/ Receive
  \/ DispatchObtain
  \/ SkipSlot
  \/ CallHandler
  \/ HandlerReturns
  \/ DispatchEnds

Next ==
  \/ \E t \in Threads : Call(t) \/ ObtainForEdit(t) \/ Edit(t)
  \/ EventTaskStep

(* The event task is runnable whenever it is not blocked, nothing above it   *)
(* runs forever, the mutex is handed to a waiter when it is released, and a  *)
(* handler is expected to return however often it called the API: strong     *)
(* fairness of each task once it is in a call or a pass.  Nobody is obliged  *)
(* to make a call.                                                           *)
Fairness ==
  /\ SF_vars(EventTaskStep)
  /\ \A t \in Threads : SF_vars(ObtainForEdit(t) \/ Edit(t))

Spec == Init /\ [][Next]_vars

FairSpec == Spec /\ Fairness

------------------------------------------------------------------------------
(* Every variable stays in its range; the queue never exceeds its depth.    *)
TypeOK ==
  /\ started \in BOOLEAN
  /\ queue \in Seq(Events)
  /\ Len(queue) <= QUEUE_DEPTH
  /\ table \in [Slots -> Subscriptions \union {None}]
  /\ owner \in Threads \union {None}
  /\ depth \in 0 .. 2
  /\ pc \in [Threads -> {"idle", "obtain", "edit"}]
  /\ req \in [Threads -> Requests \union {None}]
  /\ phase \in {"receive", "obtain", "scan", "handler"}
  /\ msg \in Events \union {None}
  /\ slot \in 0 .. HANDLERS + 1
  /\ running \in Subscriptions \union {None}

(* A dispatch pass has the handler table to itself: from the moment the      *)
(* event task has locked it until it has called the last matching handler,  *)
(* the table changes only by calls the running handler itself makes.  This  *)
(* is what rtems_esp_event_mutex is for.                                    *)
PassOwnsTable ==
  [][(phase \in {"scan", "handler"} /\ table' # table)
       => (phase = "handler" /\ pc[EventTask] = "edit")]_vars

(* Unregistering is final: when esp_event_handler_unregister() returns to a  *)
(* task other than the event task, the handler is not being called for that *)
(* registration and no slot is left that could call it, so the caller may    *)
(* free what the handler uses.                                              *)
UnregisterIsFinal ==
  [][\A t \in Clients :
       pc[t] = "edit" /\ pc'[t] = "idle" /\ req[t].op = "unregister"
         => /\ running' # req[t].sub
            /\ \A s \in Slots : table'[s] # req[t].sub]_vars

(* The mutex is free when nobody is inside, and is held by exactly the task  *)
(* that scans or edits; a handler that edits holds it twice.                *)
MutexAccounting ==
  /\ owner = None <=> depth = 0
  /\ \A t \in Clients : pc[t] = "edit" <=> owner = t
  /\ phase \in {"scan", "handler"} <=> owner = EventTask
  /\ owner = EventTask => depth = IF pc[EventTask] = "edit" THEN 2 ELSE 1
  /\ owner \in Clients => depth = 1

(* A request exists exactly while a call is in progress, and the event task  *)
(* makes calls only from a handler.                                         *)
CallAccounting ==
  /\ \A t \in Threads : pc[t] = "idle" <=> req[t] = None
  /\ pc[EventTask] # "idle" => phase = "handler"

(* The event task holds an event from receive to the end of the pass and a   *)
(* table entry while its handler runs, and its loop index is in the table.   *)
PassAccounting ==
  /\ phase = "receive" <=> msg = None
  /\ phase = "handler" <=> running # None
  /\ phase = "scan" => slot \in 1 .. HANDLERS + 1
  /\ phase = "handler" => slot \in Slots

(* The accounting and the types together are inductive; neither is alone.    *)
(* The mutual exclusion of passes and edits rests on them.                   *)
LoopInv == TypeOK /\ MutexAccounting /\ CallAccounting /\ PassAccounting

(* The loop implements the bus: an event taken from the queue but not yet    *)
(* locked for is still pending, it is active while the pass runs, and the    *)
(* slots the scan has yet to reach are the ones it is still owed by.         *)
Scanning == phase \in {"scan", "handler"}

Ahead == {s \in Slots : s > slot \/ (s = slot /\ phase = "scan")}

Bus == INSTANCE EventBus WITH
  Places <- Slots,
  pending <- IF phase = "obtain" THEN <<msg>> \o queue ELSE queue,
  active <- IF Scanning THEN msg ELSE None,
  subs <- table,
  owed <- IF Scanning THEN {s \in Ahead : Hit(s)} ELSE {},
  hearing <- IF phase = "handler" THEN slot ELSE None

(* Accepted events are dispatched one at a time in the order they were       *)
(* accepted, and each reaches every handler that is owed it exactly once,    *)
(* whatever is registered, unregistered and posted meanwhile.               *)
ImplementsBus == Bus!BusSpec

------------------------------------------------------------------------------
(* Accepted events are served: the task never sleeps on a queue that has     *)
(* something in it, and every pass it begins ends, whatever the handlers and *)
(* the clients register.                                                    *)
EventsAreServed ==
  /\ queue # <<>> ~> phase = "obtain"
  /\ phase = "obtain" ~> phase = "receive"

(* A register or unregister call returns, from a client that must wait for   *)
(* the pass in progress and from a handler that already holds the mutex.    *)
CallsReturn == \A t \in Threads : pc[t] = "obtain" ~> pc[t] = "idle"
==============================================================================
