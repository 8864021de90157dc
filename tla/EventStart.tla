------------------------------ MODULE EventStart ------------------------------
(***************************************************************************)
(* rtems_esp_event_start(), one RTEMS call at a time: the lazy creation of  *)
(* the mutex, the queue and the event task, its error paths, and what the   *)
(* three global ids mean to the calls that use them.                        *)
(*                                                                          *)
(* A caller can be preempted between any two RTEMS calls.  Object ids are   *)
(* numbers handed out in order; 0 is no object.                             *)
(***************************************************************************)
EXTENDS Integers, FiniteSets

CONSTANTS
  Callers,      \* tasks that register, unregister and post
  QUEUE_DEPTH,  \* RTEMS_ESP_EVENT_QUEUE_DEPTH
  MaxObjects,   \* bound: objects ever created
  MaxFailures   \* bound: creations refused for want of memory

ASSUME StartAssumption ==
  /\ QUEUE_DEPTH \in Nat \ {0}
  /\ MaxObjects \in Nat
  /\ MaxFailures \in Nat

Ids == 1 .. MaxObjects

VARIABLES
  mutex,      \* rtems_esp_event_mutex
  queue,      \* rtems_esp_event_queue
  task,       \* rtems_esp_event_task
  created,    \* number of objects created so far, the last id handed out
  live,       \* ids of objects that exist
  started,    \* ids of event tasks that run rtems_esp_event_body()
  inbox,      \* messages in each queue
  listens,    \* the queue each event task is blocked on, 0 if on none
  pc,         \* where each caller is
  op,         \* the call it is making
  holds,      \* the mutex it holds while it edits the table, 0 if none
  failures

vars == <<mutex, queue, task, created, live, started, inbox, listens, pc, op, holds, failures>>

ids == <<mutex, queue, task>>
objects == <<created, live, started>>
others == <<inbox, listens, holds>>

Init ==
  /\ mutex = 0 /\ queue = 0 /\ task = 0
  /\ created = 0
  /\ live = {}
  /\ started = {}
  /\ inbox = [q \in Ids |-> 0]
  /\ listens = [e \in Ids |-> 0]
  /\ pc = [c \in Callers |-> "idle"]
  /\ op = [c \in Callers |-> "none"]
  /\ holds = [c \in Callers |-> 0]
  /\ failures = 0

Goto(c, label) == pc' = [pc EXCEPT ![c] = label]

Return(c) == Goto(c, "idle") /\ op' = [op EXCEPT ![c] = "none"]

(* register always enters start(); post only when there is no task yet;      *)
(* unregister never does.                                                   *)
Call(c, o) ==
  /\ pc[c] = "idle"
  /\ op' = [op EXCEPT ![c] = o]
  /\ CASE o = "register" -> Goto(c, "check")
       [] o = "post" -> Goto(c, IF task = 0 THEN "check" ELSE "send")
       [] o = "unregister" -> mutex # 0 /\ Goto(c, "obtain")
  /\ UNCHANGED <<ids, objects, others, failures>>

AfterStart(c) == IF op[c] = "register" THEN "obtain" ELSE "send"

Check(c) ==
  /\ pc[c] = "check"
  /\ Goto(c, IF task # 0 THEN AfterStart(c) ELSE "mutex")
  /\ UNCHANGED <<ids, objects, others, op, failures>>

(* A create call that succeeds hands out the next id and stores it.         *)
Create ==
  /\ created < MaxObjects
  /\ created' = created + 1
  /\ live' = live \union {created'}
  /\ UNCHANGED <<started, others, op, failures>>

CreateFails ==
  /\ \/ failures < MaxFailures /\ failures' = failures + 1
     \/ created = MaxObjects /\ UNCHANGED failures
  /\ UNCHANGED <<created, others>>

CreateMutex(c) ==
  /\ pc[c] = "mutex"
  /\ Create
  /\ mutex' = created'
  /\ Goto(c, "queue")
  /\ UNCHANGED <<queue, task>>

MutexFails(c) ==
  /\ pc[c] = "mutex"
  /\ CreateFails
  /\ Return(c)
  /\ UNCHANGED <<ids, live, started>>

CreateQueue(c) ==
  /\ pc[c] = "queue"
  /\ Create
  /\ queue' = created'
  /\ Goto(c, "task")
  /\ UNCHANGED <<mutex, task>>

(* Mutant: the mutex outlives a queue that could not be created.            *)
QueueFailsLeaks(c) ==
  /\ pc[c] = "queue"
  /\ CreateFails
  /\ Return(c)
  /\ UNCHANGED <<ids, live, started>>

(* The error paths delete whatever the globals name, and reset only the task. *)
QueueFails(c) ==
  /\ pc[c] = "queue"
  /\ CreateFails
  /\ live' = live \ {mutex}
  /\ Return(c)
  /\ UNCHANGED <<ids, started>>

CreateTask(c) ==
  /\ pc[c] = "task"
  /\ Create
  /\ task' = created'
  /\ Goto(c, "start")
  /\ UNCHANGED <<mutex, queue>>

TaskFails(c) ==
  /\ pc[c] = "task"
  /\ CreateFails
  /\ live' = live \ {queue, mutex}
  /\ task' = 0
  /\ Return(c)
  /\ UNCHANGED <<mutex, queue, started>>

(* rtems_task_start() accepts a task that exists and was never started.     *)
Startable == task \in live \ started

(* Mutant: the task is created and not started.                             *)
StartTaskForgotten(c) ==
  /\ pc[c] = "start"
  /\ Startable
  /\ Goto(c, AfterStart(c))
  /\ UNCHANGED <<ids, objects, others, op, failures>>

StartTask(c) ==
  /\ pc[c] = "start"
  /\ Startable
  /\ started' = started \union {task}
  /\ Goto(c, AfterStart(c))
  /\ UNCHANGED <<ids, created, live, others, op, failures>>

StartFails(c) ==
  /\ pc[c] = "start"
  /\ \/ ~Startable /\ UNCHANGED failures
     \/ failures < MaxFailures /\ failures' = failures + 1
  /\ live' = live \ {task, queue, mutex}
  /\ started' = started \ {task}
  /\ task' = 0
  /\ Return(c)
  /\ UNCHANGED <<mutex, queue, created, others>>

------------------------------------------------------------------------------
(* What the calls do with the ids.                                          *)

Send(c) ==
  /\ pc[c] = "send"
  /\ inbox' = IF queue \in live /\ inbox[queue] < QUEUE_DEPTH
                THEN [inbox EXCEPT ![queue] = @ + 1]
                ELSE inbox
  /\ Return(c)
  /\ UNCHANGED <<ids, objects, listens, holds, failures>>

(* The result of rtems_semaphore_obtain() is ignored: on an id that names    *)
(* nothing it fails at once and the edit goes ahead.                        *)
Editing(c) == pc[c] = "edit"

Obtain(c) ==
  /\ pc[c] = "obtain"
  /\ mutex \in live => \A d \in Callers : holds[d] # mutex
  /\ holds' = [holds EXCEPT ![c] = IF mutex \in live THEN mutex ELSE 0]
  /\ Goto(c, "edit")
  /\ UNCHANGED <<ids, objects, inbox, listens, op, failures>>

Edit(c) ==
  /\ Editing(c)
  /\ holds' = [holds EXCEPT ![c] = 0]
  /\ Return(c)
  /\ UNCHANGED <<ids, objects, inbox, listens, failures>>

(* The body reads the global queue id before each receive and blocks on it;  *)
(* a receive that fails is logged and retried.                              *)
Listen(e) ==
  /\ e \in started
  /\ listens[e] = 0
  /\ queue \in live
  /\ listens' = [listens EXCEPT ![e] = queue]
  /\ UNCHANGED <<ids, objects, inbox, pc, op, holds, failures>>

Receive(e) ==
  /\ e \in started
  /\ listens[e] # 0
  /\ listens[e] \in live => inbox[listens[e]] > 0
  /\ listens' = [listens EXCEPT ![e] = 0]
  /\ inbox' = IF listens[e] \in live
                THEN [inbox EXCEPT ![listens[e]] = @ - 1]
                ELSE inbox
  /\ UNCHANGED <<ids, objects, pc, op, holds, failures>>

StartStep(c) ==
  \/ Check(c)
  \/ CreateMutex(c) \/ MutexFails(c)
  \/ CreateQueue(c) \/ QueueFails(c)
  \/ CreateTask(c) \/ TaskFails(c)
  \/ StartTask(c) \/ StartFails(c)

Next ==
  \/ \E c \in Callers :
       \/ \E o \in {"register", "unregister", "post"} : Call(c, o)
       \/ StartStep(c)
       \/ Send(c) \/ Obtain(c) \/ Edit(c)
  \/ \E e \in Ids : Listen(e) \/ Receive(e)

Spec == Init /\ [][Next]_vars

------------------------------------------------------------------------------
(* Ids name objects that were created, queues never overflow.               *)
TypeOK ==
  /\ {mutex, queue, task} \subseteq 0 .. created
  /\ created \in 0 .. MaxObjects
  /\ live \subseteq 1 .. created
  /\ started \subseteq live
  /\ inbox \in [Ids -> 0 .. QUEUE_DEPTH]
  /\ listens \in [Ids -> 0 .. MaxObjects]
  /\ pc \in [Callers -> 
                  {"idle", "check", "mutex", "queue", "task", "start", "send", "obtain", "edit"}]
  /\ holds \in [Callers -> 0 .. MaxObjects]
  /\ failures \in 0 .. MaxFailures

InStart(c) == pc[c] \in {"mutex", "queue", "task", "start"}

(* Starting is all or nothing: outside rtems_esp_event_start() either a      *)
(* running task, its queue and its mutex exist and nothing else, or no       *)
(* object exists and the task id says so, whichever creation failed and      *)
(* however often the start was retried.                                     *)
AllOrNothing ==
  (\A c \in Callers : ~InStart(c))
    => IF task = 0
         THEN live = {}
         ELSE live = {mutex, queue, task} /\ started = {task}

(* The two together: ids and objects stay in range and in step.             *)
StartInv == TypeOK /\ AllOrNothing

(* No event task is ever created beside one that runs.  A comment in         *)
(* src/src/rtems_esp_event.c says that the loop is created on first use      *)
(* because the first registration and esp_wifi_init() may come in either     *)
(* order.                                                                   *)
OneEventTask == Cardinality(started) <= 1

(* An event that was accepted is in a queue some event task receives from.   *)
AcceptedIsServed ==
  \A q \in live : inbox[q] > 0
    => \E e \in started : listens[e] = q \/ (listens[e] = 0 /\ queue = q)
==============================================================================
