------------------------------- MODULE WifiTask --------------------------------
(***************************************************************************)
(* The WiFi task of the radio libraries, on what rtems_wifi_os_adapter.c     *)
(* gives them: the task itself, the queue it receives from (OsQueue), and    *)
(* the semaphore of each thread that posts a request to it and waits for the *)
(* answer.  RTEMS ids are used again once they are deleted.                  *)
(*                                                                          *)
(* The libraries make the queue, then the task; they stop the task with a    *)
(* request when no other is under way, and delete the queue when it is gone. *)
(***************************************************************************)
EXTENDS OsQueue

CONSTANTS
  Callers,     \* threads that call the libraries
  Semaphores,  \* ids of RTEMS semaphores
  wifiTask,    \* the task that receives
  None         \* no semaphore, no request

ASSUME WifiTaskAssumption ==
  Tasks = {wifiTask} /\ None \notin Semaphores /\ None \notin Nat

VARIABLES
  service,    \* where the libraries are with the task
  task,       \* the RTEMS task: none, dormant, running
  own,        \* of each thread: what pthread_getspecific() returns
  count,      \* of each semaphore id: its count, None if it does not exist
  pc,         \* of each thread: where it is in its call
  held,       \* of each thread: the semaphore its call uses
  request,    \* of each thread: the message it waits for
  patient,    \* of each thread: it waits for ever
  to,         \* of each message: the semaphore it carries
  stop,       \* the message that stops the task
  served,     \* how many of the received messages are answered
  told,       \* history: messages whose take returned RTEMS_WIFI_PD_TRUE
  abandoned,  \* history: a thread stopped waiting for an accepted message
  unkept      \* history: pthread_setspecific() failed

creator == <<service, task>>
threads == <<own, pc, held, request, patient>>
answers == <<served, told, abandoned, unkept>>
serviceVars == <<creator, threads, count, to, stop, answers>>
wifiVars == <<vars, serviceVars>>

WifiInit ==
  /\ Init
  /\ service = "down" /\ task = "none"
  /\ own = [c \in Callers |-> None]
  /\ count = [s \in Semaphores |-> None]
  /\ pc = [c \in Callers |-> "idle"]
  /\ held = [c \in Callers |-> None]
  /\ request = [c \in Callers |-> None]
  /\ patient = [c \in Callers |-> FALSE]
  /\ to = <<>> /\ stop = None
  /\ served = 0 /\ told = {}
  /\ abandoned = FALSE /\ unkept = FALSE

Go(from, to_) == service = from /\ service' = to_

------------------------------------------------------------------------------
(* The queue comes first and goes last.                                     *)
MakeQueue == service = "down" /\ Create /\ UNCHANGED serviceVars

DropQueue ==
  /\ \/ service = "failed"
     \/ service = "stopping" /\ task = "none"
  /\ \A c \in Callers : pc[c] = "idle"
  /\ Delete
  /\ service' = IF life' = "none" THEN "down" ELSE service
  /\ UNCHANGED <<task, threads, count, to, stop, answers>>

(* rtems_wifi_task_create(): created, started, and only then the handle is   *)
(* published; a task that cannot be started is deleted again.                *)
CreateTask ==
  /\ life = "ready"
  /\ Go("down", "starting")
  /\ task' = "dormant"
  /\ UNCHANGED <<vars, threads, count, to, stop, answers>>

CreateTaskFails ==
  /\ life = "ready"
  /\ Go("down", "failed")
  /\ UNCHANGED <<vars, task, threads, count, to, stop, answers>>

StartTask ==
  /\ Go("starting", "publishing")
  /\ task' = "running"
  /\ UNCHANGED <<vars, threads, count, to, stop, answers>>

(* Mutant: the task that could not be started is announced all the same.    *)
StartTaskFailsAnswersPass ==
  /\ Go("starting", "publishing")
  /\ task' = "none"
  /\ UNCHANGED <<vars, threads, count, to, stop, answers>>

StartTaskFails ==
  /\ Go("starting", "failed")
  /\ task' = "none"
  /\ UNCHANGED <<vars, threads, count, to, stop, answers>>

PublishHandle ==
  /\ Go("publishing", "up")
  /\ UNCHANGED <<vars, task, threads, count, to, stop, answers>>

Start ==
  CreateTask \/ CreateTaskFails \/ StartTask \/ StartTaskFails \/ PublishHandle

------------------------------------------------------------------------------
Step(c, from, to_) == pc[c] = from /\ pc' = [pc EXCEPT ![c] = to_]

(* The call is over, and what it used is forgotten.                         *)
Return(c, from) ==
  /\ Step(c, from, "idle")
  /\ held' = [held EXCEPT ![c] = None]
  /\ request' = [request EXCEPT ![c] = None]
  /\ patient' = [patient EXCEPT ![c] = FALSE]

(* rtems_wifi_thread_semphr_get(): the thread's semaphore, or a new one with *)
(* a count of zero, which the key then keeps or, unnoticed, does not.        *)
GetOwn(c) ==
  /\ service = "up"
  /\ own[c] # None
  /\ Step(c, "idle", "have")
  /\ held' = [held EXCEPT ![c] = own[c]]
  /\ UNCHANGED <<vars, creator, own, count, request, patient, to, stop, answers>>

(* Mutant: the two arguments of semphr_create() swapped.                    *)
CreateSemaphoreFull(c) ==
  /\ service = "up"
  /\ own[c] = None
  /\ Step(c, "idle", "keep")
  /\ \E s \in Semaphores :
       /\ count[s] = None
       /\ count' = [count EXCEPT ![s] = 1]
       /\ held' = [held EXCEPT ![c] = s]
  /\ UNCHANGED <<vars, creator, own, request, patient, to, stop, answers>>

CreateSemaphore(c) ==
  /\ service = "up"
  /\ own[c] = None
  /\ Step(c, "idle", "keep")
  /\ \E s \in Semaphores :
       /\ count[s] = None
       /\ count' = [count EXCEPT ![s] = 0]
       /\ held' = [held EXCEPT ![c] = s]
  /\ UNCHANGED <<vars, creator, own, request, patient, to, stop, answers>>

CreateSemaphoreFails(c) ==
  /\ service = "up"
  /\ own[c] = None
  /\ Step(c, "idle", "have")
  /\ held' = [held EXCEPT ![c] = None]
  /\ UNCHANGED <<vars, creator, own, count, request, patient, to, stop, answers>>

KeepSemaphore(c) ==
  /\ Step(c, "keep", "have")
  /\ own' = [own EXCEPT ![c] = held[c]]
  /\ UNCHANGED <<vars, creator, count, held, request, patient, to, stop, answers>>

KeepSemaphoreFails(c) ==
  /\ Step(c, "keep", "have")
  /\ unkept' = TRUE
  /\ UNCHANGED <<vars, creator, own, count, held, request, patient, to, stop,
                 served, told, abandoned>>

(* Mutant: the key has no destructor.                                       *)
ThreadEndsLeaks(c) ==
  /\ pc[c] = "idle"
  /\ own[c] # None
  /\ own' = [own EXCEPT ![c] = None]
  /\ UNCHANGED <<vars, creator, count, pc, held, request, patient, to, stop, answers>>

(* The thread ends and another takes its place: rtems_wifi_thread_semphr_free() *)
ThreadEnds(c) ==
  /\ pc[c] = "idle"
  /\ own[c] # None
  /\ own' = [own EXCEPT ![c] = None]
  /\ count' = [count EXCEPT ![own[c]] = None]
  /\ UNCHANGED <<vars, creator, pc, held, request, patient, to, stop, answers>>

(* The thread posts its request with its semaphore and takes the semaphore,  *)
(* for ever or for a time; a message that is refused ends the call.  The     *)
(* request that stops the task is made with no other under way.              *)
MayAsk(c, last) ==
  /\ pc[c] = "have" /\ service = "up"
  /\ last => \A d \in Callers \ {c} : pc[d] = "idle"

Ask(c, urgent, forever, last) ==
  LET message == NewMessage(urgent)
  IN  /\ MayAsk(c, last)
      /\ SendToWaiter(message) \/ SendToQueue(message)
      /\ Step(c, "have", "sent")
      /\ request' = [request EXCEPT ![c] = message.id]
      /\ patient' = [patient EXCEPT ![c] = forever]
      /\ to' = Append(to, held[c])
      /\ IF last THEN stop' = message.id /\ service' = "stopping"
                 ELSE UNCHANGED <<stop, service>>
      /\ UNCHANGED <<task, own, held, count, answers>>

AskRefused(c) ==
  /\ MayAsk(c, FALSE)
  /\ SendRefused(NewMessage(FALSE))
  /\ Return(c, "have")
  /\ to' = Append(to, None)
  /\ UNCHANGED <<creator, own, count, stop, answers>>

(* rtems_wifi_semphr_take(): RTEMS_SUCCESSFUL, or not: timed out, not waited *)
(* for, or no semaphore with that id.                                       *)
Exists(s) == s # None /\ count[s] # None

Take(c) ==
  /\ Exists(held[c])
  /\ count[held[c]] > 0
  /\ Return(c, "sent")
  /\ count' = [count EXCEPT ![held[c]] = @ - 1]
  /\ told' = told \union {request[c]}
  /\ UNCHANGED <<vars, creator, own, to, stop, served, abandoned, unkept>>

TakeFails(c) ==
  /\ IF Exists(held[c]) THEN count[held[c]] = 0 /\ ~patient[c] ELSE TRUE
  /\ Return(c, "sent")
  /\ abandoned' = TRUE
  /\ UNCHANGED <<vars, creator, own, count, to, stop, served, told, unkept>>

------------------------------------------------------------------------------
(* The WiFi task: one message after the other, each answered by giving the   *)
(* semaphore it came with; the last one ends it, rtems_wifi_task_delete().   *)
Listen ==
  /\ task = "running"
  /\ served = Len(received)
  /\ Receive(wifiTask)
  /\ UNCHANGED serviceVars

GivesUpListening == TimesOut(wifiTask) /\ UNCHANGED serviceVars

Answer ==
  /\ task = "running"
  /\ served < Len(received)
  /\ LET id == received[served + 1]
         s == to[id]
     IN  /\ count' = IF Exists(s) THEN [count EXCEPT ![s] = @ + 1] ELSE count
         /\ to' = [to EXCEPT ![id] = None]
         /\ task' = IF id = stop THEN "none" ELSE task
  /\ served' = served + 1
  /\ UNCHANGED <<vars, service, threads, stop, told, abandoned, unkept>>

Wait(c) == Take(c) \/ TakeFails(c)

Call(c) ==
  \/ GetOwn(c) \/ CreateSemaphore(c) \/ CreateSemaphoreFails(c)
  \/ KeepSemaphore(c) \/ KeepSemaphoreFails(c)
  \/ \E urgent, forever, last \in BOOLEAN : Ask(c, urgent, forever, last)
  \/ AskRefused(c)

WifiNext ==
  \/ MakeQueue \/ DropQueue \/ Start
  \/ \E c \in Callers : Call(c) \/ Wait(c) \/ ThreadEnds(c)
  \/ Listen \/ GivesUpListening \/ Answer

WifiSpec == WifiInit /\ [][WifiNext]_wifiVars

(* RTEMS runs the task whenever it is not blocked, a thread takes what it is *)
(* given, and the libraries get on with what they began.                    *)
WifiFairSpec ==
  /\ WifiSpec
  /\ WF_wifiVars(Listen) /\ WF_wifiVars(Answer)
  /\ WF_wifiVars(Start)
  /\ \A c \in Callers : WF_wifiVars(Wait(c))
------------------------------------------------------------------------------
(* Every variable stays in its range.                                       *)
ServiceTypeOK ==
  /\ service \in {"down", "starting", "publishing", "up", "failed", "stopping"}
  /\ task \in {"none", "dormant", "running"}
  /\ {own[c] : c \in Callers} \subseteq Semaphores \union {None}
  /\ {held[c] : c \in Callers} \subseteq Semaphores \union {None}
  /\ count \in [Semaphores -> 0 .. MaxSends \union {None}]
  /\ pc \in [Callers -> {"idle", "keep", "have", "sent"}]
  /\ {request[c] : c \in Callers} \subseteq 1 .. sends \union {None}
  /\ patient \in [Callers -> BOOLEAN]
  /\ to \in Seq(Semaphores \union {None}) /\ Len(to) = sends
  /\ served \in 0 .. Len(received)
  /\ told \subseteq accepted
  /\ {abandoned, unkept} \subseteq BOOLEAN

(* The libraries' start is all or nothing: announced with its task running,  *)
(* and a start that fails leaves no task behind.                             *)
StartedWhole ==
  /\ service = "up" => task = "running" /\ life = "ready"
  /\ service \in {"down", "failed"} => task = "none"

(* A semaphore belongs to one thread, which finds it again, and goes when    *)
(* the thread does: none is left over, unless the key could not keep it.     *)
SemaphoresOwned ==
  /\ \A c, d \in Callers : c # d /\ own[c] # None => own[c] # own[d]
  /\ \A c \in Callers : own[c] # None => Exists(own[c])
  /\ ~unkept => \A s \in Semaphores : Exists(s) =>
       \E c \in Callers : own[c] = s \/ (pc[c] = "keep" /\ held[c] = s)

(* The queue's invariant and these.                                         *)
ServiceInv == QueueInv /\ ServiceTypeOK /\ StartedWhole /\ SemaphoresOwned

(* "Counting, not binary": a take that succeeds is the answer to the         *)
(* thread's own request, however threads come and go and messages are        *)
(* refused, and no answer is lost.  So it is as long as nobody stops     *)
(* waiting: then the answer that comes late is taken for the next one, or    *)
(* reaches another thread whose semaphore got the id.                       *)
AnswersAreOwn ==
  ~abandoned =>
    /\ told \subseteq {received[i] : i \in 1 .. served}
    /\ \A c \in Callers : own[c] # None /\ pc[c] # "sent" => count[own[c]] = 0

(* Who waits gets an answer or stops waiting.                               *)
RequestsAreAnswered == \A c \in Callers : pc[c] = "sent" ~> pc[c] # "sent"
==============================================================================
