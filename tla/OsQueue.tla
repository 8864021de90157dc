-------------------------------- MODULE OsQueue --------------------------------
(***************************************************************************)
(* A queue the radio libraries get from rtems_wifi_os_adapter.c: the static  *)
(* queue whose handle they read, the wrapper that remembers the item size,   *)
(* and the RTEMS message queue behind it.                                   *)
(*                                                                          *)
(* One task creates and deletes the queue, step by step, and may find no     *)
(* memory or no object at each; tasks and interrupt handlers send, tasks     *)
(* receive, while it is there.                                              *)
(***************************************************************************)
EXTENDS Sequences, SequencesExt, FiniteSets, Integers

CONSTANTS
  Tasks,      \* tasks that receive
  queue_len,  \* the length it is created with
  MaxSends    \* bound: sends

ASSUME QueueAssumption == queue_len \in Nat \ {0} /\ MaxSends \in Nat

Messages == [id : 1 .. MaxSends, urgent : BOOLEAN]

VARIABLES
  life,      \* where the owner is in rtems_wifi_create_queue() or _delete_queue()
  heap,      \* blocks that are allocated
  live,      \* the RTEMS message queue exists
  pending,   \* messages in it
  waiting,   \* receives blocked on it, first come first served
  sends,     \* history: sends so far
  accepted,  \* history: messages whose send returned RTEMS_WIFI_PD_TRUE
  received,  \* history: messages in the order they were given out
  discarded  \* history: messages in the queue when it was deleted

owner == <<life, heap, live>>
kernel == <<pending, waiting>>
history == <<sends, accepted, received, discarded>>
vars == <<owner, kernel, history>>

Init ==
  /\ life = "none"
  /\ heap = {}
  /\ live = FALSE
  /\ pending = <<>>
  /\ waiting = <<>>
  /\ sends = 0
  /\ accepted = {}
  /\ received = <<>>
  /\ discarded = {}

Advance(from, to) == life = from /\ life' = to

------------------------------------------------------------------------------
(* rtems_wifi_create_queue() and rtems_wifi_queue_create().                  *)
AllocStatic ==
  /\ Advance("none", "allocQueue")
  /\ heap' = heap \union {"static"}
  /\ UNCHANGED <<live, kernel, history>>

AllocQueue ==
  /\ Advance("allocQueue", "create")
  /\ heap' = heap \union {"queue"}
  /\ UNCHANGED <<live, kernel, history>>

AllocQueueFails ==
  /\ Advance("allocQueue", "none")
  /\ heap' = heap \ {"static"}
  /\ UNCHANGED <<live, kernel, history>>

CreateQueue ==
  /\ Advance("create", "ready")
  /\ live' = TRUE
  /\ UNCHANGED <<heap, kernel, history>>

(* Mutant: the wrapper outlives a queue that could not be created.          *)
CreateQueueFailsLeaks ==
  /\ Advance("create", "none")
  /\ heap' = heap \ {"static"}
  /\ UNCHANGED <<live, kernel, history>>

CreateQueueFails ==
  /\ Advance("create", "none")
  /\ heap' = heap \ {"queue", "static"}
  /\ UNCHANGED <<live, kernel, history>>

(* rtems_message_queue_delete() throws away what is pending and returns      *)
(* every blocked receive with an error.                                     *)
DeleteQueue ==
  /\ Advance("ready", "freeQueue")
  /\ live' = FALSE
  /\ discarded' = discarded \union {pending[i].id : i \in DOMAIN pending}
  /\ pending' = <<>>
  /\ waiting' = <<>>
  /\ UNCHANGED <<heap, sends, accepted, received>>

FreeQueue ==
  /\ Advance("freeQueue", "freeStatic")
  /\ heap' = heap \ {"queue"}
  /\ UNCHANGED <<live, kernel, history>>

FreeStatic ==
  /\ Advance("freeStatic", "none")
  /\ heap' = heap \ {"static"}
  /\ UNCHANGED <<live, kernel, history>>

------------------------------------------------------------------------------
NewMessage(urgent) == [id |-> sends + 1, urgent |-> urgent]

(* Where the message goes: before the rest or after it.                     *)
Placed(message) ==
  IF message.urgent THEN <<message>> \o pending ELSE Append(pending, message)

(* rtems_wifi_queue_send_sized(), for every variant and for an interrupt     *)
(* handler: given to the first blocked receive, or queued, or refused at     *)
(* once whatever block_time_tick says.                                      *)
BeginSend ==
  /\ life = "ready"
  /\ sends < MaxSends
  /\ sends' = sends + 1

SendToWaiter(message) ==
  /\ BeginSend
  /\ waiting # <<>>
  /\ waiting' = Tail(waiting)
  /\ received' = Append(received, message.id)
  /\ accepted' = accepted \union {message.id}
  /\ UNCHANGED <<owner, pending, discarded>>

SendToQueue(message) ==
  /\ BeginSend
  /\ waiting = <<>>
  /\ Len(pending) < queue_len
  /\ pending' = Placed(message)
  /\ accepted' = accepted \union {message.id}
  /\ UNCHANGED <<owner, waiting, received, discarded>>

(* Mutant: the two status conventions swapped.                              *)
SendRefusedAnswersTrue(message) ==
  /\ BeginSend
  /\ waiting = <<>>
  /\ Len(pending) = queue_len
  /\ accepted' = accepted \union {message.id}
  /\ UNCHANGED <<owner, kernel, received, discarded>>

SendRefused(message) ==
  /\ BeginSend
  /\ waiting = <<>>
  /\ Len(pending) = queue_len
  /\ UNCHANGED <<owner, kernel, accepted, received, discarded>>

Blocked(t) == \E i \in DOMAIN waiting : waiting[i].task = t

(* rtems_wifi_queue_recv(): takes what is there, or blocks when the block    *)
(* time is not zero; a zero block time finds nothing and changes nothing.   *)
ReceiveNow(t) ==
  /\ life = "ready"
  /\ ~Blocked(t)
  /\ pending # <<>>
  /\ received' = Append(received, Head(pending).id)
  /\ pending' = Tail(pending)
  /\ UNCHANGED <<owner, waiting, sends, accepted, discarded>>

ReceiveBlocks(t, timed) ==
  /\ life = "ready"
  /\ ~Blocked(t)
  /\ pending = <<>>
  /\ waiting' = Append(waiting, [task |-> t, timed |-> timed])
  /\ UNCHANGED <<owner, pending, history>>

TimesOut(t) ==
  /\ \E i \in DOMAIN waiting :
       /\ waiting[i] = [task |-> t, timed |-> TRUE]
       /\ waiting' = RemoveAt(waiting, i)
  /\ UNCHANGED <<owner, pending, history>>

Create ==
  AllocStatic \/ AllocQueue \/ AllocQueueFails \/ CreateQueue \/ CreateQueueFails

Delete == DeleteQueue \/ FreeQueue \/ FreeStatic

Send(urgent) ==
  LET message == NewMessage(urgent)
  IN  SendToWaiter(message) \/ SendToQueue(message) \/ SendRefused(message)

Receive(t) == ReceiveNow(t) \/ \E timed \in BOOLEAN : ReceiveBlocks(t, timed)

Next ==
  \/ Create \/ Delete
  \/ \E urgent \in BOOLEAN : Send(urgent)
  \/ \E t \in Tasks : Receive(t) \/ TimesOut(t)

Spec == Init /\ [][Next]_vars
------------------------------------------------------------------------------
(* Every variable stays in its range, and the queue never outgrows the       *)
(* length it was created with.                                              *)
TypeOK ==
  /\ life \in {"none", "allocQueue", "create", "ready", "freeQueue", "freeStatic"}
  /\ heap \subseteq {"static", "queue"}
  /\ live \in BOOLEAN
  /\ pending \in Seq(Messages) /\ Len(pending) <= queue_len
  /\ waiting \in Seq([task : Tasks, timed : BOOLEAN])
  /\ sends \in 0 .. MaxSends
  /\ accepted \subseteq 1 .. sends /\ discarded \subseteq accepted
  /\ received \in Seq(1 .. sends)

(* The libraries hold a queue with all its parts or none of them: a create   *)
(* that fails half way and a delete leave no memory and no object behind,   *)
(* and a receive never stays blocked on a queue that is gone.                *)
AllOrNothing ==
  /\ life = "none" => heap = {} /\ ~live
  /\ life = "ready" => heap = {"static", "queue"} /\ live
  /\ ~live => pending = <<>> /\ waiting = <<>>

(* The two together.                                                        *)
QueueInv == TypeOK /\ AllOrNothing

(* RTEMS_WIFI_PD_TRUE is a promise: a message whose send returned it is in   *)
(* the queue, was received or was there when the queue was deleted, in one   *)
(* of these places and once.  A message that was refused is in none.        *)
AcceptedOnce ==
  LET queued == {pending[i].id : i \in DOMAIN pending}
  IN  /\ accepted = queued \union Range(received) \union discarded
      /\ Cardinality(accepted) = Len(pending) + Len(received) + Cardinality(discarded)

==============================================================================
