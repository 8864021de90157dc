---------------------------- MODULE WifiTaskProofs ----------------------------
(***************************************************************************)
(* The WiFi task, for any number of threads, semaphores and requests and any *)
(* queue length.                                                            *)
(*                                                                          *)
(* First the queue: whatever the task, its callers and the libraries' start  *)
(* and stop do, it goes through steps of its own specification, and under    *)
(* that one no accepted message is lost or doubled.  Then the service: the   *)
(* task answers one message at a time, a semaphore belongs to one thread,    *)
(* and who waits has either a message that carries its semaphore or the one  *)
(* answer to take.                                                          *)
(***************************************************************************)
EXTENDS WifiTask, FiniteSetTheorems, TLAPS

Ids(q) == {q[i].id : i \in DOMAIN q}

(* No two of the messages are the same.                                     *)
Different(q) == \A i, j \in DOMAIN q : q[i].id = q[j].id => i = j

Message == [id : Nat, urgent : BOOLEAN]

QueueTypes ==
  /\ sends \in Nat
  /\ accepted \subseteq 1 .. sends
  /\ pending \in Seq(Message)
  /\ received \in Seq(Nat)

(* What the counts rest on: a queued message is there once, and not among    *)
(* those thrown away.  A send takes an id that nothing has.                  *)
Distinct == Different(pending) /\ Ids(pending) \intersect discarded = {}

MessagesInv == QueueTypes /\ Distinct /\ AcceptedOnce

------------------------------------------------------------------------------
(* The ids of a queue with a message more, at either end, and with one less. *)
LEMMA AppendIds ==
  ASSUME NEW M, NEW q \in Seq(M), NEW m \in M
  PROVE  /\ Ids(Append(q, m)) = Ids(q) \union {m.id}
         /\ Different(q) /\ m.id \notin Ids(q) => Different(Append(q, m))
<1> DEFINE r == Append(q, m)
<1>1. /\ Len(q) \in Nat /\ DOMAIN q = 1 .. Len(q)
      /\ DOMAIN r = 1 .. (Len(q) + 1) /\ r[Len(q) + 1] = m
      /\ \A i \in 1 .. Len(q) : r[i] = q[i]
  OBVIOUS
<1> HIDE DEF r
<1>2. \A i \in DOMAIN r : i = Len(q) + 1 \/ i \in DOMAIN q
  BY <1>1
<1>3. Ids(r) \subseteq Ids(q) \union {m.id}
  BY <1>1, <1>2 DEF Ids
<1>4. Ids(q) \subseteq Ids(r)
  BY <1>1 DEF Ids
<1>5. m.id \in Ids(r)
  <2>1. Len(q) + 1 \in DOMAIN r
    BY <1>1
  <2> QED
    BY <1>1, <2>1 DEF Ids
<1>6. ASSUME Different(q), m.id \notin Ids(q) PROVE Different(r)
  BY <1>1, <1>2, <1>6 DEF Ids, Different
<1> QED
  BY <1>3, <1>4, <1>5, <1>6 DEF r

LEMMA PrependIds ==
  ASSUME NEW M, NEW q \in Seq(M), NEW m \in M
  PROVE  /\ Ids(<<m>> \o q) = Ids(q) \union {m.id}
         /\ Different(q) /\ m.id \notin Ids(q) => Different(<<m>> \o q)
<1> DEFINE r == <<m>> \o q
<1>1. /\ Len(q) \in Nat /\ DOMAIN q = 1 .. Len(q)
      /\ DOMAIN r = 1 .. (Len(q) + 1) /\ r[1] = m
      /\ \A i \in 1 .. Len(q) : r[i + 1] = q[i]
  OBVIOUS
<1> HIDE DEF r
<1>2. \A i \in DOMAIN r : i \in Int /\ (i = 1 \/ (i - 1 \in DOMAIN q /\ r[i] = q[i - 1]))
  <2> TAKE i \in DOMAIN r
  <2>1. i = 1 \/ i - 1 \in 1 .. Len(q)
    BY <1>1
  <2>2. (i - 1) + 1 = i
    BY <1>1
  <2> QED
    BY <1>1, <2>1, <2>2
<1>3. Ids(r) \subseteq Ids(q) \union {m.id}
  BY <1>1, <1>2 DEF Ids
<1>4. Ids(q) \subseteq Ids(r)
  <2>1. \A i \in DOMAIN q : i + 1 \in DOMAIN r /\ r[i + 1] = q[i]
    BY <1>1
  <2> QED
    BY <2>1 DEF Ids
<1>5. m.id \in Ids(r)
  <2>1. 1 \in DOMAIN r
    BY <1>1
  <2> QED
    BY <1>1, <2>1 DEF Ids
<1>6. ASSUME Different(q), m.id \notin Ids(q) PROVE Different(r)
  <2> SUFFICES ASSUME NEW i \in DOMAIN r, NEW j \in DOMAIN r, r[i].id = r[j].id PROVE i = j
    BY DEF Different
  <2>1. i \in Int /\ j \in Int
    BY <1>2
  <2>2. CASE i # 1 /\ j # 1
    <3>1. i - 1 \in DOMAIN q /\ j - 1 \in DOMAIN q /\ q[i - 1].id = q[j - 1].id
      BY <1>2, <2>2
    <3>2. i - 1 = j - 1
      BY <1>6, <3>1 DEF Different
    <3> QED
      BY <2>1, <3>2
  <2>3. CASE i = 1 /\ j # 1
    BY <1>1, <1>2, <1>6, <2>3 DEF Ids
  <2>4. CASE i # 1 /\ j = 1
    BY <1>1, <1>2, <1>6, <2>4 DEF Ids
  <2> QED
    BY <2>2, <2>3, <2>4
<1> QED
  BY <1>3, <1>4, <1>5, <1>6 DEF r

LEMMA TailIds ==
  ASSUME NEW M, NEW q \in Seq(M), q # <<>>
  PROVE  /\ Head(q) \in M
         /\ Tail(q) \in Seq(M) /\ Len(Tail(q)) = Len(q) - 1 /\ Len(q) \in Nat
         /\ Ids(q) = Ids(Tail(q)) \union {Head(q).id}
         /\ Different(q) => Different(Tail(q)) /\ Head(q).id \notin Ids(Tail(q))
<1> DEFINE r == Tail(q)
<1>1. /\ Head(q) \in M /\ Len(q) \in Nat /\ Len(q) > 0 /\ DOMAIN q = 1 .. Len(q) /\ q[1] = Head(q)
      /\ r \in Seq(M) /\ Len(r) = Len(q) - 1 /\ DOMAIN r = 1 .. (Len(q) - 1)
      /\ \A i \in 1 .. (Len(q) - 1) : r[i] = q[i + 1]
  OBVIOUS
<1> HIDE DEF r
<1>2. \A i \in DOMAIN q : i = 1 \/ (i - 1 \in DOMAIN r /\ r[i - 1] = q[i])
  <2> TAKE i \in DOMAIN q
  <2>1. i = 1 \/ i - 1 \in 1 .. (Len(q) - 1)
    BY <1>1
  <2>2. (i - 1) + 1 = i
    BY <1>1
  <2> QED
    BY <1>1, <2>1, <2>2
<1>3. \A i \in DOMAIN r : i \in Int /\ i + 1 # 1 /\ i + 1 \in DOMAIN q /\ r[i] = q[i + 1]
  BY <1>1
<1>4. Ids(q) \subseteq Ids(r) \union {Head(q).id}
  BY <1>1, <1>2 DEF Ids
<1>5. Ids(r) \subseteq Ids(q)
  BY <1>3 DEF Ids
<1>6. 1 \in DOMAIN q /\ Head(q).id \in Ids(q)
  <2>1. 1 \in DOMAIN q
    BY <1>1
  <2> QED
    BY <1>1, <2>1 DEF Ids
<1>7. ASSUME Different(q) PROVE Different(r) /\ Head(q).id \notin Ids(r)
  <2>1. ASSUME NEW i \in DOMAIN r, NEW j \in DOMAIN r, r[i].id = r[j].id PROVE i = j
    <3>1. i + 1 = j + 1
      BY <1>3, <1>7, <2>1 DEF Different
    <3> QED
      BY <1>3, <3>1
  <2>2. \A i \in DOMAIN r : r[i].id # Head(q).id
    BY <1>1, <1>3, <1>6, <1>7 DEF Different
  <2> QED
    BY <2>1, <2>2 DEF Different, Ids
<1> QED
  BY <1>1, <1>4, <1>5, <1>6, <1>7 DEF r

LEMMA AppendRange ==
  ASSUME NEW M, NEW q \in Seq(M), NEW m \in M
  PROVE  /\ Range(Append(q, m)) = Range(q) \union {m}
         /\ Append(q, m) \in Seq(M) /\ Len(Append(q, m)) = Len(q) + 1 /\ Len(q) \in Nat
<1> DEFINE r == Append(q, m)
<1>1. /\ Len(q) \in Nat /\ DOMAIN q = 1 .. Len(q)
      /\ DOMAIN r = 1 .. (Len(q) + 1) /\ r[Len(q) + 1] = m
      /\ \A i \in 1 .. Len(q) : r[i] = q[i]
      /\ r \in Seq(M) /\ Len(r) = Len(q) + 1
  OBVIOUS
<1> HIDE DEF r
<1>2. \A i \in DOMAIN r : i = Len(q) + 1 \/ i \in DOMAIN q
  BY <1>1
<1>3. Len(q) + 1 \in DOMAIN r
  BY <1>1
<1>4. Range(r) = Range(q) \union {m}
  BY <1>1, <1>2, <1>3 DEF Range
<1> QED
  BY <1>1, <1>4 DEF r

------------------------------------------------------------------------------
LEMMA AcceptedIsFinite ==
  ASSUME QueueTypes, NEW S \in SUBSET accepted
  PROVE  IsFiniteSet(S) /\ Cardinality(S) \in Nat
<1>1. IsFiniteSet(1 .. sends)
  BY FS_Interval DEF QueueTypes
<1>2. IsFiniteSet(S)
  BY <1>1, FS_Subset DEF QueueTypes
<1> QED
  BY <1>2, FS_CardinalityType

(* As many ids as messages, when no two are the same.                        *)
LEMMA QueuedCount ==
  ASSUME QueueTypes, Different(pending)
  PROVE  IsFiniteSet(Ids(pending)) /\ Cardinality(Ids(pending)) = Len(pending)
<1> DEFINE f == [i \in 1 .. Len(pending) |-> pending[i].id]
<1>1. Len(pending) \in Nat /\ DOMAIN pending = 1 .. Len(pending)
  BY DEF QueueTypes
<1>2. f \in Bijection(1 .. Len(pending), Ids(pending))
  BY <1>1 DEF Different, Ids, Bijection, Injection, Surjection, IsInjective
<1>3. ExistsBijection(1 .. Len(pending), Ids(pending))
  BY <1>2 DEF ExistsBijection
<1> QED
  BY <1>1, <1>3, FS_Interval, FS_Bijection

LEMMA MessagesInit == Init => MessagesInv
<1> SUFFICES ASSUME Init PROVE MessagesInv
  OBVIOUS
<1>1. Range(<<>>) = {}
  BY DEF Range
<1> QED
  BY <1>1, FS_EmptySet DEF Init, MessagesInv, QueueTypes, Distinct, Different, Ids, AcceptedOnce

(* A message nobody had is accepted.                                        *)
LEMMA OneMoreAccepted ==
  ASSUME QueueTypes, accepted' = accepted \union {sends + 1}
  PROVE  Cardinality(accepted') = Cardinality(accepted) + 1
<1>1. IsFiniteSet(accepted)
  BY AcceptedIsFinite
<1>2. sends + 1 \notin accepted
  BY DEF QueueTypes
<1> QED
  BY <1>1, <1>2, FS_AddElement

LEMMA MessagesStep == MessagesInv /\ [Next]_vars => MessagesInv'
<1> SUFFICES ASSUME MessagesInv, [Next]_vars PROVE MessagesInv'
  OBVIOUS
<1>0. QueueTypes /\ Distinct /\ AcceptedOnce
  BY DEF MessagesInv
<1>a. /\ accepted = Ids(pending) \union Range(received) \union discarded
      /\ Cardinality(accepted) = Len(pending) + Len(received) + Cardinality(discarded)
  BY <1>0 DEF AcceptedOnce, Ids
<1>b. Len(received) \in Nat /\ Len(pending) \in Nat /\ Cardinality(discarded) \in Nat
  BY <1>0, <1>a, AcceptedIsFinite DEF QueueTypes
<1>c. ASSUME accepted' = Ids(pending') \union Range(received') \union discarded',
             Cardinality(accepted') = Len(pending') + Len(received') + Cardinality(discarded')
      PROVE  AcceptedOnce'
  BY <1>c DEF AcceptedOnce, Ids
<1>1. ASSUME UNCHANGED <<sends, pending, accepted, received, discarded>> PROVE MessagesInv'
  BY <1>0, <1>1 DEF MessagesInv, QueueTypes, Distinct, Different, Ids, AcceptedOnce
<1>2. CASE UNCHANGED vars
  BY <1>1, <1>2 DEF vars, kernel, history
<1>3. CASE Create \/ FreeQueue \/ FreeStatic
  BY <1>1, <1>3 DEF Create, AllocStatic, AllocQueue, AllocQueueFails, CreateQueue,
                    CreateQueueFails, FreeQueue, FreeStatic, kernel, history
<1>4. CASE DeleteQueue
  <2>1. /\ discarded' = discarded \union Ids(pending) /\ pending' = <<>>
        /\ UNCHANGED <<sends, accepted, received>>
    BY <1>4 DEF DeleteQueue, Ids
  <2>2. Ids(pending') = {} /\ Different(pending') /\ Len(pending') = 0
    BY <2>1 DEF Ids, Different
  <2>3. Cardinality(discarded \union Ids(pending)) = Cardinality(discarded) + Len(pending)
    <3>1. IsFiniteSet(discarded)
      BY <1>0, <1>a, AcceptedIsFinite
    <3>2. IsFiniteSet(Ids(pending)) /\ Cardinality(Ids(pending)) = Len(pending)
      BY <1>0, QueuedCount DEF Distinct
    <3>3. discarded \intersect Ids(pending) = {}
      BY <1>0 DEF Distinct
    <3>4. Cardinality(discarded \union Ids(pending))
            = Cardinality(discarded) + Cardinality(Ids(pending))
                - Cardinality(discarded \intersect Ids(pending))
      BY <3>1, <3>2, FS_Union, Zenon
    <3>5. Cardinality(discarded \intersect Ids(pending)) = 0
      BY <3>3, FS_EmptySet
    <3> QED
      BY <1>b, <3>2, <3>4, <3>5
  <2>4. AcceptedOnce'
    BY <1>a, <1>b, <1>c, <2>1, <2>2, <2>3
  <2>5. QueueTypes' /\ Distinct'
    BY <1>0, <2>1, <2>2 DEF QueueTypes, Distinct
  <2> QED
    BY <2>4, <2>5 DEF MessagesInv
<1>5. ASSUME NEW urgent \in BOOLEAN, SendToWaiter(NewMessage(urgent)) PROVE MessagesInv'
  <2>1. /\ sends' = sends + 1 /\ received' = Append(received, sends + 1)
        /\ accepted' = accepted \union {sends + 1}
        /\ UNCHANGED <<pending, discarded>>
    BY <1>5 DEF SendToWaiter, BeginSend, NewMessage
  <2>2. /\ Range(received') = Range(received) \union {sends + 1}
        /\ Len(received') = Len(received) + 1 /\ received' \in Seq(Nat)
    BY <1>0, <2>1, AppendRange DEF QueueTypes
  <2>3. QueueTypes' /\ Distinct'
    BY <1>0, <2>1, <2>2 DEF QueueTypes, Distinct, Different, Ids
  <2>4. AcceptedOnce'
    BY <1>0, <1>a, <1>b, <1>c, <2>1, <2>2, OneMoreAccepted
  <2> QED
    BY <2>3, <2>4 DEF MessagesInv
<1>6. ASSUME NEW urgent \in BOOLEAN, SendToQueue(NewMessage(urgent)) PROVE MessagesInv'
  <2> DEFINE m == NewMessage(urgent)
  <2>1. /\ sends' = sends + 1 /\ pending' = Placed(m)
        /\ accepted' = accepted \union {sends + 1}
        /\ UNCHANGED <<received, discarded>>
    BY <1>6 DEF SendToQueue, BeginSend, NewMessage
  <2>2. m \in Message /\ m.id = sends + 1
    BY <1>0 DEF NewMessage, Message, QueueTypes
  <2>3. sends + 1 \notin Ids(pending) /\ sends + 1 \notin discarded /\ sends \in Nat
    BY <1>0, <1>a DEF QueueTypes
  <2> HIDE DEF m
  <2>4. /\ Ids(pending') = Ids(pending) \union {sends + 1} /\ Different(pending')
        /\ pending' \in Seq(Message) /\ Len(pending') = Len(pending) + 1
    <3>1. Different(pending) /\ pending \in Seq(Message)
      BY <1>0 DEF Distinct, QueueTypes
    <3>2. CASE pending' = Append(pending, m)
      <4>1. pending' \in Seq(Message) /\ Len(pending') = Len(pending) + 1
        BY <2>2, <3>1, <3>2
      <4> QED
        BY <2>2, <2>3, <3>1, <3>2, <4>1, AppendIds
    <3>3. CASE pending' = <<m>> \o pending
      <4>1. pending' \in Seq(Message) /\ Len(pending') = Len(pending) + 1
        BY <2>2, <3>1, <3>3
      <4> QED
        BY <2>2, <2>3, <3>1, <3>3, <4>1, PrependIds
    <3> QED
      BY <2>1, <3>2, <3>3 DEF Placed
  <2>5. QueueTypes' /\ Distinct'
    BY <1>0, <2>1, <2>3, <2>4 DEF QueueTypes, Distinct
  <2>6. AcceptedOnce'
    BY <1>0, <1>a, <1>b, <1>c, <2>1, <2>4, OneMoreAccepted
  <2> QED
    BY <2>5, <2>6 DEF MessagesInv
<1>7. ASSUME NEW urgent \in BOOLEAN, SendRefused(NewMessage(urgent)) PROVE MessagesInv'
  <2>1. sends' = sends + 1 /\ UNCHANGED <<pending, accepted, received, discarded>>
    BY <1>7 DEF SendRefused, BeginSend, kernel
  <2> QED
    BY <1>0, <2>1 DEF MessagesInv, QueueTypes, Distinct, Different, Ids, AcceptedOnce
<1>8. ASSUME NEW t \in Tasks, ReceiveNow(t) PROVE MessagesInv'
  <2>1. /\ received' = Append(received, Head(pending).id) /\ pending' = Tail(pending)
        /\ pending # <<>> /\ UNCHANGED <<sends, accepted, discarded>>
    BY <1>8 DEF ReceiveNow
  <2>2. /\ Head(pending) \in Message
        /\ pending' \in Seq(Message) /\ Len(pending') = Len(pending) - 1
        /\ Ids(pending) = Ids(pending') \union {Head(pending).id} /\ Different(pending')
    BY <1>0, <2>1, TailIds DEF QueueTypes, Distinct
  <2>3. Head(pending).id \in Nat
    BY <2>2 DEF Message
  <2>4. /\ Range(received') = Range(received) \union {Head(pending).id}
        /\ Len(received') = Len(received) + 1 /\ received' \in Seq(Nat)
    BY <1>0, <2>1, <2>3, AppendRange DEF QueueTypes
  <2>5. QueueTypes' /\ Distinct'
    BY <1>0, <2>1, <2>2, <2>4 DEF QueueTypes, Distinct
  <2>6. AcceptedOnce'
    BY <1>a, <1>b, <1>c, <2>1, <2>2, <2>4
  <2> QED
    BY <2>5, <2>6 DEF MessagesInv
<1>9. ASSUME NEW t \in Tasks, NEW timed \in BOOLEAN, ReceiveBlocks(t, timed) PROVE MessagesInv'
  BY <1>1, <1>9 DEF ReceiveBlocks, history
<1>10. ASSUME NEW t \in Tasks, TimesOut(t) PROVE MessagesInv'
  BY <1>1, <1>10 DEF TimesOut, history
<1> QED
  BY <1>2, <1>3, <1>4, <1>5, <1>6, <1>7, <1>8, <1>9, <1>10 DEF Next, Delete, Send, Receive

------------------------------------------------------------------------------
(* The queue with its parts, at each step of its creation and deletion.      *)
HeapAt(place) ==
  CASE place = "none" -> {}
    [] place \in {"allocQueue", "freeStatic"} -> {"static"}
    [] OTHER -> {"static", "queue"}

BlockedReceive == [task : Tasks, timed : BOOLEAN]

QueueShape ==
  /\ life \in {"none", "allocQueue", "create", "ready", "freeQueue", "freeStatic"}
  /\ live \in BOOLEAN /\ (live <=> life = "ready")
  /\ heap = HeapAt(life)
  /\ life # "ready" => pending = <<>> /\ waiting = <<>>
  /\ Len(pending) <= queue_len
  /\ waiting \in Seq(BlockedReceive)
  /\ sends <= MaxSends

(* A receive that times out leaves the others as they are.                  *)
LEMMA OneLess ==
  ASSUME NEW S, NEW q \in Seq(S), NEW i \in DOMAIN q
  PROVE  RemoveAt(q, i) \in Seq(S) /\ Len(RemoveAt(q, i)) = Len(q) - 1
<1>1. i \in 1 .. Len(q) /\ Len(q) \in Nat
  OBVIOUS
<1>2. SubSeq(q, 1, i - 1) \in Seq(S) /\ Len(SubSeq(q, 1, i - 1)) = i - 1
  BY <1>1
<1>3. SubSeq(q, i + 1, Len(q)) \in Seq(S) /\ Len(SubSeq(q, i + 1, Len(q))) = Len(q) - i
  BY <1>1
<1>4. \A a, b \in Seq(S) : a \o b \in Seq(S) /\ Len(a \o b) = Len(a) + Len(b)
  OBVIOUS
<1>5. RemoveAt(q, i) = SubSeq(q, 1, i - 1) \o SubSeq(q, i + 1, Len(q))
  BY DEF RemoveAt
<1>. HIDE DEF RemoveAt
<1>6. RemoveAt(q, i) \in Seq(S)
  BY <1>2, <1>3, <1>4, <1>5
<1>7. Len(RemoveAt(q, i)) = (i - 1) + (Len(q) - i)
  BY <1>2, <1>3, <1>4, <1>5
<1>. QED BY <1>1, <1>6, <1>7

(* Nothing is in a queue, and nobody waits at one, that is not ready.       *)
LEMMA NothingQueued == <<>> \in Seq(BlockedReceive) /\ Len(<<>>) = 0
OBVIOUS

LEMMA ShapeStep ==
  ASSUME MessagesInv, QueueShape, [Next]_vars
  PROVE  QueueShape'
<1>. USE QueueAssumption DEF QueueAssumption, HeapAt, Advance
<1>1. pending \in Seq(Message) /\ Len(pending) \in Nat /\ sends \in Nat
  BY DEF MessagesInv, QueueTypes
<1>2. CASE Create
  <2>1. CASE AllocStatic
    BY <2>1 DEF QueueShape, AllocStatic, kernel, history
  <2>2. CASE AllocQueue
    BY <2>2 DEF QueueShape, AllocQueue, kernel, history
  <2>3. CASE AllocQueueFails
    BY <2>3 DEF QueueShape, AllocQueueFails, kernel, history
  <2>4. CASE CreateQueue
    BY <2>4 DEF QueueShape, CreateQueue, kernel, history
  <2>5. CASE CreateQueueFails
    BY <2>5 DEF QueueShape, CreateQueueFails, kernel, history
  <2>. QED BY <1>2, <2>1, <2>2, <2>3, <2>4, <2>5 DEF Create
<1>3. CASE Delete
  <2>1. CASE DeleteQueue
    <3>1. waiting' \in Seq(BlockedReceive) /\ Len(pending') = 0
      BY <2>1, NothingQueued DEF DeleteQueue
    <3>2. /\ life = "ready" /\ life' = "freeQueue" /\ live' = FALSE
          /\ pending' = <<>> /\ waiting' = <<>> /\ UNCHANGED <<heap, sends>>
      BY <2>1 DEF DeleteQueue
    <3>3. heap' = HeapAt(life')
      BY <3>2 DEF QueueShape
    <3>4. Len(pending') <= queue_len /\ sends' <= MaxSends
      BY <1>1, <3>1, <3>2 DEF QueueShape
    <3>. QED BY <3>1, <3>2, <3>3, <3>4 DEF QueueShape
  <2>2. CASE FreeQueue
    BY <2>2 DEF QueueShape, FreeQueue, kernel, history
  <2>3. CASE FreeStatic
    BY <2>3 DEF QueueShape, FreeStatic, kernel, history
  <2>. QED BY <1>3, <2>1, <2>2, <2>3 DEF Delete
<1>4. ASSUME NEW urgent \in BOOLEAN, Send(urgent)
      PROVE  QueueShape'
  <2>. DEFINE m == NewMessage(urgent)
  <2>1. BeginSend /\ UNCHANGED owner
    BY <1>4 DEF Send, SendToWaiter, SendToQueue, SendRefused
  <2>2. life = "ready" /\ sends' = sends + 1 /\ sends' <= MaxSends /\ UNCHANGED <<life, heap, live>>
    BY <1>1, <2>1 DEF BeginSend, owner
  <2>3. CASE SendToWaiter(m)
    <3>1. waiting' \in Seq(BlockedReceive) /\ UNCHANGED pending
      BY <2>3 DEF SendToWaiter, QueueShape
    <3>. QED BY <2>2, <3>1 DEF QueueShape
  <2>4. CASE SendToQueue(m)
    <3>1. m \in Message
      BY <1>1 DEF NewMessage, Message
    <3>2. Len(pending') = Len(pending) + 1 /\ Len(pending) < queue_len /\ UNCHANGED waiting
      BY <1>1, <2>4, <3>1 DEF SendToQueue, Placed
    <3>. QED BY <1>1, <2>2, <3>2 DEF QueueShape
  <2>5. CASE SendRefused(m)
    BY <2>2, <2>5 DEF SendRefused, QueueShape, kernel
  <2>. QED BY <1>4, <2>3, <2>4, <2>5 DEF Send
<1>5. ASSUME NEW t \in Tasks, Receive(t) \/ TimesOut(t)
      PROVE  QueueShape'
  <2>1. CASE ReceiveNow(t)
    <3>1. Len(pending') = Len(pending) - 1 /\ life = "ready" /\ UNCHANGED <<life, heap, live,
                                                                            waiting, sends>>
      BY <1>1, <2>1 DEF ReceiveNow, owner
    <3>. QED BY <1>1, <3>1 DEF QueueShape
  <2>2. ASSUME NEW timed \in BOOLEAN, ReceiveBlocks(t, timed)
        PROVE  QueueShape'
    <3>1. [task |-> t, timed |-> timed] \in BlockedReceive
      BY DEF BlockedReceive
    <3>2. waiting' \in Seq(BlockedReceive) /\ life = "ready" /\ UNCHANGED <<life, heap, live,
                                                                            pending, sends>>
      BY <2>2, <3>1 DEF ReceiveBlocks, QueueShape, owner, history
    <3>. QED BY <3>2 DEF QueueShape
  <2>3. CASE TimesOut(t)
    <3>1. PICK i \in DOMAIN waiting : waiting' = RemoveAt(waiting, i)
      BY <2>3 DEF TimesOut
    <3>2. waiting \in Seq(BlockedReceive) /\ waiting # <<>>
      BY <3>1 DEF QueueShape
    <3>3. waiting' \in Seq(BlockedReceive) /\ life = "ready" /\ UNCHANGED <<life, heap, live,
                                                                            pending, sends>>
      BY <2>3, <3>1, <3>2, OneLess DEF TimesOut, QueueShape, owner, history
    <3>. QED BY <3>3 DEF QueueShape
  <2>. QED BY <1>5, <2>1, <2>2, <2>3 DEF Receive
<1>6. CASE UNCHANGED vars
  BY <1>6 DEF QueueShape, vars, owner, kernel, history
<1>. QED BY <1>2, <1>3, <1>4, <1>5, <1>6 DEF Next

LEMMA ShapeInit == Init => QueueShape
<1>. SUFFICES ASSUME Init PROVE QueueShape
  OBVIOUS
<1>1. waiting \in Seq(BlockedReceive) /\ Len(pending) = 0
  BY NothingQueued DEF Init
<1>2. life = "none" /\ ~live /\ live \in BOOLEAN /\ heap = {} /\ pending = <<>> /\ waiting = <<>> /\ sends = 0
  BY DEF Init
<1>. QED BY <1>1, <1>2, QueueAssumption DEF QueueShape, HeapAt, QueueAssumption

LEMMA ShapeIsQueueInv ==
  ASSUME MessagesInv, QueueShape
  PROVE  QueueInv
<1>1. /\ Ids(pending) \subseteq accepted /\ Range(received) \subseteq accepted /\ discarded \subseteq accepted
      /\ accepted \subseteq 1 .. sends /\ sends \in 0 .. MaxSends
  BY QueueAssumption DEF MessagesInv, AcceptedOnce, Ids, QueueTypes, QueueShape, QueueAssumption
<1>2. pending \in Seq(Messages)
  <2>1. \A i \in 1 .. Len(pending) : pending[i] \in Messages
    <3>. SUFFICES ASSUME NEW i \in 1 .. Len(pending) PROVE pending[i] \in Messages
      OBVIOUS
    <3>1. pending[i] \in Message /\ i \in DOMAIN pending
      BY DEF MessagesInv, QueueTypes
    <3>2. pending[i].id \in 1 .. sends
      BY <1>1, <3>1 DEF Ids
    <3>3. pending[i].id \in 1 .. MaxSends
      BY <1>1, <3>2, QueueAssumption DEF QueueAssumption
    <3>. QED BY <3>1, <3>3 DEF Message, Messages
  <2>. QED BY <2>1 DEF MessagesInv, QueueTypes
<1>3. received \in Seq(1 .. sends)
  <2>1. \A i \in 1 .. Len(received) : received[i] \in 1 .. sends
    BY <1>1 DEF MessagesInv, QueueTypes, Range
  <2>. QED BY <2>1 DEF MessagesInv, QueueTypes
<1>4. TypeOK
  BY <1>1, <1>2, <1>3 DEF TypeOK, QueueShape, HeapAt, BlockedReceive
<1>5. AllOrNothing
  BY DEF AllOrNothing, QueueShape, HeapAt
<1>. QED BY <1>4, <1>5 DEF QueueInv

------------------------------------------------------------------------------
(* What the service does to the queue is what the queue's specification      *)
(* allows: its owner makes and deletes it, its callers send, its task        *)
(* receives, and every other step leaves it alone.                           *)
LEMMA StepOfQueue == [WifiNext]_wifiVars => [Next]_vars
<1> SUFFICES ASSUME [WifiNext]_wifiVars PROVE Next \/ UNCHANGED vars
  OBVIOUS
<1>1. CASE UNCHANGED wifiVars
  BY <1>1 DEF wifiVars
<1>2. CASE MakeQueue \/ DropQueue
  BY <1>2 DEF MakeQueue, DropQueue, Next
<1>3. CASE Start
  BY <1>3 DEF Start, CreateTask, CreateTaskFails, StartTask, StartTaskFails, PublishHandle
<1>4. ASSUME NEW c \in Callers, NEW urgent \in BOOLEAN, NEW forever \in BOOLEAN,
             NEW last \in BOOLEAN, Ask(c, urgent, forever, last)
      PROVE  Next
  BY <1>4 DEF Ask, Next, Send
<1>5. ASSUME NEW c \in Callers, AskRefused(c) PROVE Next
  BY <1>5 DEF AskRefused, Next, Send
<1>6. ASSUME NEW c \in Callers,
             \/ GetOwn(c) \/ CreateSemaphore(c) \/ CreateSemaphoreFails(c)
             \/ KeepSemaphore(c) \/ KeepSemaphoreFails(c)
             \/ Wait(c) \/ ThreadEnds(c)
      PROVE  UNCHANGED vars
  BY <1>6 DEF GetOwn, CreateSemaphore, CreateSemaphoreFails, KeepSemaphore, KeepSemaphoreFails,
              Wait, Take, TakeFails, ThreadEnds
<1>7. CASE Listen \/ GivesUpListening
  BY <1>7, WifiTaskAssumption DEF Listen, GivesUpListening, Next
<1>8. CASE Answer
  BY <1>8 DEF Answer
<1> QED
  BY <1>1, <1>2, <1>3, <1>4, <1>5, <1>6, <1>7, <1>8 DEF WifiNext, Call

(* The composition implements the queue: rtems_wifi_task_create(), the       *)
(* semaphores and the callers' failures never take the queue out of what     *)
(* rtems_wifi_queue_*() promise alone.                                       *)
THEOREM ServiceImplementsQueue == WifiSpec => Spec
<1>1. WifiInit => Init
  BY DEF WifiInit
<1> QED
  BY <1>1, StepOfQueue, PTL DEF WifiSpec, Spec

------------------------------------------------------------------------------
(* The task and its callers.                                                *)
ServiceTypes ==
  /\ own \in [Callers -> Semaphores \union {None}]
  /\ held \in [Callers -> Semaphores \union {None}]
  /\ count \in [Semaphores -> Nat \union {None}]
  /\ pc \in [Callers -> {"idle", "keep", "have", "sent"}]
  /\ request \in [Callers -> accepted \union {None}]
  /\ \A c \in Callers : pc[c] = "sent" => request[c] # None
  /\ patient \in [Callers -> BOOLEAN]
  /\ to \in Seq(Semaphores \union {None}) /\ Len(to) = sends
  /\ stop \in 1 .. sends \union {None}
  /\ told \subseteq accepted
  /\ abandoned \in BOOLEAN /\ unkept \in BOOLEAN

(* The messages that are answered, and those that will be.                  *)
Served == {received[i] : i \in 1 .. served}

Coming == Ids(pending) \union {received[i] : i \in served + 1 .. Len(received)}

(* The task answers a message before it takes the next, ...                 *)
OneAtATime ==
  /\ served \in Nat /\ served <= Len(received) /\ Len(received) <= served + 1
  /\ Len(waiting) <= 1
  /\ waiting # <<>> => task = "running" /\ served = Len(received)
  /\ task # "running" => served = Len(received)
  /\ \A s \in Semaphores : count[s] # None => count[s] <= served

(* ... is there when it should be, and the request that stops it is made once *)
(* the service is on its way down.                                          *)
Lifecycle ==
  /\ service \in {"down", "starting", "publishing", "up", "failed", "stopping"}
  /\ task \in {"none", "dormant", "running"}
  /\ service \in {"publishing", "up"} => task = "running"
  /\ service = "starting" <=> task = "dormant"
  /\ service \in {"down", "failed"} => task = "none"
  /\ service \in {"starting", "publishing", "up"} \/ task = "running" => life = "ready"
  /\ service = "down" => life \notin {"freeQueue", "freeStatic"}
  /\ service # "stopping" => stop \notin Coming

(* The semaphores a thread has: its own and the one of its call.            *)
Of(c) == {own[c], held[c]} \ {None}

Ownership ==
  /\ \A c \in Callers : \A s \in Of(c) : count[s] # None
  /\ \A c, d \in Callers : c # d => Of(c) \intersect Of(d) = {}
  /\ \A c \in Callers :
       /\ pc[c] = "idle" => held[c] = None
       /\ pc[c] = "keep" => held[c] # None /\ own[c] = None
       /\ pc[c] \in {"have", "sent"} => own[c] \in {None, held[c]}
  /\ ~unkept => \A s \in Semaphores : count[s] # None =>
       \E c \in Callers : own[c] = s \/ (pc[c] = "keep" /\ held[c] = s)

(* While nobody has stopped waiting, a message with a semaphore has its       *)
(* sender waiting for it, and a semaphore has the one answer to take, or none. *)
Unanswered(c) == to[request[c]] = held[c] /\ count[held[c]] = 0
Answered(c) == to[request[c]] = None /\ count[held[c]] = 1 /\ request[c] \in Served

Answers ==
  ~abandoned =>
    /\ told \subseteq Served
    /\ \A c \in Callers : pc[c] # "sent" => \A s \in Of(c) : count[s] = 0
    /\ \A c \in Callers : pc[c] = "sent" /\ held[c] # None => Unanswered(c) \/ Answered(c)
    /\ \A n \in 1 .. sends : to[n] # None =>
         \E c \in Callers : pc[c] = "sent" /\ request[c] = n /\ held[c] = to[n]

CallsInv == ServiceTypes /\ OneAtATime /\ Lifecycle /\ Ownership /\ Answers

TaskInv == MessagesInv /\ QueueShape /\ CallsInv

------------------------------------------------------------------------------
(* A value more at the end of a sequence.                                   *)
LEMMA OneMore ==
  ASSUME NEW S, NEW q \in Seq(S), NEW m \in S
  PROVE  /\ Append(q, m) \in Seq(S) /\ Len(Append(q, m)) = Len(q) + 1 /\ Len(q) \in Nat
         /\ Append(q, m)[Len(q) + 1] = m /\ \A i \in 1 .. Len(q) : Append(q, m)[i] = q[i]
OBVIOUS

(* What a message that goes to the task leaves of the messages.             *)
LEMMA MessageReceived ==
  ASSUME MessagesInv, OneAtATime, NEW m \in Nat, received' = Append(received, m), UNCHANGED served
  PROVE  /\ Len(received') = Len(received) + 1 /\ Len(received) \in Nat
         /\ Served' = Served
         /\ Coming' = Ids(pending') \union {received[i] : i \in served + 1 .. Len(received)} \union {m}
<1>1. received \in Seq(Nat)
  BY DEF MessagesInv, QueueTypes
<1>2. /\ Len(received') = Len(received) + 1 /\ Len(received) \in Nat
      /\ received'[Len(received) + 1] = m /\ \A i \in 1 .. Len(received) : received'[i] = received[i]
  BY <1>1, OneMore
<1>3. Served' = Served
  BY <1>2 DEF Served, OneAtATime
<1>4. {received'[i] : i \in served + 1 .. Len(received')}
        = {received[i] : i \in served + 1 .. Len(received)} \union {m}
  BY <1>2 DEF OneAtATime
<1>. QED BY <1>2, <1>3, <1>4 DEF Coming

(* A send that is accepted, and a receive of the task.                      *)
LEMMA SendDoes ==
  ASSUME MessagesInv, OneAtATime, NEW urgent \in BOOLEAN,
         SendToWaiter(NewMessage(urgent)) \/ SendToQueue(NewMessage(urgent)), UNCHANGED served
  PROVE  /\ sends' = sends + 1 /\ sends \in Nat /\ accepted' = accepted \union {sends + 1}
         /\ UNCHANGED owner /\ Served' = Served /\ Coming' \subseteq Coming \union {sends + 1}
         /\ \/ waiting # <<>> /\ waiting' = Tail(waiting) /\ Len(received') = Len(received) + 1
            \/ UNCHANGED <<waiting, received>>
<1>. DEFINE m == NewMessage(urgent)
<1>1. pending \in Seq(Message) /\ received \in Seq(Nat) /\ sends \in Nat
  BY DEF MessagesInv, QueueTypes
<1>2. m.id = sends + 1 /\ m \in Message
  BY <1>1 DEF NewMessage, Message
<1>3. sends' = sends + 1 /\ accepted' = accepted \union {sends + 1} /\ UNCHANGED owner
  BY <1>2 DEF SendToWaiter, SendToQueue, BeginSend
<1>4. CASE SendToWaiter(m)
  <2>1. /\ received' = Append(received, sends + 1) /\ UNCHANGED pending
        /\ waiting # <<>> /\ waiting' = Tail(waiting)
    BY <1>2, <1>4 DEF SendToWaiter
  <2>2. sends + 1 \in Nat
    BY <1>1
  <2>3. /\ Len(received') = Len(received) + 1 /\ Served' = Served
        /\ Coming' = Ids(pending') \union {received[i] : i \in served + 1 .. Len(received)} \union {sends + 1}
    BY <2>1, <2>2, MessageReceived
  <2>4. Ids(pending') = Ids(pending)
    BY <2>1
  <2>5. Coming' \subseteq Coming \union {sends + 1}
    BY <2>3, <2>4 DEF Coming
  <2>. QED BY <1>1, <1>3, <2>1, <2>3, <2>5
<1>5. CASE SendToQueue(m)
  <2>1. UNCHANGED <<waiting, received>> /\ pending' \in {<<m>> \o pending, Append(pending, m)}
    BY <1>5 DEF SendToQueue, Placed
  <2>. HIDE DEF m
  <2>2. Ids(pending') = Ids(pending) \union {sends + 1}
    <3>1. CASE pending' = <<m>> \o pending
      BY <1>1, <1>2, <3>1, PrependIds
    <3>2. CASE pending' = Append(pending, m)
      BY <1>1, <1>2, <3>2, AppendIds
    <3>. QED BY <2>1, <3>1, <3>2
  <2>3. Served' = Served /\ Coming' \subseteq Coming \union {sends + 1}
    BY <2>1, <2>2 DEF Served, Coming
  <2>. QED BY <1>1, <1>3, <2>1, <2>3
<1>. QED BY <1>4, <1>5

LEMMA NobodyBlocked ==
  ASSUME QueueShape, ~Blocked(wifiTask)
  PROVE  waiting = <<>>
<1>1. waiting # <<>> => 1 \in DOMAIN waiting /\ waiting[1] \in BlockedReceive
  BY DEF QueueShape
<1>. QED BY <1>1, WifiTaskAssumption DEF Blocked, BlockedReceive, WifiTaskAssumption

LEMMA ListenDoes ==
  ASSUME MessagesInv, QueueShape, OneAtATime, Listen
  PROVE  /\ UNCHANGED <<owner, sends, accepted>> /\ Served' = Served /\ Coming' \subseteq Coming
         /\ served = Len(received) /\ waiting = <<>>
         /\ \/ Len(received') = Len(received) + 1 /\ UNCHANGED waiting
            \/ UNCHANGED received /\ Len(waiting') = 1
<1>1. pending \in Seq(Message) /\ received \in Seq(Nat) /\ served = Len(received)
  BY DEF MessagesInv, QueueTypes, Listen
<1>2. UNCHANGED <<owner, sends, accepted, served>>
  BY DEF Listen, serviceVars, answers, Receive, ReceiveNow, ReceiveBlocks, history
<1>3. waiting = <<>>
  BY NobodyBlocked DEF Listen, Receive, ReceiveNow, ReceiveBlocks
<1>4. CASE ReceiveNow(wifiTask)
  <2>1. /\ pending # <<>> /\ pending' = Tail(pending) /\ UNCHANGED waiting
        /\ received' = Append(received, Head(pending).id)
    BY <1>4 DEF ReceiveNow
  <2>2. Ids(pending) = Ids(pending') \union {Head(pending).id} /\ Head(pending) \in Message
    BY <1>1, <2>1, TailIds
  <2>3. Head(pending).id \in Nat
    BY <2>2 DEF Message
  <2>4. /\ Len(received') = Len(received) + 1 /\ Served' = Served
        /\ Coming' = Ids(pending') \union {received[n] : n \in served + 1 .. Len(received)} \union {Head(pending).id}
    BY <1>2, <2>1, <2>3, MessageReceived
  <2>5. Coming' \subseteq Coming
    BY <2>2, <2>4 DEF Coming
  <2>. QED BY <1>1, <1>2, <1>3, <2>1, <2>4, <2>5
<1>5. ASSUME NEW timed \in BOOLEAN, ReceiveBlocks(wifiTask, timed)
      PROVE  /\ UNCHANGED <<received, pending>> /\ Len(waiting') = 1
             /\ Served' = Served /\ Coming' = Coming
  <2>1. UNCHANGED <<received, pending>> /\ waiting' = Append(<<>>, [task |-> wifiTask, timed |-> timed])
    BY <1>3, <1>5 DEF ReceiveBlocks, history
  <2>. QED BY <1>2, <2>1 DEF Served, Coming
<1>. QED BY <1>1, <1>2, <1>3, <1>4, <1>5 DEF Listen, Receive

------------------------------------------------------------------------------
(* The steps that leave the threads and the semaphores alone.               *)
LEMMA ThreadsRest ==
  ASSUME CallsInv, UNCHANGED <<threads, count, to, stop, told, abandoned, unkept, sends, accepted>>,
         Served' = Served
  PROVE  ServiceTypes' /\ Ownership' /\ Answers'
<1>. USE DEF CallsInv, threads
<1>1. ServiceTypes'
  BY DEF ServiceTypes
<1>2. Ownership'
  BY DEF Ownership, Of
<1>3. Answers'
  BY DEF Answers, Of, Unanswered, Answered
<1>. QED BY <1>1, <1>2, <1>3

LEMMA QueueKeeps ==
  ASSUME MessagesInv, QueueShape, CallsInv, MakeQueue \/ DropQueue
  PROVE  CallsInv'
<1>. USE DEF serviceVars, threads, answers, creator, kernel, history, owner, Advance
<1>1. UNCHANGED <<task, threads, count, to, stop, answers, sends, accepted, received>>
  BY DEF MakeQueue, DropQueue, Create, AllocStatic, AllocQueue, AllocQueueFails, CreateQueue,
         CreateQueueFails, Delete, DeleteQueue, FreeQueue, FreeStatic
<1>2. /\ pending' \in {pending, <<>>} /\ waiting' \in {waiting, <<>>}
  BY DEF MakeQueue, DropQueue, Create, AllocStatic, AllocQueue, AllocQueueFails, CreateQueue,
         CreateQueueFails, Delete, DeleteQueue, FreeQueue, FreeStatic
<1>3. Served' = Served /\ Coming' \subseteq Coming
  BY <1>1, <1>2 DEF Served, Coming, Ids
<1>4. ServiceTypes' /\ Ownership' /\ Answers'
  BY <1>1, <1>3, ThreadsRest
<1>5. OneAtATime'
  BY <1>1, <1>2, NothingQueued DEF CallsInv, OneAtATime
<1>6. Lifecycle'
  <2>1. CASE MakeQueue
    <3>1. service = "down" /\ service' = "down" /\ life' \notin {"freeQueue", "freeStatic"}
      BY <2>1
        DEF MakeQueue, Create, AllocStatic, AllocQueue, AllocQueueFails, CreateQueue,
            CreateQueueFails
    <3>. QED BY <1>1, <1>3, <3>1 DEF CallsInv, Lifecycle
  <2>2. CASE DropQueue
    <3>1. /\ service \in {"failed", "stopping"} /\ task = "none"
          /\ service' = (IF life' = "none" THEN "down" ELSE service)
      BY <2>2 DEF DropQueue, CallsInv, Lifecycle
    <3>2. life' = "none" => pending' = <<>> /\ Coming' = {}
      <4>1. life' = "none" => FreeStatic
        BY <2>2 DEF DropQueue, Delete, DeleteQueue, FreeQueue
      <4>2. FreeStatic => pending' = <<>>
        BY DEF FreeStatic, QueueShape
      <4>3. served' = Len(received') /\ served' \in Nat
        BY <1>1, <3>1 DEF CallsInv, OneAtATime
      <4>. QED BY <4>1, <4>2, <4>3 DEF Coming, Ids
    <3>. QED BY <1>1, <1>3, <3>1, <3>2 DEF CallsInv, Lifecycle
  <2>. QED BY <2>1, <2>2
<1>. QED BY <1>4, <1>5, <1>6 DEF CallsInv

LEMMA StartKeeps ==
  ASSUME CallsInv, Start
  PROVE  CallsInv'
<1>. USE DEF threads, answers, creator, Go
<1>1. UNCHANGED <<vars, threads, count, to, stop, answers>>
  BY DEF Start, CreateTask, CreateTaskFails, StartTask, StartTaskFails, PublishHandle
<1>2. UNCHANGED <<life, pending, waiting, sends, accepted, received>>
  BY <1>1 DEF vars, owner, kernel, history
<1>3. Served' = Served /\ Coming' = Coming
  BY <1>1, <1>2 DEF Served, Coming, Ids
<1>4. ServiceTypes' /\ Ownership' /\ Answers'
  BY <1>1, <1>2, <1>3, ThreadsRest
<1>5. OneAtATime'
  BY <1>1, <1>2 DEF CallsInv, OneAtATime, Lifecycle, Start, CreateTask, CreateTaskFails, StartTask,
                    StartTaskFails, PublishHandle
<1>6. Lifecycle'
  BY <1>1, <1>2, <1>3 DEF CallsInv, Lifecycle, Start, CreateTask, CreateTaskFails, StartTask,
                          StartTaskFails, PublishHandle
<1>. QED BY <1>4, <1>5, <1>6 DEF CallsInv

LEMMA ListenKeeps ==
  ASSUME MessagesInv, QueueShape, CallsInv, Listen
  PROVE  CallsInv'
<1>. USE DEF CallsInv
<1>1. UNCHANGED serviceVars /\ task = "running"
  BY DEF Listen
<1>2. /\ UNCHANGED <<owner, sends, accepted>> /\ Served' = Served /\ Coming' \subseteq Coming
      /\ served = Len(received) /\ waiting = <<>>
      /\ \/ Len(received') = Len(received) + 1 /\ UNCHANGED waiting
         \/ UNCHANGED received /\ Len(waiting') = 1
  BY ListenDoes
<1>3. ServiceTypes' /\ Ownership' /\ Answers'
  BY <1>1, <1>2, ThreadsRest DEF serviceVars, answers
<1>4. OneAtATime'
  <2>1. Len(waiting') <= 1 /\ (waiting' = <<>> \/ UNCHANGED received)
    <3>1. CASE UNCHANGED waiting
      BY <1>2, <3>1 DEF OneAtATime
    <3>2. CASE UNCHANGED received /\ Len(waiting') = 1
      BY <3>2
    <3>. QED BY <1>2, <3>1, <3>2
  <2>2. served \in Nat /\ Len(received') \in {served, served + 1}
    BY <1>2 DEF OneAtATime
  <2>3. UNCHANGED <<served, task, count>>
    BY <1>1 DEF serviceVars, answers, creator
  <2>4. waiting' # <<>> => served' = Len(received')
    BY <1>2, <2>1, <2>3
  <2>5. served' <= Len(received') /\ Len(received') <= served' + 1
    BY <2>2, <2>3
  <2>. QED BY <1>1, <2>1, <2>2, <2>3, <2>4, <2>5 DEF OneAtATime
<1>5. Lifecycle'
  BY <1>1, <1>2 DEF Lifecycle, serviceVars, creator, owner
<1>. QED BY <1>3, <1>4, <1>5

LEMMA GivesUpKeeps ==
  ASSUME QueueShape, CallsInv, GivesUpListening
  PROVE  CallsInv'
<1>. USE DEF CallsInv
<1>1. UNCHANGED <<serviceVars, owner, pending, sends, accepted, received>>
  BY DEF GivesUpListening, TimesOut, history
<1>2. Served' = Served /\ Coming' = Coming
  BY <1>1 DEF Served, Coming, Ids, serviceVars, answers
<1>3. waiting # <<>> /\ Len(waiting') = Len(waiting) - 1
  <2>1. PICK n \in DOMAIN waiting : waiting' = RemoveAt(waiting, n)
    BY DEF GivesUpListening, TimesOut
  <2>2. waiting \in Seq(BlockedReceive)
    BY DEF QueueShape
  <2>. QED BY <2>1, <2>2, OneLess
<1>4. ServiceTypes' /\ Ownership' /\ Answers'
  BY <1>1, <1>2, ThreadsRest DEF serviceVars, answers
<1>5. OneAtATime'
  BY <1>1, <1>3 DEF OneAtATime, serviceVars, answers, creator, QueueShape
<1>6. Lifecycle'
  BY <1>1, <1>2 DEF Lifecycle, serviceVars, creator, owner
<1>. QED BY <1>4, <1>5, <1>6

------------------------------------------------------------------------------
(* The steps of a thread that leave the queue and the task alone.            *)
LEMMA QueueRests ==
  ASSUME CallsInv, UNCHANGED <<vars, creator, to, stop, served>>,
         \A s \in Semaphores : count'[s] # None => count'[s] <= served
  PROVE  /\ OneAtATime' /\ Lifecycle'
         /\ Served' = Served /\ UNCHANGED <<sends, accepted>>
<1>. USE DEF CallsInv, vars, owner, kernel, history, creator
<1>1. Served' = Served /\ Coming' = Coming
  BY DEF Served, Coming, Ids
<1>2. OneAtATime'
  BY DEF OneAtATime
<1>3. Lifecycle'
  BY <1>1 DEF Lifecycle
<1>. QED BY <1>1, <1>2, <1>3

(* The other threads are as they were.                                      *)
OthersRest(c) ==
  \A d \in Callers \ {c} : own'[d] = own[d] /\ held'[d] = held[d] /\ pc'[d] = pc[d]

(* Where a thread in its call has its semaphore.                            *)
Placement(c) ==
  /\ pc[c] = "idle" => held[c] = None
  /\ pc[c] = "keep" => held[c] # None /\ own[c] = None
  /\ pc[c] \in {"have", "sent"} => own[c] \in {None, held[c]}

Keeps(c, s) == own[c] = s \/ (pc[c] = "keep" /\ held[c] = s)

LEMMA SemaphoresOf ==
  ASSUME ServiceTypes, NEW c \in Callers
  PROVE  Of(c) \subseteq Semaphores
<1>1. own[c] \in Semaphores \union {None} /\ held[c] \in Semaphores \union {None}
  BY DEF ServiceTypes
<1>. QED BY <1>1 DEF Of

(* A thread that gets no semaphore it had not keeps the rest in order.       *)
LEMMA OwnershipStays ==
  ASSUME ServiceTypes, Ownership, NEW c \in Callers, OthersRest(c),
         Of(c)' \subseteq Of(c), Placement(c)',
         \A s \in Semaphores : count'[s] # None <=> count[s] # None,
         ~unkept' => ~unkept /\ \A s \in Semaphores : Keeps(c, s) => Keeps(c, s)'
  PROVE  Ownership'
<1>1. \A d \in Callers \ {c} : Of(d)' = Of(d)
  BY DEF OthersRest, Of
<1>2. \A d \in Callers : Of(d)' \subseteq Of(d) /\ Of(d) \subseteq Semaphores
  BY <1>1, SemaphoresOf
<1>3. \A d \in Callers : \A s \in Of(d)' : count'[s] # None
  BY <1>2 DEF Ownership
<1>4. \A d, e \in Callers : d # e => Of(d)' \intersect Of(e)' = {}
  BY <1>2 DEF Ownership
<1>5. \A d \in Callers : Placement(d)'
  BY DEF OthersRest, Ownership, Placement
<1>6. ~unkept' => \A s \in Semaphores : count'[s] # None => \E d \in Callers : Keeps(d, s)'
  <2>. SUFFICES ASSUME ~unkept', NEW s \in Semaphores, count'[s] # None
                PROVE  \E d \in Callers : Keeps(d, s)'
    OBVIOUS
  <2>1. PICK d \in Callers : Keeps(d, s)
    BY DEF Ownership, Keeps
  <2>2. Keeps(d, s)'
    BY <2>1 DEF OthersRest, Keeps
  <2>. QED BY <2>2
<1>. QED BY <1>3, <1>4, <1>5, <1>6 DEF Ownership, Placement, Keeps

LEMMA GetOwnKeeps ==
  ASSUME CallsInv, NEW c \in Callers, GetOwn(c)
  PROVE  CallsInv'
<1>. USE WifiTaskAssumption DEF CallsInv, WifiTaskAssumption, Step, Return, answers
<1>1. /\ OneAtATime' /\ Lifecycle'
      /\ Served' = Served /\ UNCHANGED <<sends, accepted, to, stop>>
  BY QueueRests DEF GetOwn, ServiceTypes, OneAtATime
<1>2. ServiceTypes'
  BY <1>1 DEF GetOwn, ServiceTypes
<1>3. Ownership'
  <2>1. OthersRest(c) /\ Of(c)' \subseteq Of(c)
    BY DEF GetOwn, ServiceTypes, OthersRest, Of
  <2>2. Placement(c)'
    BY DEF GetOwn, ServiceTypes, Ownership, Placement
  <2>3. \A s \in Semaphores : count'[s] # None <=> count[s] # None
    BY DEF GetOwn, ServiceTypes
  <2>4. ~unkept' => ~unkept /\ \A s \in Semaphores : Keeps(c, s) => Keeps(c, s)'
    BY DEF GetOwn, ServiceTypes, Ownership, Keeps
  <2>. QED BY <2>1, <2>2, <2>3, <2>4, OwnershipStays
<1>4. Answers'
  BY <1>1 DEF GetOwn, ServiceTypes, Ownership, Answers, Of, Unanswered, Answered
<1>. QED BY <1>1, <1>2, <1>3, <1>4

LEMMA CreateKeeps ==
  ASSUME CallsInv, NEW c \in Callers, CreateSemaphore(c)
  PROVE  CallsInv'
<1>. USE WifiTaskAssumption DEF CallsInv, WifiTaskAssumption, Step, Return, answers
<1>1. /\ OneAtATime' /\ Lifecycle'
      /\ Served' = Served /\ UNCHANGED <<sends, accepted, to, stop>>
  BY QueueRests DEF CreateSemaphore, ServiceTypes, OneAtATime
<1>2. ServiceTypes'
  BY <1>1 DEF CreateSemaphore, ServiceTypes
<1>3. Ownership'
  <2>1. PICK s \in Semaphores : count[s] = None /\ count' = [count EXCEPT ![s] = 0] /\ held' = [held EXCEPT ![c] = s]
    BY DEF CreateSemaphore
  <2>2. OthersRest(c) /\ own' = own /\ own[c] = None /\ pc'[c] = "keep" /\ held'[c] = s /\ count'[s] # None
    BY <2>1 DEF CreateSemaphore, ServiceTypes, OthersRest
  <2>3. \A d \in Callers \ {c} : Of(d)' = Of(d) /\ s \notin Of(d)
    BY <2>1, <2>2 DEF OthersRest, Of, Ownership
  <2>4. Of(c)' = {s}
    BY <2>1, <2>2 DEF Of
  <2>5. \A n \in Semaphores : n # s => count'[n] = count[n]
    BY <2>1 DEF ServiceTypes
  <2>6. \A d \in Callers : \A n \in Of(d)' : count'[n] # None
    BY <2>2, <2>3, <2>4, <2>5, SemaphoresOf DEF Ownership
  <2>7. \A d, e \in Callers : d # e => Of(d)' \intersect Of(e)' = {}
    BY <2>3, <2>4 DEF Ownership
  <2>8. \A d \in Callers : Placement(d)'
    BY <2>1, <2>2 DEF OthersRest, Ownership, Placement
  <2>9. ~unkept' => \A n \in Semaphores : count'[n] # None => \E d \in Callers : Keeps(d, n)'
    <3>1. Keeps(c, s)'
      BY <2>2 DEF Keeps
    <3>2. ASSUME ~unkept, NEW n \in Semaphores, n # s, count[n] # None
          PROVE  \E d \in Callers : Keeps(d, n)'
      <4>1. PICK d \in Callers : Keeps(d, n)
        BY <3>2 DEF Ownership, Keeps
      <4>2. d # c
        BY <4>1, <2>2 DEF Keeps, CreateSemaphore
      <4>. QED BY <4>1, <4>2, <2>2 DEF Keeps, OthersRest
    <3>. QED BY <2>5, <3>1, <3>2 DEF CreateSemaphore
  <2>. QED BY <2>6, <2>7, <2>8, <2>9 DEF Ownership, Placement, Keeps
<1>4. Answers'
  BY <1>1 DEF CreateSemaphore, ServiceTypes, Ownership, Answers, Of, Unanswered, Answered
<1>. QED BY <1>1, <1>2, <1>3, <1>4

LEMMA CreateFailsKeeps ==
  ASSUME CallsInv, NEW c \in Callers, CreateSemaphoreFails(c)
  PROVE  CallsInv'
<1>. USE WifiTaskAssumption DEF CallsInv, WifiTaskAssumption, Step, Return, answers
<1>1. /\ OneAtATime' /\ Lifecycle'
      /\ Served' = Served /\ UNCHANGED <<sends, accepted, to, stop>>
  BY QueueRests DEF CreateSemaphoreFails, ServiceTypes, OneAtATime
<1>2. ServiceTypes'
  BY <1>1 DEF CreateSemaphoreFails, ServiceTypes
<1>3. Ownership'
  <2>1. OthersRest(c) /\ Of(c)' \subseteq Of(c)
    BY DEF CreateSemaphoreFails, ServiceTypes, OthersRest, Of
  <2>2. Placement(c)'
    BY DEF CreateSemaphoreFails, ServiceTypes, Ownership, Placement
  <2>3. \A s \in Semaphores : count'[s] # None <=> count[s] # None
    BY DEF CreateSemaphoreFails, ServiceTypes
  <2>4. ~unkept' => ~unkept /\ \A s \in Semaphores : Keeps(c, s) => Keeps(c, s)'
    BY DEF CreateSemaphoreFails, ServiceTypes, Ownership, Keeps
  <2>. QED BY <2>1, <2>2, <2>3, <2>4, OwnershipStays
<1>4. Answers'
  BY <1>1 DEF CreateSemaphoreFails, ServiceTypes, Ownership, Answers, Of, Unanswered, Answered
<1>. QED BY <1>1, <1>2, <1>3, <1>4

LEMMA KeepKeeps ==
  ASSUME CallsInv, NEW c \in Callers, KeepSemaphore(c)
  PROVE  CallsInv'
<1>. USE WifiTaskAssumption DEF CallsInv, WifiTaskAssumption, Step, Return, answers
<1>1. /\ OneAtATime' /\ Lifecycle'
      /\ Served' = Served /\ UNCHANGED <<sends, accepted, to, stop>>
  BY QueueRests DEF KeepSemaphore, ServiceTypes, OneAtATime
<1>2. ServiceTypes'
  BY <1>1 DEF KeepSemaphore, ServiceTypes
<1>3. Ownership'
  <2>1. OthersRest(c) /\ Of(c)' \subseteq Of(c)
    BY DEF KeepSemaphore, ServiceTypes, OthersRest, Of
  <2>2. Placement(c)'
    BY DEF KeepSemaphore, ServiceTypes, Ownership, Placement
  <2>3. \A s \in Semaphores : count'[s] # None <=> count[s] # None
    BY DEF KeepSemaphore, ServiceTypes
  <2>4. ~unkept' => ~unkept /\ \A s \in Semaphores : Keeps(c, s) => Keeps(c, s)'
    BY DEF KeepSemaphore, ServiceTypes, Ownership, Keeps
  <2>. QED BY <2>1, <2>2, <2>3, <2>4, OwnershipStays
<1>4. Answers'
  BY <1>1 DEF KeepSemaphore, ServiceTypes, Ownership, Answers, Of, Unanswered, Answered
<1>. QED BY <1>1, <1>2, <1>3, <1>4

LEMMA KeepFailsKeeps ==
  ASSUME CallsInv, NEW c \in Callers, KeepSemaphoreFails(c)
  PROVE  CallsInv'
<1>. USE WifiTaskAssumption DEF CallsInv, WifiTaskAssumption, Step, Return, answers
<1>1. /\ OneAtATime' /\ Lifecycle'
      /\ Served' = Served /\ UNCHANGED <<sends, accepted, to, stop>>
  BY QueueRests DEF KeepSemaphoreFails, ServiceTypes, OneAtATime
<1>2. ServiceTypes'
  BY <1>1 DEF KeepSemaphoreFails, ServiceTypes
<1>3. Ownership'
  <2>1. OthersRest(c) /\ Of(c)' \subseteq Of(c)
    BY DEF KeepSemaphoreFails, ServiceTypes, OthersRest, Of
  <2>2. Placement(c)'
    BY DEF KeepSemaphoreFails, ServiceTypes, Ownership, Placement
  <2>3. \A s \in Semaphores : count'[s] # None <=> count[s] # None
    BY DEF KeepSemaphoreFails, ServiceTypes
  <2>4. ~unkept' => ~unkept /\ \A s \in Semaphores : Keeps(c, s) => Keeps(c, s)'
    BY DEF KeepSemaphoreFails, ServiceTypes, Ownership, Keeps
  <2>. QED BY <2>1, <2>2, <2>3, <2>4, OwnershipStays
<1>4. Answers'
  BY <1>1 DEF KeepSemaphoreFails, ServiceTypes, Ownership, Answers, Of, Unanswered, Answered
<1>. QED BY <1>1, <1>2, <1>3, <1>4

LEMMA EndsKeeps ==
  ASSUME CallsInv, NEW c \in Callers, ThreadEnds(c)
  PROVE  CallsInv'
<1>. USE WifiTaskAssumption DEF CallsInv, WifiTaskAssumption, Step, Return, answers
<1>1. /\ OneAtATime' /\ Lifecycle'
      /\ Served' = Served /\ UNCHANGED <<sends, accepted, to, stop>>
  BY QueueRests DEF ThreadEnds, ServiceTypes, OneAtATime
<1>2. ServiceTypes'
  BY <1>1 DEF ThreadEnds, ServiceTypes
<1>3. Ownership'
  <2>. DEFINE gone == own[c]
  <2>1. /\ OthersRest(c) /\ own'[c] = None /\ held' = held /\ held[c] = None /\ pc' = pc /\ pc[c] = "idle"
        /\ gone \in Semaphores /\ Of(c) = {gone} /\ unkept' = unkept
    BY DEF ThreadEnds, ServiceTypes, Ownership, OthersRest, Of
  <2>2. count'[gone] = None /\ \A n \in Semaphores : n # gone => count'[n] = count[n]
    BY <2>1 DEF ThreadEnds, ServiceTypes
  <2>. HIDE DEF gone
  <2>3. \A d \in Callers \ {c} : Of(d)' = Of(d) /\ gone \notin Of(d)
    BY <2>1 DEF OthersRest, Of, Ownership
  <2>4. Of(c)' = {}
    BY <2>1 DEF Of
  <2>5. \A d \in Callers : \A n \in Of(d)' : count'[n] # None
    BY <2>2, <2>3, <2>4, SemaphoresOf DEF Ownership
  <2>6. \A d, e \in Callers : d # e => Of(d)' \intersect Of(e)' = {}
    BY <2>3, <2>4 DEF Ownership
  <2>7. \A d \in Callers : Placement(d)'
    BY <2>1 DEF OthersRest, Ownership, Placement
  <2>8. ~unkept' => \A n \in Semaphores : count'[n] # None => \E d \in Callers : Keeps(d, n)'
    <3>1. ASSUME ~unkept, NEW n \in Semaphores, n # gone, count[n] # None
          PROVE  \E d \in Callers : Keeps(d, n)'
      <4>1. PICK d \in Callers : Keeps(d, n)
        BY <3>1 DEF Ownership, Keeps
      <4>2. d # c
        BY <3>1, <4>1, <2>1 DEF Keeps, gone
      <4>. QED BY <4>1, <4>2, <2>1 DEF Keeps, OthersRest
    <3>. QED BY <2>1, <2>2, <3>1
  <2>. QED BY <2>5, <2>6, <2>7, <2>8 DEF Ownership, Placement, Keeps
<1>4. Answers'
  <2>. DEFINE gone == own[c]
  <2>1. /\ OthersRest(c) /\ own'[c] = None /\ held[c] = None /\ pc[c] = "idle"
        /\ gone \in Semaphores /\ Of(c) = {gone} /\ UNCHANGED <<pc, held, request, told, abandoned>>
    BY DEF ThreadEnds, ServiceTypes, Ownership, OthersRest, Of
  <2>2. \A n \in Semaphores : n # gone => count'[n] = count[n]
    BY <2>1 DEF ThreadEnds, ServiceTypes
  <2>. HIDE DEF gone
  <2>3. \A d \in Callers \ {c} : Of(d)' = Of(d) /\ gone \notin Of(d) /\ Of(d) \subseteq Semaphores
    BY <2>1, SemaphoresOf DEF OthersRest, Of, Ownership
  <2>4. Of(c)' = {}
    BY <2>1 DEF Of
  <2>5. \A d \in Callers : held[d] # None => held[d] \in Of(d) /\ d # c
    BY <2>1 DEF Of
  <2>6. \A d \in Callers : held[d] # None => count'[held[d]] = count[held[d]]
    BY <2>2, <2>3, <2>5
  <2>. SUFFICES ASSUME ~abandoned PROVE Answers'
    BY <2>1 DEF Answers
  <2>7. \A d \in Callers : pc[d] # "sent" => \A s \in Of(d)' : count'[s] = 0
    BY <2>2, <2>3, <2>4 DEF Answers
  <2>8. \A d \in Callers : pc[d] = "sent" /\ held[d] # None => Unanswered(d)' \/ Answered(d)'
    BY <1>1, <2>1, <2>6 DEF Answers, Unanswered, Answered
  <2>. QED BY <1>1, <2>1, <2>7, <2>8 DEF Answers
<1>. QED BY <1>1, <1>2, <1>3, <1>4

LEMMA TakeKeeps ==
  ASSUME CallsInv, NEW c \in Callers, Take(c)
  PROVE  CallsInv'
<1>. USE WifiTaskAssumption DEF CallsInv, WifiTaskAssumption, Step, Return, answers
<1>1. /\ OneAtATime' /\ Lifecycle'
      /\ Served' = Served /\ UNCHANGED <<sends, accepted, to, stop>>
  <2>1. \A s \in Semaphores : count'[s] # None => count'[s] <= served
    <3>1. held[c] \in Semaphores /\ count[held[c]] \in Nat \ {0} /\ count[held[c]] <= served /\ served \in Nat
      BY DEF Take, Exists, ServiceTypes, OneAtATime
    <3>2. /\ count'[held[c]] = count[held[c]] - 1
          /\ \A s \in Semaphores : s # held[c] => count'[s] = count[s]
      BY <3>1 DEF Take, ServiceTypes
    <3>. QED BY <3>1, <3>2 DEF OneAtATime
  <2>. QED BY <2>1, QueueRests DEF Take
<1>2. ServiceTypes'
  BY <1>1 DEF Take, ServiceTypes, Exists
<1>3. Ownership'
  <2>1. OthersRest(c) /\ Of(c)' \subseteq Of(c)
    BY DEF Take, ServiceTypes, OthersRest, Of
  <2>2. Placement(c)'
    BY DEF Take, ServiceTypes, Ownership, Placement
  <2>3. \A s \in Semaphores : count'[s] # None <=> count[s] # None
    BY DEF Take, ServiceTypes, Exists
  <2>4. ~unkept' => ~unkept /\ \A s \in Semaphores : Keeps(c, s) => Keeps(c, s)'
    BY DEF Take, ServiceTypes, Ownership, Keeps
  <2>. QED BY <2>1, <2>2, <2>3, <2>4, OwnershipStays
<1>4. Answers'
  <2>. DEFINE s == held[c]
  <2>1. /\ OthersRest(c) /\ pc[c] = "sent" /\ pc'[c] = "idle" /\ held'[c] = None /\ own'[c] = own[c]
        /\ s \in Semaphores /\ count[s] \in Nat \ {0} /\ count'[s] = count[s] - 1
        /\ abandoned' = abandoned /\ told' = told \union {request[c]}
        /\ \A n \in Semaphores : n # s => count'[n] = count[n]
        /\ \A d \in Callers \ {c} : request'[d] = request[d]
    BY DEF Take, Exists, ServiceTypes, OthersRest
  <2>2. own[c] \in {None, s} /\ s \in Of(c) /\ s # None
    BY <2>1 DEF Ownership, Of
  <2>. HIDE DEF s
  <2>3. \A d \in Callers \ {c} : Of(d)' = Of(d) /\ s \notin Of(d) /\ Of(d) \subseteq Semaphores
    BY <2>1, <2>2, SemaphoresOf DEF OthersRest, Of, Ownership
  <2>4. Of(c)' \subseteq {s}
    BY <2>1, <2>2 DEF Of
  <2>. SUFFICES ASSUME ~abandoned PROVE Answers'
    BY <2>1 DEF Answers
  <2>5. count[s] = 1 /\ request[c] \in Served /\ to[request[c]] = None
    BY <2>1, <2>2 DEF Answers, Answered, Unanswered, s
  <2>6. told' \subseteq Served'
    BY <1>1, <2>1, <2>5 DEF Answers
  <2>7. \A d \in Callers : pc'[d] # "sent" => \A n \in Of(d)' : count'[n] = 0
    BY <2>1, <2>3, <2>4, <2>5 DEF Answers, OthersRest
  <2>8. \A d \in Callers : pc'[d] = "sent" /\ held'[d] # None => Unanswered(d)' \/ Answered(d)'
    <3>. SUFFICES ASSUME NEW d \in Callers \ {c}, pc[d] = "sent", held[d] # None
                  PROVE  Unanswered(d)' \/ Answered(d)'
      BY <2>1 DEF OthersRest
    <3>1. held'[d] = held[d] /\ request'[d] = request[d] /\ count'[held[d]] = count[held[d]]
      BY <2>1, <2>3 DEF OthersRest, Of
    <3>. QED BY <1>1, <3>1 DEF Answers, Unanswered, Answered
  <2>9. ASSUME NEW n \in 1 .. sends, to[n] # None
        PROVE  \E d \in Callers : pc'[d] = "sent" /\ request'[d] = n /\ held'[d] = to[n]
    <3>1. PICK d \in Callers : pc[d] = "sent" /\ request[d] = n /\ held[d] = to[n]
      BY <2>9 DEF Answers
    <3>2. d # c
      BY <2>5, <2>9, <3>1
    <3>. QED BY <2>1, <3>1, <3>2 DEF OthersRest
  <2>. QED BY <1>1, <2>6, <2>7, <2>8, <2>9 DEF Answers
<1>. QED BY <1>1, <1>2, <1>3, <1>4

LEMMA TakeFailsKeeps ==
  ASSUME CallsInv, NEW c \in Callers, TakeFails(c)
  PROVE  CallsInv'
<1>. USE WifiTaskAssumption DEF CallsInv, WifiTaskAssumption, Step, Return, answers
<1>1. /\ OneAtATime' /\ Lifecycle'
      /\ Served' = Served /\ UNCHANGED <<sends, accepted, to, stop>>
  BY QueueRests DEF TakeFails, ServiceTypes, OneAtATime
<1>2. ServiceTypes'
  BY <1>1 DEF TakeFails, ServiceTypes, Exists
<1>3. Ownership'
  <2>1. OthersRest(c) /\ Of(c)' \subseteq Of(c)
    BY DEF TakeFails, ServiceTypes, OthersRest, Of
  <2>2. Placement(c)'
    BY DEF TakeFails, ServiceTypes, Ownership, Placement
  <2>3. \A s \in Semaphores : count'[s] # None <=> count[s] # None
    BY DEF TakeFails, ServiceTypes, Exists
  <2>4. ~unkept' => ~unkept /\ \A s \in Semaphores : Keeps(c, s) => Keeps(c, s)'
    BY DEF TakeFails, ServiceTypes, Ownership, Keeps
  <2>. QED BY <2>1, <2>2, <2>3, <2>4, OwnershipStays
<1>4. Answers'
  BY <1>1 DEF TakeFails, ServiceTypes, Ownership, Answers, Of, Unanswered, Answered, Exists
<1>. QED BY <1>1, <1>2, <1>3, <1>4

LEMMA AskKeeps ==
  ASSUME MessagesInv, QueueShape, CallsInv, NEW c \in Callers,
         NEW urgent \in BOOLEAN, NEW forever \in BOOLEAN, NEW last \in BOOLEAN,
         Ask(c, urgent, forever, last)
  PROVE  CallsInv'
<1>. USE WifiTaskAssumption DEF CallsInv, WifiTaskAssumption, MayAsk, Step, answers
<1>1. /\ pc[c] = "have" /\ service = "up" /\ pc' = [pc EXCEPT ![c] = "sent"]
      /\ patient' = [patient EXCEPT ![c] = forever] /\ to' = Append(to, held[c])
      /\ UNCHANGED <<task, own, held, count, served, told, abandoned, unkept>>
  BY DEF Ask
<1>2. request' = [request EXCEPT ![c] = sends + 1]
  BY DEF Ask, NewMessage
<1>3. (stop' = sends + 1 /\ service' = "stopping") \/ UNCHANGED <<stop, service>>
  BY DEF Ask, NewMessage
<1>4. /\ sends' = sends + 1 /\ sends \in Nat /\ accepted' = accepted \union {sends + 1}
      /\ UNCHANGED owner /\ Served' = Served /\ Coming' \subseteq Coming \union {sends + 1}
      /\ \/ waiting # <<>> /\ waiting' = Tail(waiting) /\ Len(received') = Len(received) + 1
         \/ UNCHANGED <<waiting, received>>
  BY <1>1, SendDoes DEF Ask
<1>5. accepted \subseteq 1 .. sends /\ Len(received) \in Nat
  BY DEF MessagesInv, QueueTypes
<1>. DEFINE n == sends + 1
            s == held[c]
<1>6. s \in Semaphores \union {None} /\ to \in Seq(Semaphores \union {None}) /\ Len(to) = sends
  BY DEF ServiceTypes
<1>7. to' \in Seq(Semaphores \union {None}) /\ Len(to') = n /\ to'[n] = s
      /\ \A i \in 1 .. sends : to'[i] = to[i]
  BY <1>1, <1>6, OneMore
<1>8. n \in Nat /\ n # None /\ n \notin 1 .. sends /\ 1 .. sends' = 1 .. sends \union {n}
  BY <1>4
<1>. HIDE DEF n, s
<1>9. ServiceTypes'
  <2>1. stop' \in 1 .. sends' \union {None}
    BY <1>3, <1>4, <1>8 DEF ServiceTypes, n
  <2>2. request' \in [Callers -> accepted' \union {None}] /\ \A d \in Callers : pc'[d] = "sent" => request'[d] # None
    BY <1>1, <1>2, <1>4, <1>8 DEF ServiceTypes, n
  <2>. QED BY <1>1, <1>4, <1>7, <2>1, <2>2 DEF ServiceTypes, n
<1>10. OneAtATime'
  <2>1. CASE waiting # <<>> /\ waiting' = Tail(waiting) /\ Len(received') = Len(received) + 1
    <3>1. waiting' = <<>>
      BY <2>1 DEF OneAtATime, QueueShape
    <3>2. served = Len(received) /\ task = "running" /\ Len(waiting') = 0
      BY <2>1, <3>1 DEF OneAtATime
    <3>. QED BY <1>1, <1>5, <2>1, <3>1, <3>2 DEF OneAtATime
  <2>2. CASE UNCHANGED <<waiting, received>>
    BY <1>1, <2>2 DEF OneAtATime
  <2>. QED BY <1>4, <2>1, <2>2
<1>11. Lifecycle'
  <2>1. stop \in 1 .. sends \union {None} /\ stop # n
    BY <1>8 DEF ServiceTypes
  <2>. QED BY <1>1, <1>3, <1>4, <2>1 DEF Lifecycle, owner, n
<1>12. Ownership'
  <2>1. OthersRest(c) /\ Of(c)' = Of(c)
    BY <1>1 DEF OthersRest, Of, ServiceTypes
  <2>2. Placement(c)'
    BY <1>1 DEF ServiceTypes, Ownership, Placement
  <2>3. ~unkept' => ~unkept /\ \A i \in Semaphores : Keeps(c, i) => Keeps(c, i)'
    BY <1>1 DEF Keeps
  <2>. QED BY <1>1, <2>1, <2>2, <2>3, OwnershipStays
<1>13. Answers'
  <2>. SUFFICES ASSUME ~abandoned PROVE Answers'
    BY <1>1 DEF Answers
  <2>1. /\ pc'[c] = "sent" /\ request'[c] = n /\ held'[c] = s /\ to'[n] = s
        /\ \A d \in Callers \ {c} : pc'[d] = pc[d] /\ request'[d] = request[d]
    BY <1>1, <1>2, <1>7 DEF ServiceTypes, n, s
  <2>2. told' \subseteq Served'
    BY <1>1, <1>4 DEF Answers
  <2>3. \A d \in Callers : pc'[d] # "sent" => \A i \in Of(d)' : count'[i] = 0
    BY <1>1, <2>1 DEF Answers, Of
  <2>4. \A d \in Callers : pc'[d] = "sent" /\ held'[d] # None => Unanswered(d)' \/ Answered(d)'
    <3>1. ASSUME s # None PROVE Unanswered(c)'
      <4>1. s \in Of(c)
        BY <3>1 DEF Of, s
      <4>2. count[s] = 0 /\ UNCHANGED count
        BY <1>1, <4>1 DEF Answers
      <4>. QED BY <2>1, <4>2 DEF Unanswered
    <3>2. ASSUME NEW d \in Callers \ {c}, pc[d] = "sent", held[d] # None
          PROVE  Unanswered(d)' \/ Answered(d)'
      <4>1. to'[request[d]] = to[request[d]]
        BY <1>5, <1>7, <3>2 DEF ServiceTypes
      <4>. QED BY <1>1, <1>4, <2>1, <3>2, <4>1 DEF Answers, Unanswered, Answered
    <3>. QED BY <1>1, <2>1, <3>1, <3>2
  <2>5. ASSUME NEW i \in 1 .. sends', to'[i] # None
        PROVE  \E d \in Callers : pc'[d] = "sent" /\ request'[d] = i /\ held'[d] = to'[i]
    <3>1. CASE i = n
      BY <2>1, <3>1
    <3>2. CASE i \in 1 .. sends
      <4>1. PICK d \in Callers : pc[d] = "sent" /\ request[d] = i /\ held[d] = to[i]
        BY <1>7, <2>5, <3>2 DEF Answers
      <4>. QED BY <1>1, <1>7, <2>1, <3>2, <4>1
    <3>. QED BY <1>8, <3>1, <3>2
  <2>. QED BY <2>2, <2>3, <2>4, <2>5 DEF Answers
<1>. QED BY <1>9, <1>10, <1>11, <1>12, <1>13

LEMMA AskRefusedKeeps ==
  ASSUME MessagesInv, CallsInv, NEW c \in Callers, AskRefused(c)
  PROVE  CallsInv'
<1>. USE WifiTaskAssumption DEF CallsInv, WifiTaskAssumption, MayAsk, Step, Return, creator, answers
<1>1. /\ pc[c] = "have" /\ pc' = [pc EXCEPT ![c] = "idle"] /\ held' = [held EXCEPT ![c] = None]
      /\ request' = [request EXCEPT ![c] = None] /\ patient' = [patient EXCEPT ![c] = FALSE]
      /\ to' = Append(to, None)
      /\ UNCHANGED <<service, task, own, count, stop, served, told, abandoned, unkept>>
  BY DEF AskRefused
<1>2. /\ sends' = sends + 1
      /\ UNCHANGED <<owner, life, pending, waiting, accepted, received>>
  BY DEF AskRefused, SendRefused, BeginSend, kernel, owner
<1>3. sends \in Nat /\ accepted \subseteq 1 .. sends
  BY DEF MessagesInv, QueueTypes
<1>4. Served' = Served /\ Coming' = Coming
  BY <1>1, <1>2 DEF Served, Coming, Ids
<1>5. to \in Seq(Semaphores \union {None}) /\ Len(to) = sends
  BY DEF ServiceTypes
<1>6. to' \in Seq(Semaphores \union {None}) /\ Len(to') = sends + 1 /\ to'[sends + 1] = None
      /\ \A i \in 1 .. sends : to'[i] = to[i]
  BY <1>1, <1>5, OneMore
<1>7. 1 .. sends' = 1 .. sends \union {sends + 1}
  BY <1>2, <1>3
<1>8. ServiceTypes'
  BY <1>1, <1>2, <1>6, <1>7 DEF ServiceTypes
<1>9. OneAtATime' /\ Lifecycle'
  BY <1>1, <1>2, <1>4 DEF OneAtATime, Lifecycle
<1>10. Ownership'
  <2>1. OthersRest(c) /\ Of(c)' \subseteq Of(c)
    BY <1>1 DEF OthersRest, Of, ServiceTypes
  <2>2. Placement(c)'
    BY <1>1 DEF ServiceTypes, Placement
  <2>3. ~unkept' => ~unkept /\ \A i \in Semaphores : Keeps(c, i) => Keeps(c, i)'
    BY <1>1 DEF Keeps
  <2>. QED BY <1>1, <2>1, <2>2, <2>3, OwnershipStays
<1>11. Answers'
  <2>. SUFFICES ASSUME ~abandoned PROVE Answers'
    BY <1>1 DEF Answers
  <2>1. /\ pc'[c] = "idle" /\ Of(c)' \subseteq Of(c)
        /\ \A d \in Callers \ {c} : /\ pc'[d] = pc[d] /\ request'[d] = request[d]
                                    /\ held'[d] = held[d] /\ Of(d)' = Of(d)
    BY <1>1 DEF ServiceTypes, Of
  <2>2. told' \subseteq Served'
    BY <1>1, <1>4 DEF Answers
  <2>3. \A d \in Callers : pc'[d] # "sent" => \A i \in Of(d)' : count'[i] = 0
    BY <1>1, <2>1 DEF Answers
  <2>4. \A d \in Callers : pc'[d] = "sent" /\ held'[d] # None => Unanswered(d)' \/ Answered(d)'
    <3>. SUFFICES ASSUME NEW d \in Callers \ {c}, pc[d] = "sent", held[d] # None
                  PROVE  Unanswered(d)' \/ Answered(d)'
      BY <2>1
    <3>1. to'[request[d]] = to[request[d]]
      BY <1>3, <1>6 DEF ServiceTypes
    <3>2. Unanswered(d) \/ Answered(d)
      BY DEF Answers
    <3>3. request'[d] = request[d] /\ held'[d] = held[d] /\ UNCHANGED count
      BY <1>1, <2>1
    <3>. QED BY <1>4, <3>1, <3>2, <3>3 DEF Unanswered, Answered
  <2>5. ASSUME NEW i \in 1 .. sends', to'[i] # None
        PROVE  \E d \in Callers : pc'[d] = "sent" /\ request'[d] = i /\ held'[d] = to'[i]
    <3>1. i \in 1 .. sends /\ to'[i] = to[i]
      BY <1>6, <1>7, <2>5
    <3>2. PICK d \in Callers : pc[d] = "sent" /\ request[d] = i /\ held[d] = to[i]
      BY <2>5, <3>1 DEF Answers
    <3>. QED BY <1>1, <2>1, <3>1, <3>2
  <2>. QED BY <2>2, <2>3, <2>4, <2>5 DEF Answers
<1>. QED BY <1>8, <1>9, <1>10, <1>11

(* What the answer is about: the one message that is received and not        *)
(* answered.                                                                *)
LEMMA AnswerDoes ==
  ASSUME MessagesInv, CallsInv, Answer
  PROVE  /\ served + 1 = Len(received) /\ received[served + 1] \in 1 .. sends
         /\ received[served + 1] \in Coming
         /\ Served' = Served \union {received[served + 1]} /\ Coming' \subseteq Coming
         /\ waiting = <<>> /\ served \in Nat
<1>1. served < Len(received) /\ served' = served + 1 /\ UNCHANGED <<pending, received>>
  BY DEF Answer, vars, kernel, history
<1>2. served \in Nat /\ served + 1 = Len(received) /\ waiting = <<>>
  BY <1>1 DEF CallsInv, OneAtATime, MessagesInv, QueueTypes
<1>. DEFINE id == received[served + 1]
<1>3. id \in Range(received)
  BY <1>2 DEF Range, MessagesInv, QueueTypes
<1>4. id \in 1 .. sends
  BY <1>3 DEF MessagesInv, QueueTypes, AcceptedOnce
<1>5. 1 .. served' = 1 .. served \union {served + 1} /\ served + 1 .. Len(received) = {served + 1}
  BY <1>1, <1>2
<1>6. served' + 1 .. Len(received') = {}
  BY <1>1, <1>2
<1>. QED BY <1>1, <1>2, <1>4, <1>5, <1>6 DEF Served, Coming, Ids

LEMMA AnswerKeeps ==
  ASSUME MessagesInv, CallsInv, Answer
  PROVE  CallsInv'
<1>. USE WifiTaskAssumption DEF CallsInv, WifiTaskAssumption, threads
<1>. DEFINE id == received[served + 1]
            s == to[id]
<1>1. /\ served + 1 = Len(received) /\ id \in 1 .. sends /\ id \in Coming
      /\ Served' = Served \union {id} /\ Coming' \subseteq Coming
      /\ waiting = <<>> /\ served \in Nat
  BY AnswerDoes
<1>2. /\ task = "running" /\ served' = served + 1 /\ to' = [to EXCEPT ![id] = None]
      /\ count' = IF Exists(s) THEN [count EXCEPT ![s] = @ + 1] ELSE count
      /\ task' = IF id = stop THEN "none" ELSE task
      /\ UNCHANGED <<service, own, pc, held, request, patient, stop, told, abandoned, unkept>>
  BY DEF Answer
<1>3. UNCHANGED <<life, pending, waiting, received, sends, accepted>>
  BY DEF Answer, vars, owner, kernel, history
<1>4. to \in Seq(Semaphores \union {None}) /\ Len(to) = sends /\ count \in [Semaphores -> Nat \union {None}]
  BY DEF ServiceTypes
<1>. HIDE DEF id
<1>5. /\ s \in Semaphores \union {None} /\ to'[id] = None
      /\ to' \in Seq(Semaphores \union {None}) /\ Len(to') = sends
      /\ \A i \in 1 .. sends : i # id => to'[i] = to[i]
  BY <1>1, <1>2, <1>4
<1>. HIDE DEF s
<1>6. /\ count' \in [Semaphores -> Nat \union {None}]
      /\ \A i \in Semaphores : i # s => count'[i] = count[i]
      /\ \A i \in Semaphores : count'[i] # None <=> count[i] # None
      /\ s # None /\ count[s] # None => count'[s] = count[s] + 1
      /\ s = None => count' = count
  <2>1. CASE Exists(s)
    BY <1>2, <1>4, <1>5, <2>1 DEF Exists
  <2>2. CASE ~Exists(s)
    BY <1>2, <1>4, <2>2 DEF Exists
  <2>. QED BY <2>1, <2>2
<1>7. ServiceTypes'
  BY <1>2, <1>3, <1>5, <1>6 DEF ServiceTypes
<1>8. OneAtATime'
  <2>1. \A i \in Semaphores : count'[i] # None => count'[i] <= served'
    <3>. SUFFICES ASSUME NEW i \in Semaphores, count'[i] # None PROVE count'[i] <= served'
      OBVIOUS
    <3>1. count[i] # None /\ count[i] \in Nat /\ count[i] <= served
      BY <1>4, <1>6 DEF OneAtATime
    <3>2. count'[i] \in {count[i], count[i] + 1}
      BY <1>6, <3>1
    <3>. QED BY <1>1, <1>2, <3>1, <3>2
  <2>2. Len(waiting') <= 1
    BY <1>3 DEF OneAtATime
  <2>. QED BY <1>1, <1>2, <1>3, <2>1, <2>2 DEF OneAtATime
<1>9. Lifecycle'
  BY <1>1, <1>2, <1>3 DEF Lifecycle
<1>10. \A d \in Callers : Of(d)' = Of(d) /\ Of(d) \subseteq Semaphores
  BY <1>2, SemaphoresOf DEF Of
<1>11. Ownership'
  <2>1. \A d \in Callers : \A i \in Of(d)' : count'[i] # None
    BY <1>6, <1>10 DEF Ownership
  <2>2. ~unkept' => \A i \in Semaphores : count'[i] # None =>
          \E c \in Callers : own'[c] = i \/ (pc'[c] = "keep" /\ held'[c] = i)
    BY <1>2, <1>6 DEF Ownership
  <2>. QED BY <1>2, <1>10, <2>1, <2>2 DEF Ownership
<1>12. Answers'
  <2>. SUFFICES ASSUME ~abandoned PROVE Answers'
    BY <1>2 DEF Answers
  <2>1. told' \subseteq Served'
    BY <1>1, <1>2 DEF Answers
  <2>2. \A i \in 1 .. sends : to'[i] # None =>
          \E d \in Callers : pc'[d] = "sent" /\ request'[d] = i /\ held'[d] = to'[i]
    BY <1>2, <1>5 DEF Answers
  <2>3. CASE s = None
    <3>1. \A i \in 1 .. sends : to'[i] = to[i]
      BY <1>5, <2>3 DEF s
    <3>2. \A d \in Callers : pc'[d] # "sent" => \A i \in Of(d)' : count'[i] = 0
      BY <1>2, <1>6, <1>10, <2>3 DEF Answers
    <3>3. ASSUME NEW d \in Callers, pc[d] = "sent", held[d] # None
          PROVE  Unanswered(d)' \/ Answered(d)'
      <4>1. request[d] \in 1 .. sends
        BY <3>3 DEF ServiceTypes, MessagesInv, QueueTypes
      <4>2. Unanswered(d) \/ Answered(d)
        BY <3>3 DEF Answers
      <4>3. to'[request[d]] = to[request[d]]
        BY <3>1, <4>1
      <4>. QED BY <1>1, <1>2, <1>6, <2>3, <4>2, <4>3 DEF Unanswered, Answered
    <3>. QED BY <1>2, <1>3, <2>1, <2>2, <3>2, <3>3 DEF Answers
  <2>4. CASE s # None
    <3>1. PICK c \in Callers : pc[c] = "sent" /\ request[c] = id /\ held[c] = s
      BY <1>1, <2>4 DEF Answers, s
    <3>2. s \in Of(c) /\ count[s] = 0
      BY <2>4, <3>1 DEF Answers, Unanswered, Answered, Of, s
    <3>3. count'[s] = 1
      BY <1>6, <2>4, <3>2
    <3>4. Answered(c)'
      BY <1>1, <1>2, <1>5, <3>1, <3>3 DEF Answered
    <3>5. \A d \in Callers \ {c} : s \notin Of(d)
      BY <3>2 DEF Ownership
    <3>6. \A d \in Callers : pc'[d] # "sent" => \A i \in Of(d)' : count'[i] = 0
      BY <1>2, <1>6, <1>10, <3>1, <3>5 DEF Answers
    <3>7. ASSUME NEW d \in Callers \ {c}, pc[d] = "sent", held[d] # None
          PROVE  Unanswered(d)' \/ Answered(d)'
      <4>1. request[d] \in 1 .. sends
        BY <3>7 DEF ServiceTypes, MessagesInv, QueueTypes
      <4>2. Unanswered(d) \/ Answered(d)
        BY <3>7 DEF Answers
      <4>3. held[d] # s /\ held[d] \in Semaphores
        BY <1>10, <3>5, <3>7 DEF Of
      <4>4. request[d] # id
        BY <2>4, <4>2, <4>3 DEF Unanswered, Answered, s
      <4>5. to'[request[d]] = to[request[d]] /\ count'[held[d]] = count[held[d]]
        BY <1>5, <1>6, <4>1, <4>3, <4>4
      <4>. QED BY <1>1, <1>2, <4>2, <4>5 DEF Unanswered, Answered
    <3>. QED BY <1>2, <1>3, <2>1, <2>2, <3>4, <3>6, <3>7 DEF Answers
  <2>. QED BY <2>3, <2>4
<1>. QED BY <1>7, <1>8, <1>9, <1>11, <1>12

------------------------------------------------------------------------------
LEMMA TaskInit == WifiInit => TaskInv
<1>. SUFFICES ASSUME WifiInit PROVE TaskInv
  OBVIOUS
<1>. USE WifiTaskAssumption DEF WifiTaskAssumption
<1>1. Init
  BY DEF WifiInit
<1>2. MessagesInv /\ QueueShape
  BY <1>1, MessagesInit, ShapeInit
<1>3. Len(received) = 0 /\ Len(waiting) = 0 /\ Len(to) = 0
  BY DEF WifiInit, Init
<1>4. Served = {} /\ Coming = {}
  BY <1>3 DEF WifiInit, Init, Served, Coming, Ids
<1>5. ServiceTypes
  <2>1. to \in Seq(Semaphores \union {None}) /\ Len(to) = sends
    BY <1>3 DEF WifiInit, Init
  <2>2. told \subseteq accepted /\ abandoned \in BOOLEAN /\ unkept \in BOOLEAN
    BY DEF WifiInit, Init
  <2>. QED BY <2>1, <2>2 DEF WifiInit, ServiceTypes
<1>6. OneAtATime /\ Lifecycle
  BY <1>3, <1>4 DEF WifiInit, Init, OneAtATime, Lifecycle
<1>7. \A c \in Callers : Of(c) = {} /\ pc[c] = "idle" /\ held[c] = None
  BY DEF WifiInit, Of
<1>8. Ownership
  BY <1>7 DEF WifiInit, Ownership
<1>9. Answers
  BY <1>7 DEF WifiInit, Init, Answers
<1>. QED BY <1>2, <1>5, <1>6, <1>8, <1>9 DEF TaskInv, CallsInv

LEMMA TaskStep == TaskInv /\ [WifiNext]_wifiVars => TaskInv'
<1>. SUFFICES ASSUME TaskInv, [WifiNext]_wifiVars PROVE TaskInv'
  OBVIOUS
<1>1. MessagesInv /\ QueueShape /\ CallsInv
  BY DEF TaskInv
<1>2. MessagesInv' /\ QueueShape'
  BY <1>1, StepOfQueue, MessagesStep, ShapeStep
<1>. SUFFICES CallsInv'
  BY <1>2 DEF TaskInv
<1>3. CASE MakeQueue \/ DropQueue
  BY <1>1, <1>3, QueueKeeps
<1>4. CASE Start
  BY <1>1, <1>4, StartKeeps
<1>5. ASSUME NEW c \in Callers, Call(c)
      PROVE  CallsInv'
  <2>1. CASE GetOwn(c)
    BY <1>1, <2>1, GetOwnKeeps
  <2>2. CASE CreateSemaphore(c)
    BY <1>1, <2>2, CreateKeeps
  <2>3. CASE CreateSemaphoreFails(c)
    BY <1>1, <2>3, CreateFailsKeeps
  <2>4. CASE KeepSemaphore(c)
    BY <1>1, <2>4, KeepKeeps
  <2>5. CASE KeepSemaphoreFails(c)
    BY <1>1, <2>5, KeepFailsKeeps
  <2>6. ASSUME NEW urgent \in BOOLEAN, NEW forever \in BOOLEAN, NEW last \in BOOLEAN,
               Ask(c, urgent, forever, last)
        PROVE  CallsInv'
    BY <1>1, <2>6, AskKeeps
  <2>7. CASE AskRefused(c)
    BY <1>1, <2>7, AskRefusedKeeps
  <2>. QED BY <1>5, <2>1, <2>2, <2>3, <2>4, <2>5, <2>6, <2>7 DEF Call
<1>6. ASSUME NEW c \in Callers, Wait(c) \/ ThreadEnds(c)
      PROVE  CallsInv'
  BY <1>1, <1>6, TakeKeeps, TakeFailsKeeps, EndsKeeps DEF Wait
<1>7. CASE Listen
  BY <1>1, <1>7, ListenKeeps
<1>8. CASE GivesUpListening
  BY <1>1, <1>8, GivesUpKeeps
<1>9. CASE Answer
  BY <1>1, <1>9, AnswerKeeps
<1>10. CASE UNCHANGED wifiVars
  <2>1. UNCHANGED <<vars, threads, count, to, stop, answers, creator>>
    BY <1>10 DEF wifiVars, serviceVars
  <2>2. UNCHANGED <<life, pending, waiting, sends, accepted, received, service, task,
                    served, told, abandoned, unkept>>
    BY <2>1 DEF vars, owner, kernel, history, creator, answers
  <2>3. Served' = Served /\ Coming' = Coming
    BY <2>2 DEF Served, Coming, Ids
  <2>4. ServiceTypes' /\ Ownership' /\ Answers'
    BY <1>1, <2>1, <2>2, <2>3, ThreadsRest
  <2>5. OneAtATime' /\ Lifecycle'
    BY <1>1, <2>1, <2>2, <2>3 DEF CallsInv, OneAtATime, Lifecycle
  <2>. QED BY <2>4, <2>5 DEF CallsInv
<1>. QED BY <1>3, <1>4, <1>5, <1>6, <1>7, <1>8, <1>9, <1>10 DEF WifiNext

LEMMA TaskInvHolds == WifiSpec => []TaskInv
BY TaskInit, TaskStep, PTL DEF WifiSpec

(* No more is received than was sent.                                       *)
LEMMA ReceivedBound ==
  ASSUME MessagesInv
  PROVE  Len(received) \in Nat /\ Len(received) <= sends
<1>1. Cardinality(accepted) = Len(pending) + Len(received) + Cardinality(discarded)
  BY DEF MessagesInv, AcceptedOnce
<1>2. discarded \subseteq accepted
  BY DEF MessagesInv, AcceptedOnce
<1>3. Cardinality(accepted) \in Nat /\ Cardinality(discarded) \in Nat
  BY <1>2, AcceptedIsFinite DEF MessagesInv
<1>4. Len(pending) \in Nat /\ Len(received) \in Nat /\ sends \in Nat /\ accepted \subseteq 1 .. sends
  BY DEF MessagesInv, QueueTypes
<1>5. IsFiniteSet(1 .. sends) /\ Cardinality(1 .. sends) = sends
  <2>1. 1 \in Int /\ sends \in Int
    BY <1>4
  <2>2. IsFiniteSet(1 .. sends) /\ Cardinality(1 .. sends) = (IF 1 > sends THEN 0 ELSE sends - 1 + 1)
    BY <2>1, FS_Interval, Zenon
  <2>. QED BY <1>4, <2>2
<1>6. Cardinality(accepted) <= sends
  BY <1>4, <1>5, FS_Subset
<1>. QED BY <1>1, <1>3, <1>4, <1>6

(* The libraries' start is all or nothing, and a semaphore belongs to one    *)
(* thread and goes with it; so does the queue keep its own invariant.        *)
THEOREM ServiceInvHolds == WifiSpec => []ServiceInv
<1>1. TaskInv => ServiceInv
  <2>. SUFFICES ASSUME TaskInv PROVE ServiceInv
    OBVIOUS
  <2>. USE DEF TaskInv, CallsInv
  <2>1. QueueInv
    BY ShapeIsQueueInv
  <2>2. ServiceTypeOK
    <3>1. count \in [Semaphores -> 0 .. MaxSends \union {None}]
      <4>. SUFFICES ASSUME NEW s \in Semaphores, count[s] # None
                    PROVE  count[s] \in 0 .. MaxSends
        BY DEF ServiceTypes
      <4>1. count[s] \in Nat /\ count[s] <= served
        BY DEF ServiceTypes, OneAtATime
      <4>2. served \in Nat /\ served <= Len(received) /\ sends \in Nat /\ sends <= MaxSends
        BY DEF OneAtATime, QueueShape, MessagesInv, QueueTypes
      <4>. QED BY <4>1, <4>2, ReceivedBound, QueueAssumption DEF QueueAssumption
    <3>2. {request[c] : c \in Callers} \subseteq 1 .. sends \union {None}
      BY DEF ServiceTypes, MessagesInv, QueueTypes
    <3>3. served \in 0 .. Len(received)
      BY ReceivedBound DEF OneAtATime
    <3>. QED BY <3>1, <3>2, <3>3 DEF ServiceTypeOK, ServiceTypes, Lifecycle
  <2>3. StartedWhole
    BY DEF StartedWhole, Lifecycle
  <2>4. SemaphoresOwned
    <3>1. \A c, d \in Callers : c # d /\ own[c] # None => own[c] # own[d]
      <4>. SUFFICES ASSUME NEW c \in Callers, NEW d \in Callers, c # d, own[c] # None, own[c] = own[d]
                    PROVE  FALSE
        OBVIOUS
      <4>1. own[c] \in Of(c) /\ own[c] \in Of(d)
        BY DEF Of
      <4>. QED BY <4>1 DEF Ownership
    <3>2. \A c \in Callers : own[c] # None => own[c] \in Of(c)
      BY DEF Of
    <3>. QED BY <3>1, <3>2 DEF SemaphoresOwned, Ownership, Exists
  <2>. QED BY <2>1, <2>2, <2>3, <2>4 DEF ServiceInv
<1>. QED BY <1>1, TaskInvHolds, PTL

(* A take that succeeds is the answer to the thread's own request, and none  *)
(* is lost, as long as nobody stops waiting.                                *)
THEOREM AnswersAreOwnHolds == WifiSpec => []AnswersAreOwn
<1>1. TaskInv => AnswersAreOwn
  <2>. SUFFICES ASSUME TaskInv, ~abandoned PROVE AnswersAreOwn
    BY DEF AnswersAreOwn
  <2>1. told \subseteq Served
    BY DEF TaskInv, CallsInv, Answers
  <2>2. ASSUME NEW c \in Callers, own[c] # None, pc[c] # "sent"
        PROVE  count[own[c]] = 0
    <3>1. own[c] \in Of(c)
      BY <2>2 DEF Of
    <3>. QED BY <2>2, <3>1 DEF TaskInv, CallsInv, Answers
  <2>. QED BY <2>1, <2>2 DEF AnswersAreOwn, Served
<1>. QED BY <1>1, TaskInvHolds, PTL

------------------------------------------------------------------------------
(* RTEMS_WIFI_PD_TRUE is kept: every message whose send answered it is       *)
(* queued, was received or was thrown away with its queue, in one of these   *)
(* places and once.                                                          *)
THEOREM AcceptedOnceHolds == WifiSpec => []AcceptedOnce
<1>1. Spec => []MessagesInv
  BY MessagesInit, MessagesStep, PTL DEF Spec
<1>2. MessagesInv => AcceptedOnce
  BY DEF MessagesInv
<1> QED
  BY <1>1, <1>2, ServiceImplementsQueue, PTL
=============================================================================
