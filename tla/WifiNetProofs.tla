---------------------------- MODULE WifiNetProofs ----------------------------
(***************************************************************************)
(* Proofs about the station interface (NetifLink) and about the example that *)
(* uses it (WifiNet), for any depth of the two queues, any number of events,  *)
(* reattaches and refusals.                                                 *)
(*                                                                          *)
(* What the interface will be once a queue is empty is said in terms of the   *)
(* last message of the queue: the invariants relate that to the radio.       *)
(***************************************************************************)
EXTENDS WifiNet, TLAPS

Ids == {"STA_START", "STA_STOP", "STA_CONNECTED", "STA_DISCONNECTED"}

Functions == {"up", "down", "linkUp", "linkDown"}

(* What is left of each call after any number of its steps.                 *)
StartRests == {Start, <<"attach", "attached", "up">>, <<"attached", "up">>, <<"up">>, <<>>}

StopRests == {Stop, <<"detach", "detached", "linkDown", "down">>,
              <<"detached", "linkDown", "down">>, <<"linkDown", "down">>, <<"down">>}

EventRests == StartRests \union StopRests \union {<<"linkUp">>, <<"linkDown">>}

AppRests == StartRests \union {Reattach}

(* The next step of a thread; the link goes down in a stop and by itself.    *)
PlaceOf(rest) ==
  IF rest = <<>> THEN "none"
  ELSE IF rest = <<"linkDown", "down">> THEN "stopLink" ELSE Head(rest)

Place(t) == PlaceOf(todo[t])

Following(place) ==
  CASE place = "forget" -> "check"
    [] place = "check" -> "attach"
    [] place = "attach" -> "attached"
    [] place = "attached" -> "up"
    [] place = "checkAttached" -> "detach"
    [] place = "detach" -> "detached"
    [] place = "detached" -> "stopLink"
    [] place = "stopLink" -> "down"
    [] OTHER -> "none"

StepAt(place) == IF place = "stopLink" THEN "linkDown" ELSE place

Starting == {"check", "attach", "attached"}
Stopping == {"checkAttached", "detach", "detached", "stopLink", "down"}

LinkTypes ==
  /\ calls \in Habits
  /\ radio \in {"off", "started", "connected"}
  /\ rxcb \in {"none", "netif", "driver", "left"}
  /\ {added, listening, attached, claims, ifUp, linkUp, lost} \subseteq BOOLEAN
  /\ events \in Seq(Ids) /\ Len(events) <= QUEUE_DEPTH
  /\ mbox \in Seq(Functions) /\ Len(mbox) <= MBOX
  /\ attachFails \in Nat /\ reattaches \in Nat
  /\ DOMAIN todo = Threads /\ todo["event"] \in EventRests /\ todo["app"] \in AppRests

(* A flag once a queue of functions is empty: the last of two sets it, or     *)
(* none of the queue leaves it as it is.                                    *)
SetsOn(queue, on, off) ==
  \E i \in DOMAIN queue : queue[i] = on /\ \A j \in DOMAIN queue : j > i => queue[j] # off

Without(queue, off) == \A j \in DOMAIN queue : queue[j] # off

LinkBecomes == SetsOn(mbox, "linkUp", "linkDown") \/ (linkUp /\ Without(mbox, "linkDown"))
IfBecomes == SetsOn(mbox, "up", "down") \/ (ifUp /\ Without(mbox, "down"))

LastEvent == events[Len(events)]

(* Small facts about who does what.                                         *)
Bookkeeping ==
  /\ claims => radio # "off"
  /\ ~lost /\ added => listening
  /\ reattaches = 0 => Place("app") = "none"

(* The newest event says where the radio is.                                *)
NewestIsRadio ==
  ~lost /\ events # <<>> =>
    /\ LastEvent = "STA_CONNECTED" <=> radio = "connected"
    /\ LastEvent = "STA_STOP" <=> radio = "off"

(* The link as the events taken so far make it, which is the radio's if      *)
(* there is no other; the radio starts and stops while it is down.           *)
LinkSoFar ==
  CASE Place("event") = "linkUp" -> TRUE
    [] Place("event") = "linkDown" -> FALSE
    [] OTHER -> LinkBecomes

LinkChain ==
  ~lost =>
    /\ events = <<>> => (LinkSoFar <=> radio = "connected")
    /\ \A i \in DOMAIN events : events[i] \in {"STA_START", "STA_STOP"} =>
         IF i = 1 THEN ~LinkSoFar ELSE events[i - 1] # "STA_CONNECTED"
    /\ Place("event") \in Stopping \ {"down"} => ~LinkBecomes

(* Without a reattach the event task alone makes the path, after the events  *)
(* it has taken so far.                                                     *)
PathSoFar ==
  \/ Place("event") \in Starting
  \/ attached /\ Place("event") \notin Stopping

SoloPath ==
  ~lost /\ reattaches = 0 =>
    /\ events = <<>> /\ radio = "off" => ~PathSoFar
    /\ Place("event") \in {"attach", "attached", "stopLink", "down"} => ~attached
    /\ Place("event") \in {"up", "detach", "detached"} => attached
    /\ Place("event") \notin {"up", "stopLink", "down"} => (IfBecomes <=> attached)

(* No start was refused: then the radio is on exactly when the path is.      *)
SoloPathWhole ==
  ~lost /\ reattaches = 0 /\ attachFails = 0 =>
    /\ events = <<>> /\ radio # "off" => PathSoFar
    /\ \A i \in DOMAIN events : events[i] # "STA_START" =>
         IF i = 1 THEN PathSoFar ELSE events[i - 1] # "STA_STOP"
    /\ Place("event") = "checkAttached" => attached
    /\ events = <<>> /\ radio = "off" =>
         ~Registered \/ Place("event") \in {"checkAttached", "detach"}

(* A radio that is not stopped brings nothing down, ...                     *)
NeverDown ==
  "stop" \notin calls =>
    /\ \A i \in DOMAIN events : events[i] # "STA_STOP"
    /\ Place("event") \notin Stopping
    /\ Without(mbox, "down")

(* ... and the path, made by either thread, stays: a record that is discarded *)
(* is on its way back.                                                      *)
WillAttach ==
  \/ attached
  \/ \E t \in Threads : Place(t) \in Starting \union {"forget"}

KeptPath ==
  "stop" \notin calls =>
    /\ ~lost /\ attachFails = 0 /\ radio # "off" =>
         WillAttach \/ \E i \in DOMAIN events : events[i] = "STA_START"
    /\ attachFails = 0 /\ rxcb = "netif" => WillAttach
    /\ rxcb = "driver" => radio # "off"
    /\ ~lost /\ attached => IfBecomes \/ \E t \in Threads : Place(t) = "up"

(* The driver has a callback of the station before the record says so.      *)
Installed ==
  ~StopsAndReattaches =>
    /\ attached => Registered \/ Place("event") = "detached"
    /\ (\E t \in Threads : Place(t) = "attached") => Registered

PathInv ==
  /\ LinkTypes /\ Bookkeeping
  /\ NewestIsRadio /\ LinkChain
  /\ SoloPath /\ SoloPathWhole
  /\ NeverDown /\ KeptPath
  /\ Installed
------------------------------------------------------------------------------
(* The steps of a thread.                                                   *)
EventPlaces == {"none", "up", "linkUp", "linkDown"} \union Starting \union Stopping
AppPlaces == {"none", "forget", "up"} \union Starting

LEMMA EventRest ==
  ASSUME NEW q \in EventRests, q # <<>>
  PROVE  /\ Tail(q) \in EventRests /\ PlaceOf(Tail(q)) = Following(PlaceOf(q))
         /\ PlaceOf(q) # "none" /\ Head(q) = StepAt(PlaceOf(q))
         /\ PlaceOf(q) \in EventPlaces
<1>. USE DEF EventRests, StartRests, StopRests, Start, Stop, PlaceOf, Following, StepAt, Starting,
             Stopping, EventPlaces, AppPlaces
<1>1. CASE q = <<"check", "attach", "attached", "up">>
  BY <1>1
<1>2. CASE q = <<"attach", "attached", "up">>
  BY <1>2
<1>3. CASE q = <<"attached", "up">>
  BY <1>3
<1>4. CASE q = <<"up">>
  BY <1>4
<1>5. CASE q = <<"checkAttached", "detach", "detached", "linkDown", "down">>
  BY <1>5
<1>6. CASE q = <<"detach", "detached", "linkDown", "down">>
  BY <1>6
<1>7. CASE q = <<"detached", "linkDown", "down">>
  BY <1>7
<1>8. CASE q = <<"linkDown", "down">>
  BY <1>8
<1>9. CASE q = <<"down">>
  BY <1>9
<1>10. CASE q = <<"linkUp">>
  BY <1>10
<1>11. CASE q = <<"linkDown">>
  BY <1>11
<1>. QED BY <1>1, <1>2, <1>3, <1>4, <1>5, <1>6, <1>7, <1>8, <1>9, <1>10, <1>11

LEMMA AppRest ==
  ASSUME NEW q \in AppRests, q # <<>>
  PROVE  /\ Tail(q) \in AppRests /\ PlaceOf(Tail(q)) = Following(PlaceOf(q))
         /\ PlaceOf(q) # "none" /\ Head(q) = StepAt(PlaceOf(q))
         /\ PlaceOf(q) \in AppPlaces
<1>. USE DEF AppRests, StartRests, StopRests, Start, Stop, PlaceOf, Following, StepAt, Starting,
             Stopping, EventPlaces, AppPlaces
<1>0. Reattach = <<"forget", "check", "attach", "attached", "up">>
  <2>. DEFINE r == <<"forget">> \o Start
              w == <<"forget", "check", "attach", "attached", "up">>
  <2>1. Len(r) = 5 /\ r[1] = "forget" /\ r[2] = "check" /\ r[3] = "attach" /\ r[4] = "attached" /\ r[5] = "up"
    OBVIOUS
  <2>2. r \in Seq(AppPlaces) /\ w \in Seq(AppPlaces) /\ Len(w) = 5
    OBVIOUS
  <2>3. \A i \in 1 .. 5 : r[i] = w[i]
    BY <2>1
  <2>. HIDE DEF r, w
  <2>4. r = w
    BY <2>1, <2>2, <2>3
  <2>. QED BY <2>4 DEF Reattach, r, w
<1>1. CASE q = <<"check", "attach", "attached", "up">>
  BY <1>1, <1>0
<1>2. CASE q = <<"attach", "attached", "up">>
  BY <1>2, <1>0
<1>3. CASE q = <<"attached", "up">>
  BY <1>3, <1>0
<1>4. CASE q = <<"up">>
  BY <1>4, <1>0
<1>5. CASE q = <<"forget", "check", "attach", "attached", "up">>
  BY <1>5, <1>0
<1>. QED BY <1>0, <1>1, <1>2, <1>3, <1>4, <1>5

(* A thread that takes a step comes to the next one of its call, and one that *)
(* returns has none left; the other thread is where it was.                  *)
LEMMA StepOn ==
  ASSUME LinkTypes, NEW t \in Threads, NEW step, At(t, step), Done(t)
  PROVE  /\ DOMAIN todo' = Threads /\ todo'["event"] \in EventRests /\ todo'["app"] \in AppRests
         /\ step = StepAt(Place(t)) /\ Place(t)' = Following(Place(t))
         /\ \A u \in Threads \ {t} : Place(u)' = Place(u)
<1>1. CASE t = "event"
  BY <1>1, EventRest DEF LinkTypes, Threads, At, Done, Place
<1>2. CASE t = "app"
  BY <1>2, AppRest DEF LinkTypes, Threads, At, Done, Place
<1>. QED BY <1>1, <1>2 DEF Threads

LEMMA ReturnIs ==
  ASSUME LinkTypes, NEW t \in Threads, NEW step, At(t, step), Return(t)
  PROVE  /\ DOMAIN todo' = Threads /\ todo'["event"] \in EventRests /\ todo'["app"] \in AppRests
         /\ step = StepAt(Place(t)) /\ Place(t)' = "none"
         /\ \A u \in Threads \ {t} : Place(u)' = Place(u)
<1>1. CASE t = "event"
  BY <1>1, EventRest DEF LinkTypes, Threads, At, Return, Place, PlaceOf, EventRests, AppRests, StartRests
<1>2. CASE t = "app"
  BY <1>2, AppRest DEF LinkTypes, Threads, At, Return, Place, PlaceOf, EventRests, AppRests, StartRests
<1>. QED BY <1>1, <1>2 DEF Threads

(* Where the threads can be.                                                *)
LEMMA PlacesAre ==
  ASSUME LinkTypes
  PROVE  Place("event") \in EventPlaces /\ Place("app") \in AppPlaces
<1>1. Place("event") \in EventPlaces
  BY EventRest DEF LinkTypes, Place, PlaceOf, EventPlaces
<1>2. Place("app") \in AppPlaces
  BY AppRest DEF LinkTypes, Place, PlaceOf, AppPlaces
<1>. QED BY <1>1, <1>2

(* What a function added to the queue, or taken from it, does to that.       *)
LEMMA AppendFunction ==
  ASSUME NEW S, NEW q \in Seq(S), NEW fn \in S, NEW on, NEW off, on # off
  PROVE  /\ SetsOn(Append(q, fn), on, off) <=> fn = on \/ (fn # off /\ SetsOn(q, on, off))
         /\ Without(Append(q, fn), off) <=> fn # off /\ Without(q, off)
<1>. DEFINE r == Append(q, fn)
<1>1. /\ DOMAIN q = 1 .. Len(q) /\ Len(q) \in Nat /\ DOMAIN r = 1 .. Len(q) + 1
      /\ r[Len(q) + 1] = fn /\ \A i \in DOMAIN q : r[i] = q[i]
  OBVIOUS
<1>. HIDE DEF r
<1>2. Without(r, off) <=> fn # off /\ Without(q, off)
  BY <1>1 DEF Without
<1>3. CASE fn = on
  <2>1. r[Len(q) + 1] = on /\ \A j \in DOMAIN r : ~(j > Len(q) + 1)
    BY <1>1, <1>3
  <2>. QED BY <2>1, <1>1, <1>2, <1>3 DEF SetsOn, r
<1>4. CASE fn = off
  BY <1>1, <1>2, <1>4 DEF SetsOn, r
<1>5. CASE fn # on /\ fn # off
  BY <1>1, <1>2, <1>5 DEF SetsOn, r
<1>. QED BY <1>3, <1>4, <1>5

LEMMA TakeFunction ==
  ASSUME NEW S, NEW q \in Seq(S), q # <<>>, NEW on, NEW off, on # off
  PROVE  /\ SetsOn(q, on, off)
               <=> SetsOn(Tail(q), on, off) \/ (Head(q) = on /\ Without(Tail(q), off))
         /\ Without(q, off) <=> Head(q) # off /\ Without(Tail(q), off)
<1>. DEFINE r == Tail(q)
<1>1. /\ DOMAIN q = 1 .. Len(q) /\ Len(q) \in Nat \ {0} /\ DOMAIN r = 1 .. Len(q) - 1
      /\ q[1] = Head(q) /\ \A i \in DOMAIN r : r[i] = q[i + 1]
  OBVIOUS
<1>. HIDE DEF r
<1>2. \A i \in DOMAIN q : i # 1 => i - 1 \in DOMAIN r /\ r[i - 1] = q[i]
  BY <1>1
<1>3. Without(q, off) <=> q[1] # off /\ Without(r, off)
  BY <1>1, <1>2 DEF Without
<1>4. ASSUME NEW i \in DOMAIN r
      PROVE  (\A j \in DOMAIN r : j > i => r[j] # off) <=> (\A j \in DOMAIN q : j > i + 1 => q[j] # off)
  <2>1. ASSUME \A j \in DOMAIN r : j > i => r[j] # off, NEW j \in DOMAIN q, j > i + 1
        PROVE  q[j] # off
    <3>1. j - 1 \in DOMAIN r /\ j - 1 > i /\ r[j - 1] = q[j]
      BY <2>1, <1>1, <1>2
    <3>. QED BY <2>1, <3>1
  <2>2. ASSUME \A j \in DOMAIN q : j > i + 1 => q[j] # off, NEW j \in DOMAIN r, j > i
        PROVE  r[j] # off
    <3>1. j + 1 \in DOMAIN q /\ j + 1 > i + 1 /\ r[j] = q[j + 1]
      BY <2>2, <1>1
    <3>. QED BY <2>2, <3>1
  <2>. QED BY <2>1, <2>2
<1>5. (\A j \in DOMAIN q : j > 1 => q[j] # off) <=> Without(r, off)
  <2>1. \A j \in DOMAIN q : j > 1 => j - 1 \in DOMAIN r /\ r[j - 1] = q[j]
    BY <1>1, <1>2
  <2>2. \A j \in DOMAIN r : j + 1 \in DOMAIN q /\ j + 1 > 1 /\ r[j] = q[j + 1]
    BY <1>1
  <2>. QED BY <2>1, <2>2 DEF Without
<1>6. ASSUME NEW i \in DOMAIN q, q[i] = on, \A j \in DOMAIN q : j > i => q[j] # off, i # 1
      PROVE  SetsOn(r, on, off)
  <2>1. i - 1 \in DOMAIN r /\ r[i - 1] = on /\ (i - 1) + 1 = i
    BY <1>6, <1>1, <1>2
  <2>. QED BY <1>6, <2>1, <1>4 DEF SetsOn
<1>7. ASSUME NEW i \in DOMAIN r, r[i] = on, \A j \in DOMAIN r : j > i => r[j] # off
      PROVE  SetsOn(q, on, off)
  <2>1. i + 1 \in DOMAIN q /\ q[i + 1] = on
    BY <1>7, <1>1
  <2>. QED BY <1>7, <2>1, <1>4 DEF SetsOn
<1>8. q[1] = on /\ Without(r, off) => SetsOn(q, on, off)
  BY <1>1, <1>5 DEF SetsOn
<1>9. SetsOn(q, on, off) => SetsOn(r, on, off) \/ (q[1] = on /\ Without(r, off))
  BY <1>5, <1>6 DEF SetsOn
<1>10. SetsOn(r, on, off) => SetsOn(q, on, off)
  BY <1>7 DEF SetsOn
<1>. QED BY <1>1, <1>3, <1>8, <1>9, <1>10 DEF r

(* The queue after one more event, and after the oldest is taken.           *)
LEMMA EventsAppend ==
  ASSUME NEW q \in Seq(Ids), NEW id \in Ids
  PROVE  /\ Append(q, id) \in Seq(Ids) /\ Append(q, id) # <<>>
         /\ Len(Append(q, id)) = Len(q) + 1 /\ Append(q, id)[Len(q) + 1] = id
         /\ DOMAIN q = 1 .. Len(q) /\ Len(q) \in Nat /\ (q = <<>> <=> Len(q) = 0)
         /\ DOMAIN Append(q, id) = 1 .. Len(q) + 1
         /\ \A i \in 1 .. Len(q) : Append(q, id)[i] = q[i]
OBVIOUS

LEMMA EmptyLength ==
  ASSUME NEW S, NEW q \in Seq(S)
  PROVE  q = <<>> <=> Len(q) = 0
OBVIOUS

LEMMA QueueTail ==
  ASSUME NEW S, NEW q \in Seq(S), q # <<>>
  PROVE  /\ Tail(q) \in Seq(S) /\ Len(Tail(q)) = Len(q) - 1
         /\ Head(q) = q[1] /\ Head(q) \in S
         /\ DOMAIN q = 1 .. Len(q) /\ Len(q) \in Nat \ {0}
         /\ DOMAIN Tail(q) = 1 .. Len(q) - 1 /\ (Tail(q) = <<>> <=> Len(q) = 1)
         /\ \A i \in 1 .. Len(q) - 1 : Tail(q)[i] = q[i + 1]
<1>1. /\ Tail(q) \in Seq(S) /\ Len(Tail(q)) = Len(q) - 1
      /\ Head(q) = q[1] /\ Head(q) \in S
      /\ DOMAIN q = 1 .. Len(q) /\ Len(q) \in Nat \ {0}
  OBVIOUS
<1>2. /\ DOMAIN Tail(q) = 1 .. Len(q) - 1
      /\ \A i \in 1 .. Len(q) - 1 : Tail(q)[i] = q[i + 1]
  OBVIOUS
<1>3. Tail(q) = <<>> <=> Len(Tail(q)) = 0
  BY <1>1, EmptyLength
<1>. QED BY <1>1, <1>2, <1>3

LEMMA SameThreads ==
  ASSUME UNCHANGED todo
  PROVE  \A t \in Threads : Place(t)' = Place(t)
BY DEF Place

LEMMA SameBox ==
  ASSUME UNCHANGED <<mbox, stack>>
  PROVE  (LinkBecomes' <=> LinkBecomes) /\ (IfBecomes' <=> IfBecomes)
BY DEF LinkBecomes, IfBecomes, stack
------------------------------------------------------------------------------
(* What each action does to the invariant.                                  *)

(* An event that is posted as the radio does what it says.                  *)
Tells(id) ==
  /\ claims' \in BOOLEAN /\ (claims' => radio' # "off")
  /\ \/ id = "STA_START" /\ radio = "off" /\ radio' = "started"
     \/ id = "STA_CONNECTED" /\ radio = "started" /\ radio' = "connected"
     \/ id = "STA_DISCONNECTED" /\ radio # "off" /\ radio' = "started"
     \/ id = "STA_STOP" /\ radio = "started" /\ radio' = "off" /\ "stop" \in calls

LEMMA PostKeeps ==
  ASSUME PathInv, NEW id \in Ids, Post(id), Tells(id)
  PROVE  PathInv'
<1>. USE DEF PathInv, Registered, fixed, stack
<1>1. UNCHANGED <<rxcb, calls, added, listening, reattaches, attached, todo, mbox, ifUp, linkUp,
                  attachFails>>
  BY DEF Post
<1>2. /\ \A t \in Threads : Place(t)' = Place(t)
      /\ (LinkBecomes' <=> LinkBecomes) /\ (IfBecomes' <=> IfBecomes)
  BY <1>1, SameThreads, SameBox
<1>3. \/ events' = Append(events, id) /\ Len(events) < QUEUE_DEPTH /\ UNCHANGED lost
      \/ events' = events /\ lost' = TRUE
  BY DEF Post
<1>4. events \in Seq(Ids)
  BY DEF LinkTypes
<1>5. LinkTypes'
  <2>1. events' \in Seq(Ids) /\ Len(events') <= QUEUE_DEPTH
    BY <1>3, <1>4, EventsAppend, LinkAssumption DEF LinkTypes, LinkAssumption
  <2>2. radio' \in {"off", "started", "connected"} /\ lost' \in BOOLEAN /\ claims' \in BOOLEAN
    BY <1>3 DEF LinkTypes, Tells
  <2>. QED BY <1>1, <2>1, <2>2 DEF LinkTypes
<1>6. Bookkeeping'
  BY <1>1, <1>2, <1>3 DEF Bookkeeping, Tells, Threads, LinkTypes
<1>7. NewestIsRadio'
  BY <1>3, <1>4, EventsAppend DEF NewestIsRadio, LastEvent, Tells
<1>8. LinkChain'
  <2>1. LinkSoFar' <=> LinkSoFar
    BY <1>2 DEF LinkSoFar, Threads
  <2>. SUFFICES ASSUME ~lost' PROVE LinkChain'
    BY DEF LinkChain
  <2>2. events' = Append(events, id) /\ ~lost
    BY <1>3
  <2>3. radio # "connected" => IF events = <<>> THEN ~LinkSoFar ELSE LastEvent # "STA_CONNECTED"
    BY <2>2 DEF LinkChain, NewestIsRadio
  <2>4. ASSUME NEW i \in DOMAIN events', events'[i] \in {"STA_START", "STA_STOP"}
        PROVE  IF i = 1 THEN ~LinkSoFar' ELSE events'[i - 1] # "STA_CONNECTED"
    <3>1. CASE i = Len(events) + 1
      BY <3>1, <1>4, <2>1, <2>2, <2>3, <2>4, EventsAppend DEF Tells, LastEvent
    <3>2. CASE i # Len(events) + 1
      BY <3>2, <1>4, <2>1, <2>2, <2>4, EventsAppend DEF LinkChain
    <3>. QED BY <3>1, <3>2
  <2>5. events' # <<>>
    BY <2>2, <1>4, EventsAppend
  <2>6. Place("event")' \in Stopping \ {"down"} => ~LinkBecomes'
    BY <1>2, <2>2 DEF LinkChain, Threads
  <2>. QED BY <2>4, <2>5, <2>6 DEF LinkChain
<1>9. SoloPath'
  BY <1>1, <1>2, <1>3, <1>4, EventsAppend DEF SoloPath, PathSoFar, Threads
<1>10. SoloPathWhole'
  BY <1>1, <1>2, <1>3, <1>4, EventsAppend
    DEF SoloPathWhole, PathSoFar, NewestIsRadio, LastEvent, Tells, Threads
<1>11. NeverDown'
  BY <1>1, <1>2, <1>3, <1>4, EventsAppend DEF NeverDown, Tells, Threads
<1>12. KeptPath'
  BY <1>1, <1>2, <1>3, <1>4, EventsAppend DEF KeptPath, WillAttach, Tells, Threads
<1>13. Installed'
  BY <1>1, <1>2 DEF Installed, StopsAndReattaches, Threads
<1>. QED BY <1>5, <1>6, <1>7, <1>8, <1>9, <1>10, <1>11, <1>12, <1>13

LEMMA ClaimsKeeps ==
  ASSUME PathInv, DriverClaims
  PROVE  PathInv'
<1>. USE DEF PathInv, Registered, DriverClaims, fixed, stack
<1>1. /\ \A t \in Threads : Place(t)' = Place(t)
      /\ (LinkBecomes' <=> LinkBecomes) /\ (IfBecomes' <=> IfBecomes)
  BY SameThreads, SameBox
<1>2. (LinkSoFar' <=> LinkSoFar) /\ (PathSoFar' <=> PathSoFar) /\ (WillAttach' <=> WillAttach)
  BY <1>1 DEF LinkSoFar, PathSoFar, WillAttach, Threads
<1>3. LinkTypes' /\ Bookkeeping'
  BY <1>1 DEF LinkTypes, Bookkeeping, Threads
<1>4. NewestIsRadio' /\ LinkChain'
  BY <1>1, <1>2 DEF NewestIsRadio, LastEvent, LinkChain, Threads
<1>5. SoloPath' /\ SoloPathWhole'
  BY <1>1, <1>2 DEF SoloPath, SoloPathWhole, Bookkeeping, Threads
<1>6. NeverDown' /\ KeptPath' /\ Installed'
  BY <1>1, <1>2 DEF Bookkeeping, NeverDown, KeptPath, Installed, StopsAndReattaches, Threads
<1>. QED BY <1>3, <1>4, <1>5, <1>6

LEMMA AddKeeps ==
  ASSUME PathInv, NEW registered \in BOOLEAN, AddNetif(registered)
  PROVE  PathInv'
<1>. USE DEF PathInv, Registered, AddNetif, driver, stack
<1>1. /\ \A t \in Threads : Place(t)' = Place(t)
      /\ (LinkBecomes' <=> LinkBecomes) /\ (IfBecomes' <=> IfBecomes)
  BY SameThreads, SameBox
<1>2. (LinkSoFar' <=> LinkSoFar) /\ (PathSoFar' <=> PathSoFar) /\ (WillAttach' <=> WillAttach)
  BY <1>1 DEF LinkSoFar, PathSoFar, WillAttach, Threads
<1>3. LinkTypes'
  BY DEF LinkTypes
<1>4. Bookkeeping'
  BY <1>1 DEF Bookkeeping, Threads
<1>5. NewestIsRadio' /\ LinkChain'
  BY <1>1, <1>2 DEF NewestIsRadio, LastEvent, LinkChain, Threads
<1>6. SoloPath' /\ SoloPathWhole'
  BY <1>1, <1>2 DEF SoloPath, SoloPathWhole, Threads
<1>7. NeverDown' /\ KeptPath' /\ Installed'
  BY <1>1, <1>2 DEF NeverDown, KeptPath, Installed, StopsAndReattaches, Threads
<1>. QED BY <1>3, <1>4, <1>5, <1>6, <1>7

LEMMA DispatchKeeps ==
  ASSUME PathInv, Dispatch
  PROVE  PathInv'
<1>. DEFINE id == events[1]
<1>. USE DEF PathInv, Registered, driver, fixed, stack
<1>1. /\ UNCHANGED <<radio, claims, rxcb, calls, added, listening, reattaches, attached, mbox,
                     ifUp, linkUp, attachFails>>
      /\ Place("event") = "none"
  BY DEF Dispatch, Place, PlaceOf
<1>2. /\ events' = Tail(events) /\ events # <<>> /\ events \in Seq(Ids)
      /\ id \in Ids /\ Head(events) = id
  BY QueueTail DEF Dispatch, LinkTypes
<1>3. \/ /\ Place("event")' = CASE id = "STA_START" -> "check" [] id = "STA_STOP" -> "checkAttached"
                                [] id = "STA_CONNECTED" -> "linkUp" [] OTHER -> "linkDown"
         /\ Place("app")' = Place("app")
         /\ DOMAIN todo' = Threads /\ todo'["event"] \in EventRests /\ todo'["app"] = todo["app"]
         /\ UNCHANGED lost
      \/ UNCHANGED todo /\ lost' = TRUE
  <2>1. CASE listening
    <3>1. todo' = [todo EXCEPT !["event"] = OnWifiEvent(id)] /\ UNCHANGED lost
      BY <1>2, <2>1 DEF Dispatch
    <3>2. /\ todo'["event"] = OnWifiEvent(id) /\ todo'["app"] = todo["app"] /\ DOMAIN todo' = Threads
      BY <3>1 DEF LinkTypes, Threads
    <3>3. /\ OnWifiEvent(id) \in EventRests
          /\ PlaceOf(OnWifiEvent(id)) =
               CASE id = "STA_START" -> "check" [] id = "STA_STOP" -> "checkAttached"
                 [] id = "STA_CONNECTED" -> "linkUp" [] OTHER -> "linkDown"
      BY <1>2 DEF Ids, OnWifiEvent, EventRests, StartRests, StopRests, PlaceOf, Start, Stop
    <3>. QED BY <3>1, <3>2, <3>3 DEF Place
  <2>2. CASE ~listening
    BY <2>2 DEF Dispatch
  <2>. QED BY <2>1, <2>2
<1>. HIDE DEF id
<1>4. (LinkBecomes' <=> LinkBecomes) /\ (IfBecomes' <=> IfBecomes)
  BY <1>1, SameBox
<1>5. /\ events' \in Seq(Ids) /\ Len(events') = Len(events) - 1
      /\ DOMAIN events = 1 .. Len(events) /\ Len(events) \in Nat \ {0}
      /\ DOMAIN events' = 1 .. Len(events) - 1 /\ (events' = <<>> <=> Len(events) = 1)
      /\ \A i \in 1 .. Len(events) - 1 : events'[i] = events[i + 1]
  BY <1>2, QueueTail
<1>6. LinkTypes'
  <2>1. events' \in Seq(Ids) /\ Len(events') <= QUEUE_DEPTH
    BY <1>5, LinkAssumption DEF LinkTypes, LinkAssumption
  <2>2. lost' \in BOOLEAN
    BY <1>3 DEF LinkTypes
  <2>3. DOMAIN todo' = Threads /\ todo'["event"] \in EventRests /\ todo'["app"] \in AppRests
    BY <1>3 DEF LinkTypes
  <2>. QED BY <1>1, <2>1, <2>2, <2>3 DEF LinkTypes
<1>7. ~lost' => ~lost
  BY <1>3
<1>8. Bookkeeping'
  BY <1>1, <1>3, <1>7, SameThreads DEF Bookkeeping, Threads
<1>9. NewestIsRadio'
  BY <1>1, <1>5, <1>7 DEF NewestIsRadio, LastEvent
<1>10. LinkChain'
  <2>. SUFFICES ASSUME ~lost' PROVE LinkChain'
    BY DEF LinkChain
  <2>1. ~lost /\ Place("event")' = (CASE id = "STA_START" -> "check" [] id = "STA_STOP" -> "checkAttached"
                                      [] id = "STA_CONNECTED" -> "linkUp" [] OTHER -> "linkDown")
    BY <1>3
  <2>2. id \in {"STA_START", "STA_STOP"} => ~LinkBecomes
    BY <1>1, <1>5, <2>1 DEF LinkChain, LinkSoFar, id
  <2>3. LinkSoFar' <=> id = "STA_CONNECTED"
    BY <1>2, <1>4, <2>1, <2>2 DEF LinkSoFar, Ids
  <2>4. Len(events) = 1 => (id = "STA_CONNECTED" <=> radio = "connected")
    BY <1>2, <2>1 DEF NewestIsRadio, LastEvent, id
  <2>5. ASSUME NEW i \in DOMAIN events', events'[i] \in {"STA_START", "STA_STOP"}
        PROVE  IF i = 1 THEN id # "STA_CONNECTED" ELSE events'[i - 1] # "STA_CONNECTED"
    <3>1. i + 1 \in DOMAIN events /\ events[i + 1] = events'[i] /\ (i + 1) - 1 = i /\ i + 1 # 1
      BY <1>5
    <3>2. events[i] # "STA_CONNECTED"
      BY <2>1, <2>5, <3>1 DEF LinkChain
    <3>. QED BY <1>5, <3>2 DEF id
  <2>6. Place("event")' \in Stopping => ~LinkBecomes'
    BY <1>2, <1>4, <2>1, <2>2 DEF Stopping, Ids
  <2>. QED BY <1>1, <1>5, <2>3, <2>4, <2>5, <2>6 DEF LinkChain
<1>11. SoloPath'
  BY <1>1, <1>2, <1>3, <1>4, <1>5, <1>7
    DEF SoloPath, PathSoFar, NewestIsRadio, LastEvent, Starting, Stopping, Ids, id
<1>12. SoloPathWhole'
  <2>. SUFFICES ASSUME ~lost', reattaches = 0, attachFails = 0 PROVE SoloPathWhole'
    BY <1>1 DEF SoloPathWhole
  <2>1. ~lost /\ Place("event")' = (CASE id = "STA_START" -> "check" [] id = "STA_STOP" -> "checkAttached"
                                      [] id = "STA_CONNECTED" -> "linkUp" [] OTHER -> "linkDown")
    BY <1>3
  <2>2. id # "STA_START" => attached
    BY <1>1, <1>5, <2>1 DEF SoloPathWhole, PathSoFar, Starting, id
  <2>3. PathSoFar' <=> id # "STA_STOP"
    BY <1>1, <1>2, <2>1, <2>2 DEF PathSoFar, Starting, Stopping, Ids
  <2>4. Len(events) = 1 => (id = "STA_STOP" <=> radio = "off")
    BY <1>2, <2>1 DEF NewestIsRadio, LastEvent, id
  <2>5. ASSUME NEW i \in DOMAIN events', events'[i] # "STA_START"
        PROVE  IF i = 1 THEN id # "STA_STOP" ELSE events'[i - 1] # "STA_STOP"
    <3>1. i + 1 \in DOMAIN events /\ events[i + 1] = events'[i] /\ (i + 1) - 1 = i /\ i + 1 # 1
      BY <1>5
    <3>2. events[i] # "STA_STOP"
      BY <2>1, <2>5, <3>1 DEF SoloPathWhole
    <3>. QED BY <1>5, <3>2 DEF id
  <2>. QED BY <1>1, <1>2, <1>5, <2>1, <2>2, <2>3, <2>4, <2>5 DEF SoloPathWhole, Ids
<1>13. NeverDown'
  BY <1>1, <1>2, <1>3, <1>5, SameThreads DEF NeverDown, Starting, Stopping, Ids, Threads, id
<1>14. KeptPath'
  <2>1. WillAttach => WillAttach'
    BY <1>1, <1>3, SameThreads DEF WillAttach, Starting, Threads
  <2>2. ~lost' /\ (\E i \in DOMAIN events : events[i] = "STA_START")
          => WillAttach' \/ \E i \in DOMAIN events' : events'[i] = "STA_START"
    <3>. SUFFICES ASSUME ~lost', NEW i \in DOMAIN events, events[i] = "STA_START"
                  PROVE  WillAttach' \/ \E k \in DOMAIN events' : events'[k] = "STA_START"
      OBVIOUS
    <3>1. CASE i = 1
      BY <3>1, <1>3 DEF WillAttach, Starting, Threads, id
    <3>2. CASE i # 1
      <4>1. i - 1 \in DOMAIN events' /\ events'[i - 1] = events[i]
        BY <3>2, <1>5
      <4>. QED BY <4>1
    <3>. QED BY <3>1, <3>2
  <2>3. ~lost' /\ (\E t \in Threads : Place(t) = "up") => \E t \in Threads : Place(t)' = "up"
    BY <1>1, <1>3 DEF Threads
  <2>. QED BY <1>1, <1>4, <1>7, <2>1, <2>2, <2>3 DEF KeptPath
<1>15. Installed'
  BY <1>1, <1>3, SameThreads DEF Installed, StopsAndReattaches, Threads
<1>. QED BY <1>6, <1>8, <1>9, <1>10, <1>11, <1>12, <1>13, <1>14, <1>15

LEMMA ReattachKeeps ==
  ASSUME PathInv, CallReattach
  PROVE  PathInv'
<1>. USE DEF PathInv, Registered, driver, stack
<1>1. /\ UNCHANGED <<radio, claims, rxcb, events, calls, added, listening, attached, mbox, ifUp,
                     linkUp, attachFails, lost>>
      /\ reattaches' = reattaches + 1 /\ reattaches' # 0 /\ reattaches' \in Nat
  BY DEF CallReattach, LinkTypes
<1>2. /\ DOMAIN todo' = Threads /\ todo'["event"] = todo["event"] /\ todo'["app"] = Reattach
  BY DEF CallReattach, LinkTypes, Threads
<1>3. PlaceOf(Reattach) = "forget"
  BY DEF PlaceOf, Reattach, Start
<1>4. Place("event")' = Place("event") /\ Place("app")' = "forget" /\ Place("app") = "none"
  BY <1>2, <1>3 DEF Place, PlaceOf, CallReattach
<1>5. (LinkBecomes' <=> LinkBecomes) /\ (IfBecomes' <=> IfBecomes)
  BY <1>1, SameBox
<1>6. LinkTypes'
  BY <1>1, <1>2 DEF LinkTypes, AppRests
<1>7. Bookkeeping' /\ NewestIsRadio' /\ LinkChain'
  BY <1>1, <1>4, <1>5 DEF Bookkeeping, NewestIsRadio, LastEvent, LinkChain, LinkSoFar
<1>8. SoloPath' /\ SoloPathWhole'
  BY <1>1 DEF SoloPath, SoloPathWhole
<1>9. NeverDown' /\ KeptPath'
  BY <1>1, <1>4, <1>5 DEF NeverDown, KeptPath, WillAttach, Threads
<1>10. Installed'
  BY <1>1, <1>4 DEF Installed, StopsAndReattaches, Threads, LinkTypes
<1>. QED BY <1>6, <1>7, <1>8, <1>9, <1>10

LEMMA TcpipKeeps ==
  ASSUME PathInv, TcpipRuns
  PROVE  PathInv'
<1>. USE DEF PathInv, Registered, driver, fixed
<1>1. UNCHANGED <<radio, claims, rxcb, events, calls, added, listening, reattaches, attached, todo,
                  attachFails, lost>>
  BY DEF TcpipRuns
<1>2. /\ mbox \in Seq(Functions) /\ mbox # <<>> /\ mbox' = Tail(mbox) /\ Head(mbox) \in Functions
      /\ mbox' \in Seq(Functions) /\ Len(mbox') <= MBOX
      /\ DOMAIN mbox' = 1 .. Len(mbox) - 1 /\ DOMAIN mbox = 1 .. Len(mbox) /\ Len(mbox) \in Nat
      /\ \A i \in 1 .. Len(mbox) - 1 : mbox'[i] = mbox[i + 1]
  BY QueueTail, LinkAssumption DEF TcpipRuns, LinkTypes, LinkAssumption
<1>3. /\ ifUp \in BOOLEAN /\ ifUp' \in BOOLEAN
      /\ ifUp' = IF Head(mbox) = "up" THEN TRUE ELSE IF Head(mbox) = "down" THEN FALSE ELSE ifUp
  BY DEF TcpipRuns, LinkTypes
<1>4. /\ linkUp \in BOOLEAN /\ linkUp' \in BOOLEAN
      /\ linkUp' = IF Head(mbox) = "linkUp" THEN TRUE ELSE IF Head(mbox) = "linkDown" THEN FALSE ELSE linkUp
  BY DEF TcpipRuns, LinkTypes
<1>5. IfBecomes' <=> IfBecomes
  <2>1. /\ SetsOn(mbox, "up", "down")
             <=> SetsOn(Tail(mbox), "up", "down") \/ (Head(mbox) = "up" /\ Without(Tail(mbox), "down"))
        /\ Without(mbox, "down") <=> Head(mbox) # "down" /\ Without(Tail(mbox), "down")
    <3>1. mbox \in Seq(Functions) /\ mbox # <<>> /\ "up" # "down"
      BY <1>2
    <3>. QED BY <3>1, TakeFunction
  <2>. QED BY <1>2, <1>3, <2>1 DEF IfBecomes
<1>6. LinkBecomes' <=> LinkBecomes
  <2>1. /\ SetsOn(mbox, "linkUp", "linkDown")
             <=> SetsOn(Tail(mbox), "linkUp", "linkDown") \/ (Head(mbox) = "linkUp" /\ Without(Tail(mbox), "linkDown"))
        /\ Without(mbox, "linkDown") <=> Head(mbox) # "linkDown" /\ Without(Tail(mbox), "linkDown")
    <3>1. mbox \in Seq(Functions) /\ mbox # <<>> /\ "linkUp" # "linkDown"
      BY <1>2
    <3>. QED BY <3>1, TakeFunction
  <2>. QED BY <1>2, <1>4, <2>1 DEF LinkBecomes
<1>7. \A t \in Threads : Place(t)' = Place(t)
  BY <1>1, SameThreads
<1>8. (LinkSoFar' <=> LinkSoFar) /\ (PathSoFar' <=> PathSoFar) /\ (WillAttach' <=> WillAttach)
  BY <1>1, <1>6, <1>7 DEF LinkSoFar, PathSoFar, WillAttach, Threads
<1>9. LinkTypes'
  BY <1>1, <1>2, <1>3, <1>4 DEF LinkTypes
<1>10. Bookkeeping' /\ NewestIsRadio' /\ LinkChain'
  BY <1>1, <1>6, <1>7, <1>8 DEF Bookkeeping, NewestIsRadio, LastEvent, LinkChain, Threads
<1>11. SoloPath' /\ SoloPathWhole'
  BY <1>1, <1>5, <1>7, <1>8 DEF SoloPath, SoloPathWhole, Threads
<1>12. NeverDown'
  <2>1. Without(mbox, "down") => Without(mbox', "down")
    BY <1>2 DEF Without
  <2>. QED BY <1>1, <1>7, <2>1 DEF NeverDown, Threads
<1>13. KeptPath' /\ Installed'
  BY <1>1, <1>5, <1>7, <1>8 DEF KeptPath, Installed, StopsAndReattaches, Threads
<1>. QED BY <1>9, <1>10, <1>11, <1>12, <1>13

LEMMA StutterKeeps ==
  ASSUME PathInv, UNCHANGED vars
  PROVE  PathInv'
<1>. USE DEF PathInv, Registered, vars, driver, fixed, stack
<1>1. /\ \A t \in Threads : Place(t)' = Place(t)
      /\ (LinkBecomes' <=> LinkBecomes) /\ (IfBecomes' <=> IfBecomes)
  BY SameThreads, SameBox
<1>2. (LinkSoFar' <=> LinkSoFar) /\ (PathSoFar' <=> PathSoFar) /\ (WillAttach' <=> WillAttach)
  BY <1>1 DEF LinkSoFar, PathSoFar, WillAttach, Threads
<1>3. LinkTypes' /\ Bookkeeping'
  BY <1>1 DEF LinkTypes, Bookkeeping, Threads
<1>4. NewestIsRadio' /\ LinkChain'
  BY <1>1, <1>2 DEF NewestIsRadio, LastEvent, LinkChain, Threads
<1>5. SoloPath' /\ SoloPathWhole'
  BY <1>1, <1>2 DEF SoloPath, SoloPathWhole, Threads
<1>6. NeverDown' /\ KeptPath' /\ Installed'
  BY <1>1, <1>2 DEF NeverDown, KeptPath, Installed, StopsAndReattaches, Threads
<1>. QED BY <1>3, <1>4, <1>5, <1>6

LEMMA ForgetKeeps ==
  ASSUME PathInv, NEW t \in Threads, Forget(t)
  PROVE  PathInv'
<1>. USE DEF PathInv, Registered, driver, fixed, stack, Threads
<1>1. UNCHANGED <<radio, claims, events, calls, added, listening, reattaches, rxcb, mbox, ifUp,
                  linkUp, attachFails, lost>>
  BY DEF Forget
<1>2. Place("event") \in EventPlaces /\ Place("app") \in AppPlaces
  BY PlacesAre
<1>3. (LinkBecomes' <=> LinkBecomes) /\ (IfBecomes' <=> IfBecomes)
  BY <1>1, SameBox
<1>4. /\ DOMAIN todo' = Threads /\ todo'["event"] \in EventRests /\ todo'["app"] \in AppRests
      /\ Place(t) = "forget" /\ Place(t)' = "check" /\ attached' = FALSE
      /\ \A u \in Threads \ {t} : Place(u)' = Place(u)
  BY <1>2, StepOn DEF Forget, Following, StepAt
<1>5. LinkTypes'
  BY <1>1, <1>2, <1>3, <1>4 DEF LinkTypes, Following, StepAt, EventPlaces, AppPlaces
<1>6. Bookkeeping'
  BY <1>1, <1>2, <1>3, <1>4 DEF Bookkeeping, Following, StepAt, EventPlaces, AppPlaces
<1>7. NewestIsRadio'
  BY <1>1, <1>2, <1>3, <1>4 DEF NewestIsRadio, LastEvent, Following, StepAt, EventPlaces, AppPlaces
<1>8. LinkChain'
  BY <1>1, <1>2, <1>3, <1>4 DEF LinkChain, LinkSoFar, Stopping, Following, StepAt, EventPlaces, AppPlaces
<1>9. SoloPath'
  BY <1>1, <1>2, <1>3, <1>4
    DEF SoloPath, PathSoFar, Bookkeeping, Starting, Stopping, Following, StepAt, EventPlaces,
        AppPlaces
<1>10. SoloPathWhole'
  BY <1>1, <1>2, <1>3, <1>4
    DEF SoloPathWhole, SoloPath, PathSoFar, Bookkeeping, Starting, Stopping, Following, StepAt,
        EventPlaces, AppPlaces
<1>11. NeverDown'
  BY <1>1, <1>2, <1>3, <1>4 DEF NeverDown, Starting, Stopping, Following, StepAt, EventPlaces, AppPlaces
<1>12. KeptPath'
  BY <1>1, <1>2, <1>3, <1>4
    DEF KeptPath, WillAttach, NeverDown, Starting, Stopping, Following, StepAt, EventPlaces,
        AppPlaces
<1>13. Installed'
  BY <1>1, <1>2, <1>3, <1>4
    DEF Installed, Bookkeeping, NeverDown, StopsAndReattaches, Starting, Stopping, Following,
        StepAt, EventPlaces, AppPlaces
<1>. QED BY <1>5, <1>6, <1>7, <1>8, <1>9, <1>10, <1>11, <1>12, <1>13

LEMMA CheckKeeps ==
  ASSUME PathInv, NEW t \in Threads, CheckAttached(t)
  PROVE  PathInv'
<1>. USE DEF PathInv, Registered, driver, fixed, stack, Threads
<1>1. UNCHANGED <<radio, claims, events, calls, added, listening, reattaches, rxcb, attached, mbox,
                  ifUp, linkUp, attachFails, lost>>
  BY DEF CheckAttached
<1>2. Place("event") \in EventPlaces /\ Place("app") \in AppPlaces
  BY PlacesAre
<1>3. (LinkBecomes' <=> LinkBecomes) /\ (IfBecomes' <=> IfBecomes)
  BY <1>1, SameBox
<1>4. /\ DOMAIN todo' = Threads /\ todo'["event"] \in EventRests /\ todo'["app"] \in AppRests
      /\ \/ Place(t) = "check" /\ Place(t)' = IF attached THEN "none" ELSE "attach"
         \/ Place(t) = "checkAttached" /\ Place(t)' = IF attached THEN "detach" ELSE "none"
      /\ \A u \in Threads \ {t} : Place(u)' = Place(u)
  BY <1>2, StepOn, ReturnIs DEF CheckAttached, Following, StepAt
<1>5. LinkTypes'
  BY <1>1, <1>2, <1>3, <1>4 DEF LinkTypes, Following, StepAt, EventPlaces, AppPlaces
<1>6. Bookkeeping'
  BY <1>1, <1>2, <1>3, <1>4 DEF Bookkeeping, Following, StepAt, EventPlaces, AppPlaces
<1>7. NewestIsRadio'
  BY <1>1, <1>2, <1>3, <1>4 DEF NewestIsRadio, LastEvent, Following, StepAt, EventPlaces, AppPlaces
<1>8. LinkChain'
  BY <1>1, <1>2, <1>3, <1>4 DEF LinkChain, LinkSoFar, Stopping, Following, StepAt, EventPlaces, AppPlaces
<1>9. SoloPath'
  BY <1>1, <1>2, <1>3, <1>4
    DEF SoloPath, PathSoFar, Bookkeeping, Starting, Stopping, Following, StepAt, EventPlaces,
        AppPlaces
<1>10. SoloPathWhole'
  BY <1>1, <1>2, <1>3, <1>4
    DEF SoloPathWhole, SoloPath, PathSoFar, Bookkeeping, Starting, Stopping, Following, StepAt,
        EventPlaces, AppPlaces
<1>11. NeverDown'
  BY <1>1, <1>2, <1>3, <1>4 DEF NeverDown, Starting, Stopping, Following, StepAt, EventPlaces, AppPlaces
<1>12. KeptPath'
  BY <1>1, <1>2, <1>3, <1>4
    DEF KeptPath, WillAttach, NeverDown, Starting, Stopping, Following, StepAt, EventPlaces,
        AppPlaces
<1>13. Installed'
  BY <1>1, <1>2, <1>3, <1>4
    DEF Installed, Bookkeeping, NeverDown, StopsAndReattaches, Starting, Stopping, Following,
        StepAt, EventPlaces, AppPlaces
<1>. QED BY <1>5, <1>6, <1>7, <1>8, <1>9, <1>10, <1>11, <1>12, <1>13

LEMMA AttachKeeps ==
  ASSUME PathInv, NEW t \in Threads, Attach(t)
  PROVE  PathInv'
<1>. USE DEF PathInv, Registered, driver, fixed, stack, Threads
<1>1. UNCHANGED <<radio, claims, events, calls, added, listening, reattaches, attached, mbox, ifUp,
                  linkUp, attachFails, lost>>
  BY DEF Attach
<1>2. Place("event") \in EventPlaces /\ Place("app") \in AppPlaces
  BY PlacesAre
<1>3. (LinkBecomes' <=> LinkBecomes) /\ (IfBecomes' <=> IfBecomes)
  BY <1>1, SameBox
<1>4. /\ DOMAIN todo' = Threads /\ todo'["event"] \in EventRests /\ todo'["app"] \in AppRests
      /\ Place(t) = "attach" /\ Place(t)' = "attached" /\ rxcb' = "netif"
      /\ \A u \in Threads \ {t} : Place(u)' = Place(u)
  BY <1>2, StepOn DEF Attach, Following, StepAt
<1>5. LinkTypes'
  BY <1>1, <1>2, <1>3, <1>4 DEF LinkTypes, Following, StepAt, EventPlaces, AppPlaces
<1>6. Bookkeeping'
  BY <1>1, <1>2, <1>3, <1>4 DEF Bookkeeping, Following, StepAt, EventPlaces, AppPlaces
<1>7. NewestIsRadio'
  BY <1>1, <1>2, <1>3, <1>4 DEF NewestIsRadio, LastEvent, Following, StepAt, EventPlaces, AppPlaces
<1>8. LinkChain'
  BY <1>1, <1>2, <1>3, <1>4 DEF LinkChain, LinkSoFar, Stopping, Following, StepAt, EventPlaces, AppPlaces
<1>9. SoloPath'
  BY <1>1, <1>2, <1>3, <1>4
    DEF SoloPath, PathSoFar, Bookkeeping, Starting, Stopping, Following, StepAt, EventPlaces,
        AppPlaces
<1>10. SoloPathWhole'
  BY <1>1, <1>2, <1>3, <1>4
    DEF SoloPathWhole, SoloPath, PathSoFar, Bookkeeping, Starting, Stopping, Following, StepAt,
        EventPlaces, AppPlaces
<1>11. NeverDown'
  BY <1>1, <1>2, <1>3, <1>4 DEF NeverDown, Starting, Stopping, Following, StepAt, EventPlaces, AppPlaces
<1>12. KeptPath'
  BY <1>1, <1>2, <1>3, <1>4
    DEF KeptPath, WillAttach, NeverDown, Starting, Stopping, Following, StepAt, EventPlaces,
        AppPlaces
<1>13. Installed'
  BY <1>1, <1>2, <1>3, <1>4
    DEF Installed, Bookkeeping, NeverDown, StopsAndReattaches, Starting, Stopping, Following,
        StepAt, EventPlaces, AppPlaces
<1>. QED BY <1>5, <1>6, <1>7, <1>8, <1>9, <1>10, <1>11, <1>12, <1>13

LEMMA AttachFailsKeeps ==
  ASSUME PathInv, NEW t \in Threads, AttachFails(t)
  PROVE  PathInv'
<1>. USE DEF PathInv, Registered, driver, fixed, stack, Threads
<1>1. UNCHANGED <<radio, claims, events, calls, added, listening, reattaches, rxcb, attached, mbox,
                  ifUp, linkUp, lost>>
  BY DEF AttachFails
<1>2. Place("event") \in EventPlaces /\ Place("app") \in AppPlaces
  BY PlacesAre
<1>3. (LinkBecomes' <=> LinkBecomes) /\ (IfBecomes' <=> IfBecomes)
  BY <1>1, SameBox
<1>4. /\ DOMAIN todo' = Threads /\ todo'["event"] \in EventRests /\ todo'["app"] \in AppRests
      /\ Place(t) = "attach" /\ Place(t)' = "none"
      /\ \A u \in Threads \ {t} : Place(u)' = Place(u)
  BY <1>2, ReturnIs DEF AttachFails, StepAt
<1>5. attachFails' = attachFails + 1 /\ attachFails' \in Nat /\ attachFails' # 0
  BY DEF AttachFails, LinkTypes
<1>6. LinkTypes'
  BY <1>1, <1>2, <1>3, <1>4, <1>5 DEF LinkTypes, Following, StepAt, EventPlaces, AppPlaces
<1>7. Bookkeeping'
  BY <1>1, <1>2, <1>3, <1>4, <1>5 DEF Bookkeeping, Following, StepAt, EventPlaces, AppPlaces
<1>8. NewestIsRadio'
  BY <1>1, <1>2, <1>3, <1>4, <1>5 DEF NewestIsRadio, LastEvent, Following, StepAt, EventPlaces, AppPlaces
<1>9. LinkChain'
  BY <1>1, <1>2, <1>3, <1>4, <1>5
    DEF LinkChain, LinkSoFar, Stopping, Following, StepAt, EventPlaces, AppPlaces
<1>10. SoloPath'
  BY <1>1, <1>2, <1>3, <1>4, <1>5
    DEF SoloPath, PathSoFar, Bookkeeping, Starting, Stopping, Following, StepAt, EventPlaces,
        AppPlaces
<1>11. SoloPathWhole'
  BY <1>1, <1>2, <1>3, <1>4, <1>5
    DEF SoloPathWhole, SoloPath, PathSoFar, Bookkeeping, Starting, Stopping, Following, StepAt,
        EventPlaces, AppPlaces
<1>12. NeverDown'
  BY <1>1, <1>2, <1>3, <1>4, <1>5
    DEF NeverDown, Starting, Stopping, Following, StepAt, EventPlaces, AppPlaces
<1>13. KeptPath'
  BY <1>1, <1>2, <1>3, <1>4, <1>5
    DEF KeptPath, WillAttach, NeverDown, Starting, Stopping, Following, StepAt, EventPlaces,
        AppPlaces
<1>14. Installed'
  BY <1>1, <1>2, <1>3, <1>4, <1>5
    DEF Installed, Bookkeeping, NeverDown, StopsAndReattaches, Starting, Stopping, Following,
        StepAt, EventPlaces, AppPlaces
<1>. QED BY <1>6, <1>7, <1>8, <1>9, <1>10, <1>11, <1>12, <1>13, <1>14

LEMMA DetachKeeps ==
  ASSUME PathInv, NEW t \in Threads, Detach(t)
  PROVE  PathInv'
<1>. USE DEF PathInv, Registered, driver, fixed, stack, Threads
<1>1. UNCHANGED <<radio, claims, events, calls, added, listening, reattaches, attached, mbox, ifUp,
                  linkUp, attachFails, lost>>
  BY DEF Detach
<1>2. Place("event") \in EventPlaces /\ Place("app") \in AppPlaces
  BY PlacesAre
<1>3. (LinkBecomes' <=> LinkBecomes) /\ (IfBecomes' <=> IfBecomes)
  BY <1>1, SameBox
<1>4. /\ DOMAIN todo' = Threads /\ todo'["event"] \in EventRests /\ todo'["app"] \in AppRests
      /\ Place(t) = "detach" /\ Place(t)' = "detached" /\ rxcb' \in {"none", "left"}
      /\ \A u \in Threads \ {t} : Place(u)' = Place(u)
  BY <1>2, StepOn DEF Detach, Following, StepAt
<1>5. LinkTypes'
  BY <1>1, <1>2, <1>3, <1>4 DEF LinkTypes, Following, StepAt, EventPlaces, AppPlaces
<1>6. Bookkeeping'
  BY <1>1, <1>2, <1>3, <1>4 DEF Bookkeeping, Following, StepAt, EventPlaces, AppPlaces
<1>7. NewestIsRadio'
  BY <1>1, <1>2, <1>3, <1>4 DEF NewestIsRadio, LastEvent, Following, StepAt, EventPlaces, AppPlaces
<1>8. LinkChain'
  BY <1>1, <1>2, <1>3, <1>4 DEF LinkChain, LinkSoFar, Stopping, Following, StepAt, EventPlaces, AppPlaces
<1>9. SoloPath'
  BY <1>1, <1>2, <1>3, <1>4
    DEF SoloPath, PathSoFar, Bookkeeping, Starting, Stopping, Following, StepAt, EventPlaces,
        AppPlaces
<1>10. SoloPathWhole'
  BY <1>1, <1>2, <1>3, <1>4
    DEF SoloPathWhole, SoloPath, PathSoFar, Bookkeeping, Starting, Stopping, Following, StepAt,
        EventPlaces, AppPlaces
<1>11. NeverDown'
  BY <1>1, <1>2, <1>3, <1>4 DEF NeverDown, Starting, Stopping, Following, StepAt, EventPlaces, AppPlaces
<1>12. KeptPath'
  BY <1>1, <1>2, <1>3, <1>4
    DEF KeptPath, WillAttach, NeverDown, Starting, Stopping, Following, StepAt, EventPlaces,
        AppPlaces
<1>13. Installed'
  <2>. SUFFICES ASSUME ~StopsAndReattaches' PROVE Installed'
    BY DEF Installed
  <2>1. reattaches = 0 /\ t = "event"
    BY <1>1, <1>2, <1>4 DEF StopsAndReattaches, NeverDown, LinkTypes, Starting, Stopping, AppPlaces
  <2>2. Place("app")' = "none" /\ Place("event")' = "detached"
    BY <2>1, <1>4 DEF Bookkeeping
  <2>. QED BY <2>2 DEF Installed
<1>. QED BY <1>5, <1>6, <1>7, <1>8, <1>9, <1>10, <1>11, <1>12, <1>13

LEMMA SetAttachedKeeps ==
  ASSUME PathInv, NEW t \in Threads, SetAttached(t)
  PROVE  PathInv'
<1>. USE DEF PathInv, Registered, driver, fixed, stack, Threads
<1>1. UNCHANGED <<radio, claims, events, calls, added, listening, reattaches, rxcb, mbox, ifUp,
                  linkUp, attachFails, lost>>
  BY DEF SetAttached
<1>2. Place("event") \in EventPlaces /\ Place("app") \in AppPlaces
  BY PlacesAre
<1>3. (LinkBecomes' <=> LinkBecomes) /\ (IfBecomes' <=> IfBecomes)
  BY <1>1, SameBox
<1>4. /\ DOMAIN todo' = Threads /\ todo'["event"] \in EventRests /\ todo'["app"] \in AppRests
      /\ \/ Place(t) = "attached" /\ Place(t)' = "up" /\ attached' = TRUE
         \/ Place(t) = "detached" /\ Place(t)' = "stopLink" /\ attached' = FALSE
      /\ \A u \in Threads \ {t} : Place(u)' = Place(u)
  BY <1>2, StepOn DEF SetAttached, Following, StepAt
<1>5. LinkTypes'
  BY <1>1, <1>2, <1>3, <1>4 DEF LinkTypes, Following, StepAt, EventPlaces, AppPlaces
<1>6. Bookkeeping'
  BY <1>1, <1>2, <1>3, <1>4 DEF Bookkeeping, Following, StepAt, EventPlaces, AppPlaces
<1>7. NewestIsRadio'
  BY <1>1, <1>2, <1>3, <1>4 DEF NewestIsRadio, LastEvent, Following, StepAt, EventPlaces, AppPlaces
<1>8. LinkChain'
  BY <1>1, <1>2, <1>3, <1>4 DEF LinkChain, LinkSoFar, Stopping, Following, StepAt, EventPlaces, AppPlaces
<1>9. SoloPath'
  BY <1>1, <1>2, <1>3, <1>4
    DEF SoloPath, PathSoFar, Bookkeeping, Starting, Stopping, Following, StepAt, EventPlaces,
        AppPlaces
<1>10. SoloPathWhole'
  BY <1>1, <1>2, <1>3, <1>4
    DEF SoloPathWhole, SoloPath, PathSoFar, Bookkeeping, Starting, Stopping, Following, StepAt,
        EventPlaces, AppPlaces
<1>11. NeverDown'
  BY <1>1, <1>2, <1>3, <1>4 DEF NeverDown, Starting, Stopping, Following, StepAt, EventPlaces, AppPlaces
<1>12. KeptPath'
  BY <1>1, <1>2, <1>3, <1>4
    DEF KeptPath, WillAttach, NeverDown, Starting, Stopping, Following, StepAt, EventPlaces,
        AppPlaces
<1>13. Installed'
  <2>1. CASE Place(t) = "attached"
    BY <2>1, <1>1, <1>4 DEF Installed, StopsAndReattaches
  <2>2. CASE Place(t) = "detached"
    BY <2>2, <1>1, <1>4 DEF Installed, StopsAndReattaches
  <2>. QED BY <2>1, <2>2, <1>4
<1>. QED BY <1>5, <1>6, <1>7, <1>8, <1>9, <1>10, <1>11, <1>12, <1>13

LEMMA CoreCallKeeps ==
  ASSUME PathInv, NEW t \in Threads, CoreCall(t)
  PROVE  PathInv'
<1>. USE DEF PathInv, Registered, driver, fixed, stack, Threads
<1>1. UNCHANGED <<radio, claims, events, calls, added, listening, reattaches, rxcb, attached, ifUp,
                  linkUp, attachFails>>
  BY DEF CoreCall
<1>2. Place("event") \in EventPlaces /\ Place("app") \in AppPlaces
  BY PlacesAre
<1>3. PICK fn \in Functions :
        /\ At(t, fn) /\ Done(t)
        /\ \/ Len(mbox) < MBOX /\ mbox' = Append(mbox, fn) /\ UNCHANGED lost
           \/ lost' = TRUE /\ UNCHANGED mbox
  BY DEF CoreCall, Functions
<1>4. /\ DOMAIN todo' = Threads /\ todo'["event"] \in EventRests /\ todo'["app"] \in AppRests
      /\ fn = StepAt(Place(t)) /\ Place(t)' = Following(Place(t))
      /\ \A u \in Threads \ {t} : Place(u)' = Place(u)
  BY <1>3, StepOn
<1>5. /\ mbox' \in Seq(Functions) /\ Len(mbox') <= MBOX /\ lost' \in BOOLEAN /\ (~lost' => ~lost)
      /\ Without(mbox, "down") /\ fn # "down" => Without(mbox', "down")
      /\ ~lost' => /\ IfBecomes' <=> fn = "up" \/ (fn # "down" /\ IfBecomes)
                   /\ LinkBecomes' <=> fn = "linkUp" \/ (fn # "linkDown" /\ LinkBecomes)
  <2>1. CASE lost' = TRUE /\ UNCHANGED mbox
    BY <2>1 DEF LinkTypes
  <2>2. CASE Len(mbox) < MBOX /\ mbox' = Append(mbox, fn) /\ UNCHANGED lost
    <3>1. mbox \in Seq(Functions) /\ lost \in BOOLEAN
      BY DEF LinkTypes
    <3>2. mbox' \in Seq(Functions) /\ Len(mbox') <= MBOX
      BY <2>2, <3>1, LinkAssumption DEF LinkAssumption
    <3>3. /\ SetsOn(Append(mbox, fn), "up", "down") <=> fn = "up" \/ (fn # "down" /\ SetsOn(mbox, "up", "down"))
          /\ Without(Append(mbox, fn), "down") <=> fn # "down" /\ Without(mbox, "down")
      BY <3>1, AppendFunction
    <3>4. /\ SetsOn(Append(mbox, fn), "linkUp", "linkDown")
               <=> fn = "linkUp" \/ (fn # "linkDown" /\ SetsOn(mbox, "linkUp", "linkDown"))
          /\ Without(Append(mbox, fn), "linkDown") <=> fn # "linkDown" /\ Without(mbox, "linkDown")
      BY <3>1, AppendFunction
    <3>. QED BY <1>1, <2>2, <3>1, <3>2, <3>3, <3>4 DEF IfBecomes, LinkBecomes
  <2>. QED BY <1>3, <2>1, <2>2
<1>6. /\ Place(t) \in {"up", "linkUp", "linkDown", "stopLink", "down"}
      /\ Place(t) # "up" => t = "event"
  BY <1>2, <1>4 DEF StepAt, EventPlaces, AppPlaces, Starting, Stopping, Functions
<1>7. /\ Place(t) = "up" => fn = "up" /\ Place(t)' = "none"
      /\ Place(t) = "linkUp" => fn = "linkUp" /\ Place(t)' = "none"
      /\ Place(t) = "linkDown" => fn = "linkDown" /\ Place(t)' = "none"
      /\ Place(t) = "stopLink" => fn = "linkDown" /\ Place(t)' = "down"
      /\ Place(t) = "down" => fn = "down" /\ Place(t)' = "none"
  BY <1>4 DEF StepAt, Following
<1>8. LinkTypes'
  BY <1>1, <1>4, <1>5 DEF LinkTypes, Following
<1>9. Bookkeeping'
  BY <1>1, <1>4, <1>5 DEF Bookkeeping, Following
<1>10. NewestIsRadio'
  BY <1>1, <1>4, <1>5 DEF NewestIsRadio, LastEvent, Following
<1>11. LinkChain'
  <2>1. CASE Place(t) = "up"
    BY <2>1, <1>1, <1>2, <1>4, <1>5, <1>6, <1>7
      DEF LinkChain, LinkSoFar, Stopping, EventPlaces, AppPlaces
  <2>2. CASE Place(t) = "linkUp"
    BY <2>2, <1>1, <1>2, <1>4, <1>5, <1>6, <1>7
      DEF LinkChain, LinkSoFar, Stopping, EventPlaces, AppPlaces
  <2>3. CASE Place(t) = "linkDown"
    BY <2>3, <1>1, <1>2, <1>4, <1>5, <1>6, <1>7
      DEF LinkChain, LinkSoFar, Stopping, EventPlaces, AppPlaces
  <2>4. CASE Place(t) = "stopLink"
    BY <2>4, <1>1, <1>2, <1>4, <1>5, <1>6, <1>7
      DEF LinkChain, LinkSoFar, Stopping, EventPlaces, AppPlaces
  <2>5. CASE Place(t) = "down"
    BY <2>5, <1>1, <1>2, <1>4, <1>5, <1>6, <1>7
      DEF LinkChain, LinkSoFar, Stopping, EventPlaces, AppPlaces
  <2>. QED BY <1>6, <2>1, <2>2, <2>3, <2>4, <2>5
<1>12. SoloPath'
  <2>1. CASE Place(t) = "up"
    BY <2>1, <1>1, <1>2, <1>4, <1>5, <1>6, <1>7
      DEF SoloPath, PathSoFar, Bookkeeping, Starting, Stopping, EventPlaces, AppPlaces
  <2>2. CASE Place(t) = "linkUp"
    BY <2>2, <1>1, <1>2, <1>4, <1>5, <1>6, <1>7
      DEF SoloPath, PathSoFar, Bookkeeping, Starting, Stopping, EventPlaces, AppPlaces
  <2>3. CASE Place(t) = "linkDown"
    BY <2>3, <1>1, <1>2, <1>4, <1>5, <1>6, <1>7
      DEF SoloPath, PathSoFar, Bookkeeping, Starting, Stopping, EventPlaces, AppPlaces
  <2>4. CASE Place(t) = "stopLink"
    BY <2>4, <1>1, <1>2, <1>4, <1>5, <1>6, <1>7
      DEF SoloPath, PathSoFar, Bookkeeping, Starting, Stopping, EventPlaces, AppPlaces
  <2>5. CASE Place(t) = "down"
    BY <2>5, <1>1, <1>2, <1>4, <1>5, <1>6, <1>7
      DEF SoloPath, PathSoFar, Bookkeeping, Starting, Stopping, EventPlaces, AppPlaces
  <2>. QED BY <1>6, <2>1, <2>2, <2>3, <2>4, <2>5
<1>13. SoloPathWhole'
  <2>1. CASE Place(t) = "up"
    BY <2>1, <1>1, <1>2, <1>4, <1>5, <1>6, <1>7
      DEF SoloPathWhole, SoloPath, PathSoFar, Bookkeeping, Starting, Stopping, EventPlaces,
          AppPlaces
  <2>2. CASE Place(t) = "linkUp"
    BY <2>2, <1>1, <1>2, <1>4, <1>5, <1>6, <1>7
      DEF SoloPathWhole, SoloPath, PathSoFar, Bookkeeping, Starting, Stopping, EventPlaces,
          AppPlaces
  <2>3. CASE Place(t) = "linkDown"
    BY <2>3, <1>1, <1>2, <1>4, <1>5, <1>6, <1>7
      DEF SoloPathWhole, SoloPath, PathSoFar, Bookkeeping, Starting, Stopping, EventPlaces,
          AppPlaces
  <2>4. CASE Place(t) = "stopLink"
    BY <2>4, <1>1, <1>2, <1>4, <1>5, <1>6, <1>7
      DEF SoloPathWhole, SoloPath, PathSoFar, Bookkeeping, Starting, Stopping, EventPlaces,
          AppPlaces
  <2>5. CASE Place(t) = "down"
    BY <2>5, <1>1, <1>2, <1>4, <1>5, <1>6, <1>7
      DEF SoloPathWhole, SoloPath, PathSoFar, Bookkeeping, Starting, Stopping, EventPlaces,
          AppPlaces
  <2>. QED BY <1>6, <2>1, <2>2, <2>3, <2>4, <2>5
<1>14. NeverDown'
  <2>1. CASE Place(t) = "up"
    BY <2>1, <1>1, <1>2, <1>4, <1>5, <1>6, <1>7 DEF NeverDown, Starting, Stopping, EventPlaces, AppPlaces
  <2>2. CASE Place(t) = "linkUp"
    BY <2>2, <1>1, <1>2, <1>4, <1>5, <1>6, <1>7 DEF NeverDown, Starting, Stopping, EventPlaces, AppPlaces
  <2>3. CASE Place(t) = "linkDown"
    BY <2>3, <1>1, <1>2, <1>4, <1>5, <1>6, <1>7 DEF NeverDown, Starting, Stopping, EventPlaces, AppPlaces
  <2>4. CASE Place(t) = "stopLink"
    BY <2>4, <1>1, <1>2, <1>4, <1>5, <1>6, <1>7 DEF NeverDown, Starting, Stopping, EventPlaces, AppPlaces
  <2>5. CASE Place(t) = "down"
    BY <2>5, <1>1, <1>2, <1>4, <1>5, <1>6, <1>7 DEF NeverDown, Starting, Stopping, EventPlaces, AppPlaces
  <2>. QED BY <1>6, <2>1, <2>2, <2>3, <2>4, <2>5
<1>15. KeptPath'
  <2>1. CASE Place(t) = "up"
    BY <2>1, <1>1, <1>2, <1>4, <1>5, <1>6, <1>7
      DEF KeptPath, WillAttach, NeverDown, Starting, Stopping, EventPlaces, AppPlaces
  <2>2. CASE Place(t) = "linkUp"
    BY <2>2, <1>1, <1>2, <1>4, <1>5, <1>6, <1>7
      DEF KeptPath, WillAttach, NeverDown, Starting, Stopping, EventPlaces, AppPlaces
  <2>3. CASE Place(t) = "linkDown"
    BY <2>3, <1>1, <1>2, <1>4, <1>5, <1>6, <1>7
      DEF KeptPath, WillAttach, NeverDown, Starting, Stopping, EventPlaces, AppPlaces
  <2>4. CASE Place(t) = "stopLink"
    BY <2>4, <1>1, <1>2, <1>4, <1>5, <1>6, <1>7
      DEF KeptPath, WillAttach, NeverDown, Starting, Stopping, EventPlaces, AppPlaces
  <2>5. CASE Place(t) = "down"
    BY <2>5, <1>1, <1>2, <1>4, <1>5, <1>6, <1>7
      DEF KeptPath, WillAttach, NeverDown, Starting, Stopping, EventPlaces, AppPlaces
  <2>. QED BY <1>6, <2>1, <2>2, <2>3, <2>4, <2>5
<1>16. Installed'
  <2>1. CASE Place(t) = "up"
    BY <2>1, <1>1, <1>2, <1>4, <1>5, <1>6, <1>7
      DEF Installed, Bookkeeping, NeverDown, StopsAndReattaches, Starting, Stopping, EventPlaces,
          AppPlaces
  <2>2. CASE Place(t) = "linkUp"
    BY <2>2, <1>1, <1>2, <1>4, <1>5, <1>6, <1>7
      DEF Installed, Bookkeeping, NeverDown, StopsAndReattaches, Starting, Stopping, EventPlaces,
          AppPlaces
  <2>3. CASE Place(t) = "linkDown"
    BY <2>3, <1>1, <1>2, <1>4, <1>5, <1>6, <1>7
      DEF Installed, Bookkeeping, NeverDown, StopsAndReattaches, Starting, Stopping, EventPlaces,
          AppPlaces
  <2>4. CASE Place(t) = "stopLink"
    BY <2>4, <1>1, <1>2, <1>4, <1>5, <1>6, <1>7
      DEF Installed, Bookkeeping, NeverDown, StopsAndReattaches, Starting, Stopping, EventPlaces,
          AppPlaces
  <2>5. CASE Place(t) = "down"
    BY <2>5, <1>1, <1>2, <1>4, <1>5, <1>6, <1>7
      DEF Installed, Bookkeeping, NeverDown, StopsAndReattaches, Starting, Stopping, EventPlaces,
          AppPlaces
  <2>. QED BY <1>6, <2>1, <2>2, <2>3, <2>4, <2>5
<1>. QED BY <1>8, <1>9, <1>10, <1>11, <1>12, <1>13, <1>14, <1>15, <1>16

------------------------------------------------------------------------------
LEMMA InitPath == Init => PathInv
<1>. SUFFICES ASSUME Init PROVE PathInv
  OBVIOUS
<1>1. \A t \in Threads : todo[t] = <<>> /\ Place(t) = "none"
  BY DEF Init, Place, PlaceOf
<1>2. LinkTypes
  <2>1. events \in Seq(Ids) /\ Len(events) <= QUEUE_DEPTH
    BY LinkAssumption DEF Init, LinkAssumption
  <2>2. mbox \in Seq(Functions) /\ Len(mbox) <= MBOX
    BY LinkAssumption DEF Init, LinkAssumption
  <2>3. DOMAIN todo = Threads /\ todo["event"] \in EventRests /\ todo["app"] \in AppRests
    BY <1>1 DEF Init, EventRests, AppRests, StartRests, Threads
  <2>. QED BY <2>1, <2>2, <2>3 DEF Init, LinkTypes
<1>3. ~LinkBecomes /\ ~IfBecomes /\ Without(mbox, "down")
  BY DEF Init, LinkBecomes, IfBecomes, SetsOn, Without
<1>4. Bookkeeping /\ NewestIsRadio
  BY <1>1 DEF Init, Bookkeeping, NewestIsRadio, Threads
<1>5. LinkChain
  BY <1>1, <1>3 DEF Init, LinkChain, LinkSoFar, Stopping, Threads
<1>6. SoloPath /\ SoloPathWhole
  BY <1>1, <1>3 DEF Init, SoloPath, SoloPathWhole, PathSoFar, Registered, Starting, Stopping, Threads
<1>7. NeverDown /\ KeptPath /\ Installed
  BY <1>1, <1>3 DEF Init, NeverDown, KeptPath, Installed, Starting, Stopping, Threads
<1>. QED BY <1>2, <1>4, <1>5, <1>6, <1>7 DEF PathInv

LEMMA ThreadKeeps ==
  ASSUME PathInv, NEW t \in Threads, ThreadStep(t)
  PROVE  PathInv'
BY ForgetKeeps, CheckKeeps, AttachKeeps, AttachFailsKeeps, DetachKeeps, SetAttachedKeeps, CoreCallKeeps
   DEF ThreadStep

LEMMA NextPath == PathInv /\ [Next]_vars => PathInv'
<1>. SUFFICES ASSUME PathInv, [Next]_vars PROVE PathInv'
  OBVIOUS
<1>1. CASE RadioStart \/ RadioConnects \/ RadioDisconnects \/ RadioStop
  <2>1. claims \in BOOLEAN /\ (claims => radio # "off")
    BY DEF PathInv, LinkTypes, Bookkeeping
  <2>2. PICK id \in Ids : Post(id) /\ Tells(id)
    BY <1>1, <2>1 DEF RadioStart, RadioConnects, RadioDisconnects, RadioStop, Tells, Ids
  <2>. QED BY <2>2, PostKeeps
<1>2. CASE \E registered \in BOOLEAN : AddNetif(registered)
  BY <1>2, AddKeeps
<1>3. CASE \E t \in Threads : ThreadStep(t)
  BY <1>3, ThreadKeeps
<1>4. CASE DriverClaims \/ Dispatch \/ CallReattach \/ TcpipRuns
  BY <1>4, ClaimsKeeps, DispatchKeeps, ReattachKeeps, TcpipKeeps
<1>5. CASE UNCHANGED vars
  BY <1>5, StutterKeeps
<1>. QED BY <1>1, <1>2, <1>3, <1>4, <1>5 DEF Next

LEMMA PathHolds == Spec => []PathInv
BY InitPath, NextPath, PTL DEF Spec

(* Nothing is left to do: the flags are what they would become.             *)
LEMMA SettledIs ==
  ASSUME Settled
  PROVE  /\ \A t \in Threads : Place(t) = "none"
         /\ (IfBecomes <=> ifUp) /\ (LinkBecomes <=> linkUp)
BY DEF Settled, Place, PlaceOf, IfBecomes, LinkBecomes, SetsOn, Without

LEMMA PathIsLink ==
  ASSUME PathInv
  PROVE  LinkInv
<1>1. Len(events) \in 0 .. QUEUE_DEPTH /\ Len(mbox) \in 0 .. MBOX
  BY LinkAssumption DEF PathInv, LinkTypes, LinkAssumption
<1>2. TypeOK
  BY <1>1 DEF PathInv, LinkTypes, TypeOK
<1>3. Place("event") = "detached" => At("event", "detached")
  BY EventRest DEF PathInv, LinkTypes, Place, PlaceOf, StepAt, At
<1>4. AttachedIsInstalled
  BY <1>3 DEF PathInv, Installed, AttachedIsInstalled, StopsAndReattaches, Threads
<1>. QED BY <1>2, <1>4 DEF LinkInv

(* Types, and an attached interface has a callback of the station in the      *)
(* driver, whatever the radio and the application do and however the event   *)
(* task and the application overlap, but for the application that both stops  *)
(* and reattaches.                                                          *)
THEOREM LinkInvHolds == Spec => []LinkInv
<1>1. PathInv => LinkInv
  BY PathIsLink
<1>. QED BY <1>1, PathHolds, PTL

(* When nothing is left to do and nothing was dropped, the link is up exactly *)
(* when the station is associated, for any depth of the two queues.          *)
THEOREM LinkFollowsRadioHolds == Spec => []LinkFollowsRadio
<1>1. PathInv => LinkFollowsRadio
  <2>. SUFFICES ASSUME PathInv, Settled, ~lost PROVE linkUp <=> radio = "connected"
    BY DEF LinkFollowsRadio
  <2>1. LinkSoFar <=> linkUp
    BY SettledIs DEF LinkSoFar, Threads
  <2>. QED BY <2>1 DEF PathInv, LinkChain, Settled
<1>. QED BY <1>1, PathHolds, PTL

(* In the same states the receive path and the interface follow the radio's   *)
(* start and stop, with the exceptions the property names.                   *)
THEOREM PathFollowsRadioHolds == Spec => []PathFollowsRadio
<1>1. PathInv => PathFollowsRadio
  <2>. SUFFICES ASSUME PathInv, Settled, ~lost
                PROVE  /\ attachFails = 0 /\ ~StopsAndReattaches
                            => (radio # "off" => attached) /\ (Registered <=> attached)
                       /\ reattaches = 0 => (radio = "off" => ~attached) /\ (ifUp <=> attached)
    BY DEF PathFollowsRadio
  <2>1. /\ \A t \in Threads : Place(t) = "none"
        /\ IfBecomes <=> ifUp
        /\ events = <<>>
    BY SettledIs DEF Settled
  <2>2. (PathSoFar <=> attached) /\ (WillAttach <=> attached)
    BY <2>1 DEF PathSoFar, WillAttach, Starting, Stopping, Threads
  <2>3. reattaches = 0 => (radio = "off" => ~attached) /\ (ifUp <=> attached)
    BY <2>1, <2>2 DEF PathInv, SoloPath, Threads
  <2>4. ASSUME attachFails = 0, ~StopsAndReattaches
        PROVE  (radio # "off" => attached) /\ (Registered <=> attached)
    <3>1. attached => Registered
      BY <2>1, <2>4 DEF PathInv, Installed, Threads
    <3>2. CASE "stop" \in calls
      <4>1. reattaches = 0
        BY <2>4, <3>2 DEF StopsAndReattaches, PathInv, LinkTypes
      <4>. QED BY <2>1, <2>2, <2>4, <3>1, <4>1 DEF PathInv, SoloPathWhole, Threads
    <3>3. CASE "stop" \notin calls
      BY <2>1, <2>2, <2>4, <3>1, <3>3 DEF PathInv, KeptPath, LinkTypes, Registered
    <3>. QED BY <3>2, <3>3
  <2>. QED BY <2>3, <2>4
<1>. QED BY <1>1, PathHolds, PTL

(* While the radio stays on no reattach takes the interface down, and an      *)
(* attached interface comes up, with the same exception.                     *)
THEOREM ReattachKeepsUpHolds == Spec => ReattachKeepsUp
<1>1. PathInv /\ [Next]_vars => [ifUp /\ "stop" \notin calls => ifUp']_ifUp
  <2>. SUFFICES ASSUME PathInv, [Next]_vars, ifUp, "stop" \notin calls, ifUp' # ifUp PROVE ifUp'
    OBVIOUS
  <2>1. TcpipRuns
    BY DEF Next, vars, driver, fixed, stack, RadioStart, RadioConnects, RadioDisconnects, RadioStop, Post,
           DriverClaims, AddNetif, Dispatch, CallReattach, ThreadStep, Forget, CheckAttached, Attach,
           AttachFails, Detach, SetAttached, CoreCall
  <2>2. Head(mbox) # "down"
    BY <2>1, QueueTail DEF TcpipRuns, PathInv, LinkTypes, NeverDown, Without
  <2>. QED BY <2>1, <2>2 DEF TcpipRuns
<1>2. PathInv => (Settled /\ ~lost /\ attached /\ ~StopsAndReattaches => ifUp)
  <2>. SUFFICES ASSUME PathInv, Settled, ~lost, attached, ~StopsAndReattaches PROVE ifUp
    OBVIOUS
  <2>1. (\A t \in Threads : Place(t) = "none") /\ (IfBecomes <=> ifUp)
    BY SettledIs
  <2>2. CASE "stop" \in calls
    BY <2>1, <2>2 DEF StopsAndReattaches, PathInv, LinkTypes, SoloPath, Threads
  <2>3. CASE "stop" \notin calls
    BY <2>1, <2>3 DEF PathInv, KeptPath
  <2>. QED BY <2>2, <2>3
<1>. QED BY <1>1, <1>2, PathHolds, PTL DEF Spec, ReattachKeepsUp

------------------------------------------------------------------------------
(* The example.                                                             *)
Adding == {"register", "init", "lock", "publish", "add"}
Initializing == Adding \union {"default", "start"}
Unassociated == Initializing \union {"startWait", "up", "started", "connect"}
Unattached == Unassociated \union {"connectWait", "verdict", "reattach"}

Whole == {"lock", "ops", "netif"}

NetTypes ==
  /\ pc \in Unattached \union {"reattaching", "dhcp", "poll", "transmit", "done", "fault"}
  /\ {hears, linkoutput, isDefault, attempt, server, late, refused} \subseteq BOOLEAN
  /\ seen \subseteq {"STA_START", "STA_CONNECTED", "STA_DISCONNECTED"}
  /\ made \subseteq Whole
  /\ dhcp \in {"off", "asking", "bound"}

(* What rtems_esp_netif_add() has made at each of its steps.                *)
AddSteps ==
  /\ pc \in {"register", "init", "lock"} => made = {}
  /\ pc = "publish" => made = {"lock"}
  /\ pc = "add" \/ added => made = Whole
  /\ pc \notin {"publish", "add"} /\ ~added => made = {}
  /\ pc \in Adding => ~added
  /\ pc = "default" => added
  /\ isDefault => added
  /\ added => linkoutput /\ (pc # "default" => isDefault)
  /\ listening \/ attached \/ rxcb = "netif" => added
  /\ (\E t \in Threads : Place(t) # "none") => added

(* How far the radio and the events about it can be: it starts once, so its   *)
(* first event is the oldest, and is dealt with when the next is seen.       *)
RadioSteps ==
  /\ pc \in Initializing => radio = "off"
  /\ pc = "startWait" /\ "start" \notin failed => radio # "off"
  /\ attempt => radio = "started"
  /\ pc \in Unassociated => ~attempt
  /\ radio = "off" => events = <<>> /\ seen = {} /\ Place("event") = "none"
  /\ \A i \in DOMAIN events : events[i] = "STA_START" => i = 1
  /\ "STA_CONNECTED" \in seen =>
       /\ \A i \in DOMAIN events : events[i] # "STA_START"
       /\ Place("event") \notin Starting
  /\ pc \in {"reattach", "reattaching"} => "STA_CONNECTED" \in seen

(* The reattach discards the record, finds it so and takes the path back,     *)
(* the event task having done with the start; the driver may be later still. *)
PathSteps ==
  /\ pc \in Unattached => ~late /\ ~refused
  /\ pc \in Unattached \union {"reattaching", "dhcp"} => dhcp = "off"
  /\ pc # "reattaching" => Place("app") = "none"
  /\ pc = "reattaching" /\ ~late /\ ~refused =>
       \/ Place("app") = "forget"
       \/ Place("app") \in {"check", "attach"} /\ ~attached
       \/ rxcb = "netif"
  /\ pc = "dhcp" /\ ~late /\ ~refused => rxcb = "netif"
  /\ dhcp # "off" /\ ~late /\ ~refused => rxcb = "netif"

(* What each check of the example relies on.                                *)
CheckSteps ==
  /\ pc = "up" /\ "start" \notin failed /\ ~lost /\ added /\ attachFails = 0 => ifUp
  /\ radio # "off" /\ hears /\ ~lost =>
       "STA_START" \in seen \/ \E i \in DOMAIN events : events[i] = "STA_START"
  /\ pc \in {"up", "started"} /\ "start" \notin failed /\ hears /\ ~lost => "STA_START" \in seen
  /\ pc \in {"connectWait", "verdict"} /\ "connect" \notin failed /\ hears /\ ~lost =>
       \/ attempt
       \/ \E i \in DOMAIN events : events[i] \in {"STA_CONNECTED", "STA_DISCONNECTED"}
       \/ seen \intersect {"STA_CONNECTED", "STA_DISCONNECTED"} # {}
  /\ refused => attachFails > 0 \/ ~added
  /\ dhcp # "off" => ifUp

ExampleInv == NetTypes /\ AddSteps /\ RadioSteps /\ PathSteps /\ CheckSteps

(* The steps that leave the radio, the queues and the threads alone.        *)
Quiet ==
  \/ RegisterHandler \/ WifiInit
  \/ CreateLock \/ CreateLockFails \/ Publish \/ AddFails \/ SetDefault
  \/ WaitForStart \/ CheckUp \/ CheckStarted
  \/ Connect \/ WaitForVerdict \/ Verdict
  \/ NothingToTakeBack \/ PathTakenBack
  \/ StartDhcp \/ Poll \/ Transmit

LEMMA QuietKeeps ==
  ASSUME PathInv, ExampleInv, Quiet
  PROVE  PathInv' /\ ExampleInv'
<1>. USE DEF Goes, Check, air, client, adding, task, vars, driver, fixed, stack,
             Unattached, Unassociated, Initializing, Adding, Whole, Threads
<1>1. NetTypes /\ AddSteps /\ RadioSteps /\ PathSteps /\ CheckSteps
  BY DEF ExampleInv
<1>2. UNCHANGED vars
  BY DEF Quiet, RegisterHandler, WifiInit, CreateLock, CreateLockFails, Publish, AddFails, SetDefault, WaitForStart, CheckUp,
         CheckStarted, Connect, WaitForVerdict, Verdict, NothingToTakeBack, PathTakenBack, StartDhcp, Poll, Transmit
<1>3. PathInv'
  BY <1>2, StutterKeeps
<1>4. \A t \in Threads : Place(t)' = Place(t)
  BY <1>2, SameThreads
<1>5. CASE RegisterHandler
  <2>1. NetTypes' /\ AddSteps'
    BY <1>1, <1>2, <1>4, <1>5 DEF RegisterHandler, NetTypes, AddSteps
  <2>2. RadioSteps'
    BY <1>1, <1>2, <1>4, <1>5 DEF RegisterHandler, RadioSteps
  <2>3. PathSteps'
    BY <1>1, <1>2, <1>4, <1>5 DEF RegisterHandler, PathSteps
  <2>4. CheckSteps'
    BY <1>1, <1>2, <1>4, <1>5 DEF RegisterHandler, CheckSteps, RadioSteps
  <2>. QED BY <1>3, <2>1, <2>2, <2>3, <2>4 DEF ExampleInv
<1>6. CASE WifiInit
  <2>1. NetTypes' /\ AddSteps'
    BY <1>1, <1>2, <1>4, <1>6 DEF WifiInit, NetTypes, AddSteps
  <2>2. RadioSteps'
    BY <1>1, <1>2, <1>4, <1>6 DEF WifiInit, RadioSteps
  <2>3. PathSteps'
    BY <1>1, <1>2, <1>4, <1>6 DEF WifiInit, PathSteps
  <2>4. CheckSteps'
    BY <1>1, <1>2, <1>4, <1>6 DEF WifiInit, CheckSteps, RadioSteps
  <2>. QED BY <1>3, <2>1, <2>2, <2>3, <2>4 DEF ExampleInv
<1>7. CASE CreateLock
  <2>1. NetTypes' /\ AddSteps'
    BY <1>1, <1>2, <1>4, <1>7 DEF CreateLock, NetTypes, AddSteps
  <2>2. RadioSteps'
    BY <1>1, <1>2, <1>4, <1>7 DEF CreateLock, RadioSteps
  <2>3. PathSteps'
    BY <1>1, <1>2, <1>4, <1>7 DEF CreateLock, PathSteps
  <2>4. CheckSteps'
    BY <1>1, <1>2, <1>4, <1>7 DEF CreateLock, CheckSteps, RadioSteps
  <2>. QED BY <1>3, <2>1, <2>2, <2>3, <2>4 DEF ExampleInv
<1>8. CASE CreateLockFails
  <2>1. NetTypes' /\ AddSteps'
    BY <1>1, <1>2, <1>4, <1>8 DEF CreateLockFails, NetTypes, AddSteps
  <2>2. RadioSteps'
    BY <1>1, <1>2, <1>4, <1>8 DEF CreateLockFails, RadioSteps
  <2>3. PathSteps'
    BY <1>1, <1>2, <1>4, <1>8 DEF CreateLockFails, PathSteps
  <2>4. CheckSteps'
    BY <1>1, <1>2, <1>4, <1>8 DEF CreateLockFails, CheckSteps, RadioSteps
  <2>. QED BY <1>3, <2>1, <2>2, <2>3, <2>4 DEF ExampleInv
<1>9. CASE Publish
  <2>1. NetTypes' /\ AddSteps'
    BY <1>1, <1>2, <1>4, <1>9 DEF Publish, NetTypes, AddSteps
  <2>2. RadioSteps'
    BY <1>1, <1>2, <1>4, <1>9 DEF Publish, RadioSteps
  <2>3. PathSteps'
    BY <1>1, <1>2, <1>4, <1>9 DEF Publish, PathSteps
  <2>4. CheckSteps'
    BY <1>1, <1>2, <1>4, <1>9 DEF Publish, CheckSteps, RadioSteps
  <2>. QED BY <1>3, <2>1, <2>2, <2>3, <2>4 DEF ExampleInv
<1>10. CASE AddFails
  <2>1. NetTypes' /\ AddSteps'
    BY <1>1, <1>2, <1>4, <1>10 DEF AddFails, NetTypes, AddSteps
  <2>2. RadioSteps'
    BY <1>1, <1>2, <1>4, <1>10 DEF AddFails, RadioSteps
  <2>3. PathSteps'
    BY <1>1, <1>2, <1>4, <1>10 DEF AddFails, PathSteps
  <2>4. CheckSteps'
    BY <1>1, <1>2, <1>4, <1>10 DEF AddFails, CheckSteps, RadioSteps
  <2>. QED BY <1>3, <2>1, <2>2, <2>3, <2>4 DEF ExampleInv
<1>11. CASE SetDefault
  <2>1. NetTypes' /\ AddSteps'
    BY <1>1, <1>2, <1>4, <1>11 DEF SetDefault, NetTypes, AddSteps
  <2>2. RadioSteps'
    BY <1>1, <1>2, <1>4, <1>11 DEF SetDefault, RadioSteps
  <2>3. PathSteps'
    BY <1>1, <1>2, <1>4, <1>11 DEF SetDefault, PathSteps
  <2>4. CheckSteps'
    BY <1>1, <1>2, <1>4, <1>11 DEF SetDefault, CheckSteps, RadioSteps
  <2>. QED BY <1>3, <2>1, <2>2, <2>3, <2>4 DEF ExampleInv
<1>12. CASE WaitForStart
  <2>1. NetTypes' /\ AddSteps'
    BY <1>1, <1>2, <1>4, <1>12 DEF WaitForStart, NetTypes, AddSteps
  <2>2. RadioSteps'
    BY <1>1, <1>2, <1>4, <1>12 DEF WaitForStart, RadioSteps
  <2>3. PathSteps'
    BY <1>1, <1>2, <1>4, <1>12 DEF WaitForStart, PathSteps
  <2>4. CheckSteps'
    <3>1. events = <<>> /\ (IfBecomes <=> ifUp) /\ \A t \in Threads : Place(t) = "none"
      BY <1>12, SettledIs DEF WaitForStart, Settled
    <3>2. \A i \in DOMAIN events : FALSE
      BY <3>1
    <3>3. "stop" \notin calls
      BY ExampleAssumption DEF PathInv, LinkTypes
    <3>4. pc = "startWait" /\ "start" \notin failed /\ added /\ ~lost /\ attachFails = 0 => attached
      BY <1>1, <3>1, <3>2, <3>3 DEF RadioSteps, PathInv, KeptPath, WillAttach, Starting
    <3>5. attached /\ ~lost => ifUp
      BY <3>1, <3>3 DEF PathInv, KeptPath
    <3>6. pc = "startWait" /\ "start" \notin failed /\ hears /\ ~lost => "STA_START" \in seen
      BY <1>1, <3>2 DEF RadioSteps, CheckSteps
    <3>. QED BY <1>1, <1>2, <1>12, <3>4, <3>5, <3>6 DEF WaitForStart, CheckSteps
  <2>. QED BY <1>3, <2>1, <2>2, <2>3, <2>4 DEF ExampleInv
<1>13. CASE CheckUp
  <2>1. NetTypes' /\ AddSteps'
    BY <1>1, <1>2, <1>4, <1>13 DEF CheckUp, NetTypes, AddSteps
  <2>2. RadioSteps'
    BY <1>1, <1>2, <1>4, <1>13 DEF CheckUp, RadioSteps
  <2>3. PathSteps'
    BY <1>1, <1>2, <1>4, <1>13 DEF CheckUp, PathSteps
  <2>4. CheckSteps'
    BY <1>1, <1>2, <1>4, <1>13 DEF CheckUp, CheckSteps, RadioSteps
  <2>. QED BY <1>3, <2>1, <2>2, <2>3, <2>4 DEF ExampleInv
<1>14. CASE CheckStarted
  <2>1. NetTypes' /\ AddSteps'
    BY <1>1, <1>2, <1>4, <1>14 DEF CheckStarted, NetTypes, AddSteps
  <2>2. RadioSteps'
    BY <1>1, <1>2, <1>4, <1>14 DEF CheckStarted, RadioSteps
  <2>3. PathSteps'
    BY <1>1, <1>2, <1>4, <1>14 DEF CheckStarted, PathSteps
  <2>4. CheckSteps'
    BY <1>1, <1>2, <1>4, <1>14 DEF CheckStarted, CheckSteps, RadioSteps
  <2>. QED BY <1>3, <2>1, <2>2, <2>3, <2>4 DEF ExampleInv
<1>15. CASE Connect
  <2>1. NetTypes' /\ AddSteps'
    BY <1>1, <1>2, <1>4, <1>15 DEF Connect, NetTypes, AddSteps
  <2>2. RadioSteps'
    BY <1>1, <1>2, <1>4, <1>15 DEF Connect, RadioSteps
  <2>3. PathSteps'
    BY <1>1, <1>2, <1>4, <1>15 DEF Connect, PathSteps
  <2>4. CheckSteps'
    BY <1>1, <1>2, <1>4, <1>15 DEF Connect, CheckSteps, RadioSteps
  <2>. QED BY <1>3, <2>1, <2>2, <2>3, <2>4 DEF ExampleInv
<1>16. CASE WaitForVerdict
  <2>1. NetTypes' /\ AddSteps'
    BY <1>1, <1>2, <1>4, <1>16 DEF WaitForVerdict, NetTypes, AddSteps
  <2>2. RadioSteps'
    BY <1>1, <1>2, <1>4, <1>16 DEF WaitForVerdict, RadioSteps
  <2>3. PathSteps'
    BY <1>1, <1>2, <1>4, <1>16 DEF WaitForVerdict, PathSteps
  <2>4. CheckSteps'
    BY <1>1, <1>2, <1>4, <1>16 DEF WaitForVerdict, CheckSteps, RadioSteps
  <2>. QED BY <1>3, <2>1, <2>2, <2>3, <2>4 DEF ExampleInv
<1>17. CASE Verdict
  <2>1. NetTypes' /\ AddSteps'
    BY <1>1, <1>2, <1>4, <1>17 DEF Verdict, NetTypes, AddSteps
  <2>2. RadioSteps'
    BY <1>1, <1>2, <1>4, <1>17 DEF Verdict, RadioSteps
  <2>3. PathSteps'
    BY <1>1, <1>2, <1>4, <1>17 DEF Verdict, PathSteps
  <2>4. CheckSteps'
    BY <1>1, <1>2, <1>4, <1>17 DEF Verdict, CheckSteps, RadioSteps
  <2>. QED BY <1>3, <2>1, <2>2, <2>3, <2>4 DEF ExampleInv
<1>18. CASE NothingToTakeBack
  <2>1. NetTypes' /\ AddSteps'
    BY <1>1, <1>2, <1>4, <1>18 DEF NothingToTakeBack, NetTypes, AddSteps
  <2>2. RadioSteps'
    BY <1>1, <1>2, <1>4, <1>18 DEF NothingToTakeBack, RadioSteps
  <2>3. PathSteps'
    BY <1>1, <1>2, <1>4, <1>18 DEF NothingToTakeBack, PathSteps
  <2>4. CheckSteps'
    BY <1>1, <1>2, <1>4, <1>18 DEF NothingToTakeBack, CheckSteps, RadioSteps
  <2>. QED BY <1>3, <2>1, <2>2, <2>3, <2>4 DEF ExampleInv
<1>19. CASE PathTakenBack
  <2>1. NetTypes' /\ AddSteps'
    BY <1>1, <1>2, <1>4, <1>19 DEF PathTakenBack, NetTypes, AddSteps
  <2>2. RadioSteps'
    BY <1>1, <1>2, <1>4, <1>19 DEF PathTakenBack, RadioSteps
  <2>3. PathSteps'
    BY <1>1, <1>2, <1>4, <1>19 DEF PathTakenBack, PathSteps, Place, PlaceOf
  <2>4. CheckSteps'
    BY <1>1, <1>2, <1>4, <1>19 DEF PathTakenBack, CheckSteps, RadioSteps, Place, PlaceOf
  <2>. QED BY <1>3, <2>1, <2>2, <2>3, <2>4 DEF ExampleInv
<1>20. CASE StartDhcp
  <2>1. NetTypes' /\ AddSteps'
    BY <1>1, <1>2, <1>4, <1>20 DEF StartDhcp, NetTypes, AddSteps
  <2>2. RadioSteps'
    BY <1>1, <1>2, <1>4, <1>20 DEF StartDhcp, RadioSteps
  <2>3. PathSteps'
    BY <1>1, <1>2, <1>4, <1>20 DEF StartDhcp, PathSteps
  <2>4. CheckSteps'
    BY <1>1, <1>2, <1>4, <1>20 DEF StartDhcp, CheckSteps, RadioSteps
  <2>. QED BY <1>3, <2>1, <2>2, <2>3, <2>4 DEF ExampleInv
<1>21. CASE Poll
  <2>1. NetTypes' /\ AddSteps'
    BY <1>1, <1>2, <1>4, <1>21 DEF Poll, NetTypes, AddSteps
  <2>2. RadioSteps'
    BY <1>1, <1>2, <1>4, <1>21 DEF Poll, RadioSteps
  <2>3. PathSteps'
    BY <1>1, <1>2, <1>4, <1>21 DEF Poll, PathSteps
  <2>4. CheckSteps'
    BY <1>1, <1>2, <1>4, <1>21 DEF Poll, CheckSteps, RadioSteps
  <2>. QED BY <1>3, <2>1, <2>2, <2>3, <2>4 DEF ExampleInv
<1>22. CASE Transmit
  <2>1. NetTypes' /\ AddSteps'
    BY <1>1, <1>2, <1>4, <1>22 DEF Transmit, NetTypes, AddSteps
  <2>2. RadioSteps'
    BY <1>1, <1>2, <1>4, <1>22 DEF Transmit, RadioSteps
  <2>3. PathSteps'
    BY <1>1, <1>2, <1>4, <1>22 DEF Transmit, PathSteps
  <2>4. CheckSteps'
    BY <1>1, <1>2, <1>4, <1>22 DEF Transmit, CheckSteps, RadioSteps
  <2>. QED BY <1>3, <2>1, <2>2, <2>3, <2>4 DEF ExampleInv
<1>. QED BY <1>5, <1>6, <1>7, <1>8, <1>9, <1>10, <1>11, <1>12, <1>13, <1>14, <1>15, <1>16, <1>17,
            <1>18, <1>19, <1>20, <1>21, <1>22 DEF Quiet

(* Nothing of a stop is under way.                                          *)
LEMMA NoStop ==
  ASSUME PathInv
  PROVE  /\ "stop" \notin calls /\ Without(mbox, "down")
         /\ Place("event") \in EventPlaces \ Stopping /\ Place("app") \in AppPlaces
BY PlacesAre, ExampleAssumption DEF PathInv, LinkTypes, NeverDown

LEMMA AddTask ==
  ASSUME PathInv, ExampleInv, Add
  PROVE  PathInv' /\ ExampleInv'
<1>. USE DEF Goes, air, client, Unattached, Unassociated, Initializing, Adding, Whole, Threads
<1>1. NetTypes /\ AddSteps /\ RadioSteps /\ PathSteps /\ CheckSteps
  BY DEF ExampleInv
<1>2. PICK registered \in BOOLEAN : AddNetif(registered)
  BY DEF Add
<1>3. PathInv'
  BY <1>2, AddKeeps
<1>4. /\ UNCHANGED <<radio, rxcb, events, attached, ifUp, attachFails>>
      /\ added' = TRUE /\ (lost => lost') /\ lost' = (lost \/ ~registered) /\ listening' = registered
      /\ \A t \in Threads : Place(t)' = Place(t)
  BY <1>2, SameThreads DEF AddNetif, driver, stack
<1>5. NetTypes' /\ AddSteps'
  BY <1>1, <1>4 DEF Add, NetTypes, AddSteps
<1>6. RadioSteps' /\ PathSteps' /\ CheckSteps'
  BY <1>1, <1>4 DEF Add, RadioSteps, PathSteps, CheckSteps
<1>. QED BY <1>3, <1>5, <1>6 DEF ExampleInv

LEMMA TakeBackTask ==
  ASSUME PathInv, ExampleInv, TakePathBack
  PROVE  PathInv' /\ ExampleInv'
<1>. USE DEF Goes, air, client, adding, Unattached, Unassociated, Initializing, Adding, Whole, Threads
<1>1. NetTypes /\ AddSteps /\ RadioSteps /\ PathSteps /\ CheckSteps
  BY DEF ExampleInv
<1>2. PathInv'
  BY ReattachKeeps DEF TakePathBack
<1>3. UNCHANGED <<radio, rxcb, events, added, listening, attached, ifUp, attachFails, lost>> /\ added
  BY DEF TakePathBack, CallReattach, driver, stack
<1>4. Place("event")' = Place("event") /\ Place("app")' = "forget"
  <2>1. todo'["event"] = todo["event"] /\ todo'["app"] = Reattach
    BY DEF TakePathBack, CallReattach, PathInv, LinkTypes
  <2>2. PlaceOf(Reattach) = "forget"
    BY DEF PlaceOf, Reattach, Start
  <2>. QED BY <2>1, <2>2 DEF Place
<1>5. NetTypes' /\ AddSteps'
  BY <1>1, <1>3, <1>4 DEF TakePathBack, NetTypes, AddSteps
<1>6. RadioSteps' /\ PathSteps' /\ CheckSteps'
  BY <1>1, <1>3, <1>4 DEF TakePathBack, RadioSteps, PathSteps, CheckSteps
<1>. QED BY <1>2, <1>5, <1>6 DEF ExampleInv

(* What posting an event leaves.                                            *)
LEMMA PostLeaves ==
  ASSUME PathInv, NEW id \in Ids, Post(id)
  PROVE  /\ UNCHANGED <<rxcb, added, listening, attached, ifUp, attachFails>>
         /\ \A t \in Threads : Place(t)' = Place(t)
         /\ \/ events' = Append(events, id) /\ lost' = lost
            \/ events' = events /\ lost' = TRUE
         /\ events \in Seq(Ids)
BY SameThreads DEF Post, fixed, stack, PathInv, LinkTypes

LEMMA AssociatesKeeps ==
  ASSUME PathInv, ExampleInv, Associates
  PROVE  PathInv' /\ ExampleInv'
<1>. USE DEF Goes, air, client, adding, task, Unattached, Unassociated, Initializing, Adding,
             Whole, Threads
<1>1. NetTypes /\ AddSteps /\ RadioSteps /\ PathSteps /\ CheckSteps
  BY DEF ExampleInv
<1>2. "STA_CONNECTED" \in Ids /\ Post("STA_CONNECTED") /\ Tells("STA_CONNECTED")
  BY <1>1 DEF Associates, RadioConnects, Tells, Ids, PathInv, LinkTypes, Bookkeeping, RadioSteps
<1>3. PathInv'
  BY <1>2, PostKeeps
<1>4. /\ UNCHANGED <<rxcb, added, listening, attached, ifUp, attachFails>>
      /\ \A t \in Threads : Place(t)' = Place(t)
      /\ \/ events' = Append(events, "STA_CONNECTED") /\ lost' = lost
         \/ events' = events /\ lost' = TRUE
      /\ events \in Seq(Ids)
  BY <1>2, PostLeaves
<1>5. NetTypes' /\ AddSteps'
  BY <1>1, <1>4 DEF Associates, NetTypes, AddSteps
<1>6. RadioSteps'
  BY <1>1, <1>2, <1>4, EventsAppend DEF Associates, RadioConnects, RadioSteps
<1>7. PathSteps'
  BY <1>1, <1>4 DEF Associates, PathSteps
<1>8. CheckSteps'
  BY <1>1, <1>2, <1>4, EventsAppend DEF Associates, RadioConnects, CheckSteps, RadioSteps
<1>. QED BY <1>3, <1>5, <1>6, <1>7, <1>8 DEF ExampleInv

LEMMA NoAccessPointKeeps ==
  ASSUME PathInv, ExampleInv, NoAccessPoint
  PROVE  PathInv' /\ ExampleInv'
<1>. USE DEF Goes, air, client, adding, task, Unattached, Unassociated, Initializing, Adding,
             Whole, Threads
<1>1. NetTypes /\ AddSteps /\ RadioSteps /\ PathSteps /\ CheckSteps
  BY DEF ExampleInv
<1>2. "STA_DISCONNECTED" \in Ids /\ Post("STA_DISCONNECTED") /\ Tells("STA_DISCONNECTED")
  BY <1>1 DEF NoAccessPoint, Tells, Ids, PathInv, LinkTypes, Bookkeeping, RadioSteps
<1>3. PathInv'
  BY <1>2, PostKeeps
<1>4. /\ UNCHANGED <<rxcb, added, listening, attached, ifUp, attachFails>>
      /\ \A t \in Threads : Place(t)' = Place(t)
      /\ \/ events' = Append(events, "STA_DISCONNECTED") /\ lost' = lost
         \/ events' = events /\ lost' = TRUE
      /\ events \in Seq(Ids)
  BY <1>2, PostLeaves
<1>5. NetTypes' /\ AddSteps'
  BY <1>1, <1>4 DEF NoAccessPoint, NetTypes, AddSteps
<1>6. RadioSteps'
  BY <1>1, <1>2, <1>4, EventsAppend DEF NoAccessPoint, RadioSteps
<1>7. PathSteps'
  BY <1>1, <1>4 DEF NoAccessPoint, PathSteps
<1>8. CheckSteps'
  BY <1>1, <1>2, <1>4, EventsAppend DEF NoAccessPoint, CheckSteps, RadioSteps
<1>. QED BY <1>3, <1>5, <1>6, <1>7, <1>8 DEF ExampleInv

LEMMA LosesKeeps ==
  ASSUME PathInv, ExampleInv, LosesAccessPoint
  PROVE  PathInv' /\ ExampleInv'
<1>. USE DEF Goes, air, client, adding, task, Unattached, Unassociated, Initializing, Adding,
             Whole, Threads
<1>1. NetTypes /\ AddSteps /\ RadioSteps /\ PathSteps /\ CheckSteps
  BY DEF ExampleInv
<1>2. "STA_DISCONNECTED" \in Ids /\ Post("STA_DISCONNECTED") /\ Tells("STA_DISCONNECTED")
  BY <1>1 DEF LosesAccessPoint, RadioDisconnects, Tells, Ids, PathInv, LinkTypes, Bookkeeping, RadioSteps
<1>3. PathInv'
  BY <1>2, PostKeeps
<1>4. /\ UNCHANGED <<rxcb, added, listening, attached, ifUp, attachFails>>
      /\ \A t \in Threads : Place(t)' = Place(t)
      /\ \/ events' = Append(events, "STA_DISCONNECTED") /\ lost' = lost
         \/ events' = events /\ lost' = TRUE
      /\ events \in Seq(Ids)
  BY <1>2, PostLeaves
<1>5. NetTypes' /\ AddSteps'
  BY <1>1, <1>4 DEF LosesAccessPoint, NetTypes, AddSteps
<1>6. RadioSteps'
  BY <1>1, <1>2, <1>4, EventsAppend DEF LosesAccessPoint, RadioDisconnects, RadioSteps
<1>7. PathSteps'
  BY <1>1, <1>4 DEF LosesAccessPoint, PathSteps
<1>8. CheckSteps'
  BY <1>1, <1>2, <1>4, EventsAppend DEF LosesAccessPoint, RadioDisconnects, CheckSteps, RadioSteps
<1>. QED BY <1>3, <1>5, <1>6, <1>7, <1>8 DEF ExampleInv

LEMMA StartTask ==
  ASSUME PathInv, ExampleInv, StartWifi
  PROVE  PathInv' /\ ExampleInv'
<1>. USE DEF Goes, air, client, adding, task, Unattached, Unassociated, Initializing, Adding,
             Whole, Threads
<1>1. NetTypes /\ AddSteps /\ RadioSteps /\ PathSteps /\ CheckSteps
  BY DEF ExampleInv
<1>2. CASE RadioStart /\ UNCHANGED failed
  <2>1. "STA_START" \in Ids /\ Post("STA_START") /\ Tells("STA_START")
    BY <1>2 DEF RadioStart, Tells, Ids, PathInv, LinkTypes
  <2>2. PathInv'
    BY <2>1, PostKeeps
  <2>3. /\ UNCHANGED <<rxcb, added, listening, attached, ifUp, attachFails>>
        /\ \A t \in Threads : Place(t)' = Place(t)
        /\ \/ events' = Append(events, "STA_START") /\ lost' = lost
           \/ events' = events /\ lost' = TRUE
        /\ events \in Seq(Ids)
    BY <2>1, PostLeaves
  <2>4. NetTypes' /\ AddSteps'
    BY <1>1, <1>2, <2>3 DEF StartWifi, NetTypes, AddSteps
  <2>5. RadioSteps'
    <3>1. radio = "off" /\ radio' = "started" /\ events = <<>> /\ seen = {} /\ ~attempt
      BY <1>1, <1>2 DEF RadioStart, StartWifi, RadioSteps
    <3>2. \A i \in DOMAIN events' : i = 1
      BY <2>3, <3>1, EventsAppend
    <3>. QED BY <1>1, <1>2, <2>3, <3>1, <3>2 DEF StartWifi, RadioSteps
  <2>6. PathSteps'
    BY <1>1, <2>3 DEF StartWifi, PathSteps
  <2>7. CheckSteps'
    <3>1. ~lost' => Append(events, "STA_START")[Len(events) + 1] = "STA_START" /\ Len(events) + 1 \in DOMAIN events'
      BY <2>3, EventsAppend
    <3>. QED BY <1>1, <2>3, <3>1 DEF StartWifi, CheckSteps
  <2>. QED BY <2>2, <2>4, <2>5, <2>6, <2>7 DEF ExampleInv
<1>3. CASE Check("start", FALSE) /\ UNCHANGED vars
  <2>1. PathInv'
    BY <1>3, StutterKeeps
  <2>2. \A t \in Threads : Place(t)' = Place(t)
    BY <1>3, SameThreads DEF vars
  <2>3. "start" \in failed'
    BY <1>3 DEF Check
  <2>4. NetTypes' /\ AddSteps'
    BY <1>1, <1>3, <2>2 DEF StartWifi, NetTypes, AddSteps, vars, fixed
  <2>5. RadioSteps' /\ PathSteps'
    BY <1>1, <1>3, <2>2, <2>3 DEF StartWifi, RadioSteps, PathSteps, vars, driver
  <2>6. CheckSteps'
    BY <1>1, <1>3, <2>3 DEF StartWifi, CheckSteps, RadioSteps, vars, driver, fixed, stack
  <2>. QED BY <2>1, <2>4, <2>5, <2>6 DEF ExampleInv
<1>. QED BY <1>2, <1>3 DEF StartWifi

LEMMA ClaimsTask ==
  ASSUME PathInv, ExampleInv, Running, Claims
  PROVE  PathInv' /\ ExampleInv'
<1>. USE DEF Goes, air, client, adding, task, Unattached, Unassociated, Initializing, Adding,
             Whole, Threads
<1>1. NetTypes /\ AddSteps /\ RadioSteps /\ PathSteps /\ CheckSteps
  BY DEF ExampleInv
<1>2. PathInv'
  BY ClaimsKeeps DEF Claims
<1>3. /\ UNCHANGED <<radio, events, added, listening, attached, ifUp, attachFails, lost>>
      /\ rxcb' = "driver" /\ \A t \in Threads : Place(t)' = Place(t)
  BY SameThreads DEF Claims, DriverClaims, fixed, stack
<1>4. NetTypes' /\ AddSteps'
  BY <1>1, <1>3 DEF Claims, NetTypes, AddSteps
<1>5. RadioSteps' /\ CheckSteps'
  BY <1>1, <1>3 DEF Claims, RadioSteps, CheckSteps
<1>6. PathSteps'
  BY <1>1, <1>3 DEF Claims, PathSteps, NetTypes, Running
<1>. QED BY <1>2, <1>4, <1>5, <1>6 DEF ExampleInv

LEMMA DeliverTask ==
  ASSUME PathInv, ExampleInv, Deliver
  PROVE  PathInv' /\ ExampleInv'
<1>. USE DEF Goes, air, client, adding, task, Unattached, Unassociated, Initializing, Adding,
             Whole, Threads
<1>1. NetTypes /\ AddSteps /\ RadioSteps /\ PathSteps /\ CheckSteps
  BY DEF ExampleInv
<1>2. PathInv'
  BY DispatchKeeps DEF Deliver
<1>3. UNCHANGED <<radio, rxcb, added, listening, attached, ifUp, attachFails>> /\ Place("event") = "none"
  BY DEF Deliver, Dispatch, Place, PlaceOf, driver, fixed, stack
<1>4. /\ events' = Tail(events) /\ events # <<>> /\ events \in Seq(Ids)
      /\ Head(events) = events[1] /\ events[1] \in Ids \ {"STA_STOP"}
      /\ DOMAIN events = 1 .. Len(events) /\ Len(events) \in Nat \ {0}
      /\ DOMAIN events' = 1 .. Len(events) - 1
      /\ \A i \in 1 .. Len(events) - 1 : events'[i] = events[i + 1]
  BY NoStop, QueueTail DEF Deliver, Dispatch, PathInv, LinkTypes, NeverDown
<1>5. /\ Place("app")' = Place("app") /\ (lost => lost')
      /\ \/ Place("event")' = "none"
         \/ /\ listening
            /\ Place("event")' = CASE events[1] = "STA_START" -> "check"
                                   [] events[1] = "STA_CONNECTED" -> "linkUp"
                                   [] OTHER -> "linkDown"
  <2>1. CASE listening
    <3>1. todo' = [todo EXCEPT !["event"] = OnWifiEvent(events[1])] /\ UNCHANGED lost
      BY <1>4, <2>1 DEF Deliver, Dispatch
    <3>2. todo'["event"] = OnWifiEvent(events[1]) /\ todo'["app"] = todo["app"]
      BY <3>1 DEF PathInv, LinkTypes
    <3>3. PlaceOf(OnWifiEvent(events[1])) =
            CASE events[1] = "STA_START" -> "check"
              [] events[1] = "STA_CONNECTED" -> "linkUp"
              [] OTHER -> "linkDown"
      BY <1>4 DEF OnWifiEvent, PlaceOf, Start, Ids
    <3>. QED BY <2>1, <3>1, <3>2, <3>3 DEF Place
  <2>2. CASE ~listening
    BY <2>2, <1>3, SameThreads DEF Deliver, Dispatch
  <2>. QED BY <2>1, <2>2
<1>6. seen' = IF hears THEN seen \union {events[1]} ELSE seen
  BY <1>4 DEF Deliver
<1>7. NetTypes'
  BY <1>1, <1>4, <1>6 DEF Deliver, NetTypes, Ids
<1>8. AddSteps'
  BY <1>1, <1>3, <1>5 DEF Deliver, AddSteps
<1>9. RadioSteps'
  BY <1>1, <1>3, <1>4, <1>5, <1>6 DEF Deliver, RadioSteps, Starting, Ids
<1>10. PathSteps'
  BY <1>1, <1>3, <1>5 DEF Deliver, PathSteps
<1>11. CheckSteps'
  <2>1. \A i \in DOMAIN events : i = 1 \/ (i - 1 \in DOMAIN events' /\ events'[i - 1] = events[i])
    BY <1>4
  <2>2. ASSUME NEW i \in DOMAIN events, hears
        PROVE  events[i] \in seen' \/ \E j \in DOMAIN events' : events'[j] = events[i]
    BY <2>1, <2>2, <1>6
  <2>3. (hears <=> hears') /\ seen \subseteq seen' /\ (~lost' => ~lost)
    BY <1>5, <1>6 DEF Deliver
  <2>4. radio' # "off" /\ hears' /\ ~lost' =>
          "STA_START" \in seen' \/ \E i \in DOMAIN events' : events'[i] = "STA_START"
    BY <1>1, <1>3, <2>2, <2>3 DEF CheckSteps
  <2>5. ASSUME pc' \in {"connectWait", "verdict"}, "connect" \notin failed', hears', ~lost'
        PROVE  \/ attempt'
               \/ \E i \in DOMAIN events' : events'[i] \in {"STA_CONNECTED", "STA_DISCONNECTED"}
               \/ seen' \intersect {"STA_CONNECTED", "STA_DISCONNECTED"} # {}
    <3>1. \/ attempt
          \/ \E i \in DOMAIN events : events[i] \in {"STA_CONNECTED", "STA_DISCONNECTED"}
          \/ seen \intersect {"STA_CONNECTED", "STA_DISCONNECTED"} # {}
      BY <1>1, <2>3, <2>5 DEF Deliver, CheckSteps
    <3>2. ASSUME NEW i \in DOMAIN events, events[i] \in {"STA_CONNECTED", "STA_DISCONNECTED"}
          PROVE  \/ \E j \in DOMAIN events' : events'[j] \in {"STA_CONNECTED", "STA_DISCONNECTED"}
                 \/ seen' \intersect {"STA_CONNECTED", "STA_DISCONNECTED"} # {}
      BY <2>2, <2>3, <2>5, <3>2
    <3>. QED BY <2>3, <3>1, <3>2 DEF Deliver
  <2>. QED BY <1>1, <1>3, <2>3, <2>4, <2>5 DEF Deliver, CheckSteps
<1>. QED BY <1>2, <1>7, <1>8, <1>9, <1>10, <1>11 DEF ExampleInv

LEMMA StackTask ==
  ASSUME PathInv, ExampleInv, StackRuns
  PROVE  PathInv' /\ ExampleInv'
<1>. USE DEF Goes, air, client, adding, task, Unattached, Unassociated, Initializing, Adding,
             Whole, Threads
<1>1. NetTypes /\ AddSteps /\ RadioSteps /\ PathSteps /\ CheckSteps
  BY DEF ExampleInv
<1>2. PathInv'
  BY TcpipKeeps DEF StackRuns
<1>3. /\ UNCHANGED <<radio, rxcb, events, added, listening, attached, attachFails, lost>>
      /\ \A t \in Threads : Place(t)' = Place(t)
  BY SameThreads DEF StackRuns, TcpipRuns, driver, fixed
<1>4. ifUp' \in BOOLEAN /\ (ifUp => ifUp')
  <2>1. Head(mbox) # "down"
    BY NoStop, QueueTail DEF StackRuns, TcpipRuns, Without, PathInv, LinkTypes
  <2>. QED BY <2>1 DEF StackRuns, TcpipRuns, PathInv, LinkTypes
<1>5. NetTypes' /\ AddSteps'
  BY <1>1, <1>3 DEF StackRuns, NetTypes, AddSteps
<1>6. RadioSteps' /\ PathSteps' /\ CheckSteps'
  BY <1>1, <1>3, <1>4 DEF StackRuns, RadioSteps, PathSteps, CheckSteps
<1>. QED BY <1>2, <1>5, <1>6 DEF ExampleInv

LEMMA BindsTask ==
  ASSUME PathInv, ExampleInv, Binds
  PROVE  PathInv' /\ ExampleInv'
<1>. USE DEF Goes, air, client, adding, task, Unattached, Unassociated, Initializing, Adding,
             Whole, Threads
<1>1. NetTypes /\ AddSteps /\ RadioSteps /\ PathSteps /\ CheckSteps
  BY DEF ExampleInv
<1>2. UNCHANGED vars
  BY DEF Binds
<1>3. PathInv' /\ \A t \in Threads : Place(t)' = Place(t)
  BY <1>2, StutterKeeps, SameThreads DEF vars
<1>4. NetTypes' /\ AddSteps'
  BY <1>1, <1>2, <1>3 DEF Binds, NetTypes, AddSteps, vars, fixed
<1>5. RadioSteps' /\ PathSteps' /\ CheckSteps'
  BY <1>1, <1>2, <1>3 DEF Binds, CanBind, RadioSteps, PathSteps, CheckSteps, vars, driver, fixed, stack
<1>. QED BY <1>3, <1>4, <1>5 DEF ExampleInv

(* A step of a call, by what it does to the path.                           *)
Moves(t, from, to) == Place(t) = from /\ Place(t)' = to

ThreadMove(t) ==
  \/ Moves(t, "forget", "check") /\ attached' = FALSE /\ UNCHANGED <<rxcb, attachFails>>
  \/ Moves(t, "check", "attach") /\ ~attached /\ UNCHANGED <<attached, rxcb, attachFails>>
  \/ Moves(t, "check", "none") /\ attached /\ UNCHANGED <<attached, rxcb, attachFails>>
  \/ Moves(t, "attach", "attached") /\ rxcb' = "netif" /\ UNCHANGED <<attached, attachFails>>
  \/ Moves(t, "attach", "none") /\ attachFails' = attachFails + 1 /\ UNCHANGED <<attached, rxcb>>
  \/ Moves(t, "attached", "up") /\ attached' = TRUE /\ UNCHANGED <<rxcb, attachFails>>
  \/ /\ Place(t) \in {"up", "linkUp", "linkDown"} /\ Place(t)' = "none"
     /\ UNCHANGED <<attached, rxcb, attachFails>>

LEMMA ThreadMoves ==
  ASSUME PathInv, NEW t \in Threads, ThreadStep(t)
  PROVE  /\ UNCHANGED <<radio, events, added, listening, ifUp>> /\ (lost => lost')
         /\ ThreadMove(t)
         /\ \A u \in Threads \ {t} : Place(u)' = Place(u)
<1>. USE DEF ThreadMove, Moves, driver, fixed, stack
<1>1. LinkTypes /\ Place(t) \notin Stopping
  BY NoStop DEF PathInv, Threads, Stopping, AppPlaces, Starting
<1>2. CASE Forget(t)
  BY <1>1, <1>2, StepOn DEF Forget, Following, StepAt, Stopping
<1>3. CASE CheckAttached(t)
  BY <1>1, <1>3, StepOn, ReturnIs DEF CheckAttached, Following, StepAt, Stopping
<1>4. CASE Attach(t)
  BY <1>1, <1>4, StepOn DEF Attach, Following, StepAt, Stopping
<1>5. CASE AttachFails(t)
  BY <1>1, <1>5, ReturnIs DEF AttachFails, StepAt, Stopping
<1>6. CASE Detach(t)
  BY <1>1, <1>6, StepOn DEF Detach, StepAt, Stopping
<1>7. CASE SetAttached(t)
  BY <1>1, <1>7, StepOn DEF SetAttached, Following, StepAt, Stopping
<1>8. CASE CoreCall(t)
  <2>1. PICK fn \in {"up", "down", "linkUp", "linkDown"} : At(t, fn) /\ Done(t)
    BY <1>8 DEF CoreCall
  <2>2. fn = StepAt(Place(t)) /\ Place(t)' = Following(Place(t))
        /\ \A u \in Threads \ {t} : Place(u)' = Place(u)
    BY <1>1, <2>1, StepOn
  <2>3. Place(t) \in {"up", "linkUp", "linkDown"} /\ Place(t)' = "none"
    BY <1>1, <2>2 DEF StepAt, Following, Stopping
  <2>. QED BY <1>8, <2>2, <2>3 DEF CoreCall
<1>. QED BY <1>2, <1>3, <1>4, <1>5, <1>6, <1>7, <1>8 DEF ThreadStep

LEMMA CallTask ==
  ASSUME PathInv, ExampleInv, NEW t \in Threads, InCall(t)
  PROVE  PathInv' /\ ExampleInv'
<1>. USE DEF air, client, adding, task, Unattached, Unassociated, Initializing, Adding, Whole
<1>1. NetTypes /\ AddSteps /\ RadioSteps /\ PathSteps /\ CheckSteps
  BY DEF ExampleInv
<1>2. PathInv'
  BY ThreadKeeps DEF InCall
<1>3. /\ UNCHANGED <<radio, events, added, listening, ifUp>> /\ (lost => lost')
      /\ ThreadMove(t)
      /\ \A u \in Threads \ {t} : Place(u)' = Place(u)
  BY ThreadMoves DEF InCall
<1>4. attachFails \in Nat
  BY DEF PathInv, LinkTypes
<1>5. NetTypes'
  BY <1>1, <1>3 DEF InCall, NetTypes
<1>6. AddSteps'
  BY <1>1, <1>3 DEF InCall, AddSteps, ThreadMove, Moves, Threads
<1>7. Place("event") \in EventPlaces
  BY PlacesAre DEF PathInv
<1>8. RadioSteps'
  <2>1. CASE t = "event"
    BY <1>1, <1>3, <1>7, <2>1
      DEF InCall, RadioSteps, ThreadMove, Moves, Threads, Starting, EventPlaces, Stopping
  <2>2. CASE t = "app"
    BY <1>1, <1>3, <2>2 DEF InCall, RadioSteps, Threads
  <2>. QED BY <2>1, <2>2 DEF Threads
<1>9. PathSteps'
  <2>1. CASE t = "event"
    <3>1. Place("app")' = Place("app") /\ (refused' <=> refused)
      BY <1>3, <2>1 DEF InCall, Threads
    <3>2. pc = "reattaching" => UNCHANGED <<rxcb, attached>>
      BY <1>1, <1>3, <1>7, <2>1 DEF RadioSteps, ThreadMove, Moves, Starting, EventPlaces, Stopping
    <3>3. rxcb = "netif" => rxcb' = "netif"
      BY <1>3 DEF ThreadMove
    <3>. QED BY <1>1, <3>1, <3>2, <3>3 DEF InCall, PathSteps
  <2>2. CASE t = "app"
    <3>1. pc = "reattaching"
      BY <1>1, <1>3, <2>2 DEF PathSteps, ThreadMove, Moves
    <3>2. refused' <=> refused \/ attachFails' > attachFails
      BY <1>1, <2>2 DEF InCall, NetTypes
    <3>3. ~refused' => ~refused /\ attachFails' = attachFails
      BY <1>3, <1>4, <3>2 DEF ThreadMove
    <3>. QED BY <1>1, <1>3, <1>4, <2>2, <3>1, <3>3 DEF InCall, PathSteps, ThreadMove, Moves
  <2>. QED BY <2>1, <2>2 DEF Threads
<1>10. CheckSteps'
  <2>1. attachFails' \in Nat /\ attachFails' >= attachFails
    BY <1>3, <1>4 DEF ThreadMove
  <2>2. refused' => refused \/ attachFails' > attachFails
    BY <1>1 DEF InCall, NetTypes
  <2>3. refused' => attachFails' > 0 \/ ~added'
    BY <1>1, <1>3, <1>4, <2>1, <2>2 DEF CheckSteps
  <2>4. attachFails' = 0 => attachFails = 0
    BY <1>4, <2>1
  <2>. QED BY <1>1, <1>3, <2>3, <2>4 DEF InCall, CheckSteps
<1>. QED BY <1>2, <1>5, <1>6, <1>8, <1>9, <1>10 DEF ExampleInv

LEMMA SystemKeeps ==
  ASSUME PathInv, ExampleInv, System
  PROVE  PathInv' /\ ExampleInv'
BY AssociatesKeeps, NoAccessPointKeeps, LosesKeeps, ClaimsTask, DeliverTask, StackTask, BindsTask,
   CallTask
   DEF System

LEMMA InitExample == NetInit => PathInv /\ ExampleInv
<1>. SUFFICES ASSUME NetInit PROVE PathInv /\ ExampleInv
  OBVIOUS
<1>. USE DEF NetInit, Init, Unattached, Unassociated, Initializing, Adding, Whole
<1>1. PathInv
  BY InitPath
<1>2. \A t \in Threads : Place(t) = "none"
  BY DEF Place, PlaceOf
<1>3. NetTypes /\ AddSteps
  BY <1>2 DEF NetTypes, AddSteps
<1>4. RadioSteps
  BY <1>2 DEF RadioSteps, Threads
<1>5. PathSteps /\ CheckSteps
  BY <1>2 DEF PathSteps, CheckSteps, Threads
<1>. QED BY <1>1, <1>3, <1>4, <1>5 DEF ExampleInv

LEMMA NetNextKeeps == PathInv /\ ExampleInv /\ [NetNext]_netVars => PathInv' /\ ExampleInv'
<1>. SUFFICES ASSUME PathInv, ExampleInv, [NetNext]_netVars PROVE PathInv' /\ ExampleInv'
  OBVIOUS
<1>1. CASE InitTask
  BY <1>1, QuietKeeps, AddTask, StartTask, TakeBackTask DEF InitTask, Quiet
<1>2. CASE System
  BY <1>2, SystemKeeps
<1>3. CASE UNCHANGED netVars
  <2>1. PathInv' /\ \A t \in Threads : Place(t)' = Place(t)
    BY <1>3, StutterKeeps, SameThreads DEF netVars, vars
  <2>. USE DEF ExampleInv, netVars, vars, driver, fixed, stack, task, adding, air, client
  <2>2. NetTypes' /\ AddSteps'
    BY <1>3, <2>1 DEF NetTypes, AddSteps
  <2>3. RadioSteps' /\ PathSteps' /\ CheckSteps'
    BY <1>3, <2>1 DEF RadioSteps, PathSteps, CheckSteps, Threads
  <2>. QED BY <2>1, <2>2, <2>3
<1>. QED BY <1>1, <1>2, <1>3 DEF NetNext

LEMMA ExampleHolds == NetSpec => [](PathInv /\ ExampleInv)
BY InitExample, NetNextKeeps, PTL DEF NetSpec

(* Types; the interface is added whole or not at all; and from the time the   *)
(* client asks for an address the receive path is the netif's, unless the    *)
(* driver installed its callback later still: for any order of the events,   *)
(* the event task, the tcpip thread and the task of the example.            *)
THEOREM NetInvHolds == NetSpec => []NetInv
<1>1. ASSUME PathInv, ExampleInv
      PROVE  NetInv
  <2>1. NetTypes /\ AddSteps /\ PathSteps
    BY <1>1 DEF ExampleInv
  <2>2. TypeOK
    BY <1>1, PathIsLink DEF LinkInv
  <2>3. NetTypeOK
    BY <2>1, <2>2 DEF NetTypeOK, NetTypes, Whole
  <2>4. AddIsWhole
    BY <2>1 DEF AddSteps, AddIsWhole, Whole, Adding
  <2>5. ClientHasItsPath
    BY <2>1 DEF PathSteps, ClientHasItsPath
  <2>. QED BY <2>3, <2>4, <2>5 DEF NetInv
<1>2. PathInv /\ ExampleInv => NetInv
  BY <1>1
<1>. QED BY <1>2, ExampleHolds, PTL

(* A check of the example that fails has a cause outside the port: it never   *)
(* looks before the event task and the tcpip thread have done their part.    *)
THEOREM AlarmsAreRealHolds == NetSpec => AlarmsAreReal
<1>1. ASSUME PathInv, ExampleInv, [NetNext]_netVars
      PROVE  [\A what \in failed' \ failed : Explained(what)]_failed
  <2>. SUFFICES ASSUME NEW what \in failed' \ failed PROVE Explained(what)
    OBVIOUS
  <2>. USE DEF Explained, NotStarted, Check, Goes
  <2>1. NetTypes /\ AddSteps /\ RadioSteps /\ PathSteps /\ CheckSteps
    BY <1>1 DEF ExampleInv
  <2>2. CASE CheckUp
    <3>1. what = "up" /\ pc = "up" /\ ~ifUp
      BY <2>2 DEF CheckUp
    <3>2. attachFails = 0 \/ attachFails > 0
      BY <1>1 DEF PathInv, LinkTypes
    <3>. QED BY <2>1, <3>1, <3>2 DEF CheckSteps
  <2>3. CASE CheckStarted
    BY <2>1, <2>3 DEF CheckStarted, CheckSteps
  <2>4. CASE Verdict
    BY <2>1, <2>4 DEF Verdict, CheckSteps
  <2>5. CASE NothingToTakeBack \/ PathTakenBack
    BY <2>1, <2>5 DEF NothingToTakeBack, PathTakenBack, CheckSteps
  <2>6. CASE Poll
    <3>1. what = "dhcp" /\ dhcp # "bound" /\ Settled /\ ~CanBind
      BY <2>6 DEF Poll
    <3>2. ASSUME ~lost, ~late, ~refused, server, dhcp # "off", radio = "connected"
          PROVE  FALSE
      <4>1. dhcp = "asking" /\ rxcb = "netif" /\ ifUp
        BY <2>1, <3>1, <3>2 DEF NetTypes, PathSteps, CheckSteps
      <4>2. linkUp
        BY <1>1, <3>1, <3>2, SettledIs DEF Settled, PathInv, LinkChain, LinkSoFar, Threads
      <4>. QED BY <3>1, <3>2, <4>1, <4>2 DEF CanBind
    <3>. QED BY <3>1, <3>2
  <2>7. CASE RegisterHandler \/ WifiInit \/ CreateLockFails \/ AddFails
             \/ StartWifi \/ Connect \/ StartDhcp
    BY <2>7 DEF RegisterHandler, WifiInit, CreateLockFails, AddFails, StartWifi, Connect, StartDhcp
  <2>8. CASE CreateLock \/ Publish \/ Add \/ SetDefault \/ WaitForStart
             \/ WaitForVerdict \/ TakePathBack \/ Transmit
    BY <2>8
      DEF CreateLock, Publish, Add, SetDefault, WaitForStart, WaitForVerdict, TakePathBack,
          Transmit
  <2>9. CASE System
    <3>1. UNCHANGED failed
      BY <2>9 DEF System, Associates, NoAccessPoint, LosesAccessPoint, Claims, Deliver, StackRuns,
                  Binds, InCall, task
    <3>. QED BY <3>1
  <2>10. CASE UNCHANGED netVars
    BY <2>10 DEF netVars, task
  <2>. QED BY <1>1, <2>2, <2>3, <2>4, <2>5, <2>6, <2>7, <2>8, <2>9, <2>10 DEF NetNext, InitTask
<1>. QED BY <1>1, ExampleHolds, PTL DEF NetSpec, AlarmsAreReal
==============================================================================
