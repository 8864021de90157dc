------------------------------ MODULE NetifLink ------------------------------
(***************************************************************************)
(* The station interface following the radio: the WiFi driver posts events, *)
(* the event task runs rtems_esp_netif_on_wifi_event(), the application may *)
(* call rtems_esp_netif_reattach(), and the changes to the lwIP interface    *)
(* travel through the tcpip mailbox.                                        *)
(*                                                                          *)
(* What a thread still has to do inside its call is a sequence of steps,    *)
(* each one access to shared state; an early return empties it.             *)
(***************************************************************************)
EXTENDS Sequences, Integers

CONSTANTS
  QUEUE_DEPTH,     \* RTEMS_ESP_EVENT_QUEUE_DEPTH
  MBOX,            \* TCPIP_MBOX_SIZE
  MaxPosts,        \* bound: events the driver posts
  MaxAttachFails,  \* bound: registrations the driver refuses
  MaxReattach,     \* bound: calls of rtems_esp_netif_reattach()
  Habits           \* what an application may call: sets of stop, reattach

ASSUME LinkAssumption ==
  /\ QUEUE_DEPTH \in Nat \ {0}
  /\ MBOX \in Nat \ {0}
  /\ MaxPosts \in Nat /\ MaxAttachFails \in Nat /\ MaxReattach \in Nat
  /\ Habits \subseteq SUBSET {"stop", "reattach"}

VARIABLES
  calls,      \* which of esp_wifi_stop() and rtems_esp_netif_reattach() the
              \* application calls; never changes
  radio,      \* what the driver last told: off, started or connected
  claims,     \* the driver has yet to install its own callback
  rxcb,       \* whose receive callback the driver holds: none, the netif's,
              \* its own, or one an unregistration left where it was
  events,     \* the event queue
  added,      \* rtems_esp_netif_added
  listening,  \* rtems_esp_netif_on_wifi_event is registered
  attached,   \* rtems_esp_netif_attached
  todo,       \* steps left in the call each thread is making
  mbox,       \* functions posted to the tcpip thread
  ifUp,       \* NETIF_FLAG_UP
  linkUp,     \* NETIF_FLAG_LINK_UP
  posts, attachFails, reattaches,  \* counters behind the bounds
  lost        \* history: an event or a core call did not get through

driver == <<radio, claims, posts>>
stack == <<ifUp, linkUp>>
fixed == <<calls, added, listening, reattaches>>
vars == <<driver, rxcb, events, fixed, attached, todo, mbox, stack, attachFails, lost>>

Threads == {"event", "app"}

(* Mutant: start records the path before the driver took it.                *)
StartClaimsFirst == <<"check", "attached", "attach", "up">>

(* The steps of rtems_esp_netif_start(), _stop() and _reattach().            *)
Start == <<"check", "attach", "attached", "up">>

(* Mutant: stop leaves rtems_esp_netif_attached set.                        *)
StopKeepsRecord == <<"checkAttached", "detach", "linkDown", "down">>

Stop == <<"checkAttached", "detach", "detached", "linkDown", "down">>

(* Mutant: reattach is a stop and a start.                                  *)
ReattachByStop == Stop \o Start

(* Mutant: reattach does not discard the record.                            *)
ReattachKeepsRecord == Start

Reattach == <<"forget">> \o Start

(* Mutant: STA_DISCONNECTED is not handled.                                 *)
OnWifiEventUpOnly(id) ==
  CASE id = "STA_START" -> Start
    [] id = "STA_STOP" -> Stop
    [] id = "STA_CONNECTED" -> <<"linkUp">>
    [] id = "STA_DISCONNECTED" -> <<>>

(* rtems_esp_netif_on_wifi_event(): the call each event makes.              *)
OnWifiEvent(id) ==
  CASE id = "STA_START" -> Start
    [] id = "STA_STOP" -> Stop
    [] id = "STA_CONNECTED" -> <<"linkUp">>
    [] id = "STA_DISCONNECTED" -> <<"linkDown">>

Init ==
  /\ calls \in Habits
  /\ radio = "off" /\ claims = FALSE /\ posts = 0
  /\ rxcb = "none"
  /\ events = <<>>
  /\ added = FALSE /\ listening = FALSE /\ attached = FALSE
  /\ todo = [t \in Threads |-> <<>>]
  /\ mbox = <<>>
  /\ ifUp = FALSE /\ linkUp = FALSE
  /\ attachFails = 0 /\ reattaches = 0
  /\ lost = FALSE

------------------------------------------------------------------------------
(* The driver changes state and posts the event; a full queue drops it.     *)
Post(id) ==
  /\ posts < MaxPosts
  /\ posts' = posts + 1
  /\ IF Len(events) < QUEUE_DEPTH
     THEN events' = Append(events, id) /\ UNCHANGED lost
     ELSE lost' = TRUE /\ UNCHANGED events
  /\ UNCHANGED <<rxcb, fixed, attached, todo, mbox, stack, attachFails>>

RadioStart ==
  radio = "off" /\ radio' = "started" /\ Post("STA_START") /\ UNCHANGED claims

RadioConnects ==
  radio = "started" /\ radio' = "connected" /\ Post("STA_CONNECTED") /\ claims' = TRUE

RadioDisconnects ==
  radio = "connected" /\ radio' = "started" /\ Post("STA_DISCONNECTED") /\ UNCHANGED claims

(* A connected station is disconnected, with its event, before it stops.    *)
RadioStop ==
  /\ "stop" \in calls
  /\ radio = "started" /\ radio' = "off"
  /\ Post("STA_STOP") /\ claims' = FALSE

(* Some time after it posts STA_CONNECTED the driver puts its own callback   *)
(* in the one slot there is, whoever held it.                               *)
DriverClaims ==
  /\ claims
  /\ claims' = FALSE
  /\ rxcb' = "driver"
  /\ UNCHANGED <<radio, posts, events, fixed, attached, todo, mbox, stack, attachFails, lost>>

(* rtems_esp_netif_add(): there may be no slot for its event handler.       *)
AddNetif(registered) ==
  /\ ~added
  /\ added' = TRUE
  /\ listening' = registered
  /\ lost' = (lost \/ ~registered)
  /\ UNCHANGED <<calls, driver, rxcb, events, reattaches, attached, todo, mbox, stack, attachFails>>

(* Mutant: the event task takes the newest event.                           *)
DispatchNewest ==
  /\ todo["event"] = <<>>
  /\ events # <<>>
  /\ events' = SubSeq(events, 1, Len(events) - 1)
  /\ IF listening
     THEN /\ todo' = [todo EXCEPT !["event"] = OnWifiEvent(events[Len(events)])]
          /\ UNCHANGED lost
     ELSE lost' = TRUE /\ UNCHANGED todo
  /\ UNCHANGED <<driver, rxcb, fixed, attached, mbox, stack, attachFails>>

(* The event task takes an event and calls the handler, if it is there.     *)
Dispatch ==
  /\ todo["event"] = <<>>
  /\ events # <<>>
  /\ events' = Tail(events)
  /\ IF listening
     THEN todo' = [todo EXCEPT !["event"] = OnWifiEvent(Head(events))] /\ UNCHANGED lost
     ELSE lost' = TRUE /\ UNCHANGED todo
  /\ UNCHANGED <<driver, rxcb, fixed, attached, mbox, stack, attachFails>>

CallReattach ==
  /\ "reattach" \in calls
  /\ added
  /\ todo["app"] = <<>>
  /\ reattaches < MaxReattach
  /\ reattaches' = reattaches + 1
  /\ todo' = [todo EXCEPT !["app"] = Reattach]
  /\ UNCHANGED <<calls, driver, rxcb, events, added, listening, attached, mbox, stack, attachFails, lost>>

------------------------------------------------------------------------------
At(t, step) == todo[t] # <<>> /\ Head(todo[t]) = step

Done(t) == todo' = [todo EXCEPT ![t] = Tail(@)]

Return(t) == todo' = [todo EXCEPT ![t] = <<>>]

(* rtems_esp_netif_reattach(): discard the record.                          *)
Forget(t) ==
  /\ At(t, "forget")
  /\ attached' = FALSE
  /\ Done(t)
  /\ UNCHANGED <<driver, rxcb, events, fixed, mbox, stack, attachFails, lost>>

(* rtems_esp_netif_start() returns at once when it is attached, and           *)
(* rtems_esp_netif_stop() when it is not.                                   *)
CheckAttached(t) ==
  /\ \/ At(t, "check") /\ (IF attached THEN Return(t) ELSE Done(t))
     \/ At(t, "checkAttached") /\ (IF attached THEN Done(t) ELSE Return(t))
  /\ UNCHANGED <<driver, rxcb, events, fixed, attached, mbox, stack, attachFails, lost>>

Attach(t) ==
  /\ At(t, "attach")
  /\ rxcb' = "netif"
  /\ Done(t)
  /\ UNCHANGED <<driver, events, fixed, attached, mbox, stack, attachFails, lost>>

AttachFails(t) ==
  /\ At(t, "attach")
  /\ attachFails < MaxAttachFails
  /\ attachFails' = attachFails + 1
  /\ Return(t)
  /\ UNCHANGED <<driver, rxcb, events, fixed, attached, mbox, stack, lost>>

(* A null callback unregisters, if the driver takes it for that and does not *)
(* fail; else the callback stays.  The result of detach() is reported, not   *)
(* acted on.                                                                *)
Detach(t) ==
  /\ At(t, "detach")
  /\ \/ rxcb' = "none"
     \/ rxcb # "none" /\ rxcb' = "left"
  /\ Done(t)
  /\ UNCHANGED <<driver, events, fixed, attached, mbox, stack, attachFails, lost>>

SetAttached(t) ==
  /\ \/ At(t, "attached") /\ attached' = TRUE
     \/ At(t, "detached") /\ attached' = FALSE
  /\ Done(t)
  /\ UNCHANGED <<driver, rxcb, events, fixed, mbox, stack, attachFails, lost>>

(* rtems_esp_netif_core_call(): tcpip_callback() waits for room in the        *)
(* mailbox, or has no message to send and gives up.                         *)
CoreCall(t) ==
  /\ \E fn \in {"up", "down", "linkUp", "linkDown"} :
       /\ At(t, fn)
       /\ \/ /\ Len(mbox) < MBOX
             /\ mbox' = Append(mbox, fn)
             /\ UNCHANGED lost
          \/ lost' = TRUE /\ UNCHANGED mbox
  /\ Done(t)
  /\ UNCHANGED <<driver, rxcb, events, fixed, attached, stack, attachFails>>

(* The tcpip thread runs the next function.                                 *)
TcpipRuns ==
  /\ mbox # <<>>
  /\ mbox' = Tail(mbox)
  /\ ifUp' = CASE Head(mbox) = "up" -> TRUE [] Head(mbox) = "down" -> FALSE [] OTHER -> ifUp
  /\ linkUp' = CASE Head(mbox) = "linkUp" -> TRUE
                 [] Head(mbox) = "linkDown" -> FALSE
                 [] OTHER -> linkUp
  /\ UNCHANGED <<driver, rxcb, events, fixed, attached, todo, attachFails, lost>>

Settled == events = <<>> /\ mbox = <<>> /\ \A t \in Threads : todo[t] = <<>>

ThreadStep(t) ==
  \/ Forget(t) \/ CheckAttached(t)
  \/ Attach(t) \/ AttachFails(t) \/ Detach(t)
  \/ SetAttached(t) \/ CoreCall(t)

Next ==
  \/ RadioStart \/ RadioConnects \/ RadioDisconnects \/ RadioStop
  \/ DriverClaims
  \/ \E registered \in BOOLEAN : AddNetif(registered)
  \/ Dispatch
  \/ CallReattach
  \/ \E t \in Threads : ThreadStep(t)
  \/ TcpipRuns

Spec == Init /\ [][Next]_vars

(* The event task, a thread inside a call and the tcpip thread are ready     *)
(* tasks of a priority scheduler; the driver and the application act when    *)
(* they please.                                                             *)
FairSpec ==
  /\ Spec
  /\ WF_vars(Dispatch)
  /\ \A t \in Threads : WF_vars(ThreadStep(t))
  /\ WF_vars(TcpipRuns)
------------------------------------------------------------------------------
(* Every variable stays in its range.                                       *)
TypeOK ==
  /\ calls \in Habits
  /\ radio \in {"off", "started", "connected"}
  /\ rxcb \in {"none", "netif", "driver", "left"}
  /\ {added, listening, attached, claims, ifUp, linkUp, lost} \subseteq BOOLEAN
  /\ Len(events) \in 0 .. QUEUE_DEPTH
  /\ Len(mbox) \in 0 .. MBOX

(* Once everything posted has been handled, and nothing was dropped on the   *)
(* way, the link of the interface is up exactly when the station is          *)
(* associated: two queues in a row keep the order of the radio's changes.   *)
LinkFollowsRadio == Settled /\ ~lost /\ added => (linkUp <=> radio = "connected")

(* The application that stops the radio has also reattached.                *)
StopsAndReattaches == "stop" \in calls /\ reattaches > 0

(* A callback was registered since the last stop.                           *)
Registered == rxcb \in {"netif", "driver"}

(* In the same states the receive path and the interface follow the radio's  *)
(* start and stop: a stop has unregistered every callback, whether or not    *)
(* the driver let go of it, and leaves no interface up; none is missing after *)
(* a start that the driver did not refuse.  A reattach may be early, before   *)
(* the radio starts, one that is refused leaves the interface up, and one    *)
(* that overlaps a stop may leave either.                                    *)
PathFollowsRadio ==
  Settled /\ ~lost /\ added =>
    /\ attachFails = 0 /\ ~StopsAndReattaches
         => (radio # "off" => attached) /\ (Registered <=> attached)
    /\ reattaches = 0 => (radio = "off" => ~attached) /\ (ifUp <=> attached)

(* netif.h on rtems_esp_netif_start(): "The receive path is installed."      *)
(* The record says attached only while the driver holds a callback that was   *)
(* registered since the last stop, a detach in progress aside.  Not so when an application stops the *)
(* radio and reattaches: the two calls overlap and the record is written     *)
(* after the detach.                                                        *)
AttachedIsInstalled ==
  attached /\ ~StopsAndReattaches => Registered \/ \E t \in Threads : At(t, "detached")

(* The two together.                                                        *)
LinkInv == TypeOK /\ AttachedIsInstalled

(* Reattaching while the radio stays on, refused or not, leaves an interface *)
(* that was brought up as it was; and an attached interface is up, with the  *)
(* same exception.                                                          *)
ReattachKeepsUp ==
  /\ [][ifUp /\ "stop" \notin calls => ifUp']_ifUp
  /\ [](Settled /\ ~lost /\ attached /\ ~StopsAndReattaches => ifUp)

(* Whatever the order of posts and of the threads, the link ends up as the    *)
(* radio left it, unless something was dropped: no thread waits for ever for *)
(* room in the mailbox.                                                     *)
LinkSettles == <>[](Settled /\ (lost \/ ~added \/ (linkUp <=> radio = "connected")))
==============================================================================
