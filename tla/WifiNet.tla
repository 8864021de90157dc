------------------------------- MODULE WifiNet -------------------------------
(***************************************************************************)
(* The wifi-net example: one task brings the driver and the interface up,   *)
(* associates, takes the receive path back, asks for an address and checks   *)
(* after each stage what the events, the event task and the tcpip thread    *)
(* have made of it.  rtems_esp_netif_add() is taken step by step; what      *)
(* follows the radio is NetifLink's.                                        *)
(*                                                                          *)
(* A wait of some seconds is a wait until the queues are empty and no        *)
(* thread is inside a call: what it cannot wait for is the radio.           *)
(***************************************************************************)
EXTENDS NetifLink

(* The example reattaches; it never stops the radio.                        *)
ASSUME ExampleAssumption == \A habit \in Habits : "stop" \notin habit

VARIABLES
  pc,         \* where the task is
  hears,      \* its own handler, on_wifi_event(), is registered
  seen,       \* sta_start_seen, ..: events its handler has been given
  failed,     \* checks that failed
  made,       \* what rtems_esp_netif_add() has in place
  linkoutput, \* the interface has its functions: rtems_esp_netif_init() ran
  isDefault,  \* netif_default is the interface
  attempt,    \* esp_wifi_connect() was accepted and has no verdict yet
  server,     \* the network has a DHCP server; never changes
  dhcp,       \* lwIP's DHCP client: off, asking or bound
  late,       \* history: the driver took the callback back after the reattach
  refused     \* history: the driver refused the reattach

adding == <<made, linkoutput, isDefault>>
air == <<attempt, server>>
client == <<dhcp, late, refused>>
task == <<pc, hears, seen, failed>>
netVars == <<vars, task, adding, air, client>>

NetInit ==
  /\ Init
  /\ pc = "register"
  /\ hears = FALSE /\ seen = {} /\ failed = {}
  /\ made = {} /\ linkoutput = FALSE /\ isDefault = FALSE
  /\ attempt = FALSE /\ server \in BOOLEAN
  /\ dhcp = "off" /\ late = FALSE /\ refused = FALSE

(* The task leaves one place for another; exit() ends the system.           *)
Goes(from, to) == pc = from /\ pc' = to

Running == pc \notin {"done", "fault"}

(* check(): the failure is printed and counted, and the run goes on.        *)
Check(what, ok) == failed' = (IF ok THEN failed ELSE failed \union {what})

------------------------------------------------------------------------------
(* Bringing the driver and the interface up.                                *)
RegisterHandler ==
  /\ Goes("register", "init")
  /\ hears' \in BOOLEAN
  /\ Check("register", hears')
  /\ UNCHANGED <<vars, seen, adding, air, client>>

(* esp_wifi_init() alone ends the run when it fails.                        *)
WifiInit ==
  /\ \E ok \in BOOLEAN : Goes("init", IF ok THEN "lock" ELSE "done") /\ Check("init", ok)
  /\ UNCHANGED <<vars, hears, seen, adding, air, client>>

(* rtems_esp_netif_add(): the staging lock.                                 *)
CreateLock ==
  /\ Goes("lock", "publish")
  /\ made' = {"lock"}
  /\ UNCHANGED <<vars, hears, seen, failed, linkoutput, isDefault, air, client>>

CreateLockFails ==
  /\ Goes("lock", "start")
  /\ Check("add", FALSE)
  /\ UNCHANGED <<vars, hears, seen, adding, air, client>>

(* The driver and the interface are published before netif_add().           *)
Publish ==
  /\ Goes("publish", "add")
  /\ made' = made \union {"ops", "netif"}
  /\ UNCHANGED <<vars, hears, seen, failed, linkoutput, isDefault, air, client>>

(* netif_add() runs rtems_esp_netif_init(); the interface is added and its    *)
(* event handler registered, if there is a slot.                            *)
Add ==
  /\ Goes("add", "default")
  /\ linkoutput' = TRUE
  /\ \E registered \in BOOLEAN : AddNetif(registered)
  /\ UNCHANGED <<hears, seen, failed, made, isDefault, air, client>>

(* esp32c3_netif_add(): what was added becomes the default route.           *)
SetDefault ==
  /\ Goes("default", "start")
  /\ isDefault' = TRUE
  /\ UNCHANGED <<vars, hears, seen, failed, made, linkoutput, air, client>>

(* netif_add() fails, before or after its init callback: all is taken back. *)
AddFails ==
  /\ Goes("add", "start")
  /\ linkoutput' \in BOOLEAN
  /\ made' = {}
  /\ Check("add", FALSE)
  /\ UNCHANGED <<vars, hears, seen, isDefault, air, client>>

(* esp_wifi_start(), with its check, and the wait of two seconds.           *)
StartWifi ==
  /\ Goes("start", "startWait")
  /\ \/ RadioStart /\ UNCHANGED failed
     \/ Check("start", FALSE) /\ UNCHANGED vars
  /\ UNCHANGED <<hears, seen, adding, air, client>>

(* Mutant: there is no wait.                                                *)
WaitForStartSkipped ==
  /\ Goes("startWait", "up")
  /\ UNCHANGED <<vars, hears, seen, failed, adding, air, client>>

WaitForStart ==
  /\ Settled
  /\ Goes("startWait", "up")
  /\ UNCHANGED <<vars, hears, seen, failed, adding, air, client>>

CheckUp ==
  /\ Goes("up", "started")
  /\ Check("up", ifUp)
  /\ UNCHANGED <<vars, hears, seen, adding, air, client>>

CheckStarted ==
  /\ Goes("started", "connect")
  /\ Check("started", "STA_START" \in seen)
  /\ UNCHANGED <<vars, hears, seen, adding, air, client>>

------------------------------------------------------------------------------
(* Associating.  The scan and the power save change nothing here; a driver   *)
(* that was not started refuses to connect.                                 *)
Connect ==
  /\ Goes("connect", "connectWait")
  /\ \E ok \in BOOLEAN :
       /\ ok => radio = "started"
       /\ Check("connect", ok)
       /\ attempt' = ok
  /\ UNCHANGED <<vars, hears, seen, adding, server, client>>

(* The wait of five seconds: the attempt may take longer.                   *)
WaitForVerdict ==
  /\ Settled
  /\ Goes("connectWait", "verdict")
  /\ UNCHANGED <<vars, hears, seen, failed, adding, air, client>>

(* What was seen decides: an association that was lost again still counts.  *)
Verdict ==
  /\ Goes("verdict", IF "STA_CONNECTED" \in seen THEN "reattach" ELSE "transmit")
  /\ Check("verdict", seen \intersect {"STA_CONNECTED", "STA_DISCONNECTED"} # {})
  /\ UNCHANGED <<vars, hears, seen, adding, air, client>>

(* rtems_esp_netif_reattach(): the call, its refusal by an interface that was *)
(* not added, and its return.                                               *)
TakePathBack ==
  /\ Goes("reattach", "reattaching")
  /\ CallReattach
  /\ UNCHANGED <<hears, seen, failed, adding, air, client>>

NothingToTakeBack ==
  /\ Goes("reattach", "dhcp")
  /\ ~added
  /\ Check("reattach", FALSE)
  /\ refused' = TRUE
  /\ UNCHANGED <<vars, hears, seen, adding, air, dhcp, late>>

PathTakenBack ==
  /\ todo["app"] = <<>>
  /\ Goes("reattaching", "dhcp")
  /\ Check("reattach", ~refused)
  /\ UNCHANGED <<vars, hears, seen, adding, air, client>>

(* netifapi_dhcp_start(): lwIP wants the interface up, and memory.          *)
StartDhcp ==
  /\ Goes("dhcp", "poll")
  /\ \E ok \in BOOLEAN :
       /\ ok => ifUp
       /\ Check("dhcpStart", ok)
       /\ dhcp' = (IF ok THEN "asking" ELSE "off")
  /\ UNCHANGED <<vars, hears, seen, adding, air, late, refused>>

(* An offer comes in through the netif's callback and over a link that is up. *)
CanBind ==
  /\ dhcp = "asking" /\ server
  /\ radio = "connected" /\ rxcb = "netif" /\ ifUp /\ linkUp

(* The poll ends with an address, or after twenty seconds in which none      *)
(* could come.                                                              *)
Poll ==
  /\ dhcp = "bound" \/ (Settled /\ ~CanBind)
  /\ Goes("poll", "transmit")
  /\ Check("dhcp", dhcp = "bound")
  /\ UNCHANGED <<vars, hears, seen, adding, air, client>>

(* transmit_one() calls linkoutput, which an interface that never was in      *)
(* netif_add() has not got.  The counters, shared with the stack's own       *)
(* frames, are NetifTx's.                                                   *)
Transmit ==
  /\ Goes("transmit", IF linkoutput THEN "done" ELSE "fault")
  /\ UNCHANGED <<vars, hears, seen, failed, adding, air, client>>

InitTask ==
  \/ RegisterHandler \/ WifiInit
  \/ CreateLock \/ CreateLockFails \/ Publish \/ Add \/ AddFails
  \/ SetDefault
  \/ StartWifi \/ WaitForStart \/ CheckUp \/ CheckStarted
  \/ Connect \/ WaitForVerdict \/ Verdict
  \/ TakePathBack \/ NothingToTakeBack \/ PathTakenBack
  \/ StartDhcp \/ Poll \/ Transmit

------------------------------------------------------------------------------
(* The radio gives its verdict on the attempt, or loses the association.    *)
Associates ==
  /\ attempt
  /\ RadioConnects
  /\ attempt' = FALSE
  /\ UNCHANGED <<task, adding, server, client>>

NoAccessPoint ==
  /\ attempt
  /\ Post("STA_DISCONNECTED")
  /\ attempt' = FALSE
  /\ UNCHANGED <<radio, claims, task, adding, server, client>>

LosesAccessPoint == RadioDisconnects /\ UNCHANGED <<task, adding, air, client>>

Claims ==
  /\ DriverClaims
  /\ late' = (late \/ pc \in {"reattaching", "dhcp", "poll", "transmit"})
  /\ UNCHANGED <<task, adding, air, dhcp, refused>>

(* on_wifi_event() was registered first and counts the event first.         *)
Deliver ==
  /\ Dispatch
  /\ seen' = (IF hears THEN seen \union {Head(events)} ELSE seen)
  /\ UNCHANGED <<pc, hears, failed, adding, air, client>>

InCall(t) ==
  /\ ThreadStep(t)
  /\ refused' = (refused \/ (t = "app" /\ attachFails' > attachFails))
  /\ UNCHANGED <<task, adding, air, dhcp, late>>

StackRuns == TcpipRuns /\ UNCHANGED <<task, adding, air, client>>

Binds ==
  /\ CanBind
  /\ dhcp' = "bound"
  /\ UNCHANGED <<vars, task, adding, air, late, refused>>

System ==
  /\ Running
  /\ \/ Associates \/ NoAccessPoint \/ LosesAccessPoint \/ Claims
     \/ Deliver \/ StackRuns \/ Binds
     \/ \E t \in Threads : InCall(t)

NetNext == InitTask \/ System

NetSpec == NetInit /\ [][NetNext]_netVars
------------------------------------------------------------------------------
(* Every variable stays in its range.                                       *)
NetTypeOK ==
  /\ TypeOK
  /\ {hears, linkoutput, isDefault, attempt, server, late, refused} \subseteq BOOLEAN
  /\ seen \subseteq {"STA_START", "STA_CONNECTED", "STA_DISCONNECTED"}
  /\ made \subseteq {"lock", "ops", "netif"}
  /\ dhcp \in {"off", "asking", "bound"}

(* rtems_esp_netif_add() leaves an interface that has everything, or nothing *)
(* at all, and only the former hears events, has a callback or a default     *)
(* route.                                                                   *)
AddIsWhole ==
  /\ added => made = {"lock", "ops", "netif"} /\ linkoutput
  /\ pc \notin {"publish", "add"} /\ ~added => made = {}
  /\ pc \notin {"publish", "add", "default"} => (isDefault <=> added)
  /\ listening \/ attached \/ rxcb = "netif" => added

(* "a registration made before the station associates does not survive the   *)
(* association": a reattach the driver took has put the netif's callback in   *)
(* its place from the time the client asks for an address, whatever the      *)
(* event task does about the association, unless the driver was later still. *)
ClientHasItsPath ==
  /\ pc \in {"poll", "transmit", "done"} /\ dhcp # "off"
  /\ ~late /\ ~refused
  => rxcb = "netif"

(* The three together.                                                      *)
NetInv == NetTypeOK /\ AddIsWhole /\ ClientHasItsPath

(* What can be behind a failed check; the verdict may come after the five    *)
(* seconds, and its event may be on its way when they are over.             *)
NotStarted == "start" \in failed \/ lost

Explained(what) ==
  CASE what = "up" -> NotStarted \/ ~added \/ attachFails > 0
    [] what = "started" -> NotStarted \/ ~hears
    [] what = "verdict" -> \/ lost \/ ~hears \/ "connect" \in failed
                           \/ attempt \/ events # <<>>
    [] what = "reattach" -> ~added \/ attachFails > 0
    [] what = "dhcp" -> \/ lost \/ late \/ refused
                        \/ ~server \/ dhcp = "off" \/ radio # "connected"
    [] OTHER -> TRUE

(* A check that fails tells of something outside the port: a call that was   *)
(* refused, an event or a core call that was dropped, a driver that was late, *)
(* a network without an answer.  None fails because the task looked too      *)
(* early or because the event task and the tcpip thread took each other's    *)
(* work in the wrong order.                                                 *)
AlarmsAreReal == [][\A what \in failed' \ failed : Explained(what)]_failed
==============================================================================
