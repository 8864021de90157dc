---------------------------- MODULE StartupProofs ----------------------------
(***************************************************************************)
(* The two starts of the port, for any number of failures and retries: the   *)
(* event loop's own objects, made by the first of its callers, and the       *)
(* modem, brought up by esp_wifi_init() whatever the boot left in it.        *)
(***************************************************************************)
EXTENDS EventStart, WifiInit, TLAPS

(* The loop is started by one task, as in the examples; two that make their  *)
(* first calls together start it twice.                                     *)
OneCaller == \A c, d \in Callers : c = d

(* The objects that exist are those the caller has made so far in its start,  *)
(* and after it all of them or none.                                        *)
ObjectsInStep ==
  \A c \in Callers :
    /\ pc[c] = "mutex" => task = 0 /\ live = {} /\ started = {}
    /\ pc[c] = "queue" => task = 0 /\ live = {mutex} /\ started = {}
    /\ pc[c] = "task" => task = 0 /\ live = {mutex, queue} /\ started = {}
    /\ pc[c] = "start" => task # 0 /\ live = {mutex, queue, task} /\ started = {}

(* Messages are in the loop's queue and a task listens to no other.  An id    *)
(* that is yet to be handed out has neither.                                *)
OneQueue ==
  /\ \A q \in live : inbox[q] > 0 => q = queue /\ started # {}
  /\ \A e \in Ids : listens[e] # 0 => e \in started /\ listens[e] = queue
  /\ \A i \in Ids : i > created => inbox[i] = 0

LoopInv == TypeOK /\ AllOrNothing /\ ObjectsInStep /\ OneQueue

LEMMA LoopInit == OneCaller /\ Init => LoopInv
<1>. SUFFICES ASSUME Init PROVE LoopInv
  OBVIOUS
<1>. USE StartAssumption DEF StartAssumption, Init, Ids
<1>1. TypeOK
  BY DEF TypeOK
<1>2. AllOrNothing /\ ObjectsInStep /\ OneQueue
  BY DEF AllOrNothing, ObjectsInStep, OneQueue
<1>. QED BY <1>1, <1>2 DEF LoopInv

(* A step that makes and deletes no object, outside a start.                *)
LEMMA CallsKeep ==
  ASSUME OneCaller, LoopInv, NEW c \in Callers,
         \/ \E o \in {"register", "unregister", "post"} : Call(c, o)
         \/ Check(c) \/ Obtain(c) \/ Edit(c)
  PROVE  LoopInv'
<1>. USE StartAssumption DEF StartAssumption, LoopInv, Goto, Return, AfterStart, ids, objects, others, Editing
<1>1. UNCHANGED <<ids, objects, inbox, listens, failures>>
  BY DEF Call, Check, Obtain, Edit
<1>2. pc[c] \notin {"mutex", "queue", "task", "start"}
  BY DEF Call, Check, Obtain, Edit
<1>3. \E l \in {"idle", "check", "mutex", "send", "obtain", "edit"} :
        pc' = [pc EXCEPT ![c] = l] /\ (l = "mutex" => task = 0)
  BY DEF Call, Check, Obtain, Edit
<1>4. holds' \in [Callers -> 0 .. MaxObjects]
  BY DEF Call, Check, Obtain, Edit, TypeOK
<1>5. task = 0 => live = {}
  BY <1>2 DEF OneCaller, AllOrNothing, InStart
<1>6. TypeOK'
  BY <1>1, <1>3, <1>4 DEF TypeOK
<1>7. AllOrNothing'
  BY <1>1, <1>2 DEF OneCaller, AllOrNothing, InStart
<1>8. ObjectsInStep'
  BY <1>1, <1>3, <1>5 DEF OneCaller, ObjectsInStep, TypeOK
<1>9. OneQueue'
  BY <1>1 DEF OneQueue
<1>. QED BY <1>6, <1>7, <1>8, <1>9

LEMMA SendKeeps ==
  ASSUME OneCaller, LoopInv, NEW c \in Callers, Send(c)
  PROVE  LoopInv'
<1>. USE StartAssumption DEF StartAssumption, LoopInv, Goto, Return, ids, objects
<1>1. /\ pc[c] = "send" /\ pc' = [pc EXCEPT ![c] = "idle"]
      /\ UNCHANGED <<mutex, queue, task, created, live, started, listens, holds, failures>>
      /\ \/ UNCHANGED inbox
         \/ queue \in live /\ inbox[queue] < QUEUE_DEPTH /\ inbox' = [inbox EXCEPT ![queue] = @ + 1]
  BY DEF Send
<1>2. live \subseteq 1 .. created /\ created \in 0 .. MaxObjects /\ inbox \in [Ids -> 0 .. QUEUE_DEPTH]
  BY DEF TypeOK
<1>3. queue \in live => task # 0 /\ started = {task}
  BY <1>1 DEF OneCaller, AllOrNothing, InStart
<1>4. inbox' \in [Ids -> 0 .. QUEUE_DEPTH] /\ \A i \in Ids : inbox'[i] # inbox[i] => i = queue /\ queue \in live
  BY <1>1, <1>2 DEF Ids
<1>5. TypeOK'
  BY <1>1, <1>4 DEF TypeOK
<1>6. AllOrNothing' /\ ObjectsInStep'
  BY <1>1 DEF OneCaller, AllOrNothing, InStart, ObjectsInStep, TypeOK
<1>7. OneQueue'
  <2>1. \A q \in live : q \in Ids /\ ~(q > created)
    BY <1>2 DEF Ids
  <2>2. \A q \in live : inbox'[q] > 0 => q = queue /\ started # {}
    <3>. SUFFICES ASSUME NEW q \in live, inbox'[q] > 0 PROVE q = queue /\ started # {}
      OBVIOUS
    <3>1. CASE inbox'[q] = inbox[q]
      BY <3>1 DEF OneQueue
    <3>2. CASE inbox'[q] # inbox[q]
      BY <1>3, <1>4, <2>1, <3>2
    <3>. QED BY <3>1, <3>2
  <2>3. \A i \in Ids : i > created => inbox'[i] = 0
    BY <1>4, <2>1 DEF OneQueue
  <2>. QED BY <1>1, <2>2, <2>3 DEF OneQueue
<1>. QED BY <1>5, <1>6, <1>7

(* Each creation adds its object, ...                                       *)
LEMMA CreateKeeps ==
  ASSUME OneCaller, LoopInv, NEW c \in Callers, CreateMutex(c) \/ CreateQueue(c) \/ CreateTask(c)
  PROVE  LoopInv'
<1>. USE StartAssumption DEF StartAssumption, LoopInv, Goto, Create, others
<1>1. /\ created < MaxObjects /\ created' = created + 1 /\ live' = live \union {created + 1}
      /\ UNCHANGED <<started, inbox, listens, holds, failures>>
      /\ started = {} /\ task = 0
  BY DEF CreateMutex, CreateQueue, CreateTask, ObjectsInStep
<1>2. /\ created \in Nat /\ created + 1 \in Ids /\ live \subseteq 1 .. created
      /\ mutex \in 0 .. created /\ queue \in 0 .. created /\ task \in 0 .. created
  BY <1>1 DEF TypeOK, Ids
<1>3. /\ mutex' \in 0 .. created' /\ queue' \in 0 .. created' /\ task' \in 0 .. created'
      /\ \E l \in {"queue", "task", "start"} : pc' = [pc EXCEPT ![c] = l]
  BY <1>1, <1>2 DEF CreateMutex, CreateQueue, CreateTask
<1>4. live' \subseteq 1 .. created' /\ created' \in 0 .. MaxObjects
  BY <1>1, <1>2
<1>5. TypeOK'
  BY <1>1, <1>3, <1>4 DEF TypeOK
<1>6. ObjectsInStep'
  <2>1. \A d \in Callers : d = c
    BY DEF OneCaller
  <2>2. CASE CreateMutex(c)
    <3>1. mutex' = created + 1 /\ task' = 0 /\ live = {} /\ pc'[c] = "queue"
      BY <1>1, <2>2 DEF CreateMutex, ObjectsInStep, TypeOK
    <3>. QED BY <1>1, <2>1, <3>1 DEF ObjectsInStep
  <2>3. CASE CreateQueue(c)
    <3>1. queue' = created + 1 /\ mutex' = mutex /\ task' = 0 /\ live = {mutex} /\ pc'[c] = "task"
      BY <1>1, <2>3 DEF CreateQueue, ObjectsInStep, TypeOK
    <3>. QED BY <1>1, <2>1, <3>1 DEF ObjectsInStep
  <2>4. CASE CreateTask(c)
    <3>1. /\ task' = created + 1 /\ mutex' = mutex /\ queue' = queue
          /\ live = {mutex, queue} /\ pc'[c] = "start"
      BY <1>1, <2>4 DEF CreateTask, ObjectsInStep, TypeOK
    <3>. QED BY <1>1, <1>2, <2>1, <3>1 DEF ObjectsInStep
  <2>. QED BY <2>2, <2>3, <2>4
<1>7. AllOrNothing'
  BY <1>3 DEF AllOrNothing, InStart, TypeOK
<1>8. OneQueue'
  <2>1. \A e \in Ids : listens'[e] = 0
    BY <1>1 DEF OneQueue
  <2>2. \A q \in live' : ~(inbox'[q] > 0)
    BY <1>1, <1>2 DEF OneQueue
  <2>3. \A i \in Ids : i > created' => inbox'[i] = 0
    BY <1>1, <1>2 DEF OneQueue, Ids
  <2>. QED BY <2>1, <2>2, <2>3 DEF OneQueue
<1>. QED BY <1>5, <1>6, <1>7, <1>8

(* ... and each failure deletes what there was.                             *)
LEMMA FailureKeeps ==
  ASSUME OneCaller, LoopInv, NEW c \in Callers,
         MutexFails(c) \/ QueueFails(c) \/ TaskFails(c) \/ StartFails(c)
  PROVE  LoopInv'
<1>. USE StartAssumption DEF StartAssumption, LoopInv, Goto, Return, CreateFails, others, ids
<1>1. /\ pc[c] \in {"mutex", "queue", "task", "start"} /\ pc' = [pc EXCEPT ![c] = "idle"]
      /\ UNCHANGED <<mutex, queue, created, inbox, listens, holds>>
  BY DEF MutexFails, QueueFails, TaskFails, StartFails
<1>2. failures' \in 0 .. MaxFailures
  BY DEF MutexFails, QueueFails, TaskFails, StartFails, TypeOK
<1>3. started = {} /\ started' = {} /\ live' = {} /\ task' = 0
  BY DEF MutexFails, QueueFails, TaskFails, StartFails, ObjectsInStep
<1>4. TypeOK'
  BY <1>1, <1>2, <1>3 DEF TypeOK
<1>5. AllOrNothing'
  BY <1>3 DEF AllOrNothing
<1>6. ObjectsInStep'
  BY <1>1 DEF OneCaller, ObjectsInStep, TypeOK
<1>7. OneQueue'
  BY <1>1, <1>3 DEF OneQueue
<1>. QED BY <1>4, <1>5, <1>6, <1>7

LEMMA StartTaskKeeps ==
  ASSUME OneCaller, LoopInv, NEW c \in Callers, StartTask(c)
  PROVE  LoopInv'
<1>. USE DEF LoopInv, Goto, AfterStart, others, ids
<1>1. /\ pc[c] = "start" /\ pc' \in {[pc EXCEPT ![c] = "obtain"], [pc EXCEPT ![c] = "send"]}
      /\ UNCHANGED <<mutex, queue, task, created, live, inbox, listens, holds, failures>>
      /\ started = {} /\ started' = {task} /\ task # 0 /\ live = {mutex, queue, task}
  BY DEF StartTask, ObjectsInStep
<1>2. TypeOK'
  BY <1>1 DEF TypeOK
<1>3. AllOrNothing' /\ ObjectsInStep'
  BY <1>1 DEF OneCaller, AllOrNothing, ObjectsInStep, TypeOK
<1>4. OneQueue'
  BY <1>1 DEF OneQueue
<1>. QED BY <1>2, <1>3, <1>4

LEMMA BodyKeeps ==
  ASSUME LoopInv, NEW e \in Ids, Listen(e) \/ Receive(e)
  PROVE  LoopInv'
<1>. USE StartAssumption DEF StartAssumption, LoopInv, ids, objects
<1>1. UNCHANGED <<mutex, queue, task, created, live, started, pc, op, holds, failures>> /\ e \in started
  BY DEF Listen, Receive
<1>2. live \subseteq 1 .. created /\ created \in 0 .. MaxObjects /\ inbox \in [Ids -> 0 .. QUEUE_DEPTH]
  BY DEF TypeOK
<1>3. /\ listens' \in {[listens EXCEPT ![e] = queue], [listens EXCEPT ![e] = 0]}
      /\ \/ UNCHANGED inbox
         \/ \E q \in live : inbox[q] > 0 /\ inbox' = [inbox EXCEPT ![q] = @ - 1]
  BY DEF Listen, Receive
<1>4. inbox' \in [Ids -> 0 .. QUEUE_DEPTH] /\ \A i \in Ids : inbox'[i] <= inbox[i]
  BY <1>2, <1>3 DEF Ids
<1>5. listens' \in [Ids -> 0 .. MaxObjects]
  BY <1>3 DEF TypeOK
<1>6. TypeOK'
  BY <1>1, <1>4, <1>5 DEF TypeOK
<1>7. AllOrNothing' /\ ObjectsInStep'
  BY <1>1 DEF AllOrNothing, InStart, ObjectsInStep
<1>8. OneQueue'
  <2>1. \A q \in live : q \in Ids
    BY <1>2 DEF Ids
  <2>2. \A i \in Ids : inbox'[i] > 0 => inbox[i] > 0
    BY <1>2, <1>4
  <2>3. \A i \in Ids : inbox[i] = 0 => inbox'[i] = 0
    BY <1>2, <1>4
  <2>4. \A d \in Ids : listens'[d] # 0 => d \in started /\ listens'[d] = queue
    BY <1>1, <1>3 DEF OneQueue, TypeOK
  <2>. QED BY <1>1, <2>1, <2>2, <2>3, <2>4 DEF OneQueue
<1>. QED BY <1>6, <1>7, <1>8

LEMMA LoopStep == OneCaller /\ LoopInv /\ [Next]_vars => LoopInv'
<1>. SUFFICES ASSUME OneCaller, LoopInv, [Next]_vars PROVE LoopInv'
  OBVIOUS
<1>1. ASSUME NEW c \in Callers,
             \/ \E o \in {"register", "unregister", "post"} : Call(c, o)
             \/ StartStep(c) \/ Send(c) \/ Obtain(c) \/ Edit(c)
      PROVE  LoopInv'
  BY <1>1, CallsKeep, SendKeeps, CreateKeeps, FailureKeeps, StartTaskKeeps DEF StartStep
<1>2. ASSUME NEW e \in Ids, Listen(e) \/ Receive(e)
      PROVE  LoopInv'
  BY <1>2, BodyKeeps
<1>3. CASE UNCHANGED vars
  BY <1>3 DEF vars, LoopInv, TypeOK, AllOrNothing, InStart, ObjectsInStep, OneQueue
<1>. QED BY <1>1, <1>2, <1>3 DEF Next

(* The one caller stays the one.                                            *)
OneCallerInv == OneCaller /\ LoopInv

LEMMA LoopHolds == OneCaller => (Spec => []LoopInv)
<1>1. OneCaller /\ Init => OneCallerInv
  BY LoopInit DEF OneCallerInv
<1>2. OneCallerInv /\ [Next]_vars => OneCallerInv'
  BY LoopStep DEF OneCallerInv, OneCaller
<1>3. OneCallerInv => LoopInv
  BY DEF OneCallerInv
<1>. QED BY <1>1, <1>2, <1>3, PTL DEF Spec

(* A start leaves all of its objects or none, whichever creation fails and   *)
(* however often the start is tried again.                                  *)
THEOREM StartInvHolds == OneCaller => (Spec => []StartInv)
<1>1. LoopInv => StartInv
  BY DEF LoopInv, StartInv
<1>. QED BY <1>1, LoopHolds, PTL

(* An accepted event is in a queue that some event task receives from.       *)
THEOREM AcceptedIsServedHolds == OneCaller => (Spec => []AcceptedIsServed)
<1>1. LoopInv => AcceptedIsServed
  <2>. SUFFICES ASSUME LoopInv, NEW q \in live, inbox[q] > 0
                PROVE  \E e \in started : listens[e] = q \/ (listens[e] = 0 /\ queue = q)
    BY DEF AcceptedIsServed
  <2>1. q = queue /\ started # {}
    BY DEF LoopInv, OneQueue
  <2>2. started \subseteq Ids
    BY StartAssumption DEF LoopInv, TypeOK, Ids, StartAssumption
  <2>3. \A e \in started : listens[e] = 0 \/ listens[e] = queue
    BY <2>2 DEF LoopInv, OneQueue
  <2>. QED BY <2>1, <2>3
<1>. QED BY <1>1, LoopHolds, PTL

------------------------------------------------------------------------------
(* The modem.                                                               *)
(* The steps at which a thing is done: the one after it and all that follow,  *)
(* up to the calibration.                                                   *)
MacSet == {"phy"}
OnPll == {"mac"} \union MacSet
PeriodChosen == {"source"} \union OnPll
SarOn == {"period"} \union PeriodChosen
BusOpen == {"sar"} \union SarOn
Clocked == {"analog"} \union BusOpen
OutOfIsolation == {"commonOff", "clocks"} \union Clocked
ResetOver == {"isolation"} \union OutOfIsolation
ResetBegun == {"release"} \union ResetOver
PowerOn == {"commonOn", "assert"} \union ResetBegun
SectionsLoaded == {"power"} \union PowerOn

(* What has been done so far stays done: no later step touches it again.     *)
ModemInStep ==
  /\ step \in SectionsLoaded => sections
  /\ step \in PowerOn => Powered
  /\ step = "assert" => "BT_COMMON" \in clk
  /\ step \in ResetBegun => fresh
  /\ step \in ResetOver => "MODEM_RESET" \notin rst
  /\ step \in OutOfIsolation => iso = {"FORCE_NOISO"}
  /\ step \in Clocked => {"BT_COMMON", "PHY_MAC"} \subseteq clk
  /\ step \in BusOpen => ana = {}
  /\ step \in SarOn => sarUp
  /\ step \in PeriodChosen => "PERIOD" \in cpu
  /\ step \in OnPll => cpu = {"PERIOD", "PLL"}
  /\ step \in MacSet => mac

(* Which of the libraries are up at each step: before the PHY has calibrated  *)
(* none but those a failed deinit of an earlier attempt left up.             *)
LibrariesInStep ==
  /\ step \in {"idle", "sections", "internal", "supplicant", "deinit", "inited"} \union SectionsLoaded
  /\ step # "idle" => ~inited
  /\ step \in {"sections", "internal"} \union SectionsLoaded =>
       ~supplicant /\ (libs <=> leftUp)
  /\ step = "internal" => phy
  /\ step \in {"supplicant", "deinit"} => libs /\ ~supplicant
  /\ step = "inited" => libs /\ supplicant
  /\ step = "idle" /\ ~inited => ~supplicant /\ (libs <=> leftUp)

ModemInv == ModemTypeOK /\ ModemInStep /\ LibrariesInStep

LEMMA ModemBegins == ModemInit => ModemInv
BY DEF ModemInit, ModemInv, ModemTypeOK, Pwc, Iso, Clk, Rst, Ana,
       Cpu, ModemInStep, LibrariesInStep, SectionsLoaded, PowerOn, ResetBegun, ResetOver,
       OutOfIsolation, Clocked, BusOpen, SarOn, PeriodChosen, OnPll, MacSet

LEMMA ModemStep == ModemInv /\ [ModemNext]_modemVars => ModemInv'
<1>. SUFFICES ASSUME ModemInv, [ModemNext]_modemVars PROVE ModemInv'
  OBVIOUS
<1>. USE DEF ModemInv, ModemTypeOK, Pwc, Iso, Clk, Rst, Ana, Cpu,
             ModemInStep, LibrariesInStep, SectionsLoaded, PowerOn, ResetBegun, ResetOver, OutOfIsolation,
             Clocked, BusOpen, SarOn, PeriodChosen, OnPll, MacSet,
             registers, software, At, LeaveInit, Powered
<1>1. ASSUME NEW valid \in BOOLEAN, EspWifiInit(valid)
      PROVE  ModemInv'
  BY <1>1 DEF EspWifiInit
<1>2. CASE CopySections
  BY <1>2 DEF CopySections
<1>3. CASE PowerUp
  BY <1>3 DEF PowerUp
<1>4. CASE CommonClockOn
  BY <1>4 DEF CommonClockOn
<1>5. CASE AssertReset
  BY <1>5 DEF AssertReset
<1>6. CASE ReleaseReset
  BY <1>6 DEF ReleaseReset
<1>7. CASE LeaveIsolation
  BY <1>7 DEF LeaveIsolation
<1>8. CASE CommonClockOff
  BY <1>8 DEF CommonClockOff
<1>9. CASE ClocksOn
  BY <1>9 DEF ClocksOn
<1>10. CASE OpenAnalogBus
  BY <1>10 DEF OpenAnalogBus
<1>11. CASE SarUp
  BY <1>11 DEF SarUp
<1>12. CASE ChoosePeriod
  BY <1>12 DEF ChoosePeriod
<1>13. CASE ChooseSource
  <2>1. cpu' = {"PERIOD", "PLL"}
    <3>1. cpu' = cpu \union {"PLL"} /\ "PERIOD" \in cpu /\ cpu \subseteq {"PERIOD", "PLL"}
      BY <1>13 DEF ChooseSource
    <3>. HIDE DEF ModemInv
    <3>. QED BY <3>1
  <2>. QED BY <1>13, <2>1 DEF ChooseSource
<1>14. CASE SetMac
  BY <1>14 DEF SetMac
<1>15. ASSUME NEW result \in {"OK", "CAL_DATA_CHECK_FAIL", "FAIL"}, RegisterPhy(result)
       PROVE  ModemInv'
  BY <1>15 DEF RegisterPhy
<1>16. ASSUME NEW ok \in BOOLEAN, InitInternal(ok)
       PROVE  ModemInv'
  BY <1>16 DEF InitInternal
<1>17. CASE InitSupplicant
  BY <1>17 DEF InitSupplicant
<1>18. CASE SupplicantFails
  BY <1>18 DEF SupplicantFails
<1>19. ASSUME NEW ok \in BOOLEAN, DeinitInternal(ok)
       PROVE  ModemInv'
  BY <1>19 DEF DeinitInternal
<1>20. CASE SetInited
  BY <1>20 DEF SetInited
<1>21. CASE UNCHANGED modemVars
  BY <1>21 DEF modemVars
<1>. HIDE DEF ModemInv
<1>. QED BY <1>1, <1>2, <1>3, <1>4, <1>5, <1>6, <1>7, <1>8, <1>9, <1>10, <1>11, <1>12, <1>13,
            <1>14, <1>15, <1>16, <1>17, <1>18, <1>19, <1>20, <1>21
     DEF ModemNext, Attempt, PowerDomainOn

(* What is up is what the next layer needs, and a retry starts from the same  *)
(* place as the first attempt, the libraries that a failed deinit left up    *)
(* aside.                                                                   *)
THEOREM InitInvHolds == ModemSpec => []InitInv
<1>1. ModemInv => InitInv
  BY DEF ModemInv, LibrariesInStep, InitInv, RetryStartsClean
<1>. QED BY <1>1, ModemBegins, ModemStep, PTL DEF ModemSpec

(* The PHY calibrates with power, clocks, analog bus and MAC in place, from   *)
(* any state of the registers and on every attempt.                         *)
THEOREM CalibratesReadyHolds == ModemSpec => []CalibratesReady
<1>1. ModemInv => CalibratesReady
  BY DEF ModemInv, ModemInStep, CalibratesReady, Cpu, SectionsLoaded, PowerOn, ResetBegun,
         ResetOver, OutOfIsolation, Clocked, BusOpen, SarOn, PeriodChosen, OnPll, MacSet
<1>. QED BY <1>1, ModemBegins, ModemStep, PTL DEF ModemSpec

(* The domain leaves isolation with power and after its reset.               *)
THEOREM IsolationLastHolds == ModemSpec => IsolationLast
<1>. DEFINE Last == iso # iso' => Powered /\ fresh /\ "MODEM_RESET" \notin rst
<1>1. ModemInv /\ [ModemNext]_modemVars => [Last]_<<pwc, iso, clk, rst>>
  <2>. SUFFICES ASSUME ModemInv, ModemNext \/ UNCHANGED modemVars, iso # iso'
                PROVE  Powered /\ fresh /\ "MODEM_RESET" \notin rst
    OBVIOUS
  <2>1. LeaveIsolation
    BY DEF modemVars, registers, software, ModemNext, EspWifiInit, Attempt,
           PowerDomainOn, RegisterPhy, InitInternal,
           CopySections, PowerUp, CommonClockOn, AssertReset, ReleaseReset,
           LeaveIsolation, CommonClockOff, ClocksOn, OpenAnalogBus, SarUp,
           ChoosePeriod, ChooseSource, SetMac, InitSupplicant,
           SupplicantFails, DeinitInternal, SetInited
  <2>. QED BY <2>1 DEF LeaveIsolation, At, ModemInv, ModemInStep, PowerOn, ResetBegun,
                       ResetOver, OutOfIsolation
<1>. QED BY <1>1, ModemBegins, ModemStep, PTL DEF ModemSpec, IsolationLast
==============================================================================
