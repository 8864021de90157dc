# A TLA+ model of the ESP32-C3 WiFi port for RTEMS

The repository joins Espressif's closed radio libraries ("the blob") and lwIP to
RTEMS.  The C in `src/src` is what the libraries call instead of FreeRTOS and
ESP-IDF, and what lwIP calls instead of an Ethernet driver.  It is small and almost
all of it is concurrent: the WiFi task, the RTEMS timer server, the event task,
lwIP's tcpip thread, application tasks and interrupt handlers meet in it.

These modules model that code, TLC checks them on small instances, and TLAPS proves
every safety property that a run checks, for all sizes.

    tlc -workers 2 -config MCEventLoop.cfg MCEventLoop     # about 90 s
    tlapm EventLoopProofs.tla

Line numbers below are of `src/src/rtems_esp_event.c` ("event.c"),
`rtems_esp_netif.c` ("netif.c"), `rtems_wifi_os_adapter.c` ("os_adapter.c"),
`rtems_esp_wifi_init.c` ("wifi_init.c") and `rtems_esp_glue.c` ("glue.c").

## 1. Inventory

| Component | State it keeps | Operations | Hard behaviour |
|---|---|---|---|
| Event loop (event.c) | handler table, message queue, recursive mutex, event task | post, register, unregister, dispatch | callers and handlers edit the table a pass walks; full queue; calls from inside a handler |
| Event loop creation (event.c 213-281) | three object ids | `rtems_esp_event_start()` on first use | failure of any of four creations, retry, two first callers |
| Netif receive (netif.c 304-357) | counters; handles lent by the radio; pbufs; tcpip mailbox | `rtems_esp_netif_input()` | three finite pools, every error path owes the handle |
| Netif transmit (netif.c 172-241) | one staging buffer and its mutex, counters | `rtems_esp_netif_linkoutput()` | overlapping senders, early return with the mutex, lost increments |
| Netif link (netif.c 426-592) | `added`, `attached`, the radio's one callback, lwIP's flags | start, stop, reattach, the WiFi event handler | events and core calls pass two queues; the radio replaces the callback; the application reattaches meanwhile |
| Bring-up (wifi_init.c) | registers of the modem, sections, `rtems_wifi_inited` | `esp_wifi_init()` | order of some twenty register writes, failure in the middle, retry |
| osi event groups (os_adapter.c 827-1013) | bits, mutex, condition variable | create, set, clear, wait | one broadcast, many rules, clear-on-exit, timeouts |
| osi ETS timers (os_adapter.c 1017-1223) | five words per timer, an RTEMS timer | setfn, arm, disarm, done, the server routine | the callback edits its own timer, the caller preempts the server |
| osi queues (os_adapter.c 387-600) | wrapper, static wrapper, RTEMS queue | create, send (3 variants, and from an interrupt), receive, delete | partial creation, full queue, urgent order, timeout |
| osi interrupt locks and PHY section (os_adapter.c 120-193, glue.c 108-150) | one saved level per lock | disable/enter, restore/exit | nesting, interrupt handlers |
| osi interrupt routing (os_adapter.c 1226-1388) | channel table: source, mapped, handler, argument | set_intr, clear_intr, set_isr, ints_on/off, trampoline | two-store updates under a live interrupt, stale routes |
| osi semaphores and tasks (os_adapter.c 206-325, 602-705) | a POSIX key: one semaphore per thread | create, take, give, delete; task create and delete | ids used again, late answers, a key that keeps nothing, a task that cannot be started |
| osi mutexes (os_adapter.c 326-385) | none | one RTEMS call each | - |
| Example (examples/wifi-net/init.c) with `rtems_esp_netif_add()` (netif.c 595-692) | event counters, the list of checks; `added`, the published driver and interface | the Init task from the first registration to the transmits | checks that look at what other tasks write; a run that goes on after a failure; an attachment that must be made again |
| osi heap, time, random, chip, coexistence, table | none | forwarding, registers | - |
| glue, headers, examples, tools | none | libc and log forwarding, configuration, host scripts | - |

### How they interact

    radio libraries --osi table--> event groups, ETS timers, queues, int locks, tasks
          | post                                            (os_adapter.c)
          v
    event queue -> event task -> handlers: application, supplicant,
                                 rtems_esp_netif_on_wifi_event()
                                       | start / stop / link up / link down
                                       v
    radio <-- reg_rxcb, tx --- netif --- tcpip_callback() ---> tcpip thread (lwIP)
          --- rx callback --> rtems_esp_netif_input() -- mailbox --> tcpip thread

The event loop is the centre: everything the radio tells the rest of the system goes
through it, and the link state is a chain of two bounded queues behind it.

### What makes each part correct

* Event loop: accepted events are dispatched in order; each subscription owed an event
  hears it once; nobody but the running handler changes the table during a pass; after
  unregister returns, the handler is not running and cannot be called; nothing blocks for ever.
* Creation: all or nothing, whatever fails; an accepted event has a task that serves it.
* Receive: a handle goes back once on every path; no pbuf is lost; each frame is counted once.
* Transmit: a frame is one thread's frame; the staging mutex is released on every path.
* Link: once the queues are empty the interface is where the radio is.
* Bring-up: the PHY calibrates only when everything it needs is on, and a failed attempt
  leaves a state the next one can start from.
* Event groups: no task sleeps on a satisfied mask; a set reaches every waiter it satisfies; no false timeouts.
* ETS timers: a disarm is final, a periodic timer keeps its period, one RTEMS timer each.
* Queues: an accepted message is delivered or discarded with its queue, once.
* Locks: a section is never interrupted and restores what it found, when sections nest and handlers have their own.
* Interrupt routing: a handler is called with its own argument, for its own source, while it is on;
  a request on a channel that is on is served.
* WiFi task: a start is whole or leaves nothing; an answer reaches the thread that asked.
* Example: a check that fails tells of something outside the port.

## 2. Plan

Built, in this order (each is finished before the next was begun):

1. `EventLoop`, `MCEventLoop`; the abstract `EventBus` and the refinement; proofs.
2. `EventStart`.
3. `NetifRx`, `NetifTx`, `NetifLink`.
4. `EventGroup`, `EtsTimer`, `OsQueue`, `IntLock`.
5. `WifiInit`.
6. Compositions: `Interrupts` over `IntLock`, `WifiTask` over `OsQueue`, `WifiNet` over `NetifLink`.
7. Proofs, in a module per part of the system: `EventLoopProofs`, `StartupProofs` (creation and
   bring-up), `NetifRxProofs`, `NetifTxProofs`, `WifiNetProofs` (link and example), `AdapterProofs` (ETS
   timers and event groups), `InterruptsProofs` (sections and routing), `WifiTaskProofs` (queue and task).

A composed module EXTENDS the one it is built on and takes its actions as they are; the run of the
composition checks the properties of both.

Left: `WifiNet` under fairness (the run of the example ends), and a second timer beside the first
in `EtsTimer`, which shares nothing with it but the server.

## 3. Modules

### EventLoop, EventBus, MCEventLoop

`EventLoop` is event.c with creation as one step of the first call.  A thread is a client
(WiFi task, supplicant, application) or the event task, which is also a caller while one
of its handlers runs.

| Code | Model |
|---|---|
| `rtems_esp_event_handlers[]` | `table`, a subscription or `None` per slot |
| `rtems_esp_event_queue`, `_mutex` | `queue`; `owner` and `depth` (RTEMS makes an inheriting binary semaphore recursive) |
| `rtems_esp_event_body()`, `_dispatch()` | `phase` (receive, obtain, scan, handler), `msg`, `slot` = the loop index, `running` |
| `rtems_esp_event_post()` | `Post`: append or drop |
| register, unregister | `CallRegister`/`CallUnregister`, `ObtainForEdit`, `Register`/`Unregister` |

The walk of the table is one step per slot, the handler call and return are separate
steps, and between them the handler may make any call.  The edit of the table is one step,
as the mutex makes it.  Messages are records of a base and an id; their data is left out.

`EventBus` is the promise without mutex or scan: pending events in order, one active, a
set of places still owed it.  `EventLoop` implements it (`ImplementsBus`): an event taken
but not yet locked for is still pending, and the places owed are the matching slots the scan
has yet to reach.  A subscription made by a handler during a pass may or may not be
owed the active event, depending on the slot: the code promises neither.

### EventStart

`rtems_esp_event_start()` one RTEMS call at a time.  Objects are numbered; `live` says which
exist, so that an error path that forgets one, or an id that outlives its object, shows.  The
body of each event task reads the global queue id before each receive, as the code does.

### NetifRx, NetifTx, NetifLink

`NetifRx`: `rtems_esp_netif_input()` in its three commented steps (copy, release, deliver)
against the tcpip thread, which drains the mailbox and frees pbufs between any two of them.
`tcpip_input()` may refuse for want of a message as well as of room, so `StackBusy` is
always possible.  Frame contents are left out; a frame is good or bad (no data, no length,
too long).

`NetifTx`: copy and transmit are two steps each, one per half of the frame, and an increment
is a load and a store.  Whether lwIP's core lock serialises the callers is a variable that
never changes (`coreLocked`), so one run covers both configurations.  The obtain of the
staging mutex does not fail: `rtems_esp_netif_add()` gives no interface without it.

`NetifLink`: the radio, the event queue, the event task inside
`rtems_esp_netif_on_wifi_event()`, the application inside `rtems_esp_netif_reattach()`, the
tcpip mailbox.  A call is a sequence of steps still to do, each one access to
shared state; an early return empties it.  The radio's own callback (`DriverClaims`) may
replace the port's at any time after an association, as the comment at netif.c 469-488 reports.
A stop asks for the callback to be unregistered, hands the answer on and acts on none (538-547), and step8-netif.md 379-383
calls the request itself unverified, so after `Detach` the slot is empty or still holds what it held
(`rxcb = "left"`); the driver may refuse every attach as well.
What the application calls (stop, reattach, or both) is a variable that never changes.

### EventGroup, EtsTimer

`EventGroup`: what the code does under the mutex is one step; tasks in `look` compete for the
mutex.  Spurious wakeups are included.  `owed` is a history: who was satisfied by a set, or by the bits it
found, and has lost none of them to a clear since.  Create and delete are the ends of the group's life: the
comment at os_adapter.c 866-870 makes it the callers' duty that nobody waits then.

`EtsTimer`: a call is a sequence of steps, each one word or one RTEMS call.  `callerIsAbove`
says whether the caller preempts the timer server; both are explored.  The libraries own the
timer's memory: nobody frees a timer another call is using, and none is made anew meanwhile.
The callback and its argument are two words, stored and read one at a time.

### IntLock, Interrupts, MCInterrupts

`IntLock`: `Enter` saves the level into the lock's one context, `Exit` restores from it.  Any lock may be
entered inside any section, its own included: the PHY has one lock and its sections nest (glue.c 111).  A
record in `open` keeps what the entry found and whether the lock was entered again inside (`reused`), the
history `leftOff` that a section was left whose level had been overwritten so.

`Interrupts` puts the channel table on top of it.

| Code | Model |
|---|---|
| `rtems_wifi_intr_source[]`, `_mapped[]`, `_handler[]`, `_arg[]` | `source`, `mapped`, `handler`, `argument` |
| the call of set_isr under way | `setting`: `StoreHandler`, `StoreArgument`, `Install` or `InstallFails` |
| set_intr, clear_intr, ints_on, ints_off | `SetIntr`, `ClearIntr`, `IntsOn`, `IntsOff` |
| the trampoline | `Trampoline`, one channel of `toCall` at a time |
| RTEMS: the handler list of a vector, its enable bit | `installed`, `unmasked` (external) |
| the hardware | `asserted`, `Deliver`; the level is `IntLock`'s `enabled` |

A handler and its argument are one value, the callback they belong to, so that a mixed pair shows; each
channel has callbacks of its own (`CallbacksOf`, given in `MCInterrupts`).
The libraries' order of calls is in the guards, not in the code (1251-1341): `state` of a channel is where they are with it.
They attach no channel that is on and give no source to two channels at a time.

### OsQueue, WifiTask

`OsQueue`: the owner creates and deletes step by step, with any allocation failing; senders
and receivers use the queue only while it is there, which is the libraries' duty.

`WifiTask` is the libraries' use of it: they make the queue, then the task; a thread gets its own
semaphore, posts a request that carries it, and takes it; the task answers by a give.

| Code | Model |
|---|---|
| `rtems_wifi_task_create()`, `_delete()` | `CreateTask`, `StartTask`, `PublishHandle` and their failures; the end of `Answer` |
| `rtems_wifi_thread_semphr_get()` and the key's destructor | `GetOwn`, `CreateSemaphore`, `KeepSemaphore` and their failures; `ThreadEnds` |
| `rtems_wifi_semphr_take()`, `_give()` | `Take`, `TakeFails`; in `Answer` |
| `rtems_wifi_queue_send*()`, `_recv()` | `OsQueue`'s `Send*` inside `Ask`, `Receive` inside `Listen` |

RTEMS ids are used again: a semaphore that is made takes any id that is free, so an answer to a
thread that is gone may find another's semaphore.  The protocol of post and answer is the
libraries', and marked external in PROJECT.json where no line of the port says it.

### WifiInit

`esp_wifi_init()` as a walk through its register writes and calls.  A register is the set
of its named bits that are on, and `other` for those of other drivers; what
the boot ROM left in them is arbitrary.  The deinit after a failed supplicant may fail too, and its result is
discarded (813): the libraries then stay up, which the history `leftUp` records.  Debug probes and the watchdog switch-off are left out.

### WifiNet

One run of the example, from the registration of its handler to the two transmits, with
`rtems_esp_netif_add()` in its five steps; the radio, event task, tcpip thread and the
reattach are `NetifLink`'s actions.  `pc` is the line the Init task is at, `seen` the counters
its handler increments (they never go back), `failed` the checks that failed.

A wait of some seconds is a wait until nothing is left to do (`Settled`): the comments at
init.c 629-632 give that as its purpose.  It does not wait for the radio, so a verdict may come
later.  Init is the highest priority task, so that no other runs until it waits; the model
lets the others run between any two of its steps, which includes that order.  The probes that are
compiled in by macros and the printout of the counters are left out.

## 4. Runs

Most modules join the type invariant and the structural invariant that the other properties
rest on in one definition (`LoopInv`, `StartInv`, `PbufInv`, `TxInv`, `LinkInv`, `GroupInv`,
`TimerInv`, `InterruptsInv`, `ServiceInv`, `InitInv`, `NetInv`).

| Run | What is asked | Instance | States |
|---|---|---|---|
| `MCEventLoop` | mutual exclusion, final unregister, refinement of the bus, progress | 2 clients, 2 slots, queue of 2, 2 events, 2 subscriptions | 78 k |
| `EventStart` | all-or-nothing creation, accepted events served | 1 caller, 9 objects, 2 failures | 0.7 k |
| `EventStartRace` | two first callers: **violated** | 2 callers, 6 objects | |
| `NetifRx` | handle contract, pbuf conservation, accounting | 2 handles, 2 pbufs, mailbox of 1, 4 frames | 1.1 k |
| `NetifTx` | whole frames, mutex released, counters | 2 threads, 3 frames, both configurations | 15 k |
| `NetifLink` | link and path follow the radio | queue 3, mailbox 2, 5 events, 2 reattaches, 1 refusal | 446 k |
| `WifiNet` | whole or no interface, the client has its path, failed checks have a cause | queue 2, mailbox 2, 4 events, 2 refusals | 15 k |
| `EventGroup` | no satisfied sleeper, a set reaches all, no false timeout, progress | 2 tasks, 2 bits, all waits | 18 k |
| `EtsTimer` | disarm, stale ids, one timer, own argument, progress | 1 timer, 2 RTEMS timers, both priorities | 35 k |
| `MCInterrupts` | levels restored, own handler and argument, requests served | 2 channels, 2 sources, 3 callbacks, 1 lock that nests in itself | 291 k |
| `WifiTask` | whole start, accepted messages, own answers, progress | 2 threads, 2 semaphores, queue of 1, 3 requests | 268 k |
| `WifiInit` | order, retry, shared bits | 3 calls, any initial registers | 355 k |

Why the bounds are enough.  Two slots let a handler be in front of and behind the scan, and
the table be full; a queue of two has an empty, a partial and a full state; the second
client makes one caller wait while the other holds the mutex.  In `NetifRx` the pool runs dry with
two pbufs and the mailbox fills with one; four frames let each refused frame be followed by
a good one.  Five events let the radio start, connect, disconnect and
stop with one to spare, more than its queue holds.  Two tasks and two bits give waiters that overlap
in a bit and differ in another, `all` and `any`.  Three `esp_wifi_init()` calls are a failure, a success and a repeat.
Two channels over two sources let one take the source the other had, and leave both with
a trampoline on the same vector, and two callbacks of one let a handler meet the argument of the other.  One
lock at depth two is the PHY's nested section; sections of several locks, in any depth, are in the proofs.  Two
semaphores let an id be used again while another is in use, a queue of one is full with one request
waiting, and three requests are a late answer, the one it is taken for, and the
stop.  The driver posts at most three events in a run of the example (started, the
verdict, an association lost), so the bound of four never binds, and a queue of two can drop one.

Deadlock is checked except where a bound makes the system stop (`NetifRx`, `NetifTx`,
`NetifLink`, `WifiInit`, `WifiTask`), in `WifiNet`, where the run of the example is over, and in
`EtsTimer`, where a timer nobody arms has nothing to do.

### Fairness

RTEMS schedules by priority, nothing modelled runs for ever, and a mutex is handed to its
waiter at release; so a thread inside a call or a pass is fair, and nobody is obliged to
begin a call.

* `EventLoop`: strong fairness of the event task's step (a handler may go on making calls, but
  is expected to return) and of each thread's obtain and edit (the mutex is free again and again).
* `NetifTx`: weak for a thread inside the call, strong for the obtain.
* `NetifLink`: weak for the event task, each thread and the tcpip thread.
* `EventGroup`: weak for a task that wants the mutex; strong for a timed wake, since a deadline
  is a fixed time (line 953) and passes however often the task is woken before.
* `EtsTimer`: time passes, the server runs, calls go on, callbacks return.
* `Interrupts`: sections are left, handlers return and a request that is enabled again and again is
  delivered (strong: each is disabled while an interrupt is on top, but not for ever); the trampoline
  and a set_isr call go on (weak).  Where interrupts were left off (`leftOff`) none of this delivers a
  request, and `RequestIsServed` does not claim it.  Nobody is obliged to attach a channel or switch it on.
* `WifiTask`: the task receives and answers, the libraries finish a start, a thread takes what was
  given to it (weak).  Nobody is obliged to ask, and a thread need not stop waiting.

`EventStart`, `NetifRx`, `WifiInit` and `WifiNet` check safety only: in `EventStart` a caller may
be preempted for ever, and the others wait for nobody or for the radio.

### Findings

* `EventStartRace` (event.c 217): the test of the task id and its assignment are apart.  Two
  tasks that make their first calls together create two loops, though the comment at
  208-212 gives the order of first calls as the application's choice.

### Deviations stated in the properties

These were met while modelling.  The models include the behaviour; the property says
exactly where the promise ends.

* netif.c 491: an application that stops the radio and also reattaches can leave `attached`
  true with no callback installed, against netif.h ("The receive path is installed"), or an
  attached interface down.  `AttachedIsInstalled` (in `LinkInv`), `PathFollowsRadio` and `ReattachKeepsUp`
  except that application.
* netif.c 534: a stop after a refused reattach returns early and leaves the interface up
  (netif.h: "Removes the receive path and takes the interface down").  `PathFollowsRadio` excepts it.
* netif.c 772-783: should the unregistration fail or not be one, the comment relies on
  `rtems_esp_netif_added` being false after a stop, so that the frames are dropped.  It is never cleared: the
  callback left in place goes on handing frames to lwIP.  `PathFollowsRadio` promises what the port does: each
  stop has unregistered the callback (`Registered`), not that the driver let go of it.
* netif.c 310-340: a bad frame is counted as `rx_dropped_bad_frame` and again as
  `rx_dropped_no_pbuf`, which the example reads as frames refused for want of a pbuf.
  `FrameAccounting` states both counts.
* netif.c 232: without lwIP's core lock two increments can be one; `EveryCallCounted` says so.
* event.c 164-170: the comment says a handler that registers would deadlock.  The mutex is
  recursive, so it does not; it edits the table under the scan, which `CallsReturn` and
  `ImplementsBus` show to be harmless.
* netif.c 674-677: the comment says a handler not there when the event is posted never
  hears it.  The table is read at the dispatch, so it does (`EventBus`: `owed` is set in `Begin`).
* os_adapter.c 986: step7-eventgroups.md 21-23 says one set "can satisfy all of them, some of them, or none".
  It reaches all whose rule it meets, unless a waiter that clears on exit has the mutex first and takes a bit
  that another wants: that one sleeps on.  `SetReachesAll` excepts just who lost a bit so.
* os_adapter.c 1112: a caller above the timer server (the WiFi task) that disarms or frees a
  timer between the routine's tests and its re-arm loses: the timer fires once more, or its
  deleted id is used.  `DisarmIsFinal` and `NoStaleId` hold for callers below.
* glue.c 110-121, os_adapter.c 145-150: one context is said to be sound because sections nest.  That is so for
  sections of different locks.  One nested in its own lock, and the PHY has only the one, overwrites the saved
  level, and after the outer exit interrupts stay off, where the comment wants what the outer section found.
  `ContextHolds`, `ExitRestores`, `OffIsExplained` and `RequestIsServed` say so by `reused` and `leftOff`: every other
  nesting restores its level, and nothing else leaves interrupts off.
* wifi_init.c 809-813: "A second esp_wifi_init() after a failure should be able to start from the same place as
  the first".  The result of the deinit that is to see to it is discarded; when it fails, a retry copies the sections
  over libraries that are up.  `RetryStartsClean` (in `InitInv`) excepts that case (`leftUp`).
* os_adapter.c 1289: `clear_intr` takes the flag and nothing else, and `set_intr` moves a channel and
  not its trampoline, so the old vector still calls it with what it now has.  `CallsAreOwn`
  excepts such a channel (`Stale`).
* os_adapter.c 262: a take that timed out leaves its answer to come, and the next take, or
  the next thread with that id, gets it.  `AnswersAreOwn` holds until someone stops waiting
  (`abandoned`).
* os_adapter.c 319: when `pthread_setspecific()` fails the thread gets a new semaphore at each call
  and none is ever freed.  `SemaphoresOwned` (in `ServiceInv`) says so by `unkept`.
* netif.c 638-643: the comment says whatever looks the interface up during `netif_add()` "must find
  it already".  `rtems_esp_netif_get()` (696) answers NULL until `added` is set, after it.
* init.c 937: "Reaching here means the station is associated", but `sta_connected_seen` is never
  reset, so it also gets there when the association was lost in the five seconds before.  `Explained`
  gives that as a cause of the failed check.
* init.c, the transmits: a failed check does not end the run, so after a `netif_add()` that failed
  before its init callback the example calls a `linkoutput` that is NULL (`pc = "fault"`).

## 5. Proofs

| Theorem | Says |
|---|---|
| `EventLoopProofs`: `LoopInvariant` | `LoopInv`: types, mutex, calls, pass |
| `PassOwnsTableHolds`, `UnregisterIsFinalHolds` | the two action properties |
| `LoopImplementsBus` | `Spec => Bus!BusSpec` |
| `StartupProofs`: `StartInvHolds`, `AcceptedIsServedHolds` | creation is all or nothing, with one first caller; what was accepted is served |
| `InitInvHolds`, `CalibratesReadyHolds`, `IsolationLastHolds` | the order of the bring-up and its retry |
| `NetifRxProofs`: `HandlesAreReturned`, `PbufsAreConserved`, `FramesAreAccounted` | the invariants of the receive path |
| `NetifTxProofs`: `StagingLockHolds`, `FramesAreWholeHolds`, `EveryCallCountedHolds` | the staging mutex comes back, frames are whole, calls are counted |
| `WifiNetProofs`: `LinkInvHolds`, `LinkFollowsRadioHolds`, `PathFollowsRadioHolds`, `ReattachKeepsUpHolds` | the interface is where the radio is |
| `NetInvHolds`, `AlarmsAreRealHolds` | the example has its interface and its path, and a failed check has a cause |
| `AdapterProofs`: `TimerInvHolds`, `NoStaleIdHolds`, `DisarmIsFinalHolds`, `CallbackIsOwnHolds` | the ETS timer |
| `NobodySleepsSatisfied`, `SetReachesAllHolds` | `GroupInv` and `SetReachesAll` of the event group |
| `InterruptsProofs`: `LocksHold`, `SectionsRestore`, `InterruptsKeepSections` | the sections, alone and under the interrupts |
| `InterruptsInvHolds`, `CallsAreOwnHolds` | the channel table, and what the trampoline calls |
| `WifiTaskProofs`: `ServiceImplementsQueue`, `AcceptedOnceHolds` | `WifiSpec => Spec` of the queue, and its promise |
| `ServiceInvHolds`, `AnswersAreOwnHolds` | a start is whole, semaphores are owned, an answer reaches who asked |

`AdapterProofs` and `StartupProofs` treat two machines each, which share nothing; each extends both (their
specifications are `Spec` with `GroupSpec`, and `Spec` with `ModemSpec`).

They hold for any set of clients, events, subscriptions, threads, tasks, bits, timers, callbacks, locks, channels,
sources and semaphores, any depth, any number of posts, calls, failures and retries, and any size of tables,
queues, pools and mailboxes, a queue or table of none excepted.  The assumptions are the named ones of the
modules: that sizes and bounds are naturals, that `None` is none of the values it stands beside, that there is
an interrupt source, and that an application has the habits the code knows (`LinkAssumption`); the one of the
example does not stop the radio (`ExampleAssumption`: init.c calls no `esp_wifi_stop()`).  TLC evaluates them
in the runs.  Two theorems have a hypothesis besides: `StartInvHolds` and `AcceptedIsServedHolds` are for one
first caller (`OneCaller`), as two break both (`EventStartRace`).

*Event loop.*  The properties are not inductive: that the table is not changed during a pass
needs that no client is in its edit then, which needs that the mutex says who is inside.
`LoopInv` says that, in three parts besides the types: the mutex is held by exactly the task that
scans or edits and the depth is what it and its handler hold; a request exists exactly while a
call runs, and the event task calls only from a handler; the event task has a message and
an entry in exactly its phases.  It is inductive, action by action.
`PassOwnsTable` follows from the mutex part alone.  `UnregisterIsFinal` needs that `running` is
`None` outside a handler as well.  For the refinement every action maps to one action of the
bus or to a stutter: obtaining the mutex for a pass is `Begin`, a skipped slot a
stutter, the edits are `Subscribe` and `Unsubscribe`, with `MayEdit` from the mutex part.

*Creation.*  Between two steps of a start the objects that exist are those its place in
the code says (`ObjectsInStep`); a failure deletes them, so the next start finds none.  That an accepted
event is served needs that a message is in the loop's own queue and that a task listens to no other
(`OneQueue`), an id not yet handed out included.

*Bring-up.*  What a step has done stays done: no later one touches it again.  `ModemInStep` says so by a
chain of sets of places, each the places at which one thing holds (`PowerOn`, `ResetOver`, ...,
`MacSet`); it is inductive because the walk goes only from a set to a smaller one, or back to the start.
A retry needs that the libraries go down in the reverse order, or are known to have stayed up (`LibrariesInStep`).

*Receive path.*  The type invariant with the three properties is inductive; `refused` is the
one history variable, for the frames that found no pbuf.

*Transmit path.*  `TxInv` needs that only a chain goes near the mutex (`ChainsLock`).  Whole frames
need two facts more: between the copy and the driver's return both halves of the buffer are the
copier's (`StagingIsMine`), and the driver has read nothing of a frame not yet handed to it.  A
write by another thread is excluded because both would hold the mutex (`OneCopier`).
`EveryCallCounted` says less than what happens, for a lost increment leaves no trace in the counters.
`CountInv` says that there are numbers, `owed`, of the calls that ended at each counter: no counter is above its
number, no value loaded is either, and the numbers with the calls under way add up to `calls`.  With
the core lock one call is under way at a time, and each counter is its number but for the one being stored.

*Link.*  What TLC sees once the queues are empty is proved as what the queues will make.
`LinkBecomes` and `IfBecomes` are the flags once the mailbox is empty, `LinkSoFar` and `PathSoFar` the link and
the path once the event task has finished its call; the invariants relate these to the radio when the event
queue is empty and to the event in front otherwise (`LinkChain`, `SoloPath`).  With a reattach the
path has two writers.  If the radio is never stopped, what is wanted only comes (`NeverDown`), and a
record that is discarded is on its way back (`WillAttach` in `KeptPath`); if it is stopped and also reattached
nothing is promised, as in the property.

*Example.*  Its steps are those of the link machine, so `PathInv` carries over (`NetNextKeeps`).  The
radio starts once in a run, so the event of its start is the oldest in the queue and has been dealt with
when the association is seen (`RadioSteps`); that is why the reattach is alone with the record (`PathSteps`).
What a check looks at is there, or its event is on the way, or one of its causes holds (`CheckSteps`).

*ETS timers.*  A call is what is left of its list of steps; no step occurs twice in one, so the next step says how
far the call is (`RestStep`).  Magic, id and RTEMS timer go together but for the time that `done()` takes
between clearing the one and deleting the other (`MagicMeansLive`), and who calls `done()` is alone with
the timer (`Discipline`).  For a caller below the timer server `ServerFirst` adds that it
moves only while the routine is idle or in the callback: what the routine tested stays so
(`TestStands`), and once a call has cancelled the timer nothing is armed during the call and
after it (`QuietDuring`, `QuietAfter`).

*Event groups.*  `GroupInv` is inductive: a broadcast leaves nobody asleep, and every other step
only removes bits, which satisfies no wait that more bits did not (`SatisfiedIsMonotone`).
`SetReachesAll` needs that whoever is owed the bits would find them (`OwedFinds`): what takes a bit away either
wants it no longer or is in nobody's mask who is still owed (`SatisfiedByMask`).

*Interrupts.*  A section restores what it found because the level in a lock's context is the one its
open section recorded until the lock is entered again inside, and "disabled" from then on, as interrupts are
off while any section is open (`ContextHolds`, `SectionsAreMasked`).  No handler comes between, since
it is entered only when the task has no section open, and only the outermost section of the task can have
found interrupts enabled (`FoundByPlace`); so what is lost by a second entry is at most that one level
(`OffIsExplained`).  Every
action of `Interrupts` is one of `IntLock` or leaves its variables alone, so that invariant
carries over.  `RoutingInv` is inductive with it: a vector is open only for an attached channel,
`setting` is made on a channel that is shut, so an interrupt that comes between its two stores does
not call it.  `CallsAreOwn` holds for a channel about to be called because the task does not run
until the handler returns.

*WiFi task.*  Every step of the composition is a step of the queue or leaves it alone
(`StepOfQueue`), whatever fails in the task or the semaphores, so it is enough to prove the promise
of the queue.  Its count is not inductive: what a delete throws away is counted right only if no two
queued messages are the same and none was thrown away before (`Distinct`), which holds
because a send takes an id above all others.

That an answer reaches who asked needs where each semaphore is: owned by one thread, or in the hands of
one that is making or keeping it (`Ownership`).  The history `to` names the semaphore each message asks for;
until someone stops waiting, a thread that has sent is the only one its message names, and either that message
is unanswered and the count zero, or it is answered and the count one (`Answers`).  An id comes free only
with its thread, which is then not waiting.  Which calls can be made is in `Lifecycle`: the task
answers only while its queue is there, and a stop is asked once.

*Only model-checked:* the liveness properties (`PassesEnd`, `CallsReturn` and the like: fairness and ENABLED
are beyond the prover), the fairness of the refinement, which the bus does not state, and the violation that
`EventStartRace` finds.

## 6. Not modelled

* `osi` mutexes, heap, time, random, the inversion of task priorities: one RTEMS call or one line
  of arithmetic each, no shared state.
* Chip access, coexistence, the function table, debug probes, connect and disconnect wrappers:
  straight-line register access, constants or one forwarded call.
* The stubs of the event API, which forward or return a constant.
* glue.c apart from the PHY section, headers, the other examples, tools, linker script: formatting,
  configuration and host code.
* The deletion of an event group under its waiters and the size of a spin lock's allocation: the code
  leaves the first to its callers, the second is not a matter of states.
* The radio libraries, lwIP and RTEMS are outside the repository; they appear as the
  environment's actions, from how the code uses them.
