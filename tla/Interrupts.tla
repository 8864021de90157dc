----------------------------- MODULE Interrupts ------------------------------
(***************************************************************************)
(* The interrupts of the radio: the channel table of                        *)
(* rtems_wifi_os_adapter.c, the trampoline that RTEMS calls for a source,    *)
(* and the critical sections of IntLock that hold interrupts off.            *)
(*                                                                          *)
(* The libraries call set_intr, set_isr and ints_on in this order, and       *)
(* ints_off before clear_intr or another set_isr.  An interrupt may come     *)
(* between any two stores, unless a section is open.                        *)
(***************************************************************************)
EXTENDS IntLock

CONSTANTS
  Sources,    \* peripheral interrupt sources, which are RTEMS vectors
  Channels,   \* RTEMS_WIFI_INTR_CHANNELS of them
  CallbacksOf, \* of each channel: what set_isr is given for it, each a handler
               \* together with its argument
  None        \* no handler, no argument, no source, no call

Callbacks == UNION {CallbacksOf[c] : c \in Channels}

(* What a set_isr call under way is: its channel, what it stores, its next   *)
(* step.                                                                    *)
SetIsrCalls ==
  [channel : Channels, callback : Callbacks, step : {"argument", "install"}]

ASSUME InterruptsAssumption ==
  /\ Sources # {}
  /\ None \notin Sources /\ None \notin Callbacks /\ None \notin SetIsrCalls

VARIABLES
  source,     \* rtems_wifi_intr_source[]
  mapped,     \* the channels with rtems_wifi_intr_mapped[]
  handler,    \* rtems_wifi_intr_handler[]: the callback it is the handler of
  argument,   \* rtems_wifi_intr_arg[]: the callback it is the argument of
  state,      \* where the libraries are with each channel
  setting,    \* the set_isr call under way
  installed,  \* pairs of a source and the channel RTEMS calls the trampoline with
  unmasked,   \* sources whose vector is enabled
  asserted,   \* sources that request an interrupt
  serving,    \* the source the interrupt handler was entered for
  toCall      \* channels whose trampoline it has yet to call

table == <<source, mapped, handler, argument>>
irq == <<installed, unmasked>>
isr == <<serving, toCall>>
routing == <<table, state, setting, irq, asserted, isr>>
intrVars == <<vars, routing>>

IntrInit ==
  /\ Init
  /\ source = [c \in Channels |-> CHOOSE s \in Sources : TRUE]
  /\ mapped = {}
  /\ handler = [c \in Channels |-> None]
  /\ argument = [c \in Channels |-> None]
  /\ state = [c \in Channels |-> "free"]
  /\ setting = None
  /\ installed = {} /\ unmasked = {} /\ asserted = {}
  /\ serving = None /\ toCall = {}

------------------------------------------------------------------------------
(* The task of the libraries that looks after its interrupts.               *)
TaskRuns == ~inIsr /\ setting = None

(* rtems_wifi_set_intr(): the source and the flag; the priority it passes on *)
(* is left out.  No two channels are given one source at a time.             *)
SetIntr(c, s) ==
  /\ TaskRuns
  /\ state[c] = "free"
  /\ \A d \in mapped : source[d] # s
  /\ source' = [source EXCEPT ![c] = s]
  /\ mapped' = mapped \union {c}
  /\ state' = [state EXCEPT ![c] = "routed"]
  /\ UNCHANGED <<vars, handler, argument, setting, irq, asserted, isr>>

(* rtems_wifi_clear_intr(): the flag only.                                  *)
ClearIntr(c) ==
  /\ TaskRuns
  /\ state[c] = "off"
  /\ mapped' = mapped \ {c}
  /\ state' = [state EXCEPT ![c] = "free"]
  /\ UNCHANGED <<vars, source, handler, argument, setting, irq, asserted, isr>>

(* rtems_wifi_set_isr(): two stores, then the trampoline is installed.       *)
SetsIsr(c) ==
  /\ TaskRuns
  /\ state[c] \in {"routed", "off"}
  /\ c \in mapped

(* Mutant: the trampoline is installed before the argument is stored.       *)
StoreHandlerThenInstall(c, f) ==
  /\ SetsIsr(c)
  /\ handler' = [handler EXCEPT ![c] = f]
  /\ setting' = [channel |-> c, callback |-> f, step |-> "argument"]
  /\ installed' = installed \union {<<source[c], c>>}
  /\ unmasked' = unmasked \union {source[c]}
  /\ UNCHANGED <<vars, source, mapped, argument, state, asserted, isr>>

StoreHandler(c, f) ==
  /\ SetsIsr(c)
  /\ handler' = [handler EXCEPT ![c] = f]
  /\ setting' = [channel |-> c, callback |-> f, step |-> "argument"]
  /\ UNCHANGED <<vars, source, mapped, argument, state, irq, asserted, isr>>

Setting(step) == ~inIsr /\ setting # None /\ setting.step = step

StoreArgument ==
  /\ Setting("argument")
  /\ argument' = [argument EXCEPT ![setting.channel] = setting.callback]
  /\ setting' = [setting EXCEPT !.step = "install"]
  /\ UNCHANGED <<vars, source, mapped, handler, state, irq, asserted, isr>>

(* rtems_interrupt_handler_install(): the first entry of a vector enables    *)
(* it; an entry that is there already is RTEMS_TOO_MANY and changes nothing. *)
Install ==
  /\ Setting("install")
  /\ LET c == setting.channel
         s == source[c]
     IN  /\ installed' = installed \union {<<s, c>>}
         /\ unmasked' = IF \E d \in Channels : <<s, d>> \in installed
                        THEN unmasked ELSE unmasked \union {s}
         /\ state' = [state EXCEPT ![c] = "attached"]
  /\ setting' = None
  /\ UNCHANGED <<vars, table, asserted, isr>>

(* The BSP has no such vector: reported, and the channel is left as it is.   *)
InstallFails ==
  /\ Setting("install")
  /\ <<source[setting.channel], setting.channel>> \notin installed
  /\ state' = [state EXCEPT ![setting.channel] = "off"]
  /\ setting' = None
  /\ UNCHANGED <<vars, table, irq, asserted, isr>>

(* The libraries switch on the channels they have attached, in a mask that   *)
(* may cover others they have not claimed.                                  *)
Mask == {m \in SUBSET Channels : \A c \in m : state[c] # "routed"}

SourcesOf(mask) == {source[c] : c \in mask \intersect mapped}

Switched(mask, to) ==
  [c \in Channels |-> IF c \in mask \intersect mapped THEN to ELSE state[c]]

(* Mutant: the loop ends at the first channel that is not mapped.            *)
IntsOnAllOrNone(mask) ==
  /\ TaskRuns
  /\ unmasked' = IF mask \subseteq mapped THEN unmasked \union SourcesOf(mask) ELSE unmasked
  /\ state' = Switched(mask, "on")
  /\ UNCHANGED <<vars, table, setting, installed, asserted, isr>>

(* rtems_wifi_ints_on() and rtems_wifi_ints_off(); an interrupt between two  *)
(* channels of a mask is one between two calls.                             *)
IntsOn(mask) ==
  /\ TaskRuns
  /\ unmasked' = unmasked \union SourcesOf(mask)
  /\ state' = Switched(mask, "on")
  /\ UNCHANGED <<vars, table, setting, installed, asserted, isr>>

IntsOff(mask) ==
  /\ TaskRuns
  /\ unmasked' = unmasked \ SourcesOf(mask)
  /\ state' = Switched(mask, "off")
  /\ UNCHANGED <<vars, table, setting, installed, asserted, isr>>

------------------------------------------------------------------------------
(* The hardware and the interrupt handler on top of the task.  A request of a *)
(* source that no channel has is masked: it may as well come when one has.   *)
Request(s) ==
  /\ s \in SourcesOf(Channels)
  /\ asserted' = asserted \union {s}
  /\ asserted' # asserted
  /\ UNCHANGED <<vars, table, state, setting, irq, isr>>

Deliver(s) ==
  /\ Interrupt
  /\ s \in asserted \intersect unmasked
  /\ serving' = s
  /\ toCall' = {c \in Channels : <<s, c>> \in installed}
  /\ UNCHANGED <<table, state, setting, irq, asserted>>

(* rtems_wifi_intr_trampoline(): a channel without a handler is passed over; *)
(* a handler serves the request of its source.                              *)
Trampoline(c) ==
  /\ inIsr
  /\ c \in toCall
  /\ toCall' = toCall \ {c}
  /\ asserted' = IF handler[c] = None THEN asserted ELSE asserted \ {serving}
  /\ UNCHANGED <<vars, table, state, setting, irq, serving>>

IsrReturns ==
  /\ InterruptReturns
  /\ toCall = {}
  /\ serving' = None
  /\ UNCHANGED <<table, state, setting, irq, asserted, toCall>>

(* The task, or a handler, enters and leaves critical sections.              *)
MaySection == (inIsr \/ setting = None) /\ UNCHANGED routing

Section == MaySection /\ (Exit \/ \E l \in Locks : Enter(l))

LeaveSection(depth) == MaySection /\ Len(open[Where]) = depth /\ Exit

SetIsrGoesOn == StoreArgument \/ Install \/ InstallFails

IntrNext ==
  \/ \E c \in Channels :
       \/ \E s \in Sources : SetIntr(c, s)
       \/ \E f \in CallbacksOf[c] : StoreHandler(c, f)
       \/ ClearIntr(c) \/ Trampoline(c)
  \/ SetIsrGoesOn
  \/ \E mask \in Mask : IntsOn(mask) \/ IntsOff(mask)
  \/ \E s \in Sources : Request(s) \/ Deliver(s)
  \/ IsrReturns \/ Section

IntrSpec == IntrInit /\ [][IntrNext]_intrVars

(* Sections end, handlers return, and the interrupt controller delivers a    *)
(* request that stays enabled again and again.                              *)
IntrFairSpec ==
  /\ IntrSpec
  /\ \A depth \in 1..MaxDepth : SF_intrVars(LeaveSection(depth))
  /\ WF_intrVars(\E c \in Channels : Trampoline(c))
  /\ SF_intrVars(IsrReturns)
  /\ \A s \in Sources : SF_intrVars(Deliver(s))
  /\ WF_intrVars(SetIsrGoesOn)
------------------------------------------------------------------------------
(* Every variable stays in its range, and the interrupt handler is there for *)
(* a source exactly while it runs.                                          *)
RoutingTypeOK ==
  /\ source \in [Channels -> Sources]
  /\ mapped \subseteq Channels
  /\ handler \in [Channels -> Callbacks \union {None}]
  /\ argument \in [Channels -> Callbacks \union {None}]
  /\ state \in [Channels -> {"free", "routed", "attached", "on", "off"}]
  /\ setting \in SetIsrCalls \union {None}
  /\ installed \subseteq Sources \X Channels
  /\ unmasked \subseteq Sources /\ asserted \subseteq Sources
  /\ serving \in Sources \union {None}
  /\ toCall \subseteq Channels /\ (toCall # {} => inIsr)
  /\ inIsr <=> serving # None

(* The table: a vector is open only for the one channel that has its source   *)
(* and was attached or switched on; a set_isr call is made on a channel that *)
(* is neither; and every other channel that was ever attached has a handler  *)
(* and the argument that goes with it.                                      *)
Routed == \A c \in Channels : c \in mapped <=> state[c] # "free"

OwnSource == \A c, d \in mapped : source[c] = source[d] => c = d

OpenIsTaken ==
  \A s \in unmasked : \E c \in mapped : source[c] = s /\ state[c] \in {"attached", "on"}

SettingIsShut ==
  setting # None =>
    /\ state[setting.channel] \in {"routed", "off"}
    /\ handler[setting.channel] = setting.callback
    /\ setting.step = "install" => argument[setting.channel] = setting.callback

Paired ==
  \A c \in Channels :
    /\ state[c] \in {"attached", "on", "off"}
    /\ setting = None \/ setting.channel # c
    => handler[c] # None /\ handler[c] = argument[c]

RoutingInv == Routed /\ OwnSource /\ OpenIsTaken /\ SettingIsShut /\ Paired

(* The table and the critical sections keep their invariants while tasks and *)
(* interrupts change both.                                                  *)
InterruptsInv == RoutingTypeOK /\ RoutingInv /\ LockInv

(* Nothing takes the trampoline off a source a channel was routed to before: *)
(* the source still calls the channel, which by now may have another one.    *)
Stale(c) == \E s \in Sources : <<s, c>> \in installed /\ (s # source[c] \/ c \notin mapped)

(* A handler is called with its own argument, for the source its channel is  *)
(* routed to, and never between ints_off and the next ints_on, though the    *)
(* handler and its argument are two stores and the first install opens the   *)
(* vector: unless the channel has been cleared or routed elsewhere since.    *)
CallsAreOwn ==
  \A c \in toCall :
    ~Stale(c) =>
      /\ handler[c] # None /\ handler[c] = argument[c]
      /\ source[c] = serving
      /\ state[c] \in {"attached", "on"}

(* A request on a channel that is on is served, unless the channel is        *)
(* switched off first: no source is left masked or without its handler, and  *)
(* no section keeps interrupts off for ever but one that is left after its    *)
(* lock was entered again inside it.                                         *)
Live(s) == \E c \in mapped : source[c] = s /\ state[c] = "on" /\ <<s, c>> \in installed

RequestIsServed ==
  \A s \in Sources :
    s \in asserted /\ Live(s) ~> s \notin asserted \/ ~Live(s) \/ leftOff
==============================================================================
