------------------------------- MODULE IntLock -------------------------------
(***************************************************************************)
(* The interrupt locks: phy_enter_critical() and phy_exit_critical() of      *)
(* rtems_esp_glue.c, rtems_wifi_int_disable() and rtems_wifi_int_restore()   *)
(* of rtems_wifi_os_adapter.c.  Both keep the interrupt level they found in  *)
(* one context per lock and hand the caller a zero.                         *)
(*                                                                          *)
(* One CPU.  The task that runs, or the interrupt handler on top of it,      *)
(* enters sections and leaves the one it entered last.  A section may be of  *)
(* a lock that one around it already holds, as the PHY's one lock is when    *)
(* libphy nests its sections: on one CPU the acquire only disables           *)
(* interrupts, and the inner entry overwrites the level of the outer one.    *)
(***************************************************************************)
EXTENDS Sequences, SequencesExt, Integers

CONSTANTS
  Locks,    \* the PHY's lock and the spin locks of the libraries
  MaxDepth  \* bound: sections open at once in one context

ASSUME IntLockAssumption == MaxDepth \in Nat

VARIABLES
  enabled,  \* interrupts are enabled on the CPU
  context,  \* of each lock: the level its context holds
  inIsr,    \* the interrupt handler runs
  open,     \* of the task and of the handler: its open sections, outermost
            \* first, each with the level its entry found and whether its lock
            \* was entered again inside it
  leftOff   \* history: a section that found interrupts enabled was left after
            \* its lock had been entered again inside it

vars == <<enabled, context, inIsr, open, leftOff>>

Where == IF inIsr THEN "isr" ELSE "task"

(* What a section and the sections around it become on an entry.             *)
Entered(l) == [lock |-> l, found |-> enabled, reused |-> FALSE]

Reused(l) ==
  [i \in DOMAIN open[Where] |->
     [open[Where][i] EXCEPT !.reused = @ \/ open[Where][i].lock = l]]

Init ==
  /\ enabled = TRUE
  /\ context = [l \in Locks |-> TRUE]
  /\ inIsr = FALSE
  /\ open = [w \in {"task", "isr"} |-> <<>>]
  /\ leftOff = FALSE

(* Mutant: the level is read after interrupts were disabled.                *)
EnterSavesMasked(l) ==
  /\ Len(open[Where]) < MaxDepth
  /\ context' = [context EXCEPT ![l] = FALSE]
  /\ enabled' = FALSE
  /\ open' = [open EXCEPT ![Where] = Append(Reused(l), Entered(l))]
  /\ UNCHANGED <<inIsr, leftOff>>

(* rtems_interrupt_lock_acquire( lock, context ).                            *)
Enter(l) ==
  /\ Len(open[Where]) < MaxDepth
  /\ context' = [context EXCEPT ![l] = enabled]
  /\ enabled' = FALSE
  /\ open' = [open EXCEPT ![Where] = Append(Reused(l), Entered(l))]
  /\ UNCHANGED <<inIsr, leftOff>>

(* rtems_interrupt_lock_release( lock, context ).                            *)
Exit ==
  /\ open[Where] # <<>>
  /\ enabled' = context[Last(open[Where]).lock]
  /\ open' = [open EXCEPT ![Where] = Front(@)]
  /\ leftOff' = (leftOff \/ (Last(open[Where]).found /\ Last(open[Where]).reused))
  /\ UNCHANGED <<context, inIsr>>

(* An interrupt is taken only while they are enabled; the hardware masks them *)
(* for the handler and unmasks them when it returns.                        *)
Interrupt ==
  /\ enabled
  /\ ~inIsr
  /\ inIsr' = TRUE
  /\ enabled' = FALSE
  /\ UNCHANGED <<context, open, leftOff>>

InterruptReturns ==
  /\ inIsr
  /\ open["isr"] = <<>>
  /\ inIsr' = FALSE
  /\ enabled' = TRUE
  /\ UNCHANGED <<context, open, leftOff>>

Next == (\E l \in Locks : Enter(l)) \/ Exit \/ Interrupt \/ InterruptReturns

Spec == Init /\ [][Next]_vars
------------------------------------------------------------------------------
(* Every variable stays in its range.                                       *)
TypeOK ==
  /\ enabled \in BOOLEAN
  /\ context \in [Locks -> BOOLEAN]
  /\ inIsr \in BOOLEAN
  /\ open \in [{"task", "isr"} ->
               Seq([lock : Locks, found : BOOLEAN, reused : BOOLEAN])]
  /\ leftOff \in BOOLEAN

(* The one context of a lock holds the level that the entry of its open      *)
(* section found, whatever the sections inside and the handlers before did,  *)
(* until the lock is entered again inside: then it holds "disabled".         *)
ContextHolds ==
  \A w \in {"task", "isr"} : \A i \in DOMAIN open[w] :
    context[open[w][i].lock] = (open[w][i].found /\ ~open[w][i].reused)

(* Nothing interrupts a section: not the inner exit of nested sections, of    *)
(* one lock or of several, and no handler with sections of its own.         *)
SectionsAreMasked ==
  \A w \in {"task", "isr"} : open[w] # <<>> => ~enabled /\ Where = w

(* A section found interrupts disabled if it is inside another or in the     *)
(* handler; the outermost of the task found them enabled until a section     *)
(* was left that had been nested in its own lock.                            *)
FoundByPlace ==
  \A w \in {"task", "isr"} : \A i \in DOMAIN open[w] :
    open[w][i].found <=> i = 1 /\ w = "task" /\ ~leftOff

(* Outside sections and the handler interrupts are enabled, and the one thing *)
(* that leaves them off for good, so that no handler runs any more, is a     *)
(* section nested in its own lock.                                           *)
OffIsExplained ==
  /\ enabled <=> ~inIsr /\ open["task"] = <<>> /\ ~leftOff
  /\ leftOff => ~inIsr

(* The parts together are inductive.                                        *)
LockInv ==
  TypeOK /\ ContextHolds /\ SectionsAreMasked /\ FoundByPlace /\ OffIsExplained

(* Leaving a section gives back the level its entry found, unless its lock   *)
(* was entered again inside it: the one context has lost that level by then, *)
(* and interrupts stay off.                                                  *)
ExitRestores ==
  [][\A w \in {"task", "isr"} :
       Len(open'[w]) < Len(open[w]) =>
         enabled' = (Last(open[w]).found /\ ~Last(open[w]).reused)]_vars
==============================================================================
