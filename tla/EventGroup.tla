------------------------------ MODULE EventGroup ------------------------------
(***************************************************************************)
(* The event groups of src/src/rtems_wifi_os_adapter.c: a set of bits under  *)
(* a mutex, and waiters on one condition variable, each with its own mask    *)
(* and its own rule.                                                        *)
(*                                                                          *)
(* The code holds the mutex from a look at the bits to the sleep or the      *)
(* return, so each such section is one step; what interleaves is who gets    *)
(* the mutex next after a broadcast.                                        *)
(***************************************************************************)
EXTENDS Integers, FiniteSets

CONSTANTS
  Tasks,  \* tasks that wait
  Bits    \* bits of the group

(* A timed wait has a deadline; "poll" is a block_time_tick of zero.         *)
Blocks == {"poll", "timed", "forever"}

Waits == [mask : SUBSET Bits \ {{}}, all : BOOLEAN, clear : BOOLEAN, block : Blocks]

NoWait == [mask |-> {}, all |-> FALSE, clear |-> FALSE, block |-> "poll"]

VARIABLES
  bits,      \* g->bits
  state,     \* of each task: in a wait (look: wants the mutex; asleep), or
             \* how its last wait ended (met, gaveUp)
  wait,      \* the wait it is making
  timedOut,  \* timed_out of that wait
  owed       \* history: the tasks in a wait that a set, or the bits it found,
             \* satisfied and of whose bits none was taken away since

task == <<state, wait, timedOut>>
groupVars == <<bits, task, owed>>

GroupInit ==
  /\ bits = {}
  /\ state = [t \in Tasks |-> "met"]
  /\ wait = [t \in Tasks |-> NoWait]
  /\ timedOut = [t \in Tasks |-> FALSE]
  /\ owed = {}

SatisfiedBy(w, value) == IF w.all THEN w.mask \subseteq value ELSE w.mask \intersect value # {}

Satisfied(t) == SatisfiedBy(wait[t], bits)

Out == {"met", "gaveUp"}

Asleep == {t \in Tasks : state[t] = "asleep"}

(* The waits that a set of bits satisfies, and those that lose one of theirs. *)
SatisfiedWith(value) == {t \in Tasks : state[t] \notin Out /\ SatisfiedBy(wait[t], value)}

Robbed(gone) == {t \in Tasks : wait[t].mask \intersect gone # {}}

(* Mutant: signal instead of broadcast.                                     *)
SetBitsSignals(mask) ==
  /\ bits' = bits \union mask
  /\ owed' = owed \union SatisfiedWith(bits \union mask)
  /\ IF Asleep = {} THEN UNCHANGED state
                    ELSE \E t \in Asleep : state' = [state EXCEPT ![t] = "look"]
  /\ UNCHANGED <<wait, timedOut>>

(* rtems_wifi_event_group_set_bits(): broadcast wakes every waiter.          *)
SetBits(mask) ==
  /\ bits' = bits \union mask
  /\ owed' = owed \union SatisfiedWith(bits \union mask)
  /\ state' = [t \in Tasks |-> IF t \in Asleep THEN "look" ELSE state[t]]
  /\ UNCHANGED <<wait, timedOut>>

ClearBits(mask) ==
  /\ bits' = bits \ mask
  /\ owed' = owed \ Robbed(mask \intersect bits)
  /\ UNCHANGED task

(* rtems_wifi_event_group_wait_bits(), up to the mutex.  A wait for no bits  *)
(* returns the bits at once and changes nothing.                            *)
WaitBits(t, w) ==
  /\ state[t] \in Out
  /\ state' = [state EXCEPT ![t] = "look"]
  /\ wait' = [wait EXCEPT ![t] = w]
  /\ owed' = IF SatisfiedBy(w, bits) THEN owed \union {t} ELSE owed \ {t}
  /\ UNCHANGED <<bits, timedOut>>

(* One turn of the loop, under the mutex.                                   *)
Return(t, how) ==
  /\ state' = [state EXCEPT ![t] = how]
  /\ wait' = [wait EXCEPT ![t] = NoWait]
  /\ timedOut' = [timedOut EXCEPT ![t] = FALSE]

TakeBits(t) ==
  /\ state[t] = "look"
  /\ Satisfied(t)
  /\ LET gone == IF wait[t].clear THEN wait[t].mask \intersect bits ELSE {}
     IN  bits' = bits \ gone /\ owed' = owed \ ({t} \union Robbed(gone))
  /\ Return(t, "met")

(* Mutant: a wait that timed out does not look at the bits again.           *)
GiveUpUnlooked(t) ==
  /\ state[t] = "look"
  /\ timedOut[t] \/ (wait[t].block = "poll" /\ ~Satisfied(t))
  /\ Return(t, "gaveUp")
  /\ UNCHANGED <<bits, owed>>

GiveUp(t) ==
  /\ state[t] = "look"
  /\ ~Satisfied(t)
  /\ wait[t].block = "poll" \/ timedOut[t]
  /\ Return(t, "gaveUp")
  /\ UNCHANGED <<bits, owed>>

Sleep(t) ==
  /\ state[t] = "look"
  /\ ~Satisfied(t)
  /\ ~(wait[t].block = "poll" \/ timedOut[t])
  /\ state' = [state EXCEPT ![t] = "asleep"]
  /\ UNCHANGED <<bits, wait, timedOut, owed>>

(* Mutant: the result of pthread_cond_timedwait() is not kept.              *)
WakeForgetsTimeout(t, late) ==
  /\ state[t] = "asleep"
  /\ late => wait[t].block = "timed"
  /\ state' = [state EXCEPT ![t] = "look"]
  /\ UNCHANGED <<bits, wait, timedOut, owed>>

(* pthread_cond_timedwait() returns ETIMEDOUT; pthread_cond_wait() may also  *)
(* return with no reason at all.                                            *)
Wake(t, late) ==
  /\ state[t] = "asleep"
  /\ late => wait[t].block = "timed"
  /\ state' = [state EXCEPT ![t] = "look"]
  /\ timedOut' = [timedOut EXCEPT ![t] = late]
  /\ UNCHANGED <<bits, wait, owed>>

Look(t) == TakeBits(t) \/ GiveUp(t) \/ Sleep(t)

GroupNext ==
  \/ \E mask \in SUBSET Bits : SetBits(mask) \/ ClearBits(mask)
  \/ \E t \in Tasks :
       \/ \E w \in Waits : WaitBits(t, w)
       \/ Look(t)
       \/ \E late \in BOOLEAN : Wake(t, late)

GroupSpec == GroupInit /\ [][GroupNext]_groupVars

(* A task that wants the mutex gets it.  The deadline of a timed wait is a   *)
(* fixed time, so it passes however often the wait is woken before.          *)
FairGroupSpec ==
  /\ GroupSpec
  /\ \A t \in Tasks : WF_groupVars(Look(t)) /\ SF_groupVars(Wake(t, TRUE))
------------------------------------------------------------------------------
(* Every variable stays in its range.                                       *)
GroupTypeOK ==
  /\ bits \subseteq Bits
  /\ state \in [Tasks -> Out \union {"look", "asleep"}]
  /\ wait \in [Tasks -> Waits \union {NoWait}]
  /\ timedOut \in [Tasks -> BOOLEAN]
  /\ \A t \in Tasks : state[t] \in Out => wait[t] = NoWait /\ ~timedOut[t]
  /\ owed \subseteq Tasks

(* The reason set_bits broadcasts: no waiter is asleep while the bits it     *)
(* waits for are there.                                                     *)
NoSatisfiedSleeper == \A t \in Asleep : ~Satisfied(t)

(* The two together are inductive.                                          *)
GroupInv == GroupTypeOK /\ NoSatisfiedSleeper

(* One set satisfies every waiter whose rule it meets: until a waiter has     *)
(* looked at the bits it neither sleeps on nor times out, however late it    *)
(* gets the mutex, unless another's clear-on-exit or clear_bits() took one   *)
(* of its bits first.                                                        *)
SetReachesAll == \A t \in owed : state[t] = "look"

(* A timed wait returns, and any wait returns if its bits stay there.        *)
WaitsEnd ==
  \A t \in Tasks :
    /\ state[t] \notin Out /\ wait[t].block = "timed" ~> state[t] \in Out
    /\ state[t] \notin Out /\ Satisfied(t) ~> state[t] \in Out \/ ~Satisfied(t)
==============================================================================
