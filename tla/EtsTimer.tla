------------------------------- MODULE EtsTimer -------------------------------
(***************************************************************************)
(* One ETS timer of src/src/rtems_wifi_os_adapter.c: its six words, the      *)
(* RTEMS timer behind it, and the timer server that runs its callback while  *)
(* another task calls setfn, arm, disarm and done.                          *)
(*                                                                          *)
(* The caller is a task below the timer server, which the server preempts    *)
(* anywhere, or one above it (the WiFi task), which also runs in the middle  *)
(* of the server routine.  A step is one access to the words of the timer or *)
(* one call of RTEMS.                                                       *)
(***************************************************************************)
EXTENDS Sequences, FiniteSets, Integers

CONSTANTS
  Ids,        \* RTEMS timers, CONFIGURE_MAXIMUM_TIMERS of them
  Callbacks,  \* what setfn is given: a function together with its argument
  None        \* no id, no callback

ASSUME TimerAssumption == None \notin Ids \union Callbacks

VARIABLES
  callerIsAbove,  \* the caller's priority is above the timer server's;
                  \* never changes
  magic,     \* t->magic = RTEMS_WIFI_ETS_TIMER_MAGIC
  id,        \* t->id
  repeat,    \* t->repeat
  func,      \* t->func: the callback it is the function of
  arg,       \* t->arg: the callback it is the argument of
  live,      \* RTEMS timers that exist
  watchdog,  \* of each RTEMS timer: idle, armed, due (in the server's list)
  routine,   \* where the timer server is in rtems_wifi_timer_tsr()
  todo,      \* steps left in the call the caller or the callback is making
  op,        \* that call, by either
  given,     \* the callback setfn was last given
  called,    \* the function the routine has loaded
  latest,    \* history: the last call to return
  stale      \* history: an id that no longer exists was used to arm

words == <<magic, id, repeat, func, arg>>
rtems == <<live, watchdog>>
history == <<op, given, called, latest, stale>>
vars == <<callerIsAbove, words, rtems, routine, todo, history>>

Agents == {"caller", "callback"}

Init ==
  /\ callerIsAbove \in BOOLEAN
  /\ magic = FALSE /\ id = None /\ repeat = FALSE /\ func = None /\ arg = None
  /\ live = {}
  /\ watchdog = [i \in Ids |-> "idle"]
  /\ routine = "idle"
  /\ todo = [a \in Agents |-> <<>>]
  /\ op = [a \in Agents |-> "none"]
  /\ given = None /\ called = None
  /\ latest = "none"
  /\ stale = FALSE

(* Mutant: disarm clears the repeat flag only.                              *)
StepsNoCancel(call) ==
  CASE call = "setfn" ->
         IF magic THEN <<"cancel", "once", "func", "arg">> ELSE <<"create", "func", "arg">>
    [] call = "armOnce" -> <<"once", "fire">>
    [] call = "armRepeat" -> <<"repeat", "fire">>
    [] call = "disarm" -> <<"once">>
    [] call = "done" -> <<"forget", "once", "cancel", "delete", "noFunc", "noArg">>

(* Mutant: done takes the magic away last.                                  *)
StepsMagicLast(call) ==
  CASE call = "setfn" ->
         IF magic THEN <<"cancel", "once", "func", "arg">> ELSE <<"create", "func", "arg">>
    [] call = "armOnce" -> <<"once", "fire">>
    [] call = "armRepeat" -> <<"repeat", "fire">>
    [] call = "disarm" -> <<"once", "cancel">>
    [] call = "done" -> <<"delete", "noFunc", "noArg">>

(* Mutant: setfn creates an RTEMS timer each time.                          *)
StepsAlwaysCreate(call) ==
  CASE call = "setfn" -> <<"create", "func", "arg">>
    [] call = "armOnce" -> <<"once", "fire">>
    [] call = "armRepeat" -> <<"repeat", "fire">>
    [] call = "disarm" -> <<"once", "cancel">>
    [] call = "done" -> <<"forget", "once", "cancel", "delete", "noFunc", "noArg">>

(* Mutant: setfn leaves a timer that is armed as it is.                     *)
StepsSetfnOfArmed(call) ==
  CASE call = "setfn" ->
         IF magic THEN <<"once", "func", "arg">> ELSE <<"create", "func", "arg">>
    [] call = "armOnce" -> <<"once", "fire">>
    [] call = "armRepeat" -> <<"repeat", "fire">>
    [] call = "disarm" -> <<"once", "cancel">>
    [] call = "done" -> <<"forget", "once", "cancel", "delete", "noFunc", "noArg">>

(* The steps of each call.  done() clears the magic first.                   *)
Steps(call) ==
  CASE call = "setfn" ->
         IF magic THEN <<"cancel", "once", "func", "arg">> ELSE <<"create", "func", "arg">>
    [] call = "armOnce" -> <<"once", "fire">>
    [] call = "armRepeat" -> <<"repeat", "fire">>
    [] call = "disarm" -> <<"once", "cancel">>
    [] call = "done" -> <<"forget", "once", "cancel", "delete", "noFunc", "noArg">>

(* The caller runs when the server does not, or preempts it.  A callback     *)
(* arms, disarms and frees its own timer.                                   *)
MayRun(a) ==
  IF a = "caller" THEN routine = "idle" \/ callerIsAbove
                  ELSE routine = "callback"

(* Every call but setfn ignores a timer without the magic.  Whoever frees a  *)
(* timer, whose memory is the libraries', does so with no other call on it   *)
(* under way, and nobody makes it anew before that is over.                  *)
Call(a, call) ==
  /\ MayRun(a)
  /\ todo[a] = <<>>
  /\ call = "done" => \A b \in Agents : op[b] = "none"
  /\ \A b \in Agents : op[b] # "done"
  /\ call = "setfn" => a = "caller"
  /\ call = "setfn" \/ magic
  /\ todo' = [todo EXCEPT ![a] = Steps(call)]
  /\ op' = [op EXCEPT ![a] = call]
  /\ IF call = "setfn" THEN given' \in Callbacks ELSE UNCHANGED given
  /\ UNCHANGED <<callerIsAbove, words, rtems, routine, called, latest, stale>>

At(a, step) == MayRun(a) /\ todo[a] # <<>> /\ Head(todo[a]) = step

Done(a) ==
  /\ todo' = [todo EXCEPT ![a] = Tail(@)]
  /\ IF Len(todo[a]) = 1
     THEN latest' = op[a] /\ op' = [op EXCEPT ![a] = "none"]
     ELSE UNCHANGED <<latest, op>>

(* rtems_timer_create(), and the words of a timer that is not armed.         *)
Create(a) ==
  /\ At(a, "create")
  /\ \E i \in Ids \ live :
       /\ live' = live \union {i}
       /\ id' = i
  /\ magic' = TRUE
  /\ repeat' = FALSE
  /\ Done(a)
  /\ UNCHANGED <<callerIsAbove, func, arg, watchdog, routine, given, called, stale>>

(* No RTEMS timer left, the rest of the libraries' timers having them: setfn *)
(* gives up with the words as they were.                                    *)
CreateFails(a) ==
  /\ At(a, "create")
  /\ todo' = [todo EXCEPT ![a] = <<>>]
  /\ op' = [op EXCEPT ![a] = "none"]
  /\ UNCHANGED <<callerIsAbove, words, rtems, routine, given, called, latest, stale>>

Word(a) ==
  /\ \/ At(a, "forget") /\ magic' = FALSE /\ UNCHANGED <<repeat, func, arg>>
     \/ At(a, "once") /\ repeat' = FALSE /\ UNCHANGED <<magic, func, arg>>
     \/ At(a, "repeat") /\ repeat' = TRUE /\ UNCHANGED <<magic, func, arg>>
     \/ At(a, "func") /\ func' = given /\ UNCHANGED <<magic, repeat, arg>>
     \/ At(a, "arg") /\ arg' = given /\ UNCHANGED <<magic, repeat, func>>
     \/ At(a, "noFunc") /\ func' = None /\ UNCHANGED <<magic, repeat, arg>>
     \/ At(a, "noArg") /\ arg' = None /\ UNCHANGED <<magic, repeat, func>>
  /\ Done(a)
  /\ UNCHANGED <<callerIsAbove, id, rtems, routine, given, called, stale>>

(* rtems_timer_server_fire_after(): restarts a timer that exists.            *)
FireAfter ==
  IF id \in live
  THEN watchdog' = [watchdog EXCEPT ![id] = "armed"] /\ UNCHANGED stale
  ELSE stale' = TRUE /\ UNCHANGED watchdog

Fire(a) ==
  /\ At(a, "fire")
  /\ FireAfter
  /\ Done(a)
  /\ UNCHANGED <<callerIsAbove, words, live, routine, given, called>>

Cancel(a) ==
  /\ At(a, "cancel")
  /\ watchdog' = IF id \in live THEN [watchdog EXCEPT ![id] = "idle"] ELSE watchdog
  /\ Done(a)
  /\ UNCHANGED <<callerIsAbove, words, live, routine, given, called, stale>>

Delete(a) ==
  /\ At(a, "delete")
  /\ live' = live \ {id}
  /\ watchdog' = IF id \in live THEN [watchdog EXCEPT ![id] = "idle"] ELSE watchdog
  /\ Done(a)
  /\ UNCHANGED <<callerIsAbove, words, routine, given, called, stale>>

------------------------------------------------------------------------------
(* The clock tick, and the timer server taking a timer off its list.         *)
Expire(i) ==
  /\ watchdog[i] = "armed"
  /\ watchdog' = [watchdog EXCEPT ![i] = "due"]
  /\ UNCHANGED <<callerIsAbove, words, live, routine, todo, history>>

Take(i) ==
  /\ routine = "idle"
  /\ watchdog[i] = "due"
  /\ watchdog' = [watchdog EXCEPT ![i] = "idle"]
  /\ routine' = "magic"
  /\ UNCHANGED <<callerIsAbove, words, live, todo, history>>

(* rtems_wifi_timer_tsr().                                                   *)
CheckMagic ==
  /\ routine = "magic"
  /\ routine' = IF magic THEN "repeat" ELSE "idle"
  /\ UNCHANGED <<callerIsAbove, words, rtems, todo, history>>

CheckRepeat ==
  /\ routine = "repeat"
  /\ routine' = IF repeat THEN "rearm" ELSE "func"
  /\ UNCHANGED <<callerIsAbove, words, rtems, todo, history>>

(* Mutant: the repeat flag is tested in a loop.                             *)
RearmLoops ==
  /\ routine = "rearm"
  /\ FireAfter
  /\ routine' = "repeat"
  /\ UNCHANGED <<callerIsAbove, words, live, todo, op, given, called, latest>>

Rearm ==
  /\ routine = "rearm"
  /\ FireAfter
  /\ routine' = "func"
  /\ UNCHANGED <<callerIsAbove, words, live, todo, op, given, called, latest>>

(* The function is loaded, then its argument.                               *)
CheckFunc ==
  /\ routine = "func"
  /\ routine' = IF func # None THEN "arg" ELSE "idle"
  /\ called' = func
  /\ UNCHANGED <<callerIsAbove, words, rtems, todo, op, given, latest, stale>>

CallFunc ==
  /\ routine = "arg"
  /\ routine' = "callback"
  /\ called' = None
  /\ UNCHANGED <<callerIsAbove, words, rtems, todo, op, given, latest, stale>>

CallbackReturns ==
  /\ routine = "callback"
  /\ todo["callback"] = <<>>
  /\ routine' = "idle"
  /\ UNCHANGED <<callerIsAbove, words, rtems, todo, history>>

Routine == CheckMagic \/ CheckRepeat \/ Rearm \/ CheckFunc \/ CallFunc \/ CallbackReturns

AgentStep(a) ==
  \/ Create(a) \/ CreateFails(a)
  \/ Word(a)
  \/ Fire(a) \/ Cancel(a) \/ Delete(a)

Calls == {"setfn", "armOnce", "armRepeat", "disarm", "done"}

Next ==
  \/ \E a \in Agents : AgentStep(a) \/ \E call \in Calls : Call(a, call)
  \/ \E i \in Ids : Expire(i) \/ Take(i)
  \/ Routine

Spec == Init /\ [][Next]_vars

(* Time passes, the timer server runs, whoever is inside a call gets on with *)
(* it, and a callback returns some day.                                     *)
FairSpec ==
  /\ Spec
  /\ \A i \in Ids : WF_vars(Expire(i)) /\ WF_vars(Take(i))
  /\ WF_vars(Routine) /\ SF_vars(CallbackReturns)
  /\ \A a \in Agents : WF_vars(AgentStep(a))
------------------------------------------------------------------------------
(* Every variable stays in its range.                                       *)
TypeOK ==
  /\ {callerIsAbove, magic, repeat, stale} \subseteq BOOLEAN
  /\ {func, arg, given, called} \subseteq Callbacks \union {None}
  /\ id \in Ids \union {None}
  /\ live \subseteq Ids
  /\ magic => id \in Ids
  /\ watchdog \in [Ids -> {"idle", "armed", "due"}]
  /\ routine \in {"idle", "magic", "repeat", "rearm", "func", "arg", "callback"}
  /\ op \in [Agents -> Calls \union {"none"}]
  /\ \A a \in Agents : Len(todo[a]) \in 0 .. 6

Quiet == routine = "idle" /\ \A a \in Agents : todo[a] = <<>>

(* The comments on the re-arm and on disarm(): a callback that disarms or    *)
(* frees its own timer wins, and no period gets through after a disarm, a    *)
(* done or a change of the callback.  So it is for every caller below the    *)
(* timer server; one above it gets in between the test of repeat and the     *)
(* re-arm, and a period gets through.                                       *)
DisarmIsFinal ==
  Quiet /\ ~callerIsAbove /\ latest \in {"disarm", "done", "setfn"}
    => \A i \in Ids : watchdog[i] = "idle"

(* The comment in done(): a use after it is an ignored call rather than a    *)
(* stale rtems_id.  The same exception: a caller above the timer server      *)
(* may delete the timer after the routine has tested the magic.             *)
NoStaleId == stale => callerIsAbove

(* The magic separates a live timer from a new one: there is one RTEMS timer *)
(* for the ETSTimer while the magic is there and none when it is not.        *)
OneRtemsTimer ==
  /\ Cardinality(live) <= 1
  /\ magic => live = {id}
  /\ Quiet /\ ~magic => live = {}

(* The two together.                                                        *)
TimerInv == TypeOK /\ OneRtemsTimer

(* A callback is called with its own argument though setfn stores the two    *)
(* one after the other: the cancel before them keeps the server away.  Again  *)
(* a caller above the timer server may get in between the two loads.         *)
CallbackIsOwn == routine = "arg" /\ ~callerIsAbove => called = arg

(* What is armed fires, is cancelled, or is in the hands of another call: no *)
(* callback keeps the server from its list.                                 *)
ArmedFires ==
  \A i \in Ids :
    watchdog[i] # "idle" ~> routine = "magic" \/ watchdog[i] = "idle" \/ op["caller"] # "none"
==============================================================================
