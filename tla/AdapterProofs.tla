---------------------------- MODULE AdapterProofs ----------------------------
(***************************************************************************)
(* Two of the services of rtems_wifi_os_adapter.c: the ETS timer, for any    *)
(* number of RTEMS timers and callbacks and with a caller above the timer    *)
(* server or below it, and the event group, for any number of tasks and bits. *)
(*                                                                          *)
(* A call of the timer is a list of steps in which no step occurs twice, so  *)
(* the next step says how far the call is.                                  *)
(***************************************************************************)
EXTENDS EtsTimer, EventGroup, FiniteSetTheorems, TLAPS

(* What is left of each call after any number of its steps.                 *)
Rests(call) ==
  CASE call = "setfn" -> {<<"create", "func", "arg">>, <<"cancel", "once", "func", "arg">>,
                          <<"once", "func", "arg">>, <<"func", "arg">>, <<"arg">>}
    [] call = "armOnce" -> {<<"once", "fire">>, <<"fire">>}
    [] call = "armRepeat" -> {<<"repeat", "fire">>, <<"fire">>}
    [] call = "disarm" -> {<<"once", "cancel">>, <<"cancel">>}
    [] call = "done" -> {<<"forget", "once", "cancel", "delete", "noFunc", "noArg">>,
                         <<"once", "cancel", "delete", "noFunc", "noArg">>,
                         <<"cancel", "delete", "noFunc", "noArg">>,
                         <<"delete", "noFunc", "noArg">>, <<"noFunc", "noArg">>, <<"noArg">>}

(* The step that follows one of the call, none after the last.              *)
After(call, step) ==
  CASE step \in {"fire", "arg", "noArg"} -> "none"
    [] step = "cancel" -> (CASE call = "disarm" -> "none" [] call = "setfn" -> "once" [] OTHER -> "delete")
    [] step = "once" -> (CASE call = "setfn" -> "func" [] call = "armOnce" -> "fire" [] OTHER -> "cancel")
    [] step = "create" -> "func"
    [] step = "func" -> "arg"
    [] step = "repeat" -> "fire"
    [] step = "forget" -> "once"
    [] step = "delete" -> "noFunc"
    [] step = "noFunc" -> "noArg"

Now(a) == IF todo[a] = <<>> THEN "none" ELSE Head(todo[a])

(* A call under way has steps left, and they are the last ones of that call. *)
Plans ==
  \A a \in Agents : IF op[a] = "none" THEN todo[a] = <<>> ELSE todo[a] \in Rests(op[a])

(* Who frees the timer is alone with it; only the caller sets it up; a        *)
(* callback makes calls while it runs.                                      *)
Discipline ==
  /\ \A a, b \in Agents : op[a] = "done" /\ a # b => op[b] = "none"
  /\ op["callback"] # "setfn"
  /\ op["callback"] # "none" => routine = "callback"

(* The magic, the id and the RTEMS timer go together, but for the time that   *)
(* done() takes between clearing the one and deleting the other.             *)
MagicMeansLive ==
  /\ live \subseteq Ids
  /\ magic => live = {id}
  /\ ~magic /\ (\A a \in Agents : op[a] # "done") => live = {}
  /\ \A a \in Agents :
       /\ op[a] \in {"armOnce", "armRepeat", "disarm"} => magic
       /\ op[a] = "setfn" => (magic <=> Now(a) # "create")
       /\ op[a] = "done" => /\ magic <=> Now(a) = "forget"
                            /\ Now(a) \in {"once", "cancel", "delete"} => live = {id}
                            /\ Now(a) \in {"noFunc", "noArg"} => live = {}
  /\ \A i \in Ids : watchdog[i] # "idle" => i \in live

AllIdle == \A i \in Ids : watchdog[i] = "idle"

(* A caller below the timer server moves only while the server is idle, so    *)
(* what the routine has tested stays so until the callback.                  *)
TestStands == ~callerIsAbove => ~stale /\ (routine \in {"repeat", "rearm"} => magic)

(* Once a call has cancelled the timer the server stays idle: while the call  *)
(* goes on, and after it.                                                   *)
QuietDuring ==
  ~callerIsAbove =>
    /\ op["caller"] = "setfn" /\ Now("caller") # "cancel" => routine = "idle" /\ AllIdle
    /\ op["caller"] = "done" /\ Now("caller") \in {"delete", "noFunc", "noArg"}
         => routine = "idle" /\ AllIdle

QuietAfter ==
  ~callerIsAbove /\ latest \in {"disarm", "done", "setfn"}
    => routine \in {"idle", "callback"} /\ AllIdle

(* The function and the argument are of one callback but inside the call that *)
(* is changing them, and so are the two that the routine loads.              *)
PairIsWhole ==
  ~callerIsAbove =>
    /\ op["caller"] = "setfn" /\ Now("caller") = "arg" => func = given
    /\ \A a \in Agents : op[a] = "done" /\ Now(a) = "noArg" => func = None
    /\ \/ func = arg
       \/ op["caller"] = "setfn" /\ Now("caller") = "arg"
       \/ \E a \in Agents : op[a] = "done" /\ Now(a) = "noArg"
    /\ routine = "arg" => called = arg

ServerFirst == TestStands /\ QuietDuring /\ QuietAfter /\ PairIsWhole

Types ==
  /\ {callerIsAbove, magic, repeat, stale} \subseteq BOOLEAN
  /\ {func, arg, given, called} \subseteq Callbacks \union {None}
  /\ op["caller"] = "setfn" => given \in Callbacks
  /\ id \in Ids \union {None}
  /\ watchdog \in [Ids -> {"idle", "armed", "due"}]
  /\ routine \in {"idle", "magic", "repeat", "rearm", "func", "arg", "callback"}
  /\ op \in [Agents -> Calls \union {"none"}]
  /\ DOMAIN todo = Agents

ServerInv == Types /\ Plans /\ Discipline /\ MagicMeansLive /\ ServerFirst
------------------------------------------------------------------------------
(* The steps of each call, without their order.                             *)
Heads(call) ==
  CASE call = "setfn" -> {"create", "cancel", "once", "func", "arg"}
    [] call = "armOnce" -> {"once", "fire"}
    [] call = "armRepeat" -> {"repeat", "fire"}
    [] call = "disarm" -> {"once", "cancel"}
    [] call = "done" -> {"forget", "once", "cancel", "delete", "noFunc", "noArg"}

(* After one step what is left of a call is what is left of that call.       *)
LEMMA RestStep ==
  ASSUME NEW call \in Calls, NEW s \in Rests(call)
  PROVE  /\ s # <<>> /\ Head(s) \in Heads(call) /\ Len(s) \in 1 .. 6
         /\ IF Len(s) = 1
            THEN Tail(s) = <<>> /\ After(call, Head(s)) = "none"
            ELSE /\ Tail(s) \in Rests(call) /\ Tail(s) # <<>>
                 /\ Head(Tail(s)) = After(call, Head(s)) /\ After(call, Head(s)) # "none"
<1>1. CASE call = "setfn"
  <2>1. CASE s = <<"create", "func", "arg">>
    BY <1>1, <2>1 DEF Rests, After, Heads
  <2>2. CASE s = <<"cancel", "once", "func", "arg">>
    BY <1>1, <2>2 DEF Rests, After, Heads
  <2>3. CASE s = <<"once", "func", "arg">>
    BY <1>1, <2>3 DEF Rests, After, Heads
  <2>4. CASE s = <<"func", "arg">>
    BY <1>1, <2>4 DEF Rests, After, Heads
  <2>5. CASE s = <<"arg">>
    BY <1>1, <2>5 DEF Rests, After, Heads
  <2>. QED BY <1>1, <2>1, <2>2, <2>3, <2>4, <2>5 DEF Rests
<1>2. CASE call = "armOnce"
  <2>1. CASE s = <<"once", "fire">>
    BY <1>2, <2>1 DEF Rests, After, Heads
  <2>2. CASE s = <<"fire">>
    BY <1>2, <2>2 DEF Rests, After, Heads
  <2>. QED BY <1>2, <2>1, <2>2 DEF Rests
<1>3. CASE call = "armRepeat"
  <2>1. CASE s = <<"repeat", "fire">>
    BY <1>3, <2>1 DEF Rests, After, Heads
  <2>2. CASE s = <<"fire">>
    BY <1>3, <2>2 DEF Rests, After, Heads
  <2>. QED BY <1>3, <2>1, <2>2 DEF Rests
<1>4. CASE call = "disarm"
  <2>1. CASE s = <<"once", "cancel">>
    BY <1>4, <2>1 DEF Rests, After, Heads
  <2>2. CASE s = <<"cancel">>
    BY <1>4, <2>2 DEF Rests, After, Heads
  <2>. QED BY <1>4, <2>1, <2>2 DEF Rests
<1>5. CASE call = "done"
  <2>1. CASE s = <<"forget", "once", "cancel", "delete", "noFunc", "noArg">>
    BY <1>5, <2>1 DEF Rests, After, Heads
  <2>2. CASE s = <<"once", "cancel", "delete", "noFunc", "noArg">>
    BY <1>5, <2>2 DEF Rests, After, Heads
  <2>3. CASE s = <<"cancel", "delete", "noFunc", "noArg">>
    BY <1>5, <2>3 DEF Rests, After, Heads
  <2>4. CASE s = <<"delete", "noFunc", "noArg">>
    BY <1>5, <2>4 DEF Rests, After, Heads
  <2>5. CASE s = <<"noFunc", "noArg">>
    BY <1>5, <2>5 DEF Rests, After, Heads
  <2>6. CASE s = <<"noArg">>
    BY <1>5, <2>6 DEF Rests, After, Heads
  <2>. QED BY <1>5, <2>1, <2>2, <2>3, <2>4, <2>5, <2>6 DEF Rests
<1>. QED BY <1>1, <1>2, <1>3, <1>4, <1>5 DEF Calls

(* What a call begins with.                                                 *)
LEMMA StepsBegin ==
  ASSUME NEW call \in Calls
  PROVE  /\ Steps(call) \in Rests(call) /\ Steps(call) # <<>>
         /\ Head(Steps(call)) =
              CASE call = "setfn" -> IF magic THEN "cancel" ELSE "create"
                [] call = "armOnce" -> "once" [] call = "armRepeat" -> "repeat"
                [] call = "disarm" -> "once"  [] call = "done" -> "forget"
BY DEF Steps, Rests, Calls

(* A step takes its agent to the next step of the call, or ends the call, and *)
(* leaves the other agent where it is.                                      *)
StepTaken(a, step) ==
  /\ op[a] \in Calls /\ Now(a) = step /\ step \in Heads(op[a])
  /\ op' = [op EXCEPT ![a] = IF After(op[a], step) = "none" THEN "none" ELSE op[a]]
  /\ latest' = IF After(op[a], step) = "none" THEN op[a] ELSE latest
  /\ Now(a)' = After(op[a], step)
  /\ \A b \in Agents \ {a} : Now(b)' = Now(b)

LEMMA StepOn ==
  ASSUME Types, Plans, NEW a \in Agents, NEW step, At(a, step), Done(a)
  PROVE  Plans' /\ DOMAIN todo' = Agents /\ StepTaken(a, step)
<1>. DEFINE s == todo[a]
<1>1. op[a] \in Calls /\ s \in Rests(op[a]) /\ Head(s) = step
  BY DEF Types, Plans, At
<1>2. todo' = [todo EXCEPT ![a] = Tail(s)]
  BY DEF Done
<1>3. DOMAIN todo = Agents
  BY DEF Types
<1>4. todo'[a] = Tail(s) /\ DOMAIN todo' = Agents /\ \A b \in Agents \ {a} : todo'[b] = todo[b]
  BY <1>2, <1>3
<1>5. /\ s # <<>> /\ step \in Heads(op[a]) /\ Len(s) \in 1 .. 6
      /\ IF Len(s) = 1
         THEN Tail(s) = <<>> /\ After(op[a], step) = "none"
         ELSE /\ Tail(s) \in Rests(op[a]) /\ Tail(s) # <<>>
              /\ Head(Tail(s)) = After(op[a], step) /\ After(op[a], step) # "none"
  BY <1>1, RestStep
<1>6. /\ op' = [op EXCEPT ![a] = IF Len(s) = 1 THEN "none" ELSE op[a]]
      /\ latest' = IF Len(s) = 1 THEN op[a] ELSE latest
  BY DEF Done, Types
<1>. HIDE DEF s
<1>7. Now(a) = step /\ Now(a)' = After(op[a], step)
  BY <1>1, <1>4, <1>5 DEF Now, s
<1>8. \A b \in Agents \ {a} : Now(b)' = Now(b)
  BY <1>4 DEF Now
<1>9. Plans'
  <2>. SUFFICES ASSUME NEW b \in Agents
                PROVE  (IF op[b] = "none" THEN todo[b] = <<>> ELSE todo[b] \in Rests(op[b]))'
    BY DEF Plans
  <2>1. CASE b # a
    BY <2>1, <1>4, <1>6 DEF Plans, Types
  <2>2. CASE b = a /\ Len(s) = 1
    BY <2>2, <1>4, <1>5, <1>6 DEF Types
  <2>3. CASE b = a /\ Len(s) # 1
    BY <2>3, <1>1, <1>4, <1>5, <1>6 DEF Types, Calls
  <2>. QED BY <2>1, <2>2, <2>3
<1>. QED BY <1>1, <1>4, <1>5, <1>6, <1>7, <1>8, <1>9 DEF StepTaken
------------------------------------------------------------------------------
LEMMA CreateStep ==
  ASSUME ServerInv, NEW a \in Agents, Create(a)
  PROVE  ServerInv'
<1>1. Types /\ Plans /\ Discipline /\ MagicMeansLive /\ ServerFirst
  BY DEF ServerInv
<1>2. Plans' /\ DOMAIN todo' = Agents /\ StepTaken(a, "create")
  BY <1>1, StepOn DEF Create
<1>3. Types'
  BY <1>1, <1>2 DEF Types, Create, At, MayRun, StepTaken, Calls, Agents
<1>4. Discipline'
  BY <1>1, <1>2 DEF Types, Discipline, Create, At, MayRun, StepTaken, Calls, Agents
<1>5. MagicMeansLive'
  BY <1>1, <1>2
    DEF Types, Discipline, MagicMeansLive, Create, At, MayRun, StepTaken, After, Heads, Calls,
        Agents
<1>6. TestStands'
  BY <1>1, <1>2
    DEF Types, Discipline, MagicMeansLive, ServerFirst, TestStands, AllIdle, Create, At, MayRun,
        StepTaken, After, Heads, Calls, Agents
<1>7. QuietDuring'
  BY <1>1, <1>2
    DEF Types, Discipline, MagicMeansLive, ServerFirst, QuietDuring, AllIdle, Create, At, MayRun,
        StepTaken, After, Heads, Calls, Agents
<1>8. QuietAfter'
  BY <1>1, <1>2
    DEF Types, Discipline, MagicMeansLive, ServerFirst, QuietAfter, AllIdle, Create, At, MayRun,
        StepTaken, After, Heads, Calls, Agents
<1>9. PairIsWhole'
  BY <1>1, <1>2
    DEF Types, Discipline, MagicMeansLive, ServerFirst, PairIsWhole, AllIdle, Create, At, MayRun,
        StepTaken, After, Heads, Calls, Agents
<1>. QED BY <1>2, <1>3, <1>4, <1>5, <1>6, <1>7, <1>8, <1>9 DEF ServerInv, ServerFirst

LEMMA FireStep ==
  ASSUME ServerInv, NEW a \in Agents, Fire(a)
  PROVE  ServerInv'
<1>1. Types /\ Plans /\ Discipline /\ MagicMeansLive /\ ServerFirst
  BY DEF ServerInv
<1>2. Plans' /\ DOMAIN todo' = Agents /\ StepTaken(a, "fire")
  BY <1>1, StepOn DEF Fire
<1>3. Types'
  BY <1>1, <1>2 DEF Types, Fire, FireAfter, At, MayRun, words, StepTaken, Calls, Agents
<1>4. Discipline'
  BY <1>1, <1>2 DEF Types, Discipline, Fire, FireAfter, At, MayRun, words, StepTaken, Calls, Agents
<1>5. MagicMeansLive'
  BY <1>1, <1>2
    DEF Types, Discipline, MagicMeansLive, Fire, FireAfter, At, MayRun, words, StepTaken, After,
        Heads, Calls, Agents
<1>6. TestStands'
  BY <1>1, <1>2
    DEF Types, Discipline, MagicMeansLive, ServerFirst, TestStands, AllIdle, Fire, FireAfter, At,
        MayRun, words, StepTaken, After, Heads, Calls, Agents
<1>7. QuietDuring'
  BY <1>1, <1>2
    DEF Types, Discipline, MagicMeansLive, ServerFirst, QuietDuring, AllIdle, Fire, FireAfter, At,
        MayRun, words, StepTaken, After, Heads, Calls, Agents
<1>8. QuietAfter'
  BY <1>1, <1>2
    DEF Types, Discipline, MagicMeansLive, ServerFirst, QuietAfter, AllIdle, Fire, FireAfter, At,
        MayRun, words, StepTaken, After, Heads, Calls, Agents
<1>9. PairIsWhole'
  BY <1>1, <1>2
    DEF Types, Discipline, MagicMeansLive, ServerFirst, PairIsWhole, AllIdle, Fire, FireAfter, At,
        MayRun, words, StepTaken, After, Heads, Calls, Agents
<1>. QED BY <1>2, <1>3, <1>4, <1>5, <1>6, <1>7, <1>8, <1>9 DEF ServerInv, ServerFirst

LEMMA CancelStep ==
  ASSUME ServerInv, NEW a \in Agents, Cancel(a)
  PROVE  ServerInv'
<1>1. Types /\ Plans /\ Discipline /\ MagicMeansLive /\ ServerFirst
  BY DEF ServerInv
<1>2. Plans' /\ DOMAIN todo' = Agents /\ StepTaken(a, "cancel")
  BY <1>1, StepOn DEF Cancel
<1>3. Types'
  BY <1>1, <1>2 DEF Types, Cancel, At, MayRun, words, StepTaken, Calls, Agents
<1>4. Discipline'
  BY <1>1, <1>2 DEF Types, Discipline, Cancel, At, MayRun, words, StepTaken, Calls, Agents
<1>5. MagicMeansLive'
  BY <1>1, <1>2
    DEF Types, Discipline, MagicMeansLive, Cancel, At, MayRun, words, StepTaken, After, Heads,
        Calls, Agents
<1>6. TestStands'
  BY <1>1, <1>2
    DEF Types, Discipline, MagicMeansLive, ServerFirst, TestStands, AllIdle, Cancel, At, MayRun,
        words, StepTaken, After, Heads, Calls, Agents
<1>7. QuietDuring'
  BY <1>1, <1>2
    DEF Types, Discipline, MagicMeansLive, ServerFirst, QuietDuring, AllIdle, Cancel, At, MayRun,
        words, StepTaken, After, Heads, Calls, Agents
<1>8. QuietAfter'
  BY <1>1, <1>2
    DEF Types, Discipline, MagicMeansLive, ServerFirst, QuietAfter, AllIdle, Cancel, At, MayRun,
        words, StepTaken, After, Heads, Calls, Agents
<1>9. PairIsWhole'
  BY <1>1, <1>2
    DEF Types, Discipline, MagicMeansLive, ServerFirst, PairIsWhole, AllIdle, Cancel, At, MayRun,
        words, StepTaken, After, Heads, Calls, Agents
<1>. QED BY <1>2, <1>3, <1>4, <1>5, <1>6, <1>7, <1>8, <1>9 DEF ServerInv, ServerFirst

LEMMA DeleteStep ==
  ASSUME ServerInv, NEW a \in Agents, Delete(a)
  PROVE  ServerInv'
<1>1. Types /\ Plans /\ Discipline /\ MagicMeansLive /\ ServerFirst
  BY DEF ServerInv
<1>2. Plans' /\ DOMAIN todo' = Agents /\ StepTaken(a, "delete")
  BY <1>1, StepOn DEF Delete
<1>3. Types'
  BY <1>1, <1>2 DEF Types, Delete, At, MayRun, words, StepTaken, Calls, Agents
<1>4. Discipline'
  BY <1>1, <1>2 DEF Types, Discipline, Delete, At, MayRun, words, StepTaken, Calls, Agents
<1>5. MagicMeansLive'
  BY <1>1, <1>2
    DEF Types, Discipline, MagicMeansLive, Delete, At, MayRun, words, StepTaken, After, Heads,
        Calls, Agents
<1>6. TestStands'
  BY <1>1, <1>2
    DEF Types, Discipline, MagicMeansLive, ServerFirst, TestStands, AllIdle, Delete, At, MayRun,
        words, StepTaken, After, Heads, Calls, Agents
<1>7. QuietDuring'
  BY <1>1, <1>2
    DEF Types, Discipline, MagicMeansLive, ServerFirst, QuietDuring, AllIdle, Delete, At, MayRun,
        words, StepTaken, After, Heads, Calls, Agents
<1>8. QuietAfter'
  BY <1>1, <1>2
    DEF Types, Discipline, MagicMeansLive, ServerFirst, QuietAfter, AllIdle, Delete, At, MayRun,
        words, StepTaken, After, Heads, Calls, Agents
<1>9. PairIsWhole'
  BY <1>1, <1>2
    DEF Types, Discipline, MagicMeansLive, ServerFirst, PairIsWhole, AllIdle, Delete, At, MayRun,
        words, StepTaken, After, Heads, Calls, Agents
<1>. QED BY <1>2, <1>3, <1>4, <1>5, <1>6, <1>7, <1>8, <1>9 DEF ServerInv, ServerFirst

LEMMA WordStep ==
  ASSUME ServerInv, NEW a \in Agents, Word(a)
  PROVE  ServerInv'
<1>1. Types /\ Plans /\ Discipline /\ MagicMeansLive /\ ServerFirst
  BY DEF ServerInv
<1>2. PICK step \in {"forget", "once", "repeat", "func", "arg", "noFunc", "noArg"} :
        /\ At(a, step) /\ Done(a)
        /\ magic' = IF step = "forget" THEN FALSE ELSE magic
        /\ repeat' = IF step = "repeat" THEN TRUE ELSE IF step = "once" THEN FALSE ELSE repeat
        /\ func' = IF step = "func" THEN given ELSE IF step = "noFunc" THEN None ELSE func
        /\ arg' = IF step = "arg" THEN given ELSE IF step = "noArg" THEN None ELSE arg
  BY DEF Word
<1>3. UNCHANGED <<callerIsAbove, id, rtems, routine, given, called, stale>>
  BY DEF Word
<1>4. Plans' /\ DOMAIN todo' = Agents /\ StepTaken(a, step)
  BY <1>1, <1>2, StepOn
<1>5. Types'
  BY <1>1, <1>2, <1>3, <1>4 DEF Types, At, MayRun, rtems, StepTaken, After, Heads, Calls, Agents
<1>6. Discipline'
  BY <1>1, <1>2, <1>3, <1>4
    DEF Types, Discipline, At, MayRun, rtems, StepTaken, After, Heads, Calls, Agents
<1>7. MagicMeansLive'
  BY <1>1, <1>2, <1>3, <1>4
    DEF Types, Discipline, MagicMeansLive, At, MayRun, rtems, StepTaken, After, Heads, Calls,
        Agents
<1>8. TestStands'
  BY <1>1, <1>2, <1>3, <1>4
    DEF Types, Discipline, MagicMeansLive, ServerFirst, TestStands, AllIdle, At, MayRun, rtems,
        StepTaken, After, Heads, Calls, Agents
<1>9. QuietDuring'
  BY <1>1, <1>2, <1>3, <1>4
    DEF Types, Discipline, MagicMeansLive, ServerFirst, QuietDuring, AllIdle, At, MayRun, rtems,
        StepTaken, After, Heads, Calls, Agents
<1>10. QuietAfter'
  BY <1>1, <1>2, <1>3, <1>4
    DEF Types, Discipline, MagicMeansLive, ServerFirst, QuietDuring, QuietAfter, AllIdle, At,
        MayRun, rtems, StepTaken, After, Heads, Calls, Agents
<1>11. PairIsWhole'
  <2>1. CASE step = "func"
    BY <2>1, <1>1, <1>2, <1>3, <1>4
      DEF Types, Discipline, ServerFirst, QuietDuring, PairIsWhole, AllIdle, At, MayRun, rtems,
          StepTaken, After, Heads, Calls, Agents
  <2>2. CASE step = "arg"
    BY <2>2, <1>1, <1>2, <1>3, <1>4
      DEF Types, Discipline, ServerFirst, QuietDuring, PairIsWhole, AllIdle, At, MayRun, rtems,
          StepTaken, After, Heads, Calls, Agents
  <2>3. CASE step = "noFunc"
    BY <2>3, <1>1, <1>2, <1>3, <1>4
      DEF Types, Discipline, ServerFirst, QuietDuring, PairIsWhole, AllIdle, At, MayRun, rtems,
          StepTaken, After, Heads, Calls, Agents
  <2>4. CASE step = "noArg"
    BY <2>4, <1>1, <1>2, <1>3, <1>4
      DEF Types, Discipline, ServerFirst, QuietDuring, PairIsWhole, AllIdle, At, MayRun, rtems,
          StepTaken, After, Heads, Calls, Agents
  <2>5. CASE step \in {"forget", "once", "repeat"}
    BY <2>5, <1>1, <1>2, <1>3, <1>4
      DEF Types, Discipline, ServerFirst, QuietDuring, PairIsWhole, AllIdle, At, MayRun, rtems,
          StepTaken, After, Heads, Calls, Agents
  <2>. QED BY <2>1, <2>2, <2>3, <2>4, <2>5
<1>. QED BY <1>4, <1>5, <1>6, <1>7, <1>8, <1>9, <1>10, <1>11 DEF ServerInv, ServerFirst

LEMMA CreateFailsStep ==
  ASSUME ServerInv, NEW a \in Agents, CreateFails(a)
  PROVE  ServerInv'
<1>1. Types /\ Plans /\ Discipline /\ MagicMeansLive /\ ServerFirst
  BY DEF ServerInv
<1>2. /\ op[a] \in Calls /\ Now(a) = "create" /\ "create" \in Heads(op[a])
      /\ op' = [op EXCEPT ![a] = "none"] /\ Now(a)' = "none"
      /\ \A b \in Agents \ {a} : Now(b)' = Now(b)
  BY <1>1, RestStep DEF CreateFails, At, Types, Plans, Now
<1>3. Plans' /\ DOMAIN todo' = Agents
  BY <1>1 DEF CreateFails, Types, Plans, Agents
<1>4. Types'
  BY <1>1, <1>2, <1>3 DEF Types, CreateFails, At, MayRun, words, rtems, Heads, Calls, Agents
<1>5. Discipline'
  BY <1>1, <1>2, <1>3 DEF Types, Discipline, CreateFails, At, MayRun, words, rtems, Heads, Calls, Agents
<1>6. MagicMeansLive'
  BY <1>1, <1>2, <1>3
    DEF Types, Discipline, MagicMeansLive, CreateFails, At, MayRun, words, rtems, Heads, Calls,
        Agents
<1>7. TestStands'
  BY <1>1, <1>2, <1>3
    DEF Types, Discipline, MagicMeansLive, ServerFirst, TestStands, AllIdle, CreateFails, At,
        MayRun, words, rtems, Heads, Calls, Agents
<1>8. QuietDuring'
  BY <1>1, <1>2, <1>3
    DEF Types, Discipline, MagicMeansLive, ServerFirst, QuietDuring, AllIdle, CreateFails, At,
        MayRun, words, rtems, Heads, Calls, Agents
<1>9. QuietAfter'
  BY <1>1, <1>2, <1>3
    DEF Types, Discipline, MagicMeansLive, ServerFirst, QuietAfter, AllIdle, CreateFails, At,
        MayRun, words, rtems, Heads, Calls, Agents
<1>10. PairIsWhole'
  BY <1>1, <1>2, <1>3
    DEF Types, Discipline, MagicMeansLive, ServerFirst, PairIsWhole, AllIdle, CreateFails, At,
        MayRun, words, rtems, Heads, Calls, Agents
<1>. QED BY <1>3, <1>4, <1>5, <1>6, <1>7, <1>8, <1>9, <1>10 DEF ServerInv, ServerFirst

LEMMA CallStep ==
  ASSUME ServerInv, NEW a \in Agents, NEW call \in Calls, Call(a, call)
  PROVE  ServerInv'
<1>1. Types /\ Plans /\ Discipline /\ MagicMeansLive /\ ServerFirst
  BY DEF ServerInv
<1>2. /\ op[a] = "none"
      /\ op' = [op EXCEPT ![a] = call]
      /\ Now(a)' = Head(Steps(call))
      /\ \A b \in Agents \ {a} : Now(b)' = Now(b)
  BY <1>1, RestStep, StepsBegin DEF Call, Types, Plans, Now
<1>3. Plans' /\ DOMAIN todo' = Agents
  BY <1>1, StepsBegin DEF Call, Types, Plans, Agents, Calls
<1>4. Head(Steps(call)) =
        CASE call = "setfn" -> IF magic THEN "cancel" ELSE "create"
          [] call = "armOnce" -> "once" [] call = "armRepeat" -> "repeat"
          [] call = "disarm" -> "once"  [] call = "done" -> "forget"
  BY StepsBegin
<1>5. Types'
  BY <1>1, <1>2, <1>3, <1>4 DEF Types, Call, MayRun, words, rtems, Calls, Agents
<1>6. Discipline'
  BY <1>1, <1>2, <1>3, <1>4 DEF Types, Discipline, Call, MayRun, words, rtems, Calls, Agents
<1>7. MagicMeansLive'
  BY <1>1, <1>2, <1>3, <1>4
    DEF Types, Discipline, MagicMeansLive, Call, MayRun, words, rtems, Calls, Agents
<1>8. TestStands'
  BY <1>1, <1>2, <1>3, <1>4
    DEF Types, Discipline, MagicMeansLive, ServerFirst, TestStands, AllIdle, Call, MayRun, words,
        rtems, Calls, Agents
<1>9. QuietDuring'
  BY <1>1, <1>2, <1>3, <1>4
    DEF Types, Discipline, MagicMeansLive, ServerFirst, QuietDuring, AllIdle, Call, MayRun, words,
        rtems, Calls, Agents
<1>10. QuietAfter'
  BY <1>1, <1>2, <1>3, <1>4
    DEF Types, Discipline, MagicMeansLive, ServerFirst, QuietAfter, AllIdle, Call, MayRun, words,
        rtems, Calls, Agents
<1>11. PairIsWhole'
  BY <1>1, <1>2, <1>3, <1>4
    DEF Types, Discipline, MagicMeansLive, ServerFirst, PairIsWhole, AllIdle, Call, MayRun, words,
        rtems, Calls, Agents
<1>. QED BY <1>3, <1>5, <1>6, <1>7, <1>8, <1>9, <1>10, <1>11 DEF ServerInv, ServerFirst

LEMMA ServerStep ==
  ASSUME ServerInv, Routine
  PROVE  ServerInv'
<1>1. Types /\ Plans /\ Discipline /\ MagicMeansLive /\ ServerFirst
  BY DEF ServerInv
<1>2. Plans' /\ DOMAIN todo' = Agents /\ \A a \in Agents : Now(a)' = Now(a)
  BY <1>1 DEF Routine, CheckMagic, CheckRepeat, Rearm, CheckFunc, CallFunc, CallbackReturns,
              history, Types, Plans, Now
<1>3. Types'
  BY <1>1, <1>2
    DEF Types, Routine, CheckMagic, CheckRepeat, Rearm, FireAfter, CheckFunc, CallFunc,
        CallbackReturns, words, rtems, history, Calls, Agents
<1>4. Discipline'
  BY <1>1, <1>2, RestStep
    DEF Plans, Types, Discipline, Routine, CheckMagic, CheckRepeat, Rearm, FireAfter, CheckFunc,
        CallFunc, CallbackReturns, words, rtems, history, Calls, Agents
<1>5. MagicMeansLive'
  BY <1>1, <1>2
    DEF Types, Discipline, MagicMeansLive, Routine, CheckMagic, CheckRepeat, Rearm, FireAfter,
        CheckFunc, CallFunc, CallbackReturns, words, rtems, history, Calls, Agents
<1>6. TestStands'
  BY <1>1, <1>2
    DEF Types, Discipline, MagicMeansLive, ServerFirst, TestStands, AllIdle, Routine, CheckMagic,
        CheckRepeat, Rearm, FireAfter, CheckFunc, CallFunc, CallbackReturns, words, rtems, history,
        Calls, Agents
<1>7. QuietDuring'
  BY <1>1, <1>2
    DEF Types, Discipline, MagicMeansLive, ServerFirst, QuietDuring, AllIdle, Routine, CheckMagic,
        CheckRepeat, Rearm, FireAfter, CheckFunc, CallFunc, CallbackReturns, words, rtems, history,
        Calls, Agents
<1>8. QuietAfter'
  BY <1>1, <1>2
    DEF Types, Discipline, MagicMeansLive, ServerFirst, QuietAfter, AllIdle, Routine, CheckMagic,
        CheckRepeat, Rearm, FireAfter, CheckFunc, CallFunc, CallbackReturns, words, rtems, history,
        Calls, Agents
<1>9. PairIsWhole'
  BY <1>1, <1>2
    DEF QuietDuring, Types, Discipline, MagicMeansLive, ServerFirst, PairIsWhole, AllIdle, Routine,
        CheckMagic, CheckRepeat, Rearm, FireAfter, CheckFunc, CallFunc, CallbackReturns, words,
        rtems, history, Calls, Agents
<1>. QED BY <1>2, <1>3, <1>4, <1>5, <1>6, <1>7, <1>8, <1>9 DEF ServerInv, ServerFirst

LEMMA ListStep ==
  ASSUME ServerInv, NEW i \in Ids, Expire(i) \/ Take(i)
  PROVE  ServerInv'
<1>1. Types /\ Plans /\ Discipline /\ MagicMeansLive /\ ServerFirst
  BY DEF ServerInv
<1>2. Plans' /\ DOMAIN todo' = Agents /\ \A a \in Agents : Now(a)' = Now(a)
  BY <1>1 DEF Expire, Take, history, Types, Plans, Now
<1>3. Types'
  BY <1>1, <1>2 DEF Types, Expire, Take, words, history, Calls, Agents
<1>4. Discipline'
  BY <1>1, <1>2, RestStep DEF Plans, Types, Discipline, Expire, Take, words, history, Calls, Agents
<1>5. MagicMeansLive'
  BY <1>1, <1>2 DEF Types, Discipline, MagicMeansLive, Expire, Take, words, history, Calls, Agents
<1>6. TestStands'
  BY <1>1, <1>2
    DEF Types, Discipline, MagicMeansLive, ServerFirst, TestStands, AllIdle, Expire, Take, words,
        history, Calls, Agents
<1>7. QuietDuring'
  BY <1>1, <1>2
    DEF Types, Discipline, MagicMeansLive, ServerFirst, QuietDuring, AllIdle, Expire, Take, words,
        history, Calls, Agents
<1>8. QuietAfter'
  BY <1>1, <1>2
    DEF Types, Discipline, MagicMeansLive, ServerFirst, QuietAfter, AllIdle, Expire, Take, words,
        history, Calls, Agents
<1>9. PairIsWhole'
  BY <1>1, <1>2
    DEF QuietDuring, Types, Discipline, MagicMeansLive, ServerFirst, PairIsWhole, AllIdle, Expire,
        Take, words, history, Calls, Agents
<1>. QED BY <1>2, <1>3, <1>4, <1>5, <1>6, <1>7, <1>8, <1>9 DEF ServerInv, ServerFirst
------------------------------------------------------------------------------
LEMMA InitHolds == Init => ServerInv
<1>. SUFFICES ASSUME Init PROVE ServerInv
  OBVIOUS
<1>1. /\ \A a \in Agents : todo[a] = <<>> /\ op[a] = "none"
      /\ DOMAIN todo = Agents /\ op \in [Agents -> Calls \union {"none"}]
  BY DEF Init, Agents
<1>2. Types
  BY <1>1 DEF Init, Types, Agents
<1>3. Plans /\ Discipline
  BY <1>1 DEF Plans, Discipline, Agents
<1>4. MagicMeansLive
  BY <1>1 DEF Init, MagicMeansLive
<1>5. ServerFirst
  BY <1>1 DEF Init, ServerFirst, TestStands, QuietDuring, QuietAfter, PairIsWhole, Agents
<1>. QED BY <1>2, <1>3, <1>4, <1>5 DEF ServerInv

LEMMA StutterStep == ServerInv /\ UNCHANGED vars => ServerInv'
<1>. SUFFICES ASSUME ServerInv, UNCHANGED vars PROVE ServerInv'
  OBVIOUS
<1>. USE DEF vars, words, rtems, history
<1>1. Types' /\ Plans' /\ Discipline'
  BY DEF ServerInv, Types, Plans, Discipline
<1>2. \A a \in Agents : Now(a)' = Now(a)
  BY DEF Now
<1>3. MagicMeansLive'
  BY <1>2 DEF ServerInv, MagicMeansLive
<1>4. TestStands' /\ QuietDuring' /\ QuietAfter' /\ PairIsWhole'
  BY <1>2 DEF ServerInv, ServerFirst, TestStands, QuietDuring, QuietAfter, PairIsWhole, AllIdle, Agents
<1>. QED BY <1>1, <1>3, <1>4 DEF ServerInv, ServerFirst

LEMMA StepHolds == ServerInv /\ [Next]_vars => ServerInv'
BY CreateStep, CreateFailsStep, WordStep, FireStep, CancelStep, DeleteStep, CallStep, ServerStep,
   ListStep, StutterStep
   DEF Next, AgentStep

(* The invariant of the timer, whoever calls.                                *)
THEOREM ServerInvHolds == Spec => []ServerInv
BY InitHolds, StepHolds, PTL DEF Spec

(* Types, and one RTEMS timer for the ETS timer exactly while it has its      *)
(* magic, whatever setfn and done are called, by whomever.                   *)
THEOREM TimerInvHolds == Spec => []TimerInv
<1>1. ServerInv => TimerInv
  <2>. SUFFICES ASSUME ServerInv PROVE TimerInv
    OBVIOUS
  <2>1. \A a \in Agents : Len(todo[a]) \in 0 .. 6
    BY RestStep DEF ServerInv, Types, Plans
  <2>2. TypeOK
    BY <2>1 DEF ServerInv, Types, MagicMeansLive, TypeOK
  <2>3. live \subseteq {id}
    <3>1. CASE magic \/ \A a \in Agents : op[a] # "done"
      BY <3>1 DEF ServerInv, MagicMeansLive, Types
    <3>2. ASSUME NEW a \in Agents, op[a] = "done" PROVE live \subseteq {id}
      <4>1. Now(a) \in Heads("done")
        BY <3>2, RestStep DEF ServerInv, Plans, Now, Calls
      <4>. QED BY <3>2, <4>1 DEF ServerInv, MagicMeansLive, Types, Heads
    <3>. QED BY <3>1, <3>2
  <2>4. Cardinality(live) <= 1
    <3>1. IsFiniteSet({id}) /\ Cardinality({id}) = 1
      BY FS_Singleton
    <3>. QED BY <2>3, <3>1, FS_Subset
  <2>5. Quiet => \A a \in Agents : op[a] = "none"
    BY RestStep DEF ServerInv, Types, Plans, Quiet
  <2>6. /\ magic => live = {id}
        /\ Quiet /\ ~magic => live = {}
    BY <2>5 DEF ServerInv, Types, MagicMeansLive
  <2>. QED BY <2>2, <2>4, <2>6 DEF TimerInv, OneRtemsTimer
<1>. QED BY <1>1, ServerInvHolds, PTL

(* A caller below the timer server never makes it use the id of a timer that  *)
(* is gone.                                                                 *)
THEOREM NoStaleIdHolds == Spec => []NoStaleId
<1>1. ServerInv => NoStaleId
  BY DEF ServerInv, Types, ServerFirst, TestStands, NoStaleId
<1>. QED BY <1>1, ServerInvHolds, PTL

(* After a disarm, a done or a change of callback by a caller below the timer *)
(* server nothing is armed, so no period gets through.                       *)
THEOREM DisarmIsFinalHolds == Spec => []DisarmIsFinal
<1>1. ServerInv => DisarmIsFinal
  BY DEF ServerInv, Types, ServerFirst, QuietAfter, AllIdle, DisarmIsFinal
<1>. QED BY <1>1, ServerInvHolds, PTL

(* The routine hands a callback its own argument, the caller being below it.  *)
THEOREM CallbackIsOwnHolds == Spec => []CallbackIsOwn
<1>1. ServerInv => CallbackIsOwn
  BY DEF ServerInv, Types, ServerFirst, PairIsWhole, CallbackIsOwn
<1>. QED BY <1>1, ServerInvHolds, PTL
------------------------------------------------------------------------------
(* The event group: nobody sleeps on bits that are there, and a set reaches   *)
(* every waiter that it satisfies.                                          *)
(* Fewer bits satisfy no wait that more bits did not.                       *)
LEMMA SatisfiedIsMonotone ==
  ASSUME NEW w, NEW fewer, NEW more, fewer \subseteq more, SatisfiedBy(w, fewer)
  PROVE  SatisfiedBy(w, more)
  BY DEF SatisfiedBy

(* Whether a wait is satisfied depends on the bits of its mask alone.         *)
LEMMA SatisfiedByMask ==
  ASSUME NEW w, NEW value, NEW gone, w.mask \intersect gone = {}, SatisfiedBy(w, value)
  PROVE  SatisfiedBy(w, value \ gone)
  BY DEF SatisfiedBy

(* Who is owed the bits is on its way to look, and will find them.           *)
OwedFinds == \A t \in owed : state[t] = "look" /\ Satisfied(t)

GInv == GroupInv /\ OwedFinds

LEMMA InitGroup == GroupInit => GInv
<1> SUFFICES ASSUME GroupInit PROVE GInv
  OBVIOUS
<1>1. GroupTypeOK
  BY DEF GroupInit, GroupTypeOK, Out
<1>2. NoSatisfiedSleeper
  BY DEF GroupInit, NoSatisfiedSleeper, Asleep
<1>3. OwedFinds
  BY DEF GroupInit, OwedFinds
<1> QED BY <1>1, <1>2, <1>3 DEF GInv, GroupInv

(* A broadcast leaves nobody asleep.                                        *)
LEMMA SetGroup ==
  ASSUME GInv, NEW mask \in SUBSET Bits, SetBits(mask)
  PROVE  GInv'
<1>1. GroupTypeOK'
  <2>1. owed' \subseteq Tasks
    BY DEF GInv, GroupInv, GroupTypeOK, SetBits, SatisfiedWith
  <2>2. /\ bits' = bits \union mask
        /\ state' = [t \in Tasks |-> IF t \in Asleep THEN "look" ELSE state[t]]
        /\ UNCHANGED <<wait, timedOut>>
    BY DEF SetBits
  <2> QED BY <2>1, <2>2 DEF GInv, GroupInv, GroupTypeOK, Asleep, Out
<1>2. Asleep' = {}
  BY DEF GInv, GroupInv, GroupTypeOK, SetBits, Asleep
<1>3. OwedFinds'
  <2> SUFFICES ASSUME NEW t \in owed' PROVE state'[t] = "look" /\ Satisfied(t)'
    BY DEF OwedFinds
  <2>1. t \in Tasks /\ bits' = bits \union mask /\ wait' = wait
    BY DEF GInv, GroupInv, GroupTypeOK, SetBits, SatisfiedWith
  <2>2. t \in owed \/ t \in SatisfiedWith(bits \union mask)
    BY DEF SetBits
  <2>3. state'[t] = "look"
    BY <2>1, <2>2 DEF GInv, GroupInv, GroupTypeOK, SetBits, SatisfiedWith, OwedFinds, Asleep, Out
  <2>4. SatisfiedBy(wait[t], bits \union mask)
    BY <2>2, SatisfiedIsMonotone DEF GInv, OwedFinds, SatisfiedWith, Satisfied
  <2> QED BY <2>1, <2>3, <2>4 DEF Satisfied
<1> QED BY <1>1, <1>2, <1>3 DEF GInv, GroupInv, NoSatisfiedSleeper

LEMMA ClearGroup ==
  ASSUME GInv, NEW mask \in SUBSET Bits, ClearBits(mask)
  PROVE  GInv'
<1> USE DEF GInv, GroupInv, ClearBits, task
<1>1. GroupTypeOK'
  BY DEF GroupTypeOK
<1>2. NoSatisfiedSleeper'
  BY SatisfiedIsMonotone DEF NoSatisfiedSleeper, Asleep, Satisfied
<1>3. OwedFinds'
  <2> SUFFICES ASSUME NEW t \in owed' PROVE state'[t] = "look" /\ Satisfied(t)'
    BY DEF OwedFinds
  <2>1. t \in owed /\ t \in Tasks /\ t \notin Robbed(mask \intersect bits)
    BY DEF GroupTypeOK
  <2>2. wait[t].mask \intersect (mask \intersect bits) = {}
    BY <2>1 DEF Robbed
  <2>3. state[t] = "look" /\ SatisfiedBy(wait[t], bits)
    BY <2>1 DEF OwedFinds, Satisfied
  <2>4. SatisfiedBy(wait[t], bits \ (mask \intersect bits))
    BY <2>2, <2>3, SatisfiedByMask
  <2>5. bits' = bits \ (mask \intersect bits) /\ UNCHANGED <<state, wait>>
    OBVIOUS
  <2> QED BY <2>3, <2>4, <2>5 DEF Satisfied
<1> QED BY <1>1, <1>2, <1>3

LEMMA WaitGroup ==
  ASSUME GInv, NEW t \in Tasks, NEW w \in Waits, WaitBits(t, w)
  PROVE  GInv'
<1> USE DEF GInv, GroupInv, WaitBits
<1>1. GroupTypeOK'
  BY DEF GroupTypeOK, Out
<1>2. NoSatisfiedSleeper'
  BY DEF GroupTypeOK, NoSatisfiedSleeper, Asleep, Satisfied
<1>3. OwedFinds'
  BY DEF GroupTypeOK, OwedFinds, Satisfied
<1> QED BY <1>1, <1>2, <1>3

(* Who takes the bits has them; the others have fewer.                      *)
LEMMA TakeGroup ==
  ASSUME GInv, NEW t \in Tasks, TakeBits(t)
  PROVE  GInv'
<1> USE DEF GInv, GroupInv, TakeBits, Return
<1>1. PICK gone \in SUBSET bits :
        bits' = bits \ gone /\ owed' = owed \ ({t} \union Robbed(gone))
  <2> DEFINE mine == IF wait[t].clear THEN wait[t].mask \intersect bits ELSE {}
  <2>1. mine \in SUBSET bits
    OBVIOUS
  <2> QED BY <2>1
<1>2. GroupTypeOK'
  BY <1>1 DEF GroupTypeOK, Out
<1>3. NoSatisfiedSleeper'
  <2> SUFFICES ASSUME NEW u \in Asleep', Satisfied(u)' PROVE FALSE
    BY DEF NoSatisfiedSleeper
  <2>1. u # t /\ u \in Asleep /\ wait'[u] = wait[u]
    BY DEF GroupTypeOK, Asleep
  <2>2. bits' \subseteq bits
    BY <1>1
  <2> QED BY <2>1, <2>2, SatisfiedIsMonotone DEF NoSatisfiedSleeper, Satisfied
<1>4. OwedFinds'
  <2> SUFFICES ASSUME NEW u \in owed' PROVE state'[u] = "look" /\ Satisfied(u)'
    BY DEF OwedFinds
  <2>1. u \in owed /\ u \in Tasks /\ u # t /\ wait[u].mask \intersect gone = {}
    BY <1>1 DEF Robbed, GroupTypeOK
  <2>2. state'[u] = state[u] /\ wait'[u] = wait[u]
    BY <2>1 DEF GroupTypeOK
  <2>3. state[u] = "look" /\ SatisfiedBy(wait[u], bits \ gone)
    BY <2>1, SatisfiedByMask DEF OwedFinds, Satisfied
  <2> QED BY <1>1, <2>2, <2>3 DEF Satisfied
<1> QED BY <1>2, <1>3, <1>4

(* A look at bits that do not satisfy ends the wait or sleeps, and a wakeup   *)
(* looks again.                                                             *)
LEMMA LookGroup ==
  ASSUME GInv, NEW t \in Tasks,
         GiveUp(t) \/ Sleep(t) \/ \E late \in BOOLEAN : Wake(t, late)
  PROVE  GInv'
<1> USE DEF GInv, GroupInv, GiveUp, Sleep, Wake, Return
<1>1. GroupTypeOK'
  BY DEF GroupTypeOK, Out
<1>2. NoSatisfiedSleeper'
  BY DEF GroupTypeOK, NoSatisfiedSleeper, Asleep, Satisfied
<1>3. OwedFinds'
  BY DEF GroupTypeOK, OwedFinds, Satisfied
<1> QED BY <1>1, <1>2, <1>3

LEMMA NextGroup == GInv /\ [GroupNext]_groupVars => GInv'
<1> SUFFICES ASSUME GInv, [GroupNext]_groupVars PROVE GInv'
  OBVIOUS
<1>1. ASSUME NEW mask \in SUBSET Bits, SetBits(mask) \/ ClearBits(mask) PROVE GInv'
  BY <1>1, SetGroup, ClearGroup
<1>2. ASSUME NEW t \in Tasks, NEW w \in Waits, WaitBits(t, w) PROVE GInv'
  BY <1>2, WaitGroup
<1>3. ASSUME NEW t \in Tasks, Look(t) \/ \E late \in BOOLEAN : Wake(t, late) PROVE GInv'
  BY <1>3, TakeGroup, LookGroup DEF Look
<1>4. CASE UNCHANGED groupVars
  BY <1>4 DEF GInv, OwedFinds, GroupInv, GroupTypeOK, NoSatisfiedSleeper, Asleep,
              Satisfied, groupVars, task
<1> QED BY <1>1, <1>2, <1>3, <1>4 DEF GroupNext

LEMMA GroupHolds == GroupSpec => []GInv
<1> QED BY InitGroup, NextGroup, PTL DEF GroupSpec

(* No waiter is asleep while the bits it waits for are there.               *)
THEOREM NobodySleepsSatisfied == GroupSpec => []GroupInv
<1>1. GInv => GroupInv
  BY DEF GInv
<1> QED BY <1>1, GroupHolds, PTL

(* Whom a set satisfies is on its way to find that out, unless a clear took   *)
(* one of its bits first: for any number of waiters, masks and timeouts.      *)
THEOREM SetReachesAllHolds == GroupSpec => []SetReachesAll
<1>1. GInv => SetReachesAll
  BY DEF GInv, OwedFinds, SetReachesAll
<1> QED BY <1>1, GroupHolds, PTL
==============================================================================
