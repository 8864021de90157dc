--------------------------- MODULE InterruptsProofs ---------------------------
(***************************************************************************)
(* Proofs about the critical sections and the interrupt routing.  The       *)
(* sections of IntLock stay masked, for any number of locks nested to any     *)
(* depth in one another and in themselves; they give back the level they     *)
(* found, but for the one kind that cannot, and do so under the interrupts of *)
(* Interrupts.  The channel table keeps its invariant, and with it every     *)
(* call of a handler is the handler's own, for any number of channels,       *)
(* sources and locks.                                                       *)
(***************************************************************************)
EXTENDS Interrupts, TLAPS

Entry == [lock : Locks, found : BOOLEAN, reused : BOOLEAN]

(* What Front and Last give of a sequence that is not empty.                *)
LEMMA FrontAndLast ==
  ASSUME NEW S, NEW s \in Seq(S), s # <<>>
  PROVE  /\ Len(s) \in DOMAIN s /\ Last(s) = s[Len(s)] /\ Last(s) \in S
         /\ Front(s) \in Seq(S)
         /\ \A i \in DOMAIN Front(s) :
              i \in DOMAIN s /\ i < Len(s) /\ Front(s)[i] = s[i]
         /\ Front(s) # <<>> => Len(s) > 1
<1>1. Len(s) \in Nat /\ Len(s) # 0 /\ DOMAIN s = 1..Len(s)
  OBVIOUS
<1>2. Len(s) \in DOMAIN s /\ Last(s) = s[Len(s)] /\ Last(s) \in S
  BY <1>1 DEF Last
<1>3. Front(s) \in Seq(S) /\ Len(Front(s)) = Len(s) - 1
  BY <1>1 DEF Front
<1>4. \A i \in 1..(Len(s) - 1) : Front(s)[i] = s[i]
  BY <1>1 DEF Front
<1>5. DOMAIN Front(s) = 1..(Len(s) - 1)
  BY <1>3
<1>6. \A i \in DOMAIN Front(s) : i \in DOMAIN s /\ i < Len(s) /\ Front(s)[i] = s[i]
  BY <1>1, <1>4, <1>5
<1>7. Front(s) # <<>> => Len(s) > 1
  BY <1>1, <1>3
<1> QED BY <1>2, <1>3, <1>6, <1>7

(* No section is open at first.                                            *)
LEMMA InitLocks == Init => LockInv
<1> SUFFICES ASSUME Init PROVE LockInv
  OBVIOUS
<1>1. \A w \in {"task", "isr"} : open[w] = <<>> /\ DOMAIN open[w] = {}
  BY DEF Init
<1>2. <<>> \in Seq(Entry)
  OBVIOUS
<1>3. TypeOK
  BY <1>2 DEF Init, TypeOK, Entry
<1>4. OffIsExplained
  BY <1>1 DEF Init, OffIsExplained
<1> QED BY <1>1, <1>3, <1>4 DEF LockInv, ContextHolds, SectionsAreMasked, FoundByPlace

(* An entry keeps the lock and the level of the sections around it, and marks *)
(* those of its own lock.                                                   *)
LEMMA ReusedKeeps ==
  ASSUME TypeOK, NEW l \in Locks
  PROVE  LET s == open[Where]
         IN  /\ Reused(l) \in Seq(Entry) /\ Len(Reused(l)) = Len(s)
             /\ DOMAIN Reused(l) = DOMAIN s
             /\ \A i \in DOMAIN s :
                  /\ Reused(l)[i].lock = s[i].lock /\ Reused(l)[i].found = s[i].found
                  /\ Reused(l)[i].reused = (s[i].reused \/ s[i].lock = l)
<1> DEFINE s == open[Where]
<1>1. Where \in {"task", "isr"}
  BY DEF Where
<1>2. s \in Seq(Entry)
  BY <1>1 DEF TypeOK, Entry
<1>3. Len(s) \in Nat /\ DOMAIN s = 1..Len(s) /\ \A i \in DOMAIN s : s[i] \in Entry
  BY <1>2
<1>4. DOMAIN Reused(l) = DOMAIN s
  BY DEF Reused
<1>5. \A i \in DOMAIN s :
        /\ Reused(l)[i] \in Entry
        /\ Reused(l)[i].lock = s[i].lock /\ Reused(l)[i].found = s[i].found
        /\ Reused(l)[i].reused = (s[i].reused \/ s[i].lock = l)
  <2> SUFFICES ASSUME NEW i \in DOMAIN s
               PROVE  /\ Reused(l)[i] \in Entry
                      /\ Reused(l)[i].lock = s[i].lock /\ Reused(l)[i].found = s[i].found
                      /\ Reused(l)[i].reused = (s[i].reused \/ s[i].lock = l)
    OBVIOUS
  <2>1. s[i] \in Entry
    BY <1>3
  <2>2. Reused(l)[i] = [s[i] EXCEPT !.reused = s[i].reused \/ s[i].lock = l]
    BY DEF Reused
  <2>3. (s[i].reused \/ s[i].lock = l) \in BOOLEAN
    BY <2>1 DEF Entry
  <2> QED BY <2>1, <2>2, <2>3 DEF Entry
<1>6. Reused(l) \in Seq(Entry) /\ Len(Reused(l)) = Len(s)
  <2>1. Reused(l) = [i \in 1..Len(s) |-> Reused(l)[i]]
    BY <1>3 DEF Reused
  <2>2. Reused(l) \in [1..Len(s) -> Entry]
    BY <1>3, <1>5, <2>1
  <2> QED BY <1>3, <2>2
<1> QED BY <1>4, <1>5, <1>6

(* The new section's entry found what the place says, and the sections of the *)
(* same lock around it have lost their level.                               *)
LEMMA EnterLocks ==
  ASSUME LockInv, NEW l \in Locks, Enter(l)
  PROVE  LockInv'
<1> DEFINE e == Entered(l)
           old == Reused(l)
           n == Len(open[Where]) + 1
<1>1. /\ TypeOK /\ ContextHolds /\ SectionsAreMasked /\ FoundByPlace /\ OffIsExplained
      /\ e \in Entry /\ e.lock = l /\ e.found = enabled /\ e.reused = FALSE
  BY DEF LockInv, TypeOK, Entry, Entered
<1>2. Where \in {"task", "isr"} /\ open[Where] \in Seq(Entry) /\ Where' = Where
  BY <1>1 DEF Where, TypeOK, Entry, Enter
<1>3. /\ open' = [open EXCEPT ![Where] = Append(old, e)]
      /\ context' = [context EXCEPT ![l] = enabled]
      /\ enabled' = FALSE /\ inIsr' = inIsr /\ leftOff' = leftOff
  BY DEF Enter
<1>4. /\ old \in Seq(Entry) /\ Len(old) = Len(open[Where]) /\ DOMAIN old = DOMAIN open[Where]
      /\ \A i \in DOMAIN open[Where] :
           /\ old[i].lock = open[Where][i].lock /\ old[i].found = open[Where][i].found
           /\ old[i].reused = (open[Where][i].reused \/ open[Where][i].lock = l)
  BY <1>1, ReusedKeeps
<1> HIDE DEF e, old
<1>5. open'[Where] = Append(old, e) /\ open'[Where] \in Seq(Entry)
  BY <1>1, <1>2, <1>3, <1>4 DEF TypeOK
<1>6. /\ DOMAIN open'[Where] = DOMAIN open[Where] \union {n}
      /\ \A i \in DOMAIN open[Where] : open'[Where][i] = old[i] /\ i # n
      /\ open'[Where][n] = e
      /\ n = 1 <=> open[Where] = <<>>
  BY <1>1, <1>2, <1>4, <1>5
<1>7. \A w \in {"task", "isr"} : w # Where => open'[w] = open[w] /\ open[w] = <<>>
  BY <1>1, <1>2, <1>3 DEF TypeOK, SectionsAreMasked
<1>8. TypeOK'
  BY <1>1, <1>2, <1>3, <1>5 DEF TypeOK, Entry
<1>9. ContextHolds'
  <2> SUFFICES ASSUME NEW w \in {"task", "isr"}, NEW i \in DOMAIN open'[w]
               PROVE  context'[open'[w][i].lock] = (open'[w][i].found /\ ~open'[w][i].reused)
    BY DEF ContextHolds
  <2>1. w = Where
    BY <1>7
  <2>2. CASE i \in DOMAIN open[Where]
    <3>1. open[Where][i] \in Entry
      BY <1>2, <2>2
    <3>2. open'[Where][i] = old[i]
      BY <1>6, <2>2
    <3>3. /\ old[i].lock = open[Where][i].lock /\ old[i].found = open[Where][i].found
          /\ old[i].reused = (open[Where][i].reused \/ open[Where][i].lock = l)
      BY <1>4, <2>2
    <3>4. context[open[Where][i].lock] = (open[Where][i].found /\ ~open[Where][i].reused)
      BY <1>1, <1>2, <2>2 DEF ContextHolds
    <3>5. CASE open[Where][i].lock = l
      <4>1. enabled = FALSE
        BY <1>1, <1>2, <2>2 DEF SectionsAreMasked
      <4>2. context'[l] = FALSE
        BY <1>1, <1>3, <4>1 DEF TypeOK
      <4> QED BY <2>1, <3>2, <3>3, <3>5, <4>2
    <3>6. CASE open[Where][i].lock # l
      <4>1. context'[open[Where][i].lock] = context[open[Where][i].lock]
        BY <1>1, <1>3, <3>1, <3>6 DEF TypeOK, Entry
      <4> QED BY <2>1, <3>2, <3>3, <3>4, <3>6, <4>1
    <3> QED BY <3>5, <3>6
  <2>3. CASE i = n
    BY <1>1, <1>3, <1>6, <2>1, <2>3 DEF TypeOK
  <2> QED BY <1>6, <2>1, <2>2, <2>3
<1>10. SectionsAreMasked'
  BY <1>2, <1>3, <1>7 DEF SectionsAreMasked
<1>11. FoundByPlace'
  <2> SUFFICES ASSUME NEW w \in {"task", "isr"}, NEW i \in DOMAIN open'[w]
               PROVE  open'[w][i].found <=> i = 1 /\ w = "task" /\ ~leftOff
    BY <1>3 DEF FoundByPlace
  <2>1. w = Where
    BY <1>7
  <2>2. CASE i \in DOMAIN open[Where]
    BY <1>1, <1>2, <1>4, <1>6, <2>1, <2>2 DEF FoundByPlace
  <2>3. CASE i = n
    <3>1. open'[w][i].found <=> enabled
      BY <1>1, <1>6, <2>1, <2>3
    <3>2. enabled <=> ~inIsr /\ open["task"] = <<>> /\ ~leftOff
      BY <1>1 DEF OffIsExplained
    <3>3. w = "task" <=> ~inIsr
      BY <2>1 DEF Where
    <3> QED BY <1>6, <2>1, <2>3, <3>1, <3>2, <3>3
  <2> QED BY <1>6, <2>1, <2>2, <2>3
<1>12. OffIsExplained'
  <2>1. inIsr \/ open'["task"] # <<>>
    <3>1. CASE ~inIsr
      <4>1. n \in DOMAIN open'["task"]
        BY <1>6, <3>1 DEF Where
      <4> QED BY <4>1
    <3> QED BY <3>1
  <2>2. leftOff => ~inIsr
    BY <1>1 DEF OffIsExplained
  <2> QED BY <1>3, <2>1, <2>2 DEF OffIsExplained
<1> QED BY <1>8, <1>9, <1>10, <1>11, <1>12 DEF LockInv

(* The level that is given back is the one the context holds; if sections are *)
(* left around it, that was disabled.                                       *)
LEMMA ExitLocks ==
  ASSUME LockInv, Exit
  PROVE  LockInv' /\ enabled' = (Last(open[Where]).found /\ ~Last(open[Where]).reused)
<1> DEFINE left == Last(open[Where])
<1>1. TypeOK /\ ContextHolds /\ SectionsAreMasked /\ FoundByPlace /\ OffIsExplained
  BY DEF LockInv
<1>2. Where \in {"task", "isr"} /\ open[Where] \in Seq(Entry) /\ Where' = Where
  BY <1>1 DEF Where, TypeOK, Entry, Exit
<1>3. /\ open[Where] # <<>>
      /\ open' = [open EXCEPT ![Where] = Front(open[Where])]
      /\ enabled' = context[left.lock]
      /\ leftOff' = (leftOff \/ (left.found /\ left.reused))
      /\ context' = context /\ inIsr' = inIsr
  BY DEF Exit
<1>4. /\ Len(open[Where]) \in DOMAIN open[Where]
      /\ left = open[Where][Len(open[Where])]
      /\ left \in Entry
      /\ Front(open[Where]) \in Seq(Entry)
      /\ \A i \in DOMAIN Front(open[Where]) :
           i \in DOMAIN open[Where] /\ Front(open[Where])[i] = open[Where][i]
      /\ Front(open[Where]) # <<>> => Len(open[Where]) > 1
  BY <1>2, <1>3, FrontAndLast
<1>a. IF Len(open[Where]) = 1 THEN Front(open[Where]) = <<>>
                              ELSE Front(open[Where]) # <<>>
  <2>1. Len(open[Where]) \in Nat \ {0}
    BY <1>2, <1>3
  <2>2. Front(open[Where]) \in Seq(Entry) /\ Len(Front(open[Where])) = Len(open[Where]) - 1
    BY <1>2, <2>1 DEF Front
  <2>3. Len(open[Where]) = 1 => Front(open[Where]) = <<>>
    BY <2>2
  <2>4. Front(open[Where]) = <<>> => Len(Front(open[Where])) = 0
    OBVIOUS
  <2> QED BY <2>1, <2>2, <2>3, <2>4
<1> HIDE DEF left
<1>5. open'[Where] = Front(open[Where])
  BY <1>1, <1>2, <1>3 DEF TypeOK
<1>6. \A w \in {"task", "isr"} : w # Where => open'[w] = open[w] /\ open[w] = <<>>
  BY <1>1, <1>2, <1>3 DEF TypeOK, SectionsAreMasked
<1>7. enabled' = (left.found /\ ~left.reused)
  BY <1>1, <1>2, <1>3, <1>4 DEF ContextHolds
<1>8. TypeOK'
  <2>1. enabled' \in BOOLEAN /\ leftOff' \in BOOLEAN
    BY <1>1, <1>3, <1>4, <1>7 DEF Entry, TypeOK
  <2> QED BY <1>1, <1>2, <1>3, <1>4, <2>1 DEF TypeOK, Entry
<1>9. ContextHolds'
  <2> SUFFICES ASSUME NEW w \in {"task", "isr"}, NEW i \in DOMAIN open'[w]
               PROVE  context[open'[w][i].lock] = (open'[w][i].found /\ ~open'[w][i].reused)
    BY <1>3 DEF ContextHolds
  <2>1. w = Where
    BY <1>6
  <2> QED BY <1>1, <1>2, <1>4, <1>5, <2>1 DEF ContextHolds
<1>10. left.found <=> Len(open[Where]) = 1 /\ ~inIsr /\ ~leftOff
  <2>1. left.found <=> Len(open[Where]) = 1 /\ Where = "task" /\ ~leftOff
    BY <1>1, <1>2, <1>4 DEF FoundByPlace
  <2> QED BY <2>1 DEF Where
<1>11. SectionsAreMasked'
  <2>1. open'[Where] # <<>> => ~enabled'
    BY <1>5, <1>7, <1>10, <1>a
  <2> QED BY <1>2, <1>6, <2>1 DEF SectionsAreMasked
<1>12. FoundByPlace'
  <2> SUFFICES ASSUME NEW w \in {"task", "isr"}, NEW i \in DOMAIN open'[w]
               PROVE  open'[w][i].found <=> i = 1 /\ w = "task" /\ ~leftOff'
    BY DEF FoundByPlace
  <2>1. w = Where
    BY <1>6
  <2>2. ~left.found
    <3>1. Front(open[Where]) # <<>>
      BY <1>5, <2>1
    <3> QED BY <1>10, <1>a, <3>1
  <2>3. leftOff' = leftOff
    <3>1. leftOff \in BOOLEAN
      BY <1>1 DEF TypeOK
    <3> QED BY <1>3, <2>2, <3>1
  <2> QED BY <1>1, <1>2, <1>4, <1>5, <2>1, <2>3 DEF FoundByPlace
<1>13. OffIsExplained'
  <2>1. CASE inIsr
    <3>1. ~left.found /\ ~leftOff
      BY <1>1, <1>10, <2>1 DEF OffIsExplained
    <3> QED BY <1>3, <1>7, <2>1, <3>1 DEF OffIsExplained
  <2>2. CASE ~inIsr
    <3>1. Where = "task"
      BY <2>2 DEF Where
    <3>2. CASE Len(open[Where]) = 1
      <4>1. open'["task"] = <<>>
        BY <1>5, <1>a, <3>1, <3>2
      <4>2. left.found <=> ~leftOff
        BY <1>10, <2>2, <3>2
      <4>3. inIsr' = inIsr /\ leftOff' = (leftOff \/ (left.found /\ left.reused))
        BY <1>3
      <4>4. enabled' <=> ~leftOff'
        BY <1>7, <4>2, <4>3
      <4> QED BY <2>2, <4>1, <4>3, <4>4 DEF OffIsExplained
    <3>3. CASE Len(open[Where]) # 1
      <4>1. open'["task"] # <<>>
        BY <1>5, <1>a, <3>1, <3>3
      <4>2. ~left.found
        BY <1>10, <3>3
      <4>3. ~enabled'
        BY <1>7, <4>2
      <4> QED BY <1>3, <2>2, <4>1, <4>3 DEF OffIsExplained
    <3> QED BY <3>2, <3>3
  <2> QED BY <2>1, <2>2
<1> QED BY <1>7, <1>8, <1>9, <1>11, <1>12, <1>13 DEF LockInv, left

(* An interrupt comes only outside sections and leaves none open.           *)
LEMMA InterruptLocks ==
  ASSUME LockInv, Interrupt \/ InterruptReturns \/ UNCHANGED vars
  PROVE  LockInv'
<1> USE DEF LockInv, TypeOK, ContextHolds, SectionsAreMasked, FoundByPlace, OffIsExplained, Where
<1>1. CASE Interrupt
  BY <1>1 DEF Interrupt
<1>2. CASE InterruptReturns
  BY <1>2 DEF InterruptReturns
<1>3. CASE UNCHANGED vars
  BY <1>3 DEF vars
<1> QED BY <1>1, <1>2, <1>3

(* The invariant is inductive.                                              *)
LEMMA NextLocks == LockInv /\ [Next]_vars => LockInv'
  BY EnterLocks, ExitLocks, InterruptLocks DEF Next

(* However sections nest, in one another's locks or their own, and whenever  *)
(* interrupts come: a section stays masked, its context holds the level its   *)
(* entry found until the same lock is entered inside it, and interrupts are   *)
(* off outside sections only after such a section was left.                  *)
THEOREM LocksHold == Spec => []LockInv
<1>1. Init => LockInv
  BY InitLocks
<1>2. LockInv /\ [Next]_vars => LockInv'
  BY NextLocks
<1> QED BY <1>1, <1>2, PTL DEF Spec

(* Leaving a section gives back the level its entry found, but for one whose  *)
(* lock was entered again inside it, which leaves interrupts off.            *)
THEOREM SectionsRestore == Spec => ExitRestores
<1> DEFINE Restores ==
      \A w \in {"task", "isr"} :
        Len(open'[w]) < Len(open[w]) =>
          enabled' = (Last(open[w]).found /\ ~Last(open[w]).reused)
<1>1. LockInv /\ [Next]_vars => [Restores]_vars
  <2> SUFFICES ASSUME LockInv, Next, NEW w \in {"task", "isr"},
                      Len(open'[w]) < Len(open[w])
               PROVE  enabled' = (Last(open[w]).found /\ ~Last(open[w]).reused)
    OBVIOUS
  <2>1. open \in [{"task", "isr"} -> Seq(Entry)] /\ Where \in {"task", "isr"}
    BY DEF LockInv, TypeOK, Entry, Where
  <2>2. ASSUME NEW l \in Locks, Enter(l) PROVE FALSE
    <3> DEFINE e == Entered(l)
    <3>1. open' = [open EXCEPT ![Where] = Append(Reused(l), e)]
      BY <2>2 DEF Enter
    <3>2. e \in Entry
      BY DEF LockInv, TypeOK, Entry, Entered
    <3>3. Reused(l) \in Seq(Entry) /\ Len(Reused(l)) = Len(open[Where])
      BY ReusedKeeps DEF LockInv
    <3> HIDE DEF e
    <3>4. Len(Append(Reused(l), e)) = Len(open[Where]) + 1
      BY <3>2, <3>3
    <3>5. \/ open'[w] = open[w]
          \/ open'[w] = Append(Reused(l), e) /\ w = Where
      BY <2>1, <3>1
    <3> QED BY <2>1, <3>4, <3>5
  <2>3. CASE Exit
    <3>1. w = Where
      BY <2>1, <2>3 DEF Exit
    <3> QED BY <2>3, <3>1, ExitLocks
  <2>4. CASE Interrupt \/ InterruptReturns
    BY <2>1, <2>4 DEF Interrupt, InterruptReturns
  <2> QED BY <2>2, <2>3, <2>4 DEF Next
<1>2. Spec => [][Next]_vars /\ []LockInv
  BY LocksHold, PTL DEF Spec
<1> QED BY <1>1, <1>2, PTL DEF ExitRestores

(* Every step of the interrupt model is a step of the locks or leaves them    *)
(* alone, so no routing, request or handler breaks a section.               *)
THEOREM InterruptsKeepSections == IntrSpec => Spec /\ []LockInv
<1>1. IntrInit => Init
  BY DEF IntrInit
<1>2. [IntrNext]_intrVars => [Next]_vars
  <2> SUFFICES ASSUME [IntrNext]_intrVars PROVE [Next]_vars
    OBVIOUS
  <2>1. ASSUME NEW c \in Channels,
               \/ \E s \in Sources : SetIntr(c, s)
               \/ \E f \in CallbacksOf[c] : StoreHandler(c, f)
               \/ ClearIntr(c) \/ Trampoline(c)
        PROVE  UNCHANGED vars
    BY <2>1 DEF SetIntr, StoreHandler, ClearIntr, Trampoline
  <2>2. CASE SetIsrGoesOn
    BY <2>2 DEF SetIsrGoesOn, StoreArgument, Install, InstallFails
  <2>3. ASSUME NEW mask \in Mask, IntsOn(mask) \/ IntsOff(mask) PROVE UNCHANGED vars
    BY <2>3 DEF IntsOn, IntsOff
  <2>4. ASSUME NEW s \in Sources, Request(s) \/ Deliver(s) PROVE [Next]_vars
    BY <2>4 DEF Request, Deliver, Next
  <2>5. CASE IsrReturns
    BY <2>5 DEF IsrReturns, Next
  <2>6. CASE Section
    BY <2>6 DEF Section, Next
  <2>7. CASE UNCHANGED intrVars
    BY <2>7 DEF intrVars
  <2> QED BY <2>1, <2>2, <2>3, <2>4, <2>5, <2>6, <2>7 DEF IntrNext
<1>3. IntrSpec => Spec
  BY <1>1, <1>2, PTL DEF IntrSpec, Spec
<1> QED BY <1>3, LocksHold, PTL
------------------------------------------------------------------------------
(* The invariant of the table is inductive with the types and the calls that *)
(* the interrupt handler has yet to make.                                   *)
RInv == RoutingTypeOK /\ RoutingInv /\ CallsAreOwn

LEMMA InitRouting == IntrInit => RInv
<1> SUFFICES ASSUME IntrInit PROVE RInv
  OBVIOUS
<1>1. (CHOOSE s \in Sources : TRUE) \in Sources
  BY InterruptsAssumption
<1>2. RoutingTypeOK
  BY <1>1 DEF IntrInit, Init, RoutingTypeOK
<1>3. RoutingInv
  BY DEF IntrInit, RoutingInv, Routed, OwnSource, OpenIsTaken, SettingIsShut, Paired
<1>4. CallsAreOwn
  BY DEF IntrInit, CallsAreOwn
<1> QED BY <1>2, <1>3, <1>4 DEF RInv

LEMMA SetIntrRouting ==
  ASSUME RInv, NEW c \in Channels, NEW s \in Sources, SetIntr(c, s)
  PROVE  RInv'
<1> USE DEF RInv, SetIntr, TaskRuns, table, irq, isr, vars
<1>1. RoutingTypeOK'
  BY DEF RoutingTypeOK
<1>2. Routed' /\ OwnSource'
  BY DEF RoutingTypeOK, RoutingInv, Routed, OwnSource
<1>3. OpenIsTaken'
  BY DEF RoutingTypeOK, RoutingInv, Routed, OpenIsTaken
<1>4. SettingIsShut' /\ Paired'
  BY DEF RoutingTypeOK, RoutingInv, SettingIsShut, Paired
<1>5. CallsAreOwn'
  BY DEF RoutingTypeOK, CallsAreOwn
<1> QED BY <1>1, <1>2, <1>3, <1>4, <1>5 DEF RoutingInv

LEMMA ClearIntrRouting ==
  ASSUME RInv, NEW c \in Channels, ClearIntr(c)
  PROVE  RInv'
<1> USE DEF RInv, ClearIntr, TaskRuns, irq, isr, vars
<1>1. RoutingTypeOK'
  BY DEF RoutingTypeOK
<1>2. Routed' /\ OwnSource'
  BY DEF RoutingTypeOK, RoutingInv, Routed, OwnSource
<1>3. OpenIsTaken'
  BY DEF RoutingTypeOK, RoutingInv, OpenIsTaken
<1>4. SettingIsShut' /\ Paired'
  BY DEF RoutingTypeOK, RoutingInv, SettingIsShut, Paired
<1>5. CallsAreOwn'
  BY DEF RoutingTypeOK, CallsAreOwn
<1> QED BY <1>1, <1>2, <1>3, <1>4, <1>5 DEF RoutingInv

(* The three stores of set_isr, with the install that fails.                 *)
LEMMA StoreHandlerRouting ==
  ASSUME RInv, NEW c \in Channels, NEW f \in Callbacks, StoreHandler(c, f)
  PROVE  RInv'
<1> USE DEF RInv, StoreHandler, SetsIsr, TaskRuns, irq, isr, vars
<1>0. setting' \in SetIsrCalls /\ setting'.channel = c /\ setting'.callback = f
      /\ setting'.step = "argument"
  BY DEF SetIsrCalls
<1>1. RoutingTypeOK'
  BY <1>0 DEF RoutingTypeOK
<1>2. Routed' /\ OwnSource' /\ OpenIsTaken'
  BY DEF RoutingTypeOK, RoutingInv, Routed, OwnSource, OpenIsTaken
<1>3. SettingIsShut'
  BY <1>0 DEF RoutingTypeOK, SettingIsShut
<1>4. Paired'
  BY <1>0, InterruptsAssumption DEF RoutingTypeOK, RoutingInv, Paired
<1>5. CallsAreOwn'
  BY DEF RoutingTypeOK, CallsAreOwn
<1> QED BY <1>1, <1>2, <1>3, <1>4, <1>5 DEF RoutingInv

LEMMA StoreArgumentRouting ==
  ASSUME RInv, StoreArgument
  PROVE  RInv'
<1> USE DEF RInv, StoreArgument, Setting, irq, isr, vars
<1>0. /\ setting \in SetIsrCalls /\ setting' \in SetIsrCalls
      /\ setting'.channel = setting.channel /\ setting'.callback = setting.callback
      /\ setting' # None
  BY InterruptsAssumption DEF RoutingTypeOK, SetIsrCalls
<1>1. setting.channel \in Channels /\ setting.callback \in Callbacks
  BY <1>0 DEF SetIsrCalls
<1>2. RoutingTypeOK'
  BY <1>0, <1>1 DEF RoutingTypeOK
<1>3. Routed' /\ OwnSource' /\ OpenIsTaken'
  BY DEF RoutingTypeOK, RoutingInv, Routed, OwnSource, OpenIsTaken
<1>4. SettingIsShut'
  BY <1>0, <1>1 DEF RoutingTypeOK, RoutingInv, SettingIsShut
<1>5. Paired'
  BY <1>0, <1>1 DEF RoutingTypeOK, RoutingInv, Paired
<1>6. CallsAreOwn'
  BY DEF RoutingTypeOK, CallsAreOwn
<1> QED BY <1>2, <1>3, <1>4, <1>5, <1>6 DEF RoutingInv

LEMMA InstallRouting ==
  ASSUME RInv, Install \/ InstallFails
  PROVE  RInv'
<1> USE DEF RInv, Install, InstallFails, Setting, table, irq, isr, vars
<1> DEFINE c == setting.channel
<1>0. setting \in SetIsrCalls /\ setting # None
  BY DEF RoutingTypeOK
<1>1. c \in Channels /\ setting.callback \in Callbacks /\ setting.step = "install"
  BY <1>0 DEF SetIsrCalls
<1>2. c \in mapped /\ state[c] \in {"routed", "off"}
  BY <1>0, <1>1 DEF RoutingInv, Routed, SettingIsShut
<1>3. /\ setting' = None
      /\ \/ state' = [state EXCEPT ![c] = "attached"] /\ unmasked' \subseteq unmasked \union {source[c]}
         \/ state' = [state EXCEPT ![c] = "off"] /\ unmasked' = unmasked
  OBVIOUS
<1>4. RoutingTypeOK'
  <2>1. source[c] \in Sources
    BY <1>1 DEF RoutingTypeOK
  <2>2. installed' \subseteq installed \union {<<source[c], c>>}
    OBVIOUS
  <2>3. installed' \subseteq Sources \X Channels /\ unmasked' \subseteq Sources
    BY <1>1, <1>3, <2>1, <2>2 DEF RoutingTypeOK
  <2>4. state' \in [Channels -> {"free", "routed", "attached", "on", "off"}]
    BY <1>1, <1>3 DEF RoutingTypeOK
  <2> QED BY <1>3, <2>3, <2>4 DEF RoutingTypeOK
<1>5. Routed' /\ OwnSource'
  BY <1>1, <1>2, <1>3 DEF RoutingTypeOK, RoutingInv, Routed, OwnSource
<1>6. OpenIsTaken'
  <2> SUFFICES ASSUME NEW s \in unmasked'
               PROVE  \E d \in mapped : source[d] = s /\ state'[d] \in {"attached", "on"}
    BY DEF OpenIsTaken
  <2>1. CASE s \in unmasked
    <3>1. PICK d \in mapped : source[d] = s /\ state[d] \in {"attached", "on"}
      BY <2>1 DEF RoutingInv, OpenIsTaken
    <3>2. d # c /\ d \in Channels
      BY <1>2, <3>1 DEF RoutingTypeOK
    <3>3. state'[d] = state[d]
      BY <1>1, <1>3, <3>2 DEF RoutingTypeOK
    <3> QED BY <3>1, <3>3
  <2>2. CASE s \notin unmasked
    <3>1. s = source[c] /\ state' = [state EXCEPT ![c] = "attached"]
      BY <1>3, <2>2
    <3>2. state'[c] = "attached"
      BY <1>1, <3>1 DEF RoutingTypeOK
    <3> QED BY <1>2, <3>1, <3>2
  <2> QED BY <2>1, <2>2
<1>7. SettingIsShut'
  BY <1>3 DEF SettingIsShut
<1>8. Paired'
  BY <1>0, <1>1, <1>3, InterruptsAssumption DEF RoutingTypeOK, RoutingInv, SettingIsShut, Paired
<1>9. CallsAreOwn'
  BY DEF RoutingTypeOK, CallsAreOwn
<1> QED BY <1>4, <1>5, <1>6, <1>7, <1>8, <1>9 DEF RoutingInv

(* The masks: what is switched on has been attached, and what is switched off *)
(* has its source to itself.                                                *)
LEMMA MaskRouting ==
  ASSUME RInv, NEW mask \in Mask, IntsOn(mask) \/ IntsOff(mask)
  PROVE  RInv'
<1> USE DEF RInv, IntsOn, IntsOff, TaskRuns, table, isr, vars
<1> DEFINE hit == mask \intersect mapped
<1>1. mask \subseteq Channels /\ hit \subseteq Channels /\ \A c \in hit : state[c] \notin {"free", "routed"}
  BY DEF Mask, RoutingInv, Routed
<1>2. PICK to \in {"on", "off"} :
        /\ state' = [c \in Channels |-> IF c \in hit THEN to ELSE state[c]]
        /\ IF to = "on" THEN unmasked' = unmasked \union {source[c] : c \in hit}
                        ELSE unmasked' = unmasked \ {source[c] : c \in hit}
  BY DEF Switched, SourcesOf
<1>3. RoutingTypeOK'
  BY <1>1, <1>2 DEF RoutingTypeOK
<1>4. Routed' /\ OwnSource'
  BY <1>1, <1>2 DEF RoutingTypeOK, RoutingInv, Routed, OwnSource
<1>5. OpenIsTaken'
  BY <1>1, <1>2 DEF RoutingTypeOK, RoutingInv, OpenIsTaken, OwnSource
<1>6. SettingIsShut' /\ Paired'
  BY <1>1, <1>2 DEF RoutingTypeOK, RoutingInv, SettingIsShut, Paired
<1>7. CallsAreOwn'
  BY DEF RoutingTypeOK, CallsAreOwn
<1> QED BY <1>3, <1>4, <1>5, <1>6, <1>7 DEF RoutingInv

(* The interrupt handler is entered for a source that is open, so the one     *)
(* channel whose source it is has been attached.                            *)
LEMMA DeliverRouting ==
  ASSUME RInv, NEW s \in Sources, Deliver(s)
  PROVE  RInv'
<1> USE DEF RInv, Deliver, Interrupt, table, irq
<1>1. RoutingTypeOK'
  BY InterruptsAssumption DEF RoutingTypeOK
<1>2. RoutingInv'
  BY DEF RoutingInv, Routed, OwnSource, OpenIsTaken, SettingIsShut, Paired
<1>3. CallsAreOwn'
  <2> SUFFICES ASSUME NEW c \in Channels, <<s, c>> \in installed, ~Stale(c)
               PROVE  /\ handler[c] # None /\ handler[c] = argument[c]
                      /\ source[c] = s /\ state[c] \in {"attached", "on"}
    BY DEF CallsAreOwn, Stale
  <2>1. source[c] = s /\ c \in mapped
    BY DEF Stale
  <2>2. PICK d \in mapped : source[d] = s /\ state[d] \in {"attached", "on"}
    BY DEF RoutingInv, OpenIsTaken
  <2>3. d = c
    BY <2>1, <2>2 DEF RoutingInv, OwnSource
  <2>4. setting = None \/ setting.channel # c
    BY <2>2, <2>3 DEF RoutingInv, SettingIsShut
  <2> QED BY <2>1, <2>2, <2>3, <2>4 DEF RoutingInv, Paired
<1> QED BY <1>1, <1>2, <1>3

(* What else happens leaves the table alone.                                *)
LEMMA QuietRouting ==
  ASSUME RInv,
         \/ \E c \in Channels : Trampoline(c)
         \/ \E s \in Sources : Request(s)
         \/ IsrReturns \/ Section \/ UNCHANGED intrVars
  PROVE  RInv'
<1>1. UNCHANGED <<table, state, setting, irq>>
  BY DEF Trampoline, Request, IsrReturns, Section, MaySection, routing, intrVars
<1>2. RoutingInv'
  BY <1>1 DEF RInv, RoutingInv, Routed, OwnSource, OpenIsTaken, SettingIsShut, Paired, table, irq
<1>3. asserted' \subseteq Sources /\ toCall' \subseteq toCall
  BY DEF RInv, RoutingTypeOK, Trampoline, Request, IsrReturns, Section, MaySection,
         SourcesOf, routing, intrVars, isr
<1>4. \/ inIsr' = inIsr /\ serving' = serving
      \/ ~inIsr' /\ serving' = None /\ toCall' = {}
  BY DEF Trampoline, Request, IsrReturns, InterruptReturns, Section, MaySection, Enter, Exit,
         routing, intrVars, isr, vars
<1>5. RoutingTypeOK'
  BY <1>1, <1>3, <1>4 DEF RInv, RoutingTypeOK, table, irq
<1>6. CallsAreOwn'
  BY <1>1, <1>3, <1>4 DEF RInv, CallsAreOwn, Stale, table, irq
<1> QED BY <1>2, <1>5, <1>6 DEF RInv

LEMMA NextRouting == RInv /\ [IntrNext]_intrVars => RInv'
<1> SUFFICES ASSUME RInv, [IntrNext]_intrVars PROVE RInv'
  OBVIOUS
<1>1. ASSUME NEW c \in Channels, NEW s \in Sources, SetIntr(c, s) PROVE RInv'
  BY <1>1, SetIntrRouting
<1>2. ASSUME NEW c \in Channels, NEW f \in CallbacksOf[c], StoreHandler(c, f) PROVE RInv'
  BY <1>2, StoreHandlerRouting DEF Callbacks
<1>3. ASSUME NEW c \in Channels, ClearIntr(c) PROVE RInv'
  BY <1>3, ClearIntrRouting
<1>4. CASE SetIsrGoesOn
  BY <1>4, StoreArgumentRouting, InstallRouting DEF SetIsrGoesOn
<1>5. ASSUME NEW mask \in Mask, IntsOn(mask) \/ IntsOff(mask) PROVE RInv'
  BY <1>5, MaskRouting
<1>6. ASSUME NEW s \in Sources, Deliver(s) PROVE RInv'
  BY <1>6, DeliverRouting
<1>7. CASE \/ \E c \in Channels : Trampoline(c)
           \/ \E s \in Sources : Request(s)
           \/ IsrReturns \/ Section \/ UNCHANGED intrVars
  BY <1>7, QuietRouting
<1> QED BY <1>1, <1>2, <1>3, <1>4, <1>5, <1>6, <1>7 DEF IntrNext

LEMMA RoutingHolds == IntrSpec => []RInv
<1>1. IntrInit => RInv
  BY InitRouting
<1>2. RInv /\ [IntrNext]_intrVars => RInv'
  BY NextRouting
<1> QED BY <1>1, <1>2, PTL DEF IntrSpec

(* The channel table and the critical sections keep their invariants however  *)
(* many channels and sources there are and whenever an interrupt comes.      *)
THEOREM InterruptsInvHolds == IntrSpec => []InterruptsInv
<1>1. RInv /\ LockInv => InterruptsInv
  BY DEF RInv, InterruptsInv
<1> QED BY <1>1, RoutingHolds, InterruptsKeepSections, PTL

(* A handler is called with its own argument, for the source of its channel   *)
(* and while that is attached or on, unless the channel is stale.            *)
THEOREM CallsAreOwnHolds == IntrSpec => []CallsAreOwn
<1>1. RInv => CallsAreOwn
  BY DEF RInv
<1> QED BY <1>1, RoutingHolds, PTL
===============================================================================
