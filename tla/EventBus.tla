------------------------------- MODULE EventBus -------------------------------
(***************************************************************************)
(* What the event loop promises its users, without a mutex, a scan or a     *)
(* task that waits: accepted events are dispatched one at a time in the     *)
(* order they were accepted, every subscription that is owed an event hears *)
(* it exactly once, and one subscription is heard by at a time.             *)
(*                                                                          *)
(* A subscription made while an event is being dispatched may or may not be *)
(* owed that event.                                                         *)
(***************************************************************************)
EXTENDS Integers, Sequences

CONSTANTS Events, Subscriptions, AnyId, Places, None

VARIABLES
  pending,  \* accepted and not yet begun
  active,   \* the event being dispatched, or None
  subs,     \* the subscription in each place, or None
  owed,     \* the places that are still to hear the active event
  hearing   \* the place whose handler runs, or None

busVars == <<pending, active, subs, owed, hearing>>

Wants(sub, event) == sub.base = event.base /\ sub.id \in {AnyId, event.id}

BusInit ==
  /\ pending = <<>>
  /\ active = None
  /\ subs = [p \in Places |-> None]
  /\ owed = {}
  /\ hearing = None

Accept(event) ==
  /\ pending' = Append(pending, event)
  /\ UNCHANGED <<active, subs, owed, hearing>>

Begin ==
  /\ active = None
  /\ pending # <<>>
  /\ active' = Head(pending)
  /\ pending' = Tail(pending)
  /\ owed' = {p \in Places : subs[p] # None /\ Wants(subs[p], Head(pending))}
  /\ UNCHANGED <<subs, hearing>>

Hear(p) ==
  /\ hearing = None
  /\ p \in owed
  /\ hearing' = p
  /\ owed' = owed \ {p}
  /\ UNCHANGED <<pending, active, subs>>

Heard ==
  /\ hearing # None
  /\ hearing' = None
  /\ UNCHANGED <<pending, active, subs, owed>>

Finish ==
  /\ active # None
  /\ owed = {}
  /\ hearing = None
  /\ active' = None
  /\ UNCHANGED <<pending, subs, owed, hearing>>

(* Between events, or by the handler that is running.                       *)
MayEdit == active = None \/ hearing # None

Subscribe(p, sub) ==
  /\ MayEdit
  /\ subs[p] = None
  /\ subs' = [subs EXCEPT ![p] = sub]
  /\ \/ owed' = owed
     \/ active # None /\ Wants(sub, active) /\ owed' = owed \union {p}
  /\ UNCHANGED <<pending, active, hearing>>

Unsubscribe(sub) ==
  /\ MayEdit
  /\ subs' = [p \in Places |-> IF subs[p] = sub THEN None ELSE subs[p]]
  /\ owed' = {p \in owed : subs[p] # sub}
  /\ UNCHANGED <<pending, active, hearing>>

BusNext ==
  \/ \E event \in Events : Accept(event)
  \/ \E p \in Places : Hear(p)
  \/ \E p \in Places, sub \in Subscriptions : Subscribe(p, sub)
  \/ \E sub \in Subscriptions : Unsubscribe(sub)
  \/ Begin
  \/ Heard
  \/ Finish

BusSpec == BusInit /\ [][BusNext]_busVars
==============================================================================
