----------------------------- MODULE MCEventLoop -----------------------------
(* Instances of EventLoop for TLC.                                          *)
EXTENDS EventLoop, TLC

CONSTANTS wifi, ip, h1, h2, app, wifiTask

Connected == [base |-> wifi, id |-> 2]
GotIp == [base |-> ip, id |-> 1]

(* One handler for every event of a base, one for a single event.           *)
MCSubscriptions ==
  {[base |-> wifi, id |-> AnyId, handler |-> h1],
   [base |-> wifi, id |-> 2, handler |-> h2]}

(* An event both handlers want and one that neither wants.                  *)
MCEvents == {Connected, GotIp}
==============================================================================
