----------------------------- MODULE MCInterrupts -----------------------------
(* Instances of Interrupts for TLC.                                         *)
EXTENDS Interrupts, TLC

CONSTANTS c1, c2, f, g, h

(* Each channel has callbacks of its own, and one is set anew with another.  *)
MCCallbacksOf == c1 :> {f, g} @@ c2 :> {h}
===============================================================================
