------------------------------- MODULE MCHeart -------------------------------
(* Heart on small instances: a tick is a third of the heartbeat interval. *)
EXTENDS Heart

\* Delays the timer may get: shorter than, equal to and longer than the interval.
MCIdleTimeouts == 1 .. 6
=============================================================================
