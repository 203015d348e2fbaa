----------------------------- MODULE MCSupervisor -----------------------------
(* Supervisor on small instances. *)
EXTENDS Supervisor
=============================================================================
