----------------------------- MODULE MCLastOpened -----------------------------
(***************************************************************************)
(* LastOpened on small instances.  One tab is enough: what another one     *)
(* does to it is to store a query or to log in, and Disturb and            *)
(* ChangeSession do that at any time.                                      *)
(***************************************************************************)
EXTENDS LastOpened

CONSTANTS t1, f1, f2, w1
=============================================================================
