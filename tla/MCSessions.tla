------------------------------ MODULE MCSessions ------------------------------
(* Sessions on small instances. *)
EXTENDS Sessions

CONSTANTS h1, h2, l1, l2
=============================================================================
