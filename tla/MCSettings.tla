------------------------------ MODULE MCSettings ------------------------------
(* Settings on small instances. *)
EXTENDS Settings, TLC

CONSTANTS old, new, c1, v1, v2

\* Two processes are told apart by nothing, nor are two values.
MCSymmetry == Permutations({old, new}) \cup Permutations({v1, v2})
=============================================================================
