----------------------------- MODULE MCUpdateCheck -----------------------------
(* UpdateCheck on small instances. *)
EXTENDS UpdateCheck

CONSTANT q1

MCQuery == {q1}

MCValue == Update \cup MCQuery
=============================================================================
