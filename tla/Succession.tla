------------------------------ MODULE Succession ------------------------------
(***************************************************************************)
(* What the supervisor of a replaceable server promises, without saying    *)
(* how: server generations follow one another, at most the newest one is   *)
(* in charge, stopping is final, and every generation that is no longer in *)
(* charge goes away.                                                       *)
(***************************************************************************)
EXTENDS Naturals

CONSTANT Generation    \* the generations there may be, 1 being the first

VARIABLES
  gen,     \* the newest generation, 0 if there is none
  phase,   \* "idle", "starting", "ready" or "stopped"
  alive    \* the generations that still exist

vars == <<gen, phase, alive>>

Init == gen = 0 /\ phase = "idle" /\ alive = {}

\* A new generation takes over from the newest one, ready or not; it may be stopped at once.
Succeed ==
  /\ phase # "stopped" /\ gen + 1 \in Generation
  /\ gen' = gen + 1
  /\ phase' \in {"starting", "stopped"}
  /\ alive' = alive \cup {gen + 1}

Ready ==
  /\ phase = "starting"
  /\ phase' = "ready"
  /\ UNCHANGED <<gen, alive>>

Stop ==
  /\ phase # "stopped"
  /\ phase' = "stopped"
  /\ UNCHANGED <<gen, alive>>

\* A generation ends, by itself or because it was told to.
Leave(g) ==
  /\ g \in alive
  /\ alive' = alive \ {g}
  /\ UNCHANGED <<gen, phase>>

Next == Succeed \/ Ready \/ Stop \/ \E g \in Generation : Leave(g)

Retired(g) == g # gen \/ phase = "stopped"

Spec == Init /\ [][Next]_vars

FairSpec == Spec /\ \A g \in Generation : WF_vars(Retired(g) /\ Leave(g))
=============================================================================
