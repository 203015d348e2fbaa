---------------------------- MODULE MCAgentHost ----------------------------
\* Two servers; one gets two requests, so that one can join the other's load,
\* and a load that is tried again after a failure.
EXTENDS AgentHost

CONSTANTS p1, p2, r1, r2, r3

TwoToOne == [r \in {r1, r2, r3} |-> IF r = r3 THEN p2 ELSE p1]
=============================================================================
