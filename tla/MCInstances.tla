------------------------------ MODULE MCInstances ------------------------------
\* Two servers, on one port or on two, and two sockets.
EXTENDS Instances

CONSTANTS p1, p2, s1, s2
=============================================================================
