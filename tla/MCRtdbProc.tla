----------------------------- MODULE MCRtdbProc -----------------------------
(* Who is started how often, for TLC. *)
EXTENDS RtdbProc

CONSTANTS p1, p2, m1, m2

\* A database is made, used and left by both clients, in a build in which the check
\* runs in a thread; it is made, ended and made again; and two programs make one.
Starts(a, b, c, d) ==
  [p \in Processes |-> CASE p = p1 -> a [] p = p2 -> b [] p = m1 -> c [] p = m2 -> d]
MCCasts == {
  [hard |-> TRUE,  starts |-> Starts(1, 1, 1, 0)],
  [hard |-> FALSE, starts |-> Starts(0, 1, 2, 0)],
  [hard |-> FALSE, starts |-> Starts(0, 0, 1, 1)]}
=============================================================================
