---------------------------- MODULE MCRtdbRecord ----------------------------
(* The sessions of the recorder for TLC. *)
EXTENDS RtdbRecord

\* One object is recorded, with option -l; and two are recorded without.
MCSessions == {
  [traced |-> {1}, log |-> TRUE, objects |-> 1, commits |-> 3, deletes |-> 1],
  [traced |-> {1, 2}, log |-> FALSE, objects |-> 2, commits |-> 2, deletes |-> 0]}
=============================================================================
