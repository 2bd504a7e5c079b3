--------------------------- MODULE MCRtdbObjRead ---------------------------
(***************************************************************************)
(* Instances of RtdbObjRead for TLC.                                       *)
(***************************************************************************)
EXTENDS RtdbObjRead

\* Requests for the latest block, and by time around the second block.
MCLatest  == {[mode |-> "last", ts |-> 0]}
MCPublic  == MCLatest \cup {[mode |-> "older", ts |-> 5]}
MCYounger == {[mode |-> "younger", ts |-> 4]}
MCByTime  ==
  {[mode |-> "last", ts |-> 6], [mode |-> "older", ts |-> 7],
   [mode |-> "younger", ts |-> 5], [mode |-> "datatime", ts |-> 6],
   [mode |-> "datayounger", ts |-> 6]}

\* Readings of the clock: high words 1 and 2, low words 0 to 3 (LowBase = 4).
MCTime4 == 5 .. 8
MCTime5 == 5 .. 9
=============================================================================
