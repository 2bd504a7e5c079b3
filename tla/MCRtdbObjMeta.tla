--------------------------- MODULE MCRtdbObjMeta ---------------------------
(***************************************************************************)
(* Instances of RtdbObjMeta for TLC.                                       *)
(***************************************************************************)
EXTENDS RtdbObjMeta, TLC

Kind(name, unique, keep, now, public, depends, data) ==
  [name |-> name, unique |-> unique, keep_alloc |-> keep,
   immediately_delete |-> now, write_allow |-> public,
   parent_delete |-> depends, data |-> data]

\* A unique object others may delete, one whose memory is kept, and one that
\* depends on its parent, has no data and vanishes at once.
MCUnique == Kind("a", TRUE, FALSE, FALSE, TRUE, FALSE, TRUE)
MCKept   == Kind("a", FALSE, TRUE, FALSE, FALSE, TRUE, TRUE)
MCAtOnce == Kind("b", FALSE, FALSE, TRUE, TRUE, TRUE, FALSE)

MCKinds == {MCUnique, MCKept, MCAtOnce}
MCTwo   == {MCUnique, MCKept}

MCSymmetry == Permutations(Procs \ {Manager}) \cup Permutations(Blocks)
=============================================================================
