---------------------------- MODULE MCRtdbNotify ----------------------------
(***************************************************************************)
(* Instances of RtdbNotify for TLC.                                        *)
(***************************************************************************)
EXTENDS RtdbNotify

MCBoth == BOOLEAN
MCNo   == {FALSE}
MCYes  == {TRUE}

\* A wait ends, with a commit as with the deletion of the object (objdata.c:824-885,
\* objmeta.c:667).
WaitsEnd == CommitEndsWait /\ DeletionEndsWait
=============================================================================
