----------------------------- MODULE MCRtdbParts -----------------------------
(***************************************************************************)
(* The parts of the system that share no state with each other, each on a  *)
(* small instance: connections, the allocators of the heap, trace and      *)
(* recorder, player and its control object, search for metadata, remote    *)
(* monitor, a follower in C++.  part says which of them a behaviour is     *)
(* about; the others stand still in it.                                    *)
(***************************************************************************)
EXTENDS MCRtdbProc, RtdbSuba, RtdbTlsf, MCRtdbRecord, RtdbPlay, RtdbPlayCtrl, RtdbSearch,
        RtdbMonitor, RtdbFollow

VARIABLE part

-----------------------------------------------------------------------------
(* Instances *)

\* A file with data, gaps and deletions - an object goes with its child and that one's child,
\* another stays -, and one of two sequences of images.
Chunked(t, o, ts, d) == [type |-> t, oid |-> o, ts |-> ts, data |-> d]
MCFiles == {
  << Chunked("rfr", 1, 2, 0), Chunked("upd", 1, 2, 1), Chunked("add", 2, 3, 1),
     Chunked("upd", 1, 4, 2), Chunked("error", 0, 5, 0), Chunked("upd", 2, 6, 3),
     Chunked("add", 3, 6, 0), Chunked("add", 4, 6, 2), Chunked("del", 1, 7, 0),
     Chunked("del", 2, 7, 0), Chunked("del", 4, 7, 0), Chunked("error", 0, 12, 0),
     Chunked("upd", 3, 15, 1), Chunked("upd", 3, 18, 2) >>,
  << Chunked("rfr", 1, 2, 0), Chunked("next", 1, 4, 1), Chunked("image", 1, 4, 2),
     Chunked("rfr", 2, 6, 3), Chunked("add", 3, 6, 0), Chunked("del", 3, 7, 0),
     Chunked("next", 2, 7, 3), Chunked("image", 2, 7, 4) >> }

\* They are of the kind that the theorems about the player are about.
ASSUME MCFilesAreFaithful == FilesInOrder /\ FilesAreRecordings

Opt(p, s, l, k, b, e, g) ==
  [pause |-> p, scan |-> s, loop |-> l, keepcreated |-> k, begin |-> b, end |-> e, goto |-> g]
MCOptions == {Opt(FALSE, FALSE, FALSE, FALSE, 0, 0, 0), Opt(FALSE, FALSE, TRUE, TRUE, 4, 5, 0)}
MCCommands == {
  Opt(FALSE, FALSE, TRUE, FALSE, 0, 0, 4), Opt(TRUE, FALSE, FALSE, FALSE, 3, 0, 2),
  Opt(FALSE, TRUE, FALSE, TRUE, 0, 0, 6), Opt(FALSE, FALSE, FALSE, FALSE, 0, 0, 0)}

Query(k, t, p, u) == [kind |-> k, otype |-> t, parent |-> p, proc |-> 0, until |-> u]
MCCalls == {
  Query("wait", 1, 0, TRUE), Query("waitnext", 0, 1, FALSE), Query("lists", 0, 0, FALSE)}

ApiCall(k, o) == [kind |-> k, oid |-> o]
MCApi == {
  ApiCall("searchinfo", 0), ApiCall("waitnext", 2), ApiCall("writedata", 2),
  ApiCall("insert", 0), ApiCall("delete", 2)}

-----------------------------------------------------------------------------
Parts ==
  {"proc", "suba", "tlsf", "record", "play", "playctrl", "search", "monitor", "follow"}

\* The parts that stand still are at one of their beginnings.
Still(p, beginning) == part = p \/ beginning

PartsInit ==
  /\ part \in Parts
  /\ ProcInit /\ SubaInit /\ TlsfInit /\ RecordInit /\ PlayInit /\ PlayCtrlInit
  /\ SearchInit /\ MonitorInit /\ FollowInit
  /\ Still("proc", cast = CHOOSE c \in Casts : TRUE)
  /\ Still("record", select = CHOOSE s \in Sessions : TRUE)
  /\ Still("play", tape = (CHOOSE f \in Files : TRUE) /\ opt = CHOOSE o \in Options : TRUE)
  /\ Still("search", polling)

PartsNext ==
  \/ /\ part = "proc" /\ ProcNext
     /\ UNCHANGED <<part, subaVars, tlsfVars, recordVars, playVars, playctrlVars, searchVars,
                    monitorVars, followVars>>
  \/ /\ part = "suba" /\ SubaNext
     /\ UNCHANGED <<part, procVars, tlsfVars, recordVars, playVars, playctrlVars, searchVars,
                    monitorVars, followVars>>
  \/ /\ part = "tlsf" /\ TlsfNext
     /\ UNCHANGED <<part, procVars, subaVars, recordVars, playVars, playctrlVars, searchVars,
                    monitorVars, followVars>>
  \/ /\ part = "record" /\ RecordNext
     /\ UNCHANGED <<part, procVars, subaVars, tlsfVars, playVars, playctrlVars, searchVars,
                    monitorVars, followVars>>
  \/ /\ part = "play" /\ PlayNext
     /\ UNCHANGED <<part, procVars, subaVars, tlsfVars, recordVars, playctrlVars, searchVars,
                    monitorVars, followVars>>
  \/ /\ part = "playctrl" /\ PlayCtrlNext
     /\ UNCHANGED <<part, procVars, subaVars, tlsfVars, recordVars, playVars, searchVars,
                    monitorVars, followVars>>
  \/ /\ part = "search" /\ SearchNext
     /\ UNCHANGED <<part, procVars, subaVars, tlsfVars, recordVars, playVars, playctrlVars,
                    monitorVars, followVars>>
  \/ /\ part = "monitor" /\ MonitorNext
     /\ UNCHANGED <<part, procVars, subaVars, tlsfVars, recordVars, playVars, playctrlVars,
                    searchVars, followVars>>
  \/ /\ part = "follow" /\ FollowNext
     /\ UNCHANGED <<part, procVars, subaVars, tlsfVars, recordVars, playVars, playctrlVars,
                    searchVars, monitorVars>>

partsVars ==
  <<part, procVars, subaVars, tlsfVars, recordVars, playVars, playctrlVars, searchVars,
    monitorVars, followVars>>

PartsSpec == PartsInit /\ [][PartsNext]_partsVars

-----------------------------------------------------------------------------
(* Properties of several parts *)

\* Every variable of the part has its type.
PartsTypeOK ==
  CASE part = "proc"     -> ProcTypeOK
    [] part = "suba"     -> SubaTypeOK
    [] part = "tlsf"     -> TlsfTypeOK
    [] part = "record"   -> RecordTypeOK
    [] part = "play"     -> PlayTypeOK
    [] part = "playctrl" -> PlayCtrlTypeOK
    [] part = "search"   -> SearchTypeOK
    [] part = "monitor"  -> MonitorTypeOK
    [] part = "follow"   -> FollowTypeOK

\* Both allocators: no memory is lost, and what is free is where the next call looks
\* for it, in as large a piece as there is (suba.c:150-163, 212-255, tlsf.c:156-212,
\* 282-348).
FreeMemoryIsListed ==
  /\ part = "suba" => HeapIsCellsOnly /\ FreeListIsOneRing
  /\ part = "tlsf" => BlocksAreARow /\ BitmapsShowTheLists

\* Both allocators give away memory that nobody else has (RtdbHeap; rtmalloc.c:
\* 51-116).
HeapsAreHeaps == SubaIsAHeap /\ TlsfIsAHeap
=============================================================================
