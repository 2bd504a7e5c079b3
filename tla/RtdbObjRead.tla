---------------------------- MODULE RtdbObjRead ----------------------------
(***************************************************************************)
(* Reading an RTDB object without a lock: kogmo_rtdb_obj_readdata and its  *)
(* variants (kogmo_rtdb_obj_readdata__mode, kogmo_rtdb_obj_histscan).      *)
(*                                                                         *)
(* A reader starts at the current slot, walks the ring backwards until a   *)
(* block satisfies its request, copies it and compares the commit time in  *)
(* the slot with the one it saw before it copied.  Readers do not write to *)
(* shared memory, so they cannot influence each other or the writers.      *)
(***************************************************************************)
EXTENDS RtdbRing

CONSTANTS
  Readers,      \* threads that call kogmo_rtdb_obj_readdata & co.
  Requests      \* the requests they make, a subset of Request

Mode    == {"last", "older", "younger", "datatime", "dataolder", "datayounger"}
Request == [mode : Mode, ts : Nat]

ASSUME RequestsAssumption == Requests \subseteq Request

VARIABLES
  rpc,      \* where a reader is in its call
  req,      \* the request of the call
  slot,     \* sl: the slot under examination
  start,    \* fsl: the slot the scan started at, not taken modulo the ring
  probe,    \* next_scan_ts: the words of the commit time and the data time
            \* read from the slot under examination
  chosen,   \* scan_objbase and scan_ts: the candidate, or None
  buf,      \* the caller's copy of the block
  rtodo,    \* words still to be copied
  final,    \* final_ts: commit time re-read after the copy, word by word
  result,   \* what the call returned
  since,    \* history: cur when the call read history_slot
  base      \* history: first when the call read history_slot

readVars == <<rpc, req, slot, start, probe, chosen, buf, rtodo, final, result,
              since, base>>
vars == <<ringVars, readVars>>

ReaderPc == {"idle", "check", "deleted", "scan_hi", "scan_lo", "scan_data",
             "copy", "final_lo", "final_hi", "size"}
Status   == {"none", "ok", "NOTFOUND", "HISTWRAP"}

NullProbe  == [hi |-> 0, lo |-> 0, data_ts |-> 0]
None       == [slot |-> -1, hi |-> 0, lo |-> 0, data_ts |-> 0]
NoResult   == [status |-> "none", ts |-> 0, size |-> 0]

Init ==
  /\ RingInit
  /\ rpc = [r \in Readers |-> "idle"]
  /\ req = [r \in Readers |-> [mode |-> "last", ts |-> 0]]
  /\ slot = [r \in Readers |-> 0]
  /\ start = [r \in Readers |-> -1]
  /\ probe = [r \in Readers |-> NullProbe]
  /\ chosen = [r \in Readers |-> None]
  /\ buf = [r \in Readers |-> [w \in CopyWord |-> 0]]
  /\ rtodo = [r \in Readers |-> {}]
  /\ final = [r \in Readers |-> [hi |-> 0, lo |-> 0]]
  /\ result = [r \in Readers |-> NoResult]
  /\ since = [r \in Readers |-> 0]
  /\ base = [r \in Readers |-> 0]

-----------------------------------------------------------------------------
IsData(r)  == req[r].mode \in {"datatime", "dataolder", "datayounger"}
IsYounger(r) == req[r].mode \in {"younger", "datayounger"}

\* The latest block is wanted, whatever its time.
WantsLatest(r) == req[r].mode = "last" /\ req[r].ts = 0

\* The wrap-around check of histscan: the walk is back where it began.
NeverBackAtStart(r, s) == FALSE                                   \* a mutant
BackAtStart(r, s) == s = start[r]

\* The commit time read after the copy is the one read before it.
AnyValidStamp(r, hi, lo) == hi # 0 /\ lo # 0                       \* a mutant
SameStamp(r, hi, lo) == hi = chosen[r].hi /\ lo = chosen[r].lo

\* The search goes on behind a block with this commit or data time.
PassesOffByOne(r, ts) == ts > req[r].ts /\ ~WantsLatest(r)         \* a mutant
Passes(r, ts) ==
  CASE req[r].mode \in {"last", "datatime"}   -> ts > req[r].ts /\ ~WantsLatest(r)
    [] req[r].mode \in {"older", "dataolder"} -> ts >= req[r].ts
    [] OTHER                                  -> ts > req[r].ts

Return(r, status, ts, size) ==
  /\ rpc' = [rpc EXCEPT ![r] = "idle"]
  /\ result' = [result EXCEPT ![r] = [status |-> status, ts |-> ts, size |-> size]]

BeginCopy(r) ==
  /\ rpc' = [rpc EXCEPT ![r] = "copy"]
  /\ rtodo' = [rtodo EXCEPT ![r] = CopyWord]

\* histscan found no further block: a search for a younger one has a candidate.
NoFurtherBlock(r) ==
  IF IsYounger(r) /\ chosen[r] # None
    THEN BeginCopy(r) /\ UNCHANGED result
    ELSE Return(r, "NOTFOUND", 0, 0) /\ UNCHANGED rtodo

-----------------------------------------------------------------------------
\* Find the metadata and read history_slot (histscan with adj = 0).
ReadBegin(r) ==
  /\ rpc[r] = "idle"
  /\ rpc' = [rpc EXCEPT ![r] = "check"]
  /\ \E q \in Requests : req' = [req EXCEPT ![r] = q]
  /\ slot' = [slot EXCEPT ![r] = ScanSlot(history_slot)]
  /\ start' = [start EXCEPT ![r] = history_slot]
  /\ chosen' = [chosen EXCEPT ![r] = None]
  /\ probe' = [probe EXCEPT ![r] = NullProbe]
  /\ final' = [final EXCEPT ![r] = [hi |-> 0, lo |-> 0]]
  /\ result' = [result EXCEPT ![r] = NoResult]
  /\ since' = [since EXCEPT ![r] = cur]
  /\ base' = [base EXCEPT ![r] = first]
  /\ buf' = [buf EXCEPT ![r] = [w \in CopyWord |-> 0]]   \* the caller's own
  /\ UNCHANGED <<ringVars, rtodo>>

\* The end of histscan: a slot whose high word is 0 is unused.
CheckSlot(r) ==
  /\ rpc[r] = "check"
  /\ IF ring[slot[r]]["hi"] = 0
       THEN NoFurtherBlock(r)
       ELSE /\ rpc' = [rpc EXCEPT ![r] = IF WantsLatest(r) THEN "deleted"
                                                           ELSE "scan_hi"]
            /\ UNCHANGED <<rtodo, result>>
  /\ UNCHANGED <<ringVars, req, slot, start, probe, chosen, buf, final, since,
                 base>>

CheckDeleted(r) ==
  /\ rpc[r] = "deleted"
  /\ IF deleted THEN Return(r, "NOTFOUND", 0, 0)
                ELSE /\ rpc' = [rpc EXCEPT ![r] = "scan_hi"]
                     /\ UNCHANGED result
  /\ UNCHANGED <<ringVars, req, slot, start, probe, chosen, buf, rtodo, final,
                 since, base>>

ScanHigh(r) ==
  /\ rpc[r] = "scan_hi"
  /\ rpc' = [rpc EXCEPT ![r] = "scan_lo"]
  /\ probe' = [probe EXCEPT ![r].hi = ring[slot[r]]["hi"]]
  /\ UNCHANGED <<ringVars, req, slot, start, chosen, buf, rtodo, final, result,
                 since, base>>

\* Decide on the block whose time has been read: take it, stop with the
\* candidate so far, or go on to the slot before it (histscan with adj = -1).
Decide(r, p, time) ==
  LET here == [slot |-> slot[r], hi |-> p.hi, lo |-> p.lo, data_ts |-> p.data_ts]
      before == (slot[r] - 1 + HistorySize) % HistorySize
  IN  IF Passes(r, time)
        THEN /\ slot' = [slot EXCEPT ![r] = before]
             /\ chosen' = [chosen EXCEPT ![r] = here]
             /\ IF ~BackAtStart(r, before)
                  THEN rpc' = [rpc EXCEPT ![r] = "check"] /\ UNCHANGED <<rtodo, result>>
                  ELSE IF IsYounger(r)
                    THEN BeginCopy(r) /\ UNCHANGED result
                    ELSE Return(r, "NOTFOUND", 0, 0) /\ UNCHANGED rtodo
        ELSE /\ UNCHANGED slot
             /\ IF IsYounger(r)
                  THEN /\ UNCHANGED chosen
                       /\ IF chosen[r] = None
                            THEN Return(r, "NOTFOUND", 0, 0) /\ UNCHANGED rtodo
                            ELSE BeginCopy(r) /\ UNCHANGED result
                  ELSE /\ chosen' = [chosen EXCEPT ![r] = here]
                       /\ BeginCopy(r) /\ UNCHANGED result

ScanLow(r) ==
  /\ rpc[r] = "scan_lo"
  /\ LET p == [probe[r] EXCEPT !.lo = ring[slot[r]]["lo"]]
     IN  /\ probe' = [probe EXCEPT ![r] = p]
         /\ IF IsData(r)
              THEN /\ rpc' = [rpc EXCEPT ![r] = "scan_data"]
                   /\ UNCHANGED <<slot, chosen, rtodo, result>>
              ELSE Decide(r, p, Stamp(p.hi, p.lo))
  /\ UNCHANGED <<ringVars, req, start, buf, final, since,
                 base>>

\* The data time is read after the commit time of the same slot.
ScanData(r) ==
  /\ rpc[r] = "scan_data"
  /\ LET p == [probe[r] EXCEPT !.data_ts = ring[slot[r]]["data_ts"]]
     IN  /\ probe' = [probe EXCEPT ![r] = p]
         /\ Decide(r, p, p.data_ts)
  /\ UNCHANGED <<ringVars, req, start, buf, final, since,
                 base>>

\* memcpy into the caller's buffer: the words are read in any order.
CopyOut(r) ==
  /\ rpc[r] = "copy"
  /\ \E w \in rtodo[r] :
       /\ rtodo' = [rtodo EXCEPT ![r] = @ \ {w}]
       /\ buf' = [buf EXCEPT ![r][w] = ring[chosen[r].slot][w]]
       /\ rpc' = [rpc EXCEPT ![r] = IF rtodo[r] = {w} THEN "final_lo" ELSE @]
  /\ UNCHANGED <<ringVars, req, slot, start, probe, chosen, final, result, since, base>>

FinalLow(r) ==
  /\ rpc[r] = "final_lo"
  /\ rpc' = [rpc EXCEPT ![r] = "final_hi"]
  /\ final' = [final EXCEPT ![r].lo = ring[chosen[r].slot]["lo"]]
  /\ UNCHANGED <<ringVars, req, slot, start, probe, chosen, buf, rtodo, result,
                 since, base>>

\* The commit time must be what it was before the copy.
FinalHigh(r) ==
  /\ rpc[r] = "final_hi"
  /\ LET hi == ring[chosen[r].slot]["hi"]
     IN  /\ final' = [final EXCEPT ![r].hi = hi]
         /\ IF SameStamp(r, hi, final[r].lo)
              THEN rpc' = [rpc EXCEPT ![r] = "size"] /\ UNCHANGED result
              ELSE Return(r, "HISTWRAP", Stamp(hi, final[r].lo), 0)
  /\ UNCHANGED <<ringVars, req, slot, start, probe, chosen, buf, rtodo, since, base>>

\* The size returned is read from the slot once more, after the check.
ReturnSize(r) ==
  /\ rpc[r] = "size"
  /\ Return(r, "ok", Stamp(final[r].hi, final[r].lo), ring[chosen[r].slot]["size"])
  /\ UNCHANGED <<ringVars, req, slot, start, probe, chosen, buf, rtodo, final,
                 since, base>>

ReaderStep(r) ==
  \/ ReadBegin(r) \/ CheckSlot(r) \/ CheckDeleted(r) \/ ScanHigh(r)
  \/ ScanLow(r) \/ ScanData(r) \/ CopyOut(r) \/ FinalLow(r) \/ FinalHigh(r)
  \/ ReturnSize(r)

Next ==
  \/ RingNext /\ UNCHANGED readVars
  \/ \E r \in Readers : ReaderStep(r)

Spec == Init /\ [][Next]_vars

\* A call that runs is scheduled: its thread takes its next step.
Progress(r) == rpc[r] # "idle" /\ ReaderStep(r)
FairSpec == Spec /\ \A r \in Readers : WF_vars(Progress(r))

-----------------------------------------------------------------------------
\* Types of every variable of the reader's calls and of the ring.
TypeOK ==
  /\ RingTypeOK
  /\ rpc \in [Readers -> ReaderPc]
  /\ req \in [Readers -> Request]
  /\ slot \in [Readers -> Slot]
  /\ start \in [Readers -> -1 .. HistorySize - 1]
  /\ probe \in [Readers -> [hi : Nat, lo : Nat, data_ts : Nat]]
  /\ chosen \in [Readers -> {None} \cup
                  [slot : Slot, hi : Nat, lo : Nat, data_ts : Nat]]
  /\ buf \in [Readers -> [CopyWord -> Nat]]
  /\ rtodo \in [Readers -> SUBSET CopyWord]
  /\ final \in [Readers -> [hi : Nat, lo : Nat]]
  /\ result \in [Readers -> [status : Status, ts : Nat, size : Nat]]
  /\ since \in [Readers -> 0 .. Len(hist)]
  /\ base \in [Readers -> 0 .. Len(hist)]

\* The caller's buffer is block b, complete and with the commit time of b.
IsCopyOf(r, b) ==
  /\ result[r].ts = b.ts
  /\ \A w \in CopyWord : buf[r][w] = Contents(b, w)

\* The blocks of the history that the call can have returned.
Returned(r) == {i \in 1 .. Len(hist) : IsCopyOf(r, hist[i])}

Succeeded(r) == result[r].status = "ok"

\* Neither word of the commit time handed to the caller is 0.  Only then does
\* the comparison of the two readings say anything: 0 is also what a slot
\* holds while it is overwritten.
ValidStamp(r) == Succeeded(r) /\ final[r].hi # 0 /\ final[r].lo # 0

\* A reader that succeeds with a valid commit time has one committed block,
\* complete, and that block's commit time, however often the ring wrapped
\* while it was copying (the lock-free protocol of writedata / readdata).
ValidStampIsWholeBlock == \A r \in Readers : ValidStamp(r) => Returned(r) # {}

\* The latest data is never older than the block that was current when the
\* call began (histscan starts at history_slot).
LatestIsFresh ==
  \A r \in Readers : ValidStamp(r) /\ WantsLatest(r) =>
                       \E i \in Returned(r) : i >= since[r]

\* What the documentation asks of the time of the block found.
Satisfies(r, ts) ==
  CASE req[r].mode \in {"last", "datatime"}   -> ts <= req[r].ts
    [] req[r].mode \in {"older", "dataolder"} -> ts < req[r].ts
    [] OTHER                                  -> ts > req[r].ts

\* A block selected by time satisfies the request.  By commit time, it is
\* also the nearest: no block that was committed before the call, and that
\* satisfies "<= ts" or "< ts" too, is younger, even if the ring was being
\* overwritten under the walk.  (Unless the object was inserted again during
\* the call: then its first block may be where the walk began.)
SelectedByTime ==
  \A r \in Readers : ValidStamp(r) /\ ~WantsLatest(r) =>
    \E i \in Returned(r) :
      LET key(b) == IF IsData(r) THEN DataTs(b) ELSE b.ts
      IN  /\ Satisfies(r, key(hist[i]))
          /\ req[r].mode \in {"last", "older"} /\ first = base[r] =>
               ~\E j \in base[r] + 1 .. since[r] :
                   hist[j].ts > hist[i].ts /\ Satisfies(r, hist[j].ts)

\* The slot holds block b, valid and complete.
Holds(s, b) ==
  /\ SlotTs(s) = b.ts
  /\ \A w \in CopyWord : ring[s][w] = Contents(b, w)

\* The ring keeps its promise of a history: whatever a writer is doing, and
\* wherever it was killed, the latest HistorySize - 1 blocks are readable.
HistoryIsKept ==
  \A j \in first + 1 .. cur :
    j > cur - (HistorySize - 1) => Holds(hist[j].slot, hist[j])

\* The blocks reach the history in the order of their commit times.  With
\* several writers this is the doing of the cycle watch alone: a writer reads
\* the clock before it waits for the lock.
CommitsAreOrdered ==
  \A i, j \in 1 .. Len(hist) : i < j => hist[i].ts < hist[j].ts

\* What a ring owes to readers by time: the right block is selected, and the
\* blocks a history of the configured length promises are there
\* (objdata.c:610-742, 96-133).
HistoryIsServed == SelectedByTime /\ HistoryIsKept

\* What the object lock and the cycle watch owe to an object that everybody
\* may write: valid slots hold whole blocks, in the order of their commits
\* (objdata.c:51-96).
WritersAreOrdered == ValidStampIsWholeBlock /\ CommitsAreOrdered

\* What a ring with one writer keeps: valid slots hold whole blocks, and the
\* latest history_size - 1 are there (objdata.c:96-133).
BlocksAreKept == ValidStampIsWholeBlock /\ HistoryIsKept

\* A valid slot does not change: a writer must make it invalid before it
\* touches its contents, and valid again only when they are complete.
ValidSlotIsFrozen ==
  [][\A s \in Slot : ring[s]["hi"] # 0 /\ ring'[s]["hi"] # 0
                          => ring'[s] = ring[s]]_vars

\* A read of an object that has data returns after finitely many steps of the
\* reader alone: it never waits for a writer, and its walk through the ring
\* ends although the ring moves on under it.
EveryReadReturns ==
  \A r \in Readers : rpc[r] # "idle" /\ start[r] >= 0 ~> rpc[r] = "idle"

\* The calls as RtdbHistory sees them.  A result whose commit time has a zero
\* word counts as "nothing": the caller can see that it is none.
Told(r) == IF ~ValidStamp(r) THEN 0
           ELSE IF Returned(r) = {} THEN -1             \* a mixture of blocks
           ELSE CHOOSE i \in Returned(r) : TRUE
CallSeen(r) == [active |-> rpc[r] # "idle", latest |-> WantsLatest(r),
                since |-> since[r], answer |-> Told(r)]
Calls == [r \in Readers |-> CallSeen(r)]

\* The promise of RtdbHistory.
History == INSTANCE RtdbHistory WITH
  log <- hist, current <- cur, Block <- Block, call <- Calls

ImplementsHistory == History!Spec

-----------------------------------------------------------------------------
\* What comments and the documentation of the interface promise.

\* kogmo_rtdb_funcs.h:428, HISTWRAP: "While reading this object, the data has
\* been overwritten" - so success means that it has not been.
\* The commit time of the result looks valid (histscan's test): the caller
\* cannot tell that the data is a mixture.
OverwriteIsReported ==
  \A r \in Readers : Succeeded(r) /\ final[r].hi # 0 =>
    \E i \in 1 .. Len(hist) : \A w \in CopyWord : buf[r][w] = Contents(hist[i], w)

\* kogmo_rtdb_funcs.h:425, NOTFOUND: "the specified object has no data block
\* (not yet or size=0)" - an object does not have its predecessor's data.
NoDataOfPredecessor ==
  \A r \in Readers : ValidStamp(r) => \E i \in Returned(r) : i > base[r]

\* kogmo_rtdb_funcs.h:424: "the real size of the object data found in the
\* rtdb on success".
SizeIsOfBlock == \A r \in Readers : ValidStamp(r) => result[r].size = buf[r]["size"]

\* kogmo_rtdb_funcs.h:457: "finds the nearest data block of an object within
\* the database with a committed_ts > ts".
YoungerIsNearest ==
  \A r \in Readers : ValidStamp(r) /\ req[r].mode = "younger" =>
    \E i \in Returned(r) :
      ~\E j \in base[r] + 1 .. since[r] :
          /\ req[r].ts < hist[j].ts /\ hist[j].ts < hist[i].ts
          /\ Holds(hist[j].slot, hist[j])
=============================================================================
