------------------------- MODULE RtdbObjReadProofs -------------------------
(***************************************************************************)
(* Proofs about the lock-free reads of RtdbObjRead, for any number of      *)
(* readers and writers, any size of the ring, any words in a data block.   *)
(***************************************************************************)
EXTENDS RtdbObjRead, TLAPS

-----------------------------------------------------------------------------
(* Arithmetic of time stamps and slot numbers. *)

LEMMA StampWords ==
  ASSUME NEW t \in Nat
  PROVE  /\ Hi(t) \in Nat /\ Lo(t) \in 0 .. LowBase - 1
         /\ t = LowBase * Hi(t) + Lo(t)
  BY ConstantsAssumption, SMTT(30) DEF Hi, Lo

LEMMA StampNumbers ==
  ASSUME NEW t \in Nat
  PROVE  Hi(t) \in Nat /\ Lo(t) \in Nat /\ t = LowBase * Hi(t) + Lo(t)
  <1>1. Hi(t) \in Nat /\ Lo(t) \in 0 .. LowBase - 1 /\ t = LowBase * Hi(t) + Lo(t)
    BY StampWords
  <1>2. Lo(t) \in Nat
    BY <1>1
  <1> QED BY <1>1, <1>2

LEMMA StampIsNat ==
  ASSUME NEW hi \in Nat, NEW lo \in Nat
  PROVE  Stamp(hi, lo) \in Nat
  BY ConstantsAssumption, SMTT(30) DEF Stamp

LEMMA ModIsSlot ==
  ASSUME NEW i \in Int
  PROVE  i % HistorySize \in Slot
  BY ConstantsAssumption, SMTT(30) DEF Slot
LEMMA SlotNumbers ==
  ASSUME RingTypeOK
  PROVE  /\ NextSlot \in Slot
         /\ ScanSlot(history_slot) \in Slot
         /\ \A s \in Slot : (s - 1 + HistorySize) % HistorySize \in Slot
  <1>1. history_slot \in Int /\ HistorySize \in Nat \ {0}
    BY ConstantsAssumption DEF RingTypeOK
  <1>2. NextSlot \in Slot
    BY <1>1, ModIsSlot DEF NextSlot, Slot
  <1>3. ScanSlot(history_slot) \in Slot
    BY <1>1, ModIsSlot DEF ScanSlot
  <1>4. ASSUME NEW s \in Slot PROVE (s - 1 + HistorySize) % HistorySize \in Slot
    BY <1>1, ModIsSlot DEF Slot
  <1> QED BY <1>2, <1>3, <1>4

-----------------------------------------------------------------------------
(* Type correctness. *)

\* The words of a block are natural numbers.
LEMMA ContentsAreNat ==
  ASSUME NEW b \in Block, NEW w \in CopyWord
  PROVE  Contents(b, w) \in Nat /\ DataTs(b) \in Nat
  BY DEF Contents, DataTs, Block

LEMMA BlockFields ==
  ASSUME RingTypeOK, NEW w \in Writers
  PROVE  /\ wblock[w] \in Block
         /\ wblock[w].id \in Nat /\ wblock[w].size \in Nat
         /\ wblock[w].given \in Nat /\ wblock[w].ts \in Nat
         /\ wblock[w].slot \in Slot /\ wblock[w].ptr \in BOOLEAN
  BY DEF RingTypeOK, Block

\* Storing a number in a word of a slot.
LEMMA StoreWord ==
  ASSUME RingTypeOK, NEW s \in Slot, NEW x \in Word, NEW v \in Nat
  PROVE  [ring EXCEPT ![s][x] = v] \in [Slot -> [Word -> Nat]]
  BY DEF RingTypeOK

\* A block that gets its slot and its commit time.
LEMMA StampBlock ==
  ASSUME NEW b \in Block, NEW ts \in Nat, NEW s \in Slot
  PROVE  /\ [b EXCEPT !.ts = ts] \in Block
         /\ [b EXCEPT !.slot = s, !.ts = ts] \in Block
  BY DEF Block

LEMMA GotoType ==
  ASSUME RingTypeOK, NEW w \in Writers, NEW from, NEW to \in WriterPc,
         Goto(w, from, to)
  PROVE  wpc' \in [Writers -> WriterPc]
  BY DEF RingTypeOK, Goto

\* A step of a writer keeps the types of the ring.
LEMMA WriterTypes ==
  ASSUME RingTypeOK, NEW w \in Writers, WriterStep(w)
  PROVE  RingTypeOK' /\ UNCHANGED first /\ Len(hist) <= Len(hist')
  <1> DEFINE s == wblock[w].slot
  <1> USE ConstantsAssumption
  <1>0. /\ wblock[w] \in Block
        /\ wblock[w].id \in Nat /\ wblock[w].size \in Nat
        /\ wblock[w].given \in Nat /\ wblock[w].ts \in Nat
        /\ s \in Slot /\ wblock[w].ptr \in BOOLEAN
    BY BlockFields
  <1>a. {"lock", "watch", "idle", "inv_hi", "inv_lo", "copy", "stamp", "pub_lo",
         "pub_hi", "current", "unlock"} \subseteq WriterPc
    BY DEF WriterPc
  <1>b. {"hi", "lo", "data_ts"} \subseteq Word
    BY DEF Word, CopyWord
  <1>1. CASE WriteBegin(w)
    <2>1. wpc' \in [Writers -> WriterPc]
      BY <1>1, <1>a, GotoType DEF WriteBegin
    <2>2. wblock' \in [Writers -> Block] /\ clock' \in Nat /\ blocks' \in Nat
      BY <1>1 DEF WriteBegin, Reading, RingTypeOK, Block, Slot
    <2> QED BY <1>1, <2>1, <2>2 DEF WriteBegin, RingTypeOK
  <1>2. CASE TakeObjLock(w)
    BY <1>2, <1>a, GotoType DEF TakeObjLock, RingTypeOK
  <1>3. CASE WriteTooFast(w)
    BY <1>3, <1>a, GotoType DEF WriteTooFast, RingTypeOK
  <1>4. CASE ChooseSlot(w)
    <2>1. wblock' \in [Writers -> Block]
      <3> DEFINE ts == IF wblock[w].ts = SlotTs(NextSlot) /\ ~SimMode
                         THEN wblock[w].ts + 1 ELSE wblock[w].ts
      <3>1. ts \in Nat
        BY <1>0
      <3>2. wblock' = [wblock EXCEPT ![w] =
                         [wblock[w] EXCEPT !.slot = NextSlot, !.ts = ts]]
        BY <1>4 DEF ChooseSlot, RingTypeOK
      <3> HIDE DEF ts
      <3>3. [wblock[w] EXCEPT !.slot = NextSlot, !.ts = ts] \in Block
        BY <1>0, <3>1, SlotNumbers, StampBlock
      <3> QED BY <3>2, <3>3 DEF RingTypeOK
    <2> QED BY SMTT(30), <1>4, <1>a, GotoType, <2>1 DEF ChooseSlot, RingTypeOK
  <1>5. CASE PtrBegin(w)
    <2>1. wblock' \in [Writers -> Block] /\ blocks' \in Nat
      BY SMTT(30), <1>5, SlotNumbers DEF PtrBegin, RingTypeOK, Block
    <2> QED BY <1>5, <1>a, GotoType, <2>1 DEF PtrBegin, RingTypeOK
  <1>6. CASE PtrCommit(w)
    <2>1. PICK t \in Time :
            /\ Reading(t)
            /\ IF TooFast(t)
                 THEN UNCHANGED <<wpc, wblock>>
                 ELSE /\ Goto(w, "copy", "stamp")
                      /\ wblock' = [wblock EXCEPT ![w].ts = t]
      BY <1>6 DEF PtrCommit
    <2>2. t \in Nat /\ clock' = t
      BY <2>1 DEF Reading
    <2>3. wpc' \in [Writers -> WriterPc]
      BY <2>1, <1>a, GotoType DEF RingTypeOK
    <2>4. wblock' \in [Writers -> Block]
      <3>1. [wblock[w] EXCEPT !.ts = t] \in Block
        BY <1>0, <2>2, StampBlock
      <3> QED BY <1>0, <2>1, <3>1 DEF RingTypeOK
    <2> QED BY SMTT(30), <1>6, <2>2, <2>3, <2>4 DEF PtrCommit, RingTypeOK
  <1>7. CASE InvalidateHigh(w)
    BY <1>0, <1>a, <1>b, <1>7, GotoType, StoreWord DEF InvalidateHigh, RingTypeOK
  <1>8. CASE InvalidateLow(w)
    <2>1. wtodo' \in [Writers -> SUBSET CopyWord]
      BY <1>8 DEF InvalidateLow, RingTypeOK
    <2>2. ring' \in [Slot -> [Word -> Nat]] /\ wpc' \in [Writers -> WriterPc]
      BY <1>0, <1>a, <1>b, <1>8, GotoType, StoreWord DEF InvalidateLow
    <2> QED BY <1>8, <2>1, <2>2 DEF InvalidateLow, RingTypeOK
  <1>9. CASE CopyIn(w)
    <2>1. PICK x \in wtodo[w] :
            /\ wtodo' = [wtodo EXCEPT ![w] = @ \ {x}]
            /\ ring' = [ring EXCEPT ![s][x] =
                     IF x = "data_ts" THEN wblock[w].given
                                      ELSE Contents(wblock[w], x)]
      BY <1>9 DEF CopyIn
    <2>2. x \in CopyWord /\ x \in Word
      BY DEF RingTypeOK, Word
    <2>3. Contents(wblock[w], x) \in Nat
      BY <1>0, <2>2, ContentsAreNat
    <2>4. ring' \in [Slot -> [Word -> Nat]]
      BY <1>0, <2>1, <2>2, <2>3, StoreWord
    <2>5. wtodo' \in [Writers -> SUBSET CopyWord]
      BY <2>1 DEF RingTypeOK
    <2> QED BY <1>9, <2>4, <2>5 DEF CopyIn, RingTypeOK
  <1>10. CASE CopiedIn(w)
    BY <1>10, <1>a, GotoType DEF CopiedIn, RingTypeOK
  <1>11. CASE SetDataTs(w)
    <2>1. ring[s]["data_ts"] \in Nat
      BY <1>0, <1>b DEF RingTypeOK
    <2>2. ring' = [ring EXCEPT ![s]["data_ts"] =
                      IF ring[s]["data_ts"] = 0 THEN wblock[w].ts
                                                ELSE ring[s]["data_ts"]]
      BY <1>11 DEF SetDataTs
    <2>3. ring' \in [Slot -> [Word -> Nat]]
      BY <1>0, <1>b, <2>1, <2>2, StoreWord
    <2> QED BY <1>a, <1>11, <2>3, GotoType DEF SetDataTs, RingTypeOK
  <1>12. CASE PublishLow(w)
    <2>1. Lo(wblock[w].ts) \in Nat
      BY SMTT(30), <1>0, StampWords
    <2>2. ring' \in [Slot -> [Word -> Nat]] /\ wpc' \in [Writers -> WriterPc]
      BY <1>0, <1>a, <1>b, <1>12, <2>1, GotoType, StoreWord DEF PublishLow
    <2>3. hist' \in Seq(Block) /\ Len(hist') = Len(hist) + 1
      BY <1>0, <1>12 DEF PublishLow, RingTypeOK
    <2> QED BY <1>12, <2>2, <2>3 DEF PublishLow, RingTypeOK
  <1>13. CASE PublishHigh(w)
    <2>1. Hi(wblock[w].ts) \in Nat
      BY <1>0, StampWords
    <2> QED BY SMTT(30), <1>0, <1>a, <1>b, <1>13, <2>1, GotoType, StoreWord
            DEF PublishHigh, RingTypeOK
  <1>14. CASE MakeCurrent(w)
    <2>1. history_slot' \in -1 .. HistorySize - 1 /\ cur' \in 0 .. Len(hist)
      BY <1>0, <1>14 DEF MakeCurrent, Slot, RingTypeOK
    <2> QED BY <1>a, <1>14, <2>1, GotoType DEF MakeCurrent, RingTypeOK
  <1>15. CASE ReleaseObjLock(w)
    BY <1>15, <1>a, GotoType DEF ReleaseObjLock, RingTypeOK
  <1> QED
    BY <1>1, <1>2, <1>3, <1>4, <1>5, <1>6, <1>7, <1>8, <1>9, <1>10, <1>11,
       <1>12, <1>13, <1>14, <1>15 DEF WriterStep
\* A step of the ring keeps its types, whoever takes it.
LEMMA RingTypes ==
  ASSUME RingTypeOK, RingNext
  PROVE  RingTypeOK' /\ Len(hist) <= Len(hist')
  <1>1. ASSUME NEW w \in Writers, WriterStep(w)
        PROVE  RingTypeOK' /\ Len(hist) <= Len(hist')
    BY <1>1, WriterTypes
  <1>2. ASSUME NEW w \in Writers, Crash(w)
        PROVE  RingTypeOK' /\ Len(hist) <= Len(hist')
    BY <1>2 DEF Crash, RingTypeOK, WriterPc
  <1>3. CASE Delete
    BY <1>3 DEF Delete, RingTypeOK, wvars
  <1>4. CASE Reuse
    <2>1. history_slot' \in -1 .. HistorySize - 1 /\ reuses' \in Nat
      BY <1>4, ConstantsAssumption DEF Reuse, RingTypeOK
    <2>2. Len(hist) \in Nat /\ first' = Len(hist)
      BY <1>4 DEF Reuse, RingTypeOK
    <2>3. first' \in 0 .. Len(hist') /\ cur' \in 0 .. Len(hist')
      BY <1>4, <2>2 DEF Reuse, RingTypeOK
    <2>4. /\ UNCHANGED <<ring, obj_lock, clock, blocks, hist>>
          /\ UNCHANGED <<wpc, wblock, wtodo>>
          /\ deleted' \in BOOLEAN
      BY <1>4 DEF Reuse, wvars
    <2> QED BY <2>1, <2>2, <2>3, <2>4 DEF RingTypeOK
  <1> QED BY <1>1, <1>2, <1>3, <1>4 DEF RingNext

LEMMA RingInitTypes == RingInit => RingTypeOK
  <1> SUFFICES ASSUME RingInit PROVE RingTypeOK
    OBVIOUS
  <1>1. NullBlock \in Block /\ -1 \in -1 .. HistorySize - 1
    BY ConstantsAssumption DEF NullBlock, Block, Slot
  <1>2. /\ hist \in Seq(Block) /\ Len(hist) = 0
        /\ cur \in 0 .. Len(hist) /\ first \in 0 .. Len(hist)
    BY DEF RingInit
  <1>3. wpc \in [Writers -> WriterPc]
    BY DEF RingInit, WriterPc
  <1>4. ring \in [Slot -> [Word -> Nat]]
    BY DEF RingInit
  <1>5. /\ wblock \in [Writers -> Block]
        /\ wtodo \in [Writers -> SUBSET CopyWord]
        /\ history_slot \in -1 .. HistorySize - 1
    BY <1>1 DEF RingInit
  <1> QED BY <1>2, <1>3, <1>4, <1>5 DEF RingInit, RingTypeOK

\* A reader changes nothing but its own variables.
LEMMA ReadersOnlyRead ==
  ASSUME NEW r \in Readers, ReaderStep(r)
  PROVE  UNCHANGED ringVars
  BY DEF ReaderStep, ReadBegin, CheckSlot, CheckDeleted, ScanHigh, ScanLow,
         ScanData, CopyOut, FinalLow, FinalHigh, ReturnSize
\* A reader that copies a block has chosen one: with TypeOK inductive.
HasCandidate ==
  \A r \in Readers : rpc[r] \in {"copy", "final_lo", "final_hi", "size"} =>
    chosen[r] \in [slot : Slot, hi : Nat, lo : Nat, data_ts : Nat]

\* The two ways a search ends.
LEMMA ReturnTypes ==
  ASSUME TypeOK, NEW r \in Readers, NEW status \in Status, NEW ts \in Nat,
         NEW size \in Nat, Return(r, status, ts, size)
  PROVE  /\ rpc' \in [Readers -> ReaderPc]
         /\ result' \in [Readers -> [status : Status, ts : Nat, size : Nat]]
         /\ rpc'[r] = "idle"
  <1>1. [status |-> status, ts |-> ts, size |-> size]
           \in [status : Status, ts : Nat, size : Nat]
    OBVIOUS
  <1>2. result' \in [Readers -> [status : Status, ts : Nat, size : Nat]]
    BY <1>1 DEF TypeOK, Return
  <1>3. rpc' \in [Readers -> ReaderPc] /\ rpc'[r] = "idle"
    BY DEF TypeOK, Return, ReaderPc
  <1> QED BY <1>2, <1>3

LEMMA BeginCopyTypes ==
  ASSUME TypeOK, NEW r \in Readers, BeginCopy(r)
  PROVE  /\ rpc' \in [Readers -> ReaderPc]
         /\ rtodo' \in [Readers -> SUBSET CopyWord]
         /\ rpc'[r] = "copy"
  BY DEF TypeOK, BeginCopy, ReaderPc

LEMMA NotFoundTypes ==
  ASSUME TypeOK, NEW r \in Readers, Return(r, "NOTFOUND", 0, 0)
  PROVE  /\ rpc' \in [Readers -> ReaderPc]
         /\ result' \in [Readers -> [status : Status, ts : Nat, size : Nat]]
         /\ rpc'[r] = "idle"
  BY ReturnTypes DEF Status

\* A word read into the record of a slot's time stamps.
LEMMA ProbeTypes ==
  ASSUME TypeOK, NEW r \in Readers, NEW v \in Nat
  PROVE  /\ [probe[r] EXCEPT !.hi = v] \in [hi : Nat, lo : Nat, data_ts : Nat]
         /\ [probe[r] EXCEPT !.lo = v] \in [hi : Nat, lo : Nat, data_ts : Nat]
         /\ [probe[r] EXCEPT !.data_ts = v]
               \in [hi : Nat, lo : Nat, data_ts : Nat]
  <1>1. probe[r] \in [hi : Nat, lo : Nat, data_ts : Nat]
    BY DEF TypeOK
  <1> QED BY <1>1

\* What histscan's decision does to the reader's variables, whatever it is.
LEMMA DecideTypes ==
  ASSUME TypeOK, NEW r \in Readers, NEW time \in Nat,
         NEW p \in [hi : Nat, lo : Nat, data_ts : Nat], Decide(r, p, time)
  PROVE  /\ rpc' \in [Readers -> ReaderPc]
         /\ slot' \in [Readers -> Slot]
         /\ chosen' \in [Readers -> {None} \cup
                  [slot : Slot, hi : Nat, lo : Nat, data_ts : Nat]]
         /\ rtodo' \in [Readers -> SUBSET CopyWord]
         /\ result' \in [Readers -> [status : Status, ts : Nat, size : Nat]]
         /\ rpc'[r] = "copy" => chosen'[r] # None
         /\ rpc'[r] \in {"check", "copy", "idle"}
         /\ \A q \in Readers \ {r} : rpc'[q] = rpc[q] /\ chosen'[q] = chosen[q]
  <1> DEFINE here == [slot |-> slot[r], hi |-> p.hi, lo |-> p.lo,
                      data_ts |-> p.data_ts]
             before == (slot[r] - 1 + HistorySize) % HistorySize
             Candidates == [slot : Slot, hi : Nat, lo : Nat, data_ts : Nat]
  <1>1. slot[r] \in Slot /\ before \in Slot
    BY SlotNumbers DEF TypeOK
  <1>2. here \in Candidates /\ here # None
    BY <1>1 DEF None, Slot
  <1>3. slot' = slot \/ slot' = [slot EXCEPT ![r] = before]
    BY DEF Decide
  <1>4. chosen' = chosen \/ chosen' = [chosen EXCEPT ![r] = here]
    BY DEF Decide
  <1>5. \/ rpc' = [rpc EXCEPT ![r] = "check"] /\ UNCHANGED <<rtodo, result>>
        \/ BeginCopy(r) /\ UNCHANGED result
        \/ Return(r, "NOTFOUND", 0, 0) /\ UNCHANGED rtodo
    BY DEF Decide
  <1>10. \/ chosen' = [chosen EXCEPT ![r] = here]
         \/ chosen' = chosen /\ (chosen[r] # None \/ Return(r, "NOTFOUND", 0, 0))
    BY DEF Decide
  <1> HIDE DEF here, before, Candidates
  <1>6. slot' \in [Readers -> Slot]
    BY <1>1, <1>3 DEF TypeOK
  <1>7. chosen' \in [Readers -> {None} \cup Candidates]
    BY <1>2, <1>4 DEF TypeOK, Candidates
  <1>8. /\ rpc' \in [Readers -> ReaderPc]
        /\ rtodo' \in [Readers -> SUBSET CopyWord]
        /\ result' \in [Readers -> [status : Status, ts : Nat, size : Nat]]
    <2>1. CASE rpc' = [rpc EXCEPT ![r] = "check"] /\ UNCHANGED <<rtodo, result>>
      BY <2>1 DEF TypeOK, ReaderPc
    <2>2. CASE BeginCopy(r) /\ UNCHANGED result
      BY <2>2, BeginCopyTypes DEF TypeOK
    <2>3. CASE Return(r, "NOTFOUND", 0, 0) /\ UNCHANGED rtodo
      BY <2>3, NotFoundTypes DEF TypeOK
    <2> QED BY <1>5, <2>1, <2>2, <2>3
  <1>11. rpc'[r] = "copy" => chosen'[r] # None
    BY <1>2, <1>10 DEF TypeOK, Return
  <1>12. rpc'[r] \in {"check", "copy", "idle"}
    BY <1>5 DEF TypeOK, BeginCopy, Return
  <1>13. \A q \in Readers \ {r} : rpc'[q] = rpc[q] /\ chosen'[q] = chosen[q]
    BY <1>4, <1>5 DEF TypeOK, BeginCopy, Return
  <1> QED BY <1>6, <1>7, <1>8, <1>11, <1>12, <1>13 DEF Candidates

\* A step of a reader keeps the types of its variables.
LEMMA ReaderTypes ==
  ASSUME TypeOK, HasCandidate, NEW r \in Readers, ReaderStep(r)
  PROVE  TypeOK'
  <1>0. UNCHANGED ringVars
    BY ReadersOnlyRead
  <1>a. RingTypeOK'
    BY <1>0 DEF TypeOK, RingTypeOK, ringVars
  <1>b. /\ ring \in [Slot -> [Word -> Nat]] /\ hist' = hist
        /\ "hi" \in Word /\ "lo" \in Word /\ "data_ts" \in Word
        /\ CopyWord \subseteq Word /\ "size" \in Word
        /\ slot[r] \in Slot
    BY <1>0 DEF TypeOK, RingTypeOK, ringVars, Word, CopyWord
  <1> DEFINE Candidates == [slot : Slot, hi : Nat, lo : Nat, data_ts : Nat]
  <1>1. CASE ReadBegin(r)
    <2>1. slot' \in [Readers -> Slot]
      BY <1>1, SlotNumbers DEF ReadBegin, TypeOK
    <2>2. req' \in [Readers -> Request]
      BY <1>1, RequestsAssumption DEF ReadBegin, TypeOK
    <2>3. start' \in [Readers -> -1 .. HistorySize - 1]
      BY <1>1 DEF ReadBegin, TypeOK, RingTypeOK
    <2>4. chosen' \in [Readers -> {None} \cup Candidates]
      BY <1>1 DEF ReadBegin, TypeOK
    <2>5. /\ rpc' \in [Readers -> ReaderPc]
          /\ probe' \in [Readers -> [hi : Nat, lo : Nat, data_ts : Nat]]
          /\ final' \in [Readers -> [hi : Nat, lo : Nat]]
      BY <1>1 DEF ReadBegin, TypeOK, ReaderPc, NullProbe
    <2>6. result' \in [Readers -> [status : Status, ts : Nat, size : Nat]]
      BY <1>1 DEF ReadBegin, TypeOK, NoResult, Status
    <2>7. /\ since' \in [Readers -> 0 .. Len(hist)]
          /\ base' \in [Readers -> 0 .. Len(hist)]
      BY <1>1 DEF ReadBegin, TypeOK, RingTypeOK
    <2>8. buf' \in [Readers -> [CopyWord -> Nat]]
      BY <1>1 DEF ReadBegin, TypeOK
    <2> QED BY <1>1, <1>a, <1>b, <2>1, <2>2, <2>3, <2>4, <2>5, <2>6, <2>7, <2>8
            DEF ReadBegin, TypeOK
  <1>2. CASE CheckSlot(r)
    <2>1. \/ rpc' = [rpc EXCEPT ![r] = "deleted"] /\ UNCHANGED <<rtodo, result>>
          \/ rpc' = [rpc EXCEPT ![r] = "scan_hi"] /\ UNCHANGED <<rtodo, result>>
          \/ BeginCopy(r) /\ UNCHANGED result
          \/ Return(r, "NOTFOUND", 0, 0) /\ UNCHANGED rtodo
      BY <1>2 DEF CheckSlot, NoFurtherBlock
    <2>2. /\ rpc' \in [Readers -> ReaderPc]
          /\ rtodo' \in [Readers -> SUBSET CopyWord]
          /\ result' \in [Readers -> [status : Status, ts : Nat, size : Nat]]
      <3>1. CASE BeginCopy(r) /\ UNCHANGED result
        BY <3>1, BeginCopyTypes DEF TypeOK
      <3>2. CASE Return(r, "NOTFOUND", 0, 0) /\ UNCHANGED rtodo
        BY <3>2, NotFoundTypes DEF TypeOK
      <3>3. CASE /\ UNCHANGED <<rtodo, result>>
                 /\ \/ rpc' = [rpc EXCEPT ![r] = "deleted"]
                    \/ rpc' = [rpc EXCEPT ![r] = "scan_hi"]
        BY <3>3 DEF TypeOK, ReaderPc
      <3> QED BY <2>1, <3>1, <3>2, <3>3
    <2> QED BY <1>2, <1>a, <1>b, <2>2 DEF CheckSlot, TypeOK
  <1>3. CASE CheckDeleted(r)
    <2>1. CASE deleted
      BY <1>3, <1>a, <1>b, <2>1, NotFoundTypes DEF CheckDeleted, TypeOK
    <2>2. CASE ~deleted
      BY <1>3, <1>a, <1>b, <2>2 DEF CheckDeleted, TypeOK, ReaderPc
    <2> QED BY <2>1, <2>2
  <1>4. CASE ScanHigh(r)
    <2>1. ring[slot[r]]["hi"] \in Nat
      BY <1>b
    <2>2. probe' \in [Readers -> [hi : Nat, lo : Nat, data_ts : Nat]]
      <3>1. probe' = [probe EXCEPT ![r] =
                        [probe[r] EXCEPT !.hi = ring[slot[r]]["hi"]]]
        BY <1>4 DEF ScanHigh, TypeOK
      <3> QED BY <2>1, <3>1, ProbeTypes DEF TypeOK
    <2>3. rpc' \in [Readers -> ReaderPc]
      BY <1>4 DEF ScanHigh, TypeOK, ReaderPc
    <2> QED BY <1>4, <1>a, <1>b, <2>2, <2>3 DEF ScanHigh, TypeOK
  <1>5. CASE ScanLow(r)
    <2> DEFINE p == [probe[r] EXCEPT !.lo = ring[slot[r]]["lo"]]
    <2>1. p \in [hi : Nat, lo : Nat, data_ts : Nat]
      <3>1. ring[slot[r]]["lo"] \in Nat
        BY <1>b
      <3> QED BY <3>1, ProbeTypes
    <2>2. Stamp(p.hi, p.lo) \in Nat
      BY <2>1, StampIsNat
    <2>3. probe' \in [Readers -> [hi : Nat, lo : Nat, data_ts : Nat]]
      BY <1>5, <2>1 DEF ScanLow, TypeOK
    <2>4. CASE IsData(r)
      <3>1. /\ rpc' = [rpc EXCEPT ![r] = "scan_data"]
            /\ UNCHANGED <<slot, chosen, rtodo, result>>
        BY <1>5, <2>4 DEF ScanLow
      <3>2. rpc' \in [Readers -> ReaderPc]
        BY <3>1 DEF TypeOK, ReaderPc
      <3> QED BY <1>5, <1>a, <1>b, <2>3, <3>1, <3>2 DEF ScanLow, TypeOK
    <2>5. CASE ~IsData(r)
      <3>1. Decide(r, p, Stamp(p.hi, p.lo))
        BY <1>5, <2>5 DEF ScanLow
      <3> QED BY <1>5, <1>a, <1>b, <2>1, <2>2, <2>3, <3>1, DecideTypes
              DEF ScanLow, TypeOK
    <2> QED BY <2>4, <2>5
  <1>6. CASE ScanData(r)
    <2> DEFINE p == [probe[r] EXCEPT !.data_ts = ring[slot[r]]["data_ts"]]
    <2>1. p \in [hi : Nat, lo : Nat, data_ts : Nat]
      <3>1. ring[slot[r]]["data_ts"] \in Nat
        BY <1>b
      <3> QED BY <3>1, ProbeTypes
    <2>2. probe' \in [Readers -> [hi : Nat, lo : Nat, data_ts : Nat]]
      BY <1>6, <2>1 DEF ScanData, TypeOK
    <2>3. Decide(r, p, p.data_ts) /\ p.data_ts \in Nat
      BY <1>6, <2>1 DEF ScanData
    <2> QED BY <1>6, <1>a, <1>b, <2>1, <2>2, <2>3, DecideTypes
            DEF ScanData, TypeOK
  <1>7. CASE CopyOut(r)
    <2>1. PICK w \in rtodo[r] :
            /\ rtodo' = [rtodo EXCEPT ![r] = @ \ {w}]
            /\ buf' = [buf EXCEPT ![r][w] = ring[chosen[r].slot][w]]
            /\ rpc' = [rpc EXCEPT ![r] = IF rtodo[r] = {w} THEN "final_lo" ELSE @]
      BY <1>7 DEF CopyOut
    <2>2. w \in CopyWord
      BY DEF TypeOK
    <2>3. ring[chosen[r].slot][w] \in Nat
      BY <1>7, <1>b, <2>2 DEF HasCandidate, CopyOut
    <2>4. buf' \in [Readers -> [CopyWord -> Nat]]
      BY <2>1, <2>2, <2>3 DEF TypeOK
    <2>5. /\ rpc' \in [Readers -> ReaderPc]
          /\ rtodo' \in [Readers -> SUBSET CopyWord]
      BY <2>1 DEF TypeOK, ReaderPc
    <2> QED BY <1>7, <1>a, <1>b, <2>4, <2>5 DEF CopyOut, TypeOK
  <1>8. CASE FinalLow(r)
    <2>1. ring[chosen[r].slot]["lo"] \in Nat
      BY <1>8, <1>b DEF HasCandidate, FinalLow
    <2>2. /\ final' \in [Readers -> [hi : Nat, lo : Nat]]
          /\ rpc' \in [Readers -> ReaderPc]
      BY <1>8, <2>1 DEF FinalLow, TypeOK, ReaderPc
    <2> QED BY <1>8, <1>a, <1>b, <2>2 DEF FinalLow, TypeOK
  <1>9. CASE FinalHigh(r)
    <2> DEFINE hi == ring[chosen[r].slot]["hi"]
    <2>1. hi \in Nat
      BY <1>9, <1>b DEF HasCandidate, FinalHigh
    <2>2. final' = [final EXCEPT ![r].hi = hi]
      BY <1>9 DEF FinalHigh
    <2>3. \/ rpc' = [rpc EXCEPT ![r] = "size"] /\ UNCHANGED result
          \/ Return(r, "HISTWRAP", Stamp(hi, final[r].lo), 0)
      BY <1>9 DEF FinalHigh
    <2>4. Stamp(hi, final[r].lo) \in Nat
      BY <2>1, StampIsNat DEF TypeOK
    <2> HIDE DEF hi
    <2>5. final' \in [Readers -> [hi : Nat, lo : Nat]]
      BY <2>1, <2>2 DEF TypeOK
    <2>6. /\ rpc' \in [Readers -> ReaderPc]
          /\ result' \in [Readers -> [status : Status, ts : Nat, size : Nat]]
      <3>1. CASE Return(r, "HISTWRAP", Stamp(hi, final[r].lo), 0)
        BY <2>4, <3>1, ReturnTypes DEF Status
      <3>2. CASE rpc' = [rpc EXCEPT ![r] = "size"] /\ UNCHANGED result
        BY <3>2 DEF TypeOK, ReaderPc
      <3> QED BY <2>3, <3>1, <3>2
    <2> QED BY <1>9, <1>a, <1>b, <2>5, <2>6 DEF FinalHigh, TypeOK
  <1>10. CASE ReturnSize(r)
    <2> DEFINE ts == Stamp(final[r].hi, final[r].lo)
               size == ring[chosen[r].slot]["size"]
    <2>1. ts \in Nat
      BY StampIsNat DEF TypeOK
    <2>2. size \in Nat
      BY <1>10, <1>b DEF HasCandidate, ReturnSize
    <2>3. Return(r, "ok", ts, size)
      BY <1>10 DEF ReturnSize
    <2> HIDE DEF ts, size
    <2>4. /\ rpc' \in [Readers -> ReaderPc]
          /\ result' \in [Readers -> [status : Status, ts : Nat, size : Nat]]
      BY <2>1, <2>2, <2>3 DEF Return, TypeOK, ReaderPc, Status
    <2> QED BY <1>10, <1>a, <1>b, <2>4 DEF ReturnSize, TypeOK
  <1> QED
    BY <1>1, <1>2, <1>3, <1>4, <1>5, <1>6, <1>7, <1>8, <1>9, <1>10
       DEF ReaderStep

LEMMA ReaderHasCandidate ==
  ASSUME TypeOK, HasCandidate, NEW r \in Readers, ReaderStep(r)
  PROVE  HasCandidate'
  <1> DEFINE Candidates == [slot : Slot, hi : Nat, lo : Nat, data_ts : Nat]
             Copying == {"copy", "final_lo", "final_hi", "size"}
  <1>0. TypeOK'
    BY ReaderTypes
  <1>1. CASE ScanLow(r) \/ ScanData(r)
    <2>1. CASE rpc'[r] = "scan_data" /\ rpc' = [rpc EXCEPT ![r] = "scan_data"]
                 /\ UNCHANGED chosen
      BY <2>1 DEF HasCandidate, TypeOK
    <2>2. CASE \E p \in [hi : Nat, lo : Nat, data_ts : Nat], t \in Nat :
                 Decide(r, p, t)
      <3>1. PICK p \in [hi : Nat, lo : Nat, data_ts : Nat], t \in Nat :
              Decide(r, p, t)
        BY <2>2
      <3>2. /\ rpc'[r] = "copy" => chosen'[r] # None
            /\ rpc'[r] \in {"check", "copy", "idle"}
            /\ \A q \in Readers \ {r} : rpc'[q] = rpc[q] /\ chosen'[q] = chosen[q]
        BY <3>1, DecideTypes
      <3>3. chosen' \in [Readers -> {None} \cup Candidates]
        BY <1>0 DEF TypeOK
      <3> QED BY <3>2, <3>3 DEF HasCandidate
    <2>3. CASE ScanLow(r)
      <3> DEFINE p == [probe[r] EXCEPT !.lo = ring[slot[r]]["lo"]]
      <3>1. p \in [hi : Nat, lo : Nat, data_ts : Nat]
        <4>1. ring[slot[r]]["lo"] \in Nat
          BY SMTT(30) DEF TypeOK, RingTypeOK, Word
        <4> QED BY <4>1, ProbeTypes
      <3>2. Stamp(p.hi, p.lo) \in Nat
        BY <3>1, StampIsNat
      <3>3. CASE IsData(r)
        BY <2>1, <2>3, <3>3 DEF ScanLow, TypeOK
      <3>4. CASE ~IsData(r)
        BY <2>2, <2>3, <3>1, <3>2, <3>4 DEF ScanLow
      <3> QED BY <3>3, <3>4
    <2>4. CASE ScanData(r)
      <3> DEFINE p == [probe[r] EXCEPT !.data_ts = ring[slot[r]]["data_ts"]]
      <3>1. p \in [hi : Nat, lo : Nat, data_ts : Nat]
        <4>1. ring[slot[r]]["data_ts"] \in Nat
          BY SMTT(30) DEF TypeOK, RingTypeOK, Word, CopyWord
        <4> QED BY <4>1, ProbeTypes
      <3>2. p.data_ts \in Nat /\ Decide(r, p, p.data_ts)
        BY <2>4, <3>1 DEF ScanData
      <3> QED BY <2>2, <3>1, <3>2
    <2> QED BY <1>1, <2>3, <2>4
  <1>2. CASE CheckSlot(r)
    <2>1. /\ \A q \in Readers \ {r} : rpc'[q] = rpc[q]
          /\ rpc'[r] \in Copying => chosen[r] # None
          /\ UNCHANGED chosen
      BY <1>2 DEF CheckSlot, NoFurtherBlock, BeginCopy, Return, TypeOK
    <2> QED BY <1>0, <2>1 DEF HasCandidate, TypeOK
  <1>3. CASE ReadBegin(r)
    BY <1>3 DEF ReadBegin, HasCandidate, TypeOK
  <1>4. CASE CheckDeleted(r)
    BY <1>4 DEF CheckDeleted, Return, HasCandidate, TypeOK
  <1>5. CASE ScanHigh(r)
    BY <1>5 DEF ScanHigh, HasCandidate, TypeOK
  <1>6. CASE CopyOut(r)
    BY <1>6 DEF CopyOut, HasCandidate, TypeOK
  <1>7. CASE FinalLow(r)
    BY <1>7 DEF FinalLow, HasCandidate, TypeOK
  <1>8. CASE FinalHigh(r)
    BY <1>8 DEF FinalHigh, Return, HasCandidate, TypeOK
  <1>9. CASE ReturnSize(r)
    BY <1>9 DEF ReturnSize, Return, HasCandidate, TypeOK
  <1> QED
    BY <1>1, <1>2, <1>3, <1>4, <1>5, <1>6, <1>7, <1>8, <1>9 DEF ReaderStep

LEMMA InitTypes == Init => TypeOK /\ HasCandidate
  <1> SUFFICES ASSUME Init PROVE TypeOK /\ HasCandidate
    OBVIOUS
  <1>1. RingTypeOK /\ Len(hist) = 0
    BY RingInitTypes DEF Init, RingInit
  <1>2. 0 \in Slot /\ -1 \in -1 .. HistorySize - 1
    BY ConstantsAssumption DEF Slot
  <1>3. /\ rpc \in [Readers -> ReaderPc] /\ req \in [Readers -> Request]
        /\ slot \in [Readers -> Slot]
        /\ start \in [Readers -> -1 .. HistorySize - 1]
    BY <1>2 DEF Init, ReaderPc, Request, Mode
  <1>4. /\ probe \in [Readers -> [hi : Nat, lo : Nat, data_ts : Nat]]
        /\ chosen \in [Readers -> {None} \cup
                [slot : Slot, hi : Nat, lo : Nat, data_ts : Nat]]
        /\ final \in [Readers -> [hi : Nat, lo : Nat]]
        /\ result \in [Readers -> [status : Status, ts : Nat, size : Nat]]
    BY DEF Init, NullProbe, NoResult, Status
  <1>5. /\ buf \in [Readers -> [CopyWord -> Nat]]
        /\ rtodo \in [Readers -> SUBSET CopyWord]
        /\ since \in [Readers -> 0 .. Len(hist)]
        /\ base \in [Readers -> 0 .. Len(hist)]
    BY <1>1 DEF Init
  <1>6. HasCandidate
    BY DEF Init, HasCandidate
  <1> QED BY <1>1, <1>3, <1>4, <1>5, <1>6 DEF TypeOK

LEMMA NextTypes ==
  ASSUME TypeOK, HasCandidate, [Next]_vars
  PROVE  TypeOK' /\ HasCandidate'
  <1>1. ASSUME RingNext, UNCHANGED readVars PROVE TypeOK' /\ HasCandidate'
    <2>1. RingTypeOK' /\ Len(hist) <= Len(hist')
      BY <1>1, RingTypes DEF TypeOK
    <2>2. Len(hist) \in Nat /\ Len(hist') \in Nat
      BY SMTT(30), <2>1 DEF TypeOK, RingTypeOK
    <2>3. 0 .. Len(hist) \subseteq 0 .. Len(hist')
      BY <2>1, <2>2
    <2>4. /\ since' \in [Readers -> 0 .. Len(hist')]
          /\ base' \in [Readers -> 0 .. Len(hist')]
      BY <1>1, <2>3 DEF TypeOK, readVars
    <2> QED BY <1>1, <2>1, <2>4 DEF TypeOK, HasCandidate, readVars
  <1>2. ASSUME NEW r \in Readers, ReaderStep(r) PROVE TypeOK' /\ HasCandidate'
    BY <1>2, ReaderTypes, ReaderHasCandidate
  <1>3. ASSUME UNCHANGED vars PROVE TypeOK' /\ HasCandidate'
    BY <1>3 DEF vars, ringVars, readVars, TypeOK, RingTypeOK, HasCandidate
  <1> QED BY <1>1, <1>2, <1>3 DEF Next

\* Every variable keeps its type: no slot number ever leaves the ring, no
\* word is negative, and a reader never copies before it has chosen a block.
THEOREM TypeCorrect == Spec => []TypeOK
  <1>1. Spec => [](TypeOK /\ HasCandidate)
    <2>1. TypeOK /\ HasCandidate /\ [Next]_vars => (TypeOK /\ HasCandidate)'
      BY NextTypes
    <2> QED BY InitTypes, <2>1, PTL DEF Spec
  <1> QED BY <1>1, PTL

-----------------------------------------------------------------------------
(* The ring and its writers: which block is in which slot. *)

\* Where a writer is that has chosen its slot and not yet made it the current one, where
\* it is while the ring is as the last one left it, and where it excludes others.
Inside  == {"inv_hi", "inv_lo", "copy", "stamp", "pub_lo", "pub_hi", "current"}
Quiet   == {"watch", "inv_hi", "unlock"}
Holding == Inside \cup Quiet

\* Writers exclude each other by the lock, or there is but one.
OneWriter ==
  \A w \in Writers :
    IF WriteAllow THEN wpc[w] \in Holding => obj_lock = w
                  ELSE wpc[w] # "lock" /\ (wpc[w] # "idle" => w = Creator)

\* No writer is amidst a block, and none died there.
Free == \/ IF WriteAllow THEN obj_lock = NoWriter ELSE wpc[Creator] = "idle"
        \/ \E w \in Writers : wpc[w] \in Quiet

\* The slot of the n-th block of all objects in this ring.
SlotNo(n) == (n - first - 1) % HistorySize

PlacesOK ==
  /\ \A j \in first + 1 .. Len(hist) : hist[j].slot = SlotNo(j)
  /\ history_slot = IF cur > first THEN SlotNo(cur) ELSE -1

\* The words of slot s behind the commit time are those of block b.
HasWords(s, b) == \A x \in CopyWord : ring[s][x] = Contents(b, x)
IsWhole(s, b) ==
  HasWords(s, b) /\ ring[s]["lo"] = Lo(b.ts) /\ ring[s]["hi"] = Hi(b.ts)

\* Block i is the last one that was written to slot s.
IsLastIn(s, i) ==
  /\ i \in 1 .. Len(hist) /\ hist[i].slot = s
  /\ \A j \in i + 1 .. Len(hist) : hist[j].slot # s

\* A word of the commit time is there only while the block is: the low word comes before
\* the high one and goes after it.
StampAt(s) ==
  ring[s]["hi"] # 0 \/ ring[s]["lo"] # 0 =>
    \E i \in 1 .. Len(hist) :
      /\ IsLastIn(s, i) /\ HasWords(s, hist[i])
      /\ ring[s]["lo"] = Lo(hist[i].ts) /\ ring[s]["hi"] \in {0, Hi(hist[i].ts)}
StampsOK == \A s \in Slot : StampAt(s)

\* All but one of the blocks that fit into the ring are whole, and all of them while no
\* writer is at work.
KeptOK ==
  \A j \in first + 1 .. cur : j > cur + 1 - HistorySize => IsWhole(SlotNo(j), hist[j])
FreeOK ==
  Free => /\ Len(hist) = cur
          /\ \A j \in first + 1 .. cur : j > cur - HistorySize => IsWhole(SlotNo(j), hist[j])

\* What a writer has done to its slot.
CopiedWord(b, x) == IF x = "data_ts" THEN b.given ELSE Contents(b, x)
WriterAt(w) ==
  LET s == wblock[w].slot b == wblock[w] IN
  /\ wpc[w] \in Inside => s = SlotNo(cur + 1) /\ first <= cur
  /\ wpc[w] \in Inside \ {"pub_hi", "current"} => Len(hist) = cur
  /\ wpc[w] \in Inside \ {"inv_hi", "current"} => ring[s]["hi"] = 0
  /\ wpc[w] \in {"copy", "stamp", "pub_lo"} => ring[s]["lo"] = 0
  /\ wpc[w] = "copy" => \A x \in CopyWord \ wtodo[w] : ring[s][x] = CopiedWord(b, x)
  /\ wpc[w] = "stamp" => \A x \in CopyWord : ring[s][x] = CopiedWord(b, x)
  /\ wpc[w] \in {"pub_lo", "pub_hi", "current"} => HasWords(s, b)
  /\ wpc[w] \in {"pub_hi", "current"} =>
       Len(hist) = cur + 1 /\ hist[cur + 1] = b /\ ring[s]["lo"] = Lo(b.ts)
  /\ wpc[w] = "current" => ring[s]["hi"] = Hi(b.ts)
WritersOK == \A w \in Writers : WriterAt(w)

RingInv == RingTypeOK /\ OneWriter /\ PlacesOK /\ StampsOK /\ KeptOK /\ FreeOK /\ WritersOK

\* Arithmetic of the ring.
LEMMA NoMultiple ==
  ASSUME NEW m \in Int, HistorySize * m < HistorySize, HistorySize * m > 0 - HistorySize
  PROVE  m = 0
  <1>0. HistorySize \in Nat \ {0}
    BY ConstantsAssumption
  <1>1. ASSUME m >= 1 PROVE FALSE
    <2>1. HistorySize * m >= HistorySize * 1
      BY <1>0, <1>1
    <2> QED BY <1>0, <2>1
  <1>2. ASSUME m <= -1 PROVE FALSE
    <2>1. HistorySize * m <= HistorySize * (-1)
      BY <1>0, <1>2
    <2> QED BY <1>0, <2>1
  <1> QED BY <1>1, <1>2

LEMMA Remainder ==
  ASSUME NEW n \in Int
  PROVE  \E q \in Int : n % HistorySize = n - HistorySize * q
  <1>0. HistorySize \in Nat \ {0}
    BY ConstantsAssumption
  <1>1. n % HistorySize = n - HistorySize * (n \div HistorySize) /\ n \div HistorySize \in Int
    BY <1>0, Z3
  <1> QED BY <1>1

\* Numbers have the same remainder iff they differ by a multiple.
LEMMA SameRemainder ==
  ASSUME NEW a \in Int, NEW b \in Int, NEW m \in Int, a - b = HistorySize * m
  PROVE  a % HistorySize = b % HistorySize
  <1>0. HistorySize \in Nat \ {0}
    BY ConstantsAssumption
  <1>1. PICK p \in Int : a % HistorySize = a - HistorySize * p
    BY Remainder
  <1>2. PICK q \in Int : b % HistorySize = b - HistorySize * q
    BY Remainder
  <1>3. a % HistorySize \in 0 .. HistorySize - 1 /\ b % HistorySize \in 0 .. HistorySize - 1
    BY ModIsSlot DEF Slot
  <1>4. /\ HistorySize * (m - p + q) = HistorySize * m - HistorySize * p + HistorySize * q
        /\ HistorySize * p \in Int /\ HistorySize * q \in Int /\ m - p + q \in Int
    BY <1>0
  <1>5. HistorySize * (m - p + q) = (a % HistorySize) - (b % HistorySize)
    BY <1>1, <1>2, <1>4
  <1>6. HistorySize * (m - p + q) < HistorySize /\ HistorySize * (m - p + q) > 0 - HistorySize
    BY <1>0, <1>3, <1>5
  <1>7. m - p + q = 0
    BY <1>4, <1>6, NoMultiple
  <1>8. HistorySize * (m - p + q) = 0
    BY <1>0, <1>7
  <1> QED BY <1>3, <1>5, <1>8

LEMMA DifferentRemainder ==
  ASSUME NEW a \in Int, NEW b \in Int, a < b, b - a < HistorySize
  PROVE  a % HistorySize # b % HistorySize
  <1>0. HistorySize \in Nat \ {0}
    BY ConstantsAssumption
  <1> SUFFICES ASSUME a % HistorySize = b % HistorySize PROVE FALSE
    OBVIOUS
  <1>1. PICK p \in Int : a % HistorySize = a - HistorySize * p
    BY Remainder
  <1>2. PICK q \in Int : b % HistorySize = b - HistorySize * q
    BY Remainder
  <1>3. /\ HistorySize * (q - p) = HistorySize * q - HistorySize * p
        /\ HistorySize * p \in Int /\ HistorySize * q \in Int /\ q - p \in Int
    BY <1>0
  <1>4. HistorySize * (q - p) = b - a
    BY <1>1, <1>2, <1>3
  <1>5. q - p = 0
    BY <1>0, <1>3, <1>4, NoMultiple
  <1>6. HistorySize * (q - p) = 0
    BY <1>0, <1>5
  <1> QED BY <1>4, <1>6

\* Blocks whose numbers are less than the size of the ring apart are in different slots;
\* the block before is in the slot before.
LEMMA SlotsDiffer ==
  ASSUME RingTypeOK, NEW i \in Int, NEW j \in Int, i < j, j - i < HistorySize
  PROVE  SlotNo(i) # SlotNo(j)
  <1>1. first \in Int /\ i - first - 1 \in Int /\ j - first - 1 \in Int
    BY DEF RingTypeOK
  <1>2. i - first - 1 < j - first - 1 /\ (j - first - 1) - (i - first - 1) < HistorySize
    BY <1>1, ConstantsAssumption
  <1> QED BY <1>1, <1>2, DifferentRemainder DEF SlotNo

LEMMA SlotsOfBlocks ==
  ASSUME RingTypeOK, NEW n \in Int
  PROVE  /\ SlotNo(n) \in Slot
         /\ (SlotNo(n) + 1) % HistorySize = SlotNo(n + 1)
         /\ (SlotNo(n) - 1 + HistorySize) % HistorySize = SlotNo(n - 1)
         /\ (SlotNo(n) + HistorySize) % HistorySize = SlotNo(n)
         /\ SlotNo(first + 1) = 0
  <1>0. HistorySize \in Nat \ {0} /\ first \in Int
    BY ConstantsAssumption DEF RingTypeOK
  <1> DEFINE a == n - first - 1
             s == SlotNo(n)
  <1>1. a \in Int /\ s = a % HistorySize /\ s \in Slot /\ s \in Int
    BY <1>0, ModIsSlot DEF SlotNo, Slot
  <1>2. PICK q \in Int : s = a - HistorySize * q
    BY <1>1, Remainder
  <1>3. /\ HistorySize * (0 - q) = 0 - HistorySize * q /\ HistorySize * q \in Int
        /\ HistorySize * (1 - q) = HistorySize - HistorySize * q
        /\ 0 - q \in Int /\ 1 - q \in Int
    BY <1>0
  <1>4. /\ n + 1 - first - 1 = a + 1 /\ n - 1 - first - 1 = a - 1
        /\ a + 1 \in Int /\ a - 1 \in Int
    BY <1>0
  <1> HIDE DEF a, s
  <1>5. /\ s + 1 \in Int /\ s - 1 + HistorySize \in Int /\ s + HistorySize \in Int
        /\ (s + 1) - (a + 1) = HistorySize * (0 - q)
        /\ (s - 1 + HistorySize) - (a - 1) = HistorySize * (1 - q)
        /\ (s + HistorySize) - a = HistorySize * (1 - q)
    BY <1>0, <1>1, <1>2, <1>3
  <1>6. /\ (s + 1) % HistorySize = (a + 1) % HistorySize
        /\ (s - 1 + HistorySize) % HistorySize = (a - 1) % HistorySize
        /\ (s + HistorySize) % HistorySize = a % HistorySize
    BY <1>1, <1>3, <1>4, <1>5, SameRemainder
  <1>7. SlotNo(n + 1) = (a + 1) % HistorySize /\ SlotNo(n - 1) = (a - 1) % HistorySize
    BY <1>0, <1>1, <1>4 DEF SlotNo
  <1>8. SlotNo(first + 1) = 0 % HistorySize /\ 0 % HistorySize = 0
    BY <1>0, Z3 DEF SlotNo
  <1> QED BY <1>1, <1>6, <1>7, <1>8 DEF s

-----------------------------------------------------------------------------
(* The invariant of the ring. *)

LEMMA BlocksOfHistory ==
  ASSUME RingTypeOK, NEW i \in 1 .. Len(hist)
  PROVE  /\ hist[i] \in Block /\ hist[i].slot \in Slot
         /\ hist[i].ts \in Nat /\ hist[i].given \in Nat
  <1>1. hist \in Seq(Block)
    BY DEF RingTypeOK
  <1>2. hist[i] \in Block
    BY <1>1
  <1> QED BY <1>2 DEF Block

\* A writer that has chosen its slot excludes the others; another one's variables are its
\* own.
LEMMA OneInside ==
  ASSUME OneWriter, NEW w \in Writers, wpc[w] \in Inside
  PROVE  \A v \in Writers \ {w} : wpc[v] \notin Inside \cup Quiet
  BY ConstantsAssumption DEF OneWriter, Inside, Quiet, Holding

LEMMA FreeToWrite ==
  ASSUME RingInv, Free
  PROVE  /\ Len(hist) = cur /\ first <= cur /\ first \in Nat /\ cur \in Nat
         /\ NextSlot = SlotNo(cur + 1)
  <1>1. /\ Len(hist) = cur /\ first <= cur /\ first \in Nat /\ cur \in Nat
        /\ RingTypeOK /\ PlacesOK
    BY DEF RingInv, FreeOK, RingTypeOK
  <1>2. CASE cur = first
    <2>1. NextSlot = 0
      BY <1>1, <1>2 DEF PlacesOK, NextSlot
    <2>2. SlotNo(cur + 1) = 0
      BY <1>1, <1>2, SlotsOfBlocks
    <2> QED BY <1>1, <2>1, <2>2
  <1>3. CASE cur > first
    <2>1. history_slot = SlotNo(cur) /\ cur \in Int
      BY <1>1, <1>3 DEF PlacesOK
    <2>2. SlotNo(cur) \in Slot /\ (SlotNo(cur) + 1) % HistorySize = SlotNo(cur + 1)
      BY <1>1, <2>1, SlotsOfBlocks
    <2>3. ~(history_slot < 0)
      BY <2>1, <2>2, ConstantsAssumption DEF Slot
    <2> QED BY <1>1, <2>1, <2>2, <2>3 DEF NextSlot
  <1> QED BY <1>1, <1>2, <1>3

\* A step of a writer in its slot leaves the blocks of the other slots alone.
OwnSlot(w) ==
  /\ wpc[w] \in Inside /\ wpc'[w] \in Inside \ {"inv_hi"}
  /\ wpc' = [wpc EXCEPT ![w] = wpc'[w]]
  /\ UNCHANGED <<history_slot, obj_lock, cur, first, wblock>>
  /\ \A q \in Slot \ {wblock[w].slot} : ring'[q] = ring[q]
  /\ \/ hist' = hist
     \/ hist' = Append(hist, wblock[w]) /\ Len(hist) = cur

LEMMA OwnSlotKeeps ==
  ASSUME RingInv, RingTypeOK', NEW w \in Writers, OwnSlot(w)
  PROVE  /\ OneWriter' /\ PlacesOK' /\ KeptOK' /\ FreeOK'
         /\ \A q \in Slot \ {wblock[w].slot} : StampAt(q)'
         /\ \A v \in Writers \ {w} : WriterAt(v)'
         /\ Len(hist) \in Nat /\ cur \in Nat /\ first \in Nat
         /\ wblock[w].slot \in Slot /\ wblock[w].slot = SlotNo(cur + 1)
  <1> DEFINE s == wblock[w].slot
  <1>1. /\ RingTypeOK /\ OneWriter /\ PlacesOK /\ StampsOK /\ KeptOK /\ WriterAt(w)
        /\ Len(hist) \in Nat /\ cur \in Nat /\ first \in Nat /\ cur <= Len(hist)
        /\ s \in Slot /\ wblock[w] \in Block
    BY SMTT(30), BlockFields DEF RingInv, WritersOK, RingTypeOK
  <1>2. s = SlotNo(cur + 1) /\ first <= cur
    BY <1>1 DEF WriterAt, OwnSlot
  <1>3. OneWriter'
    BY <1>1 DEF OneWriter, OwnSlot, Inside, Quiet, Holding, RingTypeOK
  <1>4. ~Free'
    <2>1. wpc'[w] \in Holding /\ wpc'[w] # "idle" /\ wpc'[w] \notin Quiet
      BY DEF OwnSlot, Inside, Quiet, Holding
    <2>2. \A v \in Writers : wpc'[v] \in Quiet => v = w
      BY <1>3, <2>1, ConstantsAssumption DEF OneWriter, Quiet, Holding
    <2>3. IF WriteAllow THEN obj_lock' = w ELSE w = Creator
      BY <1>3, <2>1 DEF OneWriter
    <2> QED BY <2>1, <2>2, <2>3, ConstantsAssumption DEF Free
  <1>5. /\ \A j \in 1 .. Len(hist) : hist'[j] = hist[j]
        /\ Len(hist') \in {Len(hist), Len(hist) + 1}
        /\ Len(hist') = Len(hist) + 1 => hist'[Len(hist) + 1] = wblock[w] /\ Len(hist) = cur
    <2>1. hist \in Seq(Block) /\ wblock[w] \in Block /\ Len(hist) \in Nat
      BY <1>1 DEF RingTypeOK
    <2>2. CASE hist' = hist
      BY <2>1, <2>2
    <2>3. CASE hist' = Append(hist, wblock[w]) /\ Len(hist) = cur
      BY <2>1, <2>3
    <2> QED BY <2>2, <2>3 DEF OwnSlot
  <1>6. PlacesOK'
    <2>1. UNCHANGED <<cur, first, history_slot>>
      BY DEF OwnSlot
    <2>2. \A j \in first + 1 .. Len(hist) : hist'[j].slot = SlotNo(j)
      BY <1>1, <1>5 DEF PlacesOK
    <2>3. Len(hist') = Len(hist) + 1 => hist'[Len(hist) + 1].slot = SlotNo(Len(hist) + 1)
      BY <1>2, <1>5
    <2>4. \A j \in first + 1 .. Len(hist') : hist'[j].slot = SlotNo(j)
      BY <1>1, <1>5, <2>2, <2>3
    <2> QED BY <1>1, <2>1, <2>4 DEF PlacesOK, SlotNo
  <1>7. KeptOK'
    <2>1. UNCHANGED <<cur, first>>
      BY DEF OwnSlot
    <2>2. ASSUME NEW j \in first + 1 .. cur, j > cur + 1 - HistorySize
          PROVE  IsWhole(SlotNo(j), hist[j])'
      <3>1. j \in Int /\ j < cur + 1 /\ cur + 1 - j < HistorySize /\ j \in 1 .. Len(hist)
        BY <1>1, <2>2, ConstantsAssumption
      <3>2. SlotNo(j) # s /\ SlotNo(j) \in Slot
        BY <1>1, <1>2, <3>1, SlotsDiffer, SlotsOfBlocks
      <3>3. ring'[SlotNo(j)] = ring[SlotNo(j)] /\ hist'[j] = hist[j] /\ SlotNo(j)' = SlotNo(j)
        BY <1>5, <2>1, <3>1, <3>2 DEF OwnSlot, SlotNo
      <3>4. IsWhole(SlotNo(j), hist[j])
        BY <1>1, <2>2 DEF KeptOK
      <3> QED BY <3>3, <3>4 DEF IsWhole, HasWords
    <2> QED BY <2>1, <2>2 DEF KeptOK
  <1>8. ASSUME NEW q \in Slot \ {s} PROVE StampAt(q)'
    <2>1. ring'[q] = ring[q] /\ StampAt(q)
      BY <1>1, <1>8 DEF OwnSlot, StampsOK
    <2>2. SUFFICES ASSUME ring[q]["hi"] # 0 \/ ring[q]["lo"] # 0 PROVE StampAt(q)'
      BY <2>1 DEF StampAt
    <2>3. PICK i \in 1 .. Len(hist) :
            /\ IsLastIn(q, i) /\ HasWords(q, hist[i])
            /\ ring[q]["lo"] = Lo(hist[i].ts) /\ ring[q]["hi"] \in {0, Hi(hist[i].ts)}
      BY <2>1, <2>2 DEF StampAt
    <2>4. i \in 1 .. Len(hist') /\ hist'[i] = hist[i]
      BY <1>1, <1>5
    <2>5. \A j \in i + 1 .. Len(hist') : hist'[j].slot # q
      <3>1. \A j \in i + 1 .. Len(hist) : hist'[j].slot # q
        BY <1>1, <1>5, <2>3 DEF IsLastIn
      <3>2. Len(hist') = Len(hist) + 1 => hist'[Len(hist) + 1].slot # q
        BY <1>5, <1>8
      <3> QED BY <1>1, <1>5, <3>1, <3>2
    <2>6. IsLastIn(q, i)'
      BY <2>3, <2>4, <2>5 DEF IsLastIn
    <2> QED BY <2>1, <2>3, <2>4, <2>6 DEF StampAt, HasWords
  <1>9. ASSUME NEW v \in Writers \ {w} PROVE WriterAt(v)'
    <2>1. wpc'[v] = wpc[v] /\ wpc[v] \notin Inside
      BY <1>1, OneInside DEF OwnSlot, RingTypeOK
    <2> QED BY <2>1 DEF WriterAt, Inside
  <1>10. FreeOK'
    BY <1>4 DEF FreeOK
  <1> QED BY <1>1, <1>2, <1>3, <1>6, <1>7, <1>8, <1>9, <1>10

\* A step that changes no slot and no history.
LEMMA QuietKeeps ==
  ASSUME RingInv, UNCHANGED <<ring, hist, cur, first, history_slot>>, Free' => Free
  PROVE  PlacesOK' /\ StampsOK' /\ KeptOK' /\ FreeOK'
  <1>1. PlacesOK /\ StampsOK /\ KeptOK /\ FreeOK
    BY DEF RingInv
  <1>2. PlacesOK' /\ KeptOK'
    BY <1>1 DEF PlacesOK, KeptOK, SlotNo, IsWhole, HasWords
  <1>3. StampsOK'
    BY <1>1 DEF StampsOK, StampAt, HasWords, IsLastIn
  <1>4. FreeOK'
    BY <1>1 DEF FreeOK, SlotNo, IsWhole, HasWords
  <1> QED BY <1>2, <1>3, <1>4

LEMMA OthersKeep ==
  ASSUME RingInv, NEW v \in Writers, UNCHANGED <<ring, hist, cur, first, wtodo>>,
         wpc'[v] = wpc[v], wblock'[v] = wblock[v]
  PROVE  WriterAt(v)'
  <1>1. WriterAt(v)
    BY DEF RingInv, WritersOK
  <1> QED BY <1>1 DEF WriterAt, SlotNo, HasWords

LEMMA OwnSlotInv ==
  ASSUME RingInv, RingTypeOK', NEW w \in Writers, OwnSlot(w),
         StampAt(wblock[w].slot)', WriterAt(w)'
  PROVE  RingInv'
  <1>1. wblock' = wblock
    BY DEF OwnSlot
  <1>2. StampsOK' /\ WritersOK'
    BY <1>1, OwnSlotKeeps DEF StampsOK, WritersOK
  <1> QED BY <1>2, OwnSlotKeeps DEF RingInv

\* What a writer in its slot knows before its step.
LEMMA InSlot ==
  ASSUME RingInv, NEW w \in Writers, wpc[w] \in Inside
  PROVE  /\ RingTypeOK /\ WriterAt(w) /\ StampAt(wblock[w].slot)
         /\ wblock[w] \in Block /\ wblock[w].slot \in Slot
         /\ wblock[w].given \in Nat /\ wblock[w].ts \in Nat
         /\ cur \in Nat /\ first \in Nat /\ Len(hist) \in Nat /\ hist \in Seq(Block)
         /\ ring \in [Slot -> [Word -> Nat]] /\ wtodo \in [Writers -> SUBSET CopyWord]
         /\ wpc \in [Writers -> WriterPc]
         /\ {"hi", "lo", "data_ts"} \subseteq Word
         /\ CopyWord \subseteq Word /\ "hi" \notin CopyWord /\ "lo" \notin CopyWord
  <1>1. RingTypeOK /\ WritersOK /\ StampsOK
    BY DEF RingInv
  <1>2. /\ wblock[w] \in Block /\ wblock[w].slot \in Slot
        /\ wblock[w].given \in Nat /\ wblock[w].ts \in Nat
    BY <1>1, BlockFields
  <1>3. WriterAt(w) /\ StampAt(wblock[w].slot)
    BY <1>1, <1>2 DEF WritersOK, StampsOK
  <1>4. /\ {"hi", "lo", "data_ts"} \subseteq Word
        /\ CopyWord \subseteq Word /\ "hi" \notin CopyWord /\ "lo" \notin CopyWord
    BY ConstantsAssumption DEF Word, CopyWord
  <1> QED BY <1>1, <1>2, <1>3, <1>4 DEF RingTypeOK

LEMMA InvalidateHighInv ==
  ASSUME RingInv, RingTypeOK', NEW w \in Writers, InvalidateHigh(w)
  PROVE  RingInv'
  <1> DEFINE s == wblock[w].slot
  <1>1. /\ wpc[w] = "inv_hi" /\ wpc' = [wpc EXCEPT ![w] = "inv_lo"]
        /\ ring' = [ring EXCEPT ![s]["hi"] = 0]
        /\ UNCHANGED <<history_slot, obj_lock, wblock, wtodo, hist, cur, first>>
    BY DEF InvalidateHigh, Goto
  <1>2. wpc[w] \in Inside
    BY <1>1 DEF Inside
  <1>3. /\ WriterAt(w) /\ StampAt(s) /\ s \in Slot
        /\ ring \in [Slot -> [Word -> Nat]] /\ wpc' [w] = "inv_lo"
        /\ {"hi", "lo", "data_ts"} \subseteq Word
        /\ CopyWord \subseteq Word /\ "hi" \notin CopyWord
    BY <1>1, <1>2, InSlot
  <1>4. /\ \A q \in Slot \ {s} : ring'[q] = ring[q]
        /\ ring'[s]["hi"] = 0 /\ \A x \in Word \ {"hi"} : ring'[s][x] = ring[s][x]
    BY <1>1, <1>3
  <1>5. OwnSlot(w)
    BY <1>1, <1>2, <1>3, <1>4 DEF OwnSlot, Inside
  <1>6. StampAt(s)'
    BY <1>1, <1>3, <1>4 DEF StampAt, HasWords, IsLastIn
  <1>7. WriterAt(w)'
    BY <1>1, <1>3, <1>4 DEF WriterAt, SlotNo, Inside
  <1> QED BY <1>5, <1>6, <1>7, <1>1, OwnSlotInv

LEMMA InvalidateLowInv ==
  ASSUME RingInv, RingTypeOK', NEW w \in Writers, InvalidateLow(w)
  PROVE  RingInv'
  <1> DEFINE s == wblock[w].slot
  <1>1. /\ wpc[w] = "inv_lo" /\ wpc' = [wpc EXCEPT ![w] = "copy"]
        /\ ring' = [ring EXCEPT ![s]["lo"] = 0]
        /\ wtodo' = [wtodo EXCEPT ![w] = CopyWord]
        /\ UNCHANGED <<history_slot, obj_lock, wblock, hist, cur, first>>
    BY DEF InvalidateLow, Goto
  <1>2. wpc[w] \in Inside
    BY <1>1 DEF Inside
  <1>3. /\ WriterAt(w) /\ s \in Slot /\ wtodo'[w] = CopyWord
        /\ ring \in [Slot -> [Word -> Nat]] /\ wpc' [w] = "copy"
        /\ {"hi", "lo", "data_ts"} \subseteq Word
    BY <1>1, <1>2, InSlot
  <1>4. /\ \A q \in Slot \ {s} : ring'[q] = ring[q]
        /\ ring'[s]["lo"] = 0 /\ ring'[s]["hi"] = ring[s]["hi"]
    BY <1>1, <1>3
  <1>5. OwnSlot(w)
    BY <1>1, <1>2, <1>3, <1>4 DEF OwnSlot, Inside
  <1>6. ring[s]["hi"] = 0
    BY <1>1, <1>3 DEF WriterAt, Inside
  <1>7. StampAt(s)'
    BY <1>1, <1>4, <1>6 DEF StampAt
  <1>8. WriterAt(w)'
    BY <1>1, <1>3, <1>4, <1>6 DEF WriterAt, SlotNo, Inside
  <1> QED BY <1>5, <1>7, <1>8, <1>1, OwnSlotInv

LEMMA CopyInInv ==
  ASSUME RingInv, RingTypeOK', NEW w \in Writers, CopyIn(w)
  PROVE  RingInv'
  <1> DEFINE s == wblock[w].slot
             v(x) == IF x = "data_ts" THEN wblock[w].given ELSE Contents(wblock[w], x)
  <1>1. /\ wpc[w] = "copy" /\ wpc' = wpc
        /\ UNCHANGED <<history_slot, obj_lock, wblock, hist, cur, first>>
    BY DEF CopyIn
  <1>2. PICK x \in wtodo[w] :
          /\ wtodo' = [wtodo EXCEPT ![w] = @ \ {x}]
          /\ ring' = [ring EXCEPT ![s][x] = v(x)]
    BY DEF CopyIn
  <1>3. wpc[w] \in Inside
    BY <1>1 DEF Inside
  <1>4. /\ WriterAt(w) /\ s \in Slot /\ wtodo \in [Writers -> SUBSET CopyWord]
        /\ ring \in [Slot -> [Word -> Nat]] /\ wpc \in [Writers -> WriterPc]
        /\ {"hi", "lo", "data_ts"} \subseteq Word
        /\ CopyWord \subseteq Word /\ "hi" \notin CopyWord /\ "lo" \notin CopyWord
    BY <1>3, InSlot
  <1>5. x \in CopyWord /\ wtodo'[w] = wtodo[w] \ {x} /\ v(x) = CopiedWord(wblock[w], x)
    BY <1>2, <1>4 DEF CopiedWord
  <1> HIDE DEF v
  <1>6. /\ \A q \in Slot \ {s} : ring'[q] = ring[q]
        /\ ring'[s][x] = v(x) /\ \A y \in Word \ {x} : ring'[s][y] = ring[s][y]
    BY <1>2, <1>4, <1>5
  <1>7. OwnSlot(w)
    BY <1>1, <1>3, <1>4, <1>6 DEF OwnSlot, Inside
  <1>8. ring[s]["hi"] = 0 /\ ring[s]["lo"] = 0
    BY <1>1, <1>4 DEF WriterAt, Inside
  <1>9. ring'[s]["hi"] = 0 /\ ring'[s]["lo"] = 0
    BY <1>4, <1>5, <1>6, <1>8
  <1>10. StampAt(s)'
    BY <1>1, <1>9 DEF StampAt
  <1>11. \A y \in CopyWord \ wtodo'[w] : ring'[s][y] = CopiedWord(wblock[w], y)
    BY <1>1, <1>4, <1>5, <1>6 DEF WriterAt
  <1>12. WriterAt(w)'
    BY <1>1, <1>4, <1>9, <1>11 DEF WriterAt, SlotNo, Inside, CopiedWord, Contents
  <1> QED BY <1>7, <1>10, <1>12, <1>1, OwnSlotInv

LEMMA SetDataTsInv ==
  ASSUME RingInv, RingTypeOK', NEW w \in Writers, SetDataTs(w)
  PROVE  RingInv'
  <1> DEFINE s == wblock[w].slot
             v == IF ring[s]["data_ts"] = 0 THEN wblock[w].ts ELSE ring[s]["data_ts"]
  <1>1. /\ wpc[w] = "stamp" /\ wpc' = [wpc EXCEPT ![w] = "pub_lo"]
        /\ UNCHANGED <<history_slot, obj_lock, wblock, wtodo, hist, cur, first>>
    BY DEF SetDataTs, Goto
  <1>2. wpc[w] \in Inside
    BY <1>1 DEF Inside
  <1>3. /\ WriterAt(w) /\ s \in Slot /\ wpc'[w] = "pub_lo"
        /\ ring \in [Slot -> [Word -> Nat]]
        /\ {"hi", "lo", "data_ts"} \subseteq Word
        /\ CopyWord \subseteq Word /\ "hi" \notin CopyWord /\ "lo" \notin CopyWord
    BY <1>1, <1>2, InSlot
  <1>4. ring' = [ring EXCEPT ![s]["data_ts"] = v]
    BY <1>3 DEF SetDataTs
  <1>5. /\ ring[s]["hi"] = 0 /\ ring[s]["lo"] = 0 /\ Len(hist) = cur
        /\ s = SlotNo(cur + 1) /\ first <= cur
        /\ \A x \in CopyWord : ring[s][x] = CopiedWord(wblock[w], x)
    BY <1>1, <1>3 DEF WriterAt, Inside
  <1>6. v = DataTs(wblock[w])
    BY <1>5 DEF CopiedWord, DataTs, CopyWord
  <1> HIDE DEF v
  <1>7. /\ \A q \in Slot \ {s} : ring'[q] = ring[q]
        /\ ring'[s]["data_ts"] = v /\ \A y \in Word \ {"data_ts"} : ring'[s][y] = ring[s][y]
    BY <1>3, <1>4
  <1>8. OwnSlot(w)
    BY <1>1, <1>3, <1>7 DEF OwnSlot, Inside
  <1>9. ring'[s]["hi"] = 0 /\ ring'[s]["lo"] = 0
    BY <1>3, <1>5, <1>7
  <1>10. StampAt(s)'
    BY <1>1, <1>9 DEF StampAt
  <1>11. \A x \in CopyWord : ring'[s][x] = Contents(wblock[w], x)
    BY <1>3, <1>5, <1>6, <1>7 DEF CopiedWord, Contents
  <1>12. WriterAt(w)'
    BY <1>1, <1>3, <1>5, <1>9, <1>11 DEF WriterAt, SlotNo, Inside, HasWords
  <1> QED BY <1>8, <1>10, <1>12, <1>1, OwnSlotInv

LEMMA PublishLowInv ==
  ASSUME RingInv, RingTypeOK', NEW w \in Writers, PublishLow(w)
  PROVE  RingInv'
  <1> DEFINE s == wblock[w].slot
             b == wblock[w]
  <1>1. /\ wpc[w] = "pub_lo" /\ wpc' = [wpc EXCEPT ![w] = "pub_hi"]
        /\ ring' = [ring EXCEPT ![s]["lo"] = Lo(b.ts)] /\ hist' = Append(hist, b)
        /\ UNCHANGED <<history_slot, obj_lock, wblock, wtodo, cur, first>>
    BY DEF PublishLow, Goto
  <1>2. wpc[w] \in Inside
    BY <1>1 DEF Inside
  <1>3. /\ WriterAt(w) /\ s \in Slot /\ wpc'[w] = "pub_hi" /\ b \in Block
        /\ ring \in [Slot -> [Word -> Nat]] /\ hist \in Seq(Block) /\ cur \in Nat
        /\ {"hi", "lo", "data_ts"} \subseteq Word
        /\ CopyWord \subseteq Word /\ "hi" \notin CopyWord /\ "lo" \notin CopyWord
    BY <1>1, <1>2, InSlot
  <1>4. /\ ring[s]["hi"] = 0 /\ Len(hist) = cur
        /\ s = SlotNo(cur + 1) /\ first <= cur /\ HasWords(s, b)
    BY <1>1, <1>3 DEF WriterAt, Inside
  <1>5. /\ \A q \in Slot \ {s} : ring'[q] = ring[q]
        /\ ring'[s]["lo"] = Lo(b.ts) /\ \A y \in Word \ {"lo"} : ring'[s][y] = ring[s][y]
    BY <1>1, <1>3
  <1>6. OwnSlot(w)
    BY <1>1, <1>3, <1>4, <1>5 DEF OwnSlot, Inside
  <1>7. Len(hist') = cur + 1 /\ hist'[cur + 1] = b
    BY <1>1, <1>3, <1>4
  <1>8. ring'[s]["hi"] = 0 /\ HasWords(s, b)'
    BY <1>1, <1>3, <1>4, <1>5 DEF HasWords
  <1>9. StampAt(s)'
    <2>1. IsLastIn(s, cur + 1)'
      BY <1>1, <1>3, <1>7 DEF IsLastIn
    <2>2. UNCHANGED <<cur, wblock>> /\ cur \in Nat
      BY <1>1, <1>3
    <2> QED BY <1>5, <1>7, <1>8, <2>1, <2>2 DEF StampAt, HasWords
  <1>10. WriterAt(w)'
    BY <1>1, <1>3, <1>4, <1>5, <1>7, <1>8 DEF WriterAt, SlotNo, Inside, HasWords
  <1> QED BY <1>6, <1>9, <1>10, <1>1, OwnSlotInv

LEMMA PublishHighInv ==
  ASSUME RingInv, RingTypeOK', NEW w \in Writers, PublishHigh(w)
  PROVE  RingInv'
  <1> DEFINE s == wblock[w].slot
             b == wblock[w]
  <1>1. /\ wpc[w] = "pub_hi" /\ wpc' = [wpc EXCEPT ![w] = "current"]
        /\ ring' = [ring EXCEPT ![s]["hi"] = Hi(b.ts)]
        /\ UNCHANGED <<history_slot, obj_lock, wblock, wtodo, hist, cur, first>>
    BY DEF PublishHigh, Goto
  <1>2. wpc[w] \in Inside
    BY <1>1 DEF Inside
  <1>3. /\ WriterAt(w) /\ s \in Slot /\ wpc'[w] = "current" /\ cur \in Nat
        /\ ring \in [Slot -> [Word -> Nat]]
        /\ {"hi", "lo", "data_ts"} \subseteq Word
        /\ CopyWord \subseteq Word /\ "hi" \notin CopyWord /\ "lo" \notin CopyWord
    BY <1>1, <1>2, InSlot
  <1>4. /\ s = SlotNo(cur + 1) /\ first <= cur /\ HasWords(s, b)
        /\ Len(hist) = cur + 1 /\ hist[cur + 1] = b /\ ring[s]["lo"] = Lo(b.ts)
    BY <1>1, <1>3 DEF WriterAt, Inside
  <1>5. /\ \A q \in Slot \ {s} : ring'[q] = ring[q]
        /\ ring'[s]["hi"] = Hi(b.ts) /\ \A y \in Word \ {"hi"} : ring'[s][y] = ring[s][y]
    BY <1>1, <1>3
  <1>6. OwnSlot(w)
    BY <1>1, <1>2, <1>3, <1>5 DEF OwnSlot, Inside
  <1>7. HasWords(s, b)' /\ ring'[s]["lo"] = Lo(b.ts)
    BY <1>1, <1>3, <1>4, <1>5 DEF HasWords
  <1>8. StampAt(s)'
    <2>1. IsLastIn(s, cur + 1)'
      BY <1>1, <1>3, <1>4 DEF IsLastIn
    <2> QED BY <1>1, <1>3, <1>4, <1>5, <1>7, <2>1 DEF StampAt, HasWords
  <1>9. WriterAt(w)'
    BY <1>1, <1>3, <1>4, <1>5, <1>7 DEF WriterAt, SlotNo, Inside, HasWords
  <1> QED BY <1>6, <1>8, <1>9, <1>1, OwnSlotInv

\* A step of a writer outside of its slot, and those in it that write nothing.
LEMMA QuietInv ==
  ASSUME RingInv, RingTypeOK', NEW w \in Writers,
         UNCHANGED <<ring, hist, cur, first, history_slot, wtodo>>,
         wpc' = [wpc EXCEPT ![w] = wpc'[w]],
         wblock' = [wblock EXCEPT ![w] = wblock'[w]],
         OneWriter', Free' => Free, WriterAt(w)'
  PROVE  RingInv'
  <1>1. \A v \in Writers \ {w} : wpc'[v] = wpc[v] /\ wblock'[v] = wblock[v]
    BY DEF RingInv, RingTypeOK
  <1>2. WritersOK'
    BY <1>1, OthersKeep DEF WritersOK
  <1> QED BY <1>2, QuietKeeps DEF RingInv

\* Outside the slot nothing is known of it.
LEMMA Outside ==
  ASSUME NEW w \in Writers, wpc'[w] \notin Inside
  PROVE  WriterAt(w)'
  BY DEF WriterAt, Inside

LEMMA WriteBeginInv ==
  ASSUME RingInv, RingTypeOK', NEW w \in Writers, WriteBegin(w)
  PROVE  RingInv'
  <1> DEFINE pc == IF WriteAllow THEN "lock" ELSE "watch"
  <1>1. /\ MayWrite(w) /\ wpc[w] = "idle" /\ wpc' = [wpc EXCEPT ![w] = pc]
        /\ UNCHANGED <<ring, history_slot, obj_lock, wtodo, hist, cur, first>>
    BY DEF WriteBegin, Goto
  <1>2. RingTypeOK /\ OneWriter /\ wpc \in [Writers -> WriterPc] /\ wblock \in [Writers -> Block]
    BY DEF RingInv, RingTypeOK
  <1>3. wblock' = [wblock EXCEPT ![w] = wblock'[w]]
    BY <1>2 DEF WriteBegin
  <1>4. OneWriter'
    BY <1>1, <1>2 DEF OneWriter, MayWrite, Inside, Quiet, Holding
  <1>5. Free' => Free
    BY <1>1, <1>2 DEF Free, Quiet, MayWrite
  <1>6. WriterAt(w)'
    BY <1>1, <1>2, Outside DEF Inside
  <1> QED BY <1>1, <1>2, <1>3, <1>4, <1>5, <1>6, QuietInv

LEMMA LockStepsInv ==
  ASSUME RingInv, RingTypeOK', NEW w \in Writers,
         TakeObjLock(w) \/ WriteTooFast(w) \/ ReleaseObjLock(w)
  PROVE  RingInv'
  <1>2. /\ RingTypeOK /\ OneWriter /\ wpc \in [Writers -> WriterPc]
        /\ wblock \in [Writers -> Block] /\ obj_lock \in Writers \cup {NoWriter}
    BY DEF RingInv, RingTypeOK
  <1>3. wblock' = [wblock EXCEPT ![w] = wblock'[w]]
    BY <1>2 DEF TakeObjLock, WriteTooFast, ReleaseObjLock
  <1>4. CASE TakeObjLock(w)
    <2>1. /\ wpc[w] = "lock" /\ wpc' = [wpc EXCEPT ![w] = "watch"]
          /\ obj_lock = NoWriter /\ obj_lock' = w
          /\ UNCHANGED <<ring, history_slot, wtodo, hist, cur, first>>
      BY <1>4 DEF TakeObjLock, Goto
    <2>2. OneWriter'
      BY <1>2, <2>1, ConstantsAssumption DEF OneWriter, Inside, Quiet, Holding
    <2>3. Free' => Free
      BY <1>2, <2>1, ConstantsAssumption DEF Free, OneWriter
    <2> QED BY <1>2, <1>3, <2>1, <2>2, <2>3, QuietInv, Outside DEF Inside
  <1>5. CASE WriteTooFast(w)
    <2>1. /\ wpc[w] = "watch" /\ wpc' = [wpc EXCEPT ![w] = "idle"]
          /\ obj_lock' = IF WriteAllow THEN NoWriter ELSE obj_lock
          /\ UNCHANGED <<ring, history_slot, wtodo, hist, cur, first>>
      BY <1>5 DEF WriteTooFast, Goto
    <2>2. OneWriter'
      BY <1>2, <2>1, ConstantsAssumption DEF OneWriter, Inside, Quiet, Holding
    <2>3. Free
      BY <2>1 DEF Free, Quiet
    <2> QED BY <1>2, <1>3, <2>1, <2>2, <2>3, QuietInv, Outside DEF Inside
  <1>6. CASE ReleaseObjLock(w)
    <2>1. /\ wpc[w] = "unlock" /\ wpc' = [wpc EXCEPT ![w] = "idle"]
          /\ obj_lock' = NoWriter
          /\ UNCHANGED <<ring, history_slot, wtodo, hist, cur, first>>
      BY <1>6 DEF ReleaseObjLock, Goto
    <2>2. OneWriter'
      BY <1>2, <2>1, ConstantsAssumption DEF OneWriter, Inside, Quiet, Holding
    <2>3. Free
      BY <2>1 DEF Free, Quiet
    <2> QED BY <1>2, <1>3, <2>1, <2>2, <2>3, QuietInv, Outside DEF Inside
  <1> QED BY <1>4, <1>5, <1>6

LEMMA ChooseSlotInv ==
  ASSUME RingInv, RingTypeOK', NEW w \in Writers, ChooseSlot(w) \/ PtrBegin(w)
  PROVE  RingInv'
  <1>1. /\ RingTypeOK /\ OneWriter /\ wpc \in [Writers -> WriterPc]
        /\ wblock \in [Writers -> Block]
    BY DEF RingInv, RingTypeOK
  <1>2. /\ \/ wpc[w] = "watch"
           \/ wpc[w] = "idle" /\ w = Creator /\ ~WriteAllow
        /\ wpc' = [wpc EXCEPT ![w] = "inv_hi"]
        /\ wblock' = [wblock EXCEPT ![w] = wblock'[w]] /\ wblock'[w].slot = NextSlot
        /\ UNCHANGED <<ring, history_slot, obj_lock, wtodo, hist, cur, first>>
    <2>1. CASE ChooseSlot(w)
      <3> DEFINE ts == IF wblock[w].ts = SlotTs(NextSlot) /\ ~SimMode
                         THEN wblock[w].ts + 1 ELSE wblock[w].ts
      <3>1. wblock' = [wblock EXCEPT ![w] = [wblock[w] EXCEPT !.slot = NextSlot, !.ts = ts]]
        BY <1>1, <2>1 DEF ChooseSlot
      <3>2. wblock[w] \in Block
        BY <1>1
      <3> HIDE DEF ts
      <3>3. wblock'[w] = [wblock[w] EXCEPT !.slot = NextSlot, !.ts = ts]
        BY <1>1, <3>1
      <3>4. wblock'[w].slot = NextSlot
        BY <3>2, <3>3 DEF Block
      <3> QED BY <2>1, <3>1, <3>3, <3>4 DEF ChooseSlot, Goto
    <2>2. CASE PtrBegin(w)
      BY <1>1, <2>2 DEF PtrBegin, Goto
    <2> QED BY <2>1, <2>2
  <1>3. Free
    BY <1>2 DEF Free, Quiet
  <1>4. OneWriter'
    BY <1>1, <1>2 DEF OneWriter, Inside, Quiet, Holding
  <1>5. WriterAt(w)'
    <2>1. Len(hist) = cur /\ first <= cur /\ NextSlot = SlotNo(cur + 1)
      BY <1>3, FreeToWrite
    <2>2. wpc'[w] = "inv_hi" /\ wblock'[w].slot = SlotNo(cur' + 1) /\ first' <= cur' /\ Len(hist') = cur'
      BY <1>1, <1>2, <2>1
    <2>3. (wblock[w].slot = SlotNo(cur + 1))'
      BY <1>2, <2>2 DEF SlotNo
    <2> QED BY <2>2, <2>3 DEF WriterAt, Inside
  <1> QED BY <1>2, <1>3, <1>4, <1>5, QuietInv

\* The block is complete: CopiedIn, or the caller's PtrCommit.
LEMMA CopiedInv ==
  ASSUME RingInv, RingTypeOK', NEW w \in Writers, CopiedIn(w) \/ PtrCommit(w)
  PROVE  RingInv'
  <1>1. /\ RingTypeOK /\ OneWriter /\ wpc \in [Writers -> WriterPc]
        /\ wblock \in [Writers -> Block]
    BY DEF RingInv, RingTypeOK
  <1>2. /\ wpc[w] = "copy" /\ wtodo[w] = {}
        /\ UNCHANGED <<ring, history_slot, obj_lock, wtodo, hist, cur, first>>
    BY DEF CopiedIn, PtrCommit, Goto
  <1>3. /\ \/ wpc' = wpc
           \/ wpc' = [wpc EXCEPT ![w] = "stamp"]
        /\ \/ wblock' = wblock
           \/ \E t \in Nat : wblock' = [wblock EXCEPT ![w] = [wblock[w] EXCEPT !.ts = t]]
    <2>1. CASE CopiedIn(w)
      BY <1>1, <2>1 DEF CopiedIn, Goto
    <2>2. CASE PtrCommit(w)
      <3>1. PICK t \in Time :
              /\ Reading(t)
              /\ IF TooFast(t)
                   THEN UNCHANGED <<wpc, wblock>>
                   ELSE /\ Goto(w, "copy", "stamp")
                        /\ wblock' = [wblock EXCEPT ![w].ts = t]
        BY <2>2 DEF PtrCommit
      <3>2. t \in Nat
        BY ConstantsAssumption
      <3> QED BY <1>1, <3>1, <3>2 DEF Goto
    <2> QED BY <2>1, <2>2
  <1>4. wpc'[w] \in {"copy", "stamp"} /\ wpc' = [wpc EXCEPT ![w] = wpc'[w]]
    BY <1>1, <1>2, <1>3
  <1>5. /\ wblock' = [wblock EXCEPT ![w] = wblock'[w]]
        /\ wblock'[w].slot = wblock[w].slot /\ wblock'[w].given = wblock[w].given
        /\ wblock'[w].size = wblock[w].size /\ wblock'[w].id = wblock[w].id
    <2>1. CASE wblock' = wblock
      BY <1>1, <2>1
    <2>2. CASE \E t \in Nat : wblock' = [wblock EXCEPT ![w] = [wblock[w] EXCEPT !.ts = t]]
      <3>1. PICK t \in Nat : wblock' = [wblock EXCEPT ![w] = [wblock[w] EXCEPT !.ts = t]]
        BY <2>2
      <3>2. wblock[w] \in Block /\ wblock'[w] = [wblock[w] EXCEPT !.ts = t]
        BY <1>1, <3>1
      <3>3. wblock' = [wblock EXCEPT ![w] = wblock'[w]]
        BY <3>1, <3>2
      <3> QED BY <3>2, <3>3 DEF Block
    <2> QED BY <1>3, <2>1, <2>2
  <1>6. OneWriter'
    BY <1>1, <1>2, <1>4 DEF OneWriter, Inside, Quiet, Holding
  <1>7. Free' => Free
    <2>1. \A v \in Writers : wpc'[v] \in Quiet \cup {"idle"} => wpc'[v] = wpc[v]
      BY <1>1, <1>4 DEF Quiet
    <2> QED BY <1>2, <2>1, ConstantsAssumption DEF Free
  <1>8. WriterAt(w)'
    <2>1. WriterAt(w)
      BY DEF RingInv, WritersOK
    <2>2. \A x \in CopyWord : CopiedWord(wblock[w], x)' = CopiedWord(wblock[w], x)
      BY <1>5 DEF CopiedWord, Contents
    <2>3. /\ wblock[w].slot = SlotNo(cur + 1) /\ first <= cur /\ Len(hist) = cur
          /\ ring[wblock[w].slot]["hi"] = 0 /\ ring[wblock[w].slot]["lo"] = 0
          /\ \A x \in CopyWord : ring[wblock[w].slot][x] = CopiedWord(wblock[w], x)
      BY <1>2, <2>1 DEF WriterAt, Inside
    <2>4. (/\ wblock[w].slot = SlotNo(cur + 1) /\ first <= cur /\ Len(hist) = cur
           /\ ring[wblock[w].slot]["hi"] = 0 /\ ring[wblock[w].slot]["lo"] = 0
           /\ \A x \in CopyWord : ring[wblock[w].slot][x] = CopiedWord(wblock[w], x))'
      BY <1>2, <1>5, <2>2, <2>3 DEF SlotNo
    <2> QED BY <1>4, <2>4 DEF WriterAt, Inside
  <1> QED BY <1>2, <1>4, <1>5, <1>6, <1>7, <1>8, QuietInv

LEMMA MakeCurrentInv ==
  ASSUME RingInv, RingTypeOK', NEW w \in Writers, MakeCurrent(w)
  PROVE  RingInv'
  <1> DEFINE s == wblock[w].slot
             b == wblock[w]
  <1>1. /\ wpc[w] = "current"
        /\ wpc' = [wpc EXCEPT ![w] = IF WriteAllow THEN "unlock" ELSE "idle"]
        /\ history_slot' = s /\ cur' = Len(hist)
        /\ UNCHANGED <<ring, obj_lock, wblock, wtodo, hist, first>>
    BY DEF MakeCurrent, Goto
  <1>2. wpc[w] \in Inside
    BY <1>1 DEF Inside
  <1>3. /\ WriterAt(w) /\ s \in Slot /\ cur \in Nat /\ first \in Nat
        /\ wpc \in [Writers -> WriterPc] /\ RingTypeOK
        /\ OneWriter /\ PlacesOK /\ StampsOK /\ KeptOK
    BY <1>1, <1>2, InSlot DEF RingInv
  <1>4. /\ s = SlotNo(cur + 1) /\ first <= cur /\ HasWords(s, b)
        /\ Len(hist) = cur + 1 /\ hist[cur + 1] = b /\ ring[s]["lo"] = Lo(b.ts)
        /\ ring[s]["hi"] = Hi(b.ts)
    BY <1>1, <1>3 DEF WriterAt, Inside
  <1>5. OneWriter'
    BY <1>1, <1>3 DEF OneWriter, Inside, Quiet, Holding
  <1>6. PlacesOK'
    BY <1>1, <1>3, <1>4 DEF PlacesOK, SlotNo
  <1>7. StampsOK'
    BY <1>1, <1>3 DEF StampsOK, StampAt, HasWords, IsLastIn
  <1>8. \A j \in first + 1 .. cur + 1 : j > cur + 1 - HistorySize => IsWhole(SlotNo(j), hist[j])
    <2>1. IsWhole(SlotNo(cur + 1), hist[cur + 1])
      BY <1>4 DEF IsWhole
    <2>2. \A j \in first + 1 .. cur : j > cur + 1 - HistorySize => IsWhole(SlotNo(j), hist[j])
      BY <1>3 DEF KeptOK
    <2> QED BY <1>3, <2>1, <2>2
  <1>9. KeptOK' /\ FreeOK'
    <2>1. cur' = cur + 1 /\ UNCHANGED <<ring, hist, first>> /\ HistorySize \in Nat
      BY <1>1, <1>4, ConstantsAssumption
    <2>2. ASSUME NEW j \in (first + 1 .. cur)', (j > cur - HistorySize)'
          PROVE  IsWhole(SlotNo(j), hist[j])'
      <3>0. j \in first + 1 .. cur + 1 /\ j > cur + 1 - HistorySize
        BY <1>3, <2>1, <2>2
      <3>1. IsWhole(SlotNo(j), hist[j])
        BY <1>8, <3>0
      <3> QED BY <2>1, <3>1 DEF SlotNo, IsWhole, HasWords
    <2>3. FreeOK'
      BY <1>1, <2>2 DEF FreeOK
    <2>4. KeptOK'
      <3>1. cur' \in Int /\ first' \in Int
        BY <1>3, <2>1
      <3>2. \A j \in first' + 1 .. cur' : j > cur' + 1 - HistorySize => j > cur' - HistorySize
        BY <2>1, <3>1
      <3> QED BY <2>2, <3>2 DEF KeptOK
    <2> QED BY <2>3, <2>4
  <1>10. WritersOK'
    <2>1. ASSUME NEW v \in Writers PROVE wpc'[v] \notin Inside
      BY <1>1, <1>2, <1>3, OneInside DEF Inside
    <2> QED BY <2>1, Outside DEF WritersOK
  <1> QED BY <1>5, <1>6, <1>7, <1>9, <1>10 DEF RingInv

LEMMA CrashInv ==
  ASSUME RingInv, RingTypeOK', NEW w \in Writers, Crash(w)
  PROVE  RingInv'
  <1>1. /\ RingTypeOK /\ OneWriter /\ wpc \in [Writers -> WriterPc]
        /\ wblock \in [Writers -> Block]
    BY DEF RingInv, RingTypeOK
  <1>2. /\ wpc[w] # "idle" /\ wpc' = [wpc EXCEPT ![w] = "dead"] /\ wblock' = wblock
        /\ UNCHANGED <<ring, history_slot, obj_lock, wtodo, hist, cur, first>>
    BY DEF Crash
  <1>3. OneWriter'
    BY <1>1, <1>2 DEF OneWriter, Inside, Quiet, Holding
  <1>4. Free' => Free
    BY <1>1, <1>2 DEF Free, Quiet
  <1> QED BY <1>1, <1>2, <1>3, <1>4, QuietInv, Outside DEF Inside

LEMMA DeleteInv ==
  ASSUME RingInv, RingTypeOK', Delete
  PROVE  RingInv'
  <1>1. UNCHANGED <<ring, history_slot, obj_lock, wpc, wblock, wtodo, hist, cur, first>>
    BY DEF Delete, wvars
  <1>2. OneWriter' /\ (Free' => Free)
    BY <1>1 DEF RingInv, OneWriter, Free
  <1>3. WritersOK'
    BY <1>1, OthersKeep DEF WritersOK
  <1> QED BY <1>1, <1>2, <1>3, QuietKeeps DEF RingInv

LEMMA ReuseInv ==
  ASSUME RingInv, RingTypeOK', Reuse
  PROVE  RingInv'
  <1>1. /\ \A w \in Writers : wpc[w] \in {"idle", "dead"}
        /\ history_slot' = -1 /\ first' = Len(hist)
        /\ UNCHANGED <<ring, obj_lock, wpc, wblock, wtodo, hist, cur>>
    BY DEF Reuse, wvars
  <1>2. RingTypeOK /\ OneWriter /\ StampsOK /\ FreeOK
    BY DEF RingInv
  <1>8. cur \in Nat /\ Len(hist) \in Nat /\ cur <= Len(hist)
    BY <1>2 DEF RingTypeOK
  <1>3. OneWriter' /\ (Free' => Free)
    BY <1>1, <1>2 DEF OneWriter, Free
  <1>4. PlacesOK' /\ KeptOK'
    BY <1>1, <1>2, <1>8 DEF PlacesOK, KeptOK
  <1>5. FreeOK'
    BY <1>1, <1>2, <1>3, <1>8 DEF FreeOK
  <1>6. StampsOK'
    BY <1>1, <1>2 DEF StampsOK, StampAt, HasWords, IsLastIn
  <1>7. WritersOK'
    BY <1>1, Outside DEF WritersOK, Inside
  <1> QED BY <1>3, <1>4, <1>5, <1>6, <1>7 DEF RingInv

LEMMA RingStepInv ==
  ASSUME RingInv, RingNext
  PROVE  RingInv'
  <1>0. RingTypeOK'
    BY RingTypes DEF RingInv
  <1>1. ASSUME NEW w \in Writers, WriterStep(w) PROVE RingInv'
    BY <1>0, <1>1, WriteBeginInv, LockStepsInv, ChooseSlotInv, CopiedInv,
       InvalidateHighInv, InvalidateLowInv, CopyInInv, SetDataTsInv, PublishLowInv,
       PublishHighInv, MakeCurrentInv DEF WriterStep
  <1>2. ASSUME NEW w \in Writers, Crash(w) PROVE RingInv'
    BY <1>0, <1>2, CrashInv
  <1> QED BY <1>0, <1>1, <1>2, DeleteInv, ReuseInv DEF RingNext

LEMMA RingUnchangedInv ==
  ASSUME RingInv, UNCHANGED ringVars
  PROVE  RingInv'
  <1>1. UNCHANGED <<ring, history_slot, deleted, obj_lock, clock, blocks, reuses,
                    wpc, wblock, wtodo, hist, cur, first>>
    BY DEF ringVars
  <1>2. RingTypeOK' /\ OneWriter' /\ (Free' => Free)
    BY <1>1 DEF RingInv, RingTypeOK, OneWriter, Free
  <1>3. WritersOK'
    BY <1>1, OthersKeep DEF WritersOK
  <1> QED BY <1>1, <1>2, <1>3, QuietKeeps DEF RingInv

LEMMA RingInitInv == RingInit => RingInv
  <1> SUFFICES ASSUME RingInit PROVE RingInv
    OBVIOUS
  <1>1. RingTypeOK
    BY RingInitTypes
  <1>2. /\ \A w \in Writers : wpc[w] = "idle"
        /\ hist = <<>> /\ Len(hist) = 0 /\ cur = 0 /\ first = 0 /\ history_slot = -1
        /\ \A s \in Slot : ring[s]["hi"] = 0 /\ ring[s]["lo"] = 0
    BY DEF RingInit, Word
  <1>3. OneWriter /\ WritersOK
    BY <1>2 DEF OneWriter, WritersOK, WriterAt, Inside, Quiet, Holding
  <1>4. PlacesOK /\ StampsOK /\ KeptOK /\ FreeOK
    BY <1>2 DEF PlacesOK, StampsOK, StampAt, KeptOK, FreeOK
  <1> QED BY <1>1, <1>3, <1>4 DEF RingInv

LEMMA RingInvAlways == Spec => []RingInv
  <1>1. Init => RingInv
    BY RingInitInv DEF Init
  <1>2. RingInv /\ [Next]_vars => RingInv'
    <2>1. ASSUME RingInv, NEW r \in Readers, ReaderStep(r) PROVE RingInv'
      BY <2>1, ReadersOnlyRead, RingUnchangedInv
    <2>2. ASSUME RingInv, UNCHANGED vars PROVE RingInv'
      BY <2>2, RingUnchangedInv DEF vars, ringVars
    <2> QED BY <2>1, <2>2, RingStepInv DEF Next
  <1> QED BY <1>1, <1>2, PTL DEF Spec

\* The latest history_size - 1 blocks are whole in their slots, whatever a writer is doing
\* and wherever one was killed.
LEMMA RingInvKeeps ==
  ASSUME RingInv
  PROVE  HistoryIsKept
  <1>1. RingTypeOK /\ PlacesOK /\ KeptOK /\ HistorySize \in Nat
    BY ConstantsAssumption DEF RingInv
  <1>2. cur \in Nat /\ first \in Nat /\ cur <= Len(hist) /\ Len(hist) \in Nat
    BY <1>1 DEF RingTypeOK
  <1>3. ASSUME NEW j \in first + 1 .. cur, j > cur - (HistorySize - 1)
        PROVE  Holds(hist[j].slot, hist[j])
    <2>1. j \in 1 .. Len(hist) /\ j \in first + 1 .. Len(hist) /\ j > cur + 1 - HistorySize
      BY <1>1, <1>2, <1>3
    <2>2. IsWhole(SlotNo(j), hist[j]) /\ hist[j].slot = SlotNo(j)
      BY <1>1, <2>1 DEF KeptOK, PlacesOK
    <2>3. hist[j].ts \in Nat
      BY <1>1, <2>1, BlocksOfHistory
    <2>4. hist[j].ts = LowBase * Hi(hist[j].ts) + Lo(hist[j].ts)
          /\ Hi(hist[j].ts) \in Nat /\ Lo(hist[j].ts) \in Nat
      BY <2>3, StampNumbers
    <2>5. Stamp(Hi(hist[j].ts), Lo(hist[j].ts)) = hist[j].ts
      BY <2>4, ConstantsAssumption DEF Stamp
    <2>6. SlotTs(hist[j].slot) = hist[j].ts
      BY <2>2, <2>5 DEF SlotTs, IsWhole
    <2> QED BY <2>2, <2>6 DEF Holds, IsWhole, HasWords
  <1> QED BY <1>3 DEF HistoryIsKept

\* For any ring of any size, with and without the lock, whatever a writer is doing and
\* wherever one was killed: the latest history_size - 1 blocks of the object are readable.
THEOREM HistoryAlwaysKept == Spec => []HistoryIsKept
  <1>1. RingInv => HistoryIsKept
    BY RingInvKeeps
  <1> QED BY <1>1, RingInvAlways, PTL

\* A slot that a step leaves valid was not touched by it.
LEMMA ValidSlotStep ==
  ASSUME RingInv, [Next]_vars, NEW s \in Slot, ring[s]["hi"] # 0, ring'[s]["hi"] # 0
  PROVE  ring'[s] = ring[s]
  <1>1. CASE UNCHANGED ring
    BY <1>1
  <1>2. ASSUME NEW w \in Writers, WriterStep(w) PROVE ring'[s] = ring[s]
    <2>1. CASE \/ WriteBegin(w) \/ TakeObjLock(w) \/ WriteTooFast(w) \/ ChooseSlot(w)
               \/ PtrBegin(w) \/ PtrCommit(w) \/ CopiedIn(w) \/ MakeCurrent(w) \/ ReleaseObjLock(w)
      BY <1>1, <2>1 DEF WriteBegin, TakeObjLock, WriteTooFast, ChooseSlot, PtrBegin, PtrCommit,
                        CopiedIn, MakeCurrent, ReleaseObjLock
    <2>2. SUFFICES ASSUME wpc[w] \in Inside,
                          \A q \in Slot : q # wblock[w].slot => ring'[q] = ring[q],
                          \/ wpc[w] = "inv_hi" /\ ring'[wblock[w].slot]["hi"] = 0
                          \/ wpc[w] \in Inside \ {"inv_hi", "current"}
                   PROVE  ring'[s] = ring[s]
      <3>1. CASE InvalidateHigh(w)
        <4>1. wpc[w] \in Inside /\ wpc[w] = "inv_hi"
          BY <3>1 DEF InvalidateHigh, Goto, Inside
        <4>2. /\ wblock[w].slot \in Slot /\ "hi" \in Word /\ ring \in [Slot -> [Word -> Nat]]
          BY <4>1, InSlot
        <4> QED BY <2>2, <3>1, <4>1, <4>2 DEF InvalidateHigh
      <3>2. CASE InvalidateLow(w) \/ CopyIn(w) \/ SetDataTs(w) \/ PublishLow(w) \/ PublishHigh(w)
        <4>1. wpc[w] \in Inside /\ wpc[w] \in Inside \ {"inv_hi", "current"}
          BY <3>2 DEF InvalidateLow, CopyIn, SetDataTs, PublishLow, PublishHigh, Goto, Inside
        <4>2. ring \in [Slot -> [Word -> Nat]]
          BY <4>1, InSlot
        <4>3. \A q \in Slot : q # wblock[w].slot => ring'[q] = ring[q]
          BY <3>2, <4>2 DEF InvalidateLow, CopyIn, SetDataTs, PublishLow, PublishHigh
        <4> QED BY <2>2, <4>1, <4>3
      <3> QED BY <1>2, <2>1, <3>1, <3>2 DEF WriterStep
    <2>3. WriterAt(w)
      BY <2>2 DEF RingInv, WritersOK
    <2>4. s # wblock[w].slot
      BY <2>2, <2>3 DEF WriterAt
    <2> QED BY <2>2, <2>4
  <1>3. ASSUME NEW r \in Readers, ReaderStep(r) PROVE UNCHANGED ring
    BY <1>3, ReadersOnlyRead DEF ringVars
  <1>4. ASSUME NEW w \in Writers, Crash(w) PROVE UNCHANGED ring
    BY <1>4 DEF Crash
  <1>5. Delete \/ Reuse \/ UNCHANGED vars => UNCHANGED ring
    BY DEF Delete, Reuse, vars, ringVars
  <1> QED BY <1>1, <1>2, <1>3, <1>4, <1>5 DEF Next, RingNext

\* No step changes a valid slot and leaves it valid: between two blocks it is invalid, for
\* any number of writers and any order in which they copy and are killed.
THEOREM ValidSlotsFrozen == Spec => ValidSlotIsFrozen
  <1>1. RingInv /\ [Next]_vars =>
          [\A s \in Slot : ring[s]["hi"] # 0 /\ ring'[s]["hi"] # 0 => ring'[s] = ring[s]]_vars
    BY ValidSlotStep
  <1> QED BY <1>1, RingInvAlways, PTL DEF Spec, ValidSlotIsFrozen

-----------------------------------------------------------------------------
(* The order of the commits. *)

\* The clock moves between two readings, and where everybody may write, the cycle watch is
\* on and the time is later than the first 2^32 nanoseconds.
Serial == ClockStep > 0 /\ (WriteAllow => MinCycle > 0 /\ \A t \in Time : t >= LowBase)

\* The commit times so far are in the past.
PastTime(ts) == ts <= clock /\ ts > 0 /\ (WriteAllow => ts >= LowBase)
PastOK == \A i \in 1 .. Len(hist) : PastTime(hist[i].ts)

\* A writer that has its commit time, and one that has not needs no lock.
Timed(w) ==
  /\ wpc[w] \in {"lock", "watch", "inv_hi", "inv_lo", "copy", "stamp", "pub_lo"}
  /\ wblock[w].ptr => wpc[w] \in {"stamp", "pub_lo"}
PtrOK == \A w \in Writers : wblock[w].ptr /\ wpc[w] # "idle" => ~WriteAllow /\ wpc[w] # "watch"

\* Its time is later than those of all blocks as soon as it can have been overtaken by
\* nobody: always in a ring with one writer, else behind the cycle watch.
TimedAt(w) ==
  Timed(w) =>
    /\ PastTime(wblock[w].ts)
    /\ \A i \in 1 .. first : hist[i].ts < wblock[w].ts
    /\ ~WriteAllow \/ wpc[w] \in Inside =>
         \A i \in 1 .. Len(hist) : hist[i].ts < wblock[w].ts
TimedOK == \A w \in Writers : TimedAt(w)

OrderOK == CommitsAreOrdered /\ PastOK /\ PtrOK /\ TimedOK

\* A step that appends no block and takes no commit time.
LEMMA OrderKeeps ==
  ASSUME OrderOK, UNCHANGED <<hist, first>>, clock <= clock', clock \in Nat, clock' \in Nat,
         RingTypeOK, NEW w \in Writers, TimedAt(w)', wpc' = [wpc EXCEPT ![w] = wpc'[w]],
         wblock' = [wblock EXCEPT ![w] = wblock'[w]],
         wblock'[w].ptr /\ wpc'[w] # "idle" => ~WriteAllow /\ wpc'[w] # "watch"
  PROVE  OrderOK'
  <1>1. CommitsAreOrdered' /\ CommitsAreOrdered /\ PastOK /\ PtrOK /\ TimedOK
    BY DEF OrderOK, CommitsAreOrdered
  <1>2. PastOK'
    <2>1. \A i \in 1 .. Len(hist) : hist[i].ts \in Nat
      BY BlocksOfHistory
    <2> QED BY <1>1, <2>1 DEF PastOK, PastTime
  <1>3. \A v \in Writers \ {w} : wpc'[v] = wpc[v] /\ wblock'[v] = wblock[v]
    BY DEF RingTypeOK
  <1>4. PtrOK'
    BY <1>1, <1>3 DEF PtrOK
  <1>5. ASSUME NEW v \in Writers \ {w} PROVE TimedAt(v)'
    <2>1. wblock[v].ts \in Nat /\ wpc'[v] = wpc[v] /\ wblock'[v] = wblock[v]
      BY <1>3, BlockFields
    <2>2. TimedAt(v)
      BY <1>1 DEF TimedOK
    <2> QED BY <2>1, <2>2 DEF TimedAt, Timed, PastTime
  <1>6. TimedOK'
    BY <1>5 DEF TimedOK
  <1> QED BY <1>1, <1>2, <1>4, <1>6 DEF OrderOK

\* A commit time that was read after all blocks.
LEMMA NewTime ==
  ASSUME Serial, OrderOK, RingTypeOK, NEW t \in Time, Reading(t)
  PROVE  /\ t \in Nat /\ clock' = t /\ clock < t /\ t > 0 /\ (WriteAllow => t >= LowBase)
         /\ \A i \in 1 .. Len(hist) : hist[i].ts < t
         /\ first \in Nat /\ Len(hist) \in Nat /\ first <= Len(hist)
  <1>1. t \in Nat /\ ClockStep \in Nat /\ clock \in Nat /\ t >= clock + ClockStep /\ clock' = t
    BY ConstantsAssumption DEF Reading, RingTypeOK
  <1>2. clock < t /\ t > 0 /\ (WriteAllow => t >= LowBase)
    BY <1>1 DEF Serial
  <1>3. ASSUME NEW i \in 1 .. Len(hist) PROVE hist[i].ts < t
    <2>1. hist[i].ts \in Nat /\ hist[i].ts <= clock
      BY BlocksOfHistory DEF OrderOK, PastOK, PastTime
    <2> QED BY <1>1, <1>2, <2>1
  <1>4. first \in Nat /\ Len(hist) \in Nat /\ first <= Len(hist)
    BY DEF RingTypeOK
  <1> QED BY <1>1, <1>2, <1>3, <1>4

LEMMA WriteBeginOrder ==
  ASSUME Serial, OrderOK, RingTypeOK, NEW w \in Writers, WriteBegin(w)
  PROVE  OrderOK'
  <1>1. PICK t \in Time, size \in Sizes, given \in DataTimes :
          /\ Reading(t)
          /\ wblock' = [wblock EXCEPT ![w] = [id |-> blocks + 1, size |-> size,
                                 given |-> given, ts |-> t, slot |-> 0,
                                 ptr |-> FALSE]]
    BY DEF WriteBegin
  <1>2. /\ wpc' = [wpc EXCEPT ![w] = IF WriteAllow THEN "lock" ELSE "watch"]
        /\ UNCHANGED <<hist, first>>
    BY DEF WriteBegin, Goto
  <1>3. /\ wpc \in [Writers -> WriterPc] /\ wblock \in [Writers -> Block] /\ clock \in Nat
    BY DEF RingTypeOK
  <1>4. /\ wblock' = [wblock EXCEPT ![w] = wblock'[w]] /\ wpc' = [wpc EXCEPT ![w] = wpc'[w]]
        /\ wblock'[w].ts = t /\ ~wblock'[w].ptr
    BY <1>1, <1>2, <1>3
  <1>5. /\ t \in Nat /\ clock' = t /\ clock < t /\ t > 0 /\ (WriteAllow => t >= LowBase)
        /\ \A i \in 1 .. Len(hist) : hist[i].ts < t
        /\ first \in Nat /\ Len(hist) \in Nat /\ first <= Len(hist)
    BY <1>1, NewTime
  <1>6. TimedAt(w)'
    BY <1>2, <1>4, <1>5 DEF TimedAt, Timed, PastTime
  <1>7. clock <= clock' /\ clock' \in Nat /\ ~wblock'[w].ptr
    BY <1>3, <1>4, <1>5
  <1> QED BY <1>2, <1>3, <1>4, <1>6, <1>7, OrderKeeps

\* The time in any slot is not later than those of the history.
LEMMA SlotTimes ==
  ASSUME RingInv, NEW s \in Slot, NEW n \in Nat, n > 0,
         \A i \in 1 .. Len(hist) : hist[i].ts < n
  PROVE  SlotTs(s) < n /\ SlotTs(s) \in Nat
  <1>1. StampAt(s) /\ RingTypeOK /\ LowBase \in Nat
    BY ConstantsAssumption DEF RingInv, StampsOK
  <1>2. CASE ring[s]["hi"] # 0 \/ ring[s]["lo"] # 0
    <2>1. PICK i \in 1 .. Len(hist) :
            ring[s]["lo"] = Lo(hist[i].ts) /\ ring[s]["hi"] \in {0, Hi(hist[i].ts)}
      BY <1>1, <1>2 DEF StampAt
    <2>2. hist[i].ts \in Nat /\ hist[i].ts < n
      BY <1>1, BlocksOfHistory
    <2>3. /\ Hi(hist[i].ts) \in Nat /\ Lo(hist[i].ts) \in Nat
          /\ hist[i].ts = LowBase * Hi(hist[i].ts) + Lo(hist[i].ts)
      BY <2>2, StampNumbers
    <2>4. LowBase * Hi(hist[i].ts) \in Nat /\ 0 * LowBase = 0
          /\ Hi(hist[i].ts) * LowBase = LowBase * Hi(hist[i].ts)
      BY <1>1, <2>3
    <2>5. CASE ring[s]["hi"] = 0
      <3>1. SlotTs(s) = Lo(hist[i].ts)
        BY <2>1, <2>3, <2>4, <2>5 DEF SlotTs, Stamp
      <3> QED BY <2>2, <2>3, <2>4, <3>1
    <2>6. CASE ring[s]["hi"] = Hi(hist[i].ts)
      <3>1. SlotTs(s) = LowBase * Hi(hist[i].ts) + Lo(hist[i].ts)
        BY <2>1, <2>3, <2>4, <2>6 DEF SlotTs, Stamp
      <3> QED BY <2>2, <2>3, <3>1
    <2> QED BY <2>1, <2>5, <2>6
  <1>3. CASE ring[s]["hi"] = 0 /\ ring[s]["lo"] = 0
    BY <1>1, <1>3 DEF SlotTs, Stamp
  <1> QED BY <1>2, <1>3

\* Behind the cycle watch a writer is later than the latest block, although it read the
\* clock before it waited for the lock; so it finds no slot with its own commit time.
LEMMA BehindTheWatch ==
  ASSUME Serial, RingInv, OrderOK, NEW w \in Writers, wpc[w] = "watch",
         ~TooFast(wblock[w].ts)
  PROVE  /\ Timed(w) /\ PastTime(wblock[w].ts) /\ wblock[w].ts \in Nat /\ ~wblock[w].ptr
         /\ \A i \in 1 .. Len(hist) : hist[i].ts < wblock[w].ts
         /\ wblock[w].ts # SlotTs(NextSlot)
  <1> DEFINE ts == wblock[w].ts
  <1>1. /\ RingTypeOK /\ PlacesOK /\ Free /\ FreeOK /\ ts \in Nat /\ PtrOK /\ TimedOK /\ PastOK
        /\ CommitsAreOrdered
    BY BlockFields DEF RingInv, Free, Quiet, OrderOK
  <1>2. Timed(w) /\ ~wblock[w].ptr
    BY <1>1 DEF PtrOK, Timed
  <1>3. PastTime(ts) /\ ts > 0 /\ \A i \in 1 .. first : hist[i].ts < ts
    BY <1>1, <1>2 DEF TimedOK, TimedAt, PastTime
  <1>4. ASSUME WriteAllow PROVE \A i \in 1 .. Len(hist) : hist[i].ts < ts
    <2>1. Len(hist) = cur /\ first <= cur /\ first \in Nat /\ cur \in Nat
      BY <1>1, FreeToWrite
    <2>2. CASE cur = first
      BY <1>3, <2>1, <2>2
    <2>3. CASE cur > first
      <3> DEFINE s == SlotNo(cur)
      <3>1. history_slot = s /\ cur \in Int /\ HistorySize \in Nat \ {0}
        BY <1>1, <2>3, <2>1, ConstantsAssumption DEF PlacesOK
      <3>2. ScanSlot(history_slot) = s
        BY <1>1, <3>1, SlotsOfBlocks DEF ScanSlot
      <3>3. cur \in first + 1 .. cur /\ cur > cur - HistorySize /\ cur \in 1 .. Len(hist)
        BY <2>1, <2>3, <3>1
      <3>4. IsWhole(s, hist[cur])
        BY <1>1, <3>3 DEF FreeOK
      <3>5. hist[cur].ts \in Nat /\ hist[cur].ts >= LowBase
        BY <1>1, <1>4, <3>3, BlocksOfHistory DEF PastOK, PastTime
      <3>6. /\ hist[cur].ts = LowBase * Hi(hist[cur].ts) + Lo(hist[cur].ts)
            /\ Hi(hist[cur].ts) \in Nat /\ Lo(hist[cur].ts) \in 0 .. LowBase - 1
        BY <3>5, StampWords
      <3>7. Hi(hist[cur].ts) # 0
        <4>1. LowBase \in Nat \ {0} /\ LowBase * 0 = 0
          BY ConstantsAssumption
        <4>2. ASSUME Hi(hist[cur].ts) = 0 PROVE LowBase * Hi(hist[cur].ts) = 0
          BY <4>1, <4>2
        <4>3. ASSUME LowBase * Hi(hist[cur].ts) = 0 PROVE FALSE
          BY <3>5, <3>6, <4>1, <4>3
        <4> QED BY <4>2, <4>3
      <3>8. SlotTs(s) = hist[cur].ts
        <4>1. Hi(hist[cur].ts) * LowBase = LowBase * Hi(hist[cur].ts)
          BY <3>6, ConstantsAssumption
        <4> QED BY <3>4, <3>6, <4>1 DEF IsWhole, SlotTs, Stamp
      <3>9. MinCycle > 0 /\ MinCycle \in Nat /\ ring[s]["hi"] # 0
        BY <1>4, <3>4, <3>7, ConstantsAssumption DEF Serial, IsWhole
      <3>10. ~(ts - hist[cur].ts < MinCycle)
        BY <3>2, <3>8, <3>9 DEF TooFast
      <3>11. hist[cur].ts < ts
        BY <1>1, <3>5, <3>9, <3>10
      <3>12. ASSUME NEW i \in 1 .. Len(hist) PROVE hist[i].ts < ts
        <4>1. hist[i].ts \in Nat /\ (i = cur \/ hist[i].ts < hist[cur].ts)
          BY <1>1, <2>1, <3>3, BlocksOfHistory DEF CommitsAreOrdered
        <4> QED BY <1>1, <3>5, <3>11, <4>1
      <3> QED BY <3>12
    <2> QED BY <2>1, <2>2, <2>3
  <1>5. \A i \in 1 .. Len(hist) : hist[i].ts < ts
    BY <1>1, <1>2, <1>4 DEF TimedOK, TimedAt
  <1>6. SlotTs(NextSlot) < ts /\ SlotTs(NextSlot) \in Nat
    BY <1>1, <1>3, <1>5, SlotNumbers, SlotTimes
  <1> QED BY <1>1, <1>2, <1>3, <1>5, <1>6

LEMMA ChooseSlotOrder ==
  ASSUME Serial, RingInv, OrderOK, NEW w \in Writers, ChooseSlot(w)
  PROVE  OrderOK'
  <1>1. /\ wpc[w] = "watch" /\ ~TooFast(wblock[w].ts) /\ wpc' = [wpc EXCEPT ![w] = "inv_hi"]
        /\ UNCHANGED <<hist, first, clock>>
    BY DEF ChooseSlot, Goto
  <1>2. /\ Timed(w) /\ PastTime(wblock[w].ts) /\ wblock[w].ts \in Nat /\ ~wblock[w].ptr
        /\ \A i \in 1 .. Len(hist) : hist[i].ts < wblock[w].ts
        /\ wblock[w].ts # SlotTs(NextSlot)
    BY <1>1, BehindTheWatch
  <1>3. /\ RingTypeOK /\ wpc \in [Writers -> WriterPc] /\ wblock \in [Writers -> Block]
        /\ clock \in Nat /\ first \in Nat /\ Len(hist) \in Nat /\ first <= Len(hist)
    BY DEF RingInv, RingTypeOK
  <1>4. wblock' = [wblock EXCEPT ![w] = [wblock[w] EXCEPT !.slot = NextSlot, !.ts = wblock[w].ts]]
    BY <1>2, <1>3 DEF ChooseSlot
  <1>5. wblock[w] \in Block /\ wpc'[w] = "inv_hi"
        /\ wblock'[w] = [wblock[w] EXCEPT !.slot = NextSlot, !.ts = wblock[w].ts]
    BY <1>1, <1>3, <1>4
  <1>6. /\ wblock'[w].ts = wblock[w].ts /\ ~wblock'[w].ptr
        /\ wblock' = [wblock EXCEPT ![w] = wblock'[w]] /\ wpc' = [wpc EXCEPT ![w] = wpc'[w]]
    BY <1>1, <1>2, <1>4, <1>5 DEF Block
  <1>7. TimedAt(w)'
    BY <1>1, <1>2, <1>3, <1>5, <1>6 DEF TimedAt, Timed, PastTime
  <1>8. clock <= clock' /\ clock' \in Nat
    BY <1>1, <1>3
  <1> QED BY <1>1, <1>3, <1>6, <1>7, <1>8, OrderKeeps

LEMMA PtrOrder ==
  ASSUME Serial, RingInv, OrderOK, NEW w \in Writers, PtrBegin(w) \/ PtrCommit(w)
  PROVE  OrderOK'
  <1>1. /\ RingTypeOK /\ wpc \in [Writers -> WriterPc] /\ wblock \in [Writers -> Block]
        /\ clock \in Nat /\ PtrOK /\ TimedAt(w)
    BY DEF RingInv, RingTypeOK, OrderOK, TimedOK
  <1>2. CASE PtrBegin(w)
    <2>1. /\ ~WriteAllow /\ wpc' = [wpc EXCEPT ![w] = "inv_hi"] /\ wblock'[w].ptr
          /\ wblock' = [wblock EXCEPT ![w] = wblock'[w]]
          /\ UNCHANGED <<hist, first, clock>>
      BY <1>1, <1>2 DEF PtrBegin, Goto
    <2>2. wpc'[w] = "inv_hi" /\ wpc' = [wpc EXCEPT ![w] = wpc'[w]] /\ TimedAt(w)'
      BY <1>1, <2>1 DEF TimedAt, Timed
    <2>3. clock <= clock' /\ clock' \in Nat
      BY <1>1, <2>1
    <2> QED BY <1>1, <2>1, <2>2, <2>3, OrderKeeps
  <1>3. CASE PtrCommit(w)
    <2>1. PICK t \in Time :
            /\ Reading(t)
            /\ IF TooFast(t)
                 THEN UNCHANGED <<wpc, wblock>>
                 ELSE /\ Goto(w, "copy", "stamp")
                      /\ wblock' = [wblock EXCEPT ![w].ts = t]
      BY <1>3 DEF PtrCommit
    <2>2. wpc[w] = "copy" /\ wblock[w].ptr /\ UNCHANGED <<hist, first>> /\ ~WriteAllow
      BY <1>1, <1>3 DEF PtrCommit, PtrOK
    <2>3. /\ t \in Nat /\ clock' = t /\ clock < t /\ t > 0 /\ (WriteAllow => t >= LowBase)
          /\ \A i \in 1 .. Len(hist) : hist[i].ts < t
          /\ first \in Nat /\ Len(hist) \in Nat /\ first <= Len(hist)
      BY <1>1, <2>1, NewTime DEF RingInv
    <2>4. CASE UNCHANGED <<wpc, wblock>>
      <3>1. TimedAt(w)'
        BY <2>2, <2>4 DEF TimedAt, Timed
      <3>2. wpc' = [wpc EXCEPT ![w] = wpc'[w]] /\ wblock' = [wblock EXCEPT ![w] = wblock'[w]]
        BY <1>1, <2>4
      <3>3. clock <= clock' /\ clock' \in Nat /\ wpc'[w] # "watch"
        BY <1>1, <2>2, <2>3, <2>4
      <3> QED BY <1>1, <2>2, <3>1, <3>2, <3>3, OrderKeeps
    <2>5. CASE wpc' = [wpc EXCEPT ![w] = "stamp"] /\ wblock' = [wblock EXCEPT ![w].ts = t]
      <3>1. wblock[w] \in Block /\ wblock'[w] = [wblock[w] EXCEPT !.ts = t]
            /\ wblock' = [wblock EXCEPT ![w] = wblock'[w]]
            /\ wpc'[w] = "stamp" /\ wpc' = [wpc EXCEPT ![w] = wpc'[w]]
        BY <1>1, <2>5
      <3>2. wblock'[w].ts = t
        BY <3>1 DEF Block
      <3>3. TimedAt(w)'
        BY <2>2, <2>3, <3>1, <3>2 DEF TimedAt, Timed, PastTime
      <3>4. clock <= clock' /\ clock' \in Nat /\ wpc'[w] # "watch"
        BY <1>1, <2>3, <3>1
      <3> QED BY <1>1, <2>2, <3>1, <3>3, <3>4, OrderKeeps
    <2> QED BY <2>1, <2>4, <2>5 DEF Goto
  <1> QED BY <1>2, <1>3

\* The steps between that take no time.
LEMMA OtherStepsOrder ==
  ASSUME RingInv, OrderOK, NEW w \in Writers,
         \/ TakeObjLock(w) \/ WriteTooFast(w) \/ InvalidateHigh(w) \/ InvalidateLow(w)
         \/ CopyIn(w) \/ CopiedIn(w) \/ SetDataTs(w) \/ PublishHigh(w) \/ MakeCurrent(w)
         \/ ReleaseObjLock(w) \/ Crash(w)
  PROVE  OrderOK'
  <1>1. UNCHANGED <<hist, first, clock, wblock>>
    BY DEF TakeObjLock, WriteTooFast, InvalidateHigh, InvalidateLow, CopyIn, CopiedIn,
           SetDataTs, PublishHigh, MakeCurrent, ReleaseObjLock, Crash
  <1>2. /\ RingTypeOK /\ wpc \in [Writers -> WriterPc] /\ wblock \in [Writers -> Block]
        /\ clock \in Nat /\ PtrOK /\ TimedAt(w) /\ OneWriter
    BY DEF RingInv, RingTypeOK, OrderOK, TimedOK
  <1>3. \E from, to \in WriterPc :
          /\ wpc[w] = from /\ wpc' = [wpc EXCEPT ![w] = to] /\ from # "idle"
          /\ \/ from = "lock" /\ to = "watch"
             \/ from = "inv_hi" /\ to = "inv_lo"
             \/ from = "inv_lo" /\ to = "copy"
             \/ from = "copy" /\ to = "copy"
             \/ from = "copy" /\ to = "stamp" /\ ~wblock[w].ptr
             \/ from = "stamp" /\ to = "pub_lo"
             \/ to \in {"idle", "current", "unlock", "dead"}
    <2>1. CASE CopyIn(w)
      <3>1. wpc[w] = "copy" /\ wpc' = wpc
        BY <2>1 DEF CopyIn
      <3>2. wpc' = [wpc EXCEPT ![w] = "copy"] /\ "copy" \in WriterPc
        BY <1>2, <3>1 DEF WriterPc
      <3> QED BY <3>1, <3>2
    <2>2. CASE Crash(w)
      <3>1. wpc[w] \in WriterPc /\ "dead" \in WriterPc
        BY <1>2 DEF WriterPc
      <3> QED BY <2>2, <3>1 DEF Crash
    <2>3. CASE \/ TakeObjLock(w) \/ WriteTooFast(w) \/ InvalidateHigh(w)
      BY <2>3 DEF TakeObjLock, WriteTooFast, InvalidateHigh, Goto, WriterPc
    <2>4. CASE InvalidateLow(w) \/ CopiedIn(w) \/ SetDataTs(w)
      BY <2>4 DEF InvalidateLow, CopiedIn, SetDataTs, Goto, WriterPc
    <2>5. CASE PublishHigh(w) \/ ReleaseObjLock(w)
      BY <2>5 DEF PublishHigh, ReleaseObjLock, Goto, WriterPc
    <2>6. CASE MakeCurrent(w)
      <3> DEFINE to == IF WriteAllow THEN "unlock" ELSE "idle"
      <3>1. to \in {"idle", "current", "unlock", "dead"} /\ to \in WriterPc
        BY DEF WriterPc
      <3>2. wpc[w] = "current" /\ wpc' = [wpc EXCEPT ![w] = to]
        BY <2>6 DEF MakeCurrent, Goto
      <3>3. "current" \in WriterPc
        BY DEF WriterPc
      <3> QED BY <3>1, <3>2, <3>3
    <2> QED BY <2>1, <2>2, <2>3, <2>4, <2>5, <2>6
  <1>4. PICK from, to \in WriterPc :
          /\ wpc[w] = from /\ wpc' = [wpc EXCEPT ![w] = to] /\ from # "idle"
          /\ \/ from = "lock" /\ to = "watch"
             \/ from = "inv_hi" /\ to = "inv_lo"
             \/ from = "inv_lo" /\ to = "copy"
             \/ from = "copy" /\ to = "copy"
             \/ from = "copy" /\ to = "stamp" /\ ~wblock[w].ptr
             \/ from = "stamp" /\ to = "pub_lo"
             \/ to \in {"idle", "current", "unlock", "dead"}
    BY <1>3
  <1>5. wpc'[w] = to /\ wpc' = [wpc EXCEPT ![w] = wpc'[w]] /\ wblock' = [wblock EXCEPT ![w] = wblock'[w]]
    BY <1>1, <1>2, <1>4
  <1>6. TimedAt(w)'
    <2>1. Timed(w)' => Timed(w)
      BY <1>1, <1>4, <1>5 DEF Timed
    <2>2. Timed(w)' /\ to \in Inside => from \in Inside
      BY <1>4, <1>5 DEF Timed, Inside
    <2> QED BY <1>1, <1>2, <1>4, <1>5, <2>1, <2>2 DEF TimedAt, PastTime
  <1>7. wblock'[w].ptr /\ wpc'[w] # "idle" => ~WriteAllow /\ wpc'[w] # "watch"
    BY <1>1, <1>2, <1>4, <1>5 DEF PtrOK, OneWriter
  <1>8. clock <= clock' /\ clock' \in Nat
    BY <1>1, <1>2
  <1> QED BY <1>1, <1>2, <1>5, <1>6, <1>7, <1>8, OrderKeeps

LEMMA PublishLowOrder ==
  ASSUME Serial, RingInv, OrderOK, NEW w \in Writers, PublishLow(w)
  PROVE  OrderOK'
  <1>1. /\ wpc[w] = "pub_lo" /\ wpc' = [wpc EXCEPT ![w] = "pub_hi"]
        /\ hist' = Append(hist, wblock[w])
        /\ UNCHANGED <<wblock, first, clock>>
    BY DEF PublishLow, Goto
  <1>2. /\ RingTypeOK /\ OneWriter /\ wpc \in [Writers -> WriterPc] /\ wblock[w] \in Block
        /\ hist \in Seq(Block) /\ CommitsAreOrdered /\ PastOK /\ PtrOK /\ TimedOK
        /\ Len(hist) \in Nat /\ first \in Nat /\ first <= Len(hist)
    BY BlockFields DEF RingInv, RingTypeOK, OrderOK
  <1>3. /\ PastTime(wblock[w].ts) /\ wpc[w] \in Inside
        /\ \A i \in 1 .. Len(hist) : hist[i].ts < wblock[w].ts
    BY <1>1, <1>2 DEF TimedOK, TimedAt, Timed, Inside
  <1>4. /\ Len(hist') = Len(hist) + 1 /\ hist'[Len(hist) + 1] = wblock[w]
        /\ \A i \in 1 .. Len(hist) : hist'[i] = hist[i]
    BY <1>1, <1>2
  <1>5. CommitsAreOrdered'
    <2> SUFFICES ASSUME NEW i \in 1 .. Len(hist'), NEW j \in 1 .. Len(hist'), i < j
                 PROVE  hist'[i].ts < hist'[j].ts
      BY DEF CommitsAreOrdered
    <2>1. i \in 1 .. Len(hist) /\ hist'[i] = hist[i]
      BY <1>2, <1>4
    <2>2. CASE j = Len(hist) + 1
      BY <1>3, <1>4, <2>1, <2>2
    <2>3. CASE j \in 1 .. Len(hist)
      BY <1>2, <1>4, <2>1, <2>3 DEF CommitsAreOrdered
    <2>4. Len(hist) \in Nat /\ Len(hist') = Len(hist) + 1
      BY <1>2, <1>4
    <2>5. j = Len(hist) + 1 \/ j \in 1 .. Len(hist)
      BY <2>4
    <2> QED BY <2>2, <2>3, <2>5
  <1>6. PastOK'
    <2>1. ASSUME NEW i \in 1 .. Len(hist') PROVE PastTime(hist'[i].ts)
      <3>1. CASE i = Len(hist) + 1
        BY <1>3, <1>4, <3>1
      <3>2. CASE i \in 1 .. Len(hist)
        BY <1>2, <1>4, <3>2 DEF PastOK
      <3> QED BY <1>2, <1>4, <3>1, <3>2
    <2> QED BY <1>1, <2>1 DEF PastOK, PastTime
  <1>7. PtrOK'
    BY <1>1, <1>2 DEF PtrOK
  <1>8. ASSUME NEW v \in Writers PROVE TimedAt(v)'
    <2>1. CASE v = w
      BY <1>1, <1>2, <2>1 DEF TimedAt, Timed
    <2>2. CASE v # w
      <3>1. wpc'[v] = wpc[v] /\ wpc[v] \notin Inside /\ TimedAt(v)
        BY <1>1, <1>2, <1>3, <2>2, OneInside DEF TimedOK
      <3>2. ~WriteAllow => wpc[v] = "idle"
        BY <1>1, <1>2, <2>2 DEF OneWriter
      <3>3. \A i \in 1 .. first : hist'[i] = hist[i]
        BY <1>2, <1>4
      <3> QED BY <1>1, <3>1, <3>2, <3>3 DEF TimedAt, Timed, PastTime
    <2> QED BY <2>1, <2>2
  <1> QED BY <1>5, <1>6, <1>7, <1>8 DEF OrderOK, TimedOK

LEMMA OrderUnchanged ==
  ASSUME OrderOK, UNCHANGED <<hist, first, clock, wpc, wblock>>
  PROVE  OrderOK'
  <1>1. CommitsAreOrdered /\ PastOK /\ PtrOK /\ TimedOK
    BY DEF OrderOK
  <1>2. CommitsAreOrdered' /\ PastOK' /\ PtrOK'
    BY <1>1 DEF CommitsAreOrdered, PastOK, PastTime, PtrOK
  <1>3. TimedOK'
    BY <1>1 DEF TimedOK, TimedAt, Timed, PastTime
  <1> QED BY <1>2, <1>3 DEF OrderOK

LEMMA ReuseOrder ==
  ASSUME OrderOK, Reuse
  PROVE  OrderOK'
  <1>1. /\ \A w \in Writers : wpc[w] \in {"idle", "dead"}
        /\ UNCHANGED <<hist, clock, wpc, wblock>>
    BY DEF Reuse, wvars
  <1>2. CommitsAreOrdered /\ PastOK /\ PtrOK
    BY DEF OrderOK
  <1>3. CommitsAreOrdered' /\ PastOK' /\ PtrOK'
    BY <1>1, <1>2 DEF CommitsAreOrdered, PastOK, PastTime, PtrOK
  <1>4. TimedOK'
    BY <1>1 DEF TimedOK, TimedAt, Timed
  <1> QED BY <1>3, <1>4 DEF OrderOK

LEMMA OrderStep ==
  ASSUME Serial, RingInv, OrderOK, [Next]_vars
  PROVE  OrderOK'
  <1>1. RingTypeOK
    BY DEF RingInv
  <1>2. ASSUME NEW w \in Writers, WriterStep(w) PROVE OrderOK'
    BY <1>1, <1>2, WriteBeginOrder, ChooseSlotOrder, PtrOrder, OtherStepsOrder,
       PublishLowOrder DEF WriterStep
  <1>3. ASSUME NEW w \in Writers, Crash(w) PROVE OrderOK'
    BY <1>3, OtherStepsOrder
  <1>4. ASSUME NEW r \in Readers, ReaderStep(r) PROVE OrderOK'
    BY <1>4, ReadersOnlyRead, OrderUnchanged DEF ringVars
  <1>5. CASE Delete
    BY <1>5, OrderUnchanged DEF Delete, wvars
  <1>6. CASE UNCHANGED vars
    BY <1>6, OrderUnchanged DEF vars, ringVars
  <1> QED BY <1>2, <1>3, <1>4, <1>5, <1>6, ReuseOrder DEF Next, RingNext

LEMMA OrderInit == RingInit => OrderOK
  BY DEF RingInit, OrderOK, CommitsAreOrdered, PastOK, PtrOK, NullBlock, TimedOK, TimedAt, Timed

LEMMA OrderAlways == Serial /\ Spec => []OrderOK
  <1>1. Serial /\ RingInv /\ OrderOK /\ [Next]_vars => OrderOK'
    BY OrderStep
  <1>2. Init => OrderOK
    BY OrderInit DEF Init
  <1>3. CASE Serial
    <2>1. RingInv /\ OrderOK /\ [Next]_vars => OrderOK'
      BY <1>1, <1>3
    <2> QED BY <2>1, <1>2, RingInvAlways, PTL DEF Spec
  <1> QED BY <1>3

-----------------------------------------------------------------------------
(* The readers: which blocks they can have seen. *)

Scanning == {"check", "deleted", "scan_hi", "scan_lo"}

\* The oldest block that the call may return.
ByCommit(r) == req[r].mode \in {"last", "older"} /\ ~WantsLatest(r)
NotTooOld(r, i) ==
  /\ WantsLatest(r) /\ start[r] >= 0 => i >= since[r]
  /\ ByCommit(r) /\ first = base[r] =>
       \A j \in base[r] + 1 .. since[r] : Satisfies(r, hist[j].ts) => j <= i

\* The search began at the block that was current.
StartOK(r) ==
  /\ start[r] = IF since[r] > base[r] THEN hist[since[r]].slot ELSE -1
  /\ WantsLatest(r) /\ start[r] >= 0 => slot[r] = start[r]

\* It is n slots before it now, and has passed no block it looks for unless that was
\* overwritten, or is about to be.
Passed(r, n) ==
  \A j \in base[r] + 1 .. since[r] :
    j > since[r] - n /\ Satisfies(r, hist[j].ts) => Len(hist) >= j + HistorySize - 1
SeenHigh(r, n) ==
  since[r] - n > base[r] /\ Len(hist) < since[r] - n + HistorySize - 1
    => probe[r].hi = Hi(hist[since[r] - n].ts)
WalkAt(r, n) ==
  /\ slot[r] = SlotNo(since[r] - n) /\ Passed(r, n)
  /\ rpc[r] = "scan_lo" => SeenHigh(r, n)
WalkOK(r) ==
  ByCommit(r) /\ first = base[r] /\ start[r] >= 0 =>
    \E n \in 0 .. HistorySize - 1 : WalkAt(r, n)

\* Block i was in slot s when its high word was read, block j when its low word was.
ReadFrom(r, s, i, j, hi, lo) ==
  /\ i <= j /\ hist[i].slot = s /\ hist[j].slot = s
  /\ Hi(hist[i].ts) = hi /\ Lo(hist[j].ts) = lo /\ NotTooOld(r, i)

HighRead(r) ==
  probe[r].hi # 0 =>
    \E i \in 1 .. Len(hist) :
      hist[i].slot = slot[r] /\ Hi(hist[i].ts) = probe[r].hi /\ NotTooOld(r, i)
PairRead(r, p) ==
  p.hi # 0 /\ p.lo # 0 =>
    \E i, j \in 1 .. Len(hist) : ReadFrom(r, slot[r], i, j, p.hi, p.lo)

\* Block j has not been touched in its slot: what is read there is block j.
StillIn(s, j) == IsLastIn(s, j) /\ ring[s]["lo"] # 0
TimeFits(r, j) == IsData(r) => chosen[r].data_ts = DataTs(hist[j])
CopiedSoFar(r, j) == \A x \in CopyWord \ rtodo[r] : buf[r][x] = Contents(hist[j], x)
ChosenOK(r) ==
  chosen[r] # None /\ chosen[r].hi # 0 /\ chosen[r].lo # 0 =>
    \E i, j \in 1 .. Len(hist) :
      /\ ReadFrom(r, chosen[r].slot, i, j, chosen[r].hi, chosen[r].lo)
      /\ StillIn(chosen[r].slot, j) =>
           TimeFits(r, j) /\ (rpc[r] \in {"copy", "final_lo"} => CopiedSoFar(r, j))

\* Once the low word has been read again: if it is that of block j, the copy is block j.
IsCopied(r, i) == \A x \in CopyWord : buf[r][x] = Contents(hist[i], x)
LowAgain(r) ==
  final[r].lo = chosen[r].lo /\ chosen[r].hi # 0 /\ chosen[r].lo # 0 =>
    \E i, j, k \in 1 .. Len(hist) :
      /\ ReadFrom(r, chosen[r].slot, i, j, chosen[r].hi, chosen[r].lo)
      /\ j <= k /\ hist[k].slot = chosen[r].slot /\ Lo(hist[k].ts) = final[r].lo
      /\ j = k => IsCopied(r, j) /\ TimeFits(r, j)

\* The time of the candidate satisfies the request.
ChosenTime(r) == IF IsData(r) THEN chosen[r].data_ts ELSE Stamp(chosen[r].hi, chosen[r].lo)
ChosenFits(r) ==
  chosen[r] # None /\ ~WantsLatest(r)
    /\ (rpc[r] \in {"copy", "final_lo", "final_hi"} \/ IsYounger(r)) =>
    Satisfies(r, ChosenTime(r))

\* Block i is what the call returns, and is what it was asked for.
RightBlock(r, i) ==
  /\ hist[i].ts = Stamp(final[r].hi, final[r].lo) /\ IsCopied(r, i) /\ NotTooOld(r, i)
  /\ ~WantsLatest(r) => Satisfies(r, IF IsData(r) THEN DataTs(hist[i]) ELSE hist[i].ts)
Answered(r) ==
  final[r].hi # 0 /\ final[r].lo # 0 => \E i \in 1 .. Len(hist) : RightBlock(r, i)

ReaderAt(r) ==
  /\ base[r] <= first /\ since[r] <= cur
  /\ rpc[r] # "idle" => result[r].status = "none" /\ StartOK(r)
  /\ rpc[r] \in Scanning => WalkOK(r)
  /\ rpc[r] = "scan_lo" => HighRead(r)
  /\ rpc[r] = "scan_data" => PairRead(r, probe[r]) /\ IsData(r)
  /\ rpc[r] \in Scanning \cup {"scan_data", "copy", "final_lo"} => ChosenOK(r)
  /\ rpc[r] \in Scanning \cup {"scan_data", "copy", "final_lo", "final_hi"} => ChosenFits(r)
  /\ rpc[r] = "final_lo" => rtodo[r] = {}
  /\ rpc[r] = "final_hi" => LowAgain(r)
  /\ rpc[r] = "size" => Answered(r)
  /\ Succeeded(r) => Answered(r) /\ result[r].ts = Stamp(final[r].hi, final[r].lo)
ReadersOK == \A r \in Readers : ReaderAt(r)

\* What a step of the ring means to the readers: the history grows, and a block is not put
\* back into the slot it was removed from.
Grows ==
  /\ Len(hist) <= Len(hist') /\ first <= first' /\ cur <= cur'
  /\ \A i \in 1 .. Len(hist) : hist'[i] = hist[i]
  /\ \A s \in Slot, j \in 1 .. Len(hist) : StillIn(s, j)' => StillIn(s, j)

LEMMA WriterGrows ==
  ASSUME RingInv, NEW w \in Writers, WriterStep(w)
  PROVE  Grows
  <1>1. /\ RingTypeOK /\ RingTypeOK' /\ first' = first
        /\ cur \in Nat /\ Len(hist) \in Nat /\ cur <= Len(hist) /\ first \in Nat
    BY WriterTypes DEF RingInv, RingTypeOK
  <1>2. CASE PublishLow(w)
    <2> DEFINE s == wblock[w].slot
    <2>1. /\ wpc[w] \in Inside /\ hist' = Append(hist, wblock[w])
          /\ ring' = [ring EXCEPT ![s]["lo"] = Lo(wblock[w].ts)] /\ cur' = cur
      BY <1>2 DEF PublishLow, Goto, Inside
    <2>2. /\ wblock[w] \in Block /\ hist \in Seq(Block) /\ s \in Slot
          /\ ring \in [Slot -> [Word -> Nat]]
      BY <2>1, InSlot
    <2>3. /\ Len(hist') = Len(hist) + 1 /\ hist'[Len(hist) + 1] = wblock[w]
          /\ \A i \in 1 .. Len(hist) : hist'[i] = hist[i]
      BY <2>1, <2>2
    <2>4. ASSUME NEW q \in Slot, NEW j \in 1 .. Len(hist), StillIn(q, j)'
          PROVE  StillIn(q, j)
      <3>1. IsLastIn(q, j)
        BY <1>1, <2>3, <2>4 DEF StillIn, IsLastIn
      <3>2. q # s
        <4>1. Len(hist) + 1 \in j + 1 .. Len(hist')
          BY <1>1, <2>3
        <4> QED BY <2>3, <2>4, <4>1 DEF StillIn, IsLastIn
      <3>3. ring'[q] = ring[q]
        BY <2>1, <2>2, <3>2
      <3> QED BY <2>4, <3>1, <3>3 DEF StillIn
    <2> QED BY <1>1, <2>1, <2>3, <2>4 DEF Grows
  <1>3. CASE ~PublishLow(w)
    <2>1. hist' = hist /\ cur' \in {cur, Len(hist)}
      BY <1>3 DEF WriterStep, WriteBegin, TakeObjLock, WriteTooFast, ChooseSlot, PtrBegin,
         PtrCommit, InvalidateHigh, InvalidateLow, CopyIn, CopiedIn, SetDataTs, PublishHigh,
         MakeCurrent, ReleaseObjLock
    <2>2. ASSUME NEW q \in Slot, ring'[q]["lo"] # 0 PROVE ring[q]["lo"] # 0
      <3>1. CASE UNCHANGED ring
        BY <2>2, <3>1
      <3>2. CASE \/ InvalidateHigh(w) \/ InvalidateLow(w) \/ CopyIn(w) \/ SetDataTs(w)
                 \/ PublishHigh(w)
        <4>1. wpc[w] \in Inside
          BY <3>2 DEF InvalidateHigh, InvalidateLow, CopyIn, SetDataTs, PublishHigh, Goto, Inside
        <4>2. /\ ring \in [Slot -> [Word -> Nat]] /\ wblock[w].slot \in Slot
              /\ "lo" \notin CopyWord /\ "lo" \in Word /\ wtodo[w] \subseteq CopyWord
              /\ "data_ts" # "lo"
          BY <4>1, InSlot
        <4>3. CASE CopyIn(w)
          <5>1. PICK x \in wtodo[w] :
                  ring' = [ring EXCEPT ![wblock[w].slot][x] =
                     IF x = "data_ts" THEN wblock[w].given ELSE Contents(wblock[w], x)]
            BY <4>3 DEF CopyIn
          <5>2. x # "lo"
            BY <4>2
          <5> QED BY <2>2, <4>2, <5>1, <5>2
        <4>4. CASE InvalidateHigh(w) \/ InvalidateLow(w) \/ PublishHigh(w)
          BY <2>2, <4>2, <4>4 DEF InvalidateHigh, InvalidateLow, PublishHigh
        <4>5. CASE SetDataTs(w)
          BY <2>2, <4>2, <4>5 DEF SetDataTs
        <4> QED BY <3>2, <4>3, <4>4, <4>5
      <3>3. CASE \/ WriteBegin(w) \/ TakeObjLock(w) \/ WriteTooFast(w) \/ ChooseSlot(w)
                 \/ PtrBegin(w) \/ PtrCommit(w) \/ CopiedIn(w) \/ MakeCurrent(w) \/ ReleaseObjLock(w)
        BY <3>1, <3>3 DEF WriteBegin, TakeObjLock, WriteTooFast, ChooseSlot, PtrBegin, PtrCommit,
                          CopiedIn, MakeCurrent, ReleaseObjLock
      <3> QED BY <1>3, <3>2, <3>3 DEF WriterStep
    <2>3. cur <= cur'
      BY <1>1, <2>1
    <2>4. \A q \in Slot, j \in 1 .. Len(hist) : StillIn(q, j)' => StillIn(q, j)
      BY <2>1, <2>2 DEF StillIn, IsLastIn
    <2> QED BY <1>1, <2>1, <2>3, <2>4 DEF Grows
  <1> QED BY <1>2, <1>3

LEMMA RingGrows ==
  ASSUME RingInv, RingNext \/ UNCHANGED ringVars
  PROVE  Grows
  <1>1. /\ RingTypeOK
        /\ cur \in Nat /\ Len(hist) \in Nat /\ first <= Len(hist) /\ first \in Nat
    BY DEF RingInv, RingTypeOK
  <1>2. ASSUME NEW w \in Writers, Crash(w) PROVE Grows
    BY <1>1, <1>2 DEF Crash, Grows, StillIn, IsLastIn
  <1>3. CASE Delete
    BY <1>1, <1>3 DEF Delete, Grows, StillIn, IsLastIn
  <1>4. CASE Reuse
    <2>1. UNCHANGED <<ring, hist, cur>> /\ first' = Len(hist)
      BY <1>4 DEF Reuse
    <2> QED BY <1>1, <2>1 DEF Grows, StillIn, IsLastIn
  <1>5. CASE UNCHANGED ringVars
    <2>1. UNCHANGED <<ring, hist, cur, first>>
      BY <1>5 DEF ringVars
    <2> QED BY <1>1, <2>1 DEF Grows, StillIn, IsLastIn
  <1> QED BY <1>2, <1>3, <1>4, <1>5, WriterGrows DEF RingNext

\* A reader that does not move.
Rests(r) ==
  /\ rpc'[r] = rpc[r] /\ req'[r] = req[r] /\ slot'[r] = slot[r] /\ start'[r] = start[r]
  /\ probe'[r] = probe[r] /\ chosen'[r] = chosen[r] /\ buf'[r] = buf[r] /\ rtodo'[r] = rtodo[r]
  /\ final'[r] = final[r] /\ result'[r] = result[r] /\ since'[r] = since[r] /\ base'[r] = base[r]

LEMMA RingNumbers ==
  ASSUME RingTypeOK
  PROVE  /\ Len(hist) \in Nat /\ first \in Nat /\ cur \in Nat
         /\ first <= Len(hist) /\ cur <= Len(hist) /\ HistorySize \in Nat /\ HistorySize > 0
  BY ConstantsAssumption DEF RingTypeOK

LEMMA ReaderNumbers ==
  ASSUME TypeOK, NEW r \in Readers
  PROVE  /\ since[r] \in Nat /\ base[r] \in Nat /\ since[r] <= Len(hist)
         /\ start[r] \in Int /\ slot[r] \in Slot
         /\ probe[r] \in [hi : Nat, lo : Nat, data_ts : Nat]
         /\ final[r] \in [hi : Nat, lo : Nat]
  BY RingNumbers DEF TypeOK

LEMMA SubRange ==
  ASSUME NEW b \in Nat, NEW n \in Nat, NEW l \in Nat, n <= l
  PROVE  \A j \in b + 1 .. n : j \in 1 .. l
  OBVIOUS

LEMMA NotTooOldKeeps ==
  ASSUME Grows, TypeOK, RingTypeOK', NEW r \in Readers, NEW i \in 1 .. Len(hist), base[r] <= first,
         req'[r] = req[r], start'[r] = start[r], since'[r] = since[r], base'[r] = base[r],
         NotTooOld(r, i)
  PROVE  NotTooOld(r, i)'
  <1>1. /\ since[r] \in Nat /\ base[r] \in Nat /\ since[r] <= Len(hist) /\ Len(hist) \in Nat
        /\ first \in Nat
    BY ReaderNumbers, RingNumbers DEF TypeOK
  <1>2. first' = base'[r] => first = base[r]
    <2>1. first <= first' /\ first' \in Nat
      BY DEF Grows, RingTypeOK
    <2> QED BY <1>1, <2>1
  <1>3. \A j \in base[r] + 1 .. since[r] : hist'[j] = hist[j]
    <2>1. \A j \in base[r] + 1 .. since[r] : j \in 1 .. Len(hist)
      BY <1>1, SubRange
    <2> QED BY <2>1 DEF Grows
  <1>4. (ByCommit(r))' = ByCommit(r) /\ (WantsLatest(r))' = WantsLatest(r)
    BY DEF ByCommit, WantsLatest
  <1>5. \A j \in base[r] + 1 .. since[r] : Satisfies(r, hist[j].ts)' <=> Satisfies(r, hist[j].ts)
    BY <1>3 DEF Satisfies
  <1> QED BY <1>2, <1>4, <1>5 DEF NotTooOld

\* What holds of a reader that does not move goes on to hold.
LEMMA ReaderKeeps ==
  ASSUME TypeOK, RingTypeOK', Grows, NEW r \in Readers, Rests(r), ReaderAt(r)
  PROVE  ReaderAt(r)'
  <1>1. /\ since[r] \in Nat /\ base[r] \in Nat /\ since[r] <= Len(hist) /\ Len(hist) \in Nat
        /\ first \in Nat /\ cur \in Nat /\ base[r] <= first /\ since[r] <= cur
        /\ first' \in Nat /\ first <= first' /\ cur' \in Nat /\ cur <= cur'
        /\ Len(hist') \in Nat /\ Len(hist) <= Len(hist') /\ HistorySize \in Nat
    <2>1. RingTypeOK
      BY DEF TypeOK
    <2>2. first' \in Nat /\ cur' \in Nat /\ Len(hist') \in Nat
      BY DEF RingTypeOK
    <2>3. base[r] <= first /\ since[r] <= cur
      BY DEF ReaderAt
    <2> QED BY <2>1, <2>2, <2>3, ReaderNumbers, RingNumbers DEF Grows
  <1>2. \A i \in 1 .. Len(hist) : hist'[i] = hist[i] /\ i \in 1 .. Len(hist')
    BY <1>1 DEF Grows
  <1>3. \A i \in 1 .. Len(hist) : NotTooOld(r, i) => NotTooOld(r, i)'
    BY <1>1, NotTooOldKeeps DEF Rests
  <1>4. ASSUME NEW i \in 1 .. Len(hist), NEW j \in 1 .. Len(hist), NEW s, NEW hi, NEW lo,
               ReadFrom(r, s, i, j, hi, lo)
        PROVE  ReadFrom(r, s, i, j, hi, lo)'
    BY <1>2, <1>3, <1>4 DEF ReadFrom
  <1>5. \A j \in base[r] + 1 .. since[r] : j \in 1 .. Len(hist) /\ hist'[j] = hist[j]
    BY <1>1, <1>2, SubRange
  <1>6. /\ WantsLatest(r)' = WantsLatest(r) /\ ByCommit(r)' = ByCommit(r)
        /\ IsData(r)' = IsData(r) /\ IsYounger(r)' = IsYounger(r)
    BY DEF Rests, WantsLatest, ByCommit, IsData, IsYounger
  <1>7. StartOK(r) => StartOK(r)'
    <2>1. since[r] > base[r] => since[r] \in 1 .. Len(hist)
      BY <1>1
    <2> QED BY <1>2, <1>6, <2>1 DEF StartOK, Rests
  <1>8. WalkOK(r) => WalkOK(r)'
    <2> SUFFICES ASSUME WalkOK(r), ByCommit(r), first' = base[r], start[r] >= 0
                 PROVE  \E n \in 0 .. HistorySize - 1 : WalkAt(r, n)'
      BY <1>6 DEF WalkOK, Rests
    <2>1. first = base[r] /\ first' = first
      BY <1>1
    <2>2. PICK n \in 0 .. HistorySize - 1 : WalkAt(r, n)
      BY <2>1 DEF WalkOK
    <2>3. n \in Nat
      BY <1>1
    <2>4. Passed(r, n)'
      <3>1. ASSUME NEW j \in base[r] + 1 .. since[r], j > since[r] - n, Satisfies(r, hist[j].ts)'
            PROVE  Len(hist') >= j + HistorySize - 1
        <4>1. Satisfies(r, hist[j].ts)
          <5>1. hist'[j] = hist[j] /\ req'[r] = req[r]
            BY <1>5 DEF Rests
          <5> QED BY <3>1, <5>1 DEF Satisfies
        <4>2. Len(hist) >= j + HistorySize - 1
          BY <2>2, <3>1, <4>1 DEF WalkAt, Passed
        <4>3. j \in Int
          OBVIOUS
        <4> QED BY <1>1, <4>2, <4>3
      <3> QED BY <3>1 DEF Passed, Rests
    <2>5. SeenHigh(r, n) => SeenHigh(r, n)'
      <3>1. since[r] - n > base[r] => since[r] - n \in 1 .. Len(hist)
        BY <1>1, <2>3
      <3>2. Len(hist') < since[r] - n + HistorySize - 1 => Len(hist) < since[r] - n + HistorySize - 1
        BY <1>1, <2>3
      <3> QED BY <1>2, <3>1, <3>2 DEF SeenHigh, Rests
    <2>6. SlotNo(since[r] - n)' = SlotNo(since[r] - n)
      BY <2>1 DEF SlotNo, Rests
    <2> QED BY <2>2, <2>4, <2>5, <2>6 DEF WalkAt, Rests
  <1>9. HighRead(r) => HighRead(r)'
    BY <1>2, <1>3 DEF HighRead, Rests
  <1>10. PairRead(r, probe[r]) => PairRead(r, probe[r])'
    <2> SUFFICES ASSUME PairRead(r, probe[r]), probe[r].hi # 0, probe[r].lo # 0
                 PROVE  (\E i, j \in 1 .. Len(hist) : ReadFrom(r, slot[r], i, j, probe[r].hi, probe[r].lo))'
      BY DEF PairRead, Rests
    <2>1. PICK i \in 1 .. Len(hist), j \in 1 .. Len(hist) :
            ReadFrom(r, slot[r], i, j, probe[r].hi, probe[r].lo)
      BY DEF PairRead
    <2>2. ReadFrom(r, slot[r], i, j, probe[r].hi, probe[r].lo)'
      BY <1>4, <2>1 DEF Rests, ReadFrom
    <2> QED BY <1>2, <2>2
  <1>11. ChosenOK(r) => ChosenOK(r)'
    <2> DEFINE c == chosen[r]
    <2> SUFFICES ASSUME ChosenOK(r), c # None, c.hi # 0, c.lo # 0
                 PROVE  (\E i, j \in 1 .. Len(hist) :
                          /\ ReadFrom(r, c.slot, i, j, c.hi, c.lo)
                          /\ StillIn(c.slot, j) =>
                               TimeFits(r, j) /\ (rpc[r] \in {"copy", "final_lo"} => CopiedSoFar(r, j)))'
      BY DEF ChosenOK, Rests
    <2>1. PICK i \in 1 .. Len(hist), j \in 1 .. Len(hist) :
            /\ ReadFrom(r, c.slot, i, j, c.hi, c.lo)
            /\ StillIn(c.slot, j) =>
                 TimeFits(r, j) /\ (rpc[r] \in {"copy", "final_lo"} => CopiedSoFar(r, j))
      BY DEF ChosenOK
    <2>2. c' = c /\ c.slot \in Slot
      BY DEF Rests, TypeOK, None
    <2>3. ReadFrom(r, c.slot, i, j, c.hi, c.lo)'
      BY <1>4, <2>1, <2>2 DEF ReadFrom
    <2>4. StillIn(c.slot, j)' => StillIn(c.slot, j)
      BY <2>2 DEF Grows, StillIn, IsLastIn
    <2>5. hist'[j] = hist[j]
      BY <1>2
    <2>6. TimeFits(r, j) => TimeFits(r, j)'
      BY <1>6, <2>2, <2>5 DEF TimeFits
    <2>7. CopiedSoFar(r, j) => CopiedSoFar(r, j)'
      BY <2>5 DEF CopiedSoFar, Rests
    <2> QED BY <1>2, <2>1, <2>3, <2>4, <2>6, <2>7 DEF Rests
  <1>12. ChosenFits(r) => ChosenFits(r)'
    <2>1. /\ rpc'[r] = rpc[r] /\ chosen'[r] = chosen[r] /\ req'[r] = req[r]
          /\ ChosenTime(r)' = ChosenTime(r)
      BY <1>6 DEF Rests, ChosenTime
    <2>2. \A ts : Satisfies(r, ts)' <=> Satisfies(r, ts)
      BY <2>1 DEF Satisfies
    <2>3. Satisfies(r, ChosenTime(r)) => Satisfies(r, ChosenTime(r))'
      BY <2>1 DEF Satisfies
    <2> QED BY <1>6, <2>1, <2>3 DEF ChosenFits
  <1>13. LowAgain(r) => LowAgain(r)'
    <2> DEFINE c == chosen[r]
    <2> SUFFICES ASSUME LowAgain(r), final[r].lo = c.lo, c.hi # 0, c.lo # 0
                 PROVE  (\E i, j, k \in 1 .. Len(hist) :
                          /\ ReadFrom(r, c.slot, i, j, c.hi, c.lo)
                          /\ j <= k /\ hist[k].slot = c.slot /\ Lo(hist[k].ts) = final[r].lo
                          /\ j = k => IsCopied(r, j) /\ TimeFits(r, j))'
      BY DEF LowAgain, Rests
    <2>1. PICK i \in 1 .. Len(hist), j \in 1 .. Len(hist), k \in 1 .. Len(hist) :
            /\ ReadFrom(r, c.slot, i, j, c.hi, c.lo)
            /\ j <= k /\ hist[k].slot = c.slot /\ Lo(hist[k].ts) = final[r].lo
            /\ j = k => IsCopied(r, j) /\ TimeFits(r, j)
      BY DEF LowAgain
    <2>2. c' = c /\ final'[r] = final[r] /\ hist'[j] = hist[j] /\ hist'[k] = hist[k]
      BY <1>2 DEF Rests
    <2>3. ReadFrom(r, c.slot, i, j, c.hi, c.lo)'
      BY <1>4, <2>1, <2>2 DEF ReadFrom
    <2>4. TimeFits(r, j) /\ IsCopied(r, j) => TimeFits(r, j)' /\ IsCopied(r, j)'
      BY <1>6, <2>2 DEF TimeFits, IsCopied, Rests
    <2> QED BY <1>2, <2>1, <2>2, <2>3, <2>4
  <1>14. Answered(r) => Answered(r)'
    <2> SUFFICES ASSUME NEW i \in 1 .. Len(hist), RightBlock(r, i)
                 PROVE  RightBlock(r, i)'
      BY <1>2 DEF Answered, Rests
    <2> QED BY <1>2, <1>3, <1>6 DEF RightBlock, IsCopied, Satisfies, Rests
  <1>15. base'[r] <= first' /\ since'[r] <= cur'
    BY <1>1 DEF Rests
  <1> QED BY <1>7, <1>8, <1>9, <1>10, <1>11, <1>12, <1>13, <1>14, <1>15
          DEF ReaderAt, Rests, Succeeded, IsData

-----------------------------------------------------------------------------
(* The steps of a reader. *)

\* H blocks in a row use all slots, and the H-th block before uses the same one.
LEMMA EverySlot ==
  ASSUME RingTypeOK, NEW s \in Slot, NEW m \in Int
  PROVE  \E k \in m + 1 .. m + HistorySize : SlotNo(k) = s
  <1>0. HistorySize \in Nat \ {0} /\ first \in Int /\ s \in Int /\ s % HistorySize = s
    <2>1. HistorySize \in Nat \ {0} /\ first \in Int /\ s \in 0 .. HistorySize - 1
      BY ConstantsAssumption DEF RingTypeOK, Slot
    <2>2. s % HistorySize = s
      BY <2>1, Z3
    <2> QED BY <2>1, <2>2
  <1> DEFINE a == m - first
             b == a % HistorySize
             d == (s - b) % HistorySize
  <1>1. a \in Int /\ b \in Slot /\ b \in Int /\ s - b \in Int
    BY <1>0, ModIsSlot DEF Slot
  <1>2. d \in 0 .. HistorySize - 1 /\ d \in Int
    BY <1>1, ModIsSlot DEF Slot
  <1>3. PICK p \in Int : b = a - HistorySize * p
    BY <1>1, Remainder
  <1>4. PICK q \in Int : d = (s - b) - HistorySize * q
    BY <1>1, Remainder
  <1> HIDE DEF b, d
  <1>5. m + 1 + d - first - 1 = a + d /\ a + d \in Int
    BY <1>0, <1>1, <1>2
  <1> HIDE DEF a
  <1>6. /\ HistorySize * (p - q) = HistorySize * p - HistorySize * q /\ p - q \in Int
        /\ HistorySize * p \in Int /\ HistorySize * q \in Int
    BY <1>0
  <1>7. (a + d) - s = HistorySize * (p - q)
    BY <1>0, <1>1, <1>2, <1>3, <1>4, <1>6
  <1>8. (a + d) % HistorySize = s
    BY <1>0, <1>5, <1>6, <1>7, SameRemainder
  <1>9. SlotNo(m + 1 + d) = s /\ m + 1 + d \in m + 1 .. m + HistorySize
    BY <1>0, <1>2, <1>5, <1>8 DEF SlotNo
  <1> QED BY <1>9

LEMMA SlotAgain ==
  ASSUME RingTypeOK, NEW n \in Int
  PROVE  SlotNo(n - HistorySize) = SlotNo(n)
  <1> DEFINE a == n - HistorySize - first - 1
             b == n - first - 1
             m == 0 - 1
  <1>1. /\ HistorySize \in Nat /\ first \in Int
        /\ a \in Int /\ b \in Int /\ m \in Int /\ a - b = HistorySize * m
    BY ConstantsAssumption DEF RingTypeOK
  <1>2. SlotNo(n - HistorySize) = a % HistorySize /\ SlotNo(n) = b % HistorySize
    BY DEF SlotNo
  <1> HIDE DEF a, b, m
  <1> QED BY <1>1, <1>2, SameRemainder

\* The words of two times in order.
LEMMA WordsInOrder ==
  ASSUME NEW a \in Nat, NEW b \in Nat, a <= b
  PROVE  Hi(a) <= Hi(b) /\ (Hi(a) = Hi(b) /\ Lo(a) = Lo(b) => a = b)
  <1>1. /\ Hi(a) \in Nat /\ Hi(b) \in Nat /\ Lo(a) \in Nat /\ Lo(b) \in 0 .. LowBase - 1
        /\ a = LowBase * Hi(a) + Lo(a) /\ b = LowBase * Hi(b) + Lo(b) /\ LowBase \in Nat
    BY StampWords, ConstantsAssumption
  <1> DEFINE ha == Hi(a)
             hb == Hi(b)
  <1> HIDE DEF ha, hb
  <1>2. ha \in Nat /\ hb \in Nat /\ a = LowBase * ha + Lo(a) /\ b = LowBase * hb + Lo(b)
    BY <1>1 DEF ha, hb
  <1>3. ASSUME ha >= hb + 1 PROVE FALSE
    <2>1. LowBase * ha >= LowBase * (hb + 1) /\ LowBase * (hb + 1) = LowBase * hb + LowBase
      BY <1>1, <1>2, <1>3
    <2>2. LowBase * ha \in Nat /\ LowBase * hb \in Nat
      BY <1>1, <1>2
    <2> QED BY <1>1, <1>2, <2>1, <2>2
  <1>4. ha <= hb
    BY <1>2, <1>3
  <1> QED BY <1>1, <1>4 DEF ha, hb

\* The last block that was in a slot comes after all others.
LEMMA LastIsLast ==
  ASSUME RingTypeOK, NEW s, NEW i, IsLastIn(s, i), NEW j \in 1 .. Len(hist), hist[j].slot = s
  PROVE  j <= i
  <1>1. i \in 1 .. Len(hist) /\ Len(hist) \in Nat /\ \A k \in i + 1 .. Len(hist) : hist[k].slot # s
    BY DEF RingTypeOK, IsLastIn
  <1>2. ~(j > i)
    BY <1>1
  <1> QED BY <1>1, <1>2

LEMMA StillHasWords ==
  ASSUME RingInv, NEW s \in Slot, NEW j, StillIn(s, j)
  PROVE  HasWords(s, hist[j]) /\ ring[s]["lo"] = Lo(hist[j].ts)
  <1>1. RingTypeOK /\ StampAt(s) /\ IsLastIn(s, j) /\ ring[s]["lo"] # 0
    BY DEF RingInv, StampsOK, StillIn
  <1>2. PICK i \in 1 .. Len(hist) :
          /\ IsLastIn(s, i) /\ HasWords(s, hist[i])
          /\ ring[s]["lo"] = Lo(hist[i].ts)
    BY <1>1 DEF StampAt
  <1>3. /\ j \in 1 .. Len(hist) /\ hist[j].slot = s /\ hist[i].slot = s
    BY <1>1, <1>2 DEF IsLastIn
  <1>4. i <= j /\ j <= i /\ i \in Int /\ j \in Int
    BY <1>1, <1>2, <1>3, LastIsLast
  <1> QED BY <1>2, <1>4

\* A step of a reader within its call: the ring, the request and what it knows of the
\* history stay.
Stays(r) ==
  /\ UNCHANGED ringVars /\ req'[r] = req[r] /\ start'[r] = start[r]
  /\ since'[r] = since[r] /\ base'[r] = base[r]

LEMMA StayKeeps ==
  ASSUME NEW r \in Readers, Stays(r)
  PROVE  /\ UNCHANGED <<hist, first, cur, ring>>
         /\ WantsLatest(r)' = WantsLatest(r) /\ IsData(r)' = IsData(r)
         /\ IsYounger(r)' = IsYounger(r) /\ ByCommit(r)' = ByCommit(r)
         /\ \A ts : Satisfies(r, ts)' <=> Satisfies(r, ts)
         /\ \A i : NotTooOld(r, i)' <=> NotTooOld(r, i)
         /\ \A i, j, s, hi, lo : ReadFrom(r, s, i, j, hi, lo)' <=> ReadFrom(r, s, i, j, hi, lo)
         /\ \A s, j : StillIn(s, j)' <=> StillIn(s, j)
         /\ StartOK(r) /\ (WantsLatest(r) => slot'[r] = slot[r]) => StartOK(r)'
         /\ \A n : Passed(r, n)' <=> Passed(r, n)
         /\ \A n : SlotNo(n)' = SlotNo(n)
  <1>1. /\ UNCHANGED <<hist, first, cur, ring>>
        /\ req'[r] = req[r] /\ start'[r] = start[r] /\ since'[r] = since[r] /\ base'[r] = base[r]
    BY DEF Stays, ringVars
  <1>2. /\ WantsLatest(r)' = WantsLatest(r) /\ IsData(r)' = IsData(r)
        /\ IsYounger(r)' = IsYounger(r) /\ ByCommit(r)' = ByCommit(r)
    BY <1>1 DEF WantsLatest, IsData, IsYounger, ByCommit
  <1>3. \A ts : Satisfies(r, ts)' <=> Satisfies(r, ts)
    BY <1>1 DEF Satisfies
  <1>4. \A j : Satisfies(r, hist[j].ts)' <=> Satisfies(r, hist[j].ts)
    BY <1>1 DEF Satisfies
  <1>5. \A i : NotTooOld(r, i)' <=> NotTooOld(r, i)
    BY <1>1, <1>2, <1>4 DEF NotTooOld
  <1>6. \A i, j, s, hi, lo : ReadFrom(r, s, i, j, hi, lo)' <=> ReadFrom(r, s, i, j, hi, lo)
    BY <1>1, <1>5 DEF ReadFrom
  <1>7. \A s, j : StillIn(s, j)' <=> StillIn(s, j)
    BY <1>1 DEF StillIn, IsLastIn
  <1>8. StartOK(r) /\ (WantsLatest(r) => slot'[r] = slot[r]) => StartOK(r)'
    BY <1>1, <1>2 DEF StartOK
  <1>9. \A n : Passed(r, n)' <=> Passed(r, n)
    BY <1>1, <1>4 DEF Passed
  <1>10. \A n : SlotNo(n)' = SlotNo(n)
    BY <1>1 DEF SlotNo
  <1> QED BY <1>1, <1>2, <1>3, <1>5, <1>6, <1>7, <1>8, <1>9, <1>10

\* What is known of the candidate, whatever of it is copied.
SameChoice(r) == chosen'[r] = chosen[r] /\ buf'[r] = buf[r] /\ final'[r] = final[r]

LEMMA ChoiceKeeps ==
  ASSUME NEW r \in Readers, Stays(r), SameChoice(r)
  PROVE  /\ \A j : TimeFits(r, j)' <=> TimeFits(r, j)
         /\ \A j : IsCopied(r, j)' <=> IsCopied(r, j)
         /\ Satisfies(r, ChosenTime(r))' <=> Satisfies(r, ChosenTime(r))
         /\ \A i : RightBlock(r, i)' <=> RightBlock(r, i)
         /\ Answered(r)' <=> Answered(r)
  <1>1. /\ UNCHANGED hist /\ IsData(r)' = IsData(r) /\ WantsLatest(r)' = WantsLatest(r)
        /\ \A i : NotTooOld(r, i)' <=> NotTooOld(r, i)
        /\ chosen'[r] = chosen[r] /\ buf'[r] = buf[r] /\ final'[r] = final[r]
        /\ req'[r] = req[r]
    BY StayKeeps DEF SameChoice, Stays
  <1>2. \A j : TimeFits(r, j)' <=> TimeFits(r, j)
    BY <1>1 DEF TimeFits
  <1>3. \A j : IsCopied(r, j)' <=> IsCopied(r, j)
    BY <1>1 DEF IsCopied
  <1>4. ChosenTime(r)' = ChosenTime(r)
    BY <1>1 DEF ChosenTime
  <1>5. Satisfies(r, ChosenTime(r))' <=> Satisfies(r, ChosenTime(r))
    BY <1>1, <1>4 DEF Satisfies
  <1>6. \A i : Satisfies(r, IF IsData(r) THEN DataTs(hist[i]) ELSE hist[i].ts)' <=>
               Satisfies(r, IF IsData(r) THEN DataTs(hist[i]) ELSE hist[i].ts)
    BY <1>1 DEF Satisfies
  <1>7. \A i : RightBlock(r, i)' <=> RightBlock(r, i)
    BY <1>1, <1>3, <1>6 DEF RightBlock
  <1>8. Answered(r)' <=> Answered(r)
    BY <1>1, <1>7 DEF Answered
  <1> QED BY <1>2, <1>3, <1>5, <1>7, <1>8

\* A call begins.
LEMMA ReadBeginOK ==
  ASSUME TypeOK, RingInv, NEW r \in Readers, ReadBegin(r)
  PROVE  ReaderAt(r)'
  <1>1. /\ rpc'[r] = "check" /\ start'[r] = history_slot /\ slot'[r] = ScanSlot(history_slot)
        /\ chosen'[r] = None /\ result'[r] = NoResult /\ since'[r] = cur /\ base'[r] = first
        /\ UNCHANGED <<hist, first, cur>>
    BY DEF ReadBegin, TypeOK, ringVars
  <1>2. /\ RingTypeOK /\ PlacesOK /\ cur \in Nat /\ first \in Nat /\ Len(hist) \in Nat
        /\ cur <= Len(hist) /\ HistorySize \in Nat /\ HistorySize > 0
    BY RingNumbers DEF RingInv
  <1>3. cur > first => hist[cur].slot = SlotNo(cur)
    <2>1. cur > first => cur \in first + 1 .. Len(hist)
      BY <1>2
    <2> QED BY <1>2, <2>1 DEF PlacesOK
  <1>4. history_slot = IF cur > first THEN SlotNo(cur) ELSE -1
    BY <1>2 DEF PlacesOK
  <1>5. history_slot >= 0 => cur > first /\ slot'[r] = SlotNo(cur) /\ slot'[r] = start'[r]
    BY <1>1, <1>2, <1>4, SlotsOfBlocks DEF ScanSlot
  <1>6. StartOK(r)'
    BY <1>1, <1>3, <1>4, <1>5 DEF StartOK
  <1>7. WalkOK(r)'
    <2> DEFINE begun == start'[r] >= 0
    <2>1. begun => (slot[r] = SlotNo(since[r] - 0))'
      <3>1. cur - 0 = cur /\ since'[r] = cur /\ first' = first
        BY <1>1, <1>2
      <3> QED BY <1>1, <1>5, <3>1 DEF SlotNo
    <2>2. Passed(r, 0)'
      BY <1>1, <1>2 DEF Passed
    <2>3. rpc'[r] # "scan_lo"
      BY <1>1
    <2>4. begun => WalkAt(r, 0)'
      BY <2>1, <2>2, <2>3 DEF WalkAt
    <2>5. 0 \in 0 .. HistorySize - 1
      BY <1>2
    <2> QED BY <1>1, <2>4, <2>5 DEF WalkOK
  <1>8. ChosenOK(r)' /\ ChosenFits(r)' /\ ~Succeeded(r)' /\ result'[r].status = "none"
    BY <1>1 DEF ChosenOK, ChosenFits, Succeeded, NoResult
  <1> QED BY <1>1, <1>2, <1>6, <1>7, <1>8 DEF ReaderAt, Scanning

\* A candidate that stays the same while nothing of it is copied.
LEMMA ChosenKeeps ==
  ASSUME NEW r \in Readers, Stays(r), SameChoice(r), ChosenOK(r),
         rpc'[r] \in {"copy", "final_lo"} => rtodo'[r] = CopyWord
  PROVE  ChosenOK(r)'
  <1> DEFINE c == chosen[r]
  <1> SUFFICES ASSUME (c # None)', (c.hi # 0)', (c.lo # 0)'
               PROVE  (\E i, j \in 1 .. Len(hist) :
                        /\ ReadFrom(r, c.slot, i, j, c.hi, c.lo)
                        /\ StillIn(c.slot, j) =>
                             TimeFits(r, j) /\ (rpc[r] \in {"copy", "final_lo"} => CopiedSoFar(r, j)))'
    BY DEF ChosenOK
  <1>1. c' = c /\ UNCHANGED hist
    BY StayKeeps DEF SameChoice
  <1>2. PICK i \in 1 .. Len(hist), j \in 1 .. Len(hist) :
          /\ ReadFrom(r, c.slot, i, j, c.hi, c.lo)
          /\ StillIn(c.slot, j) => TimeFits(r, j)
    BY <1>1 DEF ChosenOK
  <1>3. ReadFrom(r, c.slot, i, j, c.hi, c.lo)'
    BY <1>1, <1>2, StayKeeps DEF ReadFrom
  <1>4. StillIn(c.slot, j)' => StillIn(c.slot, j)
    BY <1>1, StayKeeps DEF StillIn, IsLastIn
  <1>5. StillIn(c.slot, j)' => TimeFits(r, j)'
    BY <1>2, <1>4, ChoiceKeeps
  <1>6. (rpc[r] \in {"copy", "final_lo"} => CopiedSoFar(r, j))'
    BY DEF CopiedSoFar
  <1> QED BY <1>1, <1>3, <1>5, <1>6

LEMMA FitsKeep ==
  ASSUME NEW r \in Readers, Stays(r), SameChoice(r), ChosenFits(r),
         rpc'[r] \in {"copy", "final_lo", "final_hi"} =>
           rpc[r] \in {"copy", "final_lo", "final_hi"} \/ IsYounger(r)
  PROVE  ChosenFits(r)'
  <1>1. /\ Satisfies(r, ChosenTime(r))' <=> Satisfies(r, ChosenTime(r))
        /\ WantsLatest(r)' = WantsLatest(r) /\ IsYounger(r)' = IsYounger(r)
        /\ chosen'[r] = chosen[r]
    BY StayKeeps, ChoiceKeeps DEF SameChoice
  <1> QED BY <1>1 DEF ChosenFits

\* The walk stays where it is.
LEMMA WalkKeeps ==
  ASSUME NEW r \in Readers, Stays(r), slot'[r] = slot[r], WalkOK(r), rpc'[r] # "scan_lo"
  PROVE  WalkOK(r)'
  <1>1. /\ ByCommit(r)' = ByCommit(r) /\ first' = first /\ base'[r] = base[r]
        /\ start'[r] = start[r] /\ since'[r] = since[r]
        /\ \A n : Passed(r, n)' <=> Passed(r, n)
        /\ \A n : SlotNo(n)' = SlotNo(n)
    BY StayKeeps DEF Stays
  <1>2. \A n : WalkAt(r, n) => WalkAt(r, n)'
    BY <1>1 DEF WalkAt, SlotNo
  <1> QED BY <1>1, <1>2 DEF WalkOK

LEMMA CheckOK ==
  ASSUME TypeOK, NEW r \in Readers, ReaderAt(r), CheckSlot(r) \/ CheckDeleted(r)
  PROVE  ReaderAt(r)'
  <1>1. /\ Stays(r) /\ SameChoice(r) /\ slot'[r] = slot[r] /\ probe'[r] = probe[r]
        /\ rpc[r] \in {"check", "deleted"}
    BY DEF CheckSlot, CheckDeleted, Stays, SameChoice
  <1>2. \/ rpc'[r] \in {"deleted", "scan_hi"} /\ result'[r] = result[r]
        \/ rpc'[r] = "copy" /\ rtodo'[r] = CopyWord /\ result'[r] = result[r] /\ IsYounger(r)
        \/ rpc'[r] = "idle" /\ result'[r].status = "NOTFOUND"
    BY SMTT(30) DEF CheckSlot, CheckDeleted, NoFurtherBlock, BeginCopy, Return, TypeOK
  <1>3. /\ StartOK(r) /\ WalkOK(r) /\ ChosenOK(r) /\ ChosenFits(r) /\ base[r] <= first
        /\ since[r] <= cur /\ result[r].status = "none"
    BY <1>1 DEF ReaderAt, Scanning
  <1>4. /\ StartOK(r)' /\ base'[r] <= first' /\ since'[r] <= cur'
    BY <1>1, <1>3, StayKeeps DEF Stays
  <1>5. CASE rpc'[r] = "idle" /\ result'[r].status = "NOTFOUND"
    BY <1>4, <1>5 DEF ReaderAt, Scanning, Succeeded
  <1>6. CASE rpc'[r] \in {"deleted", "scan_hi", "copy"} /\ result'[r] = result[r]
    <2>1. WalkOK(r)'
      BY <1>1, <1>3, <1>6, WalkKeeps
    <2>2. ChosenOK(r)' /\ ChosenFits(r)'
      BY <1>1, <1>2, <1>3, <1>6, ChosenKeeps, FitsKeep
    <2> QED BY <1>3, <1>4, <1>6, <2>1, <2>2 DEF ReaderAt, Scanning, Succeeded
  <1> QED BY <1>2, <1>5, <1>6

LEMMA InRange ==
  ASSUME NEW b \in Nat, NEW l \in Nat, NEW q \in Int, q > b, q <= l
  PROVE  q \in b + 1 .. l /\ q \in 1 .. l
  OBVIOUS

LEMMA Before ==
  ASSUME NEW j \in Int, NEW f \in Nat, NEW s \in Nat, NEW l \in Nat, NEW n \in Int,
         j > f, s <= l, n >= 0, j <= s - n
  PROVE  s - n \in Int /\ s - n > f /\ s - n <= l
  OBVIOUS

LEMMA Overtaken ==
  ASSUME NEW j \in Int, NEW f \in Nat, NEW l \in Nat, NEW h \in Nat, j > f, l >= j + h - 1,
         NEW k \in l - h + 1 .. l - h + h
  PROVE  k \in Int /\ k >= j /\ k > f /\ k <= l
  OBVIOUS

LEMMA StillThere ==
  ASSUME NEW f \in Nat, NEW s \in Nat, NEW c \in Nat, NEW l \in Nat, NEW h \in Nat, NEW n \in Nat,
         s <= c, c <= l, s - n > f, l < s - n + h - 1
  PROVE  s - n \in Int /\ s - n > f /\ s - n <= c /\ s - n <= l /\ s - n > c + 1 - h
  OBVIOUS

\* The block that was last in the slot under examination is not too old: the blocks the
\* search has passed were overwritten, so that slots before them hold later ones.
LEMMA WalkSeesNewest ==
  ASSUME TypeOK, RingInv, NEW r \in Readers, StartOK(r), WalkOK(r), since[r] <= cur,
         base[r] <= first, NEW i, IsLastIn(slot[r], i)
  PROVE  NotTooOld(r, i)
  <1>1. /\ RingTypeOK /\ PlacesOK /\ cur \in Nat /\ first \in Nat /\ Len(hist) \in Nat
        /\ cur <= Len(hist) /\ HistorySize \in Nat /\ HistorySize > 0
        /\ since[r] \in Nat /\ base[r] \in Nat /\ since[r] <= Len(hist)
    BY RingNumbers, ReaderNumbers DEF RingInv
  <1>2. i \in 1 .. Len(hist) /\ i \in Int
    BY <1>1 DEF IsLastIn
  <1>3. start[r] >= 0 => since[r] > base[r] /\ start[r] = hist[since[r]].slot
    BY DEF StartOK
  <1>4. ASSUME WantsLatest(r), start[r] >= 0 PROVE i >= since[r]
    <2>1. since[r] \in 1 .. Len(hist) /\ hist[since[r]].slot = slot[r]
      BY <1>1, <1>3, <1>4 DEF StartOK
    <2> QED BY <1>1, <1>2, <2>1, LastIsLast
  <1>5. ASSUME ByCommit(r), first = base[r], NEW j \in base[r] + 1 .. since[r],
               Satisfies(r, hist[j].ts)
        PROVE  j <= i
    <2>0. j > first
      BY <1>1, <1>5
    <2>1. j \in Int /\ since[r] > base[r] /\ since[r] \in 1 .. Len(hist)
      BY <1>1
    <2>2. start[r] >= 0
      <3>1. hist[since[r]].slot \in Slot
        BY <1>1, <2>1, BlocksOfHistory
      <3> QED BY <2>1, <3>1 DEF StartOK, Slot
    <2>3. PICK n \in 0 .. HistorySize - 1 : WalkAt(r, n)
      BY <1>5, <2>2 DEF WalkOK
    <2>4. n \in Int /\ n >= 0 /\ slot[r] = SlotNo(since[r] - n) /\ Passed(r, n)
      BY <1>1, <2>3 DEF WalkAt
    <2>5. CASE j <= since[r] - n
      <3>0. since[r] - n \in Int /\ since[r] - n > first /\ since[r] - n <= Len(hist)
        BY <1>1, <2>0, <2>1, <2>4, <2>5, Before
      <3>1. since[r] - n \in first + 1 .. Len(hist) /\ since[r] - n \in 1 .. Len(hist)
        BY <1>1, <3>0, InRange
      <3>2. hist[since[r] - n].slot = slot[r]
        BY <1>1, <2>4, <3>1 DEF PlacesOK
      <3>3. since[r] - n <= i
        BY <1>1, <3>1, <3>2, LastIsLast
      <3> QED BY <1>1, <1>2, <2>1, <2>4, <2>5, <3>3
    <2>6. CASE j > since[r] - n
      <3>1. Len(hist) >= j + HistorySize - 1
        BY <1>5, <2>4, <2>6 DEF Passed
      <3> DEFINE m == Len(hist) - HistorySize
      <3>2. m \in Int /\ m + HistorySize = Len(hist) /\ slot[r] \in Slot
        BY <1>1, ReaderNumbers
      <3>3. PICK k \in m + 1 .. m + HistorySize : SlotNo(k) = slot[r]
        BY <1>1, <3>2, EverySlot
      <3>a. k \in Int /\ k >= j /\ k > first /\ k <= Len(hist)
        BY <1>1, <2>0, <2>1, <3>1, Overtaken
      <3>4. k \in first + 1 .. Len(hist) /\ k \in 1 .. Len(hist) /\ k >= j /\ k \in Int
        BY <1>1, <3>a, InRange
      <3>5. hist[k].slot = slot[r]
        BY <1>1, <3>3, <3>4 DEF PlacesOK
      <3>6. k <= i
        BY <1>1, <3>4, <3>5, LastIsLast
      <3> QED BY <1>2, <2>1, <3>4, <3>6
    <2>7. since[r] - n \in Int
      BY <1>1, <2>4
    <2> QED BY <2>1, <2>5, <2>6, <2>7
  <1> QED BY <1>4, <1>5 DEF NotTooOld

\* A block of the walk that is not overwritten yet is whole in its slot.
LEMMA WalkIsWhole ==
  ASSUME TypeOK, RingInv, NEW r \in Readers, since[r] <= cur, first = base[r],
         NEW n \in Nat, since[r] - n > base[r], Len(hist) < since[r] - n + HistorySize - 1
  PROVE  IsWhole(SlotNo(since[r] - n), hist[since[r] - n]) /\ since[r] - n \in 1 .. Len(hist)
  <1>1. /\ RingTypeOK /\ KeptOK /\ cur \in Nat /\ first \in Nat /\ Len(hist) \in Nat
        /\ cur <= Len(hist) /\ HistorySize \in Nat /\ HistorySize > 0
        /\ since[r] \in Nat /\ base[r] \in Nat /\ since[r] <= Len(hist)
    BY RingNumbers, ReaderNumbers DEF RingInv
  <1> DEFINE q == since[r] - n
  <1>a. q \in Int /\ q > first /\ q <= cur /\ q <= Len(hist) /\ q > cur + 1 - HistorySize
    BY <1>1, StillThere
  <1>2. q \in first + 1 .. cur /\ q > cur + 1 - HistorySize /\ q \in 1 .. Len(hist)
    BY <1>1, <1>a, InRange
  <1> HIDE DEF q
  <1>3. IsWhole(SlotNo(q), hist[q])
    BY <1>1, <1>2 DEF KeptOK
  <1> QED BY <1>2, <1>3 DEF q

LEMMA ScanHighOK ==
  ASSUME TypeOK, RingInv, NEW r \in Readers, ReaderAt(r), ScanHigh(r)
  PROVE  ReaderAt(r)'
  <1>1. /\ Stays(r) /\ SameChoice(r) /\ slot'[r] = slot[r] /\ rpc[r] = "scan_hi"
        /\ rpc'[r] = "scan_lo" /\ result'[r] = result[r]
        /\ probe'[r].hi = ring[slot[r]]["hi"]
    BY DEF ScanHigh, Stays, SameChoice, TypeOK
  <1>2. /\ StartOK(r) /\ WalkOK(r) /\ ChosenOK(r) /\ ChosenFits(r) /\ base[r] <= first
        /\ since[r] <= cur /\ result[r].status = "none" /\ slot[r] \in Slot
    BY <1>1, ReaderNumbers DEF ReaderAt, Scanning
  <1>3. /\ StartOK(r)' /\ base'[r] <= first' /\ since'[r] <= cur' /\ UNCHANGED hist
    BY <1>1, <1>2, StayKeeps DEF Stays
  <1>4. ChosenOK(r)' /\ ChosenFits(r)'
    BY <1>1, <1>2, ChosenKeeps, FitsKeep
  <1>5. HighRead(r)'
    <2>1. StampAt(slot[r])
      BY <1>2 DEF RingInv, StampsOK
    <2>2. ASSUME probe'[r].hi # 0
          PROVE  \E i \in 1 .. Len(hist) : hist[i].slot = slot[r] /\ Hi(hist[i].ts) = probe'[r].hi
                                             /\ NotTooOld(r, i)
      <3>1. PICK i \in 1 .. Len(hist) :
              IsLastIn(slot[r], i) /\ ring[slot[r]]["hi"] \in {0, Hi(hist[i].ts)}
        BY <1>1, <2>1, <2>2 DEF StampAt
      <3>2. NotTooOld(r, i)
        BY <1>2, <3>1, WalkSeesNewest
      <3> QED BY <1>1, <2>2, <3>1, <3>2 DEF IsLastIn
    <2> QED BY <1>1, <1>3, <2>2, StayKeeps DEF HighRead
  <1>6. WalkOK(r)'
    <2>1. /\ ByCommit(r)' = ByCommit(r) /\ first' = first /\ base'[r] = base[r]
          /\ start'[r] = start[r] /\ since'[r] = since[r]
          /\ \A n : Passed(r, n)' <=> Passed(r, n)
          /\ \A n : SlotNo(n)' = SlotNo(n)
      BY <1>1, StayKeeps DEF Stays
    <2>2. ASSUME NEW n \in 0 .. HistorySize - 1, WalkAt(r, n), first = base[r]
          PROVE  WalkAt(r, n)'
      <3>1. n \in Nat /\ slot[r] = SlotNo(since[r] - n) /\ Passed(r, n)
        BY <2>2, ConstantsAssumption DEF WalkAt
      <3>2. SeenHigh(r, n)'
        <4>1. ASSUME since[r] - n > base[r], Len(hist) < since[r] - n + HistorySize - 1
              PROVE  probe'[r].hi = Hi(hist[since[r] - n].ts)
          BY <1>1, <1>2, <2>2, <3>1, <4>1, WalkIsWhole DEF IsWhole
        <4> QED BY <1>3, <2>1, <4>1 DEF SeenHigh
      <3> QED BY <1>1, <2>1, <3>1, <3>2 DEF WalkAt, SlotNo
    <2> QED BY <1>2, <2>1, <2>2 DEF WalkOK
  <1> QED BY <1>1, <1>2, <1>3, <1>4, <1>5, <1>6 DEF ReaderAt, Scanning, Succeeded

\* The search decides on the block whose times it has read.
LEMMA DecideOK ==
  ASSUME TypeOK, NEW r \in Readers, Stays(r), buf'[r] = buf[r], final'[r] = final[r],
         NEW p \in [hi : Nat, lo : Nat, data_ts : Nat],
         NEW time \in Nat, time = IF IsData(r) THEN p.data_ts ELSE Stamp(p.hi, p.lo),
         rpc[r] \in {"scan_lo", "scan_data"}, result[r].status = "none",
         StartOK(r), ChosenOK(r), ChosenFits(r), base[r] <= first, since[r] <= cur,
         p.hi # 0 /\ p.lo # 0 =>
           \E i, j \in 1 .. Len(hist) :
             /\ ReadFrom(r, slot[r], i, j, p.hi, p.lo)
             /\ IsData(r) /\ StillIn(slot[r], j) => p.data_ts = DataTs(hist[j]),
         Decide(r, p, time), rpc'[r] = "check" => WalkOK(r)'
  PROVE  ReaderAt(r)'
  <1> DEFINE here == [slot |-> slot[r], hi |-> p.hi, lo |-> p.lo, data_ts |-> p.data_ts]
  <1>1. /\ base'[r] <= first' /\ since'[r] <= cur' /\ UNCHANGED hist
        /\ IsData(r)' = IsData(r) /\ IsYounger(r)' = IsYounger(r)
        /\ WantsLatest(r)' = WantsLatest(r) /\ req'[r] = req[r]
    BY StayKeeps DEF Stays
  <1>2. /\ rpc'[r] \in {"check", "copy", "idle"}
        /\ rpc'[r] = "idle" => result'[r].status = "NOTFOUND"
        /\ rpc'[r] # "idle" => result'[r] = result[r]
        /\ rpc'[r] = "check" => Passes(r, time)
        /\ rpc'[r] = "copy" => rtodo'[r] = CopyWord
        /\ slot'[r] # slot[r] => Passes(r, time)
        /\ rpc'[r] # "idle" => \/ chosen'[r] = here /\ (IsYounger(r) <=> Passes(r, time))
                               \/ chosen'[r] = here /\ rpc'[r] = "check"
                               \/ chosen'[r] = chosen[r] /\ rpc'[r] = "copy" /\ IsYounger(r)
    <2> DEFINE before == (slot[r] - 1 + HistorySize) % HistorySize
    <2>1. /\ rpc \in [Readers -> ReaderPc] /\ DOMAIN slot = Readers /\ DOMAIN chosen = Readers
          /\ DOMAIN rtodo = Readers /\ DOMAIN result = Readers /\ DOMAIN rpc = Readers
      BY DEF TypeOK
    <2>2. BeginCopy(r) => rpc'[r] = "copy" /\ rtodo'[r] = CopyWord
      BY <2>1 DEF BeginCopy
    <2>3. Return(r, "NOTFOUND", 0, 0) => rpc'[r] = "idle" /\ result'[r].status = "NOTFOUND"
      BY <2>1 DEF Return
    <2>4. rpc' = [rpc EXCEPT ![r] = "check"] => rpc'[r] = "check"
      BY <2>1
    <2>5. CASE Passes(r, time)
      <3>1. /\ slot' = [slot EXCEPT ![r] = before]
            /\ chosen' = [chosen EXCEPT ![r] = here]
            /\ \/ rpc' = [rpc EXCEPT ![r] = "check"] /\ UNCHANGED result
               \/ IsYounger(r) /\ BeginCopy(r) /\ UNCHANGED result
               \/ Return(r, "NOTFOUND", 0, 0)
        BY <2>5 DEF Decide
      <3>2. chosen'[r] = here
        BY <2>1, <3>1
      <3> HIDE DEF here, before
      <3> QED BY <2>2, <2>3, <2>4, <2>5, <3>1, <3>2
    <2>6. CASE ~Passes(r, time)
      <3>1. /\ slot' = slot
            /\ \/ /\ IsYounger(r) /\ chosen' = chosen
                  /\ Return(r, "NOTFOUND", 0, 0) \/ (BeginCopy(r) /\ UNCHANGED result)
               \/ /\ ~IsYounger(r) /\ chosen' = [chosen EXCEPT ![r] = here]
                  /\ BeginCopy(r) /\ UNCHANGED result
        BY <2>6 DEF Decide
      <3>2. chosen' = [chosen EXCEPT ![r] = here] => chosen'[r] = here
        BY <2>1
      <3> HIDE DEF here, before
      <3> QED BY <2>2, <2>3, <2>6, <3>1, <3>2
    <2> QED BY <2>5, <2>6
  <1>3. Passes(r, time) => ~WantsLatest(r)
    BY DEF Passes, WantsLatest
  <1>4. ~WantsLatest(r) /\ (IsYounger(r) <=> Passes(r, time)) => Satisfies(r, time)
    <2>1. req[r].ts \in Nat /\ req[r].mode \in Mode
      BY DEF TypeOK, Request
    <2> QED BY <2>1 DEF Passes, Satisfies, IsYounger, Mode
  <1>5. IsYounger(r) /\ Passes(r, time) => Satisfies(r, time)
    BY DEF Passes, Satisfies, IsYounger
  <1>6. StartOK(r)'
    BY <1>2, <1>3, StayKeeps
  <1>7. ASSUME chosen'[r] = here, rpc'[r] \in {"check", "copy"}
        PROVE  ChosenOK(r)'
    <2>1. /\ here.slot = slot[r] /\ here.hi = p.hi /\ here.lo = p.lo /\ here.data_ts = p.data_ts
      OBVIOUS
    <2> HIDE DEF here
    <2>2. ASSUME here.hi # 0, here.lo # 0
          PROVE  \E i, j \in 1 .. Len(hist) :
                   /\ ReadFrom(r, here.slot, i, j, here.hi, here.lo)
                   /\ StillIn(here.slot, j) /\ IsData(r) => here.data_ts = DataTs(hist[j])
      BY <2>1, <2>2
    <2>3. ASSUME (chosen[r].hi # 0)', (chosen[r].lo # 0)'
          PROVE  (\E i, j \in 1 .. Len(hist) :
                   /\ ReadFrom(r, chosen[r].slot, i, j, chosen[r].hi, chosen[r].lo)
                   /\ StillIn(chosen[r].slot, j) =>
                       TimeFits(r, j) /\ (rpc[r] \in {"copy", "final_lo"} => CopiedSoFar(r, j)))'
      <3>1. PICK i \in 1 .. Len(hist), j \in 1 .. Len(hist) :
              /\ ReadFrom(r, here.slot, i, j, here.hi, here.lo)
              /\ StillIn(here.slot, j) /\ IsData(r) => here.data_ts = DataTs(hist[j])
        BY <1>7, <2>2, <2>3
      <3>3. ReadFrom(r, chosen[r].slot, i, j, chosen[r].hi, chosen[r].lo)'
        BY <1>1, <1>7, <3>1, StayKeeps DEF ReadFrom
      <3>4. (StillIn(chosen[r].slot, j) => TimeFits(r, j))'
        <4>1. StillIn(chosen[r].slot, j)' => StillIn(here.slot, j)
          BY <1>7, StayKeeps DEF StillIn, IsLastIn
        <4> QED BY <1>1, <1>7, <3>1, <4>1 DEF TimeFits
      <3>5. (rpc[r] \in {"copy", "final_lo"} => CopiedSoFar(r, j))'
        BY <1>2, <1>7 DEF CopiedSoFar
      <3> QED BY <1>1, <3>3, <3>4, <3>5
    <2> QED BY <2>3 DEF ChosenOK
  <1>8. ASSUME chosen'[r] = here, rpc'[r] = "check" \/ (IsYounger(r) <=> Passes(r, time))
        PROVE  ChosenFits(r)'
    <2>1. ChosenTime(r)' = time
      BY <1>1, <1>8 DEF ChosenTime
    <2>2. Satisfies(r, time) => Satisfies(r, ChosenTime(r))'
      BY <1>1, <2>1 DEF Satisfies
    <2>3. ~WantsLatest(r) /\ (rpc'[r] = "copy" \/ IsYounger(r)) => Satisfies(r, time)
      BY <1>2, <1>4, <1>5, <1>8
    <2>4. rpc'[r] \in {"copy", "final_lo", "final_hi"} => rpc'[r] = "copy"
      BY <1>2
    <2>5. (~WantsLatest(r) /\ (rpc[r] \in {"copy", "final_lo", "final_hi"} \/ IsYounger(r)))'
            => Satisfies(r, ChosenTime(r))'
      BY <1>1, <2>2, <2>3, <2>4
    <2> QED BY <2>5 DEF ChosenFits
  <1>9. CASE rpc'[r] = "idle"
    BY <1>1, <1>2, <1>9 DEF ReaderAt, Scanning, Succeeded
  <1>10. CASE rpc'[r] \in {"check", "copy"} /\ chosen'[r] = chosen[r] /\ rpc'[r] = "copy" /\ IsYounger(r)
    <2>1. ChosenOK(r)' /\ ChosenFits(r)'
      BY <1>2, <1>10, ChosenKeeps, FitsKeep DEF SameChoice
    <2> QED BY <1>1, <1>2, <1>6, <1>10, <2>1 DEF ReaderAt, Scanning, Succeeded
  <1>11. CASE /\ rpc'[r] \in {"check", "copy"} /\ chosen'[r] = here
              /\ rpc'[r] = "check" \/ (IsYounger(r) <=> Passes(r, time))
    BY <1>1, <1>2, <1>6, <1>7, <1>8, <1>11 DEF ReaderAt, Scanning, Succeeded
  <1> QED BY <1>2, <1>9, <1>10, <1>11

\* Both words of a commit time have been read from a slot.
LEMMA LowRead ==
  ASSUME TypeOK, RingInv, NEW r \in Readers, HighRead(r), NEW p,
         p.hi = probe[r].hi, p.lo = ring[slot[r]]["lo"]
  PROVE  p.hi # 0 /\ p.lo # 0 =>
           \E i, j \in 1 .. Len(hist) : ReadFrom(r, slot[r], i, j, p.hi, p.lo)
  <1> SUFFICES ASSUME p.hi # 0, p.lo # 0
               PROVE  \E i, j \in 1 .. Len(hist) : ReadFrom(r, slot[r], i, j, p.hi, p.lo)
    OBVIOUS
  <1>1. PICK i \in 1 .. Len(hist) :
          hist[i].slot = slot[r] /\ Hi(hist[i].ts) = probe[r].hi /\ NotTooOld(r, i)
    BY DEF HighRead
  <1>2. RingTypeOK /\ StampAt(slot[r])
    BY ReaderNumbers DEF RingInv, StampsOK
  <1>3. PICK j \in 1 .. Len(hist) : IsLastIn(slot[r], j) /\ ring[slot[r]]["lo"] = Lo(hist[j].ts)
    BY <1>2 DEF StampAt
  <1>4. i <= j /\ hist[j].slot = slot[r]
    BY <1>1, <1>2, <1>3, LastIsLast DEF IsLastIn
  <1> QED BY <1>1, <1>3, <1>4 DEF ReadFrom

LEMMA StepBack ==
  ASSUME NEW n \in 0 .. HistorySize - 1, n # HistorySize - 1
  PROVE  n + 1 \in 0 .. HistorySize - 1
  BY ConstantsAssumption

LEMMA OneMore ==
  ASSUME NEW s \in Nat, NEW n \in Nat
  PROVE  /\ s - n \in Int /\ s - n - 1 = s - (n + 1)
         /\ \A j \in Int : j > s - (n + 1) => j > s - n \/ j = s - n
         /\ \A l, h \in Nat : l < s - n + h - 1 \/ l >= s - n + h - 1
  OBVIOUS

SlotBefore(s) == (s - 1 + HistorySize) % HistorySize

\* The walk goes on to the slot before: the block it leaves was overwritten, or its time
\* was the one that was passed.
LEMMA WalkGoesOn ==
  ASSUME TypeOK, RingInv, NEW r \in Readers, Stays(r), StartOK(r), WalkOK(r), since[r] <= cur,
         base[r] <= first, rpc[r] = "scan_lo", rpc'[r] = "check",
         Passes(r, Stamp(probe[r].hi, ring[slot[r]]["lo"])),
         slot'[r] = SlotBefore(slot[r]), slot'[r] # start[r]
  PROVE  WalkOK(r)'
  <1>1. /\ RingTypeOK /\ PlacesOK /\ cur \in Nat /\ first \in Nat /\ Len(hist) \in Nat
        /\ cur <= Len(hist) /\ HistorySize \in Nat /\ HistorySize > 0
        /\ since[r] \in Nat /\ base[r] \in Nat /\ since[r] <= Len(hist)
    BY RingNumbers, ReaderNumbers DEF RingInv
  <1>2. /\ ByCommit(r)' = ByCommit(r) /\ first' = first /\ base'[r] = base[r]
        /\ start'[r] = start[r] /\ since'[r] = since[r]
        /\ \A n : Passed(r, n)' <=> Passed(r, n)
        /\ \A n : SlotNo(n)' = SlotNo(n)
    BY StayKeeps DEF Stays
  <1>3. ASSUME ByCommit(r), first = base[r], start[r] >= 0
        PROVE  \E m \in 0 .. HistorySize - 1 : slot'[r] = SlotNo(since[r] - m) /\ Passed(r, m)
    <2>1. PICK n \in 0 .. HistorySize - 1 : WalkAt(r, n)
      BY <1>3 DEF WalkOK
    <2>2. n \in Nat /\ slot[r] = SlotNo(since[r] - n) /\ Passed(r, n) /\ SeenHigh(r, n)
      BY <1>1, <2>1 DEF WalkAt
    <2>3. /\ since[r] - n \in Int /\ since[r] - n - 1 = since[r] - (n + 1)
          /\ \A j \in Int : j > since[r] - (n + 1) => j > since[r] - n \/ j = since[r] - n
          /\ \A l, h \in Nat : l < since[r] - n + h - 1 \/ l >= since[r] - n + h - 1
      BY <1>1, <2>2, OneMore
    <2>4. slot'[r] = SlotNo(since[r] - (n + 1))
      BY <1>1, <2>2, <2>3, SlotsOfBlocks DEF SlotBefore
    <2>5. n # HistorySize - 1
      <3> SUFFICES ASSUME n = HistorySize - 1 PROVE FALSE
        OBVIOUS
      <3>1. since[r] - (n + 1) = since[r] - HistorySize /\ since[r] \in Int
        BY <1>1
      <3>2. slot'[r] = SlotNo(since[r])
        BY <1>1, <2>4, <3>1, SlotAgain
      <3>3. since[r] > base[r] /\ start[r] = hist[since[r]].slot
        BY <1>3 DEF StartOK
      <3>4. since[r] \in first + 1 .. Len(hist)
        BY <1>1, <1>3, <3>1, <3>3, InRange
      <3>5. start[r] = SlotNo(since[r])
        BY <1>1, <3>3, <3>4 DEF PlacesOK
      <3> QED BY <3>2, <3>5
    <2>6. ASSUME NEW j \in base[r] + 1 .. since[r], j > since[r] - (n + 1), Satisfies(r, hist[j].ts)
          PROVE  Len(hist) >= j + HistorySize - 1
      <3>1. CASE j > since[r] - n
        BY <2>2, <2>6, <3>1 DEF Passed
      <3>2. CASE j = since[r] - n
        <4>0. Len(hist) < j + HistorySize - 1 \/ Len(hist) >= j + HistorySize - 1
          BY <1>1, <2>3, <3>2
        <4>1. SUFFICES ASSUME Len(hist) < j + HistorySize - 1 PROVE FALSE
          BY <4>0
        <4>2. j > base[r]
          BY <1>1
        <4>3. IsWhole(slot[r], hist[j]) /\ j \in 1 .. Len(hist)
          BY <1>3, <2>2, <3>2, <4>1, <4>2, WalkIsWhole
        <4>4. probe[r].hi = Hi(hist[j].ts) /\ ring[slot[r]]["lo"] = Lo(hist[j].ts)
          BY <2>2, <3>2, <4>1, <4>2, <4>3 DEF SeenHigh, IsWhole
        <4>5. hist[j].ts \in Nat
          BY <1>1, <4>3, BlocksOfHistory
        <4>6. Stamp(probe[r].hi, ring[slot[r]]["lo"]) = hist[j].ts
          <5>1. /\ hist[j].ts = LowBase * Hi(hist[j].ts) + Lo(hist[j].ts)
                /\ Hi(hist[j].ts) \in Nat /\ Lo(hist[j].ts) \in Nat
            BY <4>5, StampWords
          <5> QED BY <4>4, <5>1, ConstantsAssumption DEF Stamp
        <4>7. Passes(r, hist[j].ts) /\ Satisfies(r, hist[j].ts)
          BY <2>6, <4>6
        <4>8. req[r].mode \in {"last", "older"} /\ req[r].ts \in Nat
          BY <1>3 DEF ByCommit, TypeOK, Request
        <4> QED BY <4>5, <4>7, <4>8 DEF Passes, Satisfies
      <3>3. j \in Int
        BY <1>1
      <3> QED BY <2>3, <2>6, <3>1, <3>2, <3>3
    <2>7. Passed(r, n + 1)
      BY <2>6 DEF Passed
    <2> QED BY <2>4, <2>5, <2>7, StepBack
  <1>4. ASSUME NEW m \in 0 .. HistorySize - 1, slot'[r] = SlotNo(since[r] - m), Passed(r, m)
        PROVE  WalkAt(r, m)'
    BY <1>2, <1>4 DEF WalkAt, SlotNo
  <1> QED BY <1>2, <1>3, <1>4 DEF WalkOK

LEMMA DecideGoesOn ==
  ASSUME TypeOK, NEW r \in Readers, NEW p, NEW time, Decide(r, p, time), rpc'[r] = "check"
  PROVE  Passes(r, time) /\ slot'[r] = SlotBefore(slot[r]) /\ slot'[r] # start[r]
  <1> DEFINE here == [slot |-> slot[r], hi |-> p.hi, lo |-> p.lo, data_ts |-> p.data_ts]
             before == SlotBefore(slot[r])
  <1>1. DOMAIN slot = Readers /\ DOMAIN rpc = Readers
    BY DEF TypeOK
  <1>2. ~BeginCopy(r)
    BY <1>1 DEF BeginCopy
  <1>3. ~Return(r, "NOTFOUND", 0, 0)
    BY <1>1 DEF Return
  <1>4. Passes(r, time) /\ slot' = [slot EXCEPT ![r] = before] /\ ~BackAtStart(r, before)
    BY <1>2, <1>3 DEF Decide, SlotBefore
  <1> HIDE DEF before
  <1>5. slot'[r] = before
    BY <1>1, <1>4
  <1> QED BY <1>4, <1>5 DEF BackAtStart, before

LEMMA ScanLowOK ==
  ASSUME TypeOK, RingInv, NEW r \in Readers, ReaderAt(r), ScanLow(r)
  PROVE  ReaderAt(r)'
  <1> DEFINE p == [probe[r] EXCEPT !.lo = ring[slot[r]]["lo"]]
  <1>0. /\ probe[r] \in [hi : Nat, lo : Nat, data_ts : Nat] /\ slot[r] \in Slot
        /\ ring \in [Slot -> [Word -> Nat]] /\ "lo" \in Word
    BY ReaderNumbers DEF RingInv, RingTypeOK, Word
  <1>1. /\ p \in [hi : Nat, lo : Nat, data_ts : Nat]
        /\ p.hi = probe[r].hi /\ p.lo = ring[slot[r]]["lo"] /\ p.hi \in Nat /\ p.lo \in Nat
    BY <1>0
  <1>2. /\ Stays(r) /\ final'[r] = final[r] /\ buf'[r] = buf[r] /\ rpc[r] = "scan_lo"
        /\ probe'[r] = p
        /\ IF IsData(r) THEN /\ rpc' = [rpc EXCEPT ![r] = "scan_data"]
                             /\ UNCHANGED <<slot, chosen, rtodo, result>>
                        ELSE Decide(r, p, Stamp(p.hi, p.lo))
    BY DEF ScanLow, Stays, TypeOK
  <1> HIDE DEF p
  <1>3. /\ StartOK(r) /\ WalkOK(r) /\ ChosenOK(r) /\ ChosenFits(r) /\ base[r] <= first
        /\ since[r] <= cur /\ result[r].status = "none" /\ HighRead(r)
    BY <1>2 DEF ReaderAt, Scanning
  <1>4. p.hi # 0 /\ p.lo # 0 => \E i, j \in 1 .. Len(hist) : ReadFrom(r, slot[r], i, j, p.hi, p.lo)
    BY <1>1, <1>3, LowRead
  <1>5. CASE IsData(r)
    <2>1. /\ SameChoice(r) /\ slot'[r] = slot[r] /\ rpc'[r] = "scan_data" /\ result'[r] = result[r]
      BY <1>2, <1>5 DEF SameChoice, TypeOK
    <2>2. /\ StartOK(r)' /\ base'[r] <= first' /\ since'[r] <= cur' /\ UNCHANGED hist /\ IsData(r)'
      BY <1>2, <1>3, <1>5, <2>1, StayKeeps DEF Stays
    <2>3. ChosenOK(r)' /\ ChosenFits(r)'
      BY <1>2, <1>3, <2>1, ChosenKeeps, FitsKeep
    <2>4. PairRead(r, probe[r])'
      <3> SUFFICES ASSUME p.hi # 0, p.lo # 0
                   PROVE  (\E i, j \in 1 .. Len(hist) :
                             ReadFrom(r, slot[r], i, j, probe[r].hi, probe[r].lo))'
        BY <1>2 DEF PairRead
      <3>1. PICK i \in 1 .. Len(hist), j \in 1 .. Len(hist) : ReadFrom(r, slot[r], i, j, p.hi, p.lo)
        BY <1>4
      <3>2. ReadFrom(r, slot[r], i, j, probe[r].hi, probe[r].lo)'
        BY <1>2, <2>1, <2>2, <3>1, StayKeeps DEF ReadFrom
      <3> QED BY <2>2, <3>2
    <2> QED BY <1>3, <2>1, <2>2, <2>3, <2>4 DEF ReaderAt, Scanning, Succeeded
  <1>6. CASE ~IsData(r)
    <2> DEFINE time == Stamp(p.hi, p.lo)
    <2>1. time \in Nat /\ Decide(r, p, time)
      BY <1>1, <1>2, <1>6, StampIsNat
    <2>2. time = IF IsData(r) THEN p.data_ts ELSE Stamp(p.hi, p.lo)
      BY <1>6
    <2>3. rpc'[r] = "check" => WalkOK(r)'
      <3> SUFFICES ASSUME rpc'[r] = "check" PROVE WalkOK(r)'
        OBVIOUS
      <3>1. Passes(r, time) /\ slot'[r] = SlotBefore(slot[r]) /\ slot'[r] # start[r]
        BY <2>1, DecideGoesOn
      <3>2. Passes(r, Stamp(probe[r].hi, ring[slot[r]]["lo"]))
        BY <1>1, <3>1
      <3> QED BY <1>2, <1>3, <3>1, <3>2, WalkGoesOn
    <2>4. p.hi # 0 /\ p.lo # 0 =>
            \E i, j \in 1 .. Len(hist) :
              /\ ReadFrom(r, slot[r], i, j, p.hi, p.lo)
              /\ IsData(r) /\ StillIn(slot[r], j) => p.data_ts = DataTs(hist[j])
      BY <1>4, <1>6
    <2> HIDE DEF time
    <2> QED BY <1>1, <1>2, <1>3, <2>1, <2>2, <2>3, <2>4, DecideOK
  <1> QED BY <1>5, <1>6

LEMMA ScanDataOK ==
  ASSUME TypeOK, RingInv, NEW r \in Readers, ReaderAt(r), ScanData(r)
  PROVE  ReaderAt(r)'
  <1> DEFINE p == [probe[r] EXCEPT !.data_ts = ring[slot[r]]["data_ts"]]
  <1>0. /\ probe[r] \in [hi : Nat, lo : Nat, data_ts : Nat] /\ slot[r] \in Slot
        /\ ring \in [Slot -> [Word -> Nat]] /\ "data_ts" \in Word /\ "data_ts" \in CopyWord
    BY ReaderNumbers DEF RingInv, RingTypeOK, Word, CopyWord
  <1>1. /\ p \in [hi : Nat, lo : Nat, data_ts : Nat]
        /\ p.hi = probe[r].hi /\ p.lo = probe[r].lo /\ p.data_ts = ring[slot[r]]["data_ts"]
        /\ p.data_ts \in Nat
    BY <1>0
  <1>2. /\ Stays(r) /\ final'[r] = final[r] /\ buf'[r] = buf[r] /\ rpc[r] = "scan_data"
        /\ Decide(r, p, p.data_ts)
    BY DEF ScanData, Stays
  <1> HIDE DEF p
  <1>3. /\ StartOK(r) /\ ChosenOK(r) /\ ChosenFits(r) /\ base[r] <= first
        /\ since[r] <= cur /\ result[r].status = "none" /\ PairRead(r, probe[r]) /\ IsData(r)
    BY <1>2 DEF ReaderAt, Scanning
  <1>4. ASSUME NEW j, StillIn(slot[r], j)
        PROVE  p.data_ts = DataTs(hist[j])
    BY <1>0, <1>1, <1>4, StillHasWords DEF HasWords, Contents
  <1>5. p.hi # 0 /\ p.lo # 0 =>
          \E i, j \in 1 .. Len(hist) :
            /\ ReadFrom(r, slot[r], i, j, p.hi, p.lo)
            /\ IsData(r) /\ StillIn(slot[r], j) => p.data_ts = DataTs(hist[j])
    BY <1>1, <1>3, <1>4 DEF PairRead
  <1>6. rpc'[r] = "check" => WalkOK(r)'
    <2>1. ~ByCommit(r)'
      BY <1>2, <1>3, StayKeeps DEF ByCommit, IsData
    <2> QED BY <2>1 DEF WalkOK
  <1> DEFINE time == p.data_ts
  <1>7. time \in Nat /\ Decide(r, p, time) /\ time = IF IsData(r) THEN p.data_ts ELSE Stamp(p.hi, p.lo)
    BY <1>1, <1>2, <1>3
  <1> HIDE DEF time
  <1> QED BY <1>1, <1>2, <1>3, <1>5, <1>6, <1>7, DecideOK

LEMMA CopyOutOK ==
  ASSUME TypeOK, HasCandidate, RingInv, NEW r \in Readers, ReaderAt(r), CopyOut(r)
  PROVE  ReaderAt(r)'
  <1> DEFINE c == chosen[r]
  <1>1. /\ Stays(r) /\ chosen'[r] = c /\ final'[r] = final[r] /\ slot'[r] = slot[r]
        /\ result'[r] = result[r] /\ rpc[r] = "copy"
    BY DEF CopyOut, Stays
  <1>2. PICK w \in rtodo[r] :
          /\ rtodo' = [rtodo EXCEPT ![r] = @ \ {w}]
          /\ buf' = [buf EXCEPT ![r][w] = ring[c.slot][w]]
          /\ rpc' = [rpc EXCEPT ![r] = IF rtodo[r] = {w} THEN "final_lo" ELSE @]
    BY DEF CopyOut
  <1>3. /\ w \in CopyWord /\ rtodo[r] \subseteq CopyWord /\ rtodo'[r] = rtodo[r] \ {w}
        /\ rpc'[r] \in {"copy", "final_lo"} /\ (rpc'[r] = "final_lo" => rtodo'[r] = {})
        /\ buf'[r][w] = ring[c.slot][w] /\ \A x \in CopyWord : x # w => buf'[r][x] = buf[r][x]
    BY <1>1, <1>2 DEF TypeOK
  <1>4. c.slot \in Slot
    BY <1>1 DEF HasCandidate
  <1>5. /\ StartOK(r) /\ ChosenOK(r) /\ ChosenFits(r) /\ base[r] <= first
        /\ since[r] <= cur /\ result[r].status = "none"
    BY <1>1 DEF ReaderAt, Scanning
  <1>6. /\ StartOK(r)' /\ base'[r] <= first' /\ since'[r] <= cur' /\ UNCHANGED hist
        /\ IsData(r)' = IsData(r) /\ WantsLatest(r)' = WantsLatest(r) /\ req'[r] = req[r]
        /\ IsYounger(r)' = IsYounger(r)
    BY <1>1, <1>5, StayKeeps DEF Stays
  <1>7. ChosenFits(r)'
    <2>1. ChosenTime(r)' = ChosenTime(r)
      BY <1>1, <1>6 DEF ChosenTime
    <2>2. Satisfies(r, ChosenTime(r)) => Satisfies(r, ChosenTime(r))'
      BY <1>6, <2>1 DEF Satisfies
    <2> QED BY <1>1, <1>5, <1>6, <2>2 DEF ChosenFits
  <1>8. ChosenOK(r)'
    <2> SUFFICES ASSUME (c # None)', (c.hi # 0)', (c.lo # 0)'
                 PROVE  (\E i, j \in 1 .. Len(hist) :
                          /\ ReadFrom(r, c.slot, i, j, c.hi, c.lo)
                          /\ StillIn(c.slot, j) =>
                               TimeFits(r, j) /\ (rpc[r] \in {"copy", "final_lo"} => CopiedSoFar(r, j)))'
      BY DEF ChosenOK
    <2>1. PICK i \in 1 .. Len(hist), j \in 1 .. Len(hist) :
            /\ ReadFrom(r, c.slot, i, j, c.hi, c.lo)
            /\ StillIn(c.slot, j) => TimeFits(r, j) /\ CopiedSoFar(r, j)
      BY <1>1, <1>5 DEF ChosenOK
    <2>2. ReadFrom(r, c.slot, i, j, c.hi, c.lo)'
      BY <1>1, <2>1, StayKeeps DEF ReadFrom
    <2>3. StillIn(c.slot, j)' => StillIn(c.slot, j)
      BY SMTT(30), <1>1, StayKeeps DEF StillIn, IsLastIn
    <2>4. TimeFits(r, j) => TimeFits(r, j)'
      BY <1>1, <1>6 DEF TimeFits
    <2>5. ASSUME StillIn(c.slot, j) PROVE CopiedSoFar(r, j)'
      <3>1. HasWords(c.slot, hist[j])
        BY <1>4, <2>5, StillHasWords
      <3>2. ASSUME NEW x \in CopyWord, x \notin rtodo'[r] PROVE buf'[r][x] = Contents(hist[j], x)
        <4>1. CASE x = w
          BY <1>3, <3>1, <4>1 DEF HasWords
        <4>2. CASE x # w
          BY <1>3, <2>1, <2>5, <3>2, <4>2 DEF CopiedSoFar
        <4> QED BY <4>1, <4>2
      <3>3. \A x \in CopyWord \ rtodo'[r] : buf'[r][x] = Contents(hist[j], x)
        BY <3>2
      <3> QED BY <1>6, <3>3 DEF CopiedSoFar, Contents, DataTs
    <2> QED BY <1>6, <2>1, <2>2, <2>3, <2>4, <2>5
  <1> QED BY <1>1, <1>3, <1>5, <1>6, <1>7, <1>8 DEF ReaderAt, Scanning, Succeeded

LEMMA FinalLowOK ==
  ASSUME TypeOK, HasCandidate, RingInv, NEW r \in Readers, ReaderAt(r), FinalLow(r)
  PROVE  ReaderAt(r)'
  <1> DEFINE c == chosen[r]
  <1>1. /\ Stays(r) /\ chosen'[r] = c /\ buf'[r] = buf[r] /\ slot'[r] = slot[r]
        /\ result'[r] = result[r] /\ rpc[r] = "final_lo" /\ rpc'[r] = "final_hi"
        /\ final'[r].lo = ring[c.slot]["lo"]
    BY DEF FinalLow, Stays, TypeOK
  <1>2. c.slot \in Slot /\ c # None
    BY <1>1 DEF HasCandidate, None, Slot
  <1>3. /\ StartOK(r) /\ ChosenOK(r) /\ ChosenFits(r) /\ base[r] <= first
        /\ since[r] <= cur /\ result[r].status = "none" /\ rtodo[r] = {}
    BY <1>1 DEF ReaderAt, Scanning
  <1>4. /\ StartOK(r)' /\ base'[r] <= first' /\ since'[r] <= cur' /\ UNCHANGED hist
        /\ IsData(r)' = IsData(r) /\ WantsLatest(r)' = WantsLatest(r) /\ req'[r] = req[r]
        /\ IsYounger(r)' = IsYounger(r)
    BY <1>1, <1>3, StayKeeps DEF Stays
  <1>5. ChosenFits(r)'
    <2>1. ChosenTime(r)' = ChosenTime(r)
      BY <1>1, <1>4 DEF ChosenTime
    <2>2. Satisfies(r, ChosenTime(r)) => Satisfies(r, ChosenTime(r))'
      BY <1>4, <2>1 DEF Satisfies
    <2> QED BY <1>1, <1>3, <1>4, <2>2 DEF ChosenFits
  <1>6. LowAgain(r)'
    <2> SUFFICES ASSUME (final[r].lo = c.lo)', (c.hi # 0)', (c.lo # 0)'
                 PROVE  (\E i, j, k \in 1 .. Len(hist) :
                          /\ ReadFrom(r, c.slot, i, j, c.hi, c.lo)
                          /\ j <= k /\ hist[k].slot = c.slot /\ Lo(hist[k].ts) = final[r].lo
                          /\ j = k => IsCopied(r, j) /\ TimeFits(r, j))'
      BY DEF LowAgain
    <2>1. PICK i \in 1 .. Len(hist), j \in 1 .. Len(hist) :
            /\ ReadFrom(r, c.slot, i, j, c.hi, c.lo)
            /\ StillIn(c.slot, j) => TimeFits(r, j) /\ CopiedSoFar(r, j)
      BY <1>1, <1>2, <1>3 DEF ChosenOK
    <2>2. RingTypeOK /\ StampAt(c.slot) /\ ring[c.slot]["lo"] # 0
      BY <1>1, <1>2 DEF RingInv, StampsOK
    <2>3. PICK k \in 1 .. Len(hist) : IsLastIn(c.slot, k) /\ ring[c.slot]["lo"] = Lo(hist[k].ts)
      BY <2>2 DEF StampAt
    <2>4. j <= k /\ hist[k].slot = c.slot
      BY <2>1, <2>2, <2>3, LastIsLast DEF ReadFrom, IsLastIn
    <2>5. j = k => IsCopied(r, j) /\ TimeFits(r, j)
      BY <1>3, <2>1, <2>2, <2>3 DEF StillIn, IsCopied, CopiedSoFar
    <2>6. ReadFrom(r, c.slot, i, j, c.hi, c.lo)'
      BY <1>1, <2>1, StayKeeps DEF ReadFrom
    <2>7. (IsCopied(r, j) => IsCopied(r, j)') /\ (TimeFits(r, j) => TimeFits(r, j)')
      BY <1>1, <1>4 DEF IsCopied, TimeFits
    <2> QED BY <1>1, <1>4, <2>3, <2>4, <2>5, <2>6, <2>7
  <1> QED BY <1>1, <1>3, <1>4, <1>5, <1>6 DEF ReaderAt, Scanning, Succeeded

LEMMA LessIsLeq ==
  ASSUME NEW a \in Nat, NEW b \in Nat, a < b
  PROVE  a <= b
  OBVIOUS

LEMMA Squeeze ==
  ASSUME NEW a \in Nat, NEW b \in Nat, NEW c \in Nat, NEW d \in Nat, a <= b, b <= c, c <= d, a = d
  PROVE  b = a /\ c = a
  OBVIOUS

\* The words read from a slot before and after the copy agree with one block only.
LEMMA OneBlock ==
  ASSUME RingInv, CommitsAreOrdered, NEW r \in Readers, NEW s \in Slot,
         NEW i \in 1 .. Len(hist), NEW j \in 1 .. Len(hist), NEW k \in 1 .. Len(hist),
         NEW hi, NEW lo, hi # 0,
         i <= j, j <= k, Hi(hist[i].ts) = hi, Lo(hist[j].ts) = lo,
         hist[k].slot = s, Lo(hist[k].ts) = lo, ring[s]["hi"] = hi
  PROVE  j = k /\ hist[j].ts = Stamp(hi, lo)
  <1>1. RingTypeOK /\ StampAt(s)
    BY DEF RingInv, StampsOK
  <1>2. PICK m \in 1 .. Len(hist) : IsLastIn(s, m) /\ ring[s]["hi"] \in {0, Hi(hist[m].ts)}
    BY <1>1 DEF StampAt
  <1>3. k <= m /\ Hi(hist[m].ts) = hi
    BY <1>1, <1>2, LastIsLast
  <1>4. \A x \in 1 .. Len(hist) : hist[x].ts \in Nat
    BY <1>1, BlocksOfHistory
  <1>5. \A x, y \in 1 .. Len(hist) : x <= y => hist[x].ts <= hist[y].ts
    <2> SUFFICES ASSUME NEW x \in 1 .. Len(hist), NEW y \in 1 .. Len(hist), x <= y
                 PROVE  hist[x].ts <= hist[y].ts
      OBVIOUS
    <2>1. x = y \/ x < y
      OBVIOUS
    <2>2. hist[x].ts \in Nat /\ hist[y].ts \in Nat
      BY <1>4
    <2>3. CASE x < y
      <3>1. hist[x].ts < hist[y].ts
        BY <2>3 DEF CommitsAreOrdered
      <3> QED BY <2>2, <3>1, LessIsLeq
    <2> QED BY <2>1, <2>2, <2>3
  <1>6. /\ hist[i].ts <= hist[j].ts /\ hist[j].ts <= hist[k].ts /\ hist[k].ts <= hist[m].ts
    BY <1>3, <1>5
  <1>7. /\ Hi(hist[i].ts) <= Hi(hist[j].ts) /\ Hi(hist[j].ts) <= Hi(hist[k].ts)
        /\ Hi(hist[k].ts) <= Hi(hist[m].ts)
    BY <1>4, <1>6, WordsInOrder
  <1>8. \A x \in 1 .. Len(hist) : Hi(hist[x].ts) \in Nat
    BY <1>4, StampWords
  <1>9. Hi(hist[j].ts) = hi /\ Hi(hist[k].ts) = hi
    <2>1. Hi(hist[i].ts) = Hi(hist[m].ts)
      BY <1>3
    <2> QED BY <1>7, <1>8, <2>1, Squeeze
  <1>10. hist[j].ts = hist[k].ts
    BY <1>4, <1>6, <1>9, WordsInOrder
  <1>11. j = k
    <2>1. ~(j < k)
      BY <1>4, <1>10 DEF CommitsAreOrdered
    <2> QED BY <2>1
  <1>12. hist[j].ts = Stamp(hi, lo)
    <2>1. /\ hist[j].ts = LowBase * Hi(hist[j].ts) + Lo(hist[j].ts)
          /\ Hi(hist[j].ts) \in Nat /\ Lo(hist[j].ts) \in Nat
      BY <1>4, StampWords
    <2> QED BY <1>9, <2>1, ConstantsAssumption DEF Stamp
  <1> QED BY <1>11, <1>12

LEMMA LaterIsNotTooOld ==
  ASSUME TypeOK, NEW r \in Readers, NEW i \in 1 .. Len(hist), NEW j \in 1 .. Len(hist), i <= j,
         NotTooOld(r, i)
  PROVE  NotTooOld(r, j)
  <1>1. since[r] \in Nat /\ base[r] \in Nat
    BY ReaderNumbers
  <1>2. WantsLatest(r) /\ start[r] >= 0 => j >= since[r]
    BY <1>1 DEF NotTooOld
  <1>3. ASSUME ByCommit(r), first = base[r], NEW k \in base[r] + 1 .. since[r],
               Satisfies(r, hist[k].ts)
        PROVE  k <= j
    <2>1. k <= i /\ k \in Int
      BY <1>1, <1>3 DEF NotTooOld
    <2> QED BY <2>1
  <1> QED BY <1>2, <1>3 DEF NotTooOld

LEMMA FinalHighOK ==
  ASSUME TypeOK, HasCandidate, RingInv, CommitsAreOrdered, NEW r \in Readers, ReaderAt(r),
         FinalHigh(r)
  PROVE  ReaderAt(r)'
  <1> DEFINE c == chosen[r]
             hi == ring[c.slot]["hi"]
  <1>1. /\ Stays(r) /\ chosen'[r] = c /\ buf'[r] = buf[r] /\ rpc[r] = "final_hi"
        /\ final'[r].hi = hi /\ final'[r].lo = final[r].lo
    BY DEF FinalHigh, Stays, TypeOK
  <1>2. \/ SameStamp(r, hi, final[r].lo) /\ rpc'[r] = "size" /\ result'[r] = result[r]
        \/ rpc'[r] = "idle" /\ result'[r].status = "HISTWRAP"
    BY DEF FinalHigh, Return, TypeOK
  <1>3. c.slot \in Slot /\ c # None
    BY <1>1 DEF HasCandidate, None, Slot
  <1>4. /\ StartOK(r) /\ LowAgain(r) /\ ChosenFits(r) /\ base[r] <= first
        /\ since[r] <= cur /\ result[r].status = "none"
    BY <1>1 DEF ReaderAt, Scanning
  <1>5. /\ base'[r] <= first' /\ since'[r] <= cur' /\ UNCHANGED hist
        /\ IsData(r)' = IsData(r) /\ WantsLatest(r)' = WantsLatest(r) /\ req'[r] = req[r]
    BY <1>1, <1>4, StayKeeps DEF Stays
  <1>6. CASE rpc'[r] = "idle" /\ result'[r].status = "HISTWRAP"
    BY <1>5, <1>6 DEF ReaderAt, Scanning, Succeeded
  <1>7. CASE SameStamp(r, hi, final[r].lo) /\ rpc'[r] = "size" /\ result'[r] = result[r]
    <2>1. StartOK(r)'
      BY <1>1, <1>4, <1>7, StayKeeps DEF FinalHigh
    <2>2. hi = c.hi /\ final[r].lo = c.lo
      BY <1>7 DEF SameStamp
    <2>3. ASSUME hi # 0, final[r].lo # 0
          PROVE  \E j \in 1 .. Len(hist) : RightBlock(r, j)'
      <3>1. PICK i \in 1 .. Len(hist), j \in 1 .. Len(hist), k \in 1 .. Len(hist) :
              /\ ReadFrom(r, c.slot, i, j, c.hi, c.lo)
              /\ j <= k /\ hist[k].slot = c.slot /\ Lo(hist[k].ts) = final[r].lo
              /\ j = k => IsCopied(r, j) /\ TimeFits(r, j)
        BY <1>4, <2>2, <2>3 DEF LowAgain
      <3>2. i <= j /\ Hi(hist[i].ts) = hi /\ Lo(hist[j].ts) = final[r].lo /\ NotTooOld(r, i)
        BY <2>2, <3>1 DEF ReadFrom
      <3>3. j = k /\ hist[j].ts = Stamp(hi, final[r].lo)
        BY <1>3, <2>3, <3>1, <3>2, OneBlock
      <3>4. IsCopied(r, j) /\ TimeFits(r, j)
        BY <3>1, <3>3
      <3>5. NotTooOld(r, j)
        BY <3>2, LaterIsNotTooOld
      <3>6. ~WantsLatest(r) => Satisfies(r, IF IsData(r) THEN DataTs(hist[j]) ELSE hist[j].ts)
        <4>1. ~WantsLatest(r) => Satisfies(r, ChosenTime(r))
          BY <1>1, <1>3, <1>4 DEF ChosenFits
        <4>2. ChosenTime(r) = IF IsData(r) THEN DataTs(hist[j]) ELSE hist[j].ts
          BY <2>2, <3>3, <3>4 DEF ChosenTime, TimeFits
        <4> QED BY <4>1, <4>2
      <3>7. IsCopied(r, j)' /\ NotTooOld(r, j)'
        BY <1>1, <1>5, <3>4, <3>5, StayKeeps DEF IsCopied
      <3>8. (hist[j].ts = Stamp(final[r].hi, final[r].lo))'
        BY <1>1, <1>5, <3>3
      <3>9. (~WantsLatest(r) => Satisfies(r, IF IsData(r) THEN DataTs(hist[j]) ELSE hist[j].ts))'
        BY <1>5, <3>6 DEF Satisfies
      <3> QED BY <3>7, <3>8, <3>9 DEF RightBlock
    <2>4. Answered(r)'
      BY <1>1, <1>5, <2>3 DEF Answered
    <2> QED BY <1>4, <1>5, <1>7, <2>1, <2>4 DEF ReaderAt, Scanning, Succeeded
  <1> QED BY <1>2, <1>6, <1>7

LEMMA ReturnSizeOK ==
  ASSUME TypeOK, NEW r \in Readers, ReaderAt(r), ReturnSize(r)
  PROVE  ReaderAt(r)'
  <1>1. /\ Stays(r) /\ SameChoice(r) /\ rpc[r] = "size" /\ rpc'[r] = "idle"
        /\ result'[r].ts = Stamp(final[r].hi, final[r].lo) /\ final'[r] = final[r]
    BY DEF ReturnSize, Return, Stays, SameChoice, TypeOK
  <1>2. Answered(r) /\ base[r] <= first /\ since[r] <= cur
    BY <1>1 DEF ReaderAt
  <1>3. Answered(r)' /\ base'[r] <= first' /\ since'[r] <= cur'
    BY <1>1, <1>2, StayKeeps, ChoiceKeeps DEF Stays
  <1> QED BY <1>1, <1>3 DEF ReaderAt, Scanning

-----------------------------------------------------------------------------
(* The invariant of the readers. *)

LEMMA ReadersInit ==
  ASSUME Init
  PROVE  ReadersOK
  <1>1. ASSUME NEW r \in Readers PROVE ReaderAt(r)
    <2>1. /\ rpc[r] = "idle" /\ base[r] = 0 /\ since[r] = 0 /\ cur = 0 /\ first = 0
          /\ result[r].status = "none"
      BY DEF Init, RingInit, NoResult
    <2> QED BY <2>1 DEF ReaderAt, Scanning, Succeeded
  <1> QED BY <1>1 DEF ReadersOK

\* A step of one reader leaves the others where they are.
LEMMA OthersRest ==
  ASSUME TypeOK, NEW r \in Readers, ReaderStep(r), NEW q \in Readers, q # r
  PROVE  Rests(q)
  <1>1. /\ DOMAIN rpc = Readers /\ DOMAIN req = Readers /\ DOMAIN slot = Readers
        /\ DOMAIN start = Readers /\ DOMAIN probe = Readers /\ DOMAIN chosen = Readers
        /\ DOMAIN buf = Readers /\ DOMAIN rtodo = Readers /\ DOMAIN final = Readers
        /\ DOMAIN result = Readers /\ DOMAIN since = Readers /\ DOMAIN base = Readers
    BY DEF TypeOK
  <1>2. ReadBegin(r) => Rests(q)
    BY <1>1 DEF ReadBegin, Rests
  <1>3. CheckSlot(r) \/ CheckDeleted(r) \/ ScanHigh(r) => Rests(q)
    BY <1>1 DEF CheckSlot, NoFurtherBlock, BeginCopy, Return, CheckDeleted, ScanHigh, Rests
  <1>4. ASSUME NEW p, NEW time, Decide(r, p, time)
        PROVE  /\ rpc'[q] = rpc[q] /\ slot'[q] = slot[q] /\ chosen'[q] = chosen[q]
               /\ rtodo'[q] = rtodo[q] /\ result'[q] = result[q]
    BY <1>1, <1>4 DEF Decide, BeginCopy, Return
  <1>5. ScanLow(r) => Rests(q)
    BY <1>1, <1>4 DEF ScanLow, Rests
  <1>6. ScanData(r) => Rests(q)
    BY <1>1, <1>4 DEF ScanData, Rests
  <1>7. CopyOut(r) \/ FinalLow(r) \/ FinalHigh(r) \/ ReturnSize(r) => Rests(q)
    BY <1>1 DEF CopyOut, FinalLow, FinalHigh, ReturnSize, Return, Rests
  <1> QED BY <1>2, <1>3, <1>5, <1>6, <1>7 DEF ReaderStep

LEMMA ReadersStep ==
  ASSUME TypeOK, HasCandidate, TypeOK', RingInv, CommitsAreOrdered, ReadersOK, [Next]_vars
  PROVE  ReadersOK'
  <1> SUFFICES ASSUME NEW r \in Readers PROVE ReaderAt(r)'
    BY DEF ReadersOK
  <1>1. ReaderAt(r) /\ RingTypeOK'
    BY DEF ReadersOK, TypeOK
  <1>2. CASE RingNext /\ UNCHANGED readVars
    <2>1. Grows /\ Rests(r)
      BY <1>2, RingGrows DEF readVars, Rests
    <2> QED BY <1>1, <2>1, ReaderKeeps
  <1>3. CASE UNCHANGED vars
    <2>1. Grows /\ Rests(r)
      BY <1>3, RingGrows DEF vars, readVars, Rests
    <2> QED BY <1>1, <2>1, ReaderKeeps
  <1>4. CASE ReaderStep(r)
    BY <1>1, <1>4, ReadBeginOK, CheckOK, ScanHighOK, ScanLowOK, ScanDataOK, CopyOutOK,
       FinalLowOK, FinalHighOK, ReturnSizeOK DEF ReaderStep
  <1>5. ASSUME NEW q \in Readers, ReaderStep(q), q # r PROVE ReaderAt(r)'
    <2>1. Grows /\ Rests(r)
      BY <1>5, OthersRest, ReadersOnlyRead, RingGrows
    <2> QED BY <1>1, <2>1, ReaderKeeps
  <1> QED BY <1>2, <1>3, <1>4, <1>5 DEF Next

LEMMA ReadersAlways == Serial /\ Spec => []ReadersOK
  <1>1. CASE Serial
    <2>1. OrderOK => CommitsAreOrdered
      BY DEF OrderOK
    <2>2. TypeOK /\ HasCandidate /\ TypeOK' /\ RingInv /\ CommitsAreOrdered /\ ReadersOK
            /\ [Next]_vars => ReadersOK'
      BY ReadersStep
    <2>3. Spec => [](TypeOK /\ HasCandidate)
      <3>1. TypeOK /\ HasCandidate /\ [Next]_vars => (TypeOK /\ HasCandidate)'
        BY NextTypes
      <3> QED BY InitTypes, <3>1, PTL DEF Spec
    <2>4. Spec => []OrderOK
      BY <1>1, OrderAlways
    <2> QED BY <2>1, <2>2, <2>3, <2>4, ReadersInit, RingInvAlways, PTL DEF Spec
  <1> QED BY <1>1

\* What a successful call returns is a block, and nothing but that block.
LEMMA AnswerIsReturned ==
  ASSUME ReadersOK, NEW r \in Readers, ValidStamp(r)
  PROVE  \E i \in Returned(r) : RightBlock(r, i)
  <1>1. Answered(r) /\ result[r].ts = Stamp(final[r].hi, final[r].lo)
    BY DEF ReadersOK, ReaderAt, ValidStamp
  <1>2. PICK i \in 1 .. Len(hist) : RightBlock(r, i)
    BY <1>1 DEF Answered, ValidStamp
  <1>3. i \in Returned(r)
    BY <1>1, <1>2 DEF RightBlock, IsCopied, Returned, IsCopyOf
  <1> QED BY <1>2, <1>3

LEMMA WholeBlocks ==
  ASSUME ReadersOK
  PROVE  ValidStampIsWholeBlock
  BY AnswerIsReturned DEF ValidStampIsWholeBlock

\* Under the lock and the cycle watch, for any number of writers and readers: a valid
\* commit time is that of one block, which the caller has completely, and the blocks are
\* committed in the order of their times.
THEOREM WritersOrdered == Serial /\ Spec => []WritersAreOrdered
  <1>1. ReadersOK /\ OrderOK => WritersAreOrdered
    BY WholeBlocks DEF WritersAreOrdered, OrderOK
  <1> QED BY <1>1, ReadersAlways, OrderAlways, PTL

\* In any ring: what is read with a valid commit time is one whole block, and the latest
\* history_size - 1 blocks are there to be read.
THEOREM BlocksKept == Serial /\ Spec => []BlocksAreKept
  <1>1. ReadersOK /\ RingInv => BlocksAreKept
    BY WholeBlocks, RingInvKeeps DEF BlocksAreKept
  <1> QED BY <1>1, ReadersAlways, RingInvAlways, PTL

LEMMA Selected ==
  ASSUME TypeOK, OrderOK, ReadersOK
  PROVE  SelectedByTime
  <1> DEFINE Key(r, b) == IF IsData(r) THEN DataTs(b) ELSE b.ts
  <1>1. ASSUME NEW r \in Readers, ValidStamp(r), ~WantsLatest(r)
        PROVE  \E i \in Returned(r) :
                 /\ Satisfies(r, Key(r, hist[i]))
                 /\ req[r].mode \in {"last", "older"} /\ first = base[r] =>
                      ~\E j \in base[r] + 1 .. since[r] :
                          hist[j].ts > hist[i].ts /\ Satisfies(r, hist[j].ts)
    <2>1. PICK i \in Returned(r) : RightBlock(r, i)
      BY <1>1, AnswerIsReturned
    <2>2. NotTooOld(r, i) /\ Satisfies(r, Key(r, hist[i]))
      BY <1>1, <2>1 DEF RightBlock
    <2>3. RingTypeOK /\ i \in 1 .. Len(hist)
      BY DEF TypeOK, Returned
    <2>4. ASSUME req[r].mode \in {"last", "older"}, first = base[r],
                 NEW j \in base[r] + 1 .. since[r],
                 hist[j].ts > hist[i].ts, Satisfies(r, hist[j].ts)
          PROVE  FALSE
      <3>1. j <= i
        BY <1>1, <2>2, <2>4 DEF NotTooOld, ByCommit
      <3>2. j \in 1 .. Len(hist)
        BY <2>3, RingNumbers, ReaderNumbers, SubRange
      <3>3. hist[j].ts \in Nat /\ hist[i].ts \in Nat
        BY <2>3, <3>2, BlocksOfHistory
      <3>4. j = i \/ j < i
        BY <2>3, <3>1, <3>2
      <3>5. j < i => hist[j].ts < hist[i].ts
        BY <2>3, <3>2 DEF OrderOK, CommitsAreOrdered
      <3> QED BY <2>4, <3>3, <3>4, <3>5
    <2> QED BY <2>2, <2>4
  <1> QED BY <1>1 DEF SelectedByTime

\* A search by time finds a block that satisfies it, by commit time the nearest of those
\* the object had when the call began, however the writers overtake the walk; and the
\* history it searches has the length that was asked for.
THEOREM Served == Serial /\ Spec => []HistoryIsServed
  <1>1. TypeOK /\ OrderOK /\ ReadersOK /\ RingInv => HistoryIsServed
    BY Selected, RingInvKeeps DEF HistoryIsServed
  <1> QED BY <1>1, TypeCorrect, OrderAlways, ReadersAlways, RingInvAlways, PTL

\* The object that the ring was created for.
FirstOwner == first = 0

LEMMA FirstOwnerAlways == MaxReuse = 0 /\ Spec => []FirstOwner
  <1>1. CASE MaxReuse = 0
    <2>1. Init => FirstOwner
      BY DEF Init, RingInit, FirstOwner
    <2>2. TypeOK /\ FirstOwner /\ [Next]_vars => FirstOwner'
      <3> SUFFICES ASSUME TypeOK, FirstOwner, [Next]_vars PROVE first' = first
        BY DEF FirstOwner
      <3>1. ASSUME NEW w \in Writers, WriterStep(w) PROVE first' = first
        BY <3>1, WriterTypes DEF TypeOK
      <3>2. ASSUME NEW w \in Writers, Crash(w) PROVE first' = first
        BY <3>2 DEF Crash
      <3>3. ~Reuse
        BY <1>1 DEF Reuse, TypeOK, RingTypeOK
      <3>4. Delete \/ UNCHANGED vars => first' = first
        BY DEF Delete, vars, ringVars
      <3>5. ASSUME NEW r \in Readers, ReaderStep(r) PROVE first' = first
        BY <3>5, ReadersOnlyRead DEF ringVars
      <3> QED BY <3>1, <3>2, <3>3, <3>4, <3>5 DEF Next, RingNext
    <2> QED BY <2>1, <2>2, TypeCorrect, PTL DEF Spec
  <1> QED BY <1>1

\* A call that began when the object had data began at a slot of the ring.
StartKnown == \A r \in Readers : since[r] > base[r] => start[r] >= 0

LEMMA StartKnownAlways == Spec => []StartKnown
  <1>1. Init => StartKnown
    BY DEF Init, StartKnown
  <1>2. TypeOK /\ RingInv /\ StartKnown /\ [Next]_vars => StartKnown'
    <2> SUFFICES ASSUME TypeOK, RingInv, StartKnown, [Next]_vars, NEW r \in Readers
                 PROVE  (since[r] > base[r] => start[r] >= 0)'
      BY DEF StartKnown
    <2>1. CASE since'[r] = since[r] /\ base'[r] = base[r] /\ start'[r] = start[r]
      BY <2>1 DEF StartKnown
    <2>2. CASE ReadBegin(r)
      <3>1. start'[r] = history_slot /\ since'[r] = cur /\ base'[r] = first
        BY <2>2 DEF ReadBegin, TypeOK
      <3>2. cur > first => history_slot = SlotNo(cur) /\ cur \in Int
        BY RingNumbers DEF RingInv, PlacesOK
      <3>3. cur > first => history_slot \in Slot
        BY <3>2, SlotsOfBlocks DEF RingInv
      <3> QED BY <3>1, <3>3 DEF Slot
    <2>3. ASSUME NEW q \in Readers, ReaderStep(q), q # r
          PROVE  since'[r] = since[r] /\ base'[r] = base[r] /\ start'[r] = start[r]
      BY <2>3, OthersRest DEF Rests
    <2>4. CASE ReaderStep(r) /\ ~ReadBegin(r)
      BY <2>1, <2>4 DEF ReaderStep, CheckSlot, CheckDeleted, ScanHigh, ScanLow, ScanData, CopyOut,
                        FinalLow, FinalHigh, ReturnSize
    <2>5. CASE UNCHANGED readVars
      BY <2>1, <2>5 DEF readVars
    <2>6. UNCHANGED vars => UNCHANGED readVars
      BY DEF vars
    <2> QED BY <2>1, <2>2, <2>3, <2>4, <2>5, <2>6 DEF Next
  <1> QED BY <1>1, <1>2, TypeCorrect, RingInvAlways, PTL DEF Spec

LEMMA LatestFresh ==
  ASSUME TypeOK, ReadersOK, FirstOwner, StartKnown
  PROVE  LatestIsFresh
  <1>1. ASSUME NEW r \in Readers, ValidStamp(r), WantsLatest(r)
        PROVE  \E i \in Returned(r) : i >= since[r]
    <2>1. PICK i \in Returned(r) : RightBlock(r, i)
      BY <1>1, AnswerIsReturned
    <2>2. NotTooOld(r, i) /\ i \in 1 .. Len(hist) /\ i \in Int /\ i >= 1
      BY <2>1 DEF RightBlock, Returned
    <2>3. /\ since[r] \in Nat /\ base[r] \in Nat /\ start[r] \in Int
          /\ since[r] > base[r] => start[r] >= 0
      BY ReaderNumbers DEF StartKnown
    <2>4. base[r] <= 0
      BY DEF ReadersOK, ReaderAt, FirstOwner
    <2>5. start[r] >= 0 => i >= since[r]
      BY <1>1, <2>2 DEF NotTooOld
    <2>6. i >= since[r]
      BY <2>2, <2>3, <2>4, <2>5
    <2> QED BY <2>6
  <1> QED BY <1>1 DEF LatestIsFresh

\* The latest data is never older than the block that was current when the call began: in
\* a ring that is not handed on to another object, whose reader may meet its blocks.
THEOREM AlwaysFresh == Serial /\ MaxReuse = 0 /\ Spec => []LatestIsFresh
  <1>1. TypeOK /\ ReadersOK /\ FirstOwner /\ StartKnown => LatestIsFresh
    BY LatestFresh
  <1> QED BY <1>1, TypeCorrect, ReadersAlways, FirstOwnerAlways, StartKnownAlways, PTL

-----------------------------------------------------------------------------
(* The refinement of RtdbHistory. *)

\* What a call was told does not change while it rests, although the history grows.
LEMMA ToldKeeps ==
  ASSUME TypeOK, TypeOK', CommitsAreOrdered', ReadersOK, Grows, NEW r \in Readers, Rests(r)
  PROVE  CallSeen(r)' = CallSeen(r)
  <1>1. /\ ValidStamp(r)' <=> ValidStamp(r)
        /\ WantsLatest(r)' = WantsLatest(r)
        /\ rpc'[r] = rpc[r] /\ since'[r] = since[r]
    BY DEF Rests, ValidStamp, Succeeded, WantsLatest
  <1>4. \A j \in 1 .. Len(hist) : j \in 1 .. Len(hist') /\ hist'[j] = hist[j]
    <2>1. RingTypeOK /\ RingTypeOK'
      BY DEF TypeOK
    <2>2. Len(hist) \in Nat
      BY <2>1, RingNumbers
    <2>3. Len(hist') \in Nat
      BY <2>1 DEF RingTypeOK
    <2>4. Len(hist) <= Len(hist')
      BY DEF Grows
    <2>5. \A j \in 1 .. Len(hist) : j \in 1 .. Len(hist')
      BY <2>2, <2>3, <2>4
    <2> QED BY <2>5 DEF Grows
  <1>2. ASSUME ValidStamp(r) PROVE Told(r)' = Told(r)
    <2>1. PICK i \in Returned(r) : TRUE
      BY <1>2, AnswerIsReturned
    <2>2. i \in 1 .. Len(hist) /\ i \in 1 .. Len(hist') /\ hist'[i] = hist[i]
      BY <1>4 DEF Returned
    <2>3. i \in Returned(r)'
      BY <2>2 DEF Returned, IsCopyOf, Rests
    <2>4. Returned(r)' = {i}
      <3> SUFFICES ASSUME NEW j \in Returned(r)', j # i PROVE FALSE
        BY <2>3
      <3>1. /\ j \in 1 .. Len(hist') /\ i \in 1 .. Len(hist')
            /\ hist'[i].ts = result'[r].ts /\ hist'[j].ts = result'[r].ts
        BY <2>3 DEF Returned, IsCopyOf
      <3>2. hist'[i].ts \in Nat
        <4>1. hist[i].ts \in Nat
          BY <2>2, BlocksOfHistory DEF TypeOK
        <4> QED BY <2>2, <4>1
      <3>3. i < j => hist'[i].ts < hist'[j].ts
        BY <3>1 DEF CommitsAreOrdered
      <3>4. j < i => hist'[j].ts < hist'[i].ts
        BY <3>1 DEF CommitsAreOrdered
      <3>5. i < j \/ j < i
        BY <3>1
      <3> QED BY <3>1, <3>2, <3>3, <3>4, <3>5
    <2>5. ASSUME NEW j \in Returned(r) PROVE j = i
      <3>1. j \in Returned(r)'
        <4>1. j \in 1 .. Len(hist) /\ j \in 1 .. Len(hist') /\ hist'[j] = hist[j]
          BY <1>4 DEF Returned
        <4> QED BY <4>1 DEF Returned, IsCopyOf, Rests
      <3> QED BY <2>4, <3>1
    <2>6. Returned(r)' = Returned(r)
      BY <2>1, <2>4, <2>5
    <2> QED BY <1>1, <2>6 DEF Told
  <1>3. ~ValidStamp(r) => Told(r)' = Told(r)
    BY <1>1 DEF Told
  <1> QED BY <1>1, <1>2, <1>3 DEF CallSeen

\* A call that runs has not been told anything yet.
LEMMA RunningIsToldNothing ==
  ASSUME ReadersOK, NEW r \in Readers, rpc[r] # "idle"
  PROVE  Told(r) = 0
  BY DEF ReadersOK, ReaderAt, Told, ValidStamp, Succeeded

LEMMA RingImplements ==
  ASSUME TypeOK, RingNext
  PROVE  \/ UNCHANGED <<hist, cur>>
         \/ hist' \in Seq(Block) /\ Len(hist') = Len(hist) + 1 /\ SubSeq(hist', 1, Len(hist)) = hist
              /\ cur' = cur
         \/ cur' = Len(hist) /\ hist' = hist
  <1>1. RingTypeOK /\ hist \in Seq(Block)
    BY DEF TypeOK, RingTypeOK
  <1>2. ASSUME NEW w \in Writers, PublishLow(w)
        PROVE  hist' \in Seq(Block) /\ Len(hist') = Len(hist) + 1
                 /\ SubSeq(hist', 1, Len(hist)) = hist /\ cur' = cur
    <2>1. hist' = Append(hist, wblock[w]) /\ cur' = cur /\ wblock[w] \in Block
      BY <1>1, <1>2, BlockFields DEF PublishLow
    <2>2. SubSeq(Append(hist, wblock[w]), 1, Len(hist)) = hist
      BY <1>1, <2>1
    <2> QED BY <1>1, <2>1, <2>2
  <1>3. ASSUME NEW w \in Writers, WriterStep(w), ~PublishLow(w)
        PROVE  hist' = hist /\ cur' \in {cur, Len(hist)}
    BY <1>3 DEF WriterStep, WriteBegin, TakeObjLock, WriteTooFast, ChooseSlot, PtrBegin,
         PtrCommit, InvalidateHigh, InvalidateLow, CopyIn, CopiedIn, SetDataTs, PublishHigh,
         MakeCurrent, ReleaseObjLock
  <1>4. Delete \/ Reuse \/ (\E w \in Writers : Crash(w)) => UNCHANGED <<hist, cur>>
    BY DEF Delete, Reuse, Crash
  <1> QED BY <1>2, <1>3, <1>4 DEF RingNext

LEMMA ReadImplements ==
  ASSUME TypeOK, TypeOK', CommitsAreOrdered, ReadersOK, ReadersOK', LatestIsFresh', ValidStampIsWholeBlock',
         NEW r \in Readers, ReaderStep(r),
         \A q \in Readers : q # r => CallSeen(q)' = CallSeen(q)
  PROVE  [History!Next]_(History!vars)
  <1>1. UNCHANGED <<hist, cur>>
    BY ReadersOnlyRead DEF ringVars
  <1>2. DOMAIN Calls = Readers /\ \A q \in Readers : Calls[q] = CallSeen(q)
    BY DEF Calls
  <1>3. DOMAIN Calls' = Readers /\ \A q \in Readers : Calls'[q] = CallSeen(q)'
    BY DEF Calls
  <1>4. CASE ReadBegin(r)
    <2>1. rpc[r] = "idle" /\ rpc'[r] = "check" /\ since'[r] = cur
      BY <1>4 DEF ReadBegin, TypeOK
    <2>2. Told(r)' = 0
      BY <2>1 DEF ReadersOK, ReaderAt, Told, ValidStamp, Succeeded
    <2>3. CallSeen(r)' = [active |-> TRUE, latest |-> WantsLatest(r)', since |-> cur, answer |-> 0]
      BY <2>1, <2>2 DEF CallSeen
    <2>4. ~CallSeen(r).active
      BY <2>1 DEF CallSeen
    <2>5. WantsLatest(r)' \in BOOLEAN
      BY DEF WantsLatest
    <2>6. Calls' = [Calls EXCEPT ![r] = [active |-> TRUE, latest |-> WantsLatest(r)',
                                         since |-> cur, answer |-> 0]]
      BY <1>2, <1>3, <2>3 DEF Calls
    <2>7. ~Calls[r].active
      BY <1>2, <2>4
    <2>8. History!Call(r)
      BY <1>1, <2>5, <2>6, <2>7 DEF History!Call
    <2> QED BY <2>8 DEF History!Next
  <1>5. CASE ~ReadBegin(r)
    <2>1. Stays(r) /\ rpc[r] # "idle"
      BY <1>5, ReadersOnlyRead DEF ReaderStep, CheckSlot, CheckDeleted, ScanHigh, ScanLow, ScanData,
            CopyOut, FinalLow, FinalHigh, ReturnSize, Stays
    <2>2. WantsLatest(r)' = WantsLatest(r) /\ since'[r] = since[r]
      BY <2>1, StayKeeps DEF Stays
    <2>3. Told(r) = 0
      BY <2>1, RunningIsToldNothing
    <2>4. CASE rpc'[r] # "idle"
      <3>1. Told(r)' = 0
        BY <2>4 DEF ReadersOK, ReaderAt, Told, ValidStamp, Succeeded
      <3>2. CallSeen(r)' = CallSeen(r)
        BY <2>1, <2>2, <2>3, <2>4, <3>1 DEF CallSeen
      <3>3. Calls' = Calls
        BY <3>2 DEF Calls
      <3> QED BY <1>1, <3>3 DEF History!vars
    <2>5. CASE rpc'[r] = "idle"
      <3> DEFINE told == Told(r)'
      <3>1. Calls[r].active /\ Calls[r].latest = WantsLatest(r) /\ Calls[r].since = since[r]
            /\ Calls[r].answer = 0
        <4>1. CallSeen(r).active
          BY <2>1 DEF CallSeen
        <4>2. CallSeen(r).latest = WantsLatest(r)
          BY DEF CallSeen
        <4>3. CallSeen(r).since = since[r] /\ CallSeen(r).answer = 0
          BY <2>3 DEF CallSeen
        <4> QED BY <1>2, <4>1, <4>2, <4>3
      <3>2. told \in {0} \cup (IF WantsLatest(r) THEN since[r] .. Len(hist) ELSE 1 .. Len(hist))
        <4>1. CASE ~ValidStamp(r)'
          BY <4>1 DEF Told
        <4>2. CASE ValidStamp(r)'
          <5>1. Returned(r)' # {}
            BY <4>2 DEF ValidStampIsWholeBlock
          <5>2. told \in Returned(r)'
            BY <4>2, <5>1 DEF Told
          <5>3. told \in 1 .. Len(hist)
            BY <1>1, <5>2 DEF Returned
          <5>4. ASSUME NEW i \in Returned(r)', NEW j \in Returned(r)' PROVE i = j
            <6>1. /\ i \in 1 .. Len(hist) /\ j \in 1 .. Len(hist) /\ hist[i].ts = hist[j].ts
                  /\ RingTypeOK
              BY <1>1 DEF Returned, IsCopyOf, TypeOK
            <6>2. hist[i].ts \in Nat
              BY <6>1, BlocksOfHistory
            <6>3. ~(i < j) /\ ~(j < i)
              BY <6>1, <6>2 DEF CommitsAreOrdered
            <6> QED BY <6>1, <6>3
          <5>5. WantsLatest(r) => told >= since[r]
            BY <2>2, <4>2, <5>2, <5>4 DEF LatestIsFresh
          <5>6. since[r] \in Nat /\ Len(hist) \in Nat
            BY ReaderNumbers, RingNumbers DEF TypeOK
          <5> HIDE DEF told
          <5> QED BY <5>3, <5>5, <5>6
        <4> QED BY <4>1, <4>2
      <3>3. CallSeen(r)' = [active |-> FALSE, latest |-> WantsLatest(r), since |-> since[r],
                            answer |-> told]
        BY <2>2, <2>5 DEF CallSeen
      <3>4. Calls' = [Calls EXCEPT ![r] = [active |-> FALSE, latest |-> Calls[r].latest,
                                           since |-> Calls[r].since, answer |-> told]]
        <4> HIDE DEF told
        <4> QED BY <1>2, <1>3, <3>1, <3>3 DEF Calls
      <3>5. told \in History!Answers(r)
        BY <3>1, <3>2 DEF History!Answers
      <3> HIDE DEF told
      <3>6. History!Answer(r)
        BY <1>1, <3>1, <3>4, <3>5 DEF History!Answer
      <3> QED BY <3>6 DEF History!Next
    <2> QED BY <2>4, <2>5
  <1> QED BY <1>4, <1>5

\* Every step of the ring and of a reader is a step of RtdbHistory, or none.
LEMMA HistoryStep ==
  ASSUME TypeOK, TypeOK', CommitsAreOrdered, CommitsAreOrdered', ReadersOK, ReadersOK', RingInv,
         LatestIsFresh', ValidStampIsWholeBlock', [Next]_vars
  PROVE  [History!Next]_(History!vars)
  <1>1. CASE (RingNext /\ UNCHANGED readVars) \/ UNCHANGED vars
    <2>1. Grows
      BY <1>1, RingGrows DEF vars
    <2>2. \A r \in Readers : CallSeen(r)' = CallSeen(r)
      <3>1. \A r \in Readers : Rests(r)
        BY <1>1 DEF vars, readVars, Rests
      <3> QED BY <2>1, <3>1, ToldKeeps
    <2>3. Calls' = Calls
      BY <2>2 DEF Calls
    <2>4. CASE UNCHANGED <<hist, cur>>
      BY <2>3, <2>4 DEF History!vars
    <2>5. CASE RingNext /\ ~UNCHANGED <<hist, cur>>
      <3>1. CASE hist' \in Seq(Block) /\ Len(hist') = Len(hist) + 1
                   /\ SubSeq(hist', 1, Len(hist)) = hist /\ cur' = cur
        <4>1. History!Commit
          BY <2>3, <3>1 DEF History!Commit
        <4> QED BY <4>1 DEF History!Next
      <3>2. CASE cur' = Len(hist) /\ hist' = hist
        <4>1. History!MakeCurrent
          BY <2>3, <3>2 DEF History!MakeCurrent
        <4> QED BY <4>1 DEF History!Next
      <3> QED BY <2>5, <3>1, <3>2, RingImplements
    <2> QED BY <1>1, <2>4, <2>5 DEF vars, ringVars
  <1>2. ASSUME NEW r \in Readers, ReaderStep(r) PROVE [History!Next]_(History!vars)
    <2>1. Grows
      BY <1>2, ReadersOnlyRead, RingGrows
    <2>2. \A q \in Readers : q # r => CallSeen(q)' = CallSeen(q)
      BY <1>2, <2>1, OthersRest, ToldKeeps
    <2> QED BY <1>2, <2>2, ReadImplements
  <1> QED BY <1>1, <1>2 DEF Next

\* At first nothing is committed and nobody reads.
LEMMA HistoryInit == Init => History!Init
  <1> SUFFICES ASSUME Init PROVE History!Init
    OBVIOUS
  <1>1. hist = <<>> /\ cur = 0
    BY DEF Init, RingInit
  <1>2. ASSUME NEW r \in Readers PROVE CallSeen(r) = History!Idle
    <2>1. rpc[r] = "idle" /\ since[r] = 0 /\ req[r].mode = "last" /\ req[r].ts = 0
          /\ result[r].status = "none"
      BY DEF Init, NoResult
    <2>2. Told(r) = 0
      BY <2>1 DEF Told, ValidStamp, Succeeded
    <2>3. WantsLatest(r) = TRUE
      BY <2>1 DEF WantsLatest
    <2>4. (rpc[r] # "idle") = FALSE
      BY <2>1
    <2> QED BY <2>1, <2>2, <2>3, <2>4 DEF CallSeen, History!Idle
  <1>3. Calls = [r \in Readers |-> History!Idle]
    BY <1>2 DEF Calls
  <1> QED BY <1>1, <1>3 DEF History!Init

\* The lock-free ring keeps the promise of RtdbHistory: a call returns one block of the log, in
\* one piece, at least as young as the one that was current when it began, or nothing
\* (readdata and writedata, objdata.c).
THEOREM HistoryImplemented == Serial /\ MaxReuse = 0 /\ Spec => ImplementsHistory
  <1>1. TypeOK /\ TypeOK' /\ CommitsAreOrdered /\ CommitsAreOrdered' /\ ReadersOK /\ ReadersOK'
          /\ RingInv /\ LatestIsFresh' /\ ValidStampIsWholeBlock' /\ [Next]_vars
            => [History!Next]_(History!vars)
    BY HistoryStep
  <1>2. WritersAreOrdered => CommitsAreOrdered /\ ValidStampIsWholeBlock
    BY DEF WritersAreOrdered
  <1> QED BY <1>1, <1>2, HistoryInit, TypeCorrect, ReadersAlways, RingInvAlways, WritersOrdered,
             AlwaysFresh, PTL DEF Spec, ImplementsHistory, History!Spec
=============================================================================
