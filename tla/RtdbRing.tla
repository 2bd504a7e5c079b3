------------------------------ MODULE RtdbRing ------------------------------
(***************************************************************************)
(* The history ring buffer of one RTDB object and its writers.             *)
(*                                                                         *)
(* An object's data block is a ring of HistorySize slots in shared memory. *)
(* Writers never wait for readers: a writer invalidates the slot after the *)
(* current one, copies the new block into it, makes the slot valid with    *)
(* the new commit time and moves history_slot.  Every access to a machine  *)
(* word of shared memory is an action of its own, so that a reader (module *)
(* RtdbObjRead) can run between any two of them.                           *)
(*                                                                         *)
(* The 64-bit commit time is stored as two 32-bit words, "hi" and "lo",    *)
(* because the code copies them one by one in a chosen order.  LowBase is  *)
(* 2^32 in the program.  Words become visible in program order.            *)
(***************************************************************************)
EXTENDS Integers, Sequences

CONSTANTS
  Writers,      \* threads that call kogmo_rtdb_obj_writedata & co.
  Creator,      \* the writer whose process created the object
  NoWriter,     \* the value of obj_lock while no writer holds it
  WriteAllow,   \* flags.write_allow of the object
  PtrWrites,    \* whether the creator also uses writedata_ptr_begin / _commit
  HistorySize,  \* slots in the ring, objmeta.history_size
  Body,         \* the words of a data block behind its base header
  Sizes,        \* values a writer puts in base.size
  DataTimes,    \* values a writer puts in base.data_ts, 0 for "use commit time"
  Time,         \* the readings of the clock
  ClockStep,    \* least distance of two readings of the clock
  LowBase,      \* number of values of the low word of a timestamp
  MinCycle,     \* objmeta.min_cycletime under flags.cycle_watch, 0 if not set
  SimMode,      \* localdata.flags.simmode
  MaxBlocks,    \* bound: data blocks written in a behaviour
  MaxReuse      \* bound: re-insertions of the object into the same ring

ASSUME ConstantsAssumption ==
  /\ Creator \in Writers /\ NoWriter \notin Writers
  /\ {WriteAllow, PtrWrites, SimMode} \subseteq BOOLEAN
  /\ HistorySize \in Nat \ {0}
  /\ Body \cap {"hi", "lo", "size", "data_ts"} = {}
  /\ Sizes \subseteq Nat /\ DataTimes \subseteq Nat /\ Time \subseteq Nat
  /\ ClockStep \in Nat /\ MinCycle \in Nat
  /\ LowBase \in Nat \ {0}
  /\ MaxBlocks \in Nat /\ MaxReuse \in Nat

Slot     == 0 .. HistorySize - 1
CopyWord == {"size", "data_ts"} \cup Body        \* the words memcpy moves
Word     == {"hi", "lo"} \cup CopyWord

\* The two words of a timestamp, and the timestamp of two words.
Hi(ts) == ts \div LowBase
Lo(ts) == ts % LowBase
Stamp(hi, lo) == hi * LowBase + lo

\* A data block: a serial number that stands for its contents, its size, its
\* data time as the writer gives it, its commit time, the slot it goes to and
\* whether the caller writes it into the slot itself.
Block == [id : Nat, size : Nat, given : Nat, ts : Nat, slot : Slot, ptr : BOOLEAN]

DataTs(b) == IF b.given = 0 THEN b.ts ELSE b.given

\* What a word of the slot holds once block b has been committed.
Contents(b, w) == CASE w = "size"    -> b.size
                    [] w = "data_ts" -> DataTs(b)
                    [] OTHER         -> b.id

VARIABLES
  ring,          \* the words of every slot, in the shared heap
  history_slot,  \* objmeta.history_slot: slot of the latest block, -1 at first
  deleted,       \* objmeta.deleted_ts # 0
  obj_lock,      \* objmeta's writer lock: its holder or NoWriter
  clock,         \* the last reading of the clock
  blocks,        \* data blocks begun so far
  reuses,        \* re-insertions so far
  wpc,           \* where a writer is in its call
  wblock,        \* the block a writer writes
  wtodo,         \* words it still has to copy
  hist,          \* history: every block that was made valid, in that order
  cur,           \* history: number of blocks that were made current
  first          \* history: Len(hist) when the object was inserted

wvars == <<wpc, wblock, wtodo>>
ringVars == <<ring, history_slot, deleted, obj_lock, clock, blocks, reuses,
              wpc, wblock, wtodo, hist, cur, first>>

WriterPc == {"idle", "lock", "watch", "inv_hi", "inv_lo", "copy", "stamp",
             "pub_lo", "pub_hi", "current", "unlock", "dead"}

NullBlock == [id |-> 0, size |-> 0, given |-> 0, ts |-> 0, slot |-> 0,
              ptr |-> FALSE]

-----------------------------------------------------------------------------
\* The heap is zeroed when it is allocated: every slot is invalid.
RingInit ==
  /\ ring = [s \in Slot |-> [w \in Word |-> 0]]
  /\ history_slot = -1
  /\ deleted = FALSE
  /\ obj_lock = NoWriter
  /\ clock = 0 /\ blocks = 0 /\ reuses = 0
  /\ wpc = [w \in Writers |-> "idle"]
  /\ wblock = [w \in Writers |-> NullBlock]
  /\ wtodo = [w \in Writers |-> {}]
  /\ hist = <<>> /\ cur = 0 /\ first = 0

Goto(w, from, to) == wpc[w] = from /\ wpc' = [wpc EXCEPT ![w] = to]

\* The slot a scan starts at.  Line 415 of the code compares the address of
\* the slot number with 0, never its value: a history_slot of -1 is taken
\* modulo the size of the ring like any other.
ScanPrevious(s) == (s + HistorySize - 1) % HistorySize           \* a mutant
ScanUnwrapped(s) == s                                            \* a mutant
ScanSlot(s) == (s + HistorySize) % HistorySize

\* The slot after the current one, where the next block goes.
ShortNextSlot == (history_slot + 1) % (HistorySize - 1)           \* a mutant
NextSlot == IF history_slot < 0 THEN 0 ELSE (history_slot + 1) % HistorySize

SlotTs(s) == Stamp(ring[s]["hi"], ring[s]["lo"])

MayWrite(w) == WriteAllow \/ w = Creator

Reading(t) == t \in Time /\ t >= clock + ClockStep /\ clock' = t

\* The cycle watch: the latest block is younger than the minimum cycle time.
NeverTooFast(ts) == FALSE                                         \* a mutant
TooFast(ts) ==
  LET s == ScanSlot(history_slot)
  IN  MinCycle > 0 /\ ring[s]["hi"] # 0 /\ ts - SlotTs(s) < MinCycle

-----------------------------------------------------------------------------
\* writedata: read the clock, then check the permission.
WriteBegin(w) ==
  /\ MayWrite(w)
  /\ blocks < MaxBlocks
  /\ Goto(w, "idle", IF WriteAllow THEN "lock" ELSE "watch")
  /\ \E t \in Time, size \in Sizes, given \in DataTimes :
       /\ Reading(t)
       /\ wblock' = [wblock EXCEPT ![w] = [id |-> blocks + 1, size |-> size,
                                 given |-> given, ts |-> t, slot |-> 0,
                                 ptr |-> FALSE]]
  /\ blocks' = blocks + 1
  /\ UNCHANGED <<ring, history_slot, deleted, obj_lock, reuses, wtodo, hist,
                 cur, first>>

\* Concurrent writers exclude each other.
TakeObjLockAnyway(w) ==                                           \* a mutant
  /\ Goto(w, "lock", "watch")
  /\ obj_lock' = w
  /\ UNCHANGED <<ring, history_slot, deleted, clock, blocks, reuses, wblock,
                 wtodo, hist, cur, first>>
TakeObjLock(w) ==
  /\ Goto(w, "lock", "watch")
  /\ obj_lock = NoWriter
  /\ obj_lock' = w
  /\ UNCHANGED <<ring, history_slot, deleted, clock, blocks, reuses, wblock,
                 wtodo, hist, cur, first>>

\* writedata returns TOOFAST and changes nothing.
WriteTooFast(w) ==
  /\ TooFast(wblock[w].ts)
  /\ Goto(w, "watch", "idle")
  /\ obj_lock' = IF WriteAllow THEN NoWriter ELSE obj_lock
  /\ UNCHANGED <<ring, history_slot, deleted, clock, blocks, reuses, wblock,
                 wtodo, hist, cur, first>>

\* Choose the slot.  A commit time equal to the one in the slot is moved by 1.
ChooseSlot(w) ==
  /\ ~TooFast(wblock[w].ts)
  /\ Goto(w, "watch", "inv_hi")
  /\ wblock' = [wblock EXCEPT
        ![w].slot = NextSlot,
        ![w].ts = IF @ = SlotTs(NextSlot) /\ ~SimMode THEN @ + 1 ELSE @]
  /\ UNCHANGED <<ring, history_slot, deleted, obj_lock, clock, blocks, reuses,
                 wtodo, hist, cur, first>>

\* writedata_ptr_begin: choose the slot; the caller writes into it directly.
PtrBegin(w) ==
  /\ w = Creator /\ ~WriteAllow /\ PtrWrites
  /\ blocks < MaxBlocks
  /\ Goto(w, "idle", "inv_hi")
  /\ \E size \in Sizes, given \in DataTimes :
       wblock' = [wblock EXCEPT ![w] = [id |-> blocks + 1, size |-> size,
                            given |-> given, ts |-> 0, slot |-> NextSlot,
                            ptr |-> TRUE]]
  /\ blocks' = blocks + 1
  /\ UNCHANGED <<ring, history_slot, deleted, obj_lock, clock, reuses, wtodo,
                 hist, cur, first>>

\* COPY_INT64_HIGHFIRST of the invalid timestamp, word by word.
SkipInvalidateHigh(w) ==                                          \* a mutant
  Goto(w, "inv_hi", "copy") /\ wtodo' = [wtodo EXCEPT ![w] = CopyWord] /\
  UNCHANGED <<ring, history_slot, deleted, obj_lock, clock, blocks, reuses,
              wblock, hist, cur, first>>
InvalidateHigh(w) ==
  /\ Goto(w, "inv_hi", "inv_lo")
  /\ ring' = [ring EXCEPT ![wblock[w].slot]["hi"] = 0]
  /\ UNCHANGED <<history_slot, deleted, obj_lock, clock, blocks, reuses,
                 wblock, wtodo, hist, cur, first>>

SkipInvalidateLow(w) ==                                           \* a mutant
  Goto(w, "inv_lo", "copy") /\ wtodo' = [wtodo EXCEPT ![w] = CopyWord] /\
  UNCHANGED <<ring, history_slot, deleted, obj_lock, clock, blocks, reuses,
              wblock, hist, cur, first>>
InvalidateLow(w) ==
  /\ Goto(w, "inv_lo", "copy")
  /\ ring' = [ring EXCEPT ![wblock[w].slot]["lo"] = 0]
  /\ wtodo' = [wtodo EXCEPT ![w] = CopyWord]
  /\ UNCHANGED <<history_slot, deleted, obj_lock, clock, blocks, reuses,
                 wblock, hist, cur, first>>

\* memcpy, or the caller between ptr_begin and ptr_commit: the words of the
\* block reach the slot in any order.
CopyIn(w) ==
  /\ wpc[w] = "copy"
  /\ \E x \in wtodo[w] :
       /\ wtodo' = [wtodo EXCEPT ![w] = @ \ {x}]
       /\ ring' = [ring EXCEPT ![wblock[w].slot][x] =
                     IF x = "data_ts" THEN wblock[w].given
                                      ELSE Contents(wblock[w], x)]
  /\ UNCHANGED <<history_slot, deleted, obj_lock, clock, blocks, reuses, wpc,
                 wblock, hist, cur, first>>

CopiedIn(w) ==
  /\ ~wblock[w].ptr /\ wtodo[w] = {}
  /\ Goto(w, "copy", "stamp")
  /\ UNCHANGED <<ring, history_slot, deleted, obj_lock, clock, blocks, reuses,
                 wblock, wtodo, hist, cur, first>>

\* writedata_ptr_commit: read the clock; TOOFAST leaves the slot invalid and
\* the caller may try again.  The pointer is still the next slot: the caller
\* is the only writer and has committed nothing since ptr_begin.
PtrCommit(w) ==
  /\ wpc[w] = "copy" /\ wblock[w].ptr /\ wtodo[w] = {}
  /\ \E t \in Time :
       /\ Reading(t)
       /\ IF TooFast(t)
            THEN UNCHANGED <<wpc, wblock>>
            ELSE /\ Goto(w, "copy", "stamp")
                 /\ wblock' = [wblock EXCEPT ![w].ts = t]
  /\ UNCHANGED <<ring, history_slot, deleted, obj_lock, blocks, reuses, wtodo,
                 hist, cur, first>>

\* A block without a data time gets its commit time.
SetDataTs(w) ==
  /\ Goto(w, "stamp", "pub_lo")
  /\ ring' = [ring EXCEPT ![wblock[w].slot]["data_ts"] =
                            IF @ = 0 THEN wblock[w].ts ELSE @]
  /\ UNCHANGED <<history_slot, deleted, obj_lock, clock, blocks, reuses,
                 wblock, wtodo, hist, cur, first>>

\* COPY_INT64_LOWFIRST of the commit time, word by word.
PublishLow(w) ==
  /\ Goto(w, "pub_lo", "pub_hi")
  /\ ring' = [ring EXCEPT ![wblock[w].slot]["lo"] = Lo(wblock[w].ts)]
  /\ hist' = Append(hist, wblock[w])
  /\ UNCHANGED <<history_slot, deleted, obj_lock, clock, blocks, reuses,
                 wblock, wtodo, cur, first>>

PublishHigh(w) ==
  /\ Goto(w, "pub_hi", "current")
  /\ ring' = [ring EXCEPT ![wblock[w].slot]["hi"] = Hi(wblock[w].ts)]
  /\ UNCHANGED <<history_slot, deleted, obj_lock, clock, blocks, reuses,
                 wblock, wtodo, hist, cur, first>>

MakeCurrent(w) ==
  /\ Goto(w, "current", IF WriteAllow THEN "unlock" ELSE "idle")
  /\ history_slot' = wblock[w].slot
  /\ cur' = Len(hist)
  /\ UNCHANGED <<ring, deleted, obj_lock, clock, blocks, reuses, wblock,
                 wtodo, hist, first>>

ReleaseObjLock(w) ==
  /\ Goto(w, "unlock", "idle")
  /\ obj_lock' = NoWriter
  /\ UNCHANGED <<ring, history_slot, deleted, clock, blocks, reuses, wblock,
                 wtodo, hist, cur, first>>

\* The writer's process is killed in a call: its half-written slot and its
\* lock stay.  (One killed between calls just makes no further call.)
Crash(w) ==
  /\ wpc[w] \notin {"idle", "dead"}
  /\ wpc' = [wpc EXCEPT ![w] = "dead"]
  /\ UNCHANGED <<ring, history_slot, deleted, obj_lock, clock, blocks, reuses,
                 wblock, wtodo, hist, cur, first>>

-----------------------------------------------------------------------------
\* kogmo_rtdb_obj_delete marks the object deleted and keeps its ring.
Delete ==
  /\ ~deleted
  /\ deleted' = TRUE
  /\ UNCHANGED <<ring, history_slot, obj_lock, clock, blocks, reuses, wvars,
                 hist, cur, first>>

\* kogmo_rtdb_obj_insert of the same process gives a deleted keep_alloc
\* object's metadata slot and ring to a new object.  The ring is not cleared.
Reuse ==
  /\ deleted /\ reuses < MaxReuse
  /\ \A w \in Writers : wpc[w] \in {"idle", "dead"}
  /\ wpc[Creator] = "idle"
  /\ deleted' = FALSE /\ reuses' = reuses + 1
  /\ history_slot' = -1
  /\ first' = Len(hist)
  /\ UNCHANGED <<ring, obj_lock, clock, blocks, wvars, hist, cur>>

WriterStep(w) ==
  \/ WriteBegin(w) \/ TakeObjLock(w) \/ WriteTooFast(w) \/ ChooseSlot(w)
  \/ PtrBegin(w) \/ PtrCommit(w)
  \/ InvalidateHigh(w) \/ InvalidateLow(w) \/ CopyIn(w) \/ CopiedIn(w)
  \/ SetDataTs(w) \/ PublishLow(w) \/ PublishHigh(w) \/ MakeCurrent(w)
  \/ ReleaseObjLock(w)

RingNext ==
  \/ \E w \in Writers : WriterStep(w) \/ Crash(w)
  \/ Delete
  \/ Reuse

-----------------------------------------------------------------------------
\* Types of the ring and of the writers' calls: part of the type invariant of
\* every module that adds readers.
RingTypeOK ==
  /\ ring \in [Slot -> [Word -> Nat]]
  /\ history_slot \in -1 .. HistorySize - 1
  /\ deleted \in BOOLEAN
  /\ obj_lock \in Writers \cup {NoWriter}
  /\ clock \in Nat /\ blocks \in Nat /\ reuses \in Nat
  /\ wpc \in [Writers -> WriterPc]
  /\ wblock \in [Writers -> Block]
  /\ wtodo \in [Writers -> SUBSET CopyWord]
  /\ hist \in Seq(Block)
  /\ cur \in 0 .. Len(hist) /\ first \in 0 .. Len(hist)
=============================================================================
