-------------------------- MODULE RtdbRecordProofs --------------------------
(***************************************************************************)
(* Proofs about the two tools that keep a session and bring it back:       *)
(* RtdbRecord, for any number of objects and blocks, any capacity of the   *)
(* queue and any session; RtdbPlayCtrl, for any number of programs and     *)
(* commands and whatever the clock shows; RtdbPlay, for any files, options *)
(* and commands.                                                           *)
(***************************************************************************)
EXTENDS RtdbRecord, RtdbPlayCtrl, RtdbPlay, FiniteSetTheorems, SequenceTheorems, TLAPS

Busy == {"info", "note", "fetch", "copy", "copy2", "check"}
RecorderPlaces ==
  {"activate", "drain", "search", "initial", "count", "receive", "recount", "stopped", "died"}
  \cup Busy
EventKinds == {"none", "inserted", "updated", "deleted"}
Messages == [oid : Nat, ts : Nat, event : EventKinds, slot : Int]

RecordFunctions ==
  /\ obj \in [Objs -> {"absent", "live", "deleted", "purged"}]
  /\ ring \in [Objs -> [HistSlots -> [ts : Nat, data : Nat \X Nat]]]
  /\ commits \in [Objs -> Nat] /\ clock \in Nat
  /\ sending \in [Objs -> Messages]
  /\ queue \in Seq(Messages) /\ event \in Messages
  /\ at \in RecorderPlaces /\ flushing \in BOOLEAN /\ missed \in BOOLEAN
  /\ initial_ts \in Nat /\ slot_ts \in Nat /\ data \in Nat \X Nat /\ count \in Nat
  /\ initial \subseteq Objs

\* A block that is valid is whole, and one that is being written is newer than all of
\* them, in the slot that is the next of its object.
RingOK ==
  \A o \in Objs, i \in HistSlots :
    /\ ring[o][i].ts <= clock
    /\ ring[o][i].ts # 0 => ring[o][i].data = <<ring[o][i].ts, ring[o][i].ts>>
    /\ ring[o][i].data[1] <= clock + 1
    /\ ring[o][i].data[1] > clock => obj[o] = "live" /\ i = NextSlot(o) /\ sending[o] = NoEvent

\* A message about a commit names the slot, in which that block is, or a younger one,
\* or none.
MessageOK(m, r, now) ==
  /\ m.oid \in Objs /\ m.ts <= now /\ m.event # "none"
  /\ m.event = "updated" =>
       m.slot \in HistSlots /\ r[m.oid][m.slot].ts \in {0} \cup {t \in Nat : t >= m.ts}

MessagesOK ==
  /\ \A o \in Objs : sending[o] # NoEvent => sending[o].oid = o /\ MessageOK(sending[o], ring, clock)
  /\ \A i \in 1 .. Len(queue) : MessageOK(queue[i], ring, clock)
  /\ at \in {"recount"} \cup Busy => MessageOK(event, ring, clock)
  /\ at \in {"fetch", "copy", "copy2", "check"} => event.event = "updated"
  /\ at = "note" => event.event # "updated"

\* What has been copied of the slot is the block's, as long as that is still there.
CopyOK ==
  at \in {"copy", "copy2", "check"} =>
    /\ slot_ts # 0 /\ slot_ts >= event.ts /\ slot_ts <= clock
    /\ ring[event.oid][event.slot].ts = slot_ts =>
         (at # "copy" => data[1] = slot_ts) /\ (at = "check" => data[2] = slot_ts)

\* The queue is bounded.  Nothing is recorded before it is empty, and then the trace
\* is on.
StartOK ==
  /\ Len(queue) <= BufSize
  /\ at \in {"activate", "drain", "search"} => flushing
  /\ at \in {"initial"} \cup Busy => ~flushing
  /\ flushing => file = <<>> /\ ~missed
  /\ at \notin {"activate", "stopped", "died"} => rtdb_trace
  /\ missed /\ at = "receive" => count = BufSize

GoodChunks ==
  {c \in [type : {"rfr", "add", "del", "upd", "error"}, oid : Nat, ts : Nat, data : Nat \X Nat] :
     c.type = "upd" =>
       /\ c.data[1] = c.data[2] /\ c.data[1] # 0
       /\ c.data[1] >= c.ts \/ c.ts = initial_ts}

FileOK == file \in Seq(GoodChunks)

RecordInv ==
  /\ RecordFunctions /\ RingOK /\ MessagesOK /\ CopyOK /\ StartOK /\ FileOK
  /\ LossIsNoticed /\ NoObjectIsMissed

USE RecordAssumption

LEMMA SlotsOfRing ==
  ASSUME RecordFunctions, NEW o \in Objs
  PROVE  NextSlot(o) \in HistSlots
<1>1. HistorySize \in Nat \ {0} /\ commits[o] \in Nat
  BY DEF RecordFunctions
<1>2. commits[o] % HistorySize \in 0 .. HistorySize - 1
  BY <1>1, Z3
<1>3. QED
  BY <1>2 DEF NextSlot, HistSlots

LEMMA RecordInitInv == RecordInit => RecordInv
<1> SUFFICES ASSUME RecordInit
             PROVE  RecordInv
  OBVIOUS
<1> USE DEF RecordInit
<1>1. RecordFunctions
  <2>1. NoBlock \in [ts : Nat, data : Nat \X Nat] /\ NoData \in Nat \X Nat /\ NoEvent \in Messages
    BY DEF NoBlock, NoData, NoEvent, Messages, EventKinds
  <2>2. queue \in Seq(Messages)
    OBVIOUS
  <2>3. ring \in [Objs -> [HistSlots -> [ts : Nat, data : Nat \X Nat]]]
    BY <2>1
  <2>4. QED
    BY <2>1, <2>2, <2>3 DEF RecordFunctions, RecorderPlaces
<1>2. RingOK
  BY DEF RingOK, NoBlock
<1>3. MessagesOK /\ CopyOK /\ StartOK
  BY DEF MessagesOK, CopyOK, StartOK, Busy
<1>4. FileOK
  BY DEF FileOK
<1>5. LossIsNoticed /\ NoObjectIsMissed
  BY DEF LossIsNoticed, NoObjectIsMissed
<1>6. QED
  BY <1>1, <1>2, <1>3, <1>4, <1>5 DEF RecordInv

-----------------------------------------------------------------------------
(* The owners.  Blocks are replaced by younger ones, or vanish, so that what *)
(* a message says of a slot and what has been copied of it stay right.       *)

LEMMA RingMoves ==
  ASSUME RecordInv, RecorderUnchanged, clock' \in Nat, clock' >= clock, RingOK',
         \A o \in Objs, i \in HistSlots :
           ring'[o][i].ts \in {ring[o][i].ts, 0} \cup {t \in Nat : t > clock}
  PROVE  /\ \A m \in Messages : MessageOK(m, ring, clock) => MessageOK(m, ring', clock')
         /\ CopyOK'
<1>1. \A m \in Messages : MessageOK(m, ring, clock) => MessageOK(m, ring', clock')
  <2> SUFFICES ASSUME NEW m \in Messages, MessageOK(m, ring, clock)
               PROVE  MessageOK(m, ring', clock')
    OBVIOUS
  <2>1. m.oid \in Objs /\ m.ts \in Nat /\ m.ts <= clock' /\ m.event # "none"
    BY SMTT(30) DEF MessageOK, RecordInv, RecordFunctions, Messages
  <2>2. ASSUME m.event = "updated"
        PROVE  m.slot \in HistSlots /\ ring'[m.oid][m.slot].ts \in {0} \cup {t \in Nat : t >= m.ts}
    <3>1. m.oid \in Objs /\ m.slot \in HistSlots
          /\ ring[m.oid][m.slot].ts \in {0} \cup {t \in Nat : t >= m.ts}
      BY <2>2 DEF MessageOK
    <3>2. ring'[m.oid][m.slot].ts \in {ring[m.oid][m.slot].ts, 0} \cup {t \in Nat : t > clock}
      BY <3>1
    <3>3. m.ts <= clock /\ clock \in Nat /\ m.ts \in Nat
      BY <2>1 DEF MessageOK, RecordInv, RecordFunctions
    <3>4. QED
      BY <3>1, <3>2, <3>3
  <2>3. QED
    BY <2>1, <2>2 DEF MessageOK
<1>2. UNCHANGED <<at, slot_ts, event, data>>
  BY DEF RecorderUnchanged, fetchVars
<1>3. ASSUME at \notin {"copy", "copy2", "check"}
      PROVE  CopyOK'
  BY <1>2, <1>3 DEF CopyOK
<1>4. ASSUME at \in {"copy", "copy2", "check"}
      PROVE  CopyOK'
  <2>1. event.oid \in Objs /\ event.slot \in HistSlots
    BY <1>4 DEF RecordInv, MessagesOK, MessageOK, Busy
  <2>2. slot_ts # 0 /\ slot_ts >= event.ts /\ slot_ts <= clock /\ slot_ts \in Nat
    BY <1>4 DEF RecordInv, CopyOK, RecordFunctions
  <2>3. ring'[event.oid][event.slot].ts = slot_ts => ring[event.oid][event.slot].ts = slot_ts
    <3>1. ring'[event.oid][event.slot].ts \in {ring[event.oid][event.slot].ts, 0} \cup {t \in Nat : t > clock}
      BY <2>1
    <3>2. clock \in Nat
      BY DEF RecordInv, RecordFunctions
    <3>3. QED
      BY <2>2, <3>1, <3>2
  <2>4. event.ts \in Nat
    BY DEF RecordInv, RecordFunctions, Messages
  <2>5. QED
    BY <1>2, <2>2, <2>3, <2>4 DEF CopyOK, RecordInv, RecordFunctions
<1>5. QED
  BY <1>1, <1>3, <1>4

\* What the owners do not touch.
LEMMA OwnersLeave ==
  ASSUME RecordInv, RecorderUnchanged
  PROVE  /\ FileOK'
         /\ UNCHANGED <<queue, missed, rtdb_trace>> => StartOK' /\ LossIsNoticed'
<1>1. UNCHANGED <<at, flushing, initial_ts, count, file>>
  BY DEF RecorderUnchanged, startVars
<1>2. GoodChunks' = GoodChunks
  BY <1>1 DEF GoodChunks
<1>3. FileOK'
  BY <1>1, <1>2 DEF RecordInv, FileOK
<1>4. ASSUME UNCHANGED <<queue, missed, rtdb_trace>>
      PROVE  StartOK' /\ LossIsNoticed'
  BY <1>1, <1>4 DEF RecordInv, StartOK, LossIsNoticed
<1>5. QED
  BY <1>3, <1>4

\* An owner does something to its object and has, at most, a message to send.
LEMMA OwnerActs ==
  ASSUME RecordInv, RecorderUnchanged, RecordFunctions', NEW o \in Objs,
         UNCHANGED <<queue, missed, rtdb_trace>>, clock' >= clock, RingOK',
         \A q \in Objs, i \in HistSlots :
           ring'[q][i].ts \in {ring[q][i].ts, 0} \cup {t \in Nat : t > clock},
         \A q \in Objs \ {o} : obj'[q] = obj[q] /\ sending'[q] = sending[q],
         sending'[o] = sending[o] \/ (sending'[o].oid = o /\ MessageOK(sending'[o], ring', clock')),
         obj'[o] = "live" =>
           \/ sending'[o].event = "inserted"
           \/ obj[o] = "live" /\ sending[o].event # "inserted"
           \/ UNCHANGED sending /\ obj[o] = "live"
  PROVE  RecordInv'
<1>1. UNCHANGED <<at, event, initial>>
  BY DEF RecorderUnchanged, fetchVars, startVars
<1>2. /\ \A m \in Messages : MessageOK(m, ring, clock) => MessageOK(m, ring', clock')
      /\ CopyOK'
  BY RingMoves DEF RecordFunctions
<1>3. FileOK' /\ StartOK' /\ LossIsNoticed'
  BY OwnersLeave
<1>4. MessagesOK'
  <2>1. \A q \in Objs : sending'[q] # NoEvent => sending'[q].oid = q /\ MessageOK(sending'[q], ring', clock')
    <3> SUFFICES ASSUME NEW q \in Objs, sending'[q] # NoEvent
                 PROVE  sending'[q].oid = q /\ MessageOK(sending'[q], ring', clock')
      OBVIOUS
    <3>1. CASE sending'[q] = sending[q]
      <4>1. sending[q] \in Messages /\ sending[q].oid = q /\ MessageOK(sending[q], ring, clock)
        BY <3>1 DEF RecordInv, MessagesOK, RecordFunctions
      <4>2. QED
        BY <3>1, <4>1, <1>2
    <3>2. CASE sending'[q] # sending[q]
      BY <3>2
    <3>3. QED
      BY <3>1, <3>2
  <2>2. \A i \in 1 .. Len(queue) : queue[i] \in Messages /\ MessageOK(queue[i], ring, clock)
    BY ElementOfSeq DEF RecordInv, MessagesOK, RecordFunctions
  <2>3. at \in {"recount"} \cup Busy => MessageOK(event, ring', clock')
    BY <1>2 DEF RecordInv, MessagesOK, RecordFunctions
  <2>4. QED
    BY <1>1, <1>2, <2>1, <2>2, <2>3 DEF RecordInv, MessagesOK
<1>5. NoObjectIsMissed'
  BY <1>1 DEF RecordInv, NoObjectIsMissed
<1>6. QED
  BY <1>2, <1>3, <1>4, <1>5 DEF RecordInv

LEMMA InsertInv ==
  ASSUME RecordInv, NEW o \in Objs, InsertObject(o)
  PROVE  RecordInv'
<1> USE DEF InsertObject
<1>1. Message(o, clock, "inserted", -1) \in Messages
  BY DEF RecordInv, RecordFunctions, Message, Messages, EventKinds, Objs
<1>2. RecordFunctions'
  BY <1>1 DEF RecordInv, RecordFunctions, RecorderUnchanged, fetchVars, startVars
<1>3. RingOK'
  BY DEF RecordInv, RingOK, RecordFunctions, NextSlot
<1>4. sending'[o].event = "inserted" /\ sending'[o].oid = o /\ MessageOK(sending'[o], ring', clock')
  BY DEF RecordInv, RecordFunctions, Message, MessageOK
<1>5. \A q \in Objs \ {o} : obj'[q] = obj[q] /\ sending'[q] = sending[q]
  BY DEF RecordInv, RecordFunctions
<1>6. \A q \in Objs, i \in HistSlots :
        ring'[q][i].ts \in {ring[q][i].ts, 0} \cup {t \in Nat : t > clock}
  OBVIOUS
<1>7. clock' >= clock
  BY DEF RecordInv, RecordFunctions
<1>8. UNCHANGED <<queue, missed, rtdb_trace>> /\ RecorderUnchanged
  OBVIOUS
<1> HIDE DEF InsertObject
<1>9. QED
  BY <1>2, <1>3, <1>4, <1>5, <1>6, <1>7, <1>8, OwnerActs

LEMMA BeginWriteInv ==
  ASSUME RecordInv, NEW o \in Objs, BeginWrite(o)
  PROVE  RecordInv'
<1> DEFINE k == NextSlot(o)
           b == [ts |-> 0, data |-> <<clock + 1, ring[o][k].data[2]>>]
<1>1. k \in HistSlots
  BY SlotsOfRing DEF RecordInv
<1>2. ring' = [ring EXCEPT ![o] = [ring[o] EXCEPT ![k] = b]]
  BY DEF BeginWrite
<1> HIDE DEF k
<1>3. b \in [ts : Nat, data : Nat \X Nat]
  BY <1>1 DEF RecordInv, RecordFunctions
<1>4. \A q \in Objs, i \in HistSlots :
        ring'[q][i] = IF q = o /\ i = k THEN b ELSE ring[q][i]
  BY <1>1, <1>2 DEF RecordInv, RecordFunctions
<1>5. RecordFunctions'
  <2>1. ring' \in [Objs -> [HistSlots -> [ts : Nat, data : Nat \X Nat]]]
    BY <1>1, <1>2, <1>3 DEF RecordInv, RecordFunctions
  <2>2. QED
    BY <2>1 DEF BeginWrite, RecordInv, RecordFunctions, RecorderUnchanged, fetchVars, startVars
<1>6. RingOK'
  <2> SUFFICES ASSUME NEW q \in Objs, NEW i \in HistSlots
               PROVE  /\ ring'[q][i].ts <= clock
                      /\ ring'[q][i].ts # 0 => ring'[q][i].data = <<ring'[q][i].ts, ring'[q][i].ts>>
                      /\ ring'[q][i].data[1] <= clock + 1
                      /\ ring'[q][i].data[1] > clock =>
                           obj[q] = "live" /\ i = NextSlot(q) /\ sending[q] = NoEvent
    BY DEF BeginWrite, RingOK, NextSlot
  <2>1. CASE q = o /\ i = k
    <3>1. ring'[q][i] = b /\ clock \in Nat
      BY <2>1, <1>4 DEF RecordInv, RecordFunctions
    <3>2. obj[o] = "live" /\ sending[o] = NoEvent
      BY DEF BeginWrite
    <3>3. QED
      BY <2>1, <3>1, <3>2 DEF k
  <2>2. CASE ~(q = o /\ i = k)
    BY <2>2, <1>4 DEF RecordInv, RingOK
  <2>3. QED
    BY <2>1, <2>2
<1>7. \A q \in Objs, i \in HistSlots :
        ring'[q][i].ts \in {ring[q][i].ts, 0} \cup {t \in Nat : t > clock}
  BY <1>4
<1>8. clock' >= clock
  BY DEF BeginWrite, RecordInv, RecordFunctions
<1>9. /\ UNCHANGED <<obj, sending, queue, missed, rtdb_trace>> /\ RecorderUnchanged
      /\ obj[o] = "live"
  BY DEF BeginWrite
<1>10. QED
  BY <1>5, <1>6, <1>7, <1>8, <1>9, OwnerActs

LEMMA CommitWriteInv ==
  ASSUME RecordInv, NEW o \in Objs, CommitWrite(o)
  PROVE  RecordInv'
<1> DEFINE k == NextSlot(o)
           b == [ts |-> clock + 1, data |-> <<clock + 1, clock + 1>>]
<1>1. k \in HistSlots
  BY SlotsOfRing DEF RecordInv
<1>2. /\ ring' = [ring EXCEPT ![o] = [ring[o] EXCEPT ![k] = b]] /\ clock' = clock + 1
      /\ sending' = [sending EXCEPT ![o] = Message(o, clock + 1, "updated", k)]
  BY DEF CommitWrite
<1>3. sending[o] = NoEvent
  BY <1>1 DEF CommitWrite, Writing, RecordInv, RingOK
<1> HIDE DEF k
<1>4. b \in [ts : Nat, data : Nat \X Nat] /\ Message(o, clock + 1, "updated", k) \in Messages
  BY SMTT(30), <1>1 DEF RecordInv, RecordFunctions, Message, Messages, EventKinds, HistSlots, Objs
<1>5. \A q \in Objs, i \in HistSlots :
        ring'[q][i] = IF q = o /\ i = k THEN b ELSE ring[q][i]
  BY <1>1, <1>2 DEF RecordInv, RecordFunctions
<1>6. RecordFunctions'
  <2>1. ring' \in [Objs -> [HistSlots -> [ts : Nat, data : Nat \X Nat]]]
    BY <1>1, <1>2, <1>4 DEF RecordInv, RecordFunctions
  <2>2. sending' \in [Objs -> Messages] /\ clock' \in Nat
    BY <1>2, <1>4 DEF RecordInv, RecordFunctions
  <2>3. commits' \in [Objs -> Nat]
    BY DEF CommitWrite, RecordInv, RecordFunctions
  <2>4. QED
    BY <2>1, <2>2, <2>3 DEF CommitWrite, RecordInv, RecordFunctions, RecorderUnchanged, fetchVars, startVars
<1>7. RingOK'
  <2> SUFFICES ASSUME NEW q \in Objs, NEW i \in HistSlots
               PROVE  /\ ring'[q][i].ts <= clock + 1
                      /\ ring'[q][i].ts # 0 => ring'[q][i].data = <<ring'[q][i].ts, ring'[q][i].ts>>
                      /\ ring'[q][i].data[1] <= (clock + 1) + 1
                      /\ ~(ring'[q][i].data[1] > clock + 1)
    BY <1>2 DEF RingOK
  <2>1. clock \in Nat /\ ring[q][i].ts \in Nat /\ ring[q][i].data[1] \in Nat
    BY DEF RecordInv, RecordFunctions
  <2>2. CASE q = o /\ i = k
    BY <2>1, <2>2, <1>5
  <2>3. CASE ~(q = o /\ i = k)
    BY <2>1, <2>3, <1>5 DEF RecordInv, RingOK
  <2>4. QED
    BY <2>2, <2>3
<1>8. \A q \in Objs, i \in HistSlots :
        ring'[q][i].ts \in {ring[q][i].ts, 0} \cup {t \in Nat : t > clock}
  <2>1. b.ts \in {t \in Nat : t > clock}
    BY DEF RecordInv, RecordFunctions
  <2> HIDE DEF b
  <2>2. QED
    BY <1>5, <2>1
<1>9. sending'[o].oid = o /\ MessageOK(sending'[o], ring', clock')
  <2>1. sending'[o] = Message(o, clock + 1, "updated", k) /\ ring'[o][k].ts = clock + 1 /\ clock + 1 \in Nat
    BY <1>1, <1>2, <1>5, SMTT(30) DEF RecordInv, RecordFunctions
  <2>2. QED
    BY <1>1, <1>2, <2>1 DEF Message, MessageOK
<1>10. \A q \in Objs \ {o} : obj'[q] = obj[q] /\ sending'[q] = sending[q]
  BY <1>2 DEF CommitWrite, RecordInv, RecordFunctions
<1>11. obj[o] = "live" /\ sending[o].event # "inserted"
  BY <1>3 DEF CommitWrite, NoEvent
<1>12. clock' >= clock
  BY <1>2 DEF RecordInv, RecordFunctions
<1>13. UNCHANGED <<queue, missed, rtdb_trace>> /\ RecorderUnchanged
  BY DEF CommitWrite
<1>14. QED
  BY <1>6, <1>7, <1>8, <1>9, <1>10, <1>11, <1>12, <1>13, OwnerActs

LEMMA DeleteObjectInv ==
  ASSUME RecordInv, NEW o \in Objs, DeleteObject(o)
  PROVE  RecordInv'
<1> USE DEF DeleteObject
<1>1. Message(o, clock, "deleted", -1) \in Messages
  BY DEF RecordInv, RecordFunctions, Message, Messages, EventKinds, Objs
<1>2. RecordFunctions'
  BY <1>1 DEF RecordInv, RecordFunctions, RecorderUnchanged, fetchVars, startVars
<1>3. RingOK'
  BY SlotsOfRing DEF RecordInv, RingOK, RecordFunctions, NextSlot, Writing
<1>4. sending'[o] = Message(o, clock, "deleted", -1) /\ obj'[o] = "deleted"
  BY DEF RecordInv, RecordFunctions
<1>5. sending'[o].oid = o /\ MessageOK(sending'[o], ring', clock')
  BY <1>4 DEF RecordInv, RecordFunctions, Message, MessageOK
<1>6. \A q \in Objs \ {o} : obj'[q] = obj[q] /\ sending'[q] = sending[q]
  BY DEF RecordInv, RecordFunctions
<1>7. \A q \in Objs, i \in HistSlots :
        ring'[q][i].ts \in {ring[q][i].ts, 0} \cup {t \in Nat : t > clock}
  OBVIOUS
<1>8. clock' >= clock
  BY DEF RecordInv, RecordFunctions
<1>9. UNCHANGED <<queue, missed, rtdb_trace>> /\ RecorderUnchanged
  OBVIOUS
<1> HIDE DEF DeleteObject
<1>10. QED
  BY <1>2, <1>3, <1>4, <1>5, <1>6, <1>7, <1>8, <1>9, OwnerActs

LEMMA PurgeObjectInv ==
  ASSUME RecordInv, NEW o \in Objs, PurgeObject(o)
  PROVE  RecordInv'
<1> USE DEF PurgeObject
<1>1. NoBlock \in [ts : Nat, data : Nat \X Nat] /\ NoBlock.ts = 0 /\ NoBlock.data[1] = 0
  BY DEF NoBlock
<1>2. \A q \in Objs, i \in HistSlots : ring'[q][i] = IF q = o THEN NoBlock ELSE ring[q][i]
  BY DEF RecordInv, RecordFunctions
<1>3. RecordFunctions'
  BY <1>1 DEF RecordInv, RecordFunctions, RecorderUnchanged, fetchVars, startVars
<1>4. RingOK'
  <2> SUFFICES ASSUME NEW q \in Objs, NEW i \in HistSlots
               PROVE  /\ ring'[q][i].ts <= clock
                      /\ ring'[q][i].ts # 0 => ring'[q][i].data = <<ring'[q][i].ts, ring'[q][i].ts>>
                      /\ ring'[q][i].data[1] <= clock + 1
                      /\ ring'[q][i].data[1] > clock =>
                           obj'[q] = "live" /\ i = NextSlot(q) /\ sending[q] = NoEvent
    BY DEF RingOK, NextSlot
  <2>1. clock \in Nat
    BY DEF RecordInv, RecordFunctions
  <2>2. CASE q = o
    BY <2>1, <2>2, <1>1, <1>2
  <2>3. CASE q # o
    <3>1. ring'[q][i] = ring[q][i] /\ obj'[q] = obj[q]
      BY <2>3, <1>2 DEF RecordInv, RecordFunctions
    <3>2. QED
      BY <3>1 DEF RecordInv, RingOK
  <2>4. QED
    BY <2>2, <2>3
<1>5. \A q \in Objs, i \in HistSlots :
        ring'[q][i].ts \in {ring[q][i].ts, 0} \cup {t \in Nat : t > clock}
  BY <1>1, <1>2
<1>6. obj'[o] = "purged" /\ \A q \in Objs \ {o} : obj'[q] = obj[q] /\ sending'[q] = sending[q]
  BY DEF RecordInv, RecordFunctions
<1>7. clock' >= clock
  BY DEF RecordInv, RecordFunctions
<1>8. UNCHANGED <<sending, queue, missed, rtdb_trace>> /\ RecorderUnchanged
  OBVIOUS
<1> HIDE DEF PurgeObject
<1>9. QED
  BY <1>3, <1>4, <1>5, <1>6, <1>7, <1>8, OwnerActs

\* A message is lost only when the queue is full, and then the recorder is going to
\* see that.
LEMMA SendTraceInv ==
  ASSUME RecordInv, NEW o \in Objs, SendTrace(o)
  PROVE  RecordInv'
<1>1. /\ sending[o] \in Messages /\ MessageOK(sending[o], ring, clock)
      /\ NoEvent \in Messages
  BY DEF SendTrace, RecordInv, MessagesOK, RecordFunctions, NoEvent, Messages, EventKinds
<1>2. /\ UNCHANGED <<obj, ring, commits, clock, rtdb_trace>> /\ RecorderUnchanged
      /\ sending' = [sending EXCEPT ![o] = NoEvent]
  BY DEF SendTrace
<1>3. UNCHANGED <<at, flushing, initial, initial_ts, event, slot_ts, data, count, file>>
  BY <1>2 DEF RecorderUnchanged, startVars, fetchVars
<1>4. \/ UNCHANGED <<queue, missed>> /\ ~rtdb_trace
      \/ Len(queue) < BufSize /\ queue' = Append(queue, sending[o]) /\ UNCHANGED missed
      \/ Len(queue) = BufSize /\ missed' = (missed \/ Noticeable) /\ UNCHANGED queue
  <2>1. Len(queue) \in Nat /\ BufSize \in Nat /\ Len(queue) <= BufSize
    BY LenProperties DEF RecordInv, RecordFunctions, StartOK
  <2>2. QED
    BY <2>1 DEF SendTrace, RecordInv, RecordFunctions
<1>5. /\ queue' \in Seq(Messages)
      /\ \A i \in 1 .. Len(queue) : i \in 1 .. Len(queue') /\ queue'[i] = queue[i]
      /\ \A i \in 1 .. Len(queue') : MessageOK(queue'[i], ring, clock)
  <2>1. CASE UNCHANGED queue
    BY <2>1 DEF RecordInv, RecordFunctions, MessagesOK
  <2>2. CASE queue' = Append(queue, sending[o])
    BY SMTT(30), <2>2, <1>1, AppendProperties DEF RecordInv, RecordFunctions, MessagesOK
  <2>3. QED
    BY <1>4, <2>1, <2>2
<1>6. RecordFunctions'
  BY <1>1, <1>2, <1>3, <1>4, <1>5 DEF RecordInv, RecordFunctions, Noticeable
<1>7. RingOK' /\ CopyOK'
  BY <1>1, <1>2, <1>3 DEF RecordInv, RecordFunctions, RingOK, CopyOK, NextSlot
<1>8. MessagesOK'
  BY <1>1, <1>2, <1>3, <1>5 DEF RecordInv, RecordFunctions, MessagesOK
<1>9. StartOK' /\ LossIsNoticed'
  <2>1. Len(queue) <= BufSize /\ BufSize \in Nat /\ Len(queue) \in Nat
    BY LenProperties DEF RecordInv, RecordFunctions, StartOK
  <2>2. \/ UNCHANGED queue
        \/ Len(queue) < BufSize /\ Len(queue') = Len(queue) + 1 /\ UNCHANGED missed
    BY <1>1, <1>4, AppendProperties DEF RecordInv, RecordFunctions
  <2>3. missed' => missed \/ (Len(queue) = BufSize /\ UNCHANGED queue /\ Noticeable)
    BY <1>4
  <2>4. QED
    BY <1>2, <1>3, <2>1, <2>2, <2>3 DEF RecordInv, StartOK, LossIsNoticed, Noticeable
<1>10. NoObjectIsMissed'
  <2> SUFFICES ASSUME at = "initial", NEW q \in Objs, obj[q] = "live", q \notin initial
               PROVE  \/ sending'[q].event = "inserted" \/ missed'
                      \/ \E i \in DOMAIN queue' : queue'[i].oid = q /\ queue'[i].event = "inserted"
    BY <1>2, <1>3 DEF NoObjectIsMissed
  <2>1. /\ DOMAIN queue = 1 .. Len(queue) /\ DOMAIN queue' = 1 .. Len(queue')
        /\ missed => missed'
    BY <1>4, <1>5, LenProperties DEF RecordInv, RecordFunctions
  <2>2. \/ sending[q].event = "inserted" \/ missed
        \/ \E i \in DOMAIN queue : queue[i].oid = q /\ queue[i].event = "inserted"
    BY DEF RecordInv, NoObjectIsMissed
  <2>3. CASE missed \/ \E i \in DOMAIN queue : queue[i].oid = q /\ queue[i].event = "inserted"
    BY <2>1, <2>3, <1>5
  <2>4. CASE sending[q].event = "inserted" /\ q # o
    BY <2>4, <1>2 DEF RecordInv, RecordFunctions
  <2>5. CASE sending[q].event = "inserted" /\ q = o
    <3>1. rtdb_trace /\ ~flushing
      BY DEF RecordInv, StartOK
    <3>2. CASE queue' = Append(queue, sending[o])
      <4>1. Len(queue') \in DOMAIN queue' /\ queue'[Len(queue')] = sending[o]
        BY <3>2, <1>1, <2>1, AppendProperties, LenProperties DEF RecordInv, RecordFunctions
      <4>2. sending[o].oid = q
        BY <2>5 DEF RecordInv, MessagesOK, NoEvent
      <4>3. QED
        BY <2>5, <4>1, <4>2
    <3>3. CASE missed' = (missed \/ Noticeable)
      BY <3>1, <3>3 DEF Noticeable
    <3>4. QED
      BY <1>4, <3>1, <3>2, <3>3
  <2>6. QED
    BY <2>2, <2>3, <2>4, <2>5
<1>11. FileOK'
  BY <1>2, OwnersLeave
<1>12. QED
  BY <1>6, <1>7, <1>8, <1>9, <1>10, <1>11 DEF RecordInv

-----------------------------------------------------------------------------
(* The recorder.  It changes nothing the owners have. *)

OwnersVars == <<obj, ring, commits, clock, sending>>

LEMMA RecorderLeaves ==
  ASSUME RecordInv, UNCHANGED OwnersVars
  PROVE  /\ RingOK'
         /\ \A o \in Objs : sending'[o] # NoEvent =>
              sending'[o].oid = o /\ MessageOK(sending'[o], ring', clock')
  BY DEF RecordInv, RingOK, MessagesOK, OwnersVars, NextSlot

\* The end of a round writes good chunks, if the data are.
LEMMA RecordEventOK ==
  ASSUME FileOK, NEW e \in Messages, e.event # "none", NEW n, NEW d \in Nat \X Nat,
         NEW head \in Seq(GoodChunks), NEW next, UNCHANGED initial_ts,
         e.event = "updated" /\ n > 0 =>
           /\ d[1] = d[2] /\ d[1] # 0
           /\ d[1] >= e.ts \/ e.ts = initial_ts,
         RecordEvent(e, n, d, head, next)
  PROVE  FileOK' /\ at' \in {"died", next}
<1>1. GoodChunks' = GoodChunks
  BY DEF GoodChunks
<1>2. \A first : Chunks(e, first, n, d) \in Seq(GoodChunks)
  <2> SUFFICES ASSUME NEW first
               PROVE  Chunks(e, first, n, d) \in Seq(GoodChunks)
    OBVIOUS
  <2> DEFINE meta == IF first THEN <<Chunk("rfr", e.oid, e.ts, NoData)>> ELSE <<>>
             c == Chunk(ChunkType[e.event], e.oid, e.ts, IF e.event = "updated" THEN d ELSE NoData)
             own == IF n > 0 THEN <<c>> ELSE <<>>
  <2>1. meta \in Seq(GoodChunks)
    <3>1. Chunk("rfr", e.oid, e.ts, NoData) \in GoodChunks
      BY DEF Chunk, GoodChunks, NoData, Messages
    <3>2. QED
      BY <3>1
  <2>2. own \in Seq(GoodChunks)
    <3>1. CASE n > 0
      <4>1. CASE e.event = "updated"
        <5>1. c = Chunk("upd", e.oid, e.ts, d)
          BY <4>1 DEF ChunkType
        <5>2. c \in GoodChunks
          BY <3>1, <4>1, <5>1 DEF Chunk, GoodChunks, Messages
        <5>3. QED
          BY <3>1, <5>2
      <4>2. CASE e.event \in {"inserted", "deleted"}
        <5>1. c \in {Chunk("add", e.oid, e.ts, NoData), Chunk("del", e.oid, e.ts, NoData)}
          BY <4>2 DEF ChunkType
        <5>2. c \in GoodChunks
          BY <5>1 DEF Chunk, GoodChunks, NoData, Messages
        <5>3. QED
          BY <3>1, <5>2
      <4>3. QED
        BY <4>1, <4>2 DEF Messages, EventKinds
    <3>2. QED
      BY <3>1
  <2>3. Chunks(e, first, n, d) = meta \o own
    BY DEF Chunks
  <2> HIDE DEF meta, own
  <2>4. QED
    BY <2>1, <2>2, <2>3, ConcatProperties
<1>3. file \o head \in Seq(GoodChunks)
  BY ConcatProperties DEF FileOK
<1>4. \/ file' = file \o head
      \/ file' = file \o head \o <<>>
      \/ \E first : file' = file \o head \o Chunks(e, first, n, d)
  BY DEF RecordEvent
<1>5. <<>> \in Seq(GoodChunks)
  OBVIOUS
<1>6. file' \in Seq(GoodChunks)
  <2> DEFINE S == Seq(GoodChunks)
  <2>1. \A s, u \in S : s \o u \in S
    BY ConcatProperties
  <2>2. file \o head \in S /\ <<>> \in S /\ \A first : Chunks(e, first, n, d) \in S
    BY <1>2, <1>3, <1>5
  <2> HIDE DEF S
  <2>3. file' \in S
    BY <2>1, <2>2, <1>4
  <2>4. QED
    BY <2>3 DEF S
<1>7. at' \in {"died", next}
  BY DEF RecordEvent, RecorderGoesTo
<1>8. QED
  BY <1>1, <1>6, <1>7 DEF FileOK

LEMMA LostChunkOK ==
  ASSUME NEW e \in Messages
  PROVE  LostChunk(e) \in GoodChunks /\ <<LostChunk(e)>> \in Seq(GoodChunks)
<1>1. LostChunk(e) \in GoodChunks
  BY DEF LostChunk, Chunk, GoodChunks, NoData, Messages
<1>2. QED
  BY <1>1

LEMMA LoseOK ==
  ASSUME FileOK, NEW e \in Messages, NEW next, UNCHANGED initial_ts, Lose(e, next)
  PROVE  FileOK' /\ at' = next
<1>1. GoodChunks' = GoodChunks
  BY DEF GoodChunks
<1>2. file' \in Seq(GoodChunks)
  BY LostChunkOK, AppendProperties DEF Lose, FileOK
<1>3. QED
  BY <1>1, <1>2 DEF Lose, FileOK, RecorderGoesTo

\* The trace is switched on and the queue emptied before the objects are searched.
LEMMA StartStepInv ==
  ASSUME RecordInv, TraceActivate \/ Drain \/ SearchInitial \/ InitialDone \/ Flushed
  PROVE  RecordInv'
<1>1. UNCHANGED <<OwnersVars, event, slot_ts, data, missed, file>>
  BY DEF TraceActivate, Drain, SearchInitial, InitialDone, Flushed, traceVars, fetchVars, startVars,
         OwnersVars
<1>2. CASE TraceActivate
  <2>1. /\ UNCHANGED <<queue, flushing, initial, initial_ts, count>>
        /\ at = "activate" /\ at' = "drain" /\ rtdb_trace'
    BY <1>2 DEF TraceActivate, startVars, RecorderGoesTo
  <2>2. RecordFunctions'
    BY <1>1, <2>1 DEF RecordInv, RecordFunctions, RecorderPlaces, OwnersVars
  <2>3. StartOK' /\ LossIsNoticed' /\ NoObjectIsMissed'
    BY <1>1, <2>1 DEF RecordInv, StartOK, LossIsNoticed, NoObjectIsMissed, Busy
  <2>4. MessagesOK' /\ CopyOK'
    BY <1>1, <2>1, RecorderLeaves DEF RecordInv, MessagesOK, CopyOK, OwnersVars, Busy
  <2>5. FileOK'
    BY <1>1, <2>1 DEF RecordInv, FileOK, GoodChunks
  <2>6. QED
    BY <1>1, <2>2, <2>3, <2>4, <2>5, RecorderLeaves DEF RecordInv
<1>3. CASE Drain
  <2>1. /\ UNCHANGED <<rtdb_trace, flushing, initial, initial_ts>>
        /\ at = "drain" /\ at' \in {"drain", "count"}
    BY <1>3 DEF Drain, startVars, RecorderGoesTo
  <2>2. /\ queue' \in Seq(Messages) /\ Len(queue') <= Len(queue) /\ Len(queue) \in Nat /\ Len(queue') \in Nat
        /\ \A i \in 1 .. Len(queue') : MessageOK(queue'[i], ring, clock)
        /\ count' \in Nat
    <3>1. CASE UNCHANGED <<queue, count>>
      BY <3>1, LenProperties DEF RecordInv, RecordFunctions, MessagesOK
    <3>2. CASE queue # <<>> /\ queue' = Tail(queue) /\ count' = count + 1
      BY <3>2, HeadTailProperties, LenProperties DEF RecordInv, RecordFunctions, MessagesOK
    <3>3. QED
      BY <1>3, <3>1, <3>2 DEF Drain
  <2>3. RecordFunctions'
    BY <1>1, <2>1, <2>2 DEF RecordInv, RecordFunctions, RecorderPlaces, OwnersVars
  <2>4. StartOK' /\ LossIsNoticed' /\ NoObjectIsMissed'
    BY <1>1, <2>1, <2>2 DEF RecordInv, StartOK, LossIsNoticed, NoObjectIsMissed, Busy
  <2>5. MessagesOK' /\ CopyOK'
    BY <1>1, <2>1, <2>2, RecorderLeaves DEF RecordInv, MessagesOK, CopyOK, OwnersVars, Busy
  <2>6. FileOK'
    BY <1>1, <2>1 DEF RecordInv, FileOK, GoodChunks
  <2>7. QED
    BY <1>1, <2>3, <2>4, <2>5, <2>6, RecorderLeaves DEF RecordInv
<1>4. CASE SearchInitial
  <2>1. /\ UNCHANGED <<rtdb_trace, queue, count>>
        /\ at = "search" /\ at' = "initial" /\ flushing' = FALSE /\ initial_ts' = clock
        /\ initial' = {o \in Objs : obj[o] = "live"}
    BY <1>4 DEF SearchInitial, traceVars, RecorderGoesTo
  <2>2. RecordFunctions'
    BY <1>1, <2>1 DEF RecordInv, RecordFunctions, RecorderPlaces, OwnersVars
  <2>3. StartOK' /\ LossIsNoticed' /\ NoObjectIsMissed'
    BY <1>1, <2>1 DEF RecordInv, StartOK, LossIsNoticed, NoObjectIsMissed, Busy, OwnersVars
  <2>4. MessagesOK' /\ CopyOK'
    BY <1>1, <2>1, RecorderLeaves DEF RecordInv, MessagesOK, CopyOK, OwnersVars, Busy
  <2>5. FileOK'
    BY <1>1, <2>1 DEF RecordInv, FileOK, StartOK
  <2>6. QED
    BY <1>1, <2>2, <2>3, <2>4, <2>5, RecorderLeaves DEF RecordInv
<1>5. CASE InitialDone \/ Flushed
  <2>1. /\ UNCHANGED <<rtdb_trace, queue, flushing, initial, initial_ts, count>>
        /\ \/ at = "initial" /\ at' = "count"
           \/ at = "recount" /\ flushing /\ at' \in {"count", "search"}
    BY <1>5 DEF InitialDone, Flushed, traceVars, startVars, RecorderGoesTo
  <2>2. RecordFunctions'
    BY <1>1, <2>1 DEF RecordInv, RecordFunctions, RecorderPlaces, OwnersVars
  <2>3. StartOK' /\ LossIsNoticed' /\ NoObjectIsMissed'
    BY <1>1, <2>1 DEF RecordInv, StartOK, LossIsNoticed, NoObjectIsMissed, Busy
  <2>4. MessagesOK' /\ CopyOK'
    BY <1>1, <2>1, RecorderLeaves DEF RecordInv, MessagesOK, CopyOK, OwnersVars, Busy
  <2>5. FileOK'
    BY <1>1, <2>1 DEF RecordInv, FileOK, GoodChunks
  <2>6. QED
    BY <1>1, <2>2, <2>3, <2>4, <2>5, RecorderLeaves DEF RecordInv
<1>6. QED
  BY <1>2, <1>3, <1>4, <1>5

\* An initial object: its youngest valid block that is old enough is whole.
LEMMA RecordInitialInv ==
  ASSUME RecordInv, RecordInitial
  PROVE  RecordInv'
<1>1. PICK o \in Objs : /\ event' = Message(o, initial_ts, "updated", -1)
                        /\ InitialLost(o) \/ InitialRead(o) \/ InitialOverwritten(o)
  BY DEF RecordInitial, RecordInv, RecordFunctions
<1>2. /\ UNCHANGED <<OwnersVars, queue, missed, rtdb_trace, flushing, initial, initial_ts, count, slot_ts>>
      /\ at = "initial"
  BY DEF RecordInitial, traceVars, OwnersVars
<1>3. event' \in Messages /\ event'.event = "updated" /\ event'.ts = initial_ts
  BY <1>1 DEF Message, Messages, EventKinds, RecordInv, RecordFunctions, Objs
<1>4. NoData \in Nat \X Nat /\ <<>> \in Seq(GoodChunks) /\ FileOK
  BY DEF NoData, RecordInv
<1>5. FileOK' /\ at' \in {"died", "initial"} /\ data' \in Nat \X Nat
  <2>1. CASE InitialLost(o)
    <3>1. FileOK' /\ at' = "initial"
      BY <1>2, <1>3, <1>4, <2>1, LoseOK DEF InitialLost
    <3>2. QED
      BY <2>1, <3>1 DEF InitialLost, RecordInv, RecordFunctions
  <2>2. CASE InitialRead(o)
    <3>1. PICK d \in {NoData} \cup {ring[o][i].data : i \in HistSlots} :
            ReadData(o, d) /\ data' = d
      BY <2>2 DEF InitialRead
    <3>2. d = NoData \/ \E i \in HistSlots : ring[o][i].ts # 0 /\ d = ring[o][i].data
      BY <3>1 DEF ReadData, Older, Blocks
    <3>3. d = NoData \/ \E n \in Nat \ {0} : d = <<n, n>>
      BY <3>2 DEF RecordInv, RingOK, RecordFunctions
    <3>4. data' \in Nat \X Nat /\ (data' # NoData => data'[1] = data'[2] /\ data'[1] # 0)
      BY <3>1, <3>3, <1>4
    <3>5. /\ olen' = (IF data' = NoData THEN 0 ELSE 1)
          /\ RecordEvent(event', olen', data', <<>>, "initial")
      BY <2>2 DEF InitialRead
    <3>6. olen' > 0 => data' # NoData
      BY <3>5
    <3>7. FileOK' /\ at' \in {"died", "initial"}
      BY <1>2, <1>3, <1>4, <3>4, <3>5, <3>6, RecordEventOK
    <3>8. QED
      BY <3>4, <3>7
  <2>3. CASE InitialOverwritten(o)
    <3>1. data' = NoData /\ RecordEvent(event', 0, NoData, <<LostChunk(event')>>, "initial")
      BY <2>3 DEF InitialOverwritten
    <3>2. <<LostChunk(event')>> \in Seq(GoodChunks) /\ ~(0 > 0)
      BY <1>3, LostChunkOK
    <3>3. FileOK' /\ at' \in {"died", "initial"}
      BY <1>2, <1>3, <1>4, <3>1, <3>2, RecordEventOK
    <3>4. QED
      BY <3>1, <3>3, <1>4
  <2>4. QED
    BY <1>1, <2>1, <2>2, <2>3
<1>6. RecordFunctions'
  BY <1>2, <1>3, <1>5 DEF RecordInv, RecordFunctions, OwnersVars, RecorderPlaces
<1>7. StartOK' /\ LossIsNoticed' /\ NoObjectIsMissed'
  BY <1>2, <1>5 DEF RecordInv, StartOK, LossIsNoticed, NoObjectIsMissed, Busy, OwnersVars
<1>8. MessagesOK' /\ CopyOK'
  BY <1>2, <1>5, RecorderLeaves DEF RecordInv, MessagesOK, CopyOK, OwnersVars, Busy
<1>9. QED
  BY <1>2, <1>5, <1>6, <1>7, <1>8, RecorderLeaves DEF RecordInv

\* From the event to the chunk.
LEMMA RoundActs ==
  ASSUME RecordInv, at \in Busy, UNCHANGED <<traceVars, startVars, event, count>>,
         at' \in Busy \cup {"count", "died"}, slot_ts' \in Nat, data' \in Nat \X Nat,
         FileOK', CopyOK',
         at' \in {"fetch", "copy", "copy2", "check"} => event.event = "updated",
         at' = "note" => event.event # "updated"
  PROVE  RecordInv'
<1>1. UNCHANGED <<OwnersVars, queue, missed, rtdb_trace, flushing, initial, initial_ts>>
  BY DEF traceVars, startVars, OwnersVars
<1>2. RecordFunctions'
  BY <1>1 DEF RecordInv, RecordFunctions, OwnersVars, RecorderPlaces
<1>3. StartOK' /\ LossIsNoticed' /\ NoObjectIsMissed'
  BY <1>1 DEF RecordInv, StartOK, LossIsNoticed, NoObjectIsMissed, Busy
<1>4. MessagesOK'
  BY <1>1, RecorderLeaves DEF RecordInv, MessagesOK, OwnersVars, Busy
<1>5. QED
  BY <1>1, <1>2, <1>3, <1>4, RecorderLeaves DEF RecordInv

LEMMA RoundStepInv ==
  ASSUME RecordInv,
         \/ InfoLost \/ InfoRead \/ NoteEvent \/ PointToSlot \/ CopyFirst \/ CopySecond
         \/ CheckSlot \/ DataLost
  PROVE  RecordInv'
<1>1. at \in Busy /\ UNCHANGED <<traceVars, startVars, event, count>>
  BY DEF InfoLost, InfoRead, NoteEvent, PointToSlot, CopyFirst, CopySecond, CheckSlot, DataLost, Busy,
         fetchVars
<1>2. /\ MessageOK(event, ring, clock) /\ event \in Messages /\ event.event # "none"
      /\ NoData \in Nat \X Nat /\ UNCHANGED initial_ts /\ FileOK
      /\ slot_ts \in Nat /\ data \in Nat \X Nat /\ event.ts \in Nat
  BY <1>1 DEF RecordInv, MessagesOK, MessageOK, RecordFunctions, NoData, startVars, Messages
<1>3. <<>> \in Seq(GoodChunks)
  OBVIOUS
<1>4. UNCHANGED file => FileOK'
  BY <1>2 DEF FileOK, GoodChunks
<1>5. CASE InfoLost
  <2>1. FileOK' /\ at' = "count"
    BY <1>2, <1>5, LoseOK DEF InfoLost
  <2>2. UNCHANGED <<slot_ts, data>>
    BY <1>5 DEF InfoLost, fetchVars
  <2>3. QED
    BY <1>1, <1>2, <2>1, <2>2, RoundActs DEF CopyOK, Busy
<1>6. CASE InfoRead
  <2>1. /\ at' \in {"count", "fetch", "note"} /\ UNCHANGED <<slot_ts, data, file>>
        /\ at' = "fetch" => event.event = "updated"
        /\ at' = "note" => event.event # "updated"
    BY <1>6 DEF InfoRead, fetchVars, RecorderGoesTo
  <2>2. QED
    BY <1>1, <1>2, <1>4, <2>1, RoundActs DEF CopyOK, Busy
<1>7. CASE NoteEvent
  <2>1. event.event # "updated" /\ UNCHANGED <<slot_ts, data>>
    BY <1>7 DEF NoteEvent, RecordInv, MessagesOK, fetchVars
  <2>2. FileOK' /\ at' \in {"died", "count"}
    BY <1>2, <1>3, <1>7, <2>1, RecordEventOK DEF NoteEvent
  <2>3. QED
    BY <1>1, <1>2, <2>1, <2>2, RoundActs DEF CopyOK, Busy
<1>8. CASE DataLost
  <2>1. UNCHANGED <<slot_ts, data>> /\ RecordEvent(event, 0, NoData, <<LostChunk(event)>>, "count")
    BY <1>8 DEF DataLost
  <2>2. <<LostChunk(event)>> \in Seq(GoodChunks) /\ ~(0 > 0)
    BY <1>2, LostChunkOK
  <2>3. FileOK' /\ at' \in {"died", "count"}
    BY <1>2, <2>1, <2>2, RecordEventOK
  <2>4. QED
    BY <1>1, <1>2, <2>1, <2>3, RoundActs DEF CopyOK, Busy
<1>9. ASSUME at \in {"fetch", "copy", "copy2", "check"}
      PROVE  /\ event.event = "updated" /\ event.oid \in Objs /\ event.slot \in HistSlots
             /\ TraceSlot = ring[event.oid][event.slot]
             /\ TraceSlot.ts \in Nat /\ TraceSlot.data \in Nat \X Nat
             /\ TraceSlot.ts # 0 => /\ TraceSlot.ts >= event.ts /\ TraceSlot.ts <= clock
                                    /\ TraceSlot.data = <<TraceSlot.ts, TraceSlot.ts>>
  <2>1. event.event = "updated" /\ event.oid \in Objs /\ event.slot \in HistSlots
        /\ ring[event.oid][event.slot].ts \in {0} \cup {t \in Nat : t >= event.ts}
    BY <1>2, <1>9 DEF RecordInv, MessagesOK, MessageOK
  <2>2. QED
    BY SMTT(30), <2>1 DEF RecordInv, RecordFunctions, RingOK, TraceSlot
<1>10. UNCHANGED ring /\ UNCHANGED clock
  BY <1>1 DEF traceVars
<1>11. CASE PointToSlot
  <2>1. /\ at = "fetch" /\ at' = "copy" /\ slot_ts' = TraceSlot.ts /\ TraceSlot.ts # 0
        /\ UNCHANGED <<data, file>>
    BY <1>11 DEF PointToSlot, RecorderGoesTo
  <2>2. CopyOK'
    BY <1>1, <1>9, <1>10, <2>1 DEF CopyOK
  <2>3. QED
    BY <1>1, <1>2, <1>4, <1>9, <2>1, <2>2, RoundActs DEF Busy
<1>12. CASE CopyFirst
  <2>1. /\ at = "copy" /\ at' = "copy2" /\ data' = <<TraceSlot.data[1], data[2]>>
        /\ UNCHANGED <<slot_ts, file>>
    BY <1>12 DEF CopyFirst, RecorderGoesTo
  <2>2. CopyOK'
    BY <1>1, <1>9, <1>10, <2>1 DEF CopyOK, RecordInv
  <2>3. data' \in Nat \X Nat
    BY <1>2, <1>9, <2>1
  <2>4. QED
    BY <1>1, <1>2, <1>4, <1>9, <2>1, <2>2, <2>3, RoundActs DEF Busy
<1>13. CASE CopySecond
  <2>1. /\ at = "copy2" /\ at' = "check" /\ data' = <<data[1], TraceSlot.data[2]>>
        /\ UNCHANGED <<slot_ts, file>>
    BY <1>13 DEF CopySecond, RecorderGoesTo
  <2>2. CopyOK'
    BY <1>1, <1>9, <1>10, <2>1 DEF CopyOK, RecordInv
  <2>3. data' \in Nat \X Nat
    BY <1>2, <1>9, <2>1
  <2>4. QED
    BY <1>1, <1>2, <1>4, <1>9, <2>1, <2>2, <2>3, RoundActs DEF Busy
<1>14. CASE CheckSlot
  <2>1. /\ at = "check" /\ TraceSlot.ts = slot_ts /\ UNCHANGED <<slot_ts, data>>
        /\ RecordEvent(event, 1, data, <<>>, "count")
    BY <1>14 DEF CheckSlot
  <2>2. data[1] = slot_ts /\ data[2] = slot_ts /\ slot_ts # 0 /\ slot_ts >= event.ts
    BY <1>9, <2>1 DEF RecordInv, CopyOK
  <2>3. FileOK' /\ at' \in {"died", "count"}
    BY <1>2, <1>3, <2>1, <2>2, RecordEventOK
  <2>4. QED
    BY <1>1, <1>2, <2>1, <2>3, RoundActs DEF CopyOK, Busy
<1>15. QED
  BY <1>5, <1>6, <1>7, <1>8, <1>11, <1>12, <1>13, <1>14

\* The messages are counted, one is received, and they are counted again.
LEMMA ReceiveStepInv ==
  ASSUME RecordInv, CountBefore \/ Receive \/ CountAfter \/ StopRecorder
  PROVE  RecordInv'
<1>1. UNCHANGED <<OwnersVars, flushing, initial, initial_ts, slot_ts, data>>
  BY DEF CountBefore, Receive, CountAfter, StopRecorder, traceVars, fetchVars, startVars, OwnersVars
<1>2. /\ Len(queue) \in Nat /\ Len(queue) <= BufSize /\ BufSize \in Nat
      /\ event \in Messages
  BY LenProperties DEF RecordInv, RecordFunctions, StartOK
<1>3. UNCHANGED file => FileOK'
  BY <1>1 DEF RecordInv, FileOK, GoodChunks
<1>4. CASE CountBefore
  <2>1. /\ UNCHANGED <<queue, missed, rtdb_trace, event, file>> /\ count' = Len(queue)
        /\ at = "count" /\ at' = "receive"
    BY <1>4 DEF CountBefore, traceVars, fetchVars, RecorderGoesTo
  <2>2. RecordFunctions'
    BY <1>1, <1>2, <2>1 DEF RecordInv, RecordFunctions, OwnersVars, RecorderPlaces
  <2>3. StartOK' /\ LossIsNoticed' /\ NoObjectIsMissed'
    BY <1>1, <1>2, <2>1 DEF RecordInv, StartOK, LossIsNoticed, NoObjectIsMissed, Busy
  <2>4. MessagesOK' /\ CopyOK'
    BY <1>1, <2>1, RecorderLeaves DEF RecordInv, MessagesOK, CopyOK, OwnersVars, Busy
  <2>5. QED
    BY <1>1, <1>3, <2>1, <2>2, <2>3, <2>4, RecorderLeaves DEF RecordInv
<1>5. CASE Receive
  <2>1. /\ UNCHANGED <<missed, rtdb_trace, count, file>>
        /\ at = "receive" /\ at' = "recount" /\ queue # <<>>
        /\ event' = Head(queue) /\ queue' = Tail(queue)
    BY <1>5 DEF Receive, RecorderGoesTo
  <2>2. /\ queue' \in Seq(Messages) /\ Len(queue') = Len(queue) - 1 /\ Len(queue') \in Nat
        /\ \A i \in 1 .. Len(queue') : MessageOK(queue'[i], ring, clock)
        /\ event' \in Messages /\ MessageOK(event', ring, clock)
    BY <1>2, <2>1, HeadTailProperties, LenProperties DEF RecordInv, RecordFunctions, MessagesOK
  <2>3. RecordFunctions'
    BY <1>1, <2>1, <2>2 DEF RecordInv, RecordFunctions, OwnersVars, RecorderPlaces
  <2>4. StartOK' /\ LossIsNoticed' /\ NoObjectIsMissed'
    <3>1. missed => count = BufSize
      BY <2>1 DEF RecordInv, StartOK
    <3>2. rtdb_trace /\ (flushing => file = <<>> /\ ~missed)
      BY <2>1 DEF RecordInv, StartOK
    <3>3. StartOK'
      BY <1>1, <1>2, <2>1, <2>2, <3>2 DEF StartOK, Busy
    <3>4. QED
      BY <2>1, <3>1, <3>3 DEF LossIsNoticed, NoObjectIsMissed
  <2>5. MessagesOK' /\ CopyOK'
    BY <1>1, <2>1, <2>2, RecorderLeaves DEF RecordInv, MessagesOK, CopyOK, OwnersVars, Busy
  <2>6. QED
    BY <1>1, <1>3, <2>1, <2>3, <2>4, <2>5, RecorderLeaves DEF RecordInv
<1>6. CASE CountAfter
  <2>1. /\ UNCHANGED <<queue, rtdb_trace, event, count>> /\ at = "recount" /\ ~flushing
    BY <1>6 DEF CountAfter, fetchVars
  <2>2. /\ FileOK' /\ at' = "info" /\ missed' \in BOOLEAN
        /\ missed' => missed /\ ~(count = BufSize \/ Len(queue) = BufSize)
    <3>1. CASE /\ Lose([event EXCEPT !.oid = 0], "info") /\ missed' = FALSE
      <4>1. [event EXCEPT !.oid = 0] \in Messages
        BY <1>2 DEF Messages
      <4>2. FileOK' /\ at' = "info"
        BY <1>1, <3>1, <4>1, LoseOK DEF RecordInv
      <4>3. QED
        BY <3>1, <4>2
    <3>2. CASE /\ ~(count = BufSize \/ Len(queue) = BufSize)
               /\ RecorderGoesTo("info") /\ UNCHANGED <<missed, lost, file>>
      BY <3>2, <1>3 DEF RecorderGoesTo, RecordInv, RecordFunctions
    <3>3. QED
      BY <1>6, <3>1, <3>2 DEF CountAfter
  <2>3. RecordFunctions'
    BY <1>1, <2>1, <2>2 DEF RecordInv, RecordFunctions, OwnersVars, RecorderPlaces, Busy
  <2>4. StartOK' /\ LossIsNoticed' /\ NoObjectIsMissed'
    <3>1. ~missed'
      BY <2>1, <2>2 DEF RecordInv, LossIsNoticed
    <3>2. rtdb_trace
      BY <2>1 DEF RecordInv, StartOK
    <3>3. QED
      BY <1>1, <1>2, <2>1, <2>2, <3>1, <3>2 DEF StartOK, LossIsNoticed, NoObjectIsMissed, Busy
  <2>5. MessagesOK' /\ CopyOK'
    BY <1>1, <2>1, <2>2, RecorderLeaves DEF RecordInv, MessagesOK, CopyOK, OwnersVars, Busy
  <2>6. QED
    BY <1>1, <2>2, <2>3, <2>4, <2>5, RecorderLeaves DEF RecordInv
<1>7. CASE StopRecorder
  <2>1. UNCHANGED <<queue, missed, event, count, file>> /\ at' = "stopped"
    BY <1>7 DEF StopRecorder, fetchVars, RecorderGoesTo
  <2>2. RecordFunctions'
    BY <1>1, <2>1 DEF RecordInv, RecordFunctions, OwnersVars, RecorderPlaces
  <2>3. StartOK' /\ LossIsNoticed' /\ NoObjectIsMissed'
    BY <1>1, <1>2, <2>1 DEF RecordInv, StartOK, LossIsNoticed, NoObjectIsMissed, Busy
  <2>4. MessagesOK' /\ CopyOK'
    BY <1>1, <2>1, RecorderLeaves DEF RecordInv, MessagesOK, CopyOK, OwnersVars, Busy
  <2>5. QED
    BY <1>1, <1>3, <2>1, <2>2, <2>3, <2>4, RecorderLeaves DEF RecordInv
<1>8. QED
  BY <1>4, <1>5, <1>6, <1>7

LEMMA RecordAlways == RecordSpec => []RecordInv
<1>1. RecordInv /\ [RecordNext]_recordVars => RecordInv'
  <2> SUFFICES ASSUME RecordInv, [RecordNext]_recordVars
               PROVE  RecordInv'
    OBVIOUS
  <2>1. CASE RecordNext
    <3>1. CASE \E o \in Objs : OwnerStep(o)
      BY <3>1, InsertInv, BeginWriteInv, CommitWriteInv, DeleteObjectInv, PurgeObjectInv, SendTraceInv
         DEF OwnerStep
    <3>2. CASE RecorderStep
      BY <3>2, StartStepInv, RecordInitialInv, RoundStepInv, ReceiveStepInv DEF RecorderStep
    <3>3. QED
      BY <2>1, <3>1, <3>2 DEF RecordNext
  <2>2. CASE UNCHANGED recordVars
    <3>1. /\ UNCHANGED <<OwnersVars, queue, missed, rtdb_trace, flushing, initial, initial_ts>>
          /\ UNCHANGED <<event, count, slot_ts, data, at, file>>
      BY <2>2 DEF recordVars, traceVars, startVars, fetchVars, OwnersVars
    <3>2. RecordFunctions' /\ FileOK'
      BY <3>1 DEF RecordInv, RecordFunctions, OwnersVars, FileOK, GoodChunks
    <3>3. MessagesOK' /\ CopyOK' /\ StartOK' /\ LossIsNoticed' /\ NoObjectIsMissed'
      BY <3>1, RecorderLeaves DEF RecordInv, MessagesOK, CopyOK, StartOK, LossIsNoticed, NoObjectIsMissed,
         OwnersVars
    <3>4. QED
      BY <3>1, <3>2, <3>3, RecorderLeaves DEF RecordInv
  <2>3. QED
    BY <2>1, <2>2
<1>2. QED
  BY <1>1, RecordInitInv, PTL DEF RecordSpec

\* The recorder reads without a lock what the owners overwrite, and records no mixture
\* of two blocks, nor one older than the event (record.c:590-606, objdata_slot.c:67-95).
THEOREM RecordIsWhole == RecordSpec => []RecordedBlocksAreWhole
<1>1. RecordInv => RecordedBlocksAreWhole
  <2> SUFFICES ASSUME RecordInv, NEW i \in DOMAIN file, file[i].type = "upd"
               PROVE  LET d == file[i].data
                      IN d[1] = d[2] /\ d[1] # 0 /\ (d[1] >= file[i].ts \/ file[i].ts = initial_ts)
    BY DEF RecordedBlocksAreWhole
  <2>1. file[i] \in GoodChunks
    BY ElementOfSeq, LenProperties DEF RecordInv, FileOK
  <2>2. QED
    BY <2>1 DEF GoodChunks
<1>2. QED
  BY <1>1, RecordAlways, PTL

\* A dropped message is going to be noticed (trace.c:84-99).
THEOREM RecordLossIsNoticed == RecordSpec => []LossIsNoticed
<1>1. RecordInv => LossIsNoticed
  BY DEF RecordInv
<1>2. QED
  BY <1>1, RecordAlways, PTL

\* There is no gap between the objects found at the start and the trace (record.c:
\* 440-481).
THEOREM RecordMissesNoObject == RecordSpec => []NoObjectIsMissed
<1>1. RecordInv => NoObjectIsMissed
  BY DEF RecordInv
<1>2. QED
  BY <1>1, RecordAlways, PTL

\* The counts, beside RecordInv: within the capacity of the queue and of the table.
RecordCounts ==
  /\ count \in 0 .. BufSize /\ olen \in {0, 1} /\ {lost, written} \subseteq Nat
  /\ IsFiniteSet(known) /\ Cardinality(known) <= KnownMax

LEMMA KnownAfter ==
  ASSUME RecordCounts, NEW e, NEW n, NEW d, NEW head, NEW next, RecordEvent(e, n, d, head, next)
  PROVE  written' \in Nat /\ IsFiniteSet(known') /\ Cardinality(known') <= KnownMax
<1> DEFINE left == IF select.log /\ e.event = "deleted" THEN known \ {e.oid} ELSE known
           first == e.oid \in select.traced /\ e.event = "updated" /\ e.oid \notin left
<1>1. /\ written' \in {written, written + 1}
      /\ \/ known' = known
         \/ known' = left
         \/ known' = left \cup {e.oid} /\ e.oid \notin left /\ Cardinality(left) # KnownMax
  BY DEF RecordEvent
<1>2. IsFiniteSet(known) /\ Cardinality(known) \in Nat /\ Cardinality(known) <= KnownMax
  BY FS_CardinalityType DEF RecordCounts
<1>3. left \subseteq known
  OBVIOUS
<1> HIDE DEF left
<1>4. IsFiniteSet(left) /\ Cardinality(left) \in Nat /\ Cardinality(left) <= Cardinality(known)
  BY <1>2, <1>3, FS_Subset, FS_CardinalityType
<1>5. e.oid \notin left =>
        IsFiniteSet(left \cup {e.oid}) /\ Cardinality(left \cup {e.oid}) = Cardinality(left) + 1
  BY <1>4, FS_AddElement
<1>6. written' \in Nat
  BY <1>1 DEF RecordCounts
<1>7. KnownMax \in Nat
  OBVIOUS
<1>8. CASE known' = known
  BY <1>2, <1>6, <1>8
<1>9. CASE known' = left
  BY <1>2, <1>4, <1>6, <1>7, <1>9
<1>10. CASE known' = left \cup {e.oid} /\ e.oid \notin left /\ Cardinality(left) # KnownMax
  <2>1. Cardinality(left) + 1 <= KnownMax
    BY <1>2, <1>4, <1>7, <1>10
  <2>2. QED
    BY <1>5, <1>6, <1>10, <2>1
<1>11. QED
  BY <1>1, <1>8, <1>9, <1>10

LEMMA CountsStep ==
  ASSUME RecordInv, RecordCounts, [RecordNext]_recordVars
  PROVE  RecordCounts'
<1>1. CASE UNCHANGED <<count, olen, lost, written, known>>
  BY <1>1 DEF RecordCounts
<1>2. CASE UNCHANGED recordVars \/ \E o \in Objs : OwnerStep(o)
  <2>1. UNCHANGED <<count, olen, lost, written, known>>
    BY <1>2 DEF recordVars, fetchVars, OwnerStep, InsertObject, BeginWrite, CommitWrite, DeleteObject,
                PurgeObject, SendTrace, RecorderUnchanged
  <2>2. QED
    BY <1>1, <2>1
<1>3. CASE TraceActivate \/ Flushed \/ SearchInitial \/ InitialDone \/ Receive \/ InfoRead
           \/ PointToSlot \/ CopyFirst \/ CopySecond \/ StopRecorder
  <2>1. UNCHANGED <<count, olen, lost, written, known>>
    BY <1>3 DEF fetchVars, TraceActivate, Flushed, SearchInitial, InitialDone, Receive, InfoRead,
                PointToSlot, CopyFirst, CopySecond, StopRecorder
  <2>2. QED
    BY <1>1, <2>1
<1>4. CASE Drain \/ CountBefore
  <2>1. count \in 0 .. BufSize /\ Len(queue) \in Nat /\ Len(queue) <= BufSize
    BY DEF RecordCounts, RecordInv, RecordFunctions, StartOK
  <2>2. UNCHANGED <<olen, lost, written, known>>
    BY <1>4 DEF Drain, CountBefore, fetchVars
  <2>3. count' \in {count, Len(queue)} \/ (count # BufSize /\ count' = count + 1)
    BY <1>4 DEF Drain, CountBefore
  <2>4. count' \in 0 .. BufSize
    BY <2>1, <2>3
  <2>5. QED
    BY <2>2, <2>4 DEF RecordCounts
<1>5. CASE CountAfter \/ InfoLost
  <2>1. UNCHANGED <<count, olen, written, known>> /\ lost' \in {lost, lost + 1}
    BY <1>5 DEF CountAfter, InfoLost, Lose, fetchVars
  <2>2. QED
    BY <2>1 DEF RecordCounts
<1>6. ASSUME UNCHANGED count, olen' \in {olen, 0, 1}, lost' \in {lost, lost + 1},
             UNCHANGED <<written, known>> \/ \E e, n, d, head, next : RecordEvent(e, n, d, head, next)
      PROVE  RecordCounts'
  <2>1. count' \in 0 .. BufSize /\ olen' \in {0, 1} /\ lost' \in Nat
    BY <1>6 DEF RecordCounts
  <2>2. written' \in Nat /\ IsFiniteSet(known') /\ Cardinality(known') <= KnownMax
    BY <1>6, KnownAfter DEF RecordCounts
  <2>3. QED
    BY <2>1, <2>2 DEF RecordCounts
<1>7. CASE RecordInitial
  <2>1. PICK o \in initial : InitialLost(o) \/ InitialRead(o) \/ InitialOverwritten(o)
    BY <1>7 DEF RecordInitial
  <2>2. UNCHANGED count
    BY <1>7 DEF RecordInitial
  <2>3. olen' \in {olen, 0, 1} /\ lost' \in {lost, lost + 1}
    BY <2>1 DEF InitialLost, InitialRead, InitialOverwritten, Lose
  <2>4. UNCHANGED <<written, known>> \/ \E e, n, d, head, next : RecordEvent(e, n, d, head, next)
    BY <2>1 DEF InitialLost, InitialRead, InitialOverwritten
  <2>5. QED
    BY <1>6, <2>2, <2>3, <2>4
<1>8. CASE NoteEvent \/ CheckSlot \/ DataLost
  <2>1. UNCHANGED count /\ olen' \in {olen, 0, 1} /\ lost' \in {lost, lost + 1}
    BY <1>8 DEF NoteEvent, CheckSlot, DataLost, fetchVars
  <2>2. \E e, n, d, head, next : RecordEvent(e, n, d, head, next)
    BY <1>8 DEF NoteEvent, CheckSlot, DataLost
  <2>3. QED
    BY <1>6, <2>1, <2>2
<1>9. QED
  BY <1>2, <1>3, <1>4, <1>5, <1>7, <1>8 DEF RecordNext, RecorderStep

\* Every variable has its type: the queue and the table of known objects keep within their
\* places (ipc_posix.c:744-760, record.c:60-80).
THEOREM RecordTyped == RecordSpec => []RecordTypeOK
<1>1. RecordInit => RecordCounts
  BY FS_EmptySet DEF RecordInit, RecordCounts
<1>2. RecordInv /\ RecordCounts /\ [RecordNext]_recordVars => RecordCounts'
  BY CountsStep
<1>3. RecordInv /\ RecordCounts => RecordTypeOK
  BY DEF RecordInv, RecordCounts, RecordFunctions, MessagesOK, MessageOK, StartOK, RecordTypeOK,
         RecorderPlaces, Busy
<1>4. QED
  BY <1>1, <1>2, <1>3, RecordAlways, PTL DEF RecordSpec

-----------------------------------------------------------------------------
(* The player's control object (RtdbPlayCtrl). *)

Numbers ==
  /\ ctrlobj.n \in Nat /\ ctrlobj.data_ts \in Int /\ ctrlobj.go \in {0, ctrlobj.n}
  /\ rtdb_now \in Int /\ ctrl_ts \in Int /\ looked \in Nat /\ looked <= ctrlobj.n

\* No copy is younger than the block, and one of the same number has its data time.
CopiesAreOld ==
  /\ mine = [r \in PlayRemotes |-> mine[r]]
  /\ \A r \in PlayRemotes :
       /\ mine[r].n \in Int /\ mine[r].data_ts \in Int /\ mine[r].n <= ctrlobj.n
       /\ mine[r].n = ctrlobj.n => mine[r].data_ts = ctrlobj.data_ts

\* The player remembers the data time of what it looked at, obeyed or not.
TimeIsRemembered ==
  /\ ctrlobj.n = looked => ctrlobj.data_ts = ctrl_ts
  /\ \A r \in PlayRemotes : mine[r].n = looked => mine[r].data_ts = ctrl_ts

\* What was obeyed was given in a block that was looked at.
ObeyedIsPast ==
  /\ obeyed \in Seq(Int)
  /\ \A i \in DOMAIN obeyed : obeyed[i] <= looked

CtrlInv ==
  Numbers /\ CopiesAreOld /\ TimeIsRemembered /\ ObeyedIsPast /\ GoesOnce /\ CommandIsNoticed

LEMMA CtrlInitInv == PlayCtrlInit => CtrlInv
  BY DEF PlayCtrlInit, CtrlInv, Numbers, CopiesAreOld, TimeIsRemembered, ObeyedIsPast,
         GoesOnce, CommandIsNoticed, Block, NoCopy

\* A block that a program puts has another data time than the one it was made from,
\* unless commit() put it.
LEMMA PutInv ==
  ASSUME CtrlInv, NEW r \in PlayRemotes, NEW ts \in Int, NEW twice \in BOOLEAN,
         NEW go \in {0, ctrlobj.n + 1}, Put(r, ts, twice, go),
         twice \/ ts # mine[r].data_ts
  PROVE  CtrlInv'
<1>1. ctrlobj' = [n |-> ctrlobj.n + 1, base |-> mine[r].n, data_ts |-> ts, twice |-> twice,
                  go |-> go]
  BY DEF Put, Block
<1>2. mine' = [mine EXCEPT ![r] = NoCopy] /\ NoCopy.n = -1 /\ NoCopy.data_ts = 0
  BY DEF Put, NoCopy, Block
<1>3. UNCHANGED <<rtdb_now, ctrl_ts, looked, obeyed>>
  BY DEF Put
<1>4. Numbers'
  BY <1>1, <1>3 DEF CtrlInv, Numbers
<1>5. \A q \in PlayRemotes : mine'[q] = IF q = r THEN NoCopy ELSE mine[q]
  BY <1>2 DEF CtrlInv, CopiesAreOld
<1>6. CopiesAreOld'
  <2>1. mine' = [q \in PlayRemotes |-> mine'[q]]
    BY <1>2 DEF CtrlInv, CopiesAreOld
  <2>2. ASSUME NEW q \in PlayRemotes
        PROVE  /\ mine'[q].n \in Int /\ mine'[q].data_ts \in Int /\ mine'[q].n < ctrlobj'.n
    BY <1>1, <1>2, <1>5 DEF CtrlInv, CopiesAreOld, Numbers
  <2>3. ctrlobj'.n \in Int
    BY <1>1 DEF CtrlInv, Numbers
  <2>4. QED
    BY <2>1, <2>2, <2>3 DEF CopiesAreOld
<1>7. TimeIsRemembered'
  BY <1>1, <1>2, <1>3, <1>5 DEF CtrlInv, TimeIsRemembered, Numbers
<1>8. ObeyedIsPast' /\ GoesOnce'
  BY <1>3 DEF CtrlInv, ObeyedIsPast, GoesOnce
<1>9. CommandIsNoticed'
  BY <1>1, <1>3 DEF CtrlInv, TimeIsRemembered, CommandIsNoticed
<1>10. QED
  BY <1>4, <1>6, <1>7, <1>8, <1>9 DEF CtrlInv

LEMMA StampDiffers ==
  ASSUME NEW ts \in Int, rtdb_now \in Int
  PROVE  Stamp(ts) \in Int /\ Stamp(ts) # ts
  BY DEF Stamp

LEMMA ProgramInv ==
  ASSUME CtrlInv, NEW r \in PlayRemotes,
         UpdateCtrl(r) \/ Setting(r) \/ GoToTime(r) \/ Commit(r)
  PROVE  CtrlInv'
<1>1. mine[r].data_ts \in Int /\ rtdb_now \in Int /\ ctrlobj.n \in Nat
  BY DEF CtrlInv, CopiesAreOld, Numbers
<1>2. /\ Stamp(mine[r].data_ts) \in Int /\ Stamp(mine[r].data_ts) # mine[r].data_ts
      /\ Stamp(Stamp(mine[r].data_ts)) \in Int
  BY <1>1, StampDiffers
<1>3. CASE UpdateCtrl(r)
  <2>1. /\ mine' = [mine EXCEPT ![r] = ctrlobj]
        /\ UNCHANGED <<rtdb_now, ctrlobj, ctrl_ts, looked, obeyed>>
    BY <1>3 DEF UpdateCtrl
  <2>2. \A q \in PlayRemotes : mine'[q] = IF q = r THEN ctrlobj ELSE mine[q]
    BY <2>1 DEF CtrlInv, CopiesAreOld
  <2>3. CopiesAreOld'
    BY <2>1, <2>2 DEF CtrlInv, CopiesAreOld, Numbers
  <2>4. Numbers' /\ TimeIsRemembered'
    BY <2>1, <2>2 DEF CtrlInv, Numbers, TimeIsRemembered
  <2>5. ObeyedIsPast' /\ GoesOnce' /\ CommandIsNoticed'
    BY <2>1 DEF CtrlInv, ObeyedIsPast, GoesOnce, CommandIsNoticed
  <2>6. QED
    BY <2>3, <2>4, <2>5 DEF CtrlInv
<1>4. CASE Setting(r)
  BY <1>2, <1>4, PutInv DEF Setting, NoGo
<1>5. CASE GoToTime(r)
  BY <1>2, <1>5, PutInv DEF GoToTime
<1>6. CASE Commit(r)
  BY <1>2, <1>6, PutInv DEF Commit, NoGo
<1>7. QED
  BY <1>3, <1>4, <1>5, <1>6

LEMMA LookInv == ASSUME CtrlInv, Look PROVE CtrlInv'
<1>1. /\ looked # ctrlobj.n /\ looked' = ctrlobj.n /\ ctrlobj' = ctrlobj /\ mine' = mine
      /\ ctrl_ts' = ctrlobj.data_ts
  BY DEF Look
<1>2. /\ looked \in Nat /\ ctrlobj.n \in Nat /\ looked < ctrlobj.n
      /\ ctrlobj.go \in {0, ctrlobj.n} /\ obeyed \in Seq(Int)
  BY <1>1 DEF CtrlInv, Numbers, ObeyedIsPast
<1>3. rtdb_now' \in Int
  BY DEF Look, Clock, CtrlInv, Numbers
<1>4. Numbers' /\ CopiesAreOld' /\ TimeIsRemembered' /\ CommandIsNoticed'
  BY <1>1, <1>3 DEF CtrlInv, Numbers, CopiesAreOld, TimeIsRemembered, CommandIsNoticed
<1>5. obeyed' = obeyed \/ obeyed' = Append(obeyed, ctrlobj.n)
  <2>1. CASE ctrlobj.data_ts # ctrl_ts /\ ctrlobj.go # 0
    BY <1>2, <2>1 DEF Look
  <2>2. CASE ~(ctrlobj.data_ts # ctrl_ts /\ ctrlobj.go # 0)
    BY <2>2 DEF Look
  <2>3. QED
    BY <2>1, <2>2
<1>6. ObeyedIsPast' /\ GoesOnce'
  <2>1. CASE obeyed' = obeyed
    BY <1>1, <1>2, <2>1 DEF CtrlInv, ObeyedIsPast, GoesOnce
  <2>2. CASE obeyed' = Append(obeyed, ctrlobj.n)
    <3>1. /\ obeyed' \in Seq(Int) /\ Len(obeyed') = Len(obeyed) + 1
          /\ DOMAIN obeyed' = 1 .. Len(obeyed) + 1
          /\ \A i \in 1 .. Len(obeyed) : obeyed'[i] = obeyed[i]
          /\ obeyed'[Len(obeyed) + 1] = ctrlobj.n
      BY <1>2, <2>2
    <3>2. \A i \in 1 .. Len(obeyed) : obeyed[i] \in Int /\ obeyed[i] < ctrlobj.n
      <4>1. ASSUME NEW i \in 1 .. Len(obeyed)
            PROVE  obeyed[i] \in Int /\ obeyed[i] <= looked
        BY <1>2 DEF CtrlInv, ObeyedIsPast
      <4>2. QED
        BY <1>2, <4>1
    <3>3. ObeyedIsPast'
      <4>1. ASSUME NEW i \in 1 .. Len(obeyed) + 1
            PROVE  obeyed'[i] <= ctrlobj.n
        <5>1. Len(obeyed) \in Nat /\ (i \in 1 .. Len(obeyed) \/ i = Len(obeyed) + 1)
          BY <1>2
        <5>2. QED
          BY <1>2, <3>1, <3>2, <5>1
      <4>2. QED
        BY <1>1, <3>1, <4>1 DEF ObeyedIsPast
    <3>4. ASSUME NEW i \in 1 .. Len(obeyed) + 1, NEW j \in 1 .. Len(obeyed) + 1, i < j
          PROVE  obeyed'[i] < obeyed'[j]
      <4>1. Len(obeyed) \in Nat /\ DOMAIN obeyed = 1 .. Len(obeyed)
        BY <1>2
      <4>2. i \in 1 .. Len(obeyed)
        BY <3>4, <4>1
      <4>3. CASE j = Len(obeyed) + 1
        BY <3>1, <3>2, <4>2, <4>3
      <4>4. CASE j \in 1 .. Len(obeyed)
        BY <3>1, <3>4, <4>1, <4>2, <4>4 DEF CtrlInv, GoesOnce
      <4>5. QED
        BY <4>1, <4>3, <4>4
    <3>5. QED
      BY <3>1, <3>3, <3>4 DEF GoesOnce
  <2>3. QED
    BY <1>5, <2>1, <2>2
<1>7. QED
  BY <1>4, <1>6 DEF CtrlInv

LEMMA CtrlNextInv == CtrlInv /\ [PlayCtrlNext]_playctrlVars => CtrlInv'
<1> SUFFICES ASSUME CtrlInv, [PlayCtrlNext]_playctrlVars PROVE CtrlInv'
  OBVIOUS
<1>1. CASE Tick \/ UNCHANGED playctrlVars
  BY SMTT(30), <1>1 DEF Tick, playctrlVars, CtrlInv, Numbers, CopiesAreOld, TimeIsRemembered,
              ObeyedIsPast, GoesOnce, CommandIsNoticed
<1>2. CASE PlayCtrlNext
  BY <1>1, <1>2, LookInv, ProgramInv DEF PlayCtrlNext
<1>3. QED
  BY <1>1, <1>2

\* For any number of programs and whatever the clock does: a goto or frame_go is carried
\* out at most once and none after a later one, and a command made from the block the
\* player last looked at has another data time, so that it is obeyed though time stands
\* still (system_classes.hxx:49-58, 89-150, kogmo_rtdb_play.c:421-480).
THEOREM CtrlIsObeyed == PlayCtrlSpec => []CommandsAreObeyed
<1>1. CtrlInv => CommandsAreObeyed
  BY DEF CtrlInv, CommandsAreObeyed
<1>2. QED
  BY <1>1, CtrlInitInv, CtrlNextInv, PTL DEF PlayCtrlSpec

\* What an update does to the type of a function.
LEMMA Updated ==
  ASSUME NEW S, NEW T, NEW f \in [S -> T], NEW x, NEW y \in T
  PROVE  [f EXCEPT ![x] = y] \in [S -> T]
  OBVIOUS

\* Every variable has its type: the data time of a command is at most one ahead of the clock
\* (system_classes.hxx:49-58).
THEOREM CtrlTyped == PlayCtrlSpec => []PlayCtrlTypeOK
<1> USE PlayCtrlAssumption DEF Clock
<1>1. PlayCtrlInit => PlayCtrlTypeOK
  BY DEF BlockType, PlayCtrlInit, PlayCtrlTypeOK, Block, NoCopy
<1>2. ASSUME CtrlInv, PlayCtrlTypeOK, [PlayCtrlNext]_playctrlVars PROVE PlayCtrlTypeOK'
  <2> USE <1>2 DEF PlayCtrlTypeOK
  <2>1. /\ ctrlobj.n \in 0 .. MaxWrites /\ ctrlobj.go \in 0 .. MaxWrites
        /\ ctrlobj.data_ts \in 0 .. MaxClock + 1
    BY DEF CtrlInv, Numbers, BlockType
  <2>2. CASE UNCHANGED playctrlVars \/ Tick
    BY <2>2 DEF playctrlVars, Tick
  <2>3. CASE Look
    <3>1. obeyed' \in Seq(1 .. MaxWrites)
      <4>1. obeyed' = obeyed \/ (ctrlobj.go \in 1 .. MaxWrites /\ obeyed' = Append(obeyed, ctrlobj.go))
        BY SMTT(30), <2>1, <2>3 DEF Look
      <4>2. obeyed \in Seq(1 .. MaxWrites)
        OBVIOUS
      <4>3. ASSUME NEW S, NEW s \in Seq(S), NEW x \in S PROVE Append(s, x) \in Seq(S)
        OBVIOUS
      <4>4. QED
        BY ONLY <4>1, <4>2, <4>3
    <3>2. rtdb_now' \in Clock
      <4>1. rtdb_now' = rtdb_now \/ rtdb_now' \in Clock
        BY <2>3 DEF Look
      <4>2. QED
        BY <4>1
    <3>3. ctrl_ts' \in 0 .. MaxClock + 1
      <4>1. ctrl_ts' = ctrl_ts \/ ctrl_ts' = ctrlobj.data_ts
        BY <2>3 DEF Look
      <4>2. QED
        BY <2>1, <4>1
    <3>4. looked' \in 0 .. MaxWrites /\ ctrlobj' = ctrlobj /\ mine' = mine
      BY <2>1, <2>3 DEF Look
    <3>5. QED
      BY <3>1, <3>2, <3>3, <3>4
  <2>4. ASSUME NEW r \in PlayRemotes, UpdateCtrl(r) PROVE PlayCtrlTypeOK'
    BY <2>4 DEF UpdateCtrl
  <2>5. ASSUME NEW r \in PlayRemotes, NEW ts \in 0 .. MaxClock + 1, NEW twice \in BOOLEAN,
               NEW go \in 0 .. MaxWrites, Put(r, ts, twice, go)
        PROVE  PlayCtrlTypeOK'
    <3>0. mine[r] \in BlockType
      OBVIOUS
    <3>1. ctrlobj.n + 1 \in -1 .. MaxWrites /\ mine[r].n \in -1 .. MaxWrites
      <4>1. ctrlobj.n < MaxWrites
        BY <2>5 DEF Put
      <4>2. mine[r].n \in -1 .. MaxWrites
        BY <3>0 DEF BlockType
      <4>3. QED
        BY SMTT(30), <2>1, <4>1, <4>2
    <3>2. ctrlobj' \in BlockType
      BY <2>5, <3>1 DEF Put, Block, BlockType
    <3>3. mine' \in [PlayRemotes -> BlockType]
      <4>1. NoCopy \in BlockType
        BY DEF NoCopy, Block, BlockType
      <4>2. QED
        BY <2>5, <4>1, Updated DEF Put
    <3>4. QED
      BY <2>5, <3>2, <3>3 DEF Put
  <2>6. ASSUME NEW last_ts \in 0 .. MaxClock + 1 PROVE Stamp(last_ts) \in 0 .. MaxClock + 1
    BY DEF Stamp
  <2>7. ASSUME NEW r \in PlayRemotes, Setting(r) \/ GoToTime(r) \/ Commit(r) PROVE PlayCtrlTypeOK'
    <3>1. mine[r] \in BlockType
      OBVIOUS
    <3>2. mine[r].data_ts \in 0 .. MaxClock + 1
      BY <3>1 DEF BlockType
    <3>3. NoGo(r) \in 0 .. MaxWrites
      BY DEF NoGo
    <3>4. Stamp(mine[r].data_ts) \in 0 .. MaxClock + 1
      BY <2>6, <3>2
    <3>5. Stamp(Stamp(mine[r].data_ts)) \in 0 .. MaxClock + 1
      BY <2>6, <3>4
    <3>6. ASSUME Setting(r) PROVE PlayCtrlTypeOK'
      <4>1. Put(r, Stamp(mine[r].data_ts), FALSE, NoGo(r))
        BY <3>6 DEF Setting
      <4>2. QED
        BY ONLY <2>5, <3>3, <3>4, <4>1
    <3>7. ASSUME GoToTime(r) PROVE PlayCtrlTypeOK'
      <4>1. Put(r, Stamp(mine[r].data_ts), FALSE, ctrlobj.n + 1)
        BY <3>7 DEF GoToTime
      <4>2. ctrlobj.n < MaxWrites
        BY <4>1 DEF Put
      <4>3. ctrlobj.n + 1 \in 0 .. MaxWrites
        BY SMTT(30), <2>1, <4>2
      <4>4. QED
        BY ONLY <2>5, <3>4, <4>1, <4>3
    <3>8. ASSUME Commit(r) PROVE PlayCtrlTypeOK'
      <4>1. Put(r, Stamp(Stamp(mine[r].data_ts)), TRUE, NoGo(r))
        BY <3>8 DEF Commit
      <4>2. QED
        BY ONLY <2>5, <3>3, <3>5, <4>1
    <3>9. QED
      BY <2>7, <3>6, <3>7, <3>8
  <2>8. QED
    BY <2>2, <2>3, <2>4, <2>7 DEF PlayCtrlNext
<1>3. CtrlInv /\ PlayCtrlTypeOK /\ [PlayCtrlNext]_playctrlVars => PlayCtrlTypeOK'
  BY <1>2
<1>4. QED
  BY <1>1, <1>3, CtrlInitInv, CtrlNextInv, PTL DEF PlayCtrlSpec

-----------------------------------------------------------------------------
(* The player: its types and its index. *)

\* The index has an entry for every interval from its first time to its last.
IdxShape ==
  /\ timeidx \in [first_ts : Nat, last_ts : Nat, off : Seq(Nat)]
  /\ \A i \in DOMAIN timeidx.off : timeidx.off[i] \in 1 .. Len(tape) + 1
  /\ timeidx.first_ts = 0 => timeidx.last_ts = 0 /\ timeidx.off = <<>>
  /\ timeidx.first_ts # 0 => /\ timeidx.first_ts <= timeidx.last_ts
                             /\ Len(timeidx.off) = IdxNumber(timeidx.last_ts) + 1

PlayTypes ==
  /\ tape \in Files /\ pos \in 1 .. Len(tape) + 1
  /\ reel \in {"begin", "play", "end", "exit"} /\ init_phase \in {0, 1, 2} /\ begin_ts \in Nat
  /\ skip \in [pos : Nat, goto : Nat] /\ skip.pos <= Len(tape)
  /\ opt \in PlayOptions /\ (ctrl.new => ctrl.c \in PlayOptions)
  /\ IdxShape

\* What is known of a chunk.
LEMMA ChunkOfTape ==
  ASSUME tape \in Files
  PROVE  /\ Len(tape) \in Nat /\ DOMAIN tape = 1 .. Len(tape)
         /\ \A i \in 1 .. Len(tape) :
              /\ tape[i].ts \in Nat /\ tape[i].ts > 0
              /\ tape[i].type \in {"add", "rfr", "chg"} => tape[i].oid \in Sources
              /\ tape[i].type = "image" =>
                   i - 1 \in 1 .. Len(tape) /\ tape[i - 1].type = "next" /\ tape[i - 1].ts = tape[i].ts
  <1>1. tape \in Seq(FileChunk)
    BY PlayAssumption
  <1>2. Len(tape) \in Nat /\ DOMAIN tape = 1 .. Len(tape)
    BY <1>1
  <1>3. \A i \in 1 .. Len(tape) : tape[i] \in FileChunk
    BY <1>1
  <1>4. ASSUME NEW i \in 1 .. Len(tape)
        PROVE  /\ tape[i].ts \in Nat /\ tape[i].ts > 0
               /\ tape[i].type \in {"add", "rfr", "chg"} => tape[i].oid \in Sources
               /\ tape[i].type = "image" =>
                    i - 1 \in 1 .. Len(tape) /\ tape[i - 1].type = "next" /\ tape[i - 1].ts = tape[i].ts
    <2>1. tape[i].ts \in Nat
      BY <1>3 DEF FileChunk
    <2>2. tape[i].ts >= Interval /\ Interval \in Nat \ {0}
      BY <1>2, PlayAssumption
    <2>3. tape[i].ts > 0
      BY <2>1, <2>2
    <2>4. tape[i].type \in {"add", "rfr", "chg"} => tape[i].oid \in Sources
      BY <1>2, PlayAssumption
    <2>5. tape[i].type = "image" =>
            i > 1 /\ tape[i - 1].type = "next" /\ tape[i - 1].ts = tape[i].ts
      BY <1>2, PlayAssumption
    <2>6. i > 1 => i - 1 \in 1 .. Len(tape)
      BY <1>2
    <2> QED BY <2>1, <2>3, <2>4, <2>5, <2>6
  <1> QED BY <1>2, <1>4

\* Arithmetic of intervals.
LEMMA Quotient ==
  ASSUME NEW a \in Nat, NEW n \in Nat \ {0}
  PROVE  a \div n \in Nat /\ (a \div n) * n <= a /\ a < (a \div n) * n + n
  OBVIOUS
LEMMA QuotientGrows ==
  ASSUME NEW a \in Nat, NEW b \in Nat, a <= b, NEW n \in Nat \ {0}
  PROVE  a \div n <= b \div n
  OBVIOUS
LEMMA ProductGrows ==
  ASSUME NEW m \in Nat, NEW k \in Nat, m <= k, NEW n \in Nat \ {0}
  PROVE  m * n \in Nat /\ k * n \in Nat /\ m * n <= k * n
  OBVIOUS

LEMMA Differences ==
  ASSUME NEW a \in Nat, NEW b \in Nat, NEW c \in Nat, a <= b, b <= c
  PROVE  b - a \in Nat /\ c - a \in Nat /\ b - a <= c - a
  OBVIOUS

LEMMA IdxNumbers ==
  ASSUME IdxShape, timeidx.first_ts # 0
  PROVE  /\ \A ts \in Nat : ts >= timeidx.first_ts => IdxNumber(ts) \in Nat
         /\ \A ts \in Nat : ts >= timeidx.first_ts /\ ts <= timeidx.last_ts =>
              IdxNumber(ts) + 1 \in DOMAIN timeidx.off
         /\ DOMAIN timeidx.off = 1 .. Len(timeidx.off) /\ Len(timeidx.off) \in Nat \ {0}
         /\ timeidx.first_ts \in Nat /\ timeidx.last_ts \in Nat /\ Interval \in Nat \ {0}
  <1>1. /\ timeidx.first_ts \in Nat /\ timeidx.last_ts \in Nat /\ timeidx.off \in Seq(Nat)
        /\ timeidx.first_ts <= timeidx.last_ts /\ Len(timeidx.off) = IdxNumber(timeidx.last_ts) + 1
    BY DEF IdxShape
  <1>2. Interval \in Nat \ {0}
    BY PlayAssumption
  <1>3. ASSUME NEW ts \in Nat, ts >= timeidx.first_ts PROVE IdxNumber(ts) \in Nat
    <2>1. ts - timeidx.first_ts \in Nat
      BY <1>1, <1>3
    <2> QED BY <1>2, <2>1, Quotient DEF IdxNumber
  <1>4. DOMAIN timeidx.off = 1 .. Len(timeidx.off) /\ Len(timeidx.off) \in Nat \ {0}
    BY SMTT(30), <1>1, <1>3
  <1>5. ASSUME NEW ts \in Nat, ts >= timeidx.first_ts, ts <= timeidx.last_ts
        PROVE  IdxNumber(ts) + 1 \in DOMAIN timeidx.off
    <2>1. /\ ts - timeidx.first_ts \in Nat /\ timeidx.last_ts - timeidx.first_ts \in Nat
          /\ ts - timeidx.first_ts <= timeidx.last_ts - timeidx.first_ts
      BY <1>1, <1>5, Differences
    <2>2. IdxNumber(ts) <= IdxNumber(timeidx.last_ts)
      BY <1>2, <2>1, QuotientGrows DEF IdxNumber
    <2>3. IdxNumber(ts) \in Nat /\ IdxNumber(timeidx.last_ts) \in Nat
      BY <1>1, <1>3, <1>5
    <2> QED BY <1>1, <1>4, <2>2, <2>3
  <1> QED BY <1>1, <1>2, <1>3, <1>4, <1>5

\* A lookup yields an entry of the index, or -1.
LEMMA LookupIsEntry ==
  ASSUME IdxShape, NEW ts \in Nat \ {0}, IdxLookup(ts) # -1
  PROVE  timeidx.first_ts # 0 /\ \E i \in DOMAIN timeidx.off : IdxLookup(ts) = timeidx.off[i]
  <1>1. ts <= timeidx.last_ts
    BY DEF IdxLookup, IdxShape
  <1>2. timeidx.first_ts # 0
    BY <1>1 DEF IdxShape
  <1>3. 1 \in DOMAIN timeidx.off /\ Len(timeidx.off) \in DOMAIN timeidx.off
    BY <1>2, IdxNumbers
  <1>4. ts >= timeidx.first_ts => IdxNumber(ts) + 1 \in DOMAIN timeidx.off
    BY <1>1, <1>2, IdxNumbers
  <1> DEFINE i == IF ts < timeidx.first_ts THEN 1 ELSE IdxNumber(ts) + 1
             k == IF i > Len(timeidx.off) THEN Len(timeidx.off) ELSE i
  <1>5. IdxLookup(ts) = timeidx.off[k]
    BY <1>1 DEF IdxLookup, IdxShape
  <1>6. i \in DOMAIN timeidx.off
    BY <1>2, <1>3, <1>4, IdxNumbers
  <1>7. k \in DOMAIN timeidx.off
    BY <1>3, <1>6
  <1> QED BY <1>2, <1>5, <1>7

\* An entry is added: the ones before stay as they are.
LEMMA IdxAdds ==
  ASSUME IdxShape, tape' = tape, tape \in Files, NEW ts \in Nat, ts > 0, NEW off \in 1 .. Len(tape) + 1,
         ts >= timeidx.last_ts + Interval, timeidx' = IdxAdd(ts, off)
  PROVE  /\ IdxShape' /\ timeidx'.first_ts # 0 /\ timeidx'.last_ts = ts
         /\ timeidx.first_ts # 0 => timeidx'.first_ts = timeidx.first_ts /\ timeidx.last_ts <= ts
         /\ timeidx.first_ts = 0 => timeidx'.first_ts = ts
         /\ \A i \in DOMAIN timeidx'.off : timeidx'.off[i] = IF i \in DOMAIN timeidx.off
                                                            THEN timeidx.off[i] ELSE off
  <1>1. /\ timeidx \in [first_ts : Nat, last_ts : Nat, off : Seq(Nat)]
        /\ \A i \in DOMAIN timeidx.off : timeidx.off[i] \in 1 .. Len(tape) + 1
        /\ Len(tape) \in Nat /\ Interval \in Nat \ {0}
    BY ChunkOfTape, PlayAssumption DEF IdxShape
  <1>2. CASE timeidx.first_ts = 0
    <2>1. timeidx' = [first_ts |-> ts, last_ts |-> ts, off |-> <<off>>]
      BY <1>2 DEF IdxAdd
    <2>2. timeidx.off = <<>>
      BY <1>2 DEF IdxShape
    <2>3. timeidx'.first_ts = ts /\ timeidx'.last_ts = ts /\ timeidx'.off = <<off>>
      BY <2>1
    <2>4. (ts - ts) \div Interval = 0
      BY <1>1
    <2>5. Len(timeidx'.off) = ((timeidx'.last_ts - timeidx'.first_ts) \div Interval) + 1
      BY <2>3, <2>4
    <2>6. timeidx' \in [first_ts : Nat, last_ts : Nat, off : Seq(Nat)]
      BY <1>1, <2>1
    <2>7. \A i \in DOMAIN timeidx'.off : i \notin DOMAIN timeidx.off /\ timeidx'.off[i] = off
      BY <2>2, <2>3
    <2>8. IdxShape'
      BY <2>3, <2>5, <2>6, <2>7 DEF IdxShape, IdxNumber
    <2> QED BY <1>2, <2>3, <2>7, <2>8
  <1>3. CASE timeidx.first_ts # 0
    <2> DEFINE n == IdxNumber(ts)
               q == [i \in 1 .. n + 1 |-> IF i \in DOMAIN timeidx.off THEN timeidx.off[i] ELSE off]
    <2>1. ~(ts < timeidx.last_ts + Interval) /\ timeidx.last_ts <= ts /\ timeidx.first_ts <= ts
      BY <1>1, <1>3 DEF IdxShape
    <2>2. timeidx' = [timeidx EXCEPT !.last_ts = ts, !.off = q]
      BY <1>3, <2>1 DEF IdxAdd
    <2>3. n \in Nat
      BY <1>3, <2>1, IdxNumbers
    <2>4. q \in Seq(Nat) /\ DOMAIN q = 1 .. n + 1 /\ Len(q) = n + 1
      <3>1. \A i \in DOMAIN timeidx.off : timeidx.off[i] \in Nat
        BY <1>1
      <3>2. q \in [1 .. n + 1 -> Nat]
        BY <3>1, <1>1
      <3>3. n + 1 \in Nat
        BY <2>3
      <3> HIDE DEF q
      <3> QED BY <3>2, <3>3
    <2>5. \A i \in 1 .. n + 1 : q[i] = IF i \in DOMAIN timeidx.off THEN timeidx.off[i] ELSE off
      OBVIOUS
    <2> HIDE DEF q
    <2>6. timeidx'.first_ts = timeidx.first_ts /\ timeidx'.last_ts = ts /\ timeidx'.off = q
      BY <1>1, <2>2
    <2>7. timeidx' \in [first_ts : Nat, last_ts : Nat, off : Seq(Nat)]
      BY <1>1, <2>2, <2>4
    <2>8. Len(timeidx'.off) = ((timeidx'.last_ts - timeidx'.first_ts) \div Interval) + 1
      BY <2>4, <2>6 DEF IdxNumber
    <2>9. \A i \in DOMAIN timeidx'.off : timeidx'.off[i] \in 1 .. Len(tape) + 1
      BY <1>1, <2>4, <2>5, <2>6
    <2>10. IdxShape'
      BY <1>3, <2>1, <2>6, <2>7, <2>8, <2>9 DEF IdxShape, IdxNumber
    <2> QED BY <1>3, <2>1, <2>4, <2>5, <2>6, <2>10
  <1> QED BY <1>2, <1>3

\* What is read of a chunk before it is played.
LEMMA TakeChunkTypes ==
  ASSUME PlayTypes, ReadsChunk, TakeChunk
  PROVE  /\ tape' = tape /\ pos' \in 1 .. Len(tape') + 1 /\ pos \in 1 .. Len(tape)
         /\ init_phase' \in {0, 1, 2} /\ begin_ts' \in Nat /\ IdxShape' /\ ctrl' = ctrl
  <1>1. pos \in 1 .. Len(tape) /\ tape \in Files /\ IdxShape /\ begin_ts \in Nat
        /\ init_phase \in {0, 1, 2} /\ reel = "play"
    BY DEF PlayTypes, ReadsChunk, Reads
  <1>2. This.ts \in Nat /\ This.ts > 0 /\ pos + 1 \in 1 .. Len(tape) + 1
    BY <1>1, ChunkOfTape DEF This
  <1>3. NowFirst \in Nat /\ NowPhase \in {0, 1, 2}
    BY <1>1, <1>2 DEF NowFirst, NowPhase
  <1>4. /\ tape' = tape /\ pos' = pos + 1 /\ begin_ts' = NowFirst /\ init_phase' = NowPhase
        /\ ctrl' = ctrl
        /\ \/ timeidx' = timeidx
           \/ timeidx' = IdxAdd(This.ts, pos + 1) /\ This.ts >= timeidx.last_ts + Interval
    BY DEF TakeChunk
  <1>5. CASE timeidx' = timeidx
    <2>1. IdxShape'
      BY <1>1, <1>4, <1>5 DEF IdxShape, IdxNumber
    <2> QED BY <1>1, <1>2, <1>3, <1>4, <2>1
  <1>6. CASE timeidx' = IdxAdd(This.ts, pos + 1) /\ This.ts >= timeidx.last_ts + Interval
    <2>1. IdxShape'
      BY <1>1, <1>2, <1>4, <1>6, IdxAdds
    <2> QED BY <1>1, <1>2, <1>3, <1>4, <2>1
  <1> QED BY <1>4, <1>5, <1>6

LEMMA GotoTypes ==
  ASSUME PlayTypes, ReadsChunk, GotoBookkeeping
  PROVE  /\ skip' \in [pos : Nat, goto : Nat] /\ skip'.pos \in {skip.pos, pos} /\ skip'.pos <= Len(tape)
         /\ opt' \in PlayOptions /\ opt'.end = opt.end
  <1>1. pos \in 1 .. Len(tape) /\ pos \in Nat /\ tape \in Files /\ Len(tape) \in Nat
        /\ skip \in [pos : Nat, goto : Nat] /\ skip.pos <= Len(tape) /\ opt \in PlayOptions
    BY ChunkOfTape DEF PlayTypes, ReadsChunk
  <1>2. opt.goto \in Nat
    BY <1>1 DEF PlayOptions
  <1>3. /\ [opt EXCEPT !.goto = 0] \in PlayOptions /\ [opt EXCEPT !.goto = 0].end = opt.end
    BY <1>1 DEF PlayOptions
  <1>4. CASE Reached
    <2>1. skip' = [pos |-> pos, goto |-> opt.goto] /\ opt' = [opt EXCEPT !.goto = 0]
      BY <1>4 DEF GotoBookkeeping
    <2> QED BY <1>1, <1>2, <1>3, <2>1
  <1>5. CASE ~Reached
    BY <1>1, <1>5 DEF GotoBookkeeping
  <1> QED BY <1>4, <1>5

\* Where a round or a command puts the player.
LEMMA BeginRoundJumps ==
  ASSUME PlayTypes, BeginRound
  PROVE  /\ opt' \in PlayOptions /\ opt'.end = opt.end
         /\ \/ pos' = 1
            \/ skip.pos # 0 /\ pos' = skip.pos
            \/ timeidx.first_ts # 0 /\ \E i \in DOMAIN timeidx.off : pos' = timeidx.off[i]
  <1> DEFINE goto == IF opt.begin # 0 /\ opt.goto = 0 THEN opt.begin ELSE opt.goto
             place == IF skip.pos # 0 /\ skip.goto = goto THEN skip.pos ELSE IdxLookup(goto)
  <1>1. opt \in PlayOptions /\ IdxShape
    BY DEF PlayTypes
  <1>2. goto \in Nat
    BY <1>1 DEF PlayOptions
  <1> HIDE DEF goto
  <1>3. opt' = [opt EXCEPT !.goto = goto] /\ (pos' = 1 \/ (goto # 0 /\ place >= 0 /\ pos' = place))
    BY DEF BeginRound, goto
  <1>4. opt' \in PlayOptions /\ opt'.end = opt.end
    BY <1>1, <1>2, <1>3 DEF PlayOptions
  <1>5. CASE goto # 0 /\ place >= 0 /\ pos' = place /\ ~(skip.pos # 0 /\ skip.goto = goto)
    <2>1. IdxLookup(goto) # -1 /\ goto \in Nat \ {0} /\ pos' = IdxLookup(goto)
      BY <1>2, <1>5
    <2> QED BY <1>1, <1>4, <2>1, LookupIsEntry
  <1>6. CASE pos' = place /\ skip.pos # 0 /\ skip.goto = goto
    BY <1>4, <1>6
  <1> QED BY <1>3, <1>4, <1>5, <1>6

LEMMA ReadCtrlJumps ==
  ASSUME PlayTypes, ReadCtrl
  PROVE  /\ opt' \in PlayOptions /\ (skip' = skip \/ skip' = [skip EXCEPT !.pos = 0])
         /\ \/ pos' = 1 \/ pos' = pos
            \/ timeidx.first_ts # 0 /\ \E i \in DOMAIN timeidx.off : pos' = timeidx.off[i]
  <1> DEFINE goto == ctrl.c.goto
  <1>1. ctrl.new /\ IdxShape /\ ctrl.c \in PlayOptions
    BY DEF PlayTypes, ReadCtrl, CtrlIsDue
  <1>2. goto \in Nat
    BY <1>1 DEF PlayOptions
  <1>3. /\ opt' = ctrl.c /\ (skip' = skip \/ skip' = [skip EXCEPT !.pos = 0])
        /\ \/ pos' = 1 \/ pos' = pos
           \/ goto # 0 /\ IdxLookup(goto) >= 0 /\ pos' = IdxLookup(goto)
    BY DEF ReadCtrl
  <1> HIDE DEF goto
  <1>4. CASE goto # 0 /\ IdxLookup(goto) >= 0 /\ pos' = IdxLookup(goto)
    <2>1. IdxLookup(goto) # -1 /\ goto \in Nat \ {0}
      BY <1>2, <1>4
    <2> QED BY <1>1, <1>3, <1>4, <2>1, LookupIsEntry
  <1> QED BY <1>1, <1>3, <1>4

\* Nothing but a chunk that is taken changes the index.
LEMMA IdxStays ==
  ASSUME IdxShape, tape' = tape, timeidx' = timeidx
  PROVE  IdxShape'
  BY DEF IdxShape, IdxNumber

LEMMA PlayTypesStep ==
  ASSUME PlayTypes, [PlayNext]_playVars
  PROVE  PlayTypes'
  <1>1. /\ tape \in Files /\ pos \in 1 .. Len(tape) + 1 /\ Len(tape) \in Nat
        /\ reel \in {"begin", "play", "end", "exit"} /\ init_phase \in {0, 1, 2} /\ begin_ts \in Nat
        /\ skip \in [pos : Nat, goto : Nat] /\ skip.pos <= Len(tape)
        /\ opt \in PlayOptions /\ (ctrl.new => ctrl.c \in PlayOptions) /\ IdxShape
    BY ChunkOfTape DEF PlayTypes
  <1>2. ASSUME NEW i \in DOMAIN timeidx.off PROVE timeidx.off[i] \in 1 .. Len(tape) + 1
    BY <1>1 DEF IdxShape
  <1>3. CASE UNCHANGED playVars
    BY <1>1, <1>3, IdxStays DEF playVars, idxVars, PlayTypes
  <1>4. CASE BeginRound
    <2>1. /\ tape' = tape /\ ctrl' = ctrl /\ begin_ts' = begin_ts /\ timeidx' = timeidx /\ skip' = skip
          /\ reel' = "play" /\ init_phase' = 1
      BY <1>4 DEF BeginRound
    <2>2. opt' \in PlayOptions /\ pos' \in 1 .. Len(tape) + 1
      BY <1>1, <1>2, <1>4, BeginRoundJumps
    <2> QED BY <1>1, <2>1, <2>2, IdxStays DEF PlayTypes
  <1>5. CASE ReadCtrl
    <2>1. /\ tape' = tape /\ reel' = reel /\ ctrl' = [new |-> FALSE] /\ begin_ts' = begin_ts
          /\ timeidx' = timeidx /\ init_phase' = init_phase
      BY <1>5 DEF ReadCtrl, idxVars
    <2>2. opt' \in PlayOptions /\ pos' \in 1 .. Len(tape) + 1
      BY <1>1, <1>2, <1>5, ReadCtrlJumps
    <2>3. skip' \in [pos : Nat, goto : Nat] /\ skip'.pos <= Len(tape)
      BY <1>1, <1>5, ReadCtrlJumps
    <2> QED BY <1>1, <2>1, <2>2, <2>3, IdxStays DEF PlayTypes
  <1>6. ASSUME NEW c \in Commands, WriteCtrl(c) PROVE PlayTypes'
    <2>1. UNCHANGED <<tape, pos, reel, opt, idxVars, skip>> /\ ctrl' = [new |-> TRUE, c |-> c]
      BY <1>6 DEF WriteCtrl
    <2>2. ctrl'.c \in PlayOptions
      BY <1>6, <2>1, PlayAssumption
    <2> QED BY <1>1, <2>1, <2>2, IdxStays DEF PlayTypes, idxVars
  <1>7. CASE Image \/ EndOfFile \/ EndRound
    <2>1. /\ tape' = tape /\ ctrl' = ctrl /\ UNCHANGED idxVars /\ skip' = skip /\ opt' = opt
          /\ reel' \in {"begin", "play", "end", "exit"}
          /\ pos' = pos \/ (pos <= Len(tape) /\ pos' = pos + 1)
      BY <1>1, <1>7 DEF Image, EndOfFile, EndRound
    <2>2. pos' \in 1 .. Len(tape) + 1
      BY <1>1, <2>1
    <2> QED BY <1>1, <2>1, <2>2, IdxStays DEF PlayTypes, idxVars
  <1>8. CASE EndReached
    <2>1. ReadsChunk /\ TakeChunk /\ reel' = "end" /\ opt' = opt /\ skip' = skip
      BY <1>8 DEF EndReached
    <2> QED BY <1>1, <2>1, TakeChunkTypes DEF PlayTypes
  <1>9. CASE SkipChunk
    <2>1. ReadsChunk /\ TakeChunk /\ reel' = reel /\ opt' = opt /\ skip' = [skip EXCEPT !.pos = pos]
      BY <1>9 DEF SkipChunk
    <2>2. pos \in 1 .. Len(tape)
      BY <2>1, TakeChunkTypes
    <2>3. skip' \in [pos : Nat, goto : Nat] /\ skip'.pos <= Len(tape)
      BY <1>1, <2>1, <2>2
    <2> QED BY <1>1, <2>1, <2>3, TakeChunkTypes DEF PlayTypes
  <1>10. CASE StopAtGoto \/ \E types : Plays(types)
    <2>1. ReadsChunk /\ TakeChunk /\ GotoBookkeeping /\ reel' = reel
      BY <1>10 DEF StopAtGoto, Plays
    <2> QED BY <1>1, <2>1, TakeChunkTypes, GotoTypes DEF PlayTypes
  <1>11. Known \/ Create \/ Refuse \/ Remove \/ Update \/ ImageHeader \/ LostData
           => \E types : Plays(types)
    BY DEF Known, Create, Refuse, Remove, Update, ImageHeader, LostData
  <1> QED BY <1>3, <1>4, <1>5, <1>6, <1>7, <1>8, <1>9, <1>10, <1>11 DEF PlayNext

LEMMA PlayTypesAlways == PlaySpec => []PlayTypes
  <1>1. ASSUME PlayInit PROVE PlayTypes
    <2>1. /\ tape \in Files /\ pos = 1 /\ reel = "begin" /\ opt \in PlayOptions
          /\ ctrl = [new |-> FALSE] /\ init_phase = 1 /\ begin_ts = 0
          /\ timeidx = [first_ts |-> 0, last_ts |-> 0, off |-> <<>>] /\ skip = [pos |-> 0, goto |-> 0]
      BY <1>1, PlayAssumption DEF PlayInit
    <2>2. Len(tape) \in Nat
      BY <2>1, ChunkOfTape
    <2>3. IdxShape
      BY <2>1 DEF IdxShape
    <2> QED BY <2>1, <2>2, <2>3 DEF PlayTypes
  <1> QED BY <1>1, PlayTypesStep, PTL DEF PlaySpec

-----------------------------------------------------------------------------
(* The player's objects. *)

\* An object is the one its source is mapped to: no other object has the same source, since
\* a source has an object made for it only while it is mapped to none.
MapOK ==
  /\ dest \in Nat
  /\ map \in [Sources -> Int] /\ \A o \in Sources : map[o] <= dest
  /\ \A d \in DOMAIN db : d \in 1 .. dest /\ db[d].source \in Sources /\ map[db[d].source] = d
  /\ reel = "exit" => db = <<>>

\* An object is below itself.
LEMMA BelowItself ==
  ASSUME NEW d \in DOMAIN db
  PROVE  d \in Below(d)
  BY DEF Below

\* Writing an object does not change what it is made from.
LEMMA WrittenKeeps ==
  ASSUME NEW d, NEW header, NEW body
  PROVE  /\ DOMAIN Written(d, header, body) = DOMAIN db
         /\ \A e \in DOMAIN db : Written(d, header, body)[e].source = db[e].source
  <1>1. CASE d \in DOMAIN db
    <2>1. Written(d, header, body) = [db EXCEPT ![d] =
              [source |-> db[d].source, parent |-> db[d].parent, shown |-> Shown(header, body)]]
      BY <1>1 DEF Written
    <2>2. ASSUME NEW e \in DOMAIN db PROVE Written(d, header, body)[e].source = db[e].source
      BY <1>1, <2>1
    <2> QED BY <2>1, <2>2
  <1>2. CASE d \notin DOMAIN db
    BY <1>2 DEF Written
  <1> QED BY <1>1, <1>2

\* The steps that leave the objects alone, or only write one.
LEMMA PlayedAgain ==
  ASSUME MapOK, dest' = dest, map' = map, reel' # "exit",
         DOMAIN db' = DOMAIN db, \A e \in DOMAIN db : db'[e].source = db[e].source
  PROVE  MapOK'
  BY DEF MapOK

LEMMA CreateInv ==
  ASSUME PlayTypes, MapOK, Create
  PROVE  MapOK'
  <1> DEFINE object == [source |-> This.oid, parent |-> Querydest(This.data), shown |-> Shown(0, 0)]
  <1>1. /\ reel = "play" /\ reel' = reel /\ dest' = dest + 1
        /\ db' = With(dest + 1, object) /\ map[This.oid] = Absent
        /\ map' = [map EXCEPT ![This.oid] = dest + 1]
        /\ This.type \in {"add", "rfr", "chg"} /\ pos <= Len(tape)
    BY DEF Create, Plays, ReadsChunk, Reads
  <1>2. This.oid \in Sources
    <2>1. tape \in Files /\ pos \in 1 .. Len(tape)
      BY <1>1, ChunkOfTape DEF PlayTypes
    <2> QED BY <1>1, <2>1, ChunkOfTape DEF This
  <1>3. object.source = This.oid
    OBVIOUS
  <1> HIDE DEF object
  <1>4. /\ dest \in Nat /\ map \in [Sources -> Int] /\ \A o \in Sources : map[o] <= dest
        /\ \A d \in DOMAIN db : d \in 1 .. dest /\ db[d].source \in Sources /\ map[db[d].source] = d
    BY DEF MapOK
  <1>5. /\ DOMAIN db' = DOMAIN db \cup {dest + 1} /\ db'[dest + 1] = object
        /\ \A e \in DOMAIN db : e # dest + 1 => db'[e] = db[e]
    BY <1>1 DEF With
  <1>6. ASSUME NEW d \in DOMAIN db'
        PROVE  d \in 1 .. dest' /\ db'[d].source \in Sources /\ map'[db'[d].source] = d
    <2>1. CASE d = dest + 1
      BY <1>1, <1>2, <1>3, <1>4, <1>5, <2>1
    <2>2. CASE d # dest + 1
      <3>1. d \in DOMAIN db /\ db'[d] = db[d] /\ d \in 1 .. dest
        BY <1>4, <1>5, <2>2
      <3>2. db[d].source # This.oid
        BY <1>1, <1>4, <3>1 DEF Absent
      <3> QED BY <1>1, <1>4, <3>1, <3>2
    <2> QED BY <2>1, <2>2
  <1>7. map' \in [Sources -> Int] /\ \A o \in Sources : map'[o] <= dest'
    BY <1>1, <1>2, <1>4
  <1> QED BY <1>1, <1>4, <1>6, <1>7 DEF MapOK

LEMMA RefuseInv ==
  ASSUME MapOK, Refuse
  PROVE  MapOK'
  <1>1. /\ reel = "play" /\ reel' = reel /\ dest' = dest /\ db' = db
        /\ map[This.oid] = Absent /\ map' = [map EXCEPT ![This.oid] = 0]
    BY DEF Refuse, Plays, ReadsChunk, Reads, TakeChunk
  <1>2. map' \in [Sources -> Int] /\ \A o \in Sources : map'[o] <= dest'
    <2>1. map \in [Sources -> Int] /\ dest \in Nat /\ \A o \in Sources : map[o] <= dest
      BY DEF MapOK
    <2>2. \A o \in Sources : map'[o] = map[o] \/ map'[o] = 0
      BY <1>1, <2>1
    <2>3. map' \in [Sources -> Int]
      BY <1>1, <2>1, Updated
    <2> QED BY <1>1, <2>1, <2>2, <2>3
  <1>3. ASSUME NEW d \in DOMAIN db'
        PROVE  d \in 1 .. dest' /\ db'[d].source \in Sources /\ map'[db'[d].source] = d
    <2>1. /\ d \in 1 .. dest /\ db[d].source \in Sources /\ map[db[d].source] = d /\ dest \in Nat
          /\ map \in [Sources -> Int]
      BY <1>1 DEF MapOK
    <2>2. db[d].source # This.oid
      BY <1>1, <2>1 DEF Absent
    <2> QED BY <1>1, <2>1, <2>2
  <1> QED BY <1>1, <1>2, <1>3 DEF MapOK

LEMMA RemoveInv ==
  ASSUME MapOK, Remove
  PROVE  MapOK'
  <1>1. /\ reel = "play" /\ reel' = reel /\ dest' = dest
        /\ db' = Without(db, Below(Querydest(This.oid)))
        /\ map' = [map EXCEPT ![This.oid] = Absent]
    BY DEF Remove, Plays, ReadsChunk, Reads, TakeChunk
  <1>2. /\ dest \in Nat /\ map \in [Sources -> Int] /\ \A o \in Sources : map[o] <= dest
        /\ \A d \in DOMAIN db : d \in 1 .. dest /\ db[d].source \in Sources /\ map[db[d].source] = d
    BY DEF MapOK
  <1>3. ASSUME NEW d \in DOMAIN db'
        PROVE  d \in 1 .. dest' /\ db'[d].source \in Sources /\ map'[db'[d].source] = d
    <2>1. d \in DOMAIN db /\ d \notin Below(Querydest(This.oid)) /\ db'[d] = db[d]
      BY <1>1 DEF Without
    <2>2. db[d].source # This.oid
      <3> SUFFICES ASSUME db[d].source = This.oid PROVE FALSE
        OBVIOUS
      <3>1. Querydest(This.oid) = d
        BY <1>2, <2>1 DEF Querydest, Absent
      <3> QED BY <2>1, <3>1, BelowItself
    <2> QED BY <1>1, <1>2, <2>1, <2>2
  <1>4. map' \in [Sources -> Int] /\ \A o \in Sources : map'[o] <= dest'
    <2>1. Absent \in Int /\ \A n \in Nat : Absent <= n
      BY DEF Absent
    <2> HIDE DEF Absent
    <2> QED BY <1>1, <1>2, <2>1
  <1> QED BY <1>1, <1>3, <1>4 DEF MapOK

\* At the end of a round that keeps nothing every object is found through the map.
LEMMA EndRoundInv ==
  ASSUME MapOK, EndRound
  PROVE  MapOK'
  <1> DEFINE gone == UNION {Below(map[o]) : o \in Sources}
  <1>1. /\ reel' = (IF opt.loop THEN "begin" ELSE "exit") /\ dest' = dest
        /\ \/ opt.loop /\ map' = map /\ db' = db
           \/ map' = [o \in Sources |-> Absent] /\ db' = Without(db, gone)
    BY DEF EndRound
  <1>2. DOMAIN db \subseteq gone
    <2> SUFFICES ASSUME NEW d \in DOMAIN db PROVE d \in gone
      OBVIOUS
    <2>1. db[d].source \in Sources /\ map[db[d].source] = d
      BY DEF MapOK
    <2>2. d \in Below(map[db[d].source])
      BY <2>1, BelowItself
    <2> QED BY <2>1, <2>2
  <1> HIDE DEF gone
  <1>3. CASE map' = [o \in Sources |-> Absent] /\ db' = Without(db, gone)
    <2>1. DOMAIN db \ gone = {}
      BY <1>2
    <2>2. db' = <<>>
      BY <1>3, <2>1 DEF Without
    <2>3. map' \in [Sources -> Int] /\ \A o \in Sources : map'[o] <= dest'
      BY <1>1, <1>3 DEF MapOK, Absent
    <2> QED BY <1>1, <2>2, <2>3 DEF MapOK
  <1>4. CASE opt.loop /\ map' = map /\ db' = db
    BY <1>1, <1>4, PlayedAgain
  <1> QED BY <1>1, <1>3, <1>4

LEMMA PlayStep ==
  ASSUME PlayTypes, MapOK, [PlayNext]_playVars
  PROVE  MapOK'
  <1>1. CASE UNCHANGED playVars
    BY <1>1 DEF MapOK, playVars
  <1>2. CASE BeginRound \/ ReadCtrl \/ EndReached \/ SkipChunk \/ StopAtGoto \/ Known \/ ImageHeader
               \/ LostData \/ EndOfFile \/ (\E c \in Commands : WriteCtrl(c))
    <2>1. dest' = dest /\ map' = map /\ db' = db /\ reel' # "exit"
      BY <1>2 DEF BeginRound, ReadCtrl, EndReached, SkipChunk, StopAtGoto, Known, ImageHeader,
            LostData, EndOfFile, WriteCtrl, Plays, ReadsChunk, Reads, TakeChunk
    <2> QED BY <2>1, PlayedAgain
  <1>3. CASE Update \/ Image
    <2>1. /\ dest' = dest /\ map' = map /\ reel' # "exit"
          /\ \E d, header, body : db' = Written(d, header, body)
      BY <1>3 DEF Update, Image, Plays, ReadsChunk, Reads, TakeChunk
    <2> QED BY <2>1, WrittenKeeps, PlayedAgain
  <1> QED BY <1>1, <1>2, <1>3, CreateInv, RefuseInv, RemoveInv, EndRoundInv DEF PlayNext

\* However the player jumps about in its file and however often it plays it, every object it
\* has made is the one its source is mapped to, and none is left when it exits
\* (play.c:703-801, 966-991).
THEOREM MapAlwaysExact == PlaySpec => []MapIsExact
  <1>1. PlayInit => MapOK
    BY DEF PlayInit, MapOK, Absent
  <1>2. PlayTypes /\ MapOK /\ [PlayNext]_playVars => MapOK'
    BY PlayStep
  <1>3. MapOK => MapIsExact
    BY DEF MapOK, MapIsExact
  <1> QED BY <1>1, <1>2, <1>3, PlayTypesAlways, PTL DEF PlaySpec

\* A source is mapped to nothing, to the player (0), or to an object.
MapFloor == \A o \in Sources : map[o] >= Absent

\* Every variable has its type: the player stays in its file, and its objects are numbered
\* (kogmo_rtdb_play.c:85-130, 703-801).
THEOREM PlayTyped == PlaySpec => []PlayTypeOK
  <1>1. PlayInit => MapOK
    BY DEF PlayInit, MapOK, Absent
  <1>2. PlayTypes /\ MapOK /\ [PlayNext]_playVars => MapOK'
    BY PlayStep
  <1>3. PlayInit => MapFloor
    BY DEF PlayInit, MapFloor, Absent
  <1>4. ASSUME MapOK, MapFloor, [PlayNext]_playVars PROVE MapFloor'
    <2>1. /\ map \in [Sources -> Int] /\ \A o \in Sources : map[o] >= -1
          /\ dest \in Nat
      BY <1>4 DEF MapOK, MapFloor, Absent
    <2>2. \/ map' = map
          \/ map' = [o \in Sources |-> -1]
          \/ \E x : \E y \in {-1, 0, dest + 1} : map' = [map EXCEPT ![x] = y]
      BY <1>4 DEF PlayNext, playVars, BeginRound, ReadCtrl, EndReached, SkipChunk, StopAtGoto, Known,
           ImageHeader, LostData, EndOfFile, WriteCtrl, Create, Refuse, Remove, Update, Image,
           EndRound, Absent
    <2>3. \A o \in Sources : map'[o] >= -1
      BY <2>1, <2>2
    <2> QED BY <2>3 DEF MapFloor, Absent
  <1>5. MapOK /\ MapFloor /\ [PlayNext]_playVars => MapFloor'
    BY <1>4
  <1>6. ASSUME PlayTypes, MapOK, MapFloor PROVE PlayTypeOK
    <2>1. skip.pos \in 0 .. Len(tape)
      <3>1. Len(tape) \in Nat /\ skip.pos \in Nat /\ skip.pos <= Len(tape)
        BY <1>6, ChunkOfTape DEF PlayTypes
      <3> QED BY <3>1
    <2>2. \A o \in Sources : map[o] \in Absent .. dest
      BY <1>6 DEF MapOK, MapFloor, Absent
    <2> QED BY <1>6, <2>1, <2>2 DEF PlayTypes, MapOK, IdxShape, PlayTypeOK
  <1>7. PlayTypes /\ MapOK /\ MapFloor => PlayTypeOK
    BY <1>6
  <1> QED BY <1>1, <1>2, <1>3, <1>5, <1>7, PlayTypesAlways, PTL DEF PlaySpec

-----------------------------------------------------------------------------
(* The player's database: what the file says. *)

\* A source is mapped exactly from its birth to its deletion: to an object that was
\* made for it, though that may be gone already with the one above it.
MappedOK ==
  \A o \in Sources :
    /\ map[o] = Absent \/ map[o] > 0
    /\ map[o] # Absent <=> /\ \E i \in 1 .. pos - 1 : Born(tape, o, i)
                           /\ \A i \in 1 .. pos - 1 : ~Deleted(tape, o, i)
    /\ map[o] \in DOMAIN db => db[map[o]].source = o

\* An object is below the one that stands for its parent, if that was told of before, and
\* below the player otherwise.
ParentOf(d, i) ==
  IF ToldOf(tape, tape[i].data, i)
  THEN db[d].parent = map[tape[i].data] /\ db[d].parent \in DOMAIN db /\ tape[i].data \in Sources
  ELSE db[d].parent = 0
ParentsOK ==
  \A d \in DOMAIN db : \E i \in 1 .. pos - 1 :
    First(tape, i) /\ tape[i].oid = db[d].source /\ ParentOf(d, i)

\* The header that waits for an image is the one before it.
HeaderOK ==
  pos <= Len(tape) /\ tape[pos].type = "image" =>
    rawnext = [oid |-> tape[pos - 1].oid, header |-> tape[pos - 1].data]

ShownOK ==
  \A o \in Sources :
    /\ Lives(tape, o, pos) <=> map[o] \in DOMAIN db
    /\ Lives(tape, o, pos) => db[map[o]].shown = LastOf(tape, o, pos)

PlaysAll == direct /\ reel = "play" /\ refused = 0
FaithInv == refused \in Nat /\ (PlaysAll => MappedOK /\ ParentsOK /\ HeaderOK /\ ShownOK)

\* What a recording says of a chunk and those before it.
LEMMA ChunkRecorded ==
  ASSUME FilesAreRecordings, tape \in Files, NEW i \in 1 .. Len(tape), NEW o, o = OidOf(tape, i)
  PROVE  /\ DataOf(tape, o, i) => \E j \in 1 .. i - 1 : Born(tape, o, j)
         /\ FirstBelow(tape, i) => Lives(tape, tape[i].data, i)
         /\ Born(tape, o, i) \/ DataOf(tape, o, i) => \A j \in 1 .. i - 1 : ~Deleted(tape, o, j)
  <1>1. Recording(tape) /\ i \in DOMAIN tape
    BY ChunkOfTape DEF FilesAreRecordings
  <1> QED BY <1>1 DEF Recording, ToldOf

\* What is first said of an object is said once.
LEMMA FirstIsOne ==
  ASSUME NEW f, NEW i \in Nat, NEW j \in Nat, i > 0, j > 0, First(f, i), First(f, j), f[i].oid = f[j].oid
  PROVE  i = j
  <1>1. ~(i < j)
    BY DEF First
  <1>2. ~(j < i)
    BY DEF First
  <1> QED BY <1>1, <1>2

\* What one more chunk changes of what is said: of lives, and of the last data.
LEMMA OneMore ==
  ASSUME NEW i \in Nat \ {0}
  PROVE  1 .. (i + 1) - 1 = (1 .. i - 1) \cup {i}
  OBVIOUS

LEMMA LivesOn ==
  ASSUME NEW f, NEW o, NEW i \in Nat \ {0}
  PROVE  /\ (\E j \in 1 .. (i + 1) - 1 : Born(f, o, j)) <=> Born(f, o, i) \/ \E j \in 1 .. i - 1 : Born(f, o, j)
         /\ (\A j \in 1 .. (i + 1) - 1 : ~Deleted(f, o, j)) <=>
              ~Deleted(f, o, i) /\ \A j \in 1 .. i - 1 : ~Deleted(f, o, j)
         /\ (\A j \in 1 .. (i + 1) - 1 : o \notin DeletedBy(f, j)) <=>
              o \notin DeletedBy(f, i) /\ \A j \in 1 .. i - 1 : o \notin DeletedBy(f, j)
  BY OneMore

LEMMA NotDeleted ==
  ASSUME NEW f, NEW i, f[i].type # "del"
  PROVE  DeletedBy(f, i) = {}
  BY DEF DeletedBy, Deleted

LEMMA LastStays ==
  ASSUME NEW f, NEW o, NEW i \in Nat \ {0}, ~DataOf(f, o, i)
  PROVE  LastOf(f, o, i + 1) = LastOf(f, o, i)
  <1>1. DataBefore(f, o, i + 1) = DataBefore(f, o, i)
    BY OneMore DEF DataBefore
  <1> QED BY <1>1 DEF LastOf

LEMMA LastNow ==
  ASSUME NEW f, NEW o, NEW i \in Nat \ {0}, DataOf(f, o, i)
  PROVE  LastOf(f, o, i + 1) =
           Shown(IF f[i].type = "image" THEN f[i - 1].data ELSE f[i].data, f[i].data)
  <1> DEFINE before == DataBefore(f, o, i + 1)
  <1>1. i \in before /\ \A j \in before : j \in Nat /\ j <= i
    BY DEF DataBefore
  <1>2. Last(before) \in before /\ \A j \in before : j <= Last(before)
    BY <1>1 DEF Last
  <1>3. Last(before) = i
    BY <1>1, <1>2
  <1> HIDE DEF before
  <1>4. before # {}
    BY <1>1
  <1> QED BY <1>3, <1>4 DEF LastOf, before

\* What the invariant says of a chunk that is about to be played.
LEMMA Facts ==
  ASSUME PlayTypes, MapOK, FaithInv, PlaysAll
  PROVE  /\ MappedOK /\ ParentsOK /\ HeaderOK /\ ShownOK
         /\ pos \in Nat \ {0} /\ tape \in Files
         /\ dest \in Nat /\ map \in [Sources -> Int]
         /\ \A d \in DOMAIN db : d \in 1 .. dest /\ db[d].source \in Sources /\ map[db[d].source] = d
  BY ChunkOfTape DEF FaithInv, PlayTypes, MapOK

\* A step that plays no chunk.
LEMMA FaithStill ==
  ASSUME FaithInv, refused' = refused, PlaysAll' => PlaysAll /\ UNCHANGED <<tape, pos, map, db, rawnext>>
  PROVE  FaithInv'
  <1>1. CASE PlaysAll'
    <2>1. PlaysAll /\ UNCHANGED <<tape, pos, map, db, rawnext>>
      BY <1>1
    <2>2. MappedOK /\ ParentsOK /\ HeaderOK /\ ShownOK
      BY <2>1 DEF FaithInv
    <2>3. MappedOK' /\ HeaderOK' /\ ShownOK'
      BY <2>1, <2>2 DEF MappedOK, HeaderOK, ShownOK
    <2>4. ParentsOK'
      BY <2>1, <2>2 DEF ParentsOK, ParentOf
    <2> QED BY <2>3, <2>4 DEF FaithInv
  <1>2. CASE ~PlaysAll'
    BY <1>2 DEF FaithInv
  <1> QED BY <1>1, <1>2

\* A chunk that deletes nothing leaves the objects where they are, if it is not about one
\* that is new.
LEMMA LifeGoesOn ==
  ASSUME PlayTypes, MapOK, FaithInv, PlaysAll, FilesAreRecordings, pos <= Len(tape),
         tape' = tape, pos' = pos + 1, map' = map, DOMAIN db' = DOMAIN db,
         \A e \in DOMAIN db : db'[e].source = db[e].source /\ db'[e].parent = db[e].parent,
         tape[pos].type # "del",
         \A o \in Sources : Born(tape, o, pos) => map[o] # Absent
  PROVE  /\ MappedOK' /\ ParentsOK'
         /\ \A o \in Sources : /\ Lives(tape, o, pos + 1) <=> Lives(tape, o, pos)
                               /\ Lives(tape, o, pos + 1) <=> map[o] \in DOMAIN db
  <1>1. /\ MappedOK /\ ParentsOK /\ ShownOK /\ pos \in Nat \ {0} /\ tape \in Files
        /\ \A d \in DOMAIN db : db[d].source \in Sources
    BY Facts
  <1>2. ASSUME NEW o \in Sources
        PROVE  /\ (\E j \in 1 .. (pos + 1) - 1 : Born(tape, o, j)) <=> \E j \in 1 .. pos - 1 : Born(tape, o, j)
               /\ (\A j \in 1 .. (pos + 1) - 1 : ~Deleted(tape, o, j)) <=> \A j \in 1 .. pos - 1 : ~Deleted(tape, o, j)
    <2>1. ~Deleted(tape, o, pos)
      BY DEF Deleted
    <2>2. Born(tape, o, pos) => \E j \in 1 .. pos - 1 : Born(tape, o, j)
      BY <1>1, <1>2 DEF MappedOK
    <2> QED BY <1>1, <2>1, <2>2, LivesOn
  <1>3. ASSUME NEW o \in Sources
        PROVE  /\ Lives(tape, o, pos + 1) <=> Lives(tape, o, pos)
               /\ Lives(tape, o, pos + 1) <=> map[o] \in DOMAIN db
    <2>1. Lives(tape, o, pos + 1) <=> Lives(tape, o, pos)
      BY <1>1, <1>2, LivesOn, NotDeleted DEF Lives, ToldOf
    <2>2. Lives(tape, o, pos) <=> map[o] \in DOMAIN db
      BY <1>1 DEF ShownOK
    <2> QED BY <2>1, <2>2
  <1>4. MappedOK'
    <2> SUFFICES ASSUME NEW o \in Sources
                 PROVE  /\ map'[o] = Absent \/ map'[o] > 0
                        /\ map'[o] # Absent <=> /\ \E i \in 1 .. pos' - 1 : Born(tape', o, i)
                                                /\ \A i \in 1 .. pos' - 1 : ~Deleted(tape', o, i)
                        /\ map'[o] \in DOMAIN db' => db'[map'[o]].source = o
      BY DEF MappedOK
    <2>1. /\ map[o] = Absent \/ map[o] > 0
          /\ map[o] # Absent <=> /\ \E i \in 1 .. pos - 1 : Born(tape, o, i)
                                 /\ \A i \in 1 .. pos - 1 : ~Deleted(tape, o, i)
          /\ map[o] \in DOMAIN db => db[map[o]].source = o
      BY <1>1 DEF MappedOK
    <2> QED BY <1>2, <2>1
  <1>5. ParentsOK'
    <2> SUFFICES ASSUME NEW d \in DOMAIN db'
                 PROVE  \E i \in 1 .. pos' - 1 :
                          First(tape', i) /\ tape'[i].oid = db'[d].source /\ ParentOf(d, i)'
      BY DEF ParentsOK
    <2>1. PICK i \in 1 .. pos - 1 : First(tape, i) /\ tape[i].oid = db[d].source /\ ParentOf(d, i)
      BY <1>1 DEF ParentsOK
    <2>2. i \in 1 .. pos' - 1
      BY <1>1
    <2>3. ParentOf(d, i)'
      BY <2>1 DEF ParentOf
    <2> QED BY <2>1, <2>2, <2>3
  <1> QED BY <1>3, <1>4, <1>5

\* No image comes after a chunk that is not a header.
LEMMA NoHeaderDue ==
  ASSUME tape \in Files, pos \in 1 .. Len(tape), tape' = tape, pos' = pos + 1, tape[pos].type # "next"
  PROVE  HeaderOK'
  <1> SUFFICES ASSUME pos' <= Len(tape'), tape'[pos'].type = "image" PROVE FALSE
    BY DEF HeaderOK
  <1>1. pos + 1 \in 1 .. Len(tape) /\ (pos + 1) - 1 = pos
    BY ChunkOfTape
  <1>2. tape[(pos + 1) - 1].type = "next"
    BY <1>1, ChunkOfTape
  <1> QED BY <1>1, <1>2

\* Information about a known object, a header, a loss.
LEMMA NothingShown ==
  ASSUME PlayTypes, MapOK, FaithInv, PlaysAll, FilesAreRecordings, Known \/ ImageHeader \/ LostData
  PROVE  FaithInv'
  <1>1. /\ pos \in 1 .. Len(tape) /\ pos <= Len(tape) /\ pos \in Nat \ {0} /\ tape \in Files
        /\ tape' = tape /\ pos' = pos + 1 /\ map' = map /\ db' = db /\ refused' = refused
    BY Facts, ChunkOfTape DEF Known, ImageHeader, LostData, Plays, ReadsChunk, TakeChunk
  <1>2. /\ tape[pos].type \notin {"del", "upd", "image"}
        /\ tape[pos].type = "next" => ImageHeader
        /\ tape[pos].type \in {"add", "rfr", "chg"} => map[tape[pos].oid] # Absent
    BY DEF Known, ImageHeader, LostData, Plays, This
  <1>3. \A o \in Sources : Born(tape, o, pos) => map[o] # Absent
    BY <1>2 DEF Born
  <1>4. /\ MappedOK' /\ ParentsOK'
        /\ \A o \in Sources : /\ Lives(tape, o, pos + 1) <=> Lives(tape, o, pos)
                              /\ Lives(tape, o, pos + 1) <=> map[o] \in DOMAIN db
    BY <1>1, <1>2, <1>3, LifeGoesOn
  <1>5. ShownOK'
    <2>1. \A o \in Sources : LastOf(tape, o, pos + 1) = LastOf(tape, o, pos)
      BY <1>1, <1>2, LastStays DEF DataOf
    <2> QED BY <1>1, <1>4, <2>1, Facts DEF ShownOK
  <1>6. HeaderOK'
    <2>1. CASE tape[pos].type # "next"
      BY <1>1, <2>1, NoHeaderDue
    <2>2. CASE tape[pos].type = "next"
      <3> SUFFICES ASSUME pos + 1 <= Len(tape), tape[pos + 1].type = "image"
                   PROVE  rawnext' = [oid |-> tape[pos].oid, header |-> tape[pos].data]
        BY <1>1 DEF HeaderOK
      <3> DEFINE o == tape[pos].oid
      <3>1. pos + 1 \in 1 .. Len(tape) /\ (pos + 1) - 1 = pos
        BY <1>1
      <3>2. OidOf(tape, pos + 1) = o /\ DataOf(tape, o, pos + 1)
        BY <3>1 DEF OidOf, DataOf
      <3>3. PICK j \in 1 .. (pos + 1) - 1 : Born(tape, o, j)
        BY <1>1, <3>1, <3>2, ChunkRecorded
      <3>4. j \in 1 .. pos - 1 /\ o \in Sources
        BY <1>1, <2>2, <3>1, <3>3, ChunkOfTape DEF Born
      <3>5. \A k \in 1 .. pos - 1 : ~Deleted(tape, o, k)
        BY <1>1, <3>1, <3>2, ChunkRecorded, SMTT(30)
      <3>6. map[o] # Absent /\ map[o] > 0
        BY <3>3, <3>4, <3>5, Facts DEF MappedOK
      <3>7. Querydest(o) # 0
        BY <3>4, <3>6, Facts DEF Querydest
      <3> QED BY <1>2, <2>2, <3>7 DEF ImageHeader, This
    <2> QED BY <2>1, <2>2
  <1> QED BY <1>1, <1>4, <1>5, <1>6, Facts DEF FaithInv

\* What is written into an object, and that its parent stays.
LEMMA WrittenShows ==
  ASSUME NEW d, NEW header, NEW body
  PROVE  /\ \A e \in DOMAIN db : Written(d, header, body)[e].parent = db[e].parent
         /\ \A e \in DOMAIN db : Written(d, header, body)[e].shown =
              IF e = d THEN Shown(header, body) ELSE db[e].shown
  <1>1. CASE d \in DOMAIN db
    <2>1. Written(d, header, body) = [db EXCEPT ![d] =
              [source |-> db[d].source, parent |-> db[d].parent, shown |-> Shown(header, body)]]
      BY <1>1 DEF Written
    <2>2. ASSUME NEW e \in DOMAIN db
          PROVE  /\ Written(d, header, body)[e].parent = db[e].parent
                 /\ Written(d, header, body)[e].shown = IF e = d THEN Shown(header, body) ELSE db[e].shown
      BY <1>1, <2>1
    <2> QED BY <2>2
  <1>2. CASE d \notin DOMAIN db
    BY <1>2 DEF Written
  <1> QED BY <1>1, <1>2

\* Data are shown by the object that stands for the one they were recorded of.
LEMMA DataShown ==
  ASSUME PlayTypes, MapOK, FaithInv, PlaysAll, FilesAreRecordings, pos \in 1 .. Len(tape),
         tape' = tape, pos' = pos + 1, map' = map, refused' = refused,
         NEW o, DataOf(tape, o, pos), NEW header,
         header = IF tape[pos].type = "image" THEN tape[pos - 1].data ELSE tape[pos].data,
         db' = Written(Querydest(o), header, tape[pos].data)
  PROVE  FaithInv'
  <1>1. /\ pos <= Len(tape) /\ pos \in Nat \ {0} /\ tape \in Files /\ map \in [Sources -> Int]
        /\ \A d \in DOMAIN db : d \in 1 .. dest /\ db[d].source \in Sources /\ map[db[d].source] = d
    BY Facts
  <1>2. /\ DOMAIN db' = DOMAIN db
        /\ \A e \in DOMAIN db : db'[e].source = db[e].source /\ db'[e].parent = db[e].parent
        /\ \A e \in DOMAIN db : db'[e].shown =
             IF e = Querydest(o) THEN Shown(header, tape[pos].data) ELSE db[e].shown
    BY WrittenKeeps, WrittenShows
  <1>3. tape[pos].type \in {"upd", "image"} /\ OidOf(tape, pos) = o
    BY DEF DataOf
  <1>4. \A x : ~Born(tape, x, pos)
    BY <1>3 DEF Born
  <1>5. /\ MappedOK' /\ ParentsOK'
        /\ \A x \in Sources : /\ Lives(tape, x, pos + 1) <=> Lives(tape, x, pos)
                              /\ Lives(tape, x, pos + 1) <=> map[x] \in DOMAIN db
    BY <1>1, <1>2, <1>3, <1>4, LifeGoesOn
  <1>6. o \in Sources /\ map[o] # Absent
    <2>1. (\E j \in 1 .. pos - 1 : Born(tape, o, j)) /\ \A j \in 1 .. pos - 1 : ~Deleted(tape, o, j)
      BY <1>1, <1>3, ChunkRecorded
    <2>2. o \in Sources
      BY <1>1, <2>1, ChunkOfTape DEF Born
    <2> QED BY <2>1, <2>2, Facts DEF MappedOK
  <1>7. Querydest(o) = map[o]
    BY <1>6 DEF Querydest
  <1>8. ShownOK'
    <2> SUFFICES ASSUME NEW x \in Sources
                 PROVE  /\ Lives(tape, x, pos + 1) <=> map[x] \in DOMAIN db
                        /\ Lives(tape, x, pos + 1) => db'[map[x]].shown = LastOf(tape, x, pos + 1)
      BY <1>2 DEF ShownOK
    <2>1. CASE x = o
      <3>1. LastOf(tape, x, pos + 1) = Shown(header, tape[pos].data)
        BY <1>1, <2>1, LastNow
      <3> QED BY <1>2, <1>5, <1>7, <2>1, <3>1
    <2>2. CASE x # o
      <3>1. LastOf(tape, x, pos + 1) = LastOf(tape, x, pos)
        BY <1>1, <1>3, <2>2, LastStays DEF DataOf
      <3>2. map[x] \in DOMAIN db => map[x] # map[o]
        BY <1>6, <2>2, Facts DEF MappedOK
      <3>3. Lives(tape, x, pos) => db[map[x]].shown = LastOf(tape, x, pos)
        BY Facts DEF ShownOK
      <3> QED BY <1>2, <1>5, <1>7, <3>1, <3>2, <3>3
    <2> QED BY <2>1, <2>2
  <1>9. HeaderOK'
    BY <1>1, <1>3, NoHeaderDue
  <1> QED BY <1>5, <1>8, <1>9, Facts DEF FaithInv

LEMMA UpdateShown ==
  ASSUME PlayTypes, MapOK, FaithInv, PlaysAll, FilesAreRecordings, Update
  PROVE  FaithInv'
  <1>1. /\ pos \in 1 .. Len(tape) /\ tape[pos].type = "upd" /\ tape' = tape /\ pos' = pos + 1
        /\ map' = map /\ refused' = refused
        /\ db' = Written(Querydest(tape[pos].oid), tape[pos].data, tape[pos].data)
    BY Facts, ChunkOfTape DEF Update, Plays, ReadsChunk, TakeChunk, This
  <1>2. DataOf(tape, tape[pos].oid, pos)
    BY <1>1 DEF DataOf, OidOf
  <1> QED BY <1>1, <1>2, DataShown

LEMMA ImageShown ==
  ASSUME PlayTypes, MapOK, FaithInv, PlaysAll, FilesAreRecordings, Image
  PROVE  FaithInv'
  <1>1. /\ pos \in 1 .. Len(tape) /\ pos <= Len(tape) /\ tape[pos].type = "image"
        /\ tape' = tape /\ pos' = pos + 1 /\ map' = map /\ refused' = refused
        /\ db' = Written(Querydest(rawnext.oid), rawnext.header, tape[pos].data)
    BY Facts, ChunkOfTape DEF Image, This
  <1>2. rawnext.oid = tape[pos - 1].oid /\ rawnext.header = tape[pos - 1].data
    BY <1>1, Facts DEF HeaderOK
  <1>3. DataOf(tape, tape[pos - 1].oid, pos)
    BY <1>1 DEF DataOf, OidOf
  <1> QED BY <1>1, <1>2, <1>3, DataShown

\* A new object is alive, has no data yet, and is below the one that stands for its parent.
LEMMA CreateShown ==
  ASSUME PlayTypes, MapOK, FaithInv, PlaysAll, FilesAreRecordings, Create
  PROVE  FaithInv'
  <1> DEFINE o == tape[pos].oid
             object == [source |-> o, parent |-> Querydest(tape[pos].data), shown |-> Shown(0, 0)]
  <1>1. /\ pos \in 1 .. Len(tape) /\ pos <= Len(tape) /\ pos \in Nat \ {0} /\ tape \in Files
        /\ tape[pos].type \in {"add", "rfr", "chg"} /\ tape' = tape /\ pos' = pos + 1
        /\ refused' = refused /\ map[o] = Absent /\ map' = [map EXCEPT ![o] = dest + 1]
        /\ db' = With(dest + 1, object)
    BY Facts, ChunkOfTape DEF Create, Plays, ReadsChunk, TakeChunk, This
  <1>2. /\ MappedOK /\ ParentsOK /\ ShownOK /\ dest \in Nat /\ map \in [Sources -> Int]
        /\ \A d \in DOMAIN db : d \in 1 .. dest /\ db[d].source \in Sources /\ map[db[d].source] = d
    BY Facts
  <1>3. o \in Sources /\ Born(tape, o, pos) /\ OidOf(tape, pos) = o
    BY <1>1, ChunkOfTape DEF Born, OidOf
  <1>4. /\ object.source = o /\ object.parent = Querydest(tape[pos].data) /\ object.shown = Shown(0, 0)
        /\ FirstBelow(tape, pos) => Lives(tape, tape[pos].data, pos)
        /\ \A j \in 1 .. pos - 1 : ~Deleted(tape, o, j)
    BY <1>1, <1>3, ChunkRecorded
  <1> HIDE DEF object
  <1>5. /\ DOMAIN db' = DOMAIN db \cup {dest + 1} /\ dest + 1 \notin DOMAIN db /\ db'[dest + 1] = object
        /\ \A e \in DOMAIN db : db'[e] = db[e]
    BY <1>1, <1>2 DEF With
  <1>6. map'[o] = dest + 1 /\ \A x \in Sources : x # o => map'[x] = map[x]
    BY <1>1, <1>2, <1>3
  <1>7. ~\E j \in 1 .. pos - 1 : Born(tape, o, j)
    BY <1>1, <1>2, <1>3, <1>4 DEF MappedOK
  <1>8. \A x \in Sources : x # o => ~Born(tape, x, pos)
    BY DEF Born
  <1>9. ASSUME NEW x PROVE ~Deleted(tape, x, pos) /\ ~DataOf(tape, x, pos) /\ x \notin DeletedBy(tape, pos)
    BY <1>1 DEF Deleted, DataOf, DeletedBy
  <1>10. MappedOK'
    <2> SUFFICES ASSUME NEW x \in Sources
                 PROVE  /\ map'[x] = Absent \/ map'[x] > 0
                        /\ map'[x] # Absent <=> /\ \E i \in 1 .. (pos + 1) - 1 : Born(tape, x, i)
                                                /\ \A i \in 1 .. (pos + 1) - 1 : ~Deleted(tape, x, i)
                        /\ map'[x] \in DOMAIN db' => db'[map'[x]].source = x
      BY <1>1 DEF MappedOK
    <2>1. CASE x = o
      <3>1. dest + 1 # Absent /\ dest + 1 > 0
        BY <1>2 DEF Absent
      <3> QED BY <1>1, <1>3, <1>4, <1>5, <1>6, <1>9, <2>1, <3>1, LivesOn
    <2>2. CASE x # o
      <3>1. /\ map[x] = Absent \/ map[x] > 0
            /\ map[x] # Absent <=> /\ \E i \in 1 .. pos - 1 : Born(tape, x, i)
                                   /\ \A i \in 1 .. pos - 1 : ~Deleted(tape, x, i)
            /\ map[x] \in DOMAIN db => db[map[x]].source = x
        BY <1>2 DEF MappedOK
      <3>2. map[x] # dest + 1
        BY <1>2 DEF MapOK
      <3> QED BY <1>1, <1>5, <1>6, <1>8, <1>9, <2>2, <3>1, <3>2, LivesOn
    <2> QED BY <2>1, <2>2
  <1>11. ParentsOK'
    <2> SUFFICES ASSUME NEW d \in DOMAIN db'
                 PROVE  \E i \in 1 .. (pos + 1) - 1 :
                          First(tape, i) /\ tape[i].oid = db'[d].source /\ ParentOf(d, i)'
      BY <1>1 DEF ParentsOK
    <2>1. CASE d = dest + 1
      <3> DEFINE p == tape[pos].data
      <3>0. PICK i \in 1 .. (pos + 1) - 1 : i = pos
        BY <1>1
      <3>1. First(tape, pos) /\ tape[pos].oid = db'[d].source /\ pos \in 1 .. (pos + 1) - 1
        BY <1>1, <1>3, <1>4, <1>5, <1>7, <2>1 DEF First
      <3>2. CASE ToldOf(tape, p, pos)
        <4>1. p \in Sources
          BY <1>1, <3>2, ChunkOfTape DEF ToldOf, Born
        <4>2. map[p] \in DOMAIN db
          BY <1>2, <1>4, <3>1, <3>2, <4>1 DEF ShownOK, FirstBelow
        <4>3. map[p] # Absent /\ p # o
          BY <1>1, <1>2, <4>2, SMTT(30) DEF Absent
        <4>4. Querydest(p) = map[p]
          BY <4>1, <4>3 DEF Querydest
        <4>5. db'[d].parent = map'[p] /\ db'[d].parent \in DOMAIN db'
          BY <1>4, <1>5, <1>6, <2>1, <4>1, <4>2, <4>3, <4>4
        <4>6. ParentOf(d, i)'
          BY <1>1, <3>0, <3>2, <4>1, <4>5 DEF ParentOf
        <4> QED BY <3>0, <3>1, <4>6
      <3>3. CASE ~ToldOf(tape, p, pos)
        <4>1. p \in Sources => map[p] = Absent
          BY <1>2, <3>3 DEF MappedOK, ToldOf
        <4>2. Querydest(p) = 0
          BY <4>1 DEF Querydest
        <4>3. db'[d].parent = 0
          BY <1>4, <1>5, <2>1, <4>2
        <4>4. ParentOf(d, i)'
          BY <1>1, <3>0, <3>3, <4>3 DEF ParentOf
        <4> QED BY <3>0, <3>1, <4>4
      <3> QED BY <3>2, <3>3
    <2>2. CASE d # dest + 1
      <3>1. d \in DOMAIN db /\ db'[d] = db[d]
        BY <1>5, <2>2
      <3>2. PICK i \in 1 .. pos - 1 : First(tape, i) /\ tape[i].oid = db[d].source /\ ParentOf(d, i)
        BY <1>2, <3>1 DEF ParentsOK
      <3>3. i \in 1 .. (pos + 1) - 1
        BY <1>1
      <3>4. CASE ToldOf(tape, tape[i].data, i)
        <4>1. db[d].parent = map[tape[i].data] /\ db[d].parent \in DOMAIN db /\ tape[i].data \in Sources
          BY <3>2, <3>4 DEF ParentOf
        <4>2. tape[i].data # o
          BY <1>1, <4>1, <1>2 DEF Absent
        <4>3. ParentOf(d, i)'
          BY <1>1, <1>5, <1>6, <3>1, <3>4, <4>1, <4>2 DEF ParentOf
        <4> QED BY <3>1, <3>2, <3>3, <4>3
      <3>5. CASE ~ToldOf(tape, tape[i].data, i)
        <4>1. ParentOf(d, i)'
          BY <1>1, <3>1, <3>2, <3>5 DEF ParentOf
        <4> QED BY <3>1, <3>2, <3>3, <4>1
      <3> QED BY <3>4, <3>5
    <2> QED BY <2>1, <2>2
  <1>12. ShownOK'
    <2> SUFFICES ASSUME NEW x \in Sources
                 PROVE  /\ Lives(tape, x, pos + 1) <=> map'[x] \in DOMAIN db'
                        /\ Lives(tape, x, pos + 1) => db'[map'[x]].shown = LastOf(tape, x, pos + 1)
      BY <1>1 DEF ShownOK
    <2>1. LastOf(tape, x, pos + 1) = LastOf(tape, x, pos)
      BY <1>1, <1>9, LastStays
    <2>2. CASE x = o
      <3>1. ASSUME NEW j \in 1 .. pos - 1, o \in DeletedBy(tape, j) PROVE FALSE
        <4> DEFINE S == Sources \ {o}
        <4>1. ~Deleted(tape, o, j) /\ \E q \in Sources : Deleted(tape, q, j)
          BY <1>4, <3>1 DEF DeletedBy
        <4>2. tape[j].oid \in S
          BY <4>1 DEF Deleted
        <4>3. BornBelow(tape, S, j)
          <5> SUFFICES ASSUME NEW k \in 1 .. j - 1, Born(tape, tape[k].oid, k)
                       PROVE  tape[k].oid \in S
            BY DEF BornBelow, FirstBelow, First
          <5>1. k \in 1 .. pos - 1 /\ k \in 1 .. Len(tape)
            BY <1>1
          <5> QED BY <1>1, <1>7, <5>1, ChunkOfTape DEF Born
        <4>4. o \in S
          BY <3>1, <4>2, <4>3 DEF DeletedBy
        <4> QED BY <4>4
      <3>2. Lives(tape, o, pos + 1)
        <4>1. \E j \in 1 .. (pos + 1) - 1 : Born(tape, o, j)
          BY <1>1, <1>3
        <4>2. \A j \in 1 .. (pos + 1) - 1 : j = pos \/ j \in 1 .. pos - 1
          BY <1>1
        <4> QED BY <1>9, <3>1, <4>1, <4>2 DEF Lives, ToldOf
      <3>3. LastOf(tape, o, pos) = Shown(0, 0)
        <4>1. ASSUME NEW j \in 1 .. pos - 1, DataOf(tape, o, j) PROVE FALSE
          <5>1. j \in 1 .. Len(tape) /\ OidOf(tape, j) = o
            BY <1>1, <4>1 DEF DataOf
          <5>2. PICK k \in 1 .. j - 1 : Born(tape, o, k)
            BY <1>1, <4>1, <5>1, ChunkRecorded
          <5>3. k \in 1 .. pos - 1
            BY <1>1
          <5> QED BY <1>7, <5>2, <5>3
        <4>2. DataBefore(tape, o, pos) = {}
          BY <4>1 DEF DataBefore
        <4> QED BY <4>2 DEF LastOf
      <3> QED BY <1>4, <1>5, <1>6, <2>1, <2>2, <3>2, <3>3
    <2>3. CASE x # o
      <3>1. Lives(tape, x, pos + 1) <=> Lives(tape, x, pos)
        BY <1>1, <1>8, <1>9, <2>3, LivesOn DEF Lives, ToldOf
      <3>2. map'[x] = map[x] /\ map[x] # dest + 1
        BY <1>2, <1>6, <2>3 DEF MapOK
      <3>3. /\ Lives(tape, x, pos) <=> map[x] \in DOMAIN db
            /\ Lives(tape, x, pos) => db[map[x]].shown = LastOf(tape, x, pos)
        BY <1>2 DEF ShownOK
      <3> QED BY <1>5, <2>1, <3>1, <3>2, <3>3
    <2> QED BY <2>2, <2>3
  <1>13. HeaderOK'
    BY <1>1, NoHeaderDue
  <1> QED BY <1>1, <1>10, <1>11, <1>12, <1>13, Facts DEF FaithInv

\* An object is below the one that stands for the parent it was first told of with.
LEMMA StandsBelow ==
  ASSUME MappedOK, ParentsOK, pos \in Nat, NEW j \in 1 .. pos - 1, FirstBelow(tape, j),
         tape[j].oid \in Sources, map[tape[j].oid] \in DOMAIN db
  PROVE  /\ db[map[tape[j].oid]].parent = map[tape[j].data]
         /\ map[tape[j].data] \in DOMAIN db /\ tape[j].data \in Sources
  <1> DEFINE e == map[tape[j].oid]
  <1>1. db[e].source = tape[j].oid
    BY DEF MappedOK
  <1>2. PICK i \in 1 .. pos - 1 : First(tape, i) /\ tape[i].oid = db[e].source /\ ParentOf(e, i)
    BY DEF ParentsOK
  <1>3. i = j
    BY <1>1, <1>2, FirstIsOne DEF FirstBelow
  <1> HIDE DEF e
  <1>4. db[e].parent = map[tape[j].data] /\ db[e].parent \in DOMAIN db /\ tape[j].data \in Sources
    BY <1>2, <1>3 DEF ParentOf, FirstBelow
  <1> QED BY <1>4 DEF e

\* What is below an object in the database is what was born below it, of those that live.
LEMMA BelowIsBornBelow ==
  ASSUME PlayTypes, MapOK, FaithInv, PlaysAll, NEW o \in Sources, Deleted(tape, o, pos),
         NEW x \in Sources, map[x] \in DOMAIN db
  PROVE  x \in DeletedBy(tape, pos) <=> map[x] \in Below(Querydest(o))
  <1> DEFINE d == Querydest(o)
  <1>1. /\ MappedOK /\ ParentsOK /\ pos \in Nat \ {0} /\ dest \in Nat /\ map \in [Sources -> Int]
        /\ \A e \in DOMAIN db : e \in 1 .. dest /\ db[e].source \in Sources /\ map[db[e].source] = e
    BY Facts
  <1>2. tape[pos].oid = o
    BY DEF Deleted
  <1>3. map[o] \in DOMAIN db => d = map[o]
    BY <1>1 DEF Querydest, Absent
  <1>4. d \in DOMAIN db => map[o] = d
    BY <1>1 DEF Querydest
  <1> HIDE DEF d
  <1>5. ASSUME NEW j \in 1 .. pos - 1, FirstBelow(tape, j), tape[j].oid \in Sources,
               map[tape[j].oid] \in DOMAIN db
        PROVE  /\ db[map[tape[j].oid]].parent = map[tape[j].data]
               /\ map[tape[j].data] \in DOMAIN db /\ tape[j].data \in Sources
    BY <1>1, <1>5, StandsBelow
  <1>6. ASSUME x \in DeletedBy(tape, pos), NEW T \in SUBSET DOMAIN db, d \in DOMAIN db => d \in T,
               \A e \in DOMAIN db : db[e].parent \in T => e \in T
        PROVE  map[x] \in T
    <2> DEFINE S == {y \in Sources : map[y] \in DOMAIN db => map[y] \in T}
    <2>1. tape[pos].oid \in S
      BY <1>2, <1>3, <1>6
    <2>2. BornBelow(tape, S, pos)
      <3> SUFFICES ASSUME NEW j \in 1 .. pos - 1, FirstBelow(tape, j), tape[j].data \in S
                   PROVE  tape[j].oid \in S
        BY DEF BornBelow
      <3>1. tape[j].oid \in Sources
        <4>1. j \in 1 .. Len(tape) /\ tape \in Files
          BY ChunkOfTape DEF PlayTypes
        <4> QED BY <4>1, ChunkOfTape DEF Born, First, FirstBelow
      <3>2. CASE map[tape[j].oid] \in DOMAIN db
        BY <1>5, <1>6, <3>1, <3>2
      <3>3. CASE map[tape[j].oid] \notin DOMAIN db
        BY <3>1, <3>3
      <3> QED BY <3>2, <3>3
    <2>3. S \in SUBSET Sources
      OBVIOUS
    <2> HIDE DEF S
    <2>4. x \in S
      BY <1>6, <2>1, <2>2, <2>3 DEF DeletedBy
    <2> QED BY <2>4 DEF S
  <1>7. ASSUME x \in DeletedBy(tape, pos) PROVE map[x] \in Below(d)
    <2>1. d \in DOMAIN db
      <3> SUFFICES ASSUME d \notin DOMAIN db PROVE FALSE
        OBVIOUS
      <3>1. map[x] \in {}
        <4>1. {} \in SUBSET DOMAIN db
          OBVIOUS
        <4> QED BY <1>6, <1>7, <4>1
      <3> QED BY <3>1
    <2>2. ASSUME NEW T \in SUBSET DOMAIN db, d \in T, \A e \in DOMAIN db : db[e].parent \in T => e \in T
          PROVE  map[x] \in T
      BY <1>6, <1>7, <2>2
    <2> QED BY <2>1, <2>2 DEF Below
  <1>8. ASSUME map[x] \in Below(d) PROVE x \in DeletedBy(tape, pos)
    <2>1. d \in DOMAIN db /\ map[o] = d
      BY <1>4, <1>8 DEF Below
    <2>2. ASSUME NEW S \in SUBSET Sources, tape[pos].oid \in S, BornBelow(tape, S, pos)
          PROVE  x \in S
      <3> DEFINE T == {e \in DOMAIN db : db[e].source \in S}
      <3>1. d \in T
        BY <1>1, <1>2, <2>1, <2>2 DEF MappedOK
      <3>2. ASSUME NEW e \in DOMAIN db, db[e].parent \in T PROVE e \in T
        <4>1. PICK j \in 1 .. pos - 1 : First(tape, j) /\ tape[j].oid = db[e].source /\ ParentOf(e, j)
          BY <1>1 DEF ParentsOK
        <4>2. db[e].parent # 0 /\ db[e].parent \in DOMAIN db /\ db[db[e].parent].source \in S
          BY <1>1, <3>2
        <4>3. FirstBelow(tape, j) /\ db[e].parent = map[tape[j].data] /\ tape[j].data \in Sources
          BY <4>1, <4>2 DEF ParentOf, FirstBelow
        <4>4. db[db[e].parent].source = tape[j].data
          BY <1>1, <4>2, <4>3 DEF MappedOK
        <4> QED BY <2>2, <4>1, <4>2, <4>3, <4>4 DEF BornBelow
      <3>3. T \in SUBSET DOMAIN db
        OBVIOUS
      <3> HIDE DEF T
      <3>4. map[x] \in T
        BY <1>8, <3>1, <3>2, <3>3 DEF Below
      <3> QED BY <1>1, <3>4 DEF T, MappedOK
    <2> QED BY <1>2, <2>2 DEF DeletedBy
  <1> QED BY <1>7, <1>8 DEF d

LEMMA RemoveShown ==
  ASSUME PlayTypes, MapOK, FaithInv, PlaysAll, FilesAreRecordings, Remove
  PROVE  FaithInv'
  <1> DEFINE o == tape[pos].oid
             gone == Below(Querydest(o))
  <1>1. /\ pos \in 1 .. Len(tape) /\ pos <= Len(tape) /\ pos \in Nat \ {0} /\ tape \in Files
        /\ tape[pos].type = "del" /\ tape' = tape /\ pos' = pos + 1 /\ refused' = refused
        /\ map' = [map EXCEPT ![o] = Absent] /\ db' = Without(db, gone)
    BY Facts, ChunkOfTape DEF Remove, Plays, ReadsChunk, TakeChunk, This
  <1>2. /\ MappedOK /\ ParentsOK /\ ShownOK /\ dest \in Nat /\ map \in [Sources -> Int]
        /\ \A d \in DOMAIN db : d \in 1 .. dest /\ db[d].source \in Sources /\ map[db[d].source] = d
    BY Facts
  <1>3. DOMAIN db' = DOMAIN db \ gone /\ \A e \in DOMAIN db' : db'[e] = db[e]
    BY <1>1 DEF Without
  <1>4. /\ \A x \in Sources : x # o => map'[x] = map[x]
        /\ o \in Sources => map'[o] = Absent
    BY <1>1, <1>2
  <1>5. Absent \notin DOMAIN db
    BY <1>2 DEF Absent
  <1>6. \A x \in Sources : Deleted(tape, x, pos) <=> x = o
    BY <1>1 DEF Deleted
  <1>7. ASSUME NEW x \in Sources, map[x] \in DOMAIN db
        PROVE  x \in DeletedBy(tape, pos) <=> map[x] \in gone
    <2>1. CASE o \in Sources
      BY <1>6, <1>7, <2>1, BelowIsBornBelow
    <2>2. CASE o \notin Sources
      <3>1. Querydest(o) = 0 /\ 0 \notin DOMAIN db
        BY <1>2, <2>2 DEF Querydest
      <3>2. gone = {}
        BY <3>1 DEF Below
      <3>3. x \notin DeletedBy(tape, pos)
        BY <1>6, <2>2 DEF DeletedBy
      <3> QED BY <3>2, <3>3
    <2> QED BY <2>1, <2>2
  <1>8. o \in Sources => o \in DeletedBy(tape, pos)
    BY <1>6 DEF DeletedBy
  <1>9. ASSUME NEW e \in DOMAIN db, db[e].parent \in gone PROVE e \in gone
    <2>1. Querydest(o) \in DOMAIN db
      BY <1>9 DEF Below
    <2> SUFFICES ASSUME NEW T \in SUBSET DOMAIN db, Querydest(o) \in T,
                        \A y \in DOMAIN db : db[y].parent \in T => y \in T
                 PROVE  e \in T
      BY <2>1 DEF Below
    <2>2. db[e].parent \in T
      BY <1>9 DEF Below
    <2> QED BY <2>2
  <1> HIDE DEF gone
  <1>10. ASSUME NEW x \in Sources
         PROVE  /\ ~Born(tape, x, pos) /\ ~DataOf(tape, x, pos)
                /\ map'[x] \in DOMAIN db' <=> map[x] \in DOMAIN db /\ x \notin DeletedBy(tape, pos)
    <2>1. ~Born(tape, x, pos) /\ ~DataOf(tape, x, pos)
      BY <1>1 DEF Born, DataOf
    <2>2. map'[x] \in DOMAIN db' <=> map[x] \in DOMAIN db /\ x \notin DeletedBy(tape, pos)
      BY <1>3, <1>4, <1>5, <1>7, <1>8
    <2> QED BY <2>1, <2>2
  <1>11. MappedOK'
    <2> SUFFICES ASSUME NEW x \in Sources
                 PROVE  /\ map'[x] = Absent \/ map'[x] > 0
                        /\ map'[x] # Absent <=> /\ \E i \in 1 .. (pos + 1) - 1 : Born(tape, x, i)
                                                /\ \A i \in 1 .. (pos + 1) - 1 : ~Deleted(tape, x, i)
                        /\ map'[x] \in DOMAIN db' => db'[map'[x]].source = x
      BY <1>1 DEF MappedOK
    <2>1. /\ map[x] = Absent \/ map[x] > 0
          /\ map[x] # Absent <=> /\ \E i \in 1 .. pos - 1 : Born(tape, x, i)
                                 /\ \A i \in 1 .. pos - 1 : ~Deleted(tape, x, i)
          /\ map[x] \in DOMAIN db => db[map[x]].source = x
      BY <1>2 DEF MappedOK
    <2>2. CASE x = o
      <3>1. ~\A i \in 1 .. (pos + 1) - 1 : ~Deleted(tape, x, i)
        BY <1>1, <1>6, <2>2, LivesOn
      <3> QED BY <1>3, <1>4, <1>5, <2>2, <3>1
    <2>3. CASE x # o
      BY SMTT(30), <1>1, <1>3, <1>4, <1>6, <1>10, <2>1, <2>3, LivesOn
    <2> QED BY <2>2, <2>3
  <1>12. ParentsOK'
    <2> SUFFICES ASSUME NEW d \in DOMAIN db'
                 PROVE  \E i \in 1 .. (pos + 1) - 1 :
                          First(tape, i) /\ tape[i].oid = db'[d].source /\ ParentOf(d, i)'
      BY <1>1 DEF ParentsOK
    <2>1. d \in DOMAIN db /\ d \notin gone /\ db'[d] = db[d]
      BY <1>3
    <2>2. PICK i \in 1 .. pos - 1 : First(tape, i) /\ tape[i].oid = db[d].source /\ ParentOf(d, i)
      BY <1>2, <2>1 DEF ParentsOK
    <2>3. i \in 1 .. (pos + 1) - 1
      BY <1>1
    <2>4. db[d].parent \notin gone
      BY <1>9, <2>1
    <2>5. CASE ToldOf(tape, tape[i].data, i)
      <3>1. db[d].parent = map[tape[i].data] /\ db[d].parent \in DOMAIN db /\ tape[i].data \in Sources
        BY <2>2, <2>5 DEF ParentOf
      <3>2. tape[i].data # o
        BY <1>7, <1>8, <2>4, <3>1
      <3>3. ParentOf(d, i)'
        BY <1>1, <1>3, <1>4, <2>1, <2>4, <2>5, <3>1, <3>2 DEF ParentOf
      <3> QED BY <2>1, <2>2, <2>3, <3>3
    <2>6. CASE ~ToldOf(tape, tape[i].data, i)
      <3>1. ParentOf(d, i)'
        BY <1>1, <2>1, <2>2, <2>6 DEF ParentOf
      <3> QED BY <2>1, <2>2, <2>3, <3>1
    <2> QED BY <2>5, <2>6
  <1>13. ShownOK'
    <2> SUFFICES ASSUME NEW x \in Sources
                 PROVE  /\ Lives(tape, x, pos + 1) <=> map'[x] \in DOMAIN db'
                        /\ Lives(tape, x, pos + 1) => db'[map'[x]].shown = LastOf(tape, x, pos + 1)
      BY <1>1 DEF ShownOK
    <2>1. LastOf(tape, x, pos + 1) = LastOf(tape, x, pos)
      BY <1>1, <1>10, LastStays
    <2>2. Lives(tape, x, pos + 1) <=> Lives(tape, x, pos) /\ x \notin DeletedBy(tape, pos)
      BY <1>1, <1>10, LivesOn DEF Lives, ToldOf
    <2>3. /\ Lives(tape, x, pos) <=> map[x] \in DOMAIN db
          /\ Lives(tape, x, pos) => db[map[x]].shown = LastOf(tape, x, pos)
      BY <1>2 DEF ShownOK
    <2>4. x \notin DeletedBy(tape, pos) => map'[x] = map[x]
      BY <1>4, <1>8
    <2> QED BY <1>3, <1>10, <2>1, <2>2, <2>3, <2>4
  <1>14. HeaderOK'
    BY <1>1, NoHeaderDue
  <1> QED BY <1>1, <1>11, <1>12, <1>13, <1>14, Facts DEF FaithInv

\* A round that starts with no objects at the first chunk.
LEMMA BeginShown ==
  ASSUME PlayTypes, MapOK, FaithInv, BeginRound
  PROVE  FaithInv'
  <1> SUFFICES ASSUME PlaysAll'
               PROVE  MappedOK' /\ ParentsOK' /\ HeaderOK' /\ ShownOK'
    BY DEF FaithInv, BeginRound
  <1>1. /\ map' = map /\ db' = db /\ tape' = tape /\ pos' = 1
        /\ \A o \in Sources : map[o] = Absent
    BY DEF BeginRound, PlaysAll
  <1>2. DOMAIN db = {}
    <2> SUFFICES ASSUME NEW d \in DOMAIN db PROVE FALSE
      OBVIOUS
    <2>1. d \in 1 .. dest /\ map[db[d].source] = d /\ db[d].source \in Sources
      BY DEF MapOK
    <2> QED BY <1>1, <2>1 DEF Absent
  <1>3. 1 .. pos' - 1 = {}
    BY <1>1
  <1>4. MappedOK' /\ ParentsOK' /\ ShownOK'
    BY <1>1, <1>2, <1>3 DEF MappedOK, ParentsOK, ShownOK, Lives, ToldOf
  <1>5. HeaderOK'
    <2> SUFFICES ASSUME 1 <= Len(tape), tape[1].type = "image" PROVE FALSE
      BY <1>1 DEF HeaderOK
    <2>1. tape \in Files /\ 1 \in 1 .. Len(tape)
      BY ChunkOfTape DEF PlayTypes
    <2> QED BY <2>1, ChunkOfTape
  <1> QED BY <1>4, <1>5

LEMMA FaithStep ==
  ASSUME FilesAreRecordings, PlayTypes, MapOK, FaithInv, [PlayNext]_playVars
  PROVE  FaithInv'
  <1>1. CASE UNCHANGED playVars
    BY <1>1, FaithStill DEF playVars, PlaysAll
  <1>2. CASE ReadCtrl \/ EndReached \/ SkipChunk \/ StopAtGoto \/ EndOfFile \/ EndRound
               \/ (\E c \in Commands : WriteCtrl(c))
    <2>1. refused' = refused
      BY <1>2 DEF ReadCtrl, EndReached, SkipChunk, StopAtGoto, EndOfFile, EndRound, WriteCtrl
    <2>2. PlaysAll' => PlaysAll /\ UNCHANGED <<tape, pos, map, db, rawnext>>
      BY <1>2 DEF ReadCtrl, EndReached, SkipChunk, StopAtGoto, EndOfFile, EndRound, WriteCtrl, PlaysAll
    <2> QED BY <2>1, <2>2, FaithStill
  <1>3. CASE Refuse
    <2>1. refused' = refused + 1 /\ refused \in Nat
      BY <1>3 DEF Refuse, FaithInv
    <2> QED BY <2>1 DEF FaithInv, PlaysAll
  <1>4. CASE Known \/ Create \/ Remove \/ Update \/ ImageHeader \/ LostData \/ Image
    <2>1. refused' = refused /\ direct' = direct /\ reel' = reel
      BY <1>4 DEF Known, Create, Remove, Update, ImageHeader, LostData, Image, Plays
    <2>2. CASE PlaysAll
      BY <1>4, <2>2, NothingShown, CreateShown, RemoveShown, UpdateShown, ImageShown
    <2>3. CASE ~PlaysAll
      BY <2>1, <2>3 DEF FaithInv, PlaysAll
    <2> QED BY <2>2, <2>3
  <1> QED BY <1>1, <1>2, <1>3, <1>4, BeginShown DEF PlayNext

\* In a round where no jump has left chunks out and no object was refused, the player's
\* database is at every chunk what a recording of whole lives says up to it: the objects that
\* live there, each with its last data, images put together from their two chunks, and below
\* the object that stands for its parent, if that was told of before (play.c:703-948).
THEOREM PlayedFaithfully == FilesAreRecordings => (PlaySpec => []PlaybackIsFaithful)
  <1>1. PlayInit => FaithInv
    BY DEF PlayInit, FaithInv, PlaysAll
  <1>2. PlayTypes /\ MapOK /\ FaithInv => PlaybackIsFaithful
    <2> SUFFICES ASSUME PlayTypes, MapOK, FaithInv, PlaysAll PROVE PlaybackIsFaithful
      BY DEF PlaysAll, PlaybackIsFaithful
    <2>1. MappedOK /\ ParentsOK /\ ShownOK /\ pos \in Nat /\ tape \in Files
      BY Facts
    <2>2. ASSUME NEW i \in 1 .. pos - 1, FirstBelow(tape, i), Lives(tape, tape[i].oid, pos)
          PROVE  db[map[tape[i].oid]].parent = map[tape[i].data]
      <3>1. tape[i].oid \in Sources
        <4>1. i \in 1 .. Len(tape)
          BY ChunkOfTape DEF PlayTypes
        <4> QED BY <2>1, <2>2, <4>1, ChunkOfTape DEF Born, First, FirstBelow
      <3>2. map[tape[i].oid] \in DOMAIN db
        BY <2>1, <2>2, <3>1 DEF ShownOK
      <3> QED BY <2>1, <2>2, <3>1, <3>2, StandsBelow
    <2> QED BY <2>1, <2>2 DEF PlaybackIsFaithful, ShownOK
  <1>3. PlayInit => MapOK
    BY DEF PlayInit, MapOK, Absent
  <1>4. PlayTypes /\ MapOK /\ [PlayNext]_playVars => MapOK'
    BY PlayStep
  <1>5. SUFFICES ASSUME FilesAreRecordings PROVE PlaySpec => []PlaybackIsFaithful
    OBVIOUS
  <1>6. PlayTypes /\ MapOK /\ FaithInv /\ [PlayNext]_playVars => FaithInv'
    BY <1>5, FaithStep
  <1> QED BY <1>1, <1>2, <1>3, <1>4, <1>6, PlayTypesAlways, PTL DEF PlaySpec

-----------------------------------------------------------------------------
(* The player's index: where it leads. *)

LEMMA ChunksInOrder ==
  ASSUME FilesInOrder, tape \in Files
  PROVE  \A i, j \in 1 .. Len(tape) : i <= j => tape[i].ts <= tape[j].ts
  <1>1. DOMAIN tape = 1 .. Len(tape)
    BY ChunkOfTape
  <1> QED BY <1>1 DEF FilesInOrder

IsError(j) == tape[j].type = "error"

\* No time in the file is earlier.
IsInitial(j) == \A i \in 1 .. Len(tape) : IsError(i) \/ tape[j].ts <= tape[i].ts

\* The index knows what comes up to its last time and an interval more.
Indexed(j) == timeidx.first_ts # 0 /\ tape[j].ts < timeidx.last_ts + Interval
Seen(j) == IsError(j) \/ IsInitial(j) \/ Indexed(j)
SeenUpTo(p) == \A j \in 1 .. p - 1 : Seen(j)

\* An entry leads behind the first chunk of its interval or of a later one.
EntryTime(i) == timeidx.first_ts + i * Interval
EntryOK(i) ==
  LET p == timeidx.off[i] IN
  /\ p - 1 \in 1 .. Len(tape) /\ tape[p - 1].ts >= EntryTime(i - 1)
  /\ \A j \in 1 .. p - 2 : IsError(j) \/ tape[j].ts < EntryTime(i)
  /\ SeenUpTo(p)

\* The first time is that of a chunk.
FirstOK == timeidx.first_ts # 0 =>
  \E i \in 1 .. Len(tape) : ~IsError(i) /\ tape[i].ts = timeidx.first_ts

\* What has not been seen comes after the time at which the player is to end.
UnseenIsBehindEnd == \A j \in 1 .. Len(tape) : Seen(j) \/ (opt.end # 0 /\ tape[j].ts > opt.end)
AtStart == \A j \in 1 .. pos - 1 : IsError(j)

IndexInv ==
  /\ FirstOK /\ \A i \in DOMAIN timeidx.off : EntryOK(i)
  /\ SeenUpTo(skip.pos)
  /\ reel = "play" => SeenUpTo(pos)
  /\ reel = "play" /\ init_phase = 1 => AtStart \/ UnseenIsBehindEnd
  /\ reel = "play" /\ init_phase = 2 =>
       \A j \in 1 .. Len(tape) : tape[j].ts = begin_ts => Seen(j)
  /\ reel \in {"begin", "end"} => UnseenIsBehindEnd \/ (skip.pos = 0 /\ timeidx.first_ts = 0)

LEMMA EntryBegins ==
  ASSUME NEW a \in Nat, NEW t \in Nat, a <= t, NEW n \in Nat \ {0}, NEW i \in Nat \ {0},
         i <= ((t - a) \div n) + 1
  PROVE  a + (i - 1) * n <= t
  <1>1. t - a \in Nat /\ i - 1 \in Nat
    OBVIOUS
  <1>2. (t - a) \div n \in Nat /\ ((t - a) \div n) * n <= t - a
    BY <1>1, Quotient
  <1> DEFINE q == (t - a) \div n
  <1> HIDE DEF q
  <1>3. i - 1 <= q /\ q \in Nat /\ q * n <= t - a
    BY <1>2 DEF q
  <1>4. (i - 1) * n \in Nat /\ q * n \in Nat /\ (i - 1) * n <= q * n
    BY <1>1, <1>3, ProductGrows
  <1> QED BY <1>1, <1>3, <1>4

LEMMA EntryEnds ==
  ASSUME NEW a \in Nat, NEW l \in Nat, a <= l, NEW n \in Nat \ {0}, NEW i \in Nat,
         i >= ((l - a) \div n) + 2, NEW t \in Nat, t < l + n
  PROVE  t < a + i * n
  <1>1. l - a \in Nat
    OBVIOUS
  <1> DEFINE q == (l - a) \div n
  <1>2. q \in Nat /\ l - a < q * n + n
    BY <1>1, Quotient
  <1>3. q + 2 <= i
    OBVIOUS
  <1> HIDE DEF q
  <1>4. (q + 2) * n \in Nat /\ i * n \in Nat /\ (q + 2) * n <= i * n
    BY <1>2, <1>3, ProductGrows
  <1>5. (q + 2) * n = q * n + n + n /\ q * n \in Nat
    BY <1>2
  <1>6. l - a + n < q * n + n + n
    BY <1>1, <1>2, <1>5
  <1> DEFINE x == q * n
             y == i * n
  <1>7. l - a + n < x + n + n /\ x + n + n <= y /\ x \in Nat /\ y \in Nat
    BY <1>4, <1>5, <1>6
  <1> HIDE DEF x, y
  <1>8. t < a + y
    BY <1>7
  <1> QED BY <1>8 DEF y

LEMMA LaterEntry ==
  ASSUME NEW a \in Nat, NEW n \in Nat \ {0}, NEW i \in Nat \ {0}, NEW t \in Nat, t <= a
  PROVE  t < a + i * n
  <1>1. 1 * n <= i * n /\ 1 * n = n /\ i * n \in Nat
    BY ProductGrows
  <1> QED BY <1>1

\* The index as it grows.
IdxGrows ==
  /\ tape' = tape
  /\ \/ timeidx' = timeidx
     \/ /\ timeidx'.first_ts # 0 /\ timeidx.last_ts <= timeidx'.last_ts
        /\ timeidx.first_ts # 0 => timeidx'.first_ts = timeidx.first_ts

LEMMA SeenStays ==
  ASSUME tape \in Files, IdxShape, IdxShape', IdxGrows, NEW j \in 1 .. Len(tape), Seen(j)
  PROVE  Seen(j)'
  <1>1. /\ tape' = tape /\ tape[j].ts \in Nat /\ timeidx.last_ts \in Nat /\ timeidx'.last_ts \in Nat
        /\ Interval \in Nat \ {0}
    BY ChunkOfTape, PlayAssumption DEF IdxShape, IdxGrows
  <1>2. IsError(j) => IsError(j)'
    BY <1>1 DEF IsError
  <1>3. IsInitial(j) => IsInitial(j)'
    BY <1>1 DEF IsInitial, IsError
  <1>4. Indexed(j) => Indexed(j)'
    <2> SUFFICES ASSUME Indexed(j) PROVE Indexed(j)'
      OBVIOUS
    <2>1. timeidx.first_ts # 0 /\ tape[j].ts < timeidx.last_ts + Interval
      BY DEF Indexed
    <2>2. CASE timeidx' = timeidx
      BY <1>1, <2>1, <2>2 DEF Indexed
    <2>3. CASE timeidx'.first_ts # 0 /\ timeidx.last_ts <= timeidx'.last_ts
      <3>1. tape[j].ts < timeidx'.last_ts + Interval
        BY SMTT(30), <1>1, <2>1, <2>3
      <3> QED BY <1>1, <2>3, <3>1 DEF Indexed
    <2> QED BY <2>2, <2>3 DEF IdxGrows
  <1> QED BY <1>2, <1>3, <1>4 DEF Seen

\* Chunks of the same time are seen together.
LEMMA SeenByTime ==
  ASSUME tape \in Files, NEW i \in 1 .. Len(tape), NEW j \in 1 .. Len(tape), Seen(i), ~IsError(i),
         tape[i].ts = tape[j].ts
  PROVE  Seen(j)
  BY DEF Seen, IsInitial, Indexed

LEMMA IndexEntryStays ==
  ASSUME tape \in Files, IdxShape, IdxShape', IdxGrows, timeidx.first_ts # 0,
         NEW i \in DOMAIN timeidx.off, EntryOK(i), timeidx'.off[i] = timeidx.off[i]
  PROVE  EntryOK(i)'
  <1>1. tape' = tape /\ timeidx'.first_ts = timeidx.first_ts
    BY DEF IdxGrows
  <1> DEFINE p == timeidx.off[i]
  <1>2. p \in 1 .. Len(tape) + 1 /\ Len(tape) \in Nat
    BY ChunkOfTape DEF IdxShape
  <1>3. EntryTime(i)' = EntryTime(i) /\ EntryTime(i - 1)' = EntryTime(i - 1)
    BY <1>1 DEF EntryTime
  <1>4. /\ p - 1 \in 1 .. Len(tape) /\ tape[p - 1].ts >= EntryTime(i - 1)
        /\ \A j \in 1 .. p - 2 : IsError(j) \/ tape[j].ts < EntryTime(i)
        /\ \A j \in 1 .. p - 1 : Seen(j)
    BY DEF EntryOK, SeenUpTo
  <1>5. ASSUME NEW j \in 1 .. p - 1 PROVE Seen(j)'
    <2>1. j \in 1 .. Len(tape)
      BY <1>2, <1>5
    <2> QED BY <1>4, <2>1, SeenStays
  <1>6. \A j : IsError(j)' <=> IsError(j)
    BY <1>1 DEF IsError
  <1>7. timeidx'.off[i] = p
    OBVIOUS
  <1> HIDE DEF p
  <1> QED BY <1>1, <1>3, <1>4, <1>5, <1>6, <1>7 DEF EntryOK, SeenUpTo

\* What a chunk does to the index.
LEMMA TakeChunkIndex ==
  ASSUME PlayTypes, ReadsChunk, TakeChunk
  PROVE  /\ IdxGrows
         /\ init_phase' = 0 /\ This.type # "error" =>
              timeidx'.first_ts # 0 /\ This.ts < timeidx'.last_ts + Interval
         /\ timeidx' = timeidx \/ (timeidx' = IdxAdd(This.ts, pos + 1)
              /\ This.ts >= timeidx.last_ts + Interval /\ This.type # "error")
  <1>1. IdxShape /\ tape \in Files /\ pos \in 1 .. Len(tape) /\ tape' = tape
    BY TakeChunkTypes DEF PlayTypes
  <1>2. This.ts \in Nat /\ This.ts > 0 /\ pos + 1 \in 1 .. Len(tape) + 1
    BY <1>1, ChunkOfTape DEF This
  <1>3. /\ timeidx.first_ts \in Nat /\ timeidx.last_ts \in Nat /\ Interval \in Nat \ {0}
        /\ timeidx.first_ts = 0 => timeidx.last_ts = 0 /\ timeidx.off = <<>>
    BY <1>1, PlayAssumption DEF IdxShape
  <1>4. init_phase' = NowPhase /\ timeidx' =
          (IF NowPhase = 0 /\ This.type # "error" /\ This.ts >= timeidx.last_ts + Interval
           THEN IdxAdd(This.ts, pos + 1) ELSE timeidx)
    BY DEF TakeChunk
  <1>5. CASE NowPhase = 0 /\ This.type # "error" /\ This.ts >= timeidx.last_ts + Interval
    <2>1. timeidx' = IdxAdd(This.ts, pos + 1)
      BY <1>4, <1>5
    <2>2. /\ timeidx'.first_ts # 0 /\ timeidx'.last_ts = This.ts
          /\ timeidx.first_ts # 0 => timeidx'.first_ts = timeidx.first_ts /\ timeidx.last_ts <= This.ts
      BY <1>1, <1>2, <1>5, <2>1, IdxAdds
    <2>3. timeidx.last_ts <= timeidx'.last_ts
      BY <1>2, <1>3, <2>2
    <2>4. This.ts < timeidx'.last_ts + Interval
      BY <1>2, <1>3, <2>2
    <2> QED BY <1>1, <1>5, <2>1, <2>2, <2>3, <2>4 DEF IdxGrows
  <1>6. CASE NowPhase = 0 /\ This.type # "error" /\ ~(This.ts >= timeidx.last_ts + Interval)
    <2>1. timeidx' = timeidx
      BY <1>4, <1>6
    <2>2. timeidx.first_ts # 0
      <3> SUFFICES ASSUME timeidx.first_ts = 0 PROVE FALSE
        OBVIOUS
      <3>1. timeidx.last_ts = 0
        BY <1>3
      <3>2. This.ts >= Interval
        BY <1>1, PlayAssumption, ChunkOfTape DEF This
      <3> QED BY <1>2, <1>3, <1>6, <3>1, <3>2
    <2>3. This.ts < timeidx.last_ts + Interval
      BY <1>2, <1>3, <1>6
    <2> QED BY <1>1, <2>1, <2>2, <2>3 DEF IdxGrows
  <1>7. CASE ~(NowPhase = 0 /\ This.type # "error")
    <2>1. timeidx' = timeidx
      BY <1>4, <1>7
    <2> QED BY <1>1, <1>4, <1>7, <2>1 DEF IdxGrows
  <1> QED BY <1>5, <1>6, <1>7

LEMMA TakeChunkEntries ==
  ASSUME FilesInOrder, PlayTypes, IndexInv, ReadsChunk, TakeChunk
  PROVE  FirstOK' /\ \A i \in DOMAIN timeidx'.off : EntryOK(i)'
  <1>1. /\ IdxShape /\ tape \in Files /\ pos \in 1 .. Len(tape) /\ tape' = tape /\ IdxShape' /\ IdxGrows
        /\ reel = "play"
    BY TakeChunkTypes, TakeChunkIndex DEF PlayTypes, ReadsChunk, Reads
  <1>2. FirstOK /\ (\A i \in DOMAIN timeidx.off : EntryOK(i)) /\ \A j \in 1 .. pos - 1 : Seen(j)
    BY <1>1 DEF IndexInv, SeenUpTo
  <1>3. CASE timeidx' = timeidx
    <2>1. FirstOK'
      BY <1>1, <1>2, <1>3 DEF FirstOK, IsError
    <2>2. ASSUME NEW i \in DOMAIN timeidx.off PROVE EntryOK(i)'
      <3>1. timeidx.first_ts # 0
        BY <1>1 DEF IdxShape
      <3> QED BY <1>1, <1>2, <1>3, <3>1, IndexEntryStays
    <2> QED BY <1>3, <2>1, <2>2
  <1>4. CASE timeidx' = IdxAdd(This.ts, pos + 1) /\ This.ts >= timeidx.last_ts + Interval
               /\ This.type # "error"
    <2> DEFINE ts == This.ts
    <2>1. ts \in Nat /\ ts > 0 /\ pos + 1 \in 1 .. Len(tape) + 1 /\ ts = tape[pos].ts /\ ~IsError(pos)
      BY <1>1, <1>4, ChunkOfTape DEF This, IsError
    <2> HIDE DEF ts
    <2>2. /\ timeidx'.first_ts # 0 /\ timeidx'.last_ts = ts
          /\ timeidx.first_ts # 0 => timeidx'.first_ts = timeidx.first_ts /\ timeidx.last_ts <= ts
          /\ timeidx.first_ts = 0 => timeidx'.first_ts = ts
          /\ \A i \in DOMAIN timeidx'.off : timeidx'.off[i] = IF i \in DOMAIN timeidx.off
                                                             THEN timeidx.off[i] ELSE pos + 1
      BY <1>1, <1>4, <2>1, IdxAdds DEF ts
    <2>3. FirstOK'
      BY <1>1, <1>2, <2>1, <2>2 DEF FirstOK, IsError
    <2>4. ASSUME NEW i \in DOMAIN timeidx'.off PROVE EntryOK(i)'
      <3>1. CASE i \in DOMAIN timeidx.off
        <4>1. timeidx.first_ts # 0
          BY <1>1, <3>1 DEF IdxShape
        <4> QED BY <1>1, <1>2, <2>2, <3>1, <4>1, IndexEntryStays
      <3>2. CASE i \notin DOMAIN timeidx.off
        <4> DEFINE first == timeidx'.first_ts
        <4>1. /\ first \in Nat /\ first <= ts /\ i \in Nat \ {0} /\ Interval \in Nat \ {0}
              /\ i <= ((ts - first) \div Interval) + 1
          <5>1. /\ first \in Nat /\ first <= ts /\ Len(timeidx'.off) = ((ts - first) \div Interval) + 1
                /\ timeidx'.off \in Seq(Nat)
            BY <1>1, <2>2 DEF IdxShape, IdxNumber
          <5>2. i \in 1 .. Len(timeidx'.off) /\ Len(timeidx'.off) \in Nat
            BY <2>4, <5>1
          <5> QED BY SMTT(30), <5>1, <5>2, PlayAssumption
        <4>2. EntryTime(i - 1)' = first + (i - 1) * Interval /\ EntryTime(i)' = first + i * Interval
          BY DEF EntryTime
        <4>9. /\ timeidx.first_ts = 0 => first = ts
              /\ timeidx.first_ts # 0 => first = timeidx.first_ts
          BY <2>2
        <4> HIDE DEF first
        <4>3. tape[pos].ts >= EntryTime(i - 1)'
          <5>1. first + (i - 1) * Interval <= ts
            BY <2>1, <4>1, EntryBegins
          <5>2. first + (i - 1) * Interval \in Int
            BY <4>1
          <5> QED BY <2>1, <4>2, <5>1, <5>2
        <4>4. ASSUME NEW j \in 1 .. pos - 1, ~IsError(j) PROVE tape[j].ts < EntryTime(i)'
          <5>1. j \in 1 .. Len(tape) /\ tape[j].ts \in Nat /\ tape[j].ts <= ts /\ Seen(j)
            BY <1>1, <1>2, <2>1, <4>4, ChunkOfTape, ChunksInOrder
          <5>2. CASE tape[j].ts <= first
            <6>1. tape[j].ts < first + i * Interval
              BY <4>1, <5>1, <5>2, LaterEntry
            <6> QED BY <4>2, <6>1
          <5>3. CASE timeidx.first_ts # 0 /\ IsInitial(j)
            <6>1. PICK k \in 1 .. Len(tape) : ~IsError(k) /\ tape[k].ts = timeidx.first_ts
              BY <1>2, <5>3 DEF FirstOK
            <6>2. tape[j].ts <= first
              BY <4>9, <5>3, <6>1 DEF IsInitial
            <6> QED BY <5>2, <6>2
          <5>4. CASE timeidx.first_ts # 0 /\ Indexed(j)
            <6>1. /\ first = timeidx.first_ts /\ timeidx.last_ts \in Nat /\ first <= timeidx.last_ts
                  /\ tape[j].ts < timeidx.last_ts + Interval
                  /\ Len(timeidx.off) = ((timeidx.last_ts - first) \div Interval) + 1
              BY <1>1, <4>9, <5>4 DEF IdxShape, Indexed, IdxNumber
            <6>2. DOMAIN timeidx.off = 1 .. Len(timeidx.off) /\ Len(timeidx.off) \in Nat
              BY <1>1, <5>4, IdxNumbers
            <6>3. i >= Len(timeidx.off) + 1
              BY <3>2, <4>1, <6>2
            <6>4. i >= ((timeidx.last_ts - first) \div Interval) + 2
              <7> DEFINE q == (timeidx.last_ts - first) \div Interval
              <7>1. Len(timeidx.off) = q + 1 /\ q \in Int
                <8> DEFINE l == timeidx.last_ts
                <8>2. first \in Nat /\ l \in Nat /\ first <= l
                  BY <4>1, <6>1
                <8> HIDE DEF l
                <8>3. l - first \in Nat
                  BY <8>2
                <8>1. timeidx.last_ts - first \in Nat
                  BY <8>3 DEF l
                <8> QED BY <4>1, <6>1, <8>1, Quotient
              <7> HIDE DEF q
              <7>2. i >= q + 2
                BY <4>1, <6>3, <7>1
              <7> QED BY <7>2 DEF q
            <6>5. i \in Nat
              BY <4>1
            <6>6. tape[j].ts < first + i * Interval
              BY <4>1, <5>1, <6>1, <6>4, <6>5, EntryEnds
            <6> QED BY <4>2, <6>6
          <5>5. timeidx.first_ts = 0 => tape[j].ts <= first
            BY <4>9, <5>1
          <5> QED BY <4>4, <5>1, <5>2, <5>3, <5>4, <5>5 DEF Seen, Indexed
        <4>5. ASSUME NEW j \in 1 .. pos PROVE Seen(j)'
          <5>1. CASE j = pos
            <6>1. tape'[j].ts < timeidx'.last_ts + Interval
              BY SMTT(30), <1>1, <2>1, <2>2, <4>1, <5>1
            <6>2. Indexed(j)'
              BY <2>2, <6>1 DEF Indexed
            <6> QED BY <6>2 DEF Seen
          <5>2. CASE j # pos
            <6>1. j \in 1 .. pos - 1 /\ j \in 1 .. Len(tape)
              BY <1>1, <4>5, <5>2
            <6> QED BY <1>1, <1>2, <6>1, SeenStays
          <5> QED BY <5>1, <5>2
        <4>6. timeidx'.off[i] = pos + 1
          BY <2>2, <3>2
        <4>7. pos + 1 - 1 = pos /\ pos + 1 - 2 = pos - 1
          BY <1>1
        <4>8. \A j : IsError(j)' <=> IsError(j)
          BY <1>1 DEF IsError
        <4>10. /\ pos \in 1 .. Len(tape) /\ tape' = tape /\ tape[pos].ts >= EntryTime(i - 1)'
               /\ \A j \in 1 .. pos - 1 : IsError(j)' \/ tape'[j].ts < EntryTime(i)'
               /\ \A j \in 1 .. pos : Seen(j)'
          BY <1>1, <4>3, <4>4, <4>5, <4>8
        <4> QED BY <4>6, <4>7, <4>10 DEF EntryOK, SeenUpTo
      <3> QED BY <3>1, <3>2
    <2> QED BY <2>3, <2>4
  <1> QED BY <1>3, <1>4, TakeChunkIndex

\* A chunk that is taken has been seen, unless the player ends with it.
LEMMA TakeChunkSees ==
  ASSUME FilesInOrder, PlayTypes, IndexInv, ReadsChunk, TakeChunk
  PROVE  /\ (\A j \in 1 .. pos : Seen(j)') \/ (Ended /\ UnseenIsBehindEnd /\ timeidx' = timeidx)
         /\ pos' = pos + 1 /\ tape' = tape /\ \A j \in 1 .. Len(tape) : Seen(j) => Seen(j)'
  <1>1. /\ IdxShape /\ tape \in Files /\ pos \in 1 .. Len(tape) /\ tape' = tape /\ IdxShape' /\ IdxGrows
        /\ reel = "play" /\ init_phase \in {0, 1, 2} /\ Len(tape) \in Nat
    BY TakeChunkTypes, TakeChunkIndex, ChunkOfTape DEF PlayTypes, ReadsChunk, Reads
  <1>2. /\ \A j \in 1 .. pos - 1 : Seen(j)
        /\ init_phase = 1 => AtStart \/ UnseenIsBehindEnd
        /\ init_phase = 2 => \A j \in 1 .. Len(tape) : tape[j].ts = begin_ts => Seen(j)
    BY <1>1 DEF IndexInv, SeenUpTo
  <1>3. \A j \in 1 .. Len(tape) : Seen(j) => Seen(j)'
    BY <1>1, SeenStays
  <1>4. \A j \in 1 .. pos - 1 : Seen(j)'
    <2>1. \A j \in 1 .. pos - 1 : j \in 1 .. Len(tape)
      BY <1>1
    <2> QED BY <1>2, <1>3, <2>1
  <1>5. pos' = pos + 1
    BY DEF TakeChunk
  <1> SUFFICES (\A j \in 1 .. pos : Seen(j)') \/ (Ended /\ UnseenIsBehindEnd /\ timeidx' = timeidx)
    BY <1>1, <1>3, <1>5
  <1>6. ASSUME Seen(pos) PROVE \A j \in 1 .. pos : Seen(j)'
    <2>1. ASSUME NEW j \in 1 .. pos PROVE Seen(j)'
      BY <1>1, <1>3, <1>4, <1>6
    <2> QED BY <2>1
  <1>7. CASE IsError(pos)
    BY <1>6, <1>7 DEF Seen
  <1>8. CASE init_phase' = 0 /\ ~IsError(pos)
    <2>1. timeidx'.first_ts # 0 /\ tape[pos].ts < timeidx'.last_ts + Interval
      BY <1>8, TakeChunkIndex DEF This, IsError
    <2>2. ASSUME NEW j \in 1 .. pos PROVE Seen(j)'
      <3>1. CASE j = pos
        BY <1>1, <2>1, <3>1 DEF Seen, Indexed
      <3>2. CASE j # pos
        BY <1>1, <1>4, <2>2, <3>2
      <3> QED BY <3>1, <3>2
    <2> QED BY <2>2
  <1>9. CASE init_phase' # 0 /\ ~IsError(pos)
    <2>1. init_phase' = NowPhase /\ This.type # "error" /\ This = tape[pos]
      BY <1>9 DEF TakeChunk, IsError, This
    <2>2. timeidx' = timeidx
      BY <1>9, <2>1 DEF TakeChunk
    <2>3. init_phase = 2 => tape[pos].ts = begin_ts
      BY <1>9, <2>1 DEF NowPhase, NowFirst
    <2>4. init_phase # 0
      BY <1>9, <2>1 DEF NowPhase
    <2>5. CASE init_phase = 2
      BY <1>1, <1>2, <1>6, <2>3, <2>5
    <2>6. CASE init_phase = 1 /\ AtStart
      <3>1. ASSUME NEW i \in 1 .. Len(tape) PROVE IsError(i) \/ tape[pos].ts <= tape[i].ts
        <4>1. CASE i < pos
          BY <1>1, <2>6, <3>1, <4>1 DEF AtStart
        <4>2. CASE ~(i < pos)
          BY <1>1, <4>2, ChunkOfTape, ChunksInOrder
        <4> QED BY <4>1, <4>2
      <3> QED BY <1>6, <3>1 DEF Seen, IsInitial
    <2>7. CASE init_phase = 1 /\ UnseenIsBehindEnd
      <3>1. Seen(pos) \/ (opt.end # 0 /\ tape[pos].ts > opt.end)
        BY <1>1, <2>7 DEF UnseenIsBehindEnd
      <3> QED BY <1>6, <2>1, <2>2, <2>7, <3>1 DEF Ended
    <2> QED BY <1>1, <1>2, <2>4, <2>5, <2>6, <2>7
  <1> QED BY <1>7, <1>8, <1>9

\* Once every chunk up to one behind the end was seen, the rest is behind the end too.
LEMMA EndIsBehind ==
  ASSUME FilesInOrder, PlayTypes, IndexInv, EndReached
  PROVE  UnseenIsBehindEnd'
  <1>1. /\ ReadsChunk /\ TakeChunk /\ Ended /\ opt' = opt
    BY DEF EndReached
  <1>2. /\ tape \in Files /\ pos \in 1 .. Len(tape) /\ tape' = tape /\ opt \in PlayOptions
        /\ \A j \in 1 .. Len(tape) : Seen(j) => Seen(j)'
    BY <1>1, TakeChunkTypes, TakeChunkSees DEF PlayTypes
  <1>3. opt.end # 0 /\ tape[pos].ts > opt.end /\ opt.end \in Nat
    BY <1>1, <1>2 DEF Ended, This, PlayOptions
  <1>4. CASE UnseenIsBehindEnd
    BY <1>1, <1>2, <1>4 DEF UnseenIsBehindEnd
  <1>5. CASE \A j \in 1 .. pos : Seen(j)'
    <2>1. ASSUME NEW j \in 1 .. Len(tape) PROVE Seen(j)' \/ (opt.end # 0 /\ tape[j].ts > opt.end)
      <3>1. CASE j <= pos
        BY <1>2, <1>5, <2>1, <3>1
      <3>2. CASE pos <= j
        <4>1. tape[pos].ts \in Nat /\ tape[j].ts \in Nat /\ tape[pos].ts <= tape[j].ts
          BY <1>2, <3>2, ChunkOfTape, ChunksInOrder
        <4> QED BY <1>3, <4>1
      <3> QED BY <1>2, <2>1, <3>1, <3>2
    <2> QED BY <1>1, <1>2, <2>1 DEF UnseenIsBehindEnd
  <1> QED BY <1>1, <1>4, <1>5, TakeChunkSees

\* A chunk that is taken and does not end the round: what the invariant says of the player's
\* place and phase.
LEMMA TakeChunkIndexInv ==
  ASSUME FilesInOrder, PlayTypes, IndexInv, ReadsChunk, TakeChunk, ~Ended, reel' = reel, opt'.end = opt.end,
         skip'.pos \in {skip.pos, pos}
  PROVE  IndexInv'
  <1>1. /\ tape \in Files /\ pos \in 1 .. Len(tape) /\ tape' = tape /\ reel = "play"
        /\ init_phase \in {0, 1, 2} /\ skip.pos \in Nat /\ skip.pos <= Len(tape) /\ Len(tape) \in Nat
        /\ pos' = pos + 1
    BY TakeChunkTypes, TakeChunkSees, ChunkOfTape DEF PlayTypes, ReadsChunk, Reads
  <1>2. FirstOK' /\ \A i \in DOMAIN timeidx'.off : EntryOK(i)'
    BY TakeChunkEntries
  <1>3. (\A j \in 1 .. pos : Seen(j)') /\ \A j \in 1 .. Len(tape) : Seen(j) => Seen(j)'
    BY TakeChunkSees
  <1>4. SeenUpTo(skip.pos)'
    <2>1. ASSUME NEW j \in 1 .. skip'.pos - 1 PROVE Seen(j)'
      <3>1. CASE skip'.pos = pos
        <4>1. j \in 1 .. pos
          BY <1>1, <2>1, <3>1
        <4> QED BY <1>3, <4>1
      <3>2. CASE skip'.pos = skip.pos
        <4>1. j \in 1 .. skip.pos - 1 /\ j \in 1 .. Len(tape)
          BY <1>1, <2>1, <3>2
        <4> QED BY <1>3, <4>1 DEF IndexInv, SeenUpTo
      <3> QED BY <3>1, <3>2
    <2> QED BY <2>1 DEF SeenUpTo
  <1>5. SeenUpTo(pos)'
    BY <1>1, <1>3 DEF SeenUpTo
  <1>6. init_phase' = 1 => (AtStart \/ UnseenIsBehindEnd)'
    <2> SUFFICES ASSUME init_phase' = 1 PROVE (AtStart \/ UnseenIsBehindEnd)'
      OBVIOUS
    <2>1. init_phase = 1 /\ IsError(pos)
      BY <1>1 DEF TakeChunk, NowPhase, IsError, This
    <2>2. CASE AtStart
      <3>1. \A j \in 1 .. pos : IsError(j)
        BY <1>1, <2>1, <2>2 DEF AtStart
      <3> QED BY <1>1, <3>1 DEF AtStart, IsError
    <2>3. CASE UnseenIsBehindEnd
      BY <1>1, <1>3, <2>3 DEF UnseenIsBehindEnd
    <2> QED BY <1>1, <2>1, <2>2, <2>3 DEF IndexInv
  <1>7. init_phase' = 2 => \A j \in 1 .. Len(tape) : tape[j].ts = begin_ts' => Seen(j)'
    <2> SUFFICES ASSUME init_phase' = 2, NEW j \in 1 .. Len(tape), tape[j].ts = begin_ts' PROVE Seen(j)'
      OBVIOUS
    <2>1. begin_ts' = NowFirst /\ NowPhase = 2 /\ This = tape[pos]
      BY DEF TakeChunk, This
    <2>2. CASE IsError(pos)
      <3>1. init_phase = 2 /\ begin_ts' = begin_ts
        BY <2>1, <2>2 DEF NowPhase, NowFirst, IsError
      <3> QED BY <1>1, <1>3, <3>1 DEF IndexInv
    <2>3. CASE ~IsError(pos)
      <3>1. tape[pos].ts = begin_ts'
        BY <2>1, <2>3 DEF NowPhase, NowFirst, IsError
      <3>2. Seen(pos) \/ \A i \in 1 .. pos : Seen(i)'
        BY <1>3
      <3>3. ASSUME NEW i, i = pos PROVE Seen(j)'
        <4>1. Seen(i)' /\ ~IsError(i)' /\ tape'[i].ts = tape'[j].ts
          BY <1>1, <1>3, <2>3, <3>1, <3>3 DEF IsError
        <4> QED BY <1>1, <4>1 DEF Seen, IsInitial, Indexed
      <3> QED BY <3>3
    <2> QED BY <2>2, <2>3
  <1> QED BY <1>1, <1>2, <1>4, <1>5, <1>6, <1>7 DEF IndexInv

LEMMA IndexSame ==
  ASSUME tape' = tape, timeidx' = timeidx, FirstOK, \A i \in DOMAIN timeidx.off : EntryOK(i)
  PROVE  /\ FirstOK' /\ \A i \in DOMAIN timeidx'.off : EntryOK(i)'
         /\ \A j : (Seen(j)' <=> Seen(j)) /\ (IsError(j)' <=> IsError(j))
  <1>1. \A j : (Seen(j)' <=> Seen(j)) /\ (IsError(j)' <=> IsError(j))
    BY DEF Seen, IsError, IsInitial, Indexed
  <1>2. FirstOK'
    BY DEF FirstOK, IsError
  <1>3. \A i : EntryTime(i)' = EntryTime(i)
    BY DEF EntryTime
  <1>4. ASSUME NEW i \in DOMAIN timeidx.off PROVE EntryOK(i)'
    <2>1. EntryOK(i) /\ EntryTime(i)' = EntryTime(i) /\ EntryTime(i - 1)' = EntryTime(i - 1)
      BY <1>3
    <2> QED BY <1>1, <2>1 DEF EntryOK, SeenUpTo
  <1> QED BY <1>1, <1>2, <1>4

LEMMA BeginRoundIndex ==
  ASSUME PlayTypes, IndexInv, BeginRound
  PROVE  IndexInv'
  <1>1. /\ reel = "begin" /\ reel' = "play" /\ init_phase' = 1 /\ tape' = tape /\ timeidx' = timeidx
        /\ skip' = skip
    BY DEF BeginRound
  <1>2. FirstOK' /\ (\A i \in DOMAIN timeidx'.off : EntryOK(i)') /\ \A j : Seen(j)' <=> Seen(j)
    BY <1>1, IndexSame DEF IndexInv
  <1>3. SeenUpTo(skip.pos)'
    BY <1>1, <1>2 DEF IndexInv, SeenUpTo
  <1>4. UnseenIsBehindEnd => UnseenIsBehindEnd'
    BY <1>1, <1>2, BeginRoundJumps DEF UnseenIsBehindEnd
  <1>5. CASE pos' = 1
    <2>1. SeenUpTo(pos)' /\ AtStart'
      BY <1>5 DEF SeenUpTo, AtStart
    <2> QED BY <1>1, <1>2, <1>3, <2>1 DEF IndexInv
  <1>6. CASE skip.pos # 0 /\ pos' = skip.pos
    <2>1. SeenUpTo(pos)' /\ UnseenIsBehindEnd'
      BY <1>1, <1>2, <1>4, <1>6 DEF IndexInv, SeenUpTo
    <2> QED BY <1>1, <1>2, <1>3, <2>1 DEF IndexInv
  <1>7. CASE timeidx.first_ts # 0 /\ \E i \in DOMAIN timeidx.off : pos' = timeidx.off[i]
    <2>1. PICK i \in DOMAIN timeidx.off : pos' = timeidx.off[i]
      BY <1>7
    <2>2. EntryOK(i) /\ UnseenIsBehindEnd'
      BY <1>1, <1>4, <1>7 DEF IndexInv
    <2>3. SeenUpTo(pos)'
      BY <1>2, <2>1, <2>2 DEF EntryOK, SeenUpTo
    <2> QED BY <1>1, <1>2, <1>3, <2>2, <2>3 DEF IndexInv
  <1> QED BY <1>5, <1>6, <1>7, BeginRoundJumps

LEMMA ReadCtrlIndex ==
  ASSUME PlayTypes, IndexInv, ReadCtrl
  PROVE  IndexInv'
  <1>1. /\ reel = "play" /\ reel' = reel /\ init_phase = 0 /\ init_phase' = init_phase /\ tape' = tape
        /\ timeidx' = timeidx
    BY DEF ReadCtrl, CtrlIsDue, idxVars
  <1>2. FirstOK' /\ (\A i \in DOMAIN timeidx'.off : EntryOK(i)') /\ \A j : Seen(j)' <=> Seen(j)
    BY <1>1, IndexSame DEF IndexInv
  <1>3. SeenUpTo(skip.pos)'
    <2>1. skip'.pos = skip.pos \/ skip'.pos = 0
      BY ReadCtrlJumps DEF PlayTypes
    <2>2. skip'.pos = 0 => SeenUpTo(skip.pos)'
      BY DEF SeenUpTo
    <2> QED BY <1>2, <2>1, <2>2 DEF IndexInv, SeenUpTo
  <1>4. SeenUpTo(pos)'
    <2>1. CASE pos' = 1
      BY <2>1 DEF SeenUpTo
    <2>2. CASE pos' = pos
      BY <1>1, <1>2, <2>2 DEF IndexInv, SeenUpTo
    <2>3. CASE \E i \in DOMAIN timeidx.off : pos' = timeidx.off[i]
      <3>1. PICK i \in DOMAIN timeidx.off : pos' = timeidx.off[i]
        BY <2>3
      <3>2. EntryOK(i)
        BY DEF IndexInv
      <3> QED BY <1>2, <3>1, <3>2 DEF EntryOK, SeenUpTo
    <2> QED BY <2>1, <2>2, <2>3, ReadCtrlJumps
  <1> QED BY <1>1, <1>2, <1>3, <1>4 DEF IndexInv

LEMMA EndReachedIndex ==
  ASSUME FilesInOrder, PlayTypes, IndexInv, EndReached
  PROVE  IndexInv'
  <1>1. ReadsChunk /\ TakeChunk /\ reel' = "end" /\ skip' = skip
    BY DEF EndReached
  <1>2. FirstOK' /\ (\A i \in DOMAIN timeidx'.off : EntryOK(i)') /\ UnseenIsBehindEnd'
    BY <1>1, TakeChunkEntries, EndIsBehind
  <1>3. SeenUpTo(skip.pos)'
    <2>1. skip.pos \in Nat /\ skip.pos <= Len(tape) /\ Len(tape) \in Nat
      BY ChunkOfTape DEF PlayTypes
    <2>2. ASSUME NEW j \in 1 .. skip.pos - 1 PROVE Seen(j)'
      <3>1. j \in 1 .. Len(tape) /\ Seen(j)
        BY <2>1, <2>2 DEF IndexInv, SeenUpTo
      <3> QED BY <1>1, <3>1, TakeChunkSees
    <2> QED BY <1>1, <2>2 DEF SeenUpTo
  <1> QED BY <1>1, <1>2, <1>3 DEF IndexInv

\* An image has the time of its header, which was read before it.
LEMMA ImageIndex ==
  ASSUME PlayTypes, IndexInv, Image
  PROVE  IndexInv'
  <1>1. /\ reel = "play" /\ pos \in 1 .. Len(tape) /\ tape \in Files /\ Len(tape) \in Nat
        /\ tape[pos].type = "image" /\ pos' = pos + 1
        /\ UNCHANGED <<tape, reel, opt, idxVars, skip>>
    BY ChunkOfTape DEF Image, Reads, This, PlayTypes
  <1>2. FirstOK' /\ (\A i \in DOMAIN timeidx'.off : EntryOK(i)')
        /\ \A j : (Seen(j)' <=> Seen(j)) /\ (IsError(j)' <=> IsError(j))
    BY <1>1, IndexSame DEF IndexInv, idxVars
  <1>3. /\ pos - 1 \in 1 .. Len(tape) /\ tape[pos - 1].type = "next" /\ tape[pos - 1].ts = tape[pos].ts
        /\ pos - 1 \in 1 .. pos - 1
    BY <1>1, ChunkOfTape
  <1>4. Seen(pos - 1) /\ ~IsError(pos - 1) /\ \A j \in 1 .. pos - 1 : Seen(j)
    BY <1>1, <1>3 DEF IndexInv, SeenUpTo, IsError
  <1>5. Seen(pos)
    BY <1>1, <1>3, <1>4, SeenByTime
  <1>6. SeenUpTo(pos)'
    <2>1. ASSUME NEW j \in 1 .. pos PROVE Seen(j)
      BY <1>1, <1>4, <1>5, <2>1
    <2> QED BY <1>1, <1>2, <2>1 DEF SeenUpTo
  <1>7. SeenUpTo(skip.pos)' /\ (UnseenIsBehindEnd => UnseenIsBehindEnd')
    BY <1>1, <1>2 DEF IndexInv, SeenUpTo, UnseenIsBehindEnd
  <1>8. ~AtStart
    BY <1>3, <1>4 DEF AtStart
  <1>9. init_phase' = 2 => \A j \in 1 .. Len(tape') : tape'[j].ts = begin_ts' => Seen(j)'
    BY <1>1, <1>2 DEF IndexInv, idxVars
  <1> QED BY <1>1, <1>2, <1>6, <1>7, <1>8, <1>9 DEF IndexInv, idxVars

LEMMA IndexStep ==
  ASSUME FilesInOrder, PlayTypes, IndexInv, [PlayNext]_playVars
  PROVE  IndexInv'
  <1>1. CASE UNCHANGED playVars \/ \E c \in Commands : WriteCtrl(c)
    <2>1. UNCHANGED <<tape, pos, reel, opt, idxVars, skip>>
      BY <1>1 DEF playVars, WriteCtrl
    <2>2. FirstOK' /\ (\A i \in DOMAIN timeidx'.off : EntryOK(i)')
          /\ \A j : (Seen(j)' <=> Seen(j)) /\ (IsError(j)' <=> IsError(j))
      BY <2>1, IndexSame DEF IndexInv, idxVars
    <2>3. /\ SeenUpTo(skip.pos) => SeenUpTo(skip.pos)'
          /\ SeenUpTo(pos) => SeenUpTo(pos)'
          /\ UnseenIsBehindEnd => UnseenIsBehindEnd'
          /\ AtStart => AtStart'
      BY <2>1, <2>2 DEF SeenUpTo, UnseenIsBehindEnd, AtStart
    <2>4. init_phase' = 2 /\ reel' = "play" =>
            \A j \in 1 .. Len(tape') : tape'[j].ts = begin_ts' => Seen(j)'
      BY <2>1, <2>2 DEF IndexInv, idxVars
    <2> QED BY <2>1, <2>2, <2>3, <2>4 DEF IndexInv, idxVars
  <1>2. CASE EndOfFile \/ EndRound
    <2>1. UNCHANGED <<tape, opt, idxVars, skip>> /\ reel' # "play"
      BY <1>2 DEF EndOfFile, EndRound
    <2>2. FirstOK' /\ (\A i \in DOMAIN timeidx'.off : EntryOK(i)') /\ \A j : Seen(j)' <=> Seen(j)
      BY <2>1, IndexSame DEF IndexInv, idxVars
    <2>3. /\ SeenUpTo(skip.pos) => SeenUpTo(skip.pos)'
          /\ UnseenIsBehindEnd => UnseenIsBehindEnd'
      BY <2>1, <2>2 DEF SeenUpTo, UnseenIsBehindEnd
    <2>4. EndOfFile => UnseenIsBehindEnd
      <3>1. EndOfFile => reel = "play" /\ pos > Len(tape)
        BY DEF EndOfFile, Reads
      <3>2. pos \in 1 .. Len(tape) + 1 /\ Len(tape) \in Nat
        BY ChunkOfTape DEF PlayTypes
      <3>3. EndOfFile => \A j \in 1 .. Len(tape) : Seen(j)
        BY <3>1, <3>2 DEF IndexInv, SeenUpTo
      <3> QED BY <3>3 DEF UnseenIsBehindEnd
    <2>5. EndRound => reel = "end"
      BY DEF EndRound
    <2> QED BY <1>2, <2>1, <2>2, <2>3, <2>4, <2>5 DEF IndexInv, idxVars
  <1>3. CASE SkipChunk
    <2>1. ReadsChunk /\ TakeChunk /\ ~Ended /\ reel' = reel /\ opt' = opt /\ skip'.pos = pos
      BY <1>3 DEF SkipChunk, PlayTypes
    <2> QED BY <2>1, TakeChunkIndexInv
  <1>4. CASE StopAtGoto \/ \E types : Plays(types)
    <2>1. ReadsChunk /\ TakeChunk /\ ~Ended /\ reel' = reel /\ GotoBookkeeping
      BY <1>4 DEF StopAtGoto, Plays
    <2> QED BY <2>1, GotoTypes, TakeChunkIndexInv
  <1>5. Known \/ Create \/ Refuse \/ Remove \/ Update \/ ImageHeader \/ LostData
          => \E types : Plays(types)
    BY DEF Known, Create, Refuse, Remove, Update, ImageHeader, LostData
  <1> QED BY <1>1, <1>2, <1>3, <1>4, <1>5, BeginRoundIndex, ReadCtrlIndex, EndReachedIndex, ImageIndex
          DEF PlayNext

LEMMA IndexAlways == FilesInOrder => (PlaySpec => []IndexInv)
  <1>1. ASSUME PlayInit PROVE IndexInv
    <2>1. reel = "begin" /\ skip.pos = 0 /\ timeidx.first_ts = 0 /\ timeidx.off = <<>>
      BY <1>1 DEF PlayInit
    <2> QED BY <2>1 DEF IndexInv, FirstOK, SeenUpTo
  <1>2. ASSUME FilesInOrder
        PROVE  PlayTypes /\ IndexInv /\ [PlayNext]_playVars => IndexInv'
    BY <1>2, IndexStep
  <1>3. FilesInOrder => (PlaySpec => []IndexInv)
    <2>1. SUFFICES ASSUME FilesInOrder PROVE PlaySpec => []IndexInv
      OBVIOUS
    <2>2. PlayTypes /\ IndexInv /\ [PlayNext]_playVars => IndexInv'
      BY <1>2, <2>1
    <2> QED BY <1>1, <2>2, PlayTypesAlways, PTL DEF PlaySpec
  <1> QED BY <1>3

\* Arithmetic of entries: a time lies in the interval of its entry.
LEMMA InInterval ==
  ASSUME NEW a \in Nat, NEW b \in Nat, a <= b, NEW I \in Nat \ {0}, NEW n \in Nat, n = (b - a) \div I
  PROVE  a + n * I \in Nat /\ a + n * I <= b /\ b < (a + n * I) + I
  <1>1. b - a \in Nat
    OBVIOUS
  <1>2. n * I <= b - a /\ b - a < n * I + I
    BY <1>1, Quotient
  <1>3. n * I \in Nat
    BY ProductGrows
  <1> DEFINE x == n * I
  <1> HIDE DEF x
  <1>4. x \in Nat /\ x <= b - a /\ b - a < x + I
    BY <1>2, <1>3 DEF x
  <1>5. a + x \in Nat /\ a + x <= b /\ b < (a + x) + I
    BY <1>4
  <1> QED BY <1>5 DEF x
LEMMA NextProduct ==
  ASSUME NEW n \in Nat, NEW I \in Nat
  PROVE  (n + 1) * I = n * I + I /\ n * I \in Nat
  OBVIOUS
LEMMA NextSum ==
  ASSUME NEW a \in Nat, NEW n \in Nat, NEW I \in Nat
  PROVE  a + (n + 1) * I = (a + n * I) + I
  <1>1. (n + 1) * I = n * I + I /\ n * I \in Nat
    BY NextProduct
  <1> DEFINE x == n * I
             y == (n + 1) * I
  <1>2. y = x + I /\ x \in Nat
    BY <1>1
  <1> HIDE DEF x, y
  <1>3. a + y = (a + x) + I
    BY <1>2
  <1> QED BY <1>3 DEF x, y

LEMMA TimesInOrder ==
  ASSUME NEW a \in Nat, NEW b \in Nat, NEW t \in Nat, NEW ts \in Nat, NEW I \in Nat,
         t <= a, a <= b, ts < t + I
  PROVE  b > ts - I
  OBVIOUS

\* What a lookup of a time in the index answers.
LEMMA LookupNear ==
  ASSUME FilesInOrder, PlayTypes, IndexInv, timeidx.first_ts # 0,
         NEW ts \in timeidx.first_ts .. timeidx.last_ts
  PROVE  /\ \A j \in 1 .. IdxLookup(ts) - 1 :
              tape[j].ts >= ts + Interval /\ tape[j].type # "error" => j = IdxLookup(ts) - 1
         /\ \A j \in IdxLookup(ts) .. Len(tape) : tape[j].ts > ts - Interval
  <1> DEFINE first == timeidx.first_ts
             last == timeidx.last_ts
             n == IdxNumber(ts)
             i == n + 1
             p == timeidx.off[i]
             t == EntryTime(n)
  <1>1. /\ IdxShape /\ tape \in Files /\ first \in Nat /\ last \in Nat /\ Interval \in Nat \ {0}
        /\ ts \in Nat /\ first <= ts /\ ts <= last
    BY IdxNumbers DEF PlayTypes
  <1>2. i \in DOMAIN timeidx.off /\ n \in Nat /\ i <= Len(timeidx.off) /\ Len(timeidx.off) \in Nat
    BY <1>1, IdxNumbers
  <1>3. p \in Nat
    BY <1>1, <1>2 DEF IdxShape
  <1>4. n = (ts - first) \div Interval
    BY DEF IdxNumber
  <1>5. EntryOK(i)
    BY <1>2 DEF IndexInv
  <1>6. t = first + n * Interval /\ EntryTime(i) = first + (n + 1) * Interval
    BY DEF EntryTime
  <1> HIDE DEF n
  <1>7. i - 1 = n
    BY <1>2
  <1>8. /\ p - 1 \in 1 .. Len(tape) /\ tape[p - 1].ts >= t
        /\ \A j \in 1 .. p - 2 : IsError(j) \/ tape[j].ts < EntryTime(i)
    BY <1>5, <1>7 DEF EntryOK
  <1> HIDE DEF first, last, t, p
  <1>9. t \in Nat /\ t <= ts /\ ts < t + Interval
    BY <1>1, <1>2, <1>4, <1>6, InInterval
  <1>10. EntryTime(i) = t + Interval
    BY <1>1, <1>2, <1>6, NextSum
  <1>11. IdxLookup(ts) = p
    <2>1. ~(ts > last) /\ ~(ts <= first - Interval) /\ ~(ts < first) /\ ~(i > Len(timeidx.off))
      BY <1>1, <1>2
    <2> QED BY <2>1 DEF IdxLookup, first, last, n, p
  <1>12. ASSUME NEW j \in p .. Len(tape) PROVE tape[j].ts > ts - Interval
    <2>1. tape[p - 1].ts \in Nat /\ Len(tape) \in Nat
      BY <1>1, <1>8, ChunkOfTape
    <2>2. j \in 1 .. Len(tape) /\ p - 1 <= j
      BY <1>3, <1>8, <2>1
    <2>3. tape[j].ts \in Nat
      BY <1>1, <2>2, ChunkOfTape
    <2>4. tape[p - 1].ts <= tape[j].ts
      BY <1>1, <1>8, <2>2 DEF FilesInOrder
    <2>5. tape[p - 1].ts >= t
      BY <1>8
    <2> QED BY <1>1, <1>9, <2>1, <2>3, <2>4, <2>5, TimesInOrder
  <1>13. ASSUME NEW j \in 1 .. p - 1, j # p - 1 PROVE tape[j].ts < ts + Interval \/ tape[j].type = "error"
    <2>1. j \in 1 .. Len(tape) /\ j \in 1 .. p - 2 /\ Len(tape) \in Nat
      BY <1>1, <1>3, <1>8, <1>13, ChunkOfTape
    <2>2. tape[j].ts \in Nat
      BY <1>1, <2>1, ChunkOfTape
    <2>3. IsError(j) \/ tape[j].ts < t + Interval
      BY <1>8, <1>10, <2>1
    <2> QED BY <1>1, <1>9, <2>2, <2>3 DEF IsError
  <1>14. ASSUME NEW j \in 1 .. p - 1, tape[j].ts >= ts + Interval, tape[j].type # "error"
         PROVE  j = p - 1
    <2>1. tape[j].ts \in Nat
      <3>1. j \in 1 .. Len(tape)
        BY <1>1, <1>3, <1>8, ChunkOfTape
      <3> QED BY <1>1, <3>1, ChunkOfTape
    <2> QED BY <1>1, <1>13, <1>14, <2>1
  <1> QED BY <1>11, <1>12, <1>14

\* However the file was read while the index grew - jumps ahead and back, rounds that end
\* early, damaged chunks -, a jump to a time leaves out at most one chunk that was recorded an
\* interval later or more, the one its entry was made for, and what it still has to skip was
\* recorded less than an interval earlier (timeidx.c:140-210, play.c:446, 621).
THEOREM LookupAlwaysNear == FilesInOrder => (PlaySpec => []LookupIsNear)
  <1>1. SUFFICES ASSUME FilesInOrder PROVE PlaySpec => []LookupIsNear
    OBVIOUS
  <1>2. PlayTypes /\ IndexInv => LookupIsNear
    BY <1>1, LookupNear DEF LookupIsNear
  <1>3. PlaySpec => []IndexInv
    BY <1>1, IndexAlways
  <1> QED BY <1>2, <1>3, PlayTypesAlways, PTL
=============================================================================
