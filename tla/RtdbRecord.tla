----------------------------- MODULE RtdbRecord -----------------------------
(***************************************************************************)
(* The trace of a database and the recorder that writes it to a file       *)
(* (kogmo_rtdb_trace.c, kogmo_rtdb_record.c, and kogmo_rtdb_objdata_slot.c *)
(* through which the recorder gets the data).                              *)
(*                                                                         *)
(* Every insert, commit and delete sends a message into a bounded queue,   *)
(* after it has given its locks back, and never waits: when the queue is   *)
(* full, the message is dropped.  The recorder receives them and fetches   *)
(* metadata and data later, while the objects change.                      *)
(*                                                                         *)
(* A block is named by the time of its commit and has two halves, so that  *)
(* a block that is read while it is written can be told from others.       *)
(***************************************************************************)
EXTENDS Integers, Sequences, FiniteSets

CONSTANTS
  NObj,         \* objects; object o is written by one process
  HistorySize,  \* blocks per object
  BufSize,      \* rtdb_tracebufsize
  KnownMax,     \* places in the recorder's table of known objects
  Sessions      \* bound: the objects that are recorded and option -l, and the
                \* numbers of objects, commits and deletions there are

ASSUME RecordAssumption ==
  /\ {NObj, HistorySize, BufSize, KnownMax} \subseteq Nat \ {0}
  /\ Sessions \subseteq [traced : SUBSET (1 .. NObj), log : BOOLEAN, objects : 1 .. NObj,
                          commits : Nat, deletes : Nat]

VARIABLES
  obj,          \* what each object is: absent, live, deleted (still readable), purged
  ring,         \* its blocks
  commits,      \* how many commits it has had
  clock,        \* the time of the last commit
  sending,      \* the message its process is about to send, if any
  rtdb_trace,
  queue,
  missed,       \* a message was dropped that the recorder can still notice
  select,       \* the session
  at,           \* what the recorder does next
  flushing,     \* it only empties the queue
  initial,      \* the objects found at the start
  initial_ts,
  init_i,       \* how many of them have been recorded
  event,        \* the event it works on
  count,        \* the messages it has counted
  olen,
  slot_ts,      \* committed_ts of the slot it reads
  data,         \* obj_data
  known,
  lost, written,
  file,
  deleted       \* deletions so far

traceVars == <<obj, ring, commits, clock, sending, rtdb_trace, queue, missed, deleted>>
fetchVars == <<event, olen, slot_ts, data>>
startVars == <<flushing, initial, initial_ts, init_i>>
recordVars == <<traceVars, select, at, startVars, fetchVars, count, known, lost, written, file>>

Objs == 1 .. NObj
HistSlots == 0 .. HistorySize - 1
NoBlock == [ts |-> 0, data |-> <<0, 0>>]
NoEvent == [oid |-> 0, ts |-> 0, event |-> "none", slot |-> 0]
Message(o, ts, e, slot) == [oid |-> o, ts |-> ts, event |-> e, slot |-> slot]
Chunk(t, o, ts, d) == [type |-> t, oid |-> o, ts |-> ts, data |-> d]
NoData == <<0, 0>>

RecordInit ==
  /\ obj = [o \in Objs |-> "absent"]
  /\ ring = [o \in Objs |-> [i \in HistSlots |-> NoBlock]]
  /\ commits = [o \in Objs |-> 0]
  /\ clock = 0 /\ deleted = 0
  /\ sending = [o \in Objs |-> NoEvent]
  /\ rtdb_trace = FALSE /\ queue = <<>> /\ missed = FALSE
  /\ select \in Sessions
  /\ at = "activate"
  /\ flushing = TRUE /\ initial = {} /\ initial_ts = 0 /\ init_i = 0
  /\ event = NoEvent /\ count = 0 /\ olen = 0 /\ slot_ts = 0 /\ data = NoData
  /\ known = {} /\ lost = 0 /\ written = 0 /\ file = <<>>

-----------------------------------------------------------------------------
(* The processes that own the objects *)

RecorderUnchanged ==
  UNCHANGED <<select, at, startVars, fetchVars, count, known, lost, written, file>>

InsertObject(o) ==
  /\ obj[o] = "absent" /\ o <= select.objects /\ \A q \in 1 .. o - 1 : obj[q] # "absent"
  /\ obj' = [obj EXCEPT ![o] = "live"]
  /\ sending' = [sending EXCEPT ![o] = Message(o, clock, "inserted", -1)]
  /\ UNCHANGED <<ring, commits, clock, rtdb_trace, queue, missed, deleted>>
  /\ RecorderUnchanged

NextSlot(o) == commits[o] % HistorySize
Writing(o) == ring[o][NextSlot(o)].data[1] > clock

\* kogmo_rtdb_obj_writedata: the slot is invalid while it is overwritten ...
BeginWrite(o) ==
  /\ obj[o] = "live" /\ sending[o] = NoEvent /\ clock < select.commits
  /\ \A q \in Objs : ~Writing(q)        \* so that the time of a block numbers it
  /\ ring' = [ring EXCEPT ![o][NextSlot(o)] = [ts |-> 0, data |-> <<clock + 1, @.data[2]>>]]
  /\ UNCHANGED <<obj, commits, clock, sending, rtdb_trace, queue, missed, deleted>>
  /\ RecorderUnchanged

\* ... and valid again with its new time.
CommitWrite(o) ==
  /\ obj[o] = "live" /\ Writing(o)
  /\ clock' = clock + 1
  /\ ring' = [ring EXCEPT ![o][NextSlot(o)] = [ts |-> clock', data |-> <<clock', clock'>>]]
  /\ commits' = [commits EXCEPT ![o] = @ + 1]
  /\ sending' = [sending EXCEPT ![o] = Message(o, clock', "updated", NextSlot(o))]
  /\ UNCHANGED <<obj, rtdb_trace, queue, missed, deleted>>
  /\ RecorderUnchanged

DeleteObject(o) ==
  /\ obj[o] = "live" /\ sending[o] = NoEvent /\ ~Writing(o) /\ deleted < select.deletes
  /\ obj' = [obj EXCEPT ![o] = "deleted"]
  /\ deleted' = deleted + 1
  /\ sending' = [sending EXCEPT ![o] = Message(o, clock, "deleted", -1)]
  /\ UNCHANGED <<ring, commits, clock, rtdb_trace, queue, missed>>
  /\ RecorderUnchanged

\* Its slot is given away when the keep time is over.
PurgeObject(o) ==
  /\ obj[o] = "deleted"
  /\ obj' = [obj EXCEPT ![o] = "purged"]
  /\ ring' = [ring EXCEPT ![o] = [i \in HistSlots |-> NoBlock]]
  /\ UNCHANGED <<commits, clock, sending, rtdb_trace, queue, missed, deleted>>
  /\ RecorderUnchanged

\* Whether the recorder, which counts before and after it receives, can see that
\* the queue is full now: not if it has just counted less.
Noticeable == ~flushing /\ (at = "receive" => count = BufSize)

\* kogmo_rtdb_obj_trace_send and the mq_send that does not block.
SendTrace(o) ==
  /\ sending[o] # NoEvent
  /\ IF ~rtdb_trace THEN UNCHANGED <<queue, missed>>
     ELSE IF Len(queue) < BufSize
     THEN queue' = Append(queue, sending[o]) /\ UNCHANGED missed
     ELSE missed' = (missed \/ Noticeable) /\ UNCHANGED queue
  /\ sending' = [sending EXCEPT ![o] = NoEvent]
  /\ UNCHANGED <<obj, ring, commits, clock, rtdb_trace, deleted>>
  /\ RecorderUnchanged

-----------------------------------------------------------------------------
(* The recorder starts *)

RecorderGoesTo(place) == at' = place

\* The trace is switched on and emptied of at most as many messages as fit in ...
TraceLater ==                                                     \* a mutant
  /\ at = "activate"
  /\ RecorderGoesTo("search")
  /\ UNCHANGED <<traceVars, select, startVars, fetchVars, count, known, lost, written, file>>
TraceActivate ==
  /\ at = "activate"
  /\ rtdb_trace' = TRUE
  /\ RecorderGoesTo("drain")
  /\ UNCHANGED <<obj, ring, commits, clock, sending, queue, missed, deleted, select, startVars,
                 fetchVars, count, known, lost, written, file>>

Drain ==
  /\ at = "drain"
  /\ IF queue = <<>> \/ count = BufSize
     THEN RecorderGoesTo("count") /\ UNCHANGED <<queue, count>>
     ELSE queue' = Tail(queue) /\ count' = count + 1 /\ UNCHANGED at
  /\ UNCHANGED <<obj, ring, commits, clock, sending, rtdb_trace, missed, deleted, select,
                 startVars, fetchVars, known, lost, written, file>>

\* ... and then received from until a message was the only one (Flushed, below).
\* The objects there are now come first.
SearchInitial ==
  /\ at = "search"
  /\ flushing' = FALSE
  /\ initial_ts' = clock
  /\ initial' = {o \in Objs : obj[o] = "live"}
  /\ RecorderGoesTo("initial")
  /\ UNCHANGED <<traceVars, select, init_i, fetchVars, count, known, lost, written, file>>

-----------------------------------------------------------------------------
(* One round of its loop *)

\* kogmo_rtdb_obj_readdata by time, of the initial objects (RtdbObjRead): the
\* youngest block that was there at initial_ts, if it has not been overwritten.
Blocks(o) == {i \in HistSlots : ring[o][i].ts # 0}
Older(o) == {i \in Blocks(o) : ring[o][i].ts <= initial_ts}
ReadData(o, d) ==
  \/ Older(o) = {} /\ d = NoData
  \/ \E i \in Older(o) : d = ring[o][i].data /\ \A j \in Older(o) : ring[o][j].ts <= ring[o][i].ts

\* What is recorded of an event: the metadata before the first data of an object
\* (known_obj), then its chunk - unless the length that was read last, for whatever
\* event, is 0.
ChunkType == [inserted |-> "add", deleted |-> "del", updated |-> "upd"]

Chunks(e, first, n, d) ==
  (IF first THEN <<Chunk("rfr", e.oid, e.ts, NoData)>> ELSE <<>>) \o
  (IF n > 0 THEN <<Chunk(ChunkType[e.event], e.oid, e.ts, IF e.event = "updated" THEN d ELSE NoData)>>
   ELSE <<>>)

LostChunk(e) == Chunk("error", e.oid, e.ts, NoData)

\* The end of a round in which e, with n bytes of data d, is not lost or only its
\* data are (head: the chunk that says so).  With -l, a deleted object is forgotten
\* before; without, the table fills until there is no place.
RecordEvent(e, n, d, head, next) ==
  LET left == IF select.log /\ e.event = "deleted" THEN known \ {e.oid} ELSE known
      traced == e.oid \in select.traced
      first == traced /\ e.event = "updated" /\ e.oid \notin left
  IN /\ written' = IF traced THEN written + 1 ELSE written
     /\ IF first /\ Cardinality(left) = KnownMax
        THEN RecorderGoesTo("died") /\ file' = file \o head /\ UNCHANGED known
        ELSE /\ known' = IF first THEN left \cup {e.oid} ELSE left
             /\ file' = file \o head \o (IF traced THEN Chunks(e, first, n, d) ELSE <<>>)
             /\ RecorderGoesTo(next)

Lose(e, next) ==
  /\ lost' = lost + 1
  /\ file' = Append(file, LostChunk(e))
  /\ RecorderGoesTo(next)

\* An initial object is recorded like an update without a message.  Its data may
\* be overwritten while they are read; that there are none is no error.
InitialLost(o) ==
  /\ obj[o] = "purged"
  /\ Lose(event', "initial")
  /\ UNCHANGED <<known, written, olen, data>>

InitialRead(o) ==
  /\ obj[o] # "purged"
  /\ \E d \in {NoData} \cup {ring[o][i].data : i \in HistSlots} : ReadData(o, d) /\ data' = d
  /\ olen' = IF data' = NoData THEN 0 ELSE 1
  /\ RecordEvent(event', olen', data', <<>>, "initial")
  /\ UNCHANGED lost

InitialOverwritten(o) ==
  /\ obj[o] # "purged"
  /\ Writing(o) \/ \E i \in Blocks(o) : ring[o][i].ts > initial_ts
  /\ data' = NoData /\ olen' = 0 /\ lost' = lost + 1
  /\ RecordEvent(event', 0, NoData, <<LostChunk(event')>>, "initial")

RecordInitial ==
  /\ at = "initial" /\ init_i < Cardinality(initial)
  /\ \E o \in initial :
       /\ Cardinality({x \in initial : x < o}) = init_i
       /\ event' = Message(o, initial_ts, "updated", -1)
       /\ InitialLost(o) \/ InitialRead(o) \/ InitialOverwritten(o)
  /\ init_i' = init_i + 1
  /\ UNCHANGED <<traceVars, select, flushing, initial, initial_ts, count, slot_ts>>

InitialDone ==
  /\ at = "initial" /\ init_i = Cardinality(initial)
  /\ RecorderGoesTo("count")
  /\ UNCHANGED <<traceVars, select, startVars, fetchVars, count, known, lost, written, file>>

\* kogmo_rtdb_obj_trace_receive: the messages are counted, one is awaited and
\* received, and they are counted again.
CountLater ==                                                     \* a mutant
  /\ at = "count"
  /\ count' = 0
  /\ RecorderGoesTo("receive")
  /\ UNCHANGED <<traceVars, select, startVars, fetchVars, known, lost, written, file>>
CountBefore ==
  /\ at = "count"
  /\ count' = Len(queue)
  /\ RecorderGoesTo("receive")
  /\ UNCHANGED <<traceVars, select, startVars, fetchVars, known, lost, written, file>>

Receive ==
  /\ at = "receive" /\ queue # <<>>
  /\ event' = Head(queue)
  /\ queue' = Tail(queue)
  /\ RecorderGoesTo("recount")
  /\ UNCHANGED <<obj, ring, commits, clock, sending, rtdb_trace, missed, deleted, select, startVars, olen, slot_ts, data, count, known, lost, written, file>>

Flushed ==
  /\ at = "recount" /\ flushing
  /\ RecorderGoesTo(IF count > 1 \/ Len(queue) > 1 THEN "count" ELSE "search")
  /\ UNCHANGED <<traceVars, select, startVars, fetchVars, count, known, lost, written, file>>

\* No free buffer: "LOST MESSAGES".
CountAfter ==
  /\ at = "recount" /\ ~flushing
  /\ IF count = BufSize \/ Len(queue) = BufSize
     THEN Lose([event EXCEPT !.oid = 0], "info") /\ missed' = FALSE
     ELSE RecorderGoesTo("info") /\ UNCHANGED <<missed, lost, file>>
  /\ UNCHANGED <<obj, ring, commits, clock, sending, rtdb_trace, queue, deleted, select,
                 startVars, fetchVars, count, known, written>>

\* kogmo_rtdb_obj_readinfo, at the time of the event.
InfoLost ==
  /\ at = "info" /\ obj[event.oid] = "purged"
  /\ Lose(event, "count")
  /\ UNCHANGED <<traceVars, select, startVars, fetchVars, count, known, written>>

Selected(o) == o \in select.traced \/ select.log

InfoRead ==
  /\ at = "info" /\ obj[event.oid] # "purged"
  /\ RecorderGoesTo(IF ~Selected(event.oid) THEN "count"
                    ELSE IF event.event = "updated" THEN "fetch" ELSE "note")
  /\ UNCHANGED <<traceVars, select, startVars, fetchVars, count, known, lost, written,
                 file>>

\* Inserts and deletes have no data to read.
NoteEvent ==
  /\ at = "note"
  /\ RecordEvent(event, olen, NoData, <<>>, "count")
  /\ UNCHANGED <<traceVars, select, startVars, fetchVars, count, lost>>

\* readdataslot_ptr with mode -1 takes the time that is in the slot now; the time
\* of the message is not compared with it.  The data are copied ...
TraceSlot == ring[event.oid][event.slot]

PointToSlot ==
  /\ at = "fetch" /\ obj[event.oid] # "purged" /\ TraceSlot.ts # 0
  /\ slot_ts' = TraceSlot.ts
  /\ RecorderGoesTo("copy")
  /\ UNCHANGED <<traceVars, select, startVars, event, olen, data, count, known, lost,
                 written, file>>

CopyFirst ==
  /\ at = "copy"
  /\ data' = <<TraceSlot.data[1], data[2]>>
  /\ RecorderGoesTo("copy2")
  /\ UNCHANGED <<traceVars, select, startVars, event, olen, slot_ts, count, known,
                 lost, written, file>>

CopySecond ==
  /\ at = "copy2"
  /\ data' = <<data[1], TraceSlot.data[2]>>
  /\ RecorderGoesTo("check")
  /\ UNCHANGED <<traceVars, select, startVars, event, olen, slot_ts, count, known,
                 lost, written, file>>

\* ... and with mode 1 the time in the slot has to be the same as before.
CheckNothing ==                                                   \* a mutant
  /\ at = "check"
  /\ olen' = 1 /\ RecordEvent(event, 1, data, <<>>, "count") /\ UNCHANGED lost
  /\ UNCHANGED <<traceVars, select, startVars, event, slot_ts, data, count>>
CheckSlot ==
  /\ at = "check" /\ obj[event.oid] # "purged" /\ TraceSlot.ts = slot_ts
  /\ olen' = 1
  /\ RecordEvent(event, 1, data, <<>>, "count")
  /\ UNCHANGED <<traceVars, select, startVars, event, slot_ts, data, count, lost>>

\* The data are lost, "TOO SLOW?".
DataLost ==
  /\ \/ at = "fetch" /\ (obj[event.oid] = "purged" \/ TraceSlot.ts = 0)
     \/ at = "check" /\ (obj[event.oid] = "purged" \/ TraceSlot.ts # slot_ts)
  /\ olen' = 0
  /\ lost' = lost + 1
  /\ RecordEvent(event, 0, NoData, <<LostChunk(event)>>, "count")
  /\ UNCHANGED <<traceVars, select, startVars, event, slot_ts, data, count>>

\* A signal: the trace is switched off.
StopRecorder ==
  /\ at \notin {"stopped", "died"}
  /\ rtdb_trace' = FALSE
  /\ RecorderGoesTo("stopped")
  /\ UNCHANGED <<obj, ring, commits, clock, sending, queue, missed, deleted, select, startVars, fetchVars, count, known, lost, written, file>>

OwnerStep(o) ==
  \/ InsertObject(o) \/ BeginWrite(o) \/ CommitWrite(o) \/ DeleteObject(o) \/ PurgeObject(o)
  \/ SendTrace(o)

RecorderStep ==
  \/ TraceActivate \/ Drain \/ Flushed \/ SearchInitial \/ RecordInitial \/ InitialDone
  \/ CountBefore \/ Receive \/ CountAfter \/ InfoLost \/ InfoRead \/ NoteEvent
  \/ PointToSlot \/ CopyFirst \/ CopySecond \/ CheckSlot \/ DataLost \/ StopRecorder

RecordNext == (\E o \in Objs : OwnerStep(o)) \/ RecorderStep

RecordSpec == RecordInit /\ [][RecordNext]_recordVars

-----------------------------------------------------------------------------
(* Properties *)

RecordTypeOK ==
  /\ obj \in [Objs -> {"absent", "live", "deleted", "purged"}]
  /\ at \in {"activate", "drain", "search", "initial", "count", "receive", "recount",
            "info", "note", "fetch", "copy", "copy2", "check", "stopped", "died"}
  /\ Len(queue) <= BufSize /\ Cardinality(known) <= KnownMax
  /\ initial \subseteq Objs /\ count \in 0 .. BufSize /\ olen \in {0, 1}
  /\ {lost, written} \subseteq Nat
  /\ at \in {"note", "fetch", "copy", "copy2", "check"} => event.oid \in Objs

\* What is recorded of an update is one block, and none older than the update -
\* or, of an initial object, none younger than the start: never the halves of two
\* blocks, although nothing keeps the owner from writing while the recorder copies
\* (record.c:635-660, objdata_slot.c:81-102).
RecordedBlocksAreWhole ==
  \A i \in DOMAIN file :
    file[i].type = "upd" =>
      LET d == file[i].data IN
      d[1] = d[2] /\ d[1] # 0 /\ (d[1] >= file[i].ts \/ file[i].ts = initial_ts)

\* When a message has been dropped, the recorder is going to see the queue full -
\* except one dropped between its first count and its receive (trace.c:85-99).
LossIsNoticed ==
  missed =>
    \/ Len(queue) = BufSize
    \/ at \in {"receive", "recount"} /\ count = BufSize
    \/ at \in {"stopped", "died"}

\* No object falls between the search at the start and the trace: one that the
\* search has not found has its message still before it (record.c:447-485).
NoObjectIsMissed ==
  at = "initial" =>
    \A o \in Objs : obj[o] = "live" /\ o \notin initial =>
      \/ sending[o].event = "inserted" \/ missed
      \/ \E i \in DOMAIN queue : queue[i].oid = o /\ queue[i].event = "inserted"

\* As the recorder says at the end (record.c:793), it "wrote" so many events: there
\* is a chunk in the file for each; no run checks it.  It does not hold: insertions and
\* deletions are counted, but while olen is 0 not written (record.c:698, 713).
EventsWrittenAreInTheFile ==
  at # "died" => written <= Len(file)
=============================================================================
