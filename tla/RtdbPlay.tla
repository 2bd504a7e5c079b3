------------------------------ MODULE RtdbPlay ------------------------------
(***************************************************************************)
(* The player: it reads the chunks of a recorded file, creates, writes and *)
(* deletes objects as they say, and jumps about in the file as another     *)
(* process tells it through its control object (kogmo_rtdb_play.c, the map *)
(* of object ids in kogmo_rtdb_oid_map.h, the index from time to position  *)
(* in kogmo_rtdb_timeidx.c).                                               *)
(*                                                                         *)
(* Positions count chunks.  A recorded object may have a parent and is     *)
(* deleted with it; a chunk has what its type uses, zeroes otherwise.  The *)
(* speed, playing frame by frame and writing files are left out.           *)
(***************************************************************************)
EXTENDS Integers, Sequences

CONSTANTS
  Files,         \* what can have been recorded: sequences of chunks
  Sources,       \* the object ids in them
  Interval,      \* timeidx interval
  Garbage,       \* what a time in a buffer with image data can be
  Options,       \* the options the player can be started with
  Commands,      \* bound: what is written into the control object ...
  MaxCommands,   \* ... and how often
  MaxRounds,     \* bound: how often the file is read
  MaxRefused     \* bound: objects that are not played, not unique or have no memory

ChunkTypes == {"add", "rfr", "chg", "del", "upd", "next", "image", "error"}

FileChunk == [type : ChunkTypes, oid : Nat, ts : Nat, data : Nat]

PlayOptions == [pause : BOOLEAN, scan : BOOLEAN, loop : BOOLEAN, keepcreated : BOOLEAN,
                begin : Nat, end : Nat, goto : Nat]

\* An image comes right after its header (record.c:762-777).
ASSUME PlayAssumption ==
  /\ Sources \subseteq Nat \ {0} /\ Interval \in Nat \ {0} /\ Garbage \subseteq Nat
  /\ Files \subseteq Seq(FileChunk)
  /\ \A f \in Files : \A i \in DOMAIN f :
       f[i].ts >= Interval /\ (f[i].type \in {"add", "rfr", "chg"} => f[i].oid \in Sources)
  /\ \A f \in Files : \A i \in DOMAIN f : f[i].type = "image" =>
       i > 1 /\ f[i - 1].type = "next" /\ f[i - 1].ts = f[i].ts
  /\ Options \subseteq PlayOptions /\ Commands \subseteq PlayOptions
  /\ {MaxCommands, MaxRounds, MaxRefused} \subseteq Nat

VARIABLES
  tape,       \* the file
  pos,        \* ftello(fp)
  reel,       \* what the player does: begin a round, play, end a round, exit
  opt,        \* do_pause, do_scan, do_loop, do_keepcreated, do_begin, do_end, do_goto
  ctrl,       \* the control object, and whether it is news
  commands,   \* how often it has been written
  chunk_ts,   \* rtdbchunk->ts, 0 as long as rtdbchunk is NULL
  init_phase, begin_ts,   \* begin_ts: initial_ts
  timeidx,    \* first_ts, last_ts and the positions of the entries
  skip,       \* skip_pos and last_do_goto
  rawnext,    \* the object and the header the next image belongs to
  map,        \* oid_map: the player's object of a source, 0 if none is wanted
  db,         \* the player's objects
  dest,       \* ids given away
  refused, rounds,
  direct      \* this round has played every chunk so far

idxVars == <<init_phase, begin_ts, timeidx>>
playVars == <<tape, pos, reel, opt, ctrl, commands, chunk_ts, idxVars, skip, rawnext, map, db,
              dest, refused, rounds, direct>>

Absent == -1
NoRaw == [oid |-> 0, header |-> 0]
Shown(header, body) == [header |-> header, body |-> body]

PlayInit ==
  /\ tape \in Files
  /\ pos = 1 /\ reel = "begin"
  /\ opt \in Options
  /\ ctrl = [new |-> FALSE] /\ commands = 0
  /\ chunk_ts = 0 /\ init_phase = 1 /\ begin_ts = 0
  /\ timeidx = [first_ts |-> 0, last_ts |-> 0, off |-> <<>>]
  /\ skip = [pos |-> 0, goto |-> 0]
  /\ rawnext = NoRaw
  /\ map = [o \in Sources |-> Absent]
  /\ db = <<>> /\ dest = 0 /\ refused = 0 /\ rounds = 0
  /\ direct = TRUE

-----------------------------------------------------------------------------
(* The index *)

IdxNumber(ts) == (ts - timeidx.first_ts) \div Interval

\* timeidx_add.  The entries for the times nothing was recorded at are filled with
\* the position that comes after them.
IdxWithGaps(ts, off) ==                                           \* a mutant
  IF timeidx.first_ts = 0 THEN [first_ts |-> ts, last_ts |-> ts, off |-> <<off>>]
  ELSE [timeidx EXCEPT !.last_ts = ts, !.off = Append(@, off)]
IdxAdd(ts, off) ==
  IF timeidx.first_ts = 0 THEN [first_ts |-> ts, last_ts |-> ts, off |-> <<off>>]
  ELSE IF ts < timeidx.last_ts + Interval THEN timeidx
  ELSE [timeidx EXCEPT !.last_ts = ts,
          !.off = [i \in 1 .. IdxNumber(ts) + 1 |-> IF i \in DOMAIN @ THEN @[i] ELSE off]]

\* timeidx_lookup: -1 for what is not known (yet).
IdxLookup(ts) ==
  IF ts > timeidx.last_ts \/ ts <= timeidx.first_ts - Interval THEN -1
  ELSE LET i == IF ts < timeidx.first_ts THEN 1 ELSE IdxNumber(ts) + 1
       IN timeidx.off[IF i > Len(timeidx.off) THEN Len(timeidx.off) ELSE i]

-----------------------------------------------------------------------------
(* Rounds and commands *)

\* With loop and keepcreated the player goes to where it started last time.
BeginRound ==
  LET goto == IF opt.begin # 0 /\ opt.goto = 0 THEN opt.begin ELSE opt.goto
      jumps == goto # 0 /\ opt.loop /\ opt.keepcreated
      known == IF skip.pos # 0 /\ skip.goto = goto THEN skip.pos ELSE IdxLookup(goto)
  IN /\ reel = "begin" /\ rounds < MaxRounds
     /\ opt' = [opt EXCEPT !.goto = goto]
     /\ pos' = IF jumps /\ known >= 0 THEN known ELSE 1
     /\ init_phase' = 1 /\ rawnext' = NoRaw
     /\ direct' = (goto = 0 /\ \A o \in Sources : map[o] = Absent)
     /\ rounds' = rounds + 1
     /\ reel' = "play"
     /\ UNCHANGED <<tape, ctrl, commands, chunk_ts, begin_ts, timeidx, skip, map, db, dest, refused>>

\* Another process writes the control object.
WriteCtrl(c) ==
  /\ reel = "play" /\ commands < MaxCommands
  /\ ctrl' = [new |-> TRUE, c |-> c]
  /\ commands' = commands + 1
  /\ UNCHANGED <<tape, pos, reel, opt, chunk_ts, idxVars, skip, rawnext, map, db, dest, refused,
                 rounds, direct>>

\* The player looks before every chunk - but not before it has read one and not at
\* the start of a round.
CtrlIsDue == init_phase = 0 /\ chunk_ts # 0 /\ ctrl.new

\* A jump back goes at least near to the time or to the beginning; a jump ahead goes
\* there if it is known how far, and otherwise everything up to it is read.
ReadCtrl ==
  LET goto == ctrl.c.goto
      filepos == IdxLookup(goto)
      back == goto # 0 /\ goto < chunk_ts
      ahead == goto # 0 /\ goto > chunk_ts /\ filepos >= 0 /\ ~ctrl.c.scan
  IN /\ reel = "play" /\ CtrlIsDue
     /\ ctrl' = [new |-> FALSE]
     /\ opt' = ctrl.c
     /\ skip' = IF ctrl.c.begin # opt.begin THEN [skip EXCEPT !.pos = 0] ELSE skip
     /\ pos' = IF back THEN (IF filepos >= 0 THEN filepos ELSE 1)
               ELSE IF ahead THEN filepos ELSE pos
     /\ direct' = (direct /\ ~back /\ ~ahead)
     /\ UNCHANGED <<tape, reel, commands, chunk_ts, idxVars, rawnext, map, db, dest, refused, rounds>>

-----------------------------------------------------------------------------
(* Reading a chunk *)

Paused == opt.pause /\ opt.goto = 0 /\ init_phase = 0
Reads == reel = "play" /\ ~CtrlIsDue /\ ~Paused

This == tape[pos]
ReadsChunk == Reads /\ pos <= Len(tape) /\ This.type # "image"

\* The initial objects come first, all with the same time.
NowFirst == IF init_phase = 1 /\ This.type # "error" THEN This.ts ELSE begin_ts
NowPhase ==
  IF init_phase = 0 \/ This.type = "error" THEN init_phase
  ELSE IF This.ts # NowFirst THEN 0 ELSE 2

\* What is done with every chunk of the database, before it is played.
TakeChunk ==
  /\ pos' = pos + 1
  /\ chunk_ts' = This.ts
  /\ begin_ts' = NowFirst /\ init_phase' = NowPhase
  /\ timeidx' = IF NowPhase = 0 /\ This.type # "error" /\ This.ts >= timeidx.last_ts + Interval
                THEN IdxAdd(This.ts, pos + 1) ELSE timeidx
  /\ UNCHANGED <<tape, ctrl, commands, rounds>>

Ended == opt.end # 0 /\ This.ts > opt.end
Early == opt.goto # 0 /\ ~opt.scan /\ NowPhase = 0 /\ This.ts < opt.goto
Reached == opt.goto # 0 /\ This.ts >= opt.goto

EndReached ==
  /\ ReadsChunk /\ Ended
  /\ TakeChunk
  /\ reel' = "end"
  /\ UNCHANGED <<opt, skip, rawnext, map, db, dest, refused, direct>>

SkipChunk ==
  /\ ReadsChunk /\ ~Ended /\ Early
  /\ TakeChunk
  /\ skip' = [skip EXCEPT !.pos = pos]
  /\ direct' = FALSE
  /\ UNCHANGED <<reel, opt, rawnext, map, db, dest, refused>>

\* The end of a jump; in a pause, its chunk is not played.
GotoBookkeeping ==
  IF Reached
  THEN skip' = [pos |-> pos, goto |-> opt.goto] /\ opt' = [opt EXCEPT !.goto = 0]
  ELSE UNCHANGED <<skip, opt>>

StopAtGoto ==
  /\ ReadsChunk /\ ~Ended /\ ~Early /\ Reached /\ opt.pause /\ ~opt.scan
  /\ TakeChunk /\ GotoBookkeeping
  /\ direct' = FALSE
  /\ UNCHANGED <<reel, rawnext, map, db, dest, refused>>

Plays(types) ==
  /\ ReadsChunk /\ ~Ended /\ ~Early /\ ~(Reached /\ opt.pause /\ ~opt.scan)
  /\ This.type \in types
  /\ TakeChunk /\ GotoBookkeeping
  /\ UNCHANGED <<reel, direct>>

-----------------------------------------------------------------------------
(* Playing it *)

Querydest(o) == IF o \in Sources /\ map[o] # Absent THEN map[o] ELSE 0

\* The objects that go when object d is deleted: d and what is below it, nothing if it is
\* gone already.
Below(d) ==
  {e \in DOMAIN db : d \in DOMAIN db /\ \A S \in SUBSET DOMAIN db :
     d \in S /\ (\A x \in DOMAIN db : db[x].parent \in S => x \in S) => e \in S}

Without(f, gone) == [d \in DOMAIN f \ gone |-> f[d]]

With(d, object) == [e \in DOMAIN db \cup {d} |-> IF e = d THEN object ELSE db[e]]

\* Add, refresh and change: what is there stays as it is.
Known ==
  /\ Plays({"add", "rfr", "chg"}) /\ map[This.oid] # Absent
  /\ UNCHANGED <<rawnext, map, db, dest, refused>>

CreateAlways ==                                                   \* a mutant
  /\ Plays({"add", "rfr", "chg"})
  /\ dest' = dest + 1
  /\ db' = With(dest', [source |-> This.oid, parent |-> Querydest(This.data), shown |-> Shown(0, 0)])
  /\ map' = [map EXCEPT ![This.oid] = dest']
  /\ UNCHANGED <<rawnext, refused>>
\* The parent is the object that stands for it, or the player.
Create ==
  /\ Plays({"add", "rfr", "chg"}) /\ map[This.oid] = Absent
  /\ dest' = dest + 1
  /\ db' = With(dest', [source |-> This.oid, parent |-> Querydest(This.data), shown |-> Shown(0, 0)])
  /\ map' = [map EXCEPT ![This.oid] = dest']
  /\ UNCHANGED <<rawnext, refused>>

Refuse ==
  /\ Plays({"add", "rfr", "chg"}) /\ map[This.oid] = Absent /\ refused < MaxRefused
  /\ map' = [map EXCEPT ![This.oid] = 0]
  /\ refused' = refused + 1
  /\ UNCHANGED <<rawnext, db, dest>>

Remove ==
  /\ Plays({"del"})
  /\ db' = Without(db, Below(Querydest(This.oid)))
  /\ map' = [map EXCEPT ![This.oid] = Absent]
  /\ UNCHANGED <<rawnext, dest, refused>>

Written(d, header, body) ==
  IF d \in DOMAIN db
  THEN [db EXCEPT ![d] = [source |-> @.source, parent |-> @.parent, shown |-> Shown(header, body)]]
  ELSE db

Update ==
  /\ Plays({"upd"})
  /\ db' = Written(Querydest(This.oid), This.data, This.data)
  /\ UNCHANGED <<rawnext, map, dest, refused>>

\* The header of an image is kept until the image comes, in a chunk of its own.
ImageHeader ==
  /\ Plays({"next"})
  /\ rawnext' = IF Querydest(This.oid) = 0 THEN rawnext
                ELSE [oid |-> This.oid, header |-> This.data]
  /\ UNCHANGED <<map, db, dest, refused>>

LostData ==
  /\ Plays({"error"})
  /\ UNCHANGED <<rawnext, map, db, dest, refused>>

\* The image is read into the buffer that rtdbchunk points into.
HeaderLost ==                                                        \* a mutant
  /\ Reads /\ pos <= Len(tape) /\ This.type = "image"
  /\ pos' = pos + 1
  /\ chunk_ts' \in (IF chunk_ts = 0 THEN {0} ELSE Garbage)
  /\ db' = Written(Querydest(rawnext.oid), This.data, This.data)
  /\ rawnext' = NoRaw
  /\ UNCHANGED <<tape, reel, opt, ctrl, commands, idxVars, skip, map, dest, refused, rounds, direct>>
Image ==
  /\ Reads /\ pos <= Len(tape) /\ This.type = "image"
  /\ pos' = pos + 1
  /\ chunk_ts' \in (IF chunk_ts = 0 THEN {0} ELSE Garbage)
  /\ db' = Written(Querydest(rawnext.oid), rawnext.header, This.data)
  /\ rawnext' = NoRaw
  /\ UNCHANGED <<tape, reel, opt, ctrl, commands, idxVars, skip, map, dest, refused, rounds, direct>>

EndOfFile ==
  /\ Reads /\ pos > Len(tape)
  /\ reel' = "end"
  /\ UNCHANGED <<tape, pos, opt, ctrl, commands, chunk_ts, idxVars, skip, rawnext, map, db, dest,
                 refused, rounds, direct>>

\* The objects are deleted, unless they are kept for the next round.
EndRound ==
  LET keeps == opt.loop /\ opt.keepcreated
      gone == UNION {Below(map[o]) : o \in Sources}
  IN /\ reel = "end"
     /\ reel' = IF opt.loop THEN "begin" ELSE "exit"
     /\ map' = IF keeps THEN map ELSE [o \in Sources |-> Absent]
     /\ db' = IF keeps THEN db ELSE Without(db, gone)
     /\ UNCHANGED <<tape, pos, opt, ctrl, commands, chunk_ts, idxVars, skip, rawnext, dest, refused,
                    rounds, direct>>

PlayNext ==
  \/ BeginRound \/ ReadCtrl \/ EndReached \/ SkipChunk \/ StopAtGoto
  \/ (\E c \in Commands : WriteCtrl(c))
  \/ Known \/ Create \/ Refuse \/ Remove \/ Update \/ ImageHeader \/ LostData \/ Image
  \/ EndOfFile \/ EndRound

PlaySpec == PlayInit /\ [][PlayNext]_playVars

-----------------------------------------------------------------------------
(* Properties *)

PlayTypeOK ==
  /\ pos \in 1 .. Len(tape) + 1 /\ reel \in {"begin", "play", "end", "exit"}
  /\ init_phase \in {0, 1, 2} /\ skip.pos \in 0 .. Len(tape)
  /\ \A o \in Sources : map[o] \in Absent .. dest
  /\ \A d \in DOMAIN db : d \in 1 .. dest /\ db[d].source \in Sources
  /\ \A i \in DOMAIN timeidx.off : timeidx.off[i] \in 1 .. Len(tape) + 1

\* Whatever jumps and rounds there are, every object the player has made is the one
\* its source is mapped to, so that it is written and deleted with it: none is left
\* when the player exits (play.c:703-801, 966-991).
MapIsExact ==
  /\ \A d \in DOMAIN db : map[db[d].source] = d
  /\ reel = "exit" => db = <<>>

\* What a chunk says: an object is there, with the parent its information names; it has
\* data.  The data of an image follow the chunk with its object and header.
OidOf(f, i) == IF f[i].type = "image" THEN f[i - 1].oid ELSE f[i].oid
Born(f, o, i) == f[i].type \in {"add", "rfr", "chg"} /\ f[i].oid = o
DataOf(f, o, i) == f[i].type \in {"upd", "image"} /\ OidOf(f, i) = o
Deleted(f, o, i) == f[i].type = "del" /\ f[i].oid = o

\* The first that is said of an object, and says it is below one that was there before.  The
\* message about a child can overtake that about its parent, both are sent when the lock
\* has been released (objmeta.c:563-568): then the player takes it for an object of its own.
First(f, i) == Born(f, f[i].oid, i) /\ \A j \in 1 .. i - 1 : ~Born(f, f[i].oid, j)
ToldOf(f, o, i) == \E j \in 1 .. i - 1 : Born(f, o, j)
FirstBelow(f, i) == First(f, i) /\ ToldOf(f, f[i].data, i)

\* An object goes with its own deletion, and with that of the one it was born below.
BornBelow(f, S, i) ==
  \A j \in 1 .. i - 1 : FirstBelow(f, j) /\ f[j].data \in S => f[j].oid \in S
DeletedBy(f, i) ==
  {o \in Sources : /\ \E q \in Sources : Deleted(f, q, i)
                   /\ \A S \in SUBSET Sources : f[i].oid \in S /\ BornBelow(f, S, i) => o \in S}
Lives(f, o, i) ==
  ToldOf(f, o, i) /\ \A j \in 1 .. i - 1 : o \notin DeletedBy(f, j)

Last(S) == CHOOSE i \in S : \A j \in S : j <= i
DataBefore(f, o, i) == {j \in 1 .. i - 1 : DataOf(f, o, j)}
LastOf(f, o, i) ==
  IF DataBefore(f, o, i) = {} THEN Shown(0, 0)
  ELSE LET j == Last(DataBefore(f, o, i))
       IN Shown(IF f[j].type = "image" THEN f[j - 1].data ELSE f[j].data, f[j].data)

\* A file of whole lives: information about an object comes before its data, also where the
\* object was there before the recorder (record.c:700-711); a parent that was told of is still
\* there when its child is told of; and nothing about an object comes after its deletion.
Recording(f) ==
  \A i \in DOMAIN f :
    LET o == OidOf(f, i) IN
    /\ DataOf(f, o, i) => ToldOf(f, o, i)
    /\ FirstBelow(f, i) => Lives(f, f[i].data, i)
    /\ Born(f, o, i) \/ DataOf(f, o, i) => \A j \in 1 .. i - 1 : ~Deleted(f, o, j)
FilesAreRecordings == \A f \in Files : Recording(f)

\* What was recorded comes in the order of its times.  The recorder writes what the trace
\* brings in the order it comes (record.c:504-505, 762).
FilesInOrder == \A f \in Files : \A i, j \in DOMAIN f : i <= j => f[i].ts <= f[j].ts

\* Where no jump has left chunks out and nothing was refused, the database shows what had been
\* recorded up to this chunk: the objects that had been added and not deleted since, alone or
\* with an object above them, each with its last data, images put together from their two
\* chunks, and below the object that stands for its parent (play.c:703-948).
PlaybackIsFaithful ==
  direct /\ reel = "play" /\ refused = 0 =>
    /\ \A o \in Sources :
         /\ Lives(tape, o, pos) <=> map[o] \in DOMAIN db
         /\ Lives(tape, o, pos) => db[map[o]].shown = LastOf(tape, o, pos)
    /\ \A i \in 1 .. pos - 1 : FirstBelow(tape, i) /\ Lives(tape, tape[i].oid, pos) =>
         db[map[tape[i].oid]].parent = map[tape[i].data]

\* The index leads near to the time it is asked for, however the file was read while it grew
\* (timeidx.c:140-210).  A jump leaves out what comes before the position it leads to.  The
\* position is taken when the chunk of its entry has been read (play.c:621), so that this chunk is left
\* out as well, and after a gap in the recording it can be of any later time (play.c:446).
\* All others that are left out were recorded less than an interval later; and of what is not
\* left out, everything was recorded less than an interval earlier, or later.
LookupIsNear ==
  \A ts \in timeidx.first_ts .. timeidx.last_ts :
    LET to == IdxLookup(ts) IN
    timeidx.first_ts # 0 =>
      /\ \A i \in 1 .. to - 1 :
           tape[i].ts >= ts + Interval /\ tape[i].type # "error" => i = to - 1
      /\ \A i \in to .. Len(tape) : tape[i].ts > ts - Interval
=============================================================================
