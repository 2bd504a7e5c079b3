# KogMo-RTDB in TLA+

KogMo-RTDB is a real-time database for cognitive automobiles: a library
(`src/rtdb/`) through which processes share named objects with a history of
timestamped data blocks, all of it in one POSIX shared memory segment. Commits
never wait for readers, readers never lock, and a manager process cleans up.
Around it are a recorder and a player of such data, C++ classes, and a client
and a server for looking at a database over a network. This directory holds
TLA+ models of the parts where that is hard to get right, TLC configurations
that check them on small instances, and theorems about them proved with TLAPS.

Contents: 1 the system · 2 the modules · 3 the runs · 4 what is proved ·
5 disagreements with the documentation · 6 what is not modelled · 7 what is
left · 8 how to run it.

## 1. The system

All state that processes share is in the segment `localdata_p` describes
(`kogmo_rtdb_obj_local.h`): the table `objmeta[]` of metadata slots, the table
`proc[]` of process slots, a heap for the rings of data blocks, and the locks.
Components interact through this memory, through four kinds of locks, and
through condition variables; messages there are only from the trace to the
recorder and in the network monitor.

| Component | State | Operations | Meets others through |
|---|---|---|---|
| Object data: writing (`objdata.c`) | ring of `history_size` slots in the heap, `history_slot`, the object lock of `write_allow` objects | `writedata`, `writedata_ptr_begin`, `_commit` | the words of the ring; notification lock |
| Object data: reading (`objdata.c`, `objdata_slot.c`) | none; a private buffer | `readdata` and the `_older`, `_younger`, `datatime`, `dataolder`, `datayounger` variants, `_ptr` variants, slot references | reads ring and metadata without any lock |
| Waiting for data (`objdata.c`, `proc_obj_notify.h`) | per slot: `obj_changenotify_lock` and `obj_changenotify` | `readdata_waitnext`, `_until` (blocking, or polling under `no_notifies`) | woken by commit and delete |
| Object metadata (`objmeta.c`) | `objmeta[]`, `objmeta_free`, `objmeta_oid_next`, `objmeta_lock` | `insert`, `delete`, `searchinfo`, `readinfo`, `changeinfo` | heap under `heap_lock`; metadata notification |
| Waiting for metadata (`objmeta.c`, `ipc_posix.c`) | the metadata's condition variable; lists of known ids | `searchinfo_wait`, `_until`, `_waitnext`, `_lists_nonblocking` | woken by insert, delete and changeinfo |
| Processes (`obj_local.c`, `ipc_posix.c`) | the segment's name, `proc[]`, `proc_lock` | `connect`, `disconnect`, `setstatus`, `cycle_done`, handlers at exit | process objects are ordinary objects |
| Manager (`man.c`, `housekeeping.c`) | the segment, its own process slot | making, keeping and ending a database; `purge_objs`, `purge_procs` | deletes for dead processes, frees deleted slots |
| Heap (`rtmalloc.c`, `suba.c`; `tlsf.c` instead) | free cells in the segment, `heap_lock` | `malloc`, `free` | insert and purge |
| Trace (`trace.c`) | a POSIX message queue of bounded length | `trace_send`, `trace_receive` | every commit, insert and delete sends an event |
| Recorder (`record.c`) | table of known objects, the file | start, event loop | reads trace, metadata and, by slot, data |
| Player (`play.c`, `oid_map.h`, `timeidx.c`) | position, map of ids, time index | the loop over the chunks of a file; jumps | makes, writes and deletes objects; its control object |
| Player control (`system_classes.hxx`, `qrtdbplay`, `play.c`) | the control object | read, change, write back | several programs and the player |
| C++ classes (`obj_base_*.hxx`) | the object in the program's memory | sequences of reads | a writer between any two of them |
| Network monitor (`udprmon/`) | serial number of requests | the calls of the library as requests by UDP | a network that loses, delays and repeats |
| Time, printing, tools, tests, GUIs | none shared | | |

What is hard here, and what makes each component correct:

- **Reading without a lock.** A writer may lap a reader at any word, be
  killed at any word, and the 64-bit commit time is two words. A successful
  read must give one complete block, with its commit time, the right one by
  time, and not an old one; the latest `history_size - 1` blocks must stay
  readable.
- **Several writers.** They read the clock before they queue for the object
  lock; the ring must still be in the order of commit times.
- **Waiting.** Between the check and the wait a commit or a delete must not
  get lost, though commit publishes under the notification lock and delete
  marks under `objmeta_lock` first and notifies later. A wait for metadata
  that runs out of time unlocks `objmeta_lock` twice.
- **Insert.** It gives up `objmeta_lock` while it allocates, so everything it
  knew is stale when it comes back; it has five ways to fail after it holds
  something.
- **Delete and purge.** The cascade to children and the manager's purge
  release the lock between objects; ids, slots and heap blocks are re-used.
- **Crashes.** No mutex is robust: a killed owner leaves its lock locked. What
  a killed process left of memory and objects is the manager's to clean up.
- **Connections.** A client may map a segment that is being cleared, or one
  whose name is gone; `purge_procs` looks at slots without `proc_lock` while
  they change hands.
- **Recording.** The trace drops what does not fit; the recorder reads the data
  of an event later, by slot number, while the owner goes on writing; between
  the start of the trace and the search for what exists, an object may appear.
- **Playing.** Jumps, rounds and refused inserts pull the map of ids and the
  database apart. Programs change the control object by read, change and write
  while the clock it is stamped with may stand still.
- **Sequences of reads.** The C++ methods read two or three times, and a
  writer that laps them in between would make them skip what they promise.
- **The network.** Late and repeated replies must not answer another request.

`PROJECT.json` lists every such hazard with its line and the property that
would catch it, or why none does.

## 2. The modules

    RtdbRing ──EXTENDS── RtdbObjRead ──implements── RtdbHistory
                              └── RtdbObjReadProofs
    RtdbObjMeta ──implements── RtdbRegistry
         └── RtdbObjMetaProofs
    RtdbNotify ── RtdbNotifyProofs
    RtdbProc ── RtdbProcProofs
    RtdbSuba, RtdbTlsf ──implement── RtdbHeap
         └── RtdbHeapProofs
    RtdbRecord, RtdbPlay, RtdbPlayCtrl ── RtdbRecordProofs
    RtdbFollow ── RtdbFollowProofs
    RtdbSearch, RtdbMonitor, and all of MCRtdbParts ── RtdbPartsProofs

`MCRtdbObjRead`, `MCRtdbObjMeta` and `MCRtdbNotify` give the constants of the
first three groups their values for TLC, `MCRtdbRecord` and `MCRtdbProc` those of the
recorder and of processes.
`MCRtdbParts` puts the other nine specifications side by side: they share no
state with each other, so its variable `part` says which of them a behaviour is
about, and the others stand still in it. Definitions marked `a mutant` are
never part of a specification; each is a mistake one could have made in the
definition below it, and TLC finds a property violated when it takes the
definition's place.

### RtdbRing: one object's ring and its writers

One metadata slot, one ring, several writers. `ring[s][w]` is a machine word of
slot `s`: `hi` and `lo` of the commit time, `size`, `data_ts` and the words of
the body. **Every access to a word of shared memory is an action**, in the
order the code has: `InvalidateHigh`, `InvalidateLow` (COPY_INT64_HIGHFIRST of
the invalid time), `CopyIn` (memcpy, or the caller between `ptr_begin` and
`ptr_commit`: words in any order), `SetDataTs`, `PublishLow`, `PublishHigh`
(COPY_INT64_LOWFIRST), `MakeCurrent` (history_slot). Before that come
`WriteBegin` (clock and permission), `TakeObjLock`, and the cycle watch
(`WriteTooFast` or `ChooseSlot`); `PtrBegin` and `PtrCommit` are the other way
in. `Crash` kills a writer anywhere inside a call. `Delete` marks the object,
`Reuse` is the insert that hands the ring of a deleted `keep_alloc` object on,
uncleared. `hist`, `cur` and `first` are history variables: the blocks made
valid, how many were made current, and where the present object's begin.

Simplifications: words become visible in program order (the code has no memory
barriers and relies on the order of its volatile copies; x86 keeps stores and
loads in order, weaker machines would not); a block is a serial number
repeated in every word of its body; only the creator's process deletes and
re-uses, while no writer is inside a call; all blocks have the full size.

### RtdbObjRead: the lock-free reader

Adds the readers, again one action per shared word: `ReadBegin` (find the
metadata, read `history_slot`), `CheckSlot` and `CheckDeleted` (histscan and
the test of `deleted_ts`), `ScanHigh`, `ScanLow`, `ScanData`, with `Decide`
for "take it, stop, or go on to the slot before", `CopyOut`, `FinalLow`,
`FinalHigh`, and `ReturnSize`, which reads the size from the slot once more
after the check as the code does. `Requests` holds mode and time of the calls.

### RtdbHistory: what that implements

An append-only log of blocks with a current one. A call answers with one block
of the log - for the latest data, none before the block that was current when
the call began - or with nothing. `ImplementsHistory` maps `hist` to the log,
and a call's answer to the block that its buffer is a complete copy of; a
buffer that is a copy of none maps to an answer that RtdbHistory does not have.

### RtdbObjMeta: the registry

The slots, `objmeta_free`, `objmeta_oid_next`, the heap as a set of blocks, and
the calls insert, delete and purge. **A step is one section under
`objmeta_lock` or `heap_lock`**, or the passage between two; inside a section
nothing of the model is read by anyone without the lock, so sections are
atomic, and `objmeta_lock` records only who left a section without unlocking.
The mutexes are ERRORCHECK: the owner may lock again, nobody gets a dead
owner's lock.

- *insert*: `InsertCall` (time and arguments), then `InsertKept` (a kept slot
  of this process) or `InsertNeedsBlock` → `InsertAlloc` → `InsertClaim`, which
  looks for a free slot and checks uniqueness again; the failures are
  `InsertNoMemory`, `InsertNoSlot`, `InsertRetry`, and `Refuse` for NOTUNIQ,
  with `InsertFree` to give the new block back. `HardRealtime` chooses between
  the two builds of the retry.
- *delete*: `DeleteCall`, `DeleteMark` or `DeleteFails`, then the cascade: the
  list of children is made once per object (`todo`), `ReadChild` looks at each
  one in a section of its own and the deletion of a child comes before the rest
  of the list.
- *purge*: `PurgeCall` takes the time, `PurgeNext` frees one slot per section,
  `PurgeReturn` ends the scan.
- `Age` ends the keep time of a deleted object; `Die` kills a process between
  two sections.

Time: a deleted object is `"recent"` until its keep time is over, then `"old"`.
Calls compare keep times with the time they read at their begin, so a call
remembers in `due` which objects were old then. That stands for all clock
values, except that an object whose keep time is over becomes `"old"` at a
moment of its own choosing. The fields of a freed slot that nobody reads are
left out. Deletion does not notify here; that is RtdbNotify.

### RtdbRegistry: what that implements

A set of objects; ids are new; two live objects of one name exist only if
neither is unique; an object is deleted once; only deleted objects, or objects
that their flag or the death of their process lets go at once, disappear.

### RtdbNotify: waiting for data

One slot with its notification lock and condition variable, owners that
insert, commit and delete, the manager that deletes for a dead owner and
purges, and waiters in `waitnext_until`. The slot is found by id once and then
watched by pointer, so `Insert` after `Purge` gives the waiter another object.
`CommitPrepare` → `Publish` → `DoNotify` is a commit (lock, publish, broadcast
and unlock); `DeleteMark` → `DeletePrepare` → `DoNotify` a delete. A waiter
takes the lock (`WaitPrepare`), reads the header (`FindNewer`, `FindDeleted`,
`FindNothing`) and sleeps, polls or returns; a sleeper leaves by broadcast,
`WakeSpuriously` or `Timeout`, and needs the lock back first. With
`no_notifies` waiters poll and take no lock, while delete still notifies.

Simplifications: a block is its commit time; the header is read in one step,
and `PollOverwritten` lets a poller that meets a commit under way return
HISTWRAP; the objects have no `write_allow`; `Timeout` needs no `wakeup_ts`
because it is never forced to happen.

### RtdbProc: segment, processes, manager

The name in the file system leads to one segment; a process stays with the
segment it has mapped. A step is one system call, one section under `proc_lock`
or one call of the registry, of which only the objects that follow their
process are kept: the database's own, process objects, data of a process,
persistent ones. Whoever touches a segment that has no size (yet, or any more)
dies of SIGBUS: `Fault`; `sized` are those that have one. Two history variables
say what has gone wrong: `shared`, the segments a second manager has opened as new,
and `evicted`, the process ids in slots that `purge_procs` cleared although they
were not its victim's any more.

- *connect*: `OpenShm` (or `NothingThere`), `ManagerAlive` (the wait for
  `manager_alive_ts`), `TakeSlot` (or `NoSlotLeft`), `InsertProcess` (or
  `InsertFails`). Every failure leaves behind what the code leaves behind:
  a connect that fails half-way keeps its slot until its process is dead.
- *disconnect* and the handlers at exit: `Disconnect`, `DeleteNext`,
  `DeleteOwn`, `ReleaseSlot`, `Exit`.
- *manager*: `UnlinkOld`, `OpenNew`, `SetSize`, `InitShm` (shm_unlink, shm_open
  without O_EXCL, ftruncate, memset and counters), `FillDatabase` or `FillFails`,
  `ConnectEnable`; `MainLoop`; `KillProcs`, `DestroyDatabase`, `UnlinkShm`. `purge_procs` looks
  at one slot per step without the lock: `LookAtSlot`, `FoundAlive` or
  `FoundDead`, `DeleteOfDead`, `ClearSlot`. `kogmo_rtdb_man` takes a failed
  connect for "there is no database" and makes one.
- `Crash` ends a process between any two steps; `GoesStale` lets a manager's
  time of life go out of date when no one renews it. A program that starts
  again is another process with another process id, and ids are used once.

### RtdbHeap, RtdbSuba, RtdbTlsf: the allocators

RtdbHeap says what `mem_alloc` and `mem_free` promise: a block is memory of the
heap that nobody else holds. RtdbSuba is `suba.c` with its ring of free cells
in the order of addresses, first fit, split, and join with either neighbour;
RtdbTlsf is `tlsf.c` with size classes, two levels of bitmaps, lists, and
boundary tags. Headers are kept at their addresses, so a header that is
written at the wrong place is found there or missed. Each call runs under
`heap_lock` and is one step. The constants are the layout (header sizes,
alignment, class widths) scaled down; the arithmetic is the code's.
`TlsfAssumption` says what `tlsf.c` rests on without a test: the pool is made of
words, a class of small blocks is a single size, and nobody asks for more than
the bitmaps have bits for (`malloc_ex` would look behind them).

### RtdbSearch: searching and waiting for metadata

`searchinfo`, its `wait`, `waitnext` and `until` forms and
`lists_nonblocking`, against insert, delete, purge and `changeinfo` of other
processes. The condition variable and the error-checking mutex are those of
`ipc_posix.c`: `UnlockMeta` does nothing when somebody else has the lock,
`LockMeta` of what one owns succeeds. `polling` chooses the emulation that has
neither. `meta_lock` is the mutex; `inside` is who believes to hold it, so the
two can disagree. `FallAsleep` gives back the lock and sleeps in one step, as
`pthread_cond_wait` does; `WakeUp`, `Late` and `SearchTimedOut` end the sleep.
Names are taken together with types; a list is never longer than an id list.

### RtdbRecord: trace and recorder

Owners insert, commit (`BeginWrite`, `CommitWrite`, with the old block already
gone in between) and delete objects; each change then sends a message,
`SendTrace`, which drops it when the queue is full. The recorder starts
(`TraceActivate`, `Drain`, `SearchInitial`, the `Initial...` steps) and then
loops: `CountBefore`, `Receive`, `CountAfter` — the two counts around a receive
that tell of a loss —, `InfoRead` or `InfoLost`, `NoteEvent`, `TraceSlot`,
`PointToSlot`, `CopyFirst`, `CopySecond`, `CheckSlot`, with `DataLost` for
every way to come too late. A block has two halves, so a torn copy shows.

### RtdbPlay: the player

One chunk of the file per step: `TakeChunk` or one of the reasons not to
(`SkipChunk`, `StopAtGoto`, `Ended`), then what the chunk's type asks for:
`Create`, `Refuse`, `Remove`, `Update`, and for images the header and the body
in two chunks (`ImageHeader`, `Image`, `LostData`). `BeginRound`, `EndOfFile`,
`EndRound` are the loop around it; `ReadCtrl` takes over commands, `Paused`
waits. The time index (`IdxAdd`, `IdxLookup`) is built while reading and used
to jump. Positions count chunks, and the pace is left out.

### RtdbPlayCtrl: the control object

Programs read the object (`UpdateCtrl`), change one field and write it back
(`Setting`, `GoToTime`, `Commit`), each at its own time; the player looks
(`Look`) and obeys if the data time differs from last time. `Tick` is the clock,
which in the simulation is the recording's and may stand still; `commit()` then
adds 1 to the time it read, so a block says by `twice` that it was written so.

### RtdbMonitor: calls by UDP

The client begins a call, sends one request at a time and waits (`BeginCall`,
`SendRequest`, `ReceiveReply`, `ReceiveTimeout`); the server answers what
arrives (`ServeList`, `ServeRead`, `ServeWrite`, `ServeInsert`, `ServeDelete`).
A packet that was sent may arrive any number of times, until `MaxDelay` more
requests have been sent. Meanwhile the database changes by itself
(`CommitRemote`, `DeleteRemote`). Data are the number of their commit.

### RtdbFollow: sequences of reads in C++

An owner that commits a status in every cycle and a follower that wants each of
them. A read is `ReadFirst`, `ReadBefore`, `ReadCopy`, `ReadStep`, in between
which the owner may go anywhere; the methods are continuations around it:
`RTDBReadWaitNext` and `RTDBReadWaitSuccessor`, `RTDBReadPredecessor`,
`WaitSuccessiveCycleDone`, and `getData` and `isDataValid` of an image, which
keep a pointer into the ring from call to call. One reading of a commit time is
one step (its words are in RtdbRing), and no object is purged under the
follower.

## 3. The runs

| Run | Instance | Result |
|---|---|---|
| `obj_read_latest` | one writer by copy and by pointer, killed anywhere; ring of 2, five blocks, reads of the latest | passes: a result with a valid stamp is one whole committed block, no older than the call; the ring keeps its history; valid slots do not change; RtdbHistory is implemented |
| `obj_read_by_time` | ring of 3, four blocks, one delete and re-use, requests around the second block | passes: the block selected satisfies the request and, for the modes "at" and "older", is the nearest |
| `obj_read_public` | two writers of a `write_allow` object, cycle watch 2, a fair reader | passes: whole blocks, in order of commit time, and every read of an object with data returns |
| `obj_meta_hard` | hard real-time build, manager and one process, 3 slots, 2 heap blocks, 4 objects of 3 kinds, one kill | passes: ownership and accounting of memory, lock released, cascade complete, keep time kept, RtdbRegistry implemented |
| `obj_meta_posix` | default build, manager and two processes, 2 slots, 3 blocks, 3 objects of 2 kinds, one kill | passes: uniqueness though two inserts race (`UniqueIsUnique`), ownership and keep time (`RegistryIsKept`), even with the lock a failing insert leaves locked |
| `notify_wait` | two waiters, one owner that may be killed, 2 objects, 2 commits; blocking or polling | passes: no wakeup lost, a wait that ends on data ends on newer data, and commits and deletions end waits |
| `parts` | nine parts that share no state, each on its small instance (below) | passes: what follows for each part |
| `obj_read_torn`, `obj_read_reuse`, `obj_meta_lock`, `notify_reuse`, `proc_dead` | | violated: section 5 |

**What the properties say.** The comment before each says which lines it is
about. Some are conjunctions of named parts, so that a run states its question
in one property:

- *Ring and reader*: `BlocksAreKept` (a result with a valid stamp is one whole
  block, and the ring keeps its history), `LatestIsFresh`, `ValidSlotIsFrozen`,
  `HistoryIsServed` (the right block by time, `SelectedByTime`, and history
  kept), `WritersAreOrdered` (whole blocks in the order of commit times),
  `EveryReadReturns`, `ImplementsHistory`. "Valid stamp" means that neither
  word of the time returned is 0; what happens otherwise is section 5.
  `SelectedByTime` compares with the blocks committed before the call if the
  ring still belonged to the same object then.
- *Registry*: `UniqueIsUnique` (checked with two processes, whose inserts overlap;
  in `obj_meta_hard` a single process inserts beside the root),
  `BlocksHaveOneOwner`, `MemoryIsAccounted` (no
  block is lost, and the count of free slots promises no more than there are),
  `LockIsReleased`, `NoChildLeftBehind`, `KeepTimeIsKept`, `ImplementsRegistry`.
- *Waiting*: `NoLostWakeup`, `NewerUntilRead`, `WaitsEnd` (a commit ends a wait,
  and so does a deletion).
- *Connections*, where `purge_procs` decides without `proc_lock`: the properties say
  how far its mistakes go. `SlotsAreRight`: every connected process has exactly
  one slot, unless its slot was cleared for the process that had it before; the
  count of free slots is true, unless a slot was cleared that was free already
  and so counted twice (`housekeeping.c:135`). `NothingLeftBehind`: no object
  outlives its process's slot, with the same exception. `LivingKeepTheirObjects`:
  no step deletes a persistent object, or objects of somebody else who lives,
  but a purge whose slot has changed hands. `ReadyBeforeEntered`: nobody works
  in a segment that is still being made, sized or filled. All of them speak of
  segments that one manager only has opened (`OwnSegs`): a second one between
  the first one's shm_unlink and shm_open clears what is there (section 5).
- *Allocators*: `FreeMemoryIsListed` (no memory lost, free memory joined and
  found where the next call looks), `HeapsAreHeaps` (RtdbHeap is implemented).
- *Search*: `MetaLockIsExclusive`, `SleepersMissNothing`.
- *Recorder*: `RecordedBlocksAreWhole`, `LossIsNoticed`, `NoObjectIsMissed`.
- *Player*: `MapIsExact` (what the player made is what its map says),
  `PlaybackIsFaithful` (without a jump, the objects that live in the recording at
  this position are there, each with its last data and below the object of its
  parent, and no others), `LookupIsNear` (of what a jump leaves out, only the
  chunk right before its goal can be an interval or more later than the time
  asked for; nothing behind the goal is an interval or more earlier),
  `CommandsAreObeyed` (a goto is carried out once, and a
  command made from the block the player knows is noticed).
- *Monitor*: `AnswersAreTrue` (what a call returns was true during the call).
- *Follower*: `NothingIsSkipped` (neighbours are neighbours, and no finished
  cycle is passed over without an exception), `ValidImageIsOneBlock`.

**Bounds, and why they suffice.**

- *Rings* of two slots are lapped by three blocks; with four or five blocks
  (`MaxBlocks`) a reader can be lapped in its scan and again in its copy. Three
  slots are the least in which a walk has a middle. `MaxReuse = 1` lets one
  object inherit a ring. More laps repeat states up to serial numbers.
- *Times.* `LowBase = 4` stands for 2^32, and `MCTime4`, `MCTime5` (5 .. 8 and
  5 .. 9) cross from high word 1 to 2 with low words 0 to 3, a zero low word
  among them: the torn readings that matter are those where both words change.
  `ClockStep = 1` says that two readings of the clock differ; where they do not,
  section 5. `Body = {}` in most runs since `size` and `data_ts` already are
  two words a copy can mix up. `DataTimes = {0,6}` has blocks with and
  without a data time of their own.
- *Cycle watch* `MinCycle = 2` in the public run: the least that separates two
  writers who both took the time before waiting for the lock.
- *Registry.* Three slots and two blocks make both tables run out, in both
  orders; three kinds cover every flag the code branches on. With four ids a
  parent, a child and a re-used slot coexist. `MaxDrift` lets the count of free
  slots fall one below the truth. The manager inserts the root only, as
  at start up.
- *Notify.* Two objects are what re-use needs; two commits what "newer than
  the one before" needs; two waiters compete with each other and with the
  owner for the lock.
- `MaxDeaths = 1`: one killed process already leaves every lock and
  intermediate state behind.
- *Connections.* Three casts: both clients and one manager in the hard real-time
  build; one client and a manager that is started twice in the default build;
  two managers. Two segments are what an ended and a new database need, two
  slots run out (the manager has none), and one crash and four process ids
  are enough for a slot to change hands twice under `purge_procs`, also for its
  process to disconnect and end between the look and the `kill(pid, 0)`: the
  first cast has that, with the new owner of the slot evicted, and the slot free
  and counted twice. In the third cast a manager opens the segment that the
  other one has just made, at every step of both.
- *Allocators.* A heap of 36 bytes holds a handful of the blocks asked for (1, 4, 5
  bytes: below, at and beyond the least cell), one of 100 bytes blocks of three
  size classes; both run out and come back to one piece.
- *Recorder.* Queue, ring and (in `parts`) the table of known objects are at
  their limits with 2, 2 and 1; two sessions, one object with three commits and
  a deletion, or two objects with two commits each.
- *Player.* Two files: gaps, the deletion of an object with its child and that
  one's child while a fourth object stays; and two sequences of images, with an object
  that is told of before its parent. They are `FilesAreRecordings` and `FilesInOrder` (section 4), as
  `MCFilesAreFaithful` asserts. Two sets of options, four commands, three of them
  written and three rounds played. *Control*: two programs, three writes, three
  readings of the clock.
- *Search.* Two searchers of two calls each, one changer, two slots, two ids;
  both builds. *Monitor*: serial numbers modulo 2 and packets that one request
  may overtake — the tightest that `MaxDelay < SERIALS` allows —, three
  requests, three objects, two versions. *Follower*: a ring of three and four
  blocks, so that it can be lapped.

Symmetry (processes other than the manager, and heap blocks) is used in the
registry's runs only, which check safety and a step-wise refinement.
`CHECK_DEADLOCK FALSE` stands in `ObjMetaPosix` and `ObjMetaLock`, where an
insert that leaves `objmeta_lock` locked really stops everyone once its process
is killed, and in the notify runs, where ids and commits are bounded and the
only owner may be dead while the waiters sleep. It also stands in `Parts` and
`ProcDead`, whose parts come to their end when files, requests, starts and
commits are used up.

**Fairness.** Safety runs, `parts` among them, assume none.
`obj_read_public` assumes weak fairness of the steps of a call already begun (a runnable thread is scheduled); no call,
writer or crash is forced, so the reader finishes by itself.
The notify runs assume strong fairness per thread for the steps that carry a
call on. No section
under the notification lock blocks, so the lock is free again and again, and a
thread that queues in `pthread_mutex_lock` gets it then (in the hard real-time
build the mutexes also inherit priorities, `ipc_posix.c:516`). This is an
assumption about the scheduler, not something the library enforces.
No timeout, no spurious wakeup,
no new call and no purge is ever forced, so a wait that ends does so because of
the commit or the deletion. `LockOrphaned` and a killed deleter are named as
the only excuses: the mutexes are not robust.

## 4. What is proved

Every safety invariant and every action property of the passing runs is the
statement of a theorem, and so are the refinements of RtdbHistory, RtdbRegistry
and RtdbHeap (RtdbHeap by both allocators); a run shows each of them on a small
instance, the theorem for every value of the constants that the named
assumptions of the modules admit. None of these bounds a number of processes,
slots, blocks, messages, chunks or times. They are:

- `ConstantsAssumption`, `RequestsAssumption`, `ObjMetaAssumption`,
  `NotifyAssumption`, `SearchAssumption`, `RecordAssumption`,
  `PlayCtrlAssumption`, `FollowAssumption`: the constants have their types, and
  processes are distinct from each other and from "nobody". `ProcAssumption`:
  besides, there is a connect number for the manager.
- `MonitorAssumption`: a packet is gone before its number comes again
  (`MaxDelay < SERIALS`), and there is room for the two objects of the start.
- `PlayAssumption`: in a file the data of an image follow right after their
  header, as `record.c:762-777` writes them.
- `SubaAssumption`: a heap holds its first cell. `TlsfAssumption`: section 2.

Where a theorem has a hypothesis of its own it is named here.

**Reading without a lock** (`RtdbObjReadProofs`). The invariants are built on
each other.

- `TypeCorrect`: `TypeOK /\ HasCandidate`; a reader that copies must have chosen
  a slot, or it would read slot -1.
- `ValidSlotsFrozen`, `HistoryAlwaysKept` rest on `RingInv`: one
  writer at a time is inside the ring (`OneWriter`: the object lock, or there is
  only one), and what the words of every slot are at every place a writer can
  be (`PlacesOK`, `StampsOK`, `KeptOK`, `FreeOK`, `WritersOK`). No hypothesis.
- `WritersOrdered` adds `OrderOK`, the order of commit times. It needs `Serial`:
  the clock goes on between two readings (`ClockStep > 0`), and an object that
  several write has the cycle watch on and times of at least 2^32 ns. Without
  the watch the order is violated (section 5).
- `BlocksKept` and `Served` add `ReadersOK`: for a reader in each of its steps,
  which block each word it has was read from. The search passes only blocks
  that are overwritten or about to be (`WalkOK`, `ChosenOK`). The two words of
  the time after the copy are read in the other order than before it
  (`HighRead`, `PairRead`, `LowAgain`): if both pairs are equal and neither word
  is 0, they are of one block, because commit times never repeat, and then so is
  everything copied in between (`Answered`).
- `AlwaysFresh` and the refinement `HistoryImplemented` need `MaxReuse = 0`
  besides: where the ring is handed on to another object, the reader of that
  one may be given its predecessor's block (section 5). The refinement goes
  action by action: `MakeCurrent` and `PublishHigh` are steps of RtdbHistory,
  `ReadBegin` and the end of a read are, all others stutter, since what a
  finished call was told (`Told`) does not depend on later commits.

**The registry** (`RtdbObjMetaProofs`).

- `UniqueAlways` and `OwnersAlways`, both builds, any interleaving. `IInv`: the
  shape of slots and of calls, `Phases` (which call holds a block in which
  phase), and the two properties. That uniqueness survives rests on checking it
  in the same section that stores the object.
- `LifeInv` says what ids in slots and in local variables may be, who has which
  slot, and that what a call took for old is old. From it: `KeepTimeAlways`,
  `TypeAlways`, and the refinement `RegistryImplemented`, where an insert
  happens in `InsertClaim` or `InsertKept`, a delete in `DeleteMark`, a purge in
  `PurgeNext` or the re-use of a kept slot, and all other steps stutter;
  `RegistryKept` follows from `OwnersAlways` and `KeepTimeAlways`.
- `CascadeAlways` from `CascadeInv`: a child that is to go with its parent is on
  the list of the call that deleted it, that call may delete it
  (`DoomedDepend`), and it leaves the list only by being deleted.
- `FreeAlways`: the count of free slots never promises too much, both builds.
- `LockAlways` and `MemoryAlways` have the hypothesis `HardRealtime`: in the
  other build an insert that fails leaves the lock locked and a block lost
  (section 5, 1).

**Waiting** (`RtdbNotifyProofs`). `TypeAlways`, `NothingSleptThrough`,
`NewerAlways`. `IInv` adds to the types and the two properties: who is between
lock and unlock owns the lock (`LockDiscipline`), only an owner commits
(`OwnersCommit`), and calls are of ids already given away
(`CallsAreOfObjects`). The check and the falling asleep are under the lock that
the committer holds from before the publication until after the broadcast. For
deletion, which is marked before the lock is taken, the broadcast is still to
come.

**Connections** (`RtdbProcProofs`).

- `EntryAlways` from `EntryInv`: a manager fills its segment in the order of
  stages (`SegStages`, `OneDriver`), and whoever is beyond the wait saw a time
  of life that is written last.
- `SlotsAlways`, `LeftAlways`, `LivingAlways`, `DeadAlways` from `ProcInv`, which
  adds who holds which slot (`SlotIds`, `Holders`), that a process id is one
  process's (`IdsAreUnique`), whose objects there are (`OwnObjects`), and what
  `purge_procs` remembers (`Purging`). The invariant speaks of the segments in
  `OwnSegs`, and excepts who is in `evicted`. No hypothesis: the processes may end
  between look and kill, and managers open each other's segments. `DeadAlways`
  is about `DeadUnlessMisled`: what a purge is about to delete belongs to nobody
  who is connected, as long as the slot still has the process that was found dead. Run
  `proc_dead` shows that without that condition it is not so.
- `ProcTyped`: types of all segments, from a shape and bounds (`ProcBounds`) of their own.
  `proc_free` is any integer there: the count may leave 0 .. `ProcMax`.

**Searching** (`RtdbPartsProofs`). `SearchLockIsExclusive`,
`SearchersMissNothing`, `SearchTyped`. `SearchInv`: who is inside is the one who has locked
(`HolderIsInside`), and a searcher in the steps between lock and unlock has the
lock (`SearchersHoldIt`). The second unlock of a wait that ran out of time is
harmless because the mutex refuses it; only a wait on the operating system's
variable runs out of time.

**Network** (`RtdbPartsProofs`). `CallsAreAnswered` and `MonitorTyped`.
`MonitorInv`: the database
is well formed, packets are not older than `MaxDelay` (`PacketsAreRecent`), the
state remembered at the begin of a call bounds what can be seen since
(`CallSees`), and every reply is true of its request (`RepliesAreTrue`). The
lemma `SerialsDiffer` turns age into serial numbers: two requests less than
`SERIALS` apart have different ones, so the reply that fits is the reply to
this request.

**Recorder and player** (`RtdbRecordProofs`).

- `RecordIsWhole`, `RecordLossIsNoticed`, `RecordMissesNoObject`. `RecordInv`:
  which block is in a slot with a valid time and where the one being written is
  (`RingOK`), that a message names a slot with its block, a younger one or none
  (`MessagesOK`), what the halves of a copy are while the slot still has the
  time it was found with (`CopyOK`), how the trace is on and the queue empty
  before anything is recorded (`StartOK`), what is in the file, and two of the
  properties. `RecordTyped` adds the bounds of the counts.
- `CtrlIsObeyed`. `CtrlInv`: block numbers grow, copies are never newer than the
  object, and one of the same number has its data time (`CopiesAreOld`), the
  player remembers the time of the block it looked at (`TimeIsRemembered`), and
  what it obeyed is past (`ObeyedIsPast`). `CtrlTyped` follows from it.
- `MapAlwaysExact`, `PlayTyped`: the map and the database change together, and an
  object is made only for a source that is mapped to none.
- `PlayedFaithfully`: the database after a prefix of the file, chunk by chunk, in a
  round without a jump in which nothing was refused. A source is mapped from its
  birth to its own deletion, though what it is mapped to may be gone earlier, with
  an object above it (`MappedOK`); objects are below those that stand for their
  parents (`ParentsOK`), so that the cascade of a deletion takes those that the
  file lets go with it (`DeletedBy`); the header in memory is that of the image to
  come (`HeaderOK`); and `ShownOK` is the property. The hypothesis
  `FilesAreRecordings` says that the file tells whole lives: information about
  an object before its data (`record.c:700-711`), a parent that was told of
  before still lives then, and nothing about an object after its own deletion. A
  child may be told of before its parent: insert sends its message when it has
  released `objmeta_lock` (`objmeta.c:563-568`), and the child's may overtake it.
  Such a child is made below the player itself and outlives its parent, and the
  property says so (`FirstBelow`, `BornBelow`). Not covered are files in which the
  message of a delete has overtaken that of the insert, or of a last commit.
- `LookupAlwaysNear`. `IndexInv`: an entry leads behind the first chunk of its
  interval - hence the one chunk that may be left out although it is late -, and everything before it is in the index (`EntryOK`, `SeenUpTo`);
  what has been played in a round has been indexed; and a round that starts
  among chunks never indexed starts at the beginning or beyond the end that was
  asked for (`UnseenIsBehindEnd`), so that it is over at once. The
  hypothesis `FilesInOrder` says that the chunks are in the order of their
  times. The recorder writes them in the order of the trace, in which messages
  of different owners may change places; by what they are apart then, a lookup
  may be off.

**Sequences of reads** (`RtdbFollowProofs`).

- `FollowTyped` and `ConfirmedImageIsOneBlock`. `FollowInv`: which block each slot
  of the ring holds (`BlocksOK`), what handle, pointer and image are (`HandleOK`,
  `PointerOK`, `ImageOK`), and that once something else than the block of the
  handle was seen through the pointer, that block is gone for good (`UsedOK`),
  so that a confirmation after the looks covers all of them.
- `NothingSkipped` from `WalkInv`: which blocks are in the ring, and that a walk
  towards a block that is still there meets those after it one by one; whoever
  sees the old block after the walk has therefore passed over none.

**Allocators** (`RtdbHeapProofs`). Both proofs see the heap as a set of addresses
where pieces begin and a function that says where each ends.

- `SubaTyped`, `HeapIsCells`, `FreeListIsARing`, `SubaImplementsHeap` for `suba.c`
  from `HeapInv`: free and held cells are a row, each beginning where the one
  before it ends, from the first address to the end of the heap (`Row`); the
  free ones are in the order of their addresses and the last, `tail`, leads back
  to the first (`Ring`); no free cell ends where another begins (`Apart`), which
  is what joining with either neighbour keeps; and what was given is the data of
  a held cell, large enough (`GivenOK`). The loops of the code end at `tail`
  because a walk along the ring goes up: this is an induction over the number of
  steps, made with the least counterexample (`LeastNat`, `InductionUpTo`).
- `TlsfTyped`, `BlocksAlwaysARow`, `BitmapsAlwaysShow`, `TlsfImplementsHeap` for
  `tlsf.c` from `TlsfInv`: the blocks are a row in which no two free ones are
  neighbours and every block says whether, and where, the one before it is free
  (`Tagged`); each free block is once in the list of its class, no other is, and
  the bitmaps have the bits of the lists that are not empty (`ListsShow`); what
  was given is large enough (`BlocksGivenOK`). That it is rests on the rounding of
  the size that is looked for: it begins a class (`BeginsClass`), and what is in
  that class or a later one is no smaller (`NotBefore`). Powers of two come from
  a table (`Pow2`), since the prover has no exponentiation.

**All parts** (`RtdbPartsProofs`). `PartsAreParts`: a behaviour of the run `parts` is
one of each of the nine specifications at once, since the others stand still.
So the theorems of the parts are theorems of the run; three of its properties
are conjunctions over several parts: `PartsTyped`, `FreeMemoryAlwaysListed`, `HeapsImplementHeap`.

**Only model-checked**: liveness under fairness - `EveryReadReturns`, `WaitsEnd` -
which the prover cannot do. The induction theorems of the library with an
operator as a parameter cannot be used either; where induction is needed the
proofs take a least element.

**What proving found in the models.** Two arms of a CASE in RtdbSuba overlapped
where the ring has a single cell, which is before and behind every other; TLC
took the first arm, the proof could not choose. Three assumptions admitted
instances in which a property does not hold: `TlsfAssumption` small classes of
more than one size, `ProcAssumption` a manager without a connect number,
`MonitorAssumption` a database with less room than its start needs. All four
are corrected.

## 5. Disagreements with the documentation

Each has a run in which TLC finds the statement violated.

1. **Lock left locked** (`obj_meta_lock`). `objmeta.c:425` says "non-real-time:
   when we are out of memory or slots run a purge and retry once". The retry is
   a `continue` inside `do { } while(0)`, which leaves the loop: nothing is
   purged, nothing is retried, and line 524 returns OUTOFOBJ with
   `objmeta_lock` locked and a new block lost.
2. **A waiter that waits for ever** (`notify_reuse`). `objmeta.c:669` "inform
   listeners". A waiter recognises deletion by `deleted_ts` of its slot
   (`objdata.c:853`). If the slot was purged and re-used before it looks, it
   takes the new object for its own without data yet and sleeps on.
3. **Overwritten but not reported** (`obj_read_torn`). `funcs.h:428` "While
   reading this object, the data has been overwritten". A reader lapped between
   the two words of the commit time, before and after its copy, sees the same
   plausible time twice (zero low word) and returns success with a mixture.
   Stated with "neither word is 0", the promise holds; that is
   `ValidStampIsWholeBlock`.
4. **A predecessor's data** (`obj_read_reuse`). `funcs.h:425` NOTFOUND: "no
   data block (not yet or size=0)". `objdata.c:415` compares the address of the
   slot number with 0 instead of its value, so `history_slot = -1` is
   not recognised, and a re-inserted `keep_alloc` object returns the last block
   of the object before it.
5. **Objects of the living deleted for the dead** (`proc_dead`).
   `housekeeping.c:115` says "dead process has %i objects to delete". Between
   reading a slot's process id (line 92) and searching for the objects of its
   `proc_oid` (line 108), nothing keeps the slot from changing hands. A process
   that disconnects and ends there leaves it to another one, whose objects are
   deleted while it lives - or empty, and a search for `proc_oid` 0 finds the
   objects of everybody. The window is the time between the read and `kill`.

Also seen, without a run of their own. Stated in a module and found violated by
TLC, but contradicting no line of the documentation, or a message only:

- `SizeIsOfBlock` and `YoungerIsNearest` in RtdbObjRead: the size is read after
  the check (`objdata.c:792`); the search for a younger block stops at a slot
  being overwritten (`objdata.c:661`).
- `SelectedByTime` in RtdbObjRead without its condition on re-use: if the object
  was deleted and inserted again in its ring between `ReadBegin` and the scan,
  the search passes a slot that was overwritten and returns a block older than
  one committed before the call. It is a block of the predecessor (4 above).
- `DeleteNeverInserts` in RtdbMonitor: a remote delete that did not get the
  time sends 0 (`libkogmo_rtdb_udpmon.c:388`), which the server takes for an
  insert (`udpsimpleserver.c:250-253`).
- `EveryCommandIsNoticed` in RtdbPlayCtrl: of two quick commands in a pause the
  second can get the time of the first (`system_classes.hxx:49-58`,
  `qrtdbplaymain.ui.h:175-181`).
- `EveryValidImageIsOneBlock` in RtdbFollow: a `getData` that throws HISTWRAP
  has moved the pointer and not its time, so the next one confirms the wrong
  block (`system_classes.hxx:653-658`).

- `EventsWrittenAreInTheFile` in RtdbRecord: the recorder says at its end that
  it "wrote ... events" (`record.c:793`). The length that line 713 tests before
  it writes any chunk is that of the data read for the last update; while it is
  0, at the start and after an update whose data were lost, insertions and
  deletions are counted at line 698 and not written.

- `LookupIsNear` would be false of the chunk before the position that a jump leads to:
  the index keeps the position after the chunk of an entry (`play.c:446, 621`;
  `skip_pos` at 673 is that of the chunk itself), so a jump always leaves this
  chunk out, and after a gap in the recording it can be of any later time. In
  the first file of the run, a goto to 8 begins behind the data of time 15.
- In RtdbProc: a purge whose slot has changed hands clears the slot of a living
  process, or counts a free one a second time (`housekeeping.c:131-136`); the
  process works on without a slot, and its objects outlive it. And of two
  managers that start at once - each takes its failed connect for "no database",
  `man.c:153` - the second may open what the first has just made, cut it to
  size 0 under whoever has mapped it, who dies of SIGBUS, and clear it
  (`ipc_posix.c:189-202, 347`: shm_unlink, then shm_open without O_EXCL). Clients
  that open a segment before its ftruncate die so too where file modes do not
  keep them out.

Met while reading:

- a polling wait that times out returns the result of its last read and not
  TIMEOUT (`objdata.c:884`, `funcs.h:663`);
- the count of free slots drifts down with every NOTUNIQ (`objmeta.c:471`); the
  free that follows a failed allocation is one of index -1, which the heap
  refuses;
- `findmeta_byid` with id 0 finds a free slot (`helpers.c:41`); an object
  inserted under a parent already deleted is never deleted with it;
- the check whether a parent is gone is inverted for searches in the past
  (`objmeta.c:212`); an id list that is full is one longer than its type
  (`objmeta.c:188, 222`);
- `purgeslot` takes `heap_lock` under `objmeta_lock` against `locklist.txt:42`
  (nobody takes them the other way round); EDEADLK counts as success
  (`ipc_posix.c:562`);
- several writers without cycle watch may commit out of order, because the clock
  is read before the lock is taken (`objdata.c:51, 81`);
- TRYNOWAIT still waits for the manager's time of life (`ipc_posix.c:284-289`);
- a remote delete is always reported as failed (`libkogmo_rtdb_udpmon.c:157`);
- the player goes on using `rtdbchunk` after the buffer it points into was
  enlarged or re-used for image data (`play.c:445-449, 568-578`);
- `RTDBReadYounger` and `RTDBReadOlder` search by commit time, but the time
  they begin at by default is the data time (`obj_base_classes.hxx:486-532`);
  after HISTWRAP in `RTDBReadWaitNext` the handle keeps the new commit time.

## 6. What is not modelled, and why

`PROJECT.json` lists every component with its status and, for those that are
partly modelled, what is missing. Not at all: time conversion, printing and
command line tools, type headers, video file conversion, viewers, examples and
tests, which keep no shared state. Of the modelled components are left out:

- *Data*: an administrator who writes into somebody else's object without its
  lock; blocks shorter than `size_max`; `withhold_stale`; two commits of one
  process at the same time, and a pointer into the ring that outlives the
  object (it needs ring and registry in one model);
  `readdataslot_relative`, which only an example calls.
- *Metadata*: searches at a time in the past, and readers that look at a slot
  without the lock while it is being filled.
- *Waiting*: `write_allow` objects, where several processes notify, and what a
  polling wait returns at its timeout.
- *Manager*: option `-k`, daemonizing, statistics. In RtdbObjMeta the manager has one
  thread: its purge of objects and its deletes for dead processes take turns,
  while in the hard real-time build the check thread deletes beside the purge of
  the main loop (`man.c:220-237, 291-306`). Deletes of other processes interleave
  with the purge there, in the same sections.
- *Recorder and player*: images and size limits of the recorder's file, its
  statistics object; the player's pace and steps by frames.
- *Network*: packets cut short, compression, thinning of images.

Weaker memory models than program order are outside (see RtdbRing), and so is
liveness other than that of readers and waiters: recorder, player and monitor
wait for the outside world, and the manager's loop rests on timers.

## 7. What is left

Most important first:

1. RtdbRing composed with RtdbObjMeta: a writer whose ring is freed and given
   to another object.
2. An instance of RtdbRing whose clock stands still (`ClockStep = 0`).
3. Recordings in which the message of a delete has overtaken others: what of
   `PlaybackIsFaithful` remains without `FilesAreRecordings`.
4. The check thread of the manager as a process of its own in RtdbObjMeta.

## 8. Running it

In this directory, `tlc -workers 2 -config ObjMetaHard.cfg MCRtdbObjMeta` runs a
model (the module and cfg of every run are in `PROJECT.json`), and
`tlapm RtdbObjMetaProofs.tla` checks the proofs of a module; there are eight:
`RtdbObjReadProofs`, `RtdbObjMetaProofs`, `RtdbNotifyProofs`, `RtdbProcProofs`,
`RtdbHeapProofs`, `RtdbRecordProofs`, `RtdbFollowProofs` and `RtdbPartsProofs`,
which extends the four before it. The longest runs,
`ObjMetaPosix` and `Parts` with 1.5 million distinct states each,
take about two minutes each.
