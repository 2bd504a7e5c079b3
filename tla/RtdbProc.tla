------------------------------ MODULE RtdbProc ------------------------------
(***************************************************************************)
(* Who is connected: the shared memory segment of a database, its manager, *)
(* the process slots, and the objects that follow their process            *)
(* (kogmo_rtdb_obj_local.c, kogmo_rtdb_ipc_posix.c, kogmo_rtdb_man.c,      *)
(* kogmo_rtdb_housekeeping.c).                                             *)
(*                                                                         *)
(* The name in the file system leads to one segment; processes stay with   *)
(* the segment they have mapped, whatever becomes of the name.  A step is  *)
(* one system call, one section under proc_lock or one call of the object  *)
(* registry (RtdbObjMeta); the calls that fill and that destroy a database *)
(* are one step each.  purge_procs looks at the slots without the lock, so *)
(* each of its looks is a step, and the slot may change hands in between.  *)
(*                                                                         *)
(* A process that starts again is a new one, with a new process id; ids    *)
(* are not used twice.                                                     *)
(***************************************************************************)
EXTENDS Integers, FiniteSets

CONSTANTS
  Clients,       \* programs that use the database
  Managers,      \* runs of kogmo_rtdb_man
  NoWaiters,     \* clients that connect with TRYNOWAIT
  NoSeg,         \* no segment
  Segs,          \* segments
  ProcMax,       \* process slots in a segment
  Casts,         \* bound: how often each process is started, by build
  MaxObjects,    \* bound: objects clients insert
  MaxCrashes,    \* bound: processes that die without disconnect
  MaxConnects    \* bound: process ids given away in a segment

ASSUME ProcAssumption ==
  /\ Clients \cap Managers = {} /\ NoWaiters \subseteq Clients /\ NoSeg \notin Segs
  /\ IsFiniteSet(Segs) /\ ProcMax \in Nat \ {0}
  /\ Casts \subseteq [hard : BOOLEAN, starts : [Clients \cup Managers -> Nat]]
  /\ {MaxObjects, MaxCrashes} \subseteq Nat /\ MaxConnects \in Nat \ {0}   \* the manager has number 1

VARIABLES
  name,      \* the segment that shm_open finds
  shm,       \* the content of each segment
  cast,      \* the build and the starts of this behaviour
  pc,        \* what each process does next
  lives,     \* how often it was started
  seg,       \* the segment it has mapped
  oid,       \* its proc_oid there
  todo,      \* the objects it is about to delete
  scan,      \* purge_procs: the slot it looks at
  victim,    \* purge_procs: the process id it read
  made,      \* objects clients inserted
  crashes,   \* processes that died
  sized,     \* the segments that have their size; to touch others is a SIGBUS
  shared,    \* history: the segments a second manager has opened as new
  evicted    \* history: by segment, the proc_oids (0: none) in slots purge_procs
             \* cleared although they were not the victim's any more

marks == <<sized, shared, evicted>>
procVars ==
  <<name, shm, cast, pc, lives, seg, oid, todo, scan, victim, made, crashes, marks>>

Processes == Clients \cup Managers
Slots == 1 .. ProcMax

\* KOGMO_RTDB_HARDREALTIME is defined.
hard == cast.hard

\* Process ids, and who has one: process p in its n-th life.
Pid(p) == <<p, lives[p]>>
Alive(p) == pc[p] # "dead"
LivingPids == {Pid(p) : p \in {q \in Processes : Alive(q)}}

NoPid == <<NoSeg, 0>>
FreeSlot == [proc_oid |-> 0, pid |-> NoPid]

\* An object is its owner and what it is: "root", "processes" and "rtdb", which the
\* manager makes and which go together; a process object; data, or data with the flag
\* persistent.
DataKinds == {"data", "persistent"}
ObjKinds == {"database", "process"} \cup DataKinds
Obj(o, k) == [owner |-> o, kind |-> k]
Database == Obj(1, "database")

\* What shm_open with O_TRUNC, ftruncate and memset leave: zeroes.
Blank ==
  [made |-> FALSE, readable |-> FALSE, manager_alive_ts |-> "zero", ready |-> FALSE,
   proc |-> [i \in Slots |-> FreeSlot], proc_free |-> 0, proc_oid_next |-> 0,
   objs |-> {}, manager |-> NoPid]

FreeSlots(s) == {i \in Slots : shm[s].proc[i].proc_oid = 0}

\* Segment r when a process has taken slot i, and when those in some slots are gone.
Taken(r, i, pid) ==
  [r EXCEPT !.proc[i] = [proc_oid |-> r.proc_oid_next, pid |-> pid],
            !.proc_oid_next = r.proc_oid_next + 1, !.proc_free = r.proc_free - 1]
Released(r, gone) ==
  [r EXCEPT !.proc = [i \in Slots |-> IF i \in gone THEN FreeSlot ELSE r.proc[i]],
            !.proc_free = r.proc_free + Cardinality(gone)]

ProcInit ==
  /\ name = NoSeg
  /\ shm = [s \in Segs |-> Blank]
  /\ pc = [p \in Processes |-> "dead"]
  /\ cast \in Casts
  /\ lives = [p \in Processes |-> 0]
  /\ seg = [p \in Processes |-> NoSeg]
  /\ oid = [p \in Processes |-> 0]
  /\ todo = [p \in Processes |-> {}]
  /\ scan = [m \in Managers |-> 1]
  /\ victim = [m \in Managers |-> NoPid]
  /\ made = 0
  /\ crashes = 0
  /\ sized = {} /\ shared = {} /\ evicted = [s \in Segs |-> {}]

GoTo(p, place) == pc' = [pc EXCEPT ![p] = place]

\* Process p is gone, with its maps.
Ends(p) ==
  /\ GoTo(p, "dead")
  /\ seg' = [seg EXCEPT ![p] = NoSeg]
  /\ oid' = [oid EXCEPT ![p] = 0]
  /\ todo' = [todo EXCEPT ![p] = {}]

\* A connect has failed.  kogmo_rtdb_man takes that for "no database" and goes on
\* to make one; a client gives up.
Refused(p) ==
  /\ GoTo(p, IF p \in Managers THEN "create" ELSE "off")
  /\ oid' = [oid EXCEPT ![p] = 0]

-----------------------------------------------------------------------------
(* kogmo_rtdb_connect of a process that is not the manager - or not yet: the *)
(* manager program first looks for a database with a connect of its own.     *)

Start(p) ==
  /\ pc[p] = "dead" /\ lives[p] < cast.starts[p]
  /\ lives' = [lives EXCEPT ![p] = @ + 1]
  /\ GoTo(p, "open")
  /\ UNCHANGED <<name, shm, cast, seg, oid, todo, scan, victim, made, crashes, marks>>

\* shm_open, and fstat where file modes are honoured.
Connectable == name # NoSeg /\ (hard \/ shm[name].readable)

OpenShm(p) ==
  /\ pc[p] = "open" /\ Connectable
  /\ seg' = [seg EXCEPT ![p] = name]
  /\ GoTo(p, "alive")
  /\ UNCHANGED <<name, shm, cast, lives, oid, todo, scan, victim, made, crashes, marks>>

\* CONNDENY; without TRYNOWAIT the program sleeps and tries again.
NothingThere(p) ==
  /\ pc[p] = "open" /\ ~Connectable /\ p \in NoWaiters \cup Managers
  /\ Refused(p)
  /\ UNCHANGED <<name, shm, cast, lives, seg, todo, scan, victim, made, crashes, marks>>

\* The wait for the manager's first loop; nobody asks for TRYNOWAIT here.  Then
\* the segment is mapped, unless the manager has not been heard of for long.
AliveUnchecked(p) ==                                              \* a mutant
  /\ pc[p] = "alive"
  /\ GoTo(p, "slot")
  /\ UNCHANGED <<name, shm, cast, lives, seg, oid, todo, scan, victim, made, crashes, marks>>
ManagerAlive(p) ==
  /\ pc[p] = "alive" /\ shm[seg[p]].manager_alive_ts # "zero"
  /\ IF shm[seg[p]].manager_alive_ts = "stale" THEN Refused(p)
     ELSE GoTo(p, "slot") /\ UNCHANGED oid
  /\ UNCHANGED <<name, shm, cast, lives, seg, todo, scan, victim, made, crashes, marks>>

\* The first free slot is taken with a process id never used before, under
\* proc_lock.
TakeLastSlot(p) ==                                                \* a mutant
  LET s == seg[p] i == CHOOSE j \in Slots : j = ProcMax IN
  /\ pc[p] = "slot" /\ FreeSlots(s) # {} /\ shm[s].proc_oid_next < MaxConnects
  /\ oid' = [oid EXCEPT ![p] = shm[s].proc_oid_next]
  /\ shm' = [shm EXCEPT ![s] = Taken(shm[s], i, Pid(p))]
  /\ GoTo(p, "insert")
  /\ UNCHANGED <<name, cast, lives, seg, todo, scan, victim, made, crashes, marks>>
TakeSlot(p) ==
  LET s == seg[p] IN
  /\ pc[p] = "slot" /\ shm[s].proc_oid_next < MaxConnects
  /\ \E i \in FreeSlots(s) :
       /\ \A k \in FreeSlots(s) : i <= k
       /\ shm' = [shm EXCEPT ![s] = Taken(shm[s], i, Pid(p))]
  /\ oid' = [oid EXCEPT ![p] = shm[s].proc_oid_next]
  /\ GoTo(p, "insert")
  /\ UNCHANGED <<name, cast, lives, seg, todo, scan, victim, made, crashes, marks>>

\* OUTOFOBJ
NoSlotLeft(p) ==
  /\ pc[p] = "slot" /\ FreeSlots(seg[p]) = {}
  /\ Refused(p)
  /\ UNCHANGED <<name, shm, cast, lives, seg, todo, scan, victim, made, crashes, marks>>

\* The process object is inserted below "processes" and written.
InsertProcess(p) ==
  /\ pc[p] = "insert" /\ Database \in shm[seg[p]].objs
  /\ shm' = [shm EXCEPT ![seg[p]].objs = @ \cup {Obj(oid[p], "process")}]
  /\ GoTo(p, "on")
  /\ UNCHANGED <<name, cast, lives, seg, oid, todo, scan, victim, made, crashes, marks>>

\* "processes" is not there, or there is no room for the object.  With LIVEONERR
\* the program gets the error, and a handle it may disconnect with;
\* kogmo_rtdb_man does not.
InsertFails(p) ==
  /\ pc[p] = "insert"
  /\ IF p \in Managers THEN Refused(p) ELSE GoTo(p, "leave") /\ UNCHANGED oid
  /\ UNCHANGED <<name, shm, cast, lives, seg, todo, scan, victim, made, crashes, marks>>

-----------------------------------------------------------------------------
(* A connected process, and kogmo_rtdb_disconnect *)

\* It inserts objects of its own.
CreateObject(p) ==
  /\ pc[p] = "on" /\ made < MaxObjects
  /\ \E k \in DataKinds :
       /\ Obj(oid[p], k) \notin shm[seg[p]].objs
       /\ shm' = [shm EXCEPT ![seg[p]].objs = @ \cup {Obj(oid[p], k)}]
  /\ made' = made + 1
  /\ UNCHANGED <<name, cast, pc, lives, seg, oid, todo, scan, victim, crashes, marks>>

OwnedBy(s, o) == {x \in shm[s].objs : o \in {0, x.owner}}
NotKept(objs) == {x \in objs : x.kind # "persistent"}

\* All objects of the process, found by its proc_oid; persistent ones are kept.
\* kogmo_rtdb_man does so when its check was successful: "Database already exists".
Disconnect(p) ==
  /\ pc[p] = "on"
  /\ todo' = [todo EXCEPT ![p] = NotKept(OwnedBy(seg[p], oid[p]))]
  /\ GoTo(p, "leave")
  /\ UNCHANGED <<name, shm, cast, lives, seg, oid, scan, victim, made, crashes, marks>>

DeleteNext(p) ==
  \E x \in todo[p] :
    /\ shm' = [shm EXCEPT ![seg[p]].objs = @ \ {x}]
    /\ todo' = [todo EXCEPT ![p] = @ \ {x}]

DeleteOwn(p) ==
  /\ pc[p] = "leave"
  /\ DeleteNext(p)
  /\ UNCHANGED <<name, cast, pc, lives, seg, oid, scan, victim, made, crashes, marks>>

\* ipc_disconnect: every slot with the own proc_oid, under proc_lock.
OwnSlots(p) == {i \in Slots : oid[p] # 0 /\ shm[seg[p]].proc[i].proc_oid = oid[p]}

ReleaseSlot(p) ==
  /\ pc[p] = "leave" /\ todo[p] = {}
  /\ shm' = [shm EXCEPT ![seg[p]] = Released(shm[seg[p]], OwnSlots(p))]
  /\ GoTo(p, "off")
  /\ seg' = [seg EXCEPT ![p] = NoSeg]
  /\ oid' = [oid EXCEPT ![p] = 0]
  /\ UNCHANGED <<name, cast, lives, todo, scan, victim, made, crashes, marks>>

\* It is not connected any more and ends.
Exit(p) ==
  /\ pc[p] = "off"
  /\ Ends(p)
  /\ UNCHANGED <<name, shm, cast, lives, scan, victim, made, crashes, marks>>

-----------------------------------------------------------------------------
(* kogmo_rtdb_man *)

\* Connect as the manager.  The name is removed, whoever had it ...
UnlinkOld(m) ==
  /\ pc[m] = "create"
  /\ name' = NoSeg
  /\ GoTo(m, "new")
  /\ UNCHANGED <<shm, cast, lives, seg, oid, todo, scan, victim, made, crashes, marks>>

\* ... a segment of size 0 is made, or the one opened and cut to size 0 that another
\* manager has made under the name since (there is no O_EXCL); that one keeps its mode ...
OpenNew(m) ==
  /\ pc[m] = "new"
  /\ \/ /\ name = NoSeg
        /\ \E s \in Segs :
             /\ ~shm[s].made
             /\ shm' = [shm EXCEPT ![s] = [Blank EXCEPT !.made = TRUE]]
             /\ name' = s
        /\ UNCHANGED <<sized, shared>>
     \/ /\ name # NoSeg
        /\ shm' = [shm EXCEPT ![name] =
             [Blank EXCEPT !.made = TRUE, !.readable = shm[name].readable]]
        /\ sized' = sized \ {name}
        /\ shared' = shared \cup {name}
        /\ UNCHANGED name
  /\ seg' = [seg EXCEPT ![m] = name']
  /\ GoTo(m, "size")
  /\ UNCHANGED <<cast, lives, oid, todo, scan, victim, made, crashes, evicted>>

\* ... ftruncate gives it its size, and it is mapped.
SetSize(m) ==
  /\ pc[m] = "size"
  /\ sized' = sized \cup {seg[m]}
  /\ GoTo(m, "init")
  /\ UNCHANGED <<name, shm, cast, lives, seg, oid, todo, scan, victim, made, crashes,
                 shared, evicted>>

\* memset, then the counters.  The manager has process id 1 and no slot.
InitShm(m) ==
  /\ pc[m] = "init"
  /\ shm' = [shm EXCEPT ![seg[m]] =
       [Blank EXCEPT !.made = TRUE, !.readable = shm[seg[m]].readable, !.manager = Pid(m),
                     !.proc_free = ProcMax, !.proc_oid_next = 2]]
  /\ oid' = [oid EXCEPT ![m] = 1]
  /\ GoTo(m, "fill")
  /\ UNCHANGED <<name, cast, lives, seg, todo, scan, victim, made, crashes, marks>>

\* "root", "processes", the manager's process object and "rtdb" are inserted.
FillDatabase(m) ==
  /\ pc[m] = "fill" /\ Database \notin shm[seg[m]].objs
  /\ shm' = [shm EXCEPT ![seg[m]].ready = TRUE,
                        ![seg[m]].objs = @ \cup {Database, Obj(1, "process")}]
  /\ GoTo(m, "enable")
  /\ UNCHANGED <<name, cast, lives, seg, oid, todo, scan, victim, made, crashes, marks>>

\* There is a "root" already, and it is unique: the manager ends, and its exit handler,
\* which has no process object to delete, removes the name.
FillFails(m) ==
  /\ pc[m] = "fill" /\ Database \in shm[seg[m]].objs
  /\ GoTo(m, "unlink")
  /\ UNCHANGED <<name, shm, cast, lives, seg, oid, todo, scan, victim, made, crashes, marks>>

\* ipc_connect_enable; it has no effect in hard real-time builds.
ConnectEnable(m) ==
  /\ pc[m] = "enable"
  /\ shm' = [shm EXCEPT ![seg[m]].readable = ~hard]
  /\ GoTo(m, "look")
  /\ scan' = [scan EXCEPT ![m] = 1]
  /\ UNCHANGED <<name, cast, lives, seg, oid, todo, victim, made, crashes, marks>>

Slot(m) == shm[seg[m]].proc[scan[m]]

\* purge_procs: a slot in use is looked at and its process id read ...
LookAtSlot(m) ==
  /\ pc[m] = "look" /\ scan[m] <= ProcMax
  /\ IF Slot(m).proc_oid = 0
     THEN scan' = [scan EXCEPT ![m] = @ + 1] /\ UNCHANGED <<pc, victim>>
     ELSE victim' = [victim EXCEPT ![m] = Slot(m).pid] /\ GoTo(m, "probe")
          /\ UNCHANGED scan
  /\ UNCHANGED <<name, shm, cast, lives, seg, oid, todo, made, crashes, marks>>

\* ... kill(pid, 0): the process lives ...
FoundAlive(m) ==
  /\ pc[m] = "probe" /\ victim[m] \in LivingPids
  /\ scan' = [scan EXCEPT ![m] = @ + 1]
  /\ victim' = [victim EXCEPT ![m] = NoPid]
  /\ GoTo(m, "look")
  /\ UNCHANGED <<name, shm, cast, lives, seg, oid, todo, made, crashes, marks>>

\* ... or not: the objects of whoever is in the slot now are searched (a process
\* id of 0 finds those of everybody) ...
FoundDeadUnchecked(m) ==                                          \* a mutant
  /\ pc[m] = "probe"
  /\ todo' = [todo EXCEPT ![m] = NotKept(OwnedBy(seg[m], Slot(m).proc_oid))]
  /\ GoTo(m, "purge")
  /\ UNCHANGED <<name, shm, cast, lives, seg, oid, scan, victim, made, crashes, marks>>
FoundDead(m) ==
  /\ pc[m] = "probe" /\ victim[m] \notin LivingPids
  /\ todo' = [todo EXCEPT ![m] = NotKept(OwnedBy(seg[m], Slot(m).proc_oid))]
  /\ GoTo(m, "purge")
  /\ UNCHANGED <<name, shm, cast, lives, seg, oid, scan, victim, made, crashes, marks>>

\* The slot is no longer the victim's; it is free, or another's.
Misled(m) == Slot(m).pid # victim[m]

\* ... deleted, and the slot is cleared under proc_lock and counted as free, whoever
\* is in it now.
DeleteOfDead(m) ==
  /\ pc[m] = "purge"
  /\ DeleteNext(m)
  /\ UNCHANGED <<name, cast, pc, lives, seg, oid, scan, victim, made, crashes, marks>>
ClearSlotOnly(m) ==                                               \* a mutant
  /\ pc[m] = "purge"
  /\ shm' = [shm EXCEPT ![seg[m]] = Released(shm[seg[m]], {scan[m]})]
  /\ todo' = [todo EXCEPT ![m] = {}]
  /\ scan' = [scan EXCEPT ![m] = @ + 1]
  /\ victim' = [victim EXCEPT ![m] = NoPid]
  /\ GoTo(m, "look")
  /\ UNCHANGED <<name, cast, lives, seg, oid, made, crashes, marks>>
ClearSlot(m) ==
  /\ pc[m] = "purge" /\ todo[m] = {}
  /\ shm' = [shm EXCEPT ![seg[m]] = Released(shm[seg[m]], {scan[m]})]
  /\ evicted' = [evicted EXCEPT ![seg[m]] =
                   IF Misled(m) THEN @ \cup {Slot(m).proc_oid} ELSE @]
  /\ scan' = [scan EXCEPT ![m] = @ + 1]
  /\ victim' = [victim EXCEPT ![m] = NoPid]
  /\ GoTo(m, "look")
  /\ UNCHANGED <<name, cast, lives, seg, oid, todo, made, crashes, sized, shared>>

\* The end of a round of the main loop; with the check thread, the end of a
\* round of that thread.
NextRound(m) ==
  /\ pc[m] = "look" /\ scan[m] > ProcMax
  /\ scan' = [scan EXCEPT ![m] = 1]
  /\ shm' = [shm EXCEPT ![seg[m]].manager_alive_ts = IF hard THEN @ ELSE "fresh"]
  /\ UNCHANGED <<name, cast, pc, lives, seg, oid, todo, victim, made, crashes, marks>>

\* With the check thread, the main loop goes on by itself.
MainLoop(m) ==
  /\ hard /\ pc[m] \in {"look", "probe", "purge"}
  /\ shm' = [shm EXCEPT ![seg[m]].manager_alive_ts = "fresh"]
  /\ UNCHANGED <<name, cast, pc, lives, seg, oid, todo, scan, victim, made, crashes, marks>>

\* Those the manager finds in the slots of its segment.
Signalled(m) ==
  {p \in Processes \ {m} : \E i \in Slots : shm[seg[m]].proc[i].pid = Pid(p)}

\* SIGTERM, from an operator or kogmo_rtdb_man -k, at any point of the loop: the
\* exit handler sends SIGTERM to all processes with a slot (they may disconnect
\* now), then SIGKILL.
KillProcs(m) ==
  /\ pc[m] \in {"look", "probe", "purge"}
  /\ pc' = [p \in Processes |-> IF p = m THEN "killed"
                                ELSE IF p \in Signalled(m) THEN "dead" ELSE pc[p]]
  /\ seg' = [p \in Processes |-> IF p \in Signalled(m) THEN NoSeg ELSE seg[p]]
  /\ oid' = [p \in Processes |-> IF p \in Signalled(m) THEN 0 ELSE oid[p]]
  /\ todo' = [p \in Processes |-> IF p \in Signalled(m) \cup {m} THEN {} ELSE todo[p]]
  /\ victim' = [victim EXCEPT ![m] = NoPid]
  /\ UNCHANGED <<name, shm, cast, lives, scan, made, crashes, marks>>

\* Its own objects are deleted, the registry's locks destroyed ...
DestroyDatabase(m) ==
  /\ pc[m] = "killed"
  /\ shm' = [shm EXCEPT ![seg[m]].objs = @ \ OwnedBy(seg[m], 1)]
  /\ GoTo(m, "unlink")
  /\ UNCHANGED <<name, cast, lives, seg, oid, todo, scan, victim, made, crashes, marks>>

\* ... and the name is removed, whatever segment it leads to.
UnlinkShm(m) ==
  /\ pc[m] = "unlink"
  /\ name' = NoSeg
  /\ Ends(m)
  /\ UNCHANGED <<shm, cast, lives, scan, victim, made, crashes, marks>>

\* A process dies without disconnect - the manager not before its first round.
Crash(p) ==
  /\ pc[p] \notin {"dead", "off"} /\ crashes < MaxCrashes
  /\ p \in Managers =>
       seg[p] # NoSeg /\ oid[p] = 1 /\ shm[seg[p]].manager_alive_ts # "zero"
  /\ crashes' = crashes + 1
  /\ Ends(p)
  /\ UNCHANGED <<name, shm, cast, lives, scan, victim, made, marks>>

\* The manager has not been heard of for three intervals: its rounds are shorter,
\* so it is gone.
Managed(s) == \E m \in Managers : seg[m] = s /\ pc[m] \in {"look", "probe", "purge"}

GoesStale(s) ==
  /\ shm[s].manager_alive_ts = "fresh" /\ ~Managed(s)
  /\ shm' = [shm EXCEPT ![s].manager_alive_ts = "stale"]
  /\ UNCHANGED <<name, cast, pc, lives, seg, oid, todo, scan, victim, made, crashes, marks>>

\* SIGBUS: the segment a process touches has no size - it is being made, or cut by
\* another manager.  The exit handler touches it again and ends the process.
Touches(p) ==
  pc[p] \in {"alive", "slot", "insert", "on", "leave",
            "init", "fill", "look", "probe", "purge", "killed"}
CanTouch(p) == seg[p] \in sized

Fault(p) ==
  /\ Touches(p) /\ ~CanTouch(p)
  /\ Ends(p)
  /\ UNCHANGED <<name, shm, cast, lives, scan, victim, made, crashes, marks>>

-----------------------------------------------------------------------------
\* Steps that do without the segment's memory, and steps that need it.
AsideStep(p) ==
  \/ Start(p) \/ OpenShm(p) \/ NothingThere(p) \/ Exit(p) \/ Crash(p) \/ Fault(p)
ConnectStep(p) ==
  \/ ManagerAlive(p) \/ TakeSlot(p) \/ NoSlotLeft(p) \/ InsertProcess(p) \/ InsertFails(p)
  \/ Disconnect(p) \/ DeleteOwn(p) \/ ReleaseSlot(p)

ManagerAsideStep(m) ==
  \/ UnlinkOld(m) \/ OpenNew(m) \/ SetSize(m) \/ ConnectEnable(m) \/ UnlinkShm(m)
ManagerStep(m) ==
  \/ InitShm(m) \/ FillDatabase(m) \/ FillFails(m)
  \/ LookAtSlot(m) \/ FoundAlive(m) \/ FoundDead(m)
  \/ DeleteOfDead(m) \/ ClearSlot(m) \/ NextRound(m) \/ MainLoop(m)
  \/ KillProcs(m) \/ DestroyDatabase(m)

ProcNext ==
  \/ \E p \in Processes : AsideStep(p) \/ (CanTouch(p) /\ ConnectStep(p))
  \/ \E c \in Clients : CanTouch(c) /\ CreateObject(c)
  \/ \E m \in Managers : ManagerAsideStep(m) \/ (CanTouch(m) /\ ManagerStep(m))
  \/ \E s \in Segs : GoesStale(s)

ProcSpec == ProcInit /\ [][ProcNext]_procVars

-----------------------------------------------------------------------------
(* Properties *)

Connected(p) == pc[p] \in {"insert", "on", "leave"}

\* Every variable has its type (ipc_posix.h:55-91, obj_local.h:28-60).  proc_free is a
\* statistic that may leave 0 .. ProcMax: see SlotsAreCounted.
ProcTypeOK ==
  /\ name \in Segs \cup {NoSeg} /\ crashes \in Nat
  /\ \A s \in Segs :
       /\ shm[s].proc_free \in Int
       /\ \A i \in Slots : shm[s].proc[i].proc_oid \in 0 .. shm[s].proc_oid_next
       /\ \A x \in shm[s].objs : x.owner \in 0 .. MaxConnects /\ x.kind \in ObjKinds
  /\ pc \in [Processes -> {"dead", "open", "alive", "slot", "insert", "on", "leave", "off",
            "create", "new", "size", "init", "fill", "enable", "look", "probe", "purge",
            "killed", "unlink"}]
  /\ seg \in [Processes -> Segs \cup {NoSeg}]
  /\ \A p \in Processes : oid[p] \in Nat /\ lives[p] \in 0 .. cast.starts[p]
  /\ \A m \in Managers : scan[m] \in 1 .. ProcMax + 1

\* The segments of which something can be promised: those one manager only has opened
\* as new.  A second one, come between shm_unlink and shm_open of the first, cuts and
\* clears what the first has made, and whoever is connected there.
OwnSegs == Segs \ shared

\* Who is connected has its slot, and only one, and the count of free slots is right.
\* purge_procs decides without the lock which slot it clears: what it gets wrong is
\* exactly those slots that changed hands between its look and the clearing - their new
\* owners have no slot, and one that was free by then is counted twice
\* (ipc_posix.c:364-387, 464, housekeeping.c:93-136).
SlotsAreCounted ==
  \A s \in OwnSegs :
    shm[s].proc_oid_next # 0 /\ 0 \notin evicted[s] =>
      shm[s].proc_free = Cardinality(FreeSlots(s))
ConnectedHaveOneSlot ==
  \A p \in Processes :
    Connected(p) /\ seg[p] \in OwnSegs /\ oid[p] \notin evicted[seg[p]] =>
      \E i \in Slots :
        /\ shm[seg[p]].proc[i] = [proc_oid |-> oid[p], pid |-> Pid(p)]
        /\ \A j \in Slots \ {i} : shm[seg[p]].proc[j].proc_oid # oid[p]
SlotsAreRight == SlotsAreCounted /\ ConnectedHaveOneSlot

\* Nobody gets beyond the wait for the manager in a segment it still makes, clears and
\* fills ("possible race condition at startup", ipc_posix.c:404-406), and where file
\* modes are honoured nobody even maps one that has not got its size yet.
ReadyBeforeEntered ==
  \A p \in Processes :
    /\ seg[p] \in OwnSegs
    /\ Connected(p) \/ pc[p] = "slot" \/ (pc[p] = "alive" /\ ~hard)
    => shm[seg[p]].ready /\ seg[p] \in sized

\* No object outlives its process's slot, unless it is persistent or purge_procs cleared
\* the slot by mistake: a slot is given back only when everything of its process is
\* deleted (obj_local.c:404-432, housekeeping.c:108-136).
NothingLeftBehind ==
  \A s \in OwnSegs : \A x \in shm[s].objs :
    \/ x.owner = 1 \/ x.kind = "persistent" \/ x.owner \in evicted[s]
    \/ \E i \in Slots : shm[s].proc[i].proc_oid = x.owner

\* A persistent object is not deleted, and the objects of a living process only by
\* itself - or by a manager that found a dead process in a slot which had another owner
\* or none when it searched (types.h:228, housekeeping.c:92-129).
LivingKeepTheirObjects ==
  [][\A s \in Segs \ shared' : \A x \in shm[s].objs :
       \/ x \in shm'[s].objs
       \/ /\ x.kind # "persistent"
          /\ \/ \A p \in Processes :
                  seg[p] = s /\ oid[p] = x.owner => pc[p] \in {"leave", "killed"}
             \/ \E m \in Managers :
                  pc[m] = "purge" /\ seg[m] = s /\ x \in todo[m] /\ Misled(m)]_procVars

\* As purge_procs says before it deletes them (housekeeping.c:102-116): the objects are
\* those of a "DEAD PROCESS".
DeletedForTheDead(m) ==
  \A p \in Processes \ {m} :
    Connected(p) /\ seg[p] = seg[m] => todo[m] \cap OwnedBy(seg[m], oid[p]) = {}
DeletesForTheDead == \A m \in Managers : pc[m] = "purge" => DeletedForTheDead(m)
=============================================================================
