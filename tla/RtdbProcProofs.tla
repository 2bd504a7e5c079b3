--------------------------- MODULE RtdbProcProofs ---------------------------
(***************************************************************************)
(* Proofs about RtdbProc, for any number of clients, managers, segments    *)
(* and slots.  Of a segment that two managers have opened as new (shared)  *)
(* nothing is said but its type.                                           *)
(***************************************************************************)
EXTENDS RtdbProc, FiniteSetTheorems, TLAPS

\* Where a process has a place in a segment's process list, and where a manager has
\* a segment of its own.
Joining == {"open", "alive", "slot", "off"}
Entered  == {"insert", "on", "leave"}
Making == {"size", "init"}
Filled  == {"enable", "look", "probe", "purge", "killed"}
Leading == {"fill", "unlink"} \cup Filled
Places  == {"dead", "create", "new"} \cup Making \cup Joining \cup Entered \cup Leading

Pids == (Processes \X Nat) \cup {NoPid}
Objects == [owner : Nat, kind : ObjKinds]
ProcSlot == [proc_oid : Nat, pid : Pids]
Segment ==
  [made : BOOLEAN, readable : BOOLEAN, manager_alive_ts : {"zero", "fresh", "stale"},
   ready : BOOLEAN, proc : [Slots -> ProcSlot], proc_free : Int, proc_oid_next : Nat,
   objs : SUBSET Objects, manager : Pids]

ProcShape ==
  /\ name \in Segs \cup {NoSeg}
  /\ shm \in [Segs -> Segment]
  /\ pc \in [Processes -> Places]
  /\ \A c \in Clients : pc[c] \in {"dead"} \cup Joining \cup Entered
  /\ lives \in [Processes -> Nat]
  /\ seg \in [Processes -> Segs \cup {NoSeg}]
  /\ oid \in [Processes -> Nat]
  /\ todo \in [Processes -> SUBSET Objects]
  /\ scan \in [Managers -> 1 .. ProcMax + 1]
  /\ victim \in [Managers -> Pids]
  /\ \A m \in Managers : pc[m] \in {"probe", "purge"} => scan[m] \in Slots
  /\ sized \subseteq Segs /\ shared \subseteq Segs
  /\ evicted \in [Segs -> SUBSET Nat]

\* Where a process is, it has what it needs: a segment, its proc_oid, a list of
\* objects to delete.
ProcPlaces ==
  \A p \in Processes :
    /\ pc[p] \in {"alive", "slot"} \cup Making \cup Entered \cup Leading => seg[p] \in Segs
    /\ pc[p] \in {"dead", "create", "new"} \cup Making \cup Joining => oid[p] = 0
    /\ pc[p] \in Leading => oid[p] = 1
    /\ pc[p] \notin {"leave", "purge"} => todo[p] = {}
    /\ pc[p] # "dead" => lives[p] # 0

\* A segment that nobody made, or whose manager has not yet cleared it, is empty;
\* the manager has its first loop, and enables connects, when the database is filled.
SegStages ==
  /\ name # NoSeg => shm[name].made
  /\ \A p \in Processes : seg[p] # NoSeg => shm[seg[p]].made
  /\ \A s \in Segs : ~shm[s].made => shm[s] = Blank /\ s \notin shared
  /\ \A s \in OwnSegs :
       /\ shm[s].manager_alive_ts # "zero" \/ shm[s].readable => shm[s].ready
       /\ shm[s].ready => shm[s].proc_oid_next # 0 /\ s \in sized
       /\ shm[s].proc_oid_next = 0 =>
            shm[s].objs = {} /\ \A i \in Slots : shm[s].proc[i] = FreeSlot

\* One manager has a segment, and fills it before anybody enters.
Drives(m) == pc[m] \in Making \cup Leading
OneDriver ==
  \A m, n \in Processes :
    Drives(m) /\ Drives(n) /\ seg[m] = seg[n] /\ seg[m] \in OwnSegs => m = n
Stages ==
  \A p \in Processes : seg[p] \in OwnSegs =>
    /\ pc[p] \in Making => ~shm[seg[p]].ready /\ shm[seg[p]].proc_oid_next = 0
    /\ pc[p] = "fill" => ~shm[seg[p]].ready /\ shm[seg[p]].proc_oid_next # 0
    /\ pc[p] \in {"init", "fill"} => seg[p] \in sized
    /\ pc[p] \in Filled => shm[seg[p]].ready
    /\ pc[p] \in {"slot"} \cup Entered => shm[seg[p]].ready
    /\ pc[p] = "alive" /\ ~hard => shm[seg[p]].ready

\* A process that was started.
Started(pid) == pid # NoPid /\ pid[2] \in 1 .. lives[pid[1]]

\* The slots: who is in one has been started, ids are given once.
SlotIds ==
  \A s \in OwnSegs :
    /\ shm[s].proc_oid_next # 1
    /\ \A i \in Slots :
         LET e == shm[s].proc[i] IN
         /\ e.proc_oid = 0 <=> e.pid = NoPid
         /\ e.proc_oid # 0 =>
              /\ e.proc_oid >= 2 /\ e.proc_oid < shm[s].proc_oid_next
              /\ Started(e.pid)
         /\ \A j \in Slots : e.proc_oid = shm[s].proc[j].proc_oid /\ i # j => e.proc_oid = 0
    /\ \A x \in shm[s].objs :
         /\ x.owner >= 1 /\ x.owner < shm[s].proc_oid_next
         /\ x.owner = 1 => x.kind # "persistent"
    /\ \A o \in evicted[s] : o = 0 \/ (o >= 2 /\ o < shm[s].proc_oid_next)

\* A process has a slot when it is connected, unless that was cleared by mistake, and
\* none before or after.  Nobody else has its proc_oid.
InSlot(s, i, p) == shm[s].proc[i].pid = Pid(p)
Holders ==
  \A p \in Processes :
    /\ pc[p] \in Entered /\ seg[p] \in OwnSegs =>
         /\ oid[p] >= 2 /\ oid[p] < shm[seg[p]].proc_oid_next
         /\ \/ oid[p] \in evicted[seg[p]]
            \/ \E i \in Slots : shm[seg[p]].proc[i] = [proc_oid |-> oid[p], pid |-> Pid(p)]
         /\ \A i \in Slots : shm[seg[p]].proc[i].proc_oid = oid[p] => InSlot(seg[p], i, p)
    /\ pc[p] \in Entered => \A s \in OwnSegs, i \in Slots :
         InSlot(s, i, p) => s = seg[p] /\ shm[s].proc[i].proc_oid = oid[p]
    /\ pc[p] \in Joining => \A s \in OwnSegs, i \in Slots : ~InSlot(s, i, p)

\* A number names one process in its segment.
IdsAreUnique ==
  \A p, q \in Processes :
    pc[p] \in Entered /\ pc[q] \in Entered /\ seg[p] = seg[q] /\ seg[p] \in OwnSegs
      /\ oid[p] = oid[q] => p = q

\* The objects of a process: none before its process object; when it leaves, those that
\* are left are on its list, and no others.
Mortal(s, o) == {x \in shm[s].objs : x.owner = o /\ x.kind # "persistent"}
OwnedList(objs, o) == \A x \in objs : x.owner = o /\ x.kind # "persistent"
OwnObjects ==
  \A p \in Processes : seg[p] \in OwnSegs =>
    /\ pc[p] = "insert" => \A x \in shm[seg[p]].objs : x.owner # oid[p]
    /\ pc[p] = "leave" =>
         Mortal(seg[p], oid[p]) \subseteq todo[p] /\ OwnedList(todo[p], oid[p])

\* purge_procs: the victim has been started and, after the kill, is dead for good; as
\* long as the slot is still its, the list is of its objects.
Purging ==
  \A m \in Managers : seg[m] \in OwnSegs =>
    /\ pc[m] \in {"probe", "purge"} => Started(victim[m])
    /\ pc[m] = "purge" =>
         /\ victim[m] \notin LivingPids
         /\ \A x \in todo[m] : x.kind # "persistent"
         /\ ~Misled(m) =>
              /\ Mortal(seg[m], Slot(m).proc_oid) \subseteq todo[m]
              /\ OwnedList(todo[m], Slot(m).proc_oid)

EntryInv == ProcShape /\ ProcPlaces /\ SegStages /\ OneDriver /\ Stages
ProcInv ==
  EntryInv /\ SlotIds /\ Holders /\ IdsAreUnique /\ OwnObjects /\ Purging
  /\ SlotsAreCounted /\ NothingLeftBehind
-----------------------------------------------------------------------------
(* What the steps do to a segment. *)

USE ProcAssumption DEF marks

Others(s) == \A t \in Segs \ {s} : shm'[t] = shm[t]
ProcsKept(s) ==
  /\ shm'[s].proc = shm[s].proc /\ shm'[s].proc_free = shm[s].proc_free
  /\ shm'[s].proc_oid_next = shm[s].proc_oid_next
FlagsKept(s) ==
  /\ shm'[s].made = shm[s].made /\ shm'[s].ready = shm[s].ready
  /\ shm'[s].manager_alive_ts = shm[s].manager_alive_ts
Typed == shm \in [Segs -> Segment]

LEMMA BlankTyped == Blank \in Segment
  BY DEF Blank, Segment, ProcSlot, FreeSlot, Pids

LEMMA WholeStep ==
  ASSUME Typed, NEW s \in Segs, NEW new \in Segment, shm' = [shm EXCEPT ![s] = new]
  PROVE  Typed' /\ Others(s) /\ shm'[s] = new
  BY DEF Typed, Others

LEMMA TsStep ==
  ASSUME Typed, NEW s \in Segs, NEW v \in {"zero", "fresh", "stale"},
         shm' = [shm EXCEPT ![s].manager_alive_ts = v]
  PROVE  /\ Typed' /\ Others(s) /\ ProcsKept(s) /\ shm'[s].objs = shm[s].objs
         /\ shm'[s].made = shm[s].made /\ shm'[s].ready = shm[s].ready
         /\ shm'[s].manager_alive_ts = v
  <1> DEFINE new == [shm[s] EXCEPT !.manager_alive_ts = v]
  <1>0. shm[s] \in Segment
    BY DEF Typed
  <1>1. new \in Segment
    BY <1>0, ZenonT(60) DEF Segment
  <1>2. /\ new.proc = shm[s].proc /\ new.proc_free = shm[s].proc_free
        /\ new.proc_oid_next = shm[s].proc_oid_next /\ new.objs = shm[s].objs
    BY DEF Typed, Segment
  <1>3. /\ new.made = shm[s].made /\ new.ready = shm[s].ready /\ new.manager_alive_ts = v
    BY DEF Typed, Segment
  <1> HIDE DEF new
  <1> QED BY <1>1, <1>2, <1>3, WholeStep DEF ProcsKept, new

LEMMA ReadableStep ==
  ASSUME Typed, NEW s \in Segs, NEW b \in BOOLEAN, shm' = [shm EXCEPT ![s].readable = b]
  PROVE  Typed' /\ Others(s) /\ ProcsKept(s) /\ FlagsKept(s) /\ shm'[s].objs = shm[s].objs
  BY SMTT(30) DEF Typed, Others, ProcsKept, FlagsKept, Segment

ObjsChange(s, objs) ==
  Typed' /\ Others(s) /\ ProcsKept(s) /\ FlagsKept(s) /\ shm'[s].objs = objs

LEMMA ObjsStep ==
  ASSUME Typed, NEW s \in Segs, NEW objs \in SUBSET Objects,
         shm' = [shm EXCEPT ![s].objs = objs]
  PROVE  ObjsChange(s, objs)
  BY ZenonT(60) DEF Typed, Others, ProcsKept, FlagsKept, Segment, ObjsChange

LEMMA ReadyStep ==
  ASSUME Typed, NEW s \in Segs, NEW objs \in SUBSET Objects, NEW b \in BOOLEAN,
         shm' = [shm EXCEPT ![s].ready = b, ![s].objs = objs]
  PROVE  /\ Typed' /\ Others(s) /\ ProcsKept(s) /\ shm'[s].objs = objs
         /\ shm'[s].ready = b /\ shm'[s].made = shm[s].made
         /\ shm'[s].manager_alive_ts = shm[s].manager_alive_ts
  <1> DEFINE new == [shm[s] EXCEPT !.ready = b, !.objs = objs]
  <1>1. new \in Segment
    BY ZenonT(60) DEF Typed, Segment
  <1>2. /\ new.proc = shm[s].proc /\ new.proc_free = shm[s].proc_free
        /\ new.proc_oid_next = shm[s].proc_oid_next /\ new.objs = objs
    BY DEF Typed, Segment
  <1>3. /\ new.made = shm[s].made /\ new.manager_alive_ts = shm[s].manager_alive_ts
        /\ new.ready = b
    BY DEF Typed, Segment
  <1>4. shm' = [shm EXCEPT ![s] = new]
    BY DEF Typed, Segment
  <1> HIDE DEF new
  <1> QED BY ZenonT(60), <1>1, <1>2, <1>3, <1>4, WholeStep DEF ProcsKept

\* The process list of a segment changes: one field after the other.
LEMMA WithProc ==
  ASSUME NEW r \in Segment, NEW proc \in [Slots -> ProcSlot]
  PROVE  LET new == [r EXCEPT !.proc = proc] IN
         /\ new \in Segment /\ new.proc = proc /\ new.proc_free = r.proc_free
         /\ new.proc_oid_next = r.proc_oid_next /\ new.objs = r.objs
         /\ new.made = r.made /\ new.ready = r.ready
         /\ new.manager_alive_ts = r.manager_alive_ts
  BY DEF Segment

LEMMA WithNext ==
  ASSUME NEW r \in Segment, NEW n \in Nat
  PROVE  LET new == [r EXCEPT !.proc_oid_next = n] IN
         /\ new \in Segment /\ new.proc = r.proc /\ new.proc_free = r.proc_free
         /\ new.proc_oid_next = n /\ new.objs = r.objs
         /\ new.made = r.made /\ new.ready = r.ready
         /\ new.manager_alive_ts = r.manager_alive_ts
  BY DEF Segment

LEMMA WithFree ==
  ASSUME NEW r \in Segment, NEW k \in Int
  PROVE  LET new == [r EXCEPT !.proc_free = k] IN
         /\ new \in Segment /\ new.proc = r.proc /\ new.proc_free = k
         /\ new.proc_oid_next = r.proc_oid_next /\ new.objs = r.objs
         /\ new.made = r.made /\ new.ready = r.ready
         /\ new.manager_alive_ts = r.manager_alive_ts
  BY DEF Segment

SlotsChange(s, proc, n, k) ==
  /\ Typed' /\ Others(s) /\ FlagsKept(s) /\ shm'[s].objs = shm[s].objs
  /\ shm'[s].proc = proc /\ shm'[s].proc_oid_next = n /\ shm'[s].proc_free = k

LEMMA TakenStep ==
  ASSUME Typed, NEW s \in Segs, NEW i \in Slots, NEW pid \in Pids,
         shm' = [shm EXCEPT ![s] = Taken(shm[s], i, pid)]
  PROVE  SlotsChange(s, [shm[s].proc EXCEPT ![i] =
                           [proc_oid |-> shm[s].proc_oid_next, pid |-> pid]],
                     shm[s].proc_oid_next + 1, shm[s].proc_free - 1)
  <1> DEFINE r0  == shm[s]
             e   == [proc_oid |-> r0.proc_oid_next, pid |-> pid]
             proc == [r0.proc EXCEPT ![i] = e]
             r1  == [r0 EXCEPT !.proc = proc]
             r2  == [r1 EXCEPT !.proc_oid_next = r0.proc_oid_next + 1]
             new == [r2 EXCEPT !.proc_free = r0.proc_free - 1]
  <1>0. r0 \in Segment
    BY DEF Typed
  <1>6. e \in ProcSlot /\ proc \in [Slots -> ProcSlot]
    BY <1>0 DEF Segment, ProcSlot
  <1>7. r0.proc_oid_next + 1 \in Nat /\ r0.proc_free - 1 \in Int
    BY <1>0 DEF Segment
  <1>2. shm' = [shm EXCEPT ![s] = new]
    BY DEF Taken
  <1> HIDE DEF r0, proc
  <1>1. /\ r1 \in Segment /\ r1.proc = proc
        /\ r1.objs = r0.objs /\ r1.made = r0.made /\ r1.ready = r0.ready
        /\ r1.manager_alive_ts = r0.manager_alive_ts
    BY <1>0, <1>6, WithProc
  <1> HIDE DEF r1
  <1>3. /\ r2 \in Segment /\ r2.proc = r1.proc /\ r2.proc_oid_next = r0.proc_oid_next + 1
        /\ r2.objs = r1.objs /\ r2.made = r1.made /\ r2.ready = r1.ready
        /\ r2.manager_alive_ts = r1.manager_alive_ts
    BY <1>1, <1>7, WithNext
  <1> HIDE DEF r2
  <1>4. /\ new \in Segment /\ new.proc = r2.proc /\ new.proc_oid_next = r2.proc_oid_next
        /\ new.proc_free = r0.proc_free - 1
        /\ new.objs = r2.objs /\ new.made = r2.made /\ new.ready = r2.ready
        /\ new.manager_alive_ts = r2.manager_alive_ts
    BY <1>3, <1>7, WithFree
  <1> HIDE DEF new
  <1>5. Typed' /\ Others(s) /\ shm'[s] = new
    BY <1>2, <1>4, WholeStep
  <1> QED BY <1>1, <1>3, <1>4, <1>5 DEF FlagsKept, SlotsChange, r0, proc, e

WithoutObjs(s, gone) == [i \in Slots |-> IF i \in gone THEN FreeSlot ELSE shm[s].proc[i]]

LEMMA ReleasedStep ==
  ASSUME Typed, NEW s \in Segs, NEW gone \in SUBSET Slots, Cardinality(gone) \in Nat,
         shm' = [shm EXCEPT ![s] = Released(shm[s], gone)]
  PROVE  SlotsChange(s, WithoutObjs(s, gone),
                     shm[s].proc_oid_next, shm[s].proc_free + Cardinality(gone))
  <1> DEFINE r0  == shm[s]
             proc == [i \in Slots |-> IF i \in gone THEN FreeSlot ELSE r0.proc[i]]
             r1  == [r0 EXCEPT !.proc = proc]
             k   == r0.proc_free + Cardinality(gone)
             new == [r1 EXCEPT !.proc_free = k]
  <1>0. r0 \in Segment
    BY DEF Typed
  <1>6. proc \in [Slots -> ProcSlot]
    BY <1>0 DEF Segment, ProcSlot, FreeSlot, Pids
  <1>7. k \in Int
    BY <1>0 DEF Segment
  <1>2. shm' = [shm EXCEPT ![s] = new]
    BY DEF Released
  <1> HIDE DEF r0, proc, k
  <1>1. /\ r1 \in Segment /\ r1.proc = proc /\ r1.proc_oid_next = r0.proc_oid_next
        /\ r1.objs = r0.objs /\ r1.made = r0.made /\ r1.ready = r0.ready
        /\ r1.manager_alive_ts = r0.manager_alive_ts
    BY <1>0, <1>6, WithProc
  <1> HIDE DEF r1
  <1>4. /\ new \in Segment /\ new.proc = r1.proc /\ new.proc_oid_next = r1.proc_oid_next
        /\ new.proc_free = k
        /\ new.objs = r1.objs /\ new.made = r1.made /\ new.ready = r1.ready
        /\ new.manager_alive_ts = r1.manager_alive_ts
    BY <1>1, <1>7, WithFree
  <1> HIDE DEF new
  <1>5. Typed' /\ Others(s) /\ shm'[s] = new
    BY <1>2, <1>4, WholeStep
  <1> QED BY <1>1, <1>4, <1>5 DEF FlagsKept, SlotsChange, WithoutObjs, r0, proc, k

LEMMA ObjsTyped ==
  ASSUME ProcShape, NEW s \in Segs
  PROVE  /\ shm[s] \in Segment /\ shm[s].objs \subseteq Objects
         /\ shm[s].proc \in [Slots -> ProcSlot] /\ shm[s].proc_oid_next \in Nat
         /\ shm[s].proc_free \in Int
  BY DEF ProcShape, Segment

LEMMA FillEffect ==
  ASSUME ProcShape, NEW m \in Managers, FillDatabase(m), seg[m] \in Segs
  PROVE  /\ Typed' /\ Others(seg[m]) /\ ProcsKept(seg[m])
         /\ shm'[seg[m]].objs = shm[seg[m]].objs \cup {Database, Obj(1, "process")}
         /\ shm'[seg[m]].ready /\ shm'[seg[m]].made = shm[seg[m]].made
         /\ shm'[seg[m]].manager_alive_ts = shm[seg[m]].manager_alive_ts
  <1> DEFINE b == TRUE
             s == seg[m]
             objs == shm[s].objs \cup {Database, Obj(1, "process")}
  <1>1. b \in BOOLEAN /\ (b <=> TRUE)
    OBVIOUS
  <1>2. objs \in SUBSET Objects
    BY ObjsTyped DEF Obj, Objects, ObjKinds, Database
  <1>3. shm' = [shm EXCEPT ![s].ready = b, ![s].objs = objs]
    BY DEF FillDatabase, ProcShape, Segment
  <1> HIDE DEF b, objs
  <1>4. Typed
    BY DEF ProcShape, Typed
  <1>5. /\ Typed' /\ Others(s) /\ ProcsKept(s) /\ shm'[s].objs = objs
        /\ shm'[s].ready = b /\ shm'[s].made = shm[s].made
        /\ shm'[s].manager_alive_ts = shm[s].manager_alive_ts
    BY <1>1, <1>2, <1>3, <1>4, ReadyStep
  <1> QED BY <1>1, <1>5 DEF objs

-----------------------------------------------------------------------------
(* Nobody enters a segment before it is filled. *)

LEMMA InitEntry == ProcInit => EntryInv
  <1> SUFFICES ASSUME ProcInit PROVE EntryInv
    OBVIOUS
  <1> USE DEF ProcInit
  <1>1. shm \in [Segs -> Segment]
    BY BlankTyped
  <1>2. ProcShape
    BY <1>1 DEF ProcShape, Places, Processes, Pids, Objects
  <1>3. ProcPlaces
    BY DEF ProcPlaces, Entered, Joining, Leading, Filled, Making
  <1>4. /\ \A s \in Segs : shm[s] = Blank
        /\ name = NoSeg /\ shared = {} /\ \A p \in Processes : seg[p] = NoSeg
    OBVIOUS
  <1>7. /\ Blank.manager_alive_ts = "zero" /\ ~Blank.readable /\ ~Blank.ready
        /\ Blank.objs = {} /\ \A i \in Slots : Blank.proc[i] = FreeSlot
    BY DEF Blank
  <1>5. SegStages
    BY ONLY <1>4, <1>7 DEF SegStages, OwnSegs
  <1>6. OneDriver /\ Stages
    BY DEF OneDriver, Drives, Stages, Entered, Leading, Filled, Making
  <1> QED BY <1>2, <1>3, <1>5, <1>6 DEF EntryInv

\* The steps of a program that change no segment.
ProgramAside(p) ==
  \/ Start(p) \/ OpenShm(p) \/ NothingThere(p) \/ ManagerAlive(p) \/ NoSlotLeft(p)
  \/ InsertFails(p) \/ Disconnect(p) \/ Exit(p) \/ Crash(p) \/ Fault(p)

LEMMA ConnectShape ==
  ASSUME ProcShape, ProcPlaces, NEW p \in Processes, ProgramAside(p)
  PROVE  ProcShape'
  <1> USE DEF ProcShape, GoTo, Places, Joining, Entered, Refused, Ends
  <1>1. CASE Start(p)
    BY <1>1 DEF Start
  <1>2. CASE OpenShm(p)
    BY <1>2 DEF OpenShm, Connectable
  <1>3. CASE NothingThere(p)
    BY <1>3 DEF NothingThere, Processes
  <1>4. CASE ManagerAlive(p)
    BY <1>4 DEF ManagerAlive, Processes
  <1>5. CASE NoSlotLeft(p)
    BY <1>5 DEF NoSlotLeft, Processes
  <1>6. CASE InsertFails(p)
    BY <1>6 DEF InsertFails, Processes
  <1>7. CASE Disconnect(p)
    <2>1. NotKept(OwnedBy(seg[p], oid[p])) \subseteq Objects
      BY ObjsTyped, <1>7 DEF NotKept, OwnedBy, Disconnect, ProcPlaces
    <2> QED BY <1>7, <2>1 DEF Disconnect
  <1>8. CASE Exit(p)
    BY <1>8 DEF Exit
  <1>9. CASE Crash(p)
    BY <1>9 DEF Crash
  <1>10. CASE Fault(p)
    BY <1>10 DEF Fault
  <1> QED BY <1>1, <1>2, <1>3, <1>4, <1>5, <1>6, <1>7, <1>8, <1>9, <1>10 DEF ProgramAside

LEMMA ConnectPlaces ==
  ASSUME EntryInv, NEW p \in Processes, ProgramAside(p)
  PROVE  ProcPlaces'
  <1> USE DEF EntryInv, ProcShape, GoTo, Joining, Entered, Leading, Filled, Making, Refused, Ends,
              ProcPlaces
  <1>1. CASE Start(p)
    BY <1>1 DEF Start
  <1>2. CASE OpenShm(p)
    BY <1>2 DEF OpenShm, Connectable
  <1>3. CASE NothingThere(p)
    BY <1>3 DEF NothingThere, Processes
  <1>4. CASE ManagerAlive(p)
    BY <1>4 DEF ManagerAlive, Processes
  <1>5. CASE NoSlotLeft(p)
    BY <1>5 DEF NoSlotLeft, Processes
  <1>6. CASE InsertFails(p)
    BY <1>6 DEF InsertFails, Processes
  <1>7. CASE Disconnect(p)
    BY <1>7 DEF Disconnect
  <1>8. CASE Exit(p)
    BY <1>8 DEF Exit
  <1>9. CASE Crash(p)
    BY <1>9 DEF Crash
  <1>10. CASE Fault(p)
    BY <1>10 DEF Fault
  <1> QED BY <1>1, <1>2, <1>3, <1>4, <1>5, <1>6, <1>7, <1>8, <1>9, <1>10 DEF ProgramAside

LEMMA ConnectStages ==
  ASSUME EntryInv, NEW p \in Processes, ProgramAside(p)
  PROVE  SegStages' /\ OneDriver' /\ Stages'
  <1> USE DEF EntryInv, ProcShape, GoTo, Joining, Entered, Leading, Filled, Making, Refused, Ends,
              SegStages, OneDriver, Drives, Stages, ProcPlaces, OwnSegs, hard
  <1>1. CASE Start(p)
    BY <1>1 DEF Start
  <1>2. CASE OpenShm(p)
    BY <1>2 DEF OpenShm, Connectable
  <1>3. CASE NothingThere(p)
    BY <1>3 DEF NothingThere, Processes
  <1>4. CASE ManagerAlive(p)
    BY <1>4 DEF ManagerAlive, Processes
  <1>5. CASE NoSlotLeft(p)
    BY <1>5 DEF NoSlotLeft, Processes
  <1>6. CASE InsertFails(p)
    BY <1>6 DEF InsertFails, Processes
  <1>7. CASE Disconnect(p)
    BY <1>7 DEF Disconnect
  <1>8. CASE Exit(p)
    BY <1>8 DEF Exit
  <1>9. CASE Crash(p)
    BY <1>9 DEF Crash
  <1>10. CASE Fault(p)
    BY <1>10 DEF Fault
  <1> QED BY <1>1, <1>2, <1>3, <1>4, <1>5, <1>6, <1>7, <1>8, <1>9, <1>10 DEF ProgramAside

\* The steps of a manager that change no segment.
ManagerAside(m) ==
  \/ LookAtSlot(m) \/ FoundAlive(m) \/ FoundDead(m) \/ KillProcs(m) \/ UnlinkShm(m)
  \/ UnlinkOld(m) \/ SetSize(m) \/ FillFails(m)

\* Who gets the signal is gone, and the manager on its way out.
Gone(p) == pc'[p] = "dead" /\ seg'[p] = NoSeg /\ oid'[p] = 0 /\ todo'[p] = {}

LEMMA KillEffect ==
  ASSUME NEW m \in Managers, KillProcs(m)
  PROVE  /\ \A p \in Processes \ {m} :
               \/ p \in Signalled(m) /\ Gone(p)
               \/ /\ p \notin Signalled(m) /\ pc'[p] = pc[p] /\ seg'[p] = seg[p]
                  /\ oid'[p] = oid[p] /\ todo'[p] = todo[p]
         /\ pc'[m] = "killed" /\ seg'[m] = seg[m] /\ oid'[m] = oid[m] /\ todo'[m] = {}
         /\ pc[m] \in {"look", "probe", "purge"}
  <1>1. m \notin Signalled(m) /\ m \in Processes
    BY DEF Signalled, Processes
  <1> QED BY <1>1 DEF KillProcs, Gone

LEMMA ManagerAsideShape ==
  ASSUME EntryInv, NEW m \in Managers, ManagerAside(m)
  PROVE  ProcShape'
  <1> USE DEF EntryInv, GoTo
  <1>1. /\ m \in Processes /\ m \notin Clients /\ (pc[m] \in Leading => seg[m] \in Segs)
        /\ Clients \subseteq Processes /\ Managers \subseteq Processes
    BY DEF Processes, ProcPlaces
  <1>2. CASE LookAtSlot(m)
    <2>1. pc[m] = "look" /\ scan[m] \in Slots /\ Slot(m) \in ProcSlot
      BY <1>1, <1>2, ObjsTyped, SMTT(30) DEF LookAtSlot, ProcShape, Slot, Slots, Leading, Filled
    <2>2. Slot(m).pid \in Pids
      BY <2>1 DEF ProcSlot
    <2>3. victim' \in [Managers -> Pids]
      BY <1>2, <2>2 DEF LookAtSlot, ProcShape
    <2>4. scan' \in [Managers -> 1 .. ProcMax + 1]
      BY <1>2, <2>1 DEF LookAtSlot, ProcShape, Slots
    <2>5. pc' = pc \/ pc' = [pc EXCEPT ![m] = "probe"]
      BY <1>2 DEF LookAtSlot
    <2>6. pc' \in [Processes -> Places] /\ \A c \in Clients : pc'[c] = pc[c]
      BY <1>1, <2>5 DEF ProcShape, Places, Leading, Filled
    <2>7. \A n \in Managers : pc'[n] \in {"probe", "purge"} => scan'[n] \in Slots
      BY <1>1, <1>2, <2>1 DEF LookAtSlot, ProcShape
    <2> QED BY <1>2, <2>3, <2>4, <2>6, <2>7 DEF LookAtSlot, ProcShape
  <1>3. CASE FoundAlive(m)
    <2>1. scan' \in [Managers -> 1 .. ProcMax + 1]
      BY <1>3 DEF FoundAlive, ProcShape, Slots
    <2>5. pc' \in [Processes -> Places] /\ \A c \in Clients : pc'[c] = pc[c]
      BY <1>1, <1>3 DEF FoundAlive, ProcShape, Places, Leading, Filled
    <2> QED BY <1>3, <2>1, <2>5 DEF FoundAlive, ProcShape, Pids
  <1>4. CASE FoundDead(m)
    <2>1. NotKept(OwnedBy(seg[m], Slot(m).proc_oid)) \subseteq Objects
      BY ObjsTyped, <1>1, <1>4 DEF NotKept, OwnedBy, FoundDead, Leading, Filled
    <2>5. pc' \in [Processes -> Places] /\ \A c \in Clients : pc'[c] = pc[c]
      BY <1>1, <1>4 DEF FoundDead, ProcShape, Places, Leading, Filled
    <2> QED BY <1>1, <1>4, <2>1, <2>5 DEF FoundDead, ProcShape
  <1>5. CASE KillProcs(m)
    <2>1. \A p \in Processes : pc'[p] \in {pc[p], "dead"} \/ (p = m /\ pc'[p] = "killed")
      BY <1>5, KillEffect DEF Gone
    <2>2. pc' \in [Processes -> Places]
      BY <1>5, <2>1 DEF KillProcs, ProcShape, Places, Leading, Filled
    <2>3. seg' \in [Processes -> Segs \cup {NoSeg}] /\ oid' \in [Processes -> Nat]
      BY <1>5 DEF KillProcs, ProcShape
    <2>4. todo' \in [Processes -> SUBSET Objects]
      BY <1>5 DEF KillProcs, ProcShape
    <2>5. victim' \in [Managers -> Pids]
      BY <1>5 DEF KillProcs, ProcShape, Pids
    <2>6. \A c \in Clients : pc'[c] \in {pc[c], "dead"}
      BY <1>1, <2>1 DEF Processes
    <2> QED BY <1>5, <2>1, <2>2, <2>3, <2>4, <2>5, <2>6 DEF KillProcs, ProcShape, Processes
  <1>6. CASE UnlinkShm(m)
    BY <1>1, <1>6 DEF UnlinkShm, Ends, ProcShape, Places
  <1>7. CASE UnlinkOld(m)
    BY <1>1, <1>7 DEF UnlinkOld, ProcShape, Places
  <1>8. CASE SetSize(m)
    <2>1. seg[m] \in Segs
      BY <1>1, <1>8 DEF SetSize, ProcPlaces, Making
    <2> QED BY <1>1, <1>8, <2>1 DEF SetSize, ProcShape, Places, Making
  <1>9. CASE FillFails(m)
    BY <1>1, <1>9 DEF FillFails, ProcShape, Places, Leading
  <1> QED BY <1>2, <1>3, <1>4, <1>5, <1>6, <1>7, <1>8, <1>9 DEF ManagerAside

LEMMA ManagerAsideEntry ==
  ASSUME EntryInv, NEW m \in Managers, ManagerAside(m)
  PROVE  ProcPlaces' /\ SegStages' /\ OneDriver' /\ Stages'
  <1> USE DEF EntryInv, ProcShape, GoTo, ProcPlaces, SegStages, OneDriver, Drives,
              Stages, Joining, Entered, Leading, Filled, Making, OwnSegs, hard
  <1>1. m \in Processes
    BY DEF Processes
  <1>2. CASE LookAtSlot(m)
    BY <1>1, <1>2 DEF LookAtSlot
  <1>3. CASE FoundAlive(m)
    BY <1>1, <1>3 DEF FoundAlive
  <1>4. CASE FoundDead(m)
    BY <1>1, <1>4 DEF FoundDead
  <1>5. CASE KillProcs(m)
    <2>1. UNCHANGED <<name, shm, cast, lives, sized, shared>>
      BY <1>5 DEF KillProcs
    <2> QED BY <1>1, <1>5, <2>1, KillEffect DEF Gone
  <1>6. CASE UnlinkShm(m)
    BY <1>1, <1>6 DEF UnlinkShm, Ends
  <1>7. CASE UnlinkOld(m)
    BY <1>1, <1>7 DEF UnlinkOld
  <1>8. CASE SetSize(m)
    BY <1>1, <1>8 DEF SetSize
  <1>9. CASE FillFails(m)
    BY <1>1, <1>9 DEF FillFails
  <1> QED BY <1>2, <1>3, <1>4, <1>5, <1>6, <1>7, <1>8, <1>9 DEF ManagerAside

\* A step in a segment that is shared leaves what the stages are about.
LEMMA SharedStep ==
  ASSUME EntryInv, NEW p \in Processes, seg[p] \in shared,
         Typed', Others(seg[p]), shm'[seg[p]].made,
         UNCHANGED <<name, cast, sized, shared>>,
         \A q \in Processes \ {p} : pc'[q] = pc[q] /\ seg'[q] = seg[q],
         seg'[p] \in {seg[p], NoSeg}
  PROVE  SegStages' /\ OneDriver' /\ Stages'
  <1> USE DEF EntryInv
  <1>1. seg[p] \in Segs
    BY DEF ProcShape
  <1>2. \A t \in Segs \ {seg[p]} : shm'[t] = shm[t]
    BY DEF Others
  <1>3. OwnSegs' = OwnSegs /\ seg[p] \notin OwnSegs /\ OwnSegs \subseteq Segs \ {seg[p]}
    BY DEF OwnSegs
  <1>4. \A q \in Processes : seg'[q] \in OwnSegs => q # p /\ pc'[q] = pc[q] /\ seg'[q] = seg[q]
    BY <1>3 DEF OwnSegs
  <1>5. SegStages'
    <2>1. name' # NoSeg => shm'[name'].made
      BY <1>2 DEF SegStages, ProcShape
    <2>2. \A q \in Processes : seg'[q] # NoSeg => shm'[seg'[q]].made
      BY <1>1, <1>2 DEF SegStages, ProcShape
    <2>3. \A s \in Segs : ~shm'[s].made => shm'[s] = Blank /\ s \notin shared
      BY <1>1, <1>2 DEF SegStages
    <2>4. \A s \in OwnSegs : shm'[s] = shm[s]
      BY <1>2, <1>3
    <2> QED BY <1>3, <2>1, <2>2, <2>3, <2>4 DEF SegStages
  <1>6. OneDriver'
    BY <1>3, <1>4 DEF OneDriver, Drives
  <1>7. Stages'
    <2>1. \A q \in Processes : seg'[q] \in OwnSegs => shm'[seg[q]] = shm[seg[q]]
      BY <1>2, <1>3, <1>4
    <2> QED BY <1>3, <1>4, <2>1 DEF Stages, hard
  <1> QED BY <1>5, <1>6, <1>7

\* So do the steps of a process in a filled segment.
LEMMA StageStep ==
  ASSUME EntryInv, NEW p \in Processes, pc[p] \in {"slot"} \cup Entered \cup Filled,
         Typed', Others(seg[p]),
         seg[p] \in OwnSegs => shm'[seg[p]].proc_oid_next # 0,
         shm'[seg[p]].made = shm[seg[p]].made, shm'[seg[p]].ready = shm[seg[p]].ready,
         UNCHANGED <<name, cast, sized, shared>>,
         \A q \in Processes \ {p} : pc'[q] = pc[q] /\ seg'[q] = seg[q],
         seg'[p] = seg[p] \/ (seg'[p] = NoSeg /\ pc'[p] = "off"),
         pc'[p] \in {"off", "unlink"} \cup Entered \cup Filled, Drives(p)' => Drives(p)
  PROVE  SegStages' /\ OneDriver' /\ Stages'
  <1> USE DEF EntryInv
  <1>0. seg[p] \in Segs /\ shm[seg[p]].made
    BY DEF ProcPlaces, Leading, SegStages
  <1>1. CASE seg[p] \in shared
    BY <1>0, <1>1, SharedStep
  <1>2. CASE seg[p] \in OwnSegs
    <2>1. shm[seg[p]].ready /\ seg[p] \in sized
      BY <1>2 DEF Stages, SegStages
    <2>2. \A t \in Segs : /\ shm'[t].made = shm[t].made /\ shm'[t].ready = shm[t].ready
                          /\ t = seg[p] \/ shm'[t] = shm[t]
      BY DEF Others
    <2>3. \A q \in Processes : seg'[q] \in {seg[q], NoSeg}
      OBVIOUS
    <2>4. OwnSegs' = OwnSegs /\ OwnSegs \subseteq Segs /\ hard' = hard
      BY DEF OwnSegs, hard
    <2>5. SegStages'
      <3>1. name' # NoSeg => shm'[name'].made
        BY <2>2 DEF SegStages, ProcShape
      <3>2. \A q \in Processes : seg'[q] # NoSeg => shm'[seg'[q]].made
        BY <2>2, <2>3 DEF SegStages, ProcShape
      <3>3. \A t \in Segs : ~shm'[t].made => shm'[t] = Blank /\ t \notin shared
        BY <1>0, <2>2 DEF SegStages
      <3>4. ASSUME NEW t \in OwnSegs
            PROVE  /\ shm'[t].manager_alive_ts # "zero" \/ shm'[t].readable => shm'[t].ready
                   /\ shm'[t].ready => shm'[t].proc_oid_next # 0 /\ t \in sized
                   /\ shm'[t].proc_oid_next = 0 =>
                        shm'[t].objs = {} /\ \A i \in Slots : shm'[t].proc[i] = FreeSlot
        BY <1>2, <2>1, <2>2, <2>4 DEF SegStages
      <3> QED BY <2>4, <3>1, <3>2, <3>3, <3>4 DEF SegStages
    <2>6. OneDriver'
      BY <1>0, <2>4 DEF OneDriver, Drives, Leading, Filled, Making, Entered
    <2>7. Stages'
      <3>1. ASSUME NEW q \in Processes \ {p}, seg[q] \in OwnSegs, pc[q] \in {"fill"} \cup Making
            PROVE  seg[q] # seg[p]
        BY <2>1, <3>1 DEF Stages
      <3>2. ASSUME NEW q \in Processes, seg'[q] \in OwnSegs, pc'[q] \in {"fill"} \cup Making
            PROVE  /\ pc[q] = pc'[q] /\ seg'[q] = seg[q] /\ shm'[seg[q]] = shm[seg[q]]
        BY <2>2, <2>4, <3>1, <3>2 DEF Filled, Entered, Making, OwnSegs
      <3>3. ASSUME NEW q \in Processes, seg'[q] \in OwnSegs,
                   pc'[q] \in {"slot"} \cup Entered \cup Filled \/ (pc'[q] = "alive" /\ ~hard)
            PROVE  seg'[q] = seg[q] /\ shm[seg[q]].ready
        BY <1>2, <2>1, <3>3 DEF Stages, Filled, Entered, OwnSegs
      <3>4. ASSUME NEW q \in Processes, seg'[q] \in OwnSegs
            PROVE  /\ pc'[q] \in Making => ~shm'[seg'[q]].ready /\ shm'[seg'[q]].proc_oid_next = 0
                   /\ pc'[q] = "fill" => ~shm'[seg'[q]].ready /\ shm'[seg'[q]].proc_oid_next # 0
                   /\ pc'[q] \in {"init", "fill"} => seg'[q] \in sized
        BY <2>4, <3>2, <3>4 DEF Stages, Making
      <3>5. ASSUME NEW q \in Processes, seg'[q] \in OwnSegs,
                   pc'[q] \in {"slot"} \cup Entered \cup Filled \/ (pc'[q] = "alive" /\ ~hard)
            PROVE  shm'[seg'[q]].ready
        BY <2>2, <2>4, <3>3, <3>5
      <3> QED BY <2>4, <3>4, <3>5 DEF Stages
    <2> QED BY <2>5, <2>6, <2>7
  <1> QED BY <1>0, <1>1, <1>2 DEF OwnSegs

LEMMA InsertEffect ==
  ASSUME ProcShape, ProcPlaces, NEW p \in Processes, InsertProcess(p)
  PROVE  /\ ObjsChange(seg[p], shm[seg[p]].objs \cup {Obj(oid[p], "process")})
         /\ pc[p] = "insert" /\ pc'[p] = "on"
  <1>1. seg[p] \in Segs /\ Typed
    BY DEF InsertProcess, ProcPlaces, Entered, ProcShape, Typed
  <1>2. shm[seg[p]].objs \cup {Obj(oid[p], "process")} \in SUBSET Objects
    BY <1>1, ObjsTyped DEF Obj, Objects, ObjKinds, ProcShape
  <1>3. shm' = [shm EXCEPT ![seg[p]].objs = shm[seg[p]].objs \cup {Obj(oid[p], "process")}]
    BY DEF InsertProcess
  <1>4. pc[p] = "insert" /\ pc'[p] = "on"
    BY DEF InsertProcess, GoTo, ProcShape
  <1> DEFINE objs == shm[seg[p]].objs \cup {Obj(oid[p], "process")}
  <1> HIDE DEF objs
  <1>5. ObjsChange(seg[p], objs)
    BY <1>1, <1>2, <1>3, ObjsStep DEF objs
  <1> QED BY <1>4, <1>5 DEF objs

LEMMA CreateEffect ==
  ASSUME ProcShape, ProcPlaces, NEW p \in Clients, CreateObject(p)
  PROVE  \E k \in DataKinds :
           ObjsChange(seg[p], shm[seg[p]].objs \cup {Obj(oid[p], k)})
  <1>1. seg[p] \in Segs /\ Typed /\ p \in Processes
    BY DEF CreateObject, ProcPlaces, Entered, ProcShape, Typed, Processes
  <1>2. PICK k \in DataKinds :
          shm' = [shm EXCEPT ![seg[p]].objs = shm[seg[p]].objs \cup {Obj(oid[p], k)}]
    BY DEF CreateObject
  <1>3. shm[seg[p]].objs \cup {Obj(oid[p], k)} \in SUBSET Objects
    BY <1>1, ObjsTyped DEF Obj, Objects, ObjKinds, DataKinds, ProcShape
  <1>4. ObjsChange(seg[p], shm[seg[p]].objs \cup {Obj(oid[p], k)})
    BY <1>1, <1>2, <1>3, ObjsStep
  <1> QED BY <1>4

LEMMA DeleteEffect ==
  ASSUME ProcShape, NEW p \in Processes, seg[p] \in Segs, DeleteNext(p)
  PROVE  \E x \in todo[p] : /\ ObjsChange(seg[p], shm[seg[p]].objs \ {x})
                            /\ todo' = [todo EXCEPT ![p] = todo[p] \ {x}]
  <1>1. Typed
    BY DEF ProcShape, Typed
  <1>2. PICK x \in todo[p] : /\ shm' = [shm EXCEPT ![seg[p]].objs = shm[seg[p]].objs \ {x}]
                             /\ todo' = [todo EXCEPT ![p] = todo[p] \ {x}]
    BY DEF DeleteNext
  <1>3. shm[seg[p]].objs \ {x} \in SUBSET Objects
    BY ObjsTyped
  <1>4. ObjsChange(seg[p], shm[seg[p]].objs \ {x})
    BY <1>1, <1>2, <1>3, ObjsStep
  <1> QED BY <1>2, <1>4

LEMMA DestroyEffect ==
  ASSUME ProcShape, ProcPlaces, NEW m \in Managers, DestroyDatabase(m)
  PROVE  ObjsChange(seg[m], shm[seg[m]].objs \ OwnedBy(seg[m], 1))
  <1>1. seg[m] \in Segs /\ Typed
    BY DEF DestroyDatabase, ProcPlaces, Leading, Filled, ProcShape, Typed, Processes
  <1>2. shm' = [shm EXCEPT ![seg[m]].objs = shm[seg[m]].objs \ OwnedBy(seg[m], 1)]
    BY DEF DestroyDatabase
  <1>3. shm[seg[m]].objs \ OwnedBy(seg[m], 1) \in SUBSET Objects
    BY <1>1, ObjsTyped
  <1> QED BY <1>1, <1>2, <1>3, ObjsStep

LEMMA TakeEffect ==
  ASSUME ProcShape, ProcPlaces, NEW p \in Processes, TakeSlot(p)
  PROVE  \E i \in FreeSlots(seg[p]) :
           SlotsChange(seg[p], [shm[seg[p]].proc EXCEPT ![i] =
                           [proc_oid |-> shm[seg[p]].proc_oid_next, pid |-> Pid(p)]],
                       shm[seg[p]].proc_oid_next + 1, shm[seg[p]].proc_free - 1)
  <1>1. seg[p] \in Segs /\ Typed
    BY DEF TakeSlot, ProcPlaces, ProcShape, Typed
  <1>2. PICK i \in FreeSlots(seg[p]) : shm' = [shm EXCEPT ![seg[p]] = Taken(shm[seg[p]], i, Pid(p))]
    BY DEF TakeSlot
  <1>3. Pid(p) \in Pids /\ i \in Slots
    BY DEF Pid, Pids, ProcShape, FreeSlots
  <1> QED BY <1>1, <1>2, <1>3, TakenStep

LEMMA SlotsAreFinite == IsFiniteSet(Slots) /\ Cardinality(Slots) = ProcMax
  <1>1. 1 \in Int /\ ProcMax \in Int /\ ~(1 > ProcMax) /\ ProcMax - 1 + 1 = ProcMax
    OBVIOUS
  <1> QED BY <1>1, FS_Interval DEF Slots

LEMMA ReleaseEffect ==
  ASSUME ProcShape, ProcPlaces, NEW p \in Processes, ReleaseSlot(p)
  PROVE  SlotsChange(seg[p], WithoutObjs(seg[p], OwnSlots(p)),
                     shm[seg[p]].proc_oid_next, shm[seg[p]].proc_free + Cardinality(OwnSlots(p)))
  <1>1. seg[p] \in Segs /\ Typed
    BY DEF ReleaseSlot, ProcPlaces, ProcShape, Typed, Entered
  <1>2. OwnSlots(p) \in SUBSET Slots /\ Cardinality(OwnSlots(p)) \in Nat
    <2>1. OwnSlots(p) \subseteq Slots
      BY DEF OwnSlots
    <2> QED BY <2>1, SlotsAreFinite, FS_Subset, FS_CardinalityType
  <1>3. shm' = [shm EXCEPT ![seg[p]] = Released(shm[seg[p]], OwnSlots(p))]
    BY DEF ReleaseSlot
  <1> QED BY <1>1, <1>2, <1>3, ReleasedStep

LEMMA ClearEffect ==
  ASSUME ProcShape, ProcPlaces, NEW m \in Managers, ClearSlot(m)
  PROVE  SlotsChange(seg[m], WithoutObjs(seg[m], {scan[m]}),
                     shm[seg[m]].proc_oid_next, shm[seg[m]].proc_free + 1)
  <1>1. seg[m] \in Segs /\ Typed
    BY DEF ClearSlot, ProcPlaces, ProcShape, Typed, Leading, Filled, Processes
  <1>2. {scan[m]} \in SUBSET Slots /\ Cardinality({scan[m]}) = 1
    <2>1. pc[m] = "purge"
      BY DEF ClearSlot
    <2>2. scan[m] \in Slots
      BY <2>1 DEF ProcShape
    <2> QED BY <2>2, FS_Singleton
  <1>3. shm' = [shm EXCEPT ![seg[m]] = Released(shm[seg[m]], {scan[m]})]
    BY DEF ClearSlot
  <1> DEFINE gone == {scan[m]}
  <1>4. gone \in SUBSET Slots /\ Cardinality(gone) = 1 /\ Cardinality(gone) \in Nat
    BY <1>2
  <1>5. shm' = [shm EXCEPT ![seg[m]] = Released(shm[seg[m]], gone)]
    BY <1>3
  <1> HIDE DEF gone
  <1>6. SlotsChange(seg[m], WithoutObjs(seg[m], gone),
                    shm[seg[m]].proc_oid_next, shm[seg[m]].proc_free + Cardinality(gone))
    BY <1>1, <1>4, <1>5, ReleasedStep
  <1> QED BY <1>4, <1>6 DEF gone

TsChange(s) ==
  /\ Typed' /\ Others(s) /\ ProcsKept(s) /\ shm'[s].objs = shm[s].objs
  /\ shm'[s].made = shm[s].made /\ shm'[s].ready = shm[s].ready

LEMMA RoundEffect ==
  ASSUME ProcShape, ProcPlaces, NEW m \in Managers,
         ConnectEnable(m) \/ NextRound(m) \/ MainLoop(m)
  PROVE  TsChange(seg[m])
  <1>1. seg[m] \in Segs /\ Typed
    BY DEF ConnectEnable, NextRound, MainLoop, ProcPlaces, ProcShape, Typed, Leading, Filled, Processes
  <1>2. CASE ConnectEnable(m)
    <2> DEFINE b == ~hard
    <2>1. shm' = [shm EXCEPT ![seg[m]].readable = b] /\ b \in BOOLEAN
      BY <1>2 DEF ConnectEnable
    <2> HIDE DEF b
    <2> QED BY <1>1, <2>1, ReadableStep DEF TsChange, FlagsKept
  <1>3. CASE NextRound(m) \/ MainLoop(m)
    <2>1. shm[seg[m]].manager_alive_ts \in {"zero", "fresh", "stale"}
      BY <1>1, ObjsTyped DEF Segment
    <2>2. \E v \in {"zero", "fresh", "stale"} : shm' = [shm EXCEPT ![seg[m]].manager_alive_ts = v]
      BY <1>3, <2>1 DEF NextRound, MainLoop
    <2> QED BY <1>1, <2>2, TsStep DEF TsChange
  <1> QED BY <1>2, <1>3

LEMMA StaleEffect ==
  ASSUME ProcShape, NEW s \in Segs, GoesStale(s)
  PROVE  TsChange(s)
  BY TsStep DEF GoesStale, ProcShape, Typed, TsChange

NewSeg(s) ==
  /\ Typed' /\ Others(s) /\ shm'[s].made /\ ~shm'[s].ready /\ shm'[s].proc_oid_next = 0
  /\ shm'[s].manager_alive_ts = "zero" /\ shm'[s].objs = {}
  /\ shm'[s].proc = [i \in Slots |-> FreeSlot] /\ shm'[s].proc_free = 0

\* A new segment, or another's cut to size 0.
OpensFresh(m, s) ==
  /\ ~shm[s].made /\ NewSeg(s) /\ ~shm'[s].readable
  /\ name' = s /\ seg' = [seg EXCEPT ![m] = s] /\ UNCHANGED <<sized, shared>>
OpensOld(m, s) ==
  /\ name = s /\ NewSeg(s)
  /\ name' = s /\ seg' = [seg EXCEPT ![m] = s]
  /\ sized' = sized \ {s} /\ shared' = shared \cup {s}

Opened(r) == [Blank EXCEPT !.made = TRUE, !.readable = r]
LEMMA NewSegStep ==
  ASSUME Typed, NEW s \in Segs, NEW r \in BOOLEAN, NEW new,
         new = Opened(r) \/ (new = [Blank EXCEPT !.made = TRUE] /\ r = FALSE),
         shm' = [shm EXCEPT ![s] = new]
  PROVE  NewSeg(s) /\ shm'[s].readable = r
  <1>1. /\ new.made /\ new.ready = FALSE /\ new.proc_oid_next = 0
        /\ new.manager_alive_ts = "zero" /\ new.objs = {} /\ new.readable = r
        /\ new.proc = [i \in Slots |-> FreeSlot] /\ new.proc_free = 0
    BY DEF Blank, Opened
  <1>2. new \in Segment
    BY BlankTyped DEF Segment, Blank, Opened
  <1>3. Typed' /\ Others(s) /\ shm'[s] = new
    BY <1>2, WholeStep
  <1> QED BY <1>1, <1>3 DEF NewSeg

LEMMA OpenNewEffect ==
  ASSUME ProcShape, NEW m \in Managers, OpenNew(m)
  PROVE  \E s \in Segs : OpensFresh(m, s) \/ OpensOld(m, s)
  <1>0. Typed /\ \A s \in Segs : shm[s].readable \in BOOLEAN
    BY DEF ProcShape, Typed, Segment
  <1>1. CASE name = NoSeg
    <2>1. PICK s \in Segs :
            /\ ~shm[s].made /\ name' = s /\ seg' = [seg EXCEPT ![m] = s]
            /\ shm' = [shm EXCEPT ![s] = [Blank EXCEPT !.made = TRUE]]
            /\ UNCHANGED <<sized, shared>>
      BY <1>1 DEF OpenNew
    <2> DEFINE new == [Blank EXCEPT !.made = TRUE]
               r == FALSE
    <2>3. /\ new = [Blank EXCEPT !.made = TRUE] /\ r = FALSE /\ r \in BOOLEAN
          /\ shm' = [shm EXCEPT ![s] = new]
      BY <2>1
    <2> HIDE DEF new, r
    <2>2. NewSeg(s) /\ shm'[s].readable = r
      BY ONLY <1>0, <2>3, NewSegStep
    <2> QED BY <2>1, <2>2, <2>3 DEF OpensFresh
  <1>2. CASE name # NoSeg
    <2>1. /\ name \in Segs /\ name' = name /\ seg' = [seg EXCEPT ![m] = name]
          /\ shm' = [shm EXCEPT ![name] = Opened(shm[name].readable)]
          /\ sized' = sized \ {name} /\ shared' = shared \cup {name}
      BY <1>2 DEF OpenNew, ProcShape, Opened
    <2> DEFINE new == Opened(shm[name].readable)
               r == shm[name].readable
    <2>3. /\ new = Opened(r) /\ r \in BOOLEAN /\ shm' = [shm EXCEPT ![name] = new]
      BY <1>0, <2>1
    <2> HIDE DEF new, r
    <2>2. NewSeg(name)
      BY ONLY <1>0, <2>1, <2>3, NewSegStep
    <2> QED BY <2>1, <2>2 DEF OpensOld
  <1> QED BY <1>1, <1>2

LEMMA InitShmEffect ==
  ASSUME ProcShape, ProcPlaces, NEW m \in Managers, InitShm(m)
  PROVE  /\ Typed' /\ Others(seg[m])
         /\ shm'[seg[m]].made /\ ~shm'[seg[m]].ready /\ shm'[seg[m]].proc_oid_next = 2
         /\ shm'[seg[m]].readable = shm[seg[m]].readable
         /\ shm'[seg[m]].manager_alive_ts = "zero" /\ shm'[seg[m]].objs = {}
         /\ shm'[seg[m]].proc = [i \in Slots |-> FreeSlot] /\ shm'[seg[m]].proc_free = ProcMax
  <1> DEFINE b == TRUE
             r == shm[seg[m]].readable
             new == [Blank EXCEPT !.made = b, !.readable = r, !.manager = Pid(m),
                                  !.proc_free = ProcMax, !.proc_oid_next = 2]
  <1>1. shm' = [shm EXCEPT ![seg[m]] = new]
    BY DEF InitShm
  <1>2. b \in BOOLEAN /\ (b <=> TRUE) /\ seg[m] \in Segs /\ r \in BOOLEAN
    BY DEF InitShm, ProcPlaces, Processes, Making, ProcShape, Segment
  <1>7. Pid(m) \in Pids /\ ProcMax \in Int
    BY DEF Pid, Pids, ProcShape, Processes
  <1> HIDE DEF b, r
  <1>3. new \in Segment
    BY <1>2, <1>7, BlankTyped DEF Segment
  <1>4. /\ new.made = b /\ new.ready = FALSE /\ new.proc_oid_next = 2 /\ new.readable = r
        /\ new.manager_alive_ts = "zero" /\ new.objs = {}
        /\ new.proc = [i \in Slots |-> FreeSlot] /\ new.proc_free = ProcMax
    BY <1>2 DEF Blank
  <1> HIDE DEF new
  <1>5. Typed
    BY DEF ProcShape, Typed
  <1>6. Typed' /\ Others(seg[m]) /\ shm'[seg[m]] = new
    BY <1>1, <1>2, <1>3, <1>5, WholeStep
  <1> QED BY <1>2, <1>4, <1>6 DEF r

LEMMA ProgramInEntry ==
  ASSUME EntryInv, NEW p \in Processes,
         \/ TakeSlot(p) \/ InsertProcess(p) \/ DeleteOwn(p) \/ ReleaseSlot(p)
         \/ p \in Clients /\ CreateObject(p)
  PROVE  EntryInv'
  <1> USE DEF EntryInv
  <1>1. /\ pc[p] \in {"slot"} \cup Entered /\ seg[p] \in Segs
        /\ shm[seg[p]].proc_oid_next \in Nat
        /\ seg[p] \in OwnSegs => shm[seg[p]].proc_oid_next # 0
    <2>1. pc[p] \in {"slot"} \cup Entered
      BY DEF TakeSlot, InsertProcess, DeleteOwn, ReleaseSlot, CreateObject, Entered
    <2>2. seg[p] \in Segs /\ (seg[p] \in OwnSegs => shm[seg[p]].ready)
      BY <2>1 DEF Stages, ProcPlaces
    <2> QED BY <2>1, <2>2, ObjsTyped DEF SegStages
  <1>2. /\ Typed' /\ Others(seg[p]) /\ FlagsKept(seg[p])
        /\ seg[p] \in OwnSegs => shm'[seg[p]].proc_oid_next # 0
    <2>1. CASE TakeSlot(p)
      <3>1. shm[seg[p]].proc_oid_next + 1 # 0
        BY <1>1
      <3> QED BY <2>1, <3>1, TakeEffect DEF SlotsChange
    <2>2. CASE InsertProcess(p)
      BY <1>1, <2>2, InsertEffect DEF ObjsChange, ProcsKept
    <2>3. CASE DeleteOwn(p)
      BY <1>1, <2>3, DeleteEffect DEF ObjsChange, ProcsKept, DeleteOwn
    <2>4. CASE ReleaseSlot(p)
      BY <1>1, <2>4, ReleaseEffect DEF SlotsChange
    <2>5. CASE p \in Clients /\ CreateObject(p)
      BY <1>1, <2>5, CreateEffect DEF ObjsChange, ProcsKept
    <2> QED BY <2>1, <2>2, <2>3, <2>4, <2>5
  <1>3. /\ UNCHANGED <<name, cast, lives, scan, victim, marks>>
        /\ \E pl \in Entered \cup {"off"} : pc' = [pc EXCEPT ![p] = pl]
        /\ \E t \in SUBSET Objects : todo' = [todo EXCEPT ![p] = t]
        /\ \/ seg' = seg /\ pc'[p] \in Entered /\ (oid' = oid \/ \E n \in Nat : oid' = [oid EXCEPT ![p] = n])
           \/ seg' = [seg EXCEPT ![p] = NoSeg] /\ pc'[p] = "off" /\ oid' = [oid EXCEPT ![p] = 0]
        /\ pc'[p] # "leave" => todo'[p] = {}
    <2> USE DEF ProcShape, GoTo, Entered, ProcPlaces
    <2>1. CASE TakeSlot(p)
      <3>1. /\ UNCHANGED <<name, cast, lives, scan, victim, seg, todo, marks>> /\ pc[p] = "slot"
            /\ pc' = [pc EXCEPT ![p] = "insert"]
            /\ oid' = [oid EXCEPT ![p] = shm[seg[p]].proc_oid_next]
        BY <2>1 DEF TakeSlot
      <3>2. todo' = [todo EXCEPT ![p] = {}] /\ shm[seg[p]].proc_oid_next \in Nat
        BY <1>1, <3>1
      <3> QED BY <3>1, <3>2
    <2>2. CASE InsertProcess(p)
      BY <2>2 DEF InsertProcess
    <2>3. CASE DeleteOwn(p)
      <3>1. PICK x \in todo[p] : todo' = [todo EXCEPT ![p] = todo[p] \ {x}]
        BY <2>3 DEF DeleteOwn, DeleteNext
      <3>2. todo[p] \ {x} \in SUBSET Objects
        OBVIOUS
      <3>3. /\ UNCHANGED <<name, cast, lives, scan, victim, pc, seg, oid, marks>>
            /\ pc[p] = "leave"
            /\ pc' = [pc EXCEPT ![p] = "leave"]
        BY <2>3 DEF DeleteOwn
      <3> QED BY <3>1, <3>2, <3>3
    <2>4. CASE ReleaseSlot(p)
      BY <2>4 DEF ReleaseSlot
    <2>5. CASE p \in Clients /\ CreateObject(p)
      <3>1. /\ UNCHANGED <<name, cast, lives, scan, victim, pc, seg, oid, todo, marks>>
            /\ pc[p] = "on"
            /\ pc' = [pc EXCEPT ![p] = "on"] /\ todo' = [todo EXCEPT ![p] = {}]
        BY <2>5 DEF CreateObject
      <3> QED BY <3>1
    <2> QED BY <2>1, <2>2, <2>3, <2>4, <2>5
  <1>4. ProcShape'
    <2>1. pc' \in [Processes -> Places] /\ \A c \in Clients : pc'[c] \in {"dead"} \cup Joining \cup Entered
      BY <1>3 DEF ProcShape, Places, Joining, Processes
    <2>2. seg' \in [Processes -> Segs \cup {NoSeg}] /\ oid' \in [Processes -> Nat]
      BY <1>3 DEF ProcShape
    <2>3. todo' \in [Processes -> SUBSET Objects]
      BY <1>3 DEF ProcShape
    <2>4. \A m \in Managers : pc'[m] \in {"probe", "purge"} => scan'[m] \in Slots
      BY <1>3 DEF ProcShape, Entered, Processes
    <2> QED BY <1>2, <1>3, <2>1, <2>2, <2>3, <2>4 DEF ProcShape, Typed
  <1>5. ProcPlaces'
    BY <1>1, <1>3 DEF ProcPlaces, ProcShape, Entered, Joining, Leading, Filled, Making
  <1>6. SegStages' /\ OneDriver' /\ Stages'
    <2>1. /\ \A q \in Processes \ {p} : pc'[q] = pc[q] /\ seg'[q] = seg[q]
          /\ seg'[p] = seg[p] \/ (seg'[p] = NoSeg /\ pc'[p] = "off")
          /\ pc'[p] \in {"off"} \cup Entered \cup Filled /\ (Drives(p)' => Drives(p))
      BY <1>3 DEF ProcShape, Drives, Entered, Leading, Filled, Making
    <2> QED BY <1>1, <1>2, <1>3, <2>1, StageStep DEF FlagsKept
  <1> QED BY <1>4, <1>5, <1>6

LEMMA ManagerInEntry ==
  ASSUME EntryInv, NEW m \in Managers,
         \/ ConnectEnable(m) \/ DeleteOfDead(m) \/ ClearSlot(m) \/ NextRound(m) \/ MainLoop(m)
         \/ DestroyDatabase(m)
  PROVE  EntryInv'
  <1> USE DEF EntryInv
  <1>1. /\ pc[m] \in Filled /\ seg[m] \in Segs /\ m \in Processes /\ m \notin Clients
        /\ Managers \subseteq Processes
        /\ shm[seg[m]].proc_oid_next \in Nat
        /\ seg[m] \in OwnSegs => shm[seg[m]].proc_oid_next # 0
    <2>1. pc[m] \in Filled /\ m \in Processes /\ m \notin Clients /\ Managers \subseteq Processes
      BY DEF ConnectEnable, DeleteOfDead, ClearSlot, NextRound, MainLoop, DestroyDatabase, Filled,
             Processes
    <2>2. seg[m] \in Segs /\ (seg[m] \in OwnSegs => shm[seg[m]].ready)
      BY <2>1 DEF Stages, ProcPlaces, Leading
    <2> QED BY <2>1, <2>2, ObjsTyped DEF SegStages
  <1>2. /\ Typed' /\ Others(seg[m])
        /\ seg[m] \in OwnSegs => shm'[seg[m]].proc_oid_next # 0
        /\ shm'[seg[m]].made = shm[seg[m]].made /\ shm'[seg[m]].ready = shm[seg[m]].ready
    <2>1. CASE ConnectEnable(m) \/ NextRound(m) \/ MainLoop(m)
      BY <1>1, <2>1, RoundEffect DEF TsChange, ProcsKept
    <2>2. CASE DeleteOfDead(m)
      BY <1>1, <2>2, DeleteEffect DEF ObjsChange, ProcsKept, FlagsKept, DeleteOfDead
    <2>3. CASE ClearSlot(m)
      BY <1>1, <2>3, ClearEffect DEF SlotsChange, FlagsKept
    <2>4. CASE DestroyDatabase(m)
      BY <1>1, <2>4, DestroyEffect DEF ObjsChange, ProcsKept, FlagsKept
    <2> QED BY <2>1, <2>2, <2>3, <2>4
  <1>3. /\ UNCHANGED <<name, cast, lives, seg, oid, sized, shared>>
        /\ evicted' \in [Segs -> SUBSET Nat]
        /\ \E pl \in Filled \cup {"unlink"} : pc' = [pc EXCEPT ![m] = pl]
        /\ \E t \in SUBSET Objects : todo' = [todo EXCEPT ![m] = t]
        /\ pc'[m] # "purge" => todo'[m] = {}
        /\ scan' \in [Managers -> 1 .. ProcMax + 1] /\ victim' \in [Managers -> Pids]
        /\ \A n \in Managers : pc'[n] \in {"probe", "purge"} =>
             pc[n] \in {"probe", "purge"} /\ scan'[n] = scan[n]
    <2> USE DEF ProcShape, GoTo, Filled
    <2>0. pc[m] # "purge" => todo' = todo /\ todo = [todo EXCEPT ![m] = {}]
      BY <1>1 DEF ProcPlaces, ConnectEnable, DeleteOfDead, ClearSlot, NextRound, MainLoop,
                  DestroyDatabase
    <2>1. CASE ConnectEnable(m)
      BY <1>1, <2>0, <2>1 DEF ConnectEnable
    <2>2. CASE DeleteOfDead(m)
      <3>1. PICK x \in todo[m] : todo' = [todo EXCEPT ![m] = todo[m] \ {x}]
        BY <2>2 DEF DeleteOfDead, DeleteNext
      <3>2. todo[m] \ {x} \in SUBSET Objects
        BY <1>1
      <3>3. /\ UNCHANGED <<name, cast, lives, scan, victim, pc, seg, oid, marks>>
            /\ pc[m] = "purge"
            /\ pc' = [pc EXCEPT ![m] = "purge"]
        BY <2>2 DEF DeleteOfDead
      <3> QED BY <1>1, <3>1, <3>2, <3>3
    <2>3. CASE ClearSlot(m)
      <3>1. todo' = [todo EXCEPT ![m] = {}] /\ scan[m] \in Slots /\ NoPid \in Pids
        BY <1>1, <2>3 DEF ClearSlot, Pids
      <3>2. /\ UNCHANGED <<name, cast, lives, seg, oid, sized, shared>>
            /\ pc' = [pc EXCEPT ![m] = "look"]
            /\ scan' = [scan EXCEPT ![m] = scan[m] + 1] /\ victim' = [victim EXCEPT ![m] = NoPid]
        BY <2>3 DEF ClearSlot
      <3>3. scan[m] + 1 \in 1 .. ProcMax + 1
        BY <3>1 DEF Slots
      <3>4. \A n \in Managers \ {m} : pc'[n] = pc[n] /\ scan'[n] = scan[n]
        BY <1>1, <3>2
      <3>5. Slot(m).proc_oid \in Nat
        BY <1>1, <3>1, ObjsTyped DEF Slot, ProcSlot
      <3>6. evicted' \in [Segs -> SUBSET Nat]
        BY <1>1, <2>3, <3>5 DEF ClearSlot
      <3> QED BY <1>1, <3>1, <3>2, <3>3, <3>4, <3>6
    <2>4. CASE NextRound(m)
      BY <1>1, <2>0, <2>4 DEF NextRound
    <2>5. CASE MainLoop(m)
      <3>1. UNCHANGED <<name, cast, lives, scan, victim, pc, seg, oid, todo, marks>>
        BY <2>5 DEF MainLoop
      <3>2. pc' = [pc EXCEPT ![m] = pc[m]] /\ todo' = [todo EXCEPT ![m] = todo[m]]
        BY <1>1, <3>1
      <3>3. todo[m] \in SUBSET Objects /\ (pc[m] # "purge" => todo[m] = {})
        BY <1>1, <2>0
      <3> QED BY <1>1, <3>1, <3>2, <3>3
    <2>6. CASE DestroyDatabase(m)
      BY <1>1, <2>0, <2>6 DEF DestroyDatabase
    <2> QED BY <2>1, <2>2, <2>3, <2>4, <2>5, <2>6
  <1>4. ProcShape'
    <2>1. pc' \in [Processes -> Places] /\ \A c \in Clients : pc'[c] \in {"dead"} \cup Joining \cup Entered
      BY <1>1, <1>3 DEF ProcShape, Places, Leading, Processes
    <2>3. todo' \in [Processes -> SUBSET Objects]
      BY ZenonT(60), <1>3 DEF ProcShape
    <2>4. \A n \in Managers : pc'[n] \in {"probe", "purge"} => scan'[n] \in Slots
      BY <1>3 DEF ProcShape
    <2> QED BY <1>2, <1>3, <2>1, <2>3, <2>4 DEF ProcShape, Typed
  <1>5. ProcPlaces'
    BY <1>1, <1>3 DEF ProcPlaces, ProcShape, Entered, Joining, Leading, Filled, Making
  <1>6. SegStages' /\ OneDriver' /\ Stages'
    <2>1. /\ \A q \in Processes \ {m} : pc'[q] = pc[q] /\ seg'[q] = seg[q]
          /\ seg'[m] = seg[m] /\ pc'[m] \in Filled \cup {"unlink"} /\ Drives(m)
      BY <1>1, <1>3 DEF ProcShape, Drives, Leading, Filled
    <2> QED BY <1>1, <1>2, <1>3, <2>1, StageStep
  <1> QED BY <1>4, <1>5, <1>6

LEMMA OpenEntry ==
  ASSUME EntryInv, NEW m \in Managers, OpenNew(m)
  PROVE  ProcPlaces' /\ SegStages' /\ OneDriver' /\ Stages'
  <1> USE DEF EntryInv
  <1>1. PICK s \in Segs : OpensFresh(m, s) \/ OpensOld(m, s)
    BY OpenNewEffect
  <1>2. /\ pc[m] = "new" /\ pc' = [pc EXCEPT ![m] = "size"] /\ m \in Processes
        /\ UNCHANGED <<cast, lives, oid, todo>>
    BY DEF OpenNew, GoTo, Processes
  <1>3. /\ NewSeg(s) /\ name' = s /\ seg' = [seg EXCEPT ![m] = s]
        /\ OwnSegs' \subseteq OwnSegs /\ OwnSegs' \subseteq Segs /\ hard' = hard
        /\ \A t \in Segs \ {s} : shm'[t] = shm[t] /\ (t \in sized' <=> t \in sized)
                                 /\ (t \in shared' <=> t \in shared)
    BY <1>1, <1>2 DEF OpensFresh, OpensOld, OwnSegs, NewSeg, Others, hard
  <1>4. /\ pc'[m] = "size" /\ seg'[m] = s
        /\ \A q \in Processes \ {m} : pc'[q] = pc[q] /\ seg'[q] = seg[q]
    BY <1>2, <1>3 DEF ProcShape
  <1>5. ProcPlaces'
    <2>1. seg'[m] \in Segs /\ oid'[m] = 0 /\ todo'[m] = {} /\ lives'[m] # 0
      BY <1>2, <1>4 DEF ProcPlaces
    <2> QED BY <1>2, <1>4, <2>1 DEF ProcPlaces, Entered, Joining, Leading, Filled, Making
  <1>6. \A q \in Processes \ {m} : seg'[q] \in OwnSegs' => seg'[q] # s
    <2>1. CASE OpensFresh(m, s)
      BY <1>4, <2>1 DEF OpensFresh, SegStages, ProcShape
    <2>2. CASE OpensOld(m, s)
      BY <2>2 DEF OpensOld, OwnSegs
    <2> QED BY <1>1, <2>1, <2>2
  <1>7. SegStages'
    <2>1. \A q \in Processes : seg'[q] # NoSeg => shm'[seg'[q]].made
      BY <1>3, <1>4 DEF SegStages, ProcShape, NewSeg
    <2>2. \A t \in Segs : ~shm'[t].made => shm'[t] = Blank /\ t \notin shared'
      BY <1>3 DEF SegStages, NewSeg
    <2>3. s \in OwnSegs' => ~shm'[s].readable
      BY <1>1 DEF OpensFresh, OpensOld, OwnSegs
    <2>4. ASSUME NEW t \in OwnSegs'
          PROVE  /\ shm'[t].manager_alive_ts # "zero" \/ shm'[t].readable => shm'[t].ready
                 /\ shm'[t].ready => shm'[t].proc_oid_next # 0 /\ t \in sized'
                 /\ shm'[t].proc_oid_next = 0 =>
                      shm'[t].objs = {} /\ \A i \in Slots : shm'[t].proc[i] = FreeSlot
      <3>1. CASE t = s
        BY <1>3, <2>3, <3>1 DEF NewSeg
      <3>2. CASE t # s
        BY <1>3, <3>2 DEF SegStages
      <3> QED BY <3>1, <3>2
    <2>5. name' # NoSeg => shm'[name'].made
      BY <1>3 DEF NewSeg
    <2> QED BY <2>1, <2>2, <2>4, <2>5 DEF SegStages
  <1>8. OneDriver'
    BY <1>3, <1>4, <1>6 DEF OneDriver, Drives
  <1>9. Stages'
    <2>1. ASSUME NEW q \in Processes \ {m}, seg'[q] \in OwnSegs'
          PROVE  /\ seg[q] \in OwnSegs /\ shm'[seg'[q]] = shm[seg[q]]
                 /\ seg'[q] \in sized' <=> seg[q] \in sized
      BY <1>3, <1>4, <1>6, <2>1
    <2>2. ~shm'[s].ready /\ shm'[s].proc_oid_next = 0
      BY <1>3 DEF NewSeg
    <2> QED BY <1>3, <1>4, <2>1, <2>2 DEF Stages, Entered, Filled, Making
  <1> QED BY <1>5, <1>7, <1>8, <1>9

LEMMA MakeEntry ==
  ASSUME EntryInv, NEW m \in Managers, InitShm(m) \/ FillDatabase(m)
  PROVE  ProcPlaces' /\ SegStages' /\ OneDriver' /\ Stages'
  <1> USE DEF EntryInv
  <1> DEFINE s == seg[m]
  <1>1. /\ m \in Processes /\ s \in Segs /\ Drives(m)
        /\ UNCHANGED <<name, cast, lives, seg, todo, sized, shared>>
        /\ \/ pc[m] = "init" /\ pc' = [pc EXCEPT ![m] = "fill"] /\ oid' = [oid EXCEPT ![m] = 1]
           \/ pc[m] = "fill" /\ pc' = [pc EXCEPT ![m] = "enable"] /\ oid' = oid
    BY DEF InitShm, FillDatabase, GoTo, Processes, ProcPlaces, Leading, Making, Drives
  <1>2. /\ Typed' /\ Others(s) /\ shm'[s].made
        /\ InitShm(m) => /\ ~shm'[s].ready /\ shm'[s].proc_oid_next = 2
                         /\ shm'[s].manager_alive_ts = "zero"
                         /\ shm'[s].readable = shm[s].readable
        /\ FillDatabase(m) => shm'[s].ready /\ shm'[s].proc_oid_next = shm[s].proc_oid_next
    BY <1>1, InitShmEffect, FillEffect DEF SegStages, ProcsKept
  <1>3. \A q \in Processes \ {m} : pc'[q] = pc[q] /\ seg'[q] = seg[q]
    BY <1>1 DEF ProcShape
  <1>4. ProcPlaces'
    BY <1>1 DEF ProcPlaces, ProcShape, Entered, Joining, Leading, Filled, Making
  <1>5. CASE s \in shared
    BY <1>1, <1>2, <1>3, <1>4, <1>5, SharedStep
  <1>6. CASE s \in OwnSegs
    <2>1. /\ ~shm[s].ready /\ s \in sized /\ ~shm[s].readable
          /\ FillDatabase(m) => shm'[s].proc_oid_next # 0
      BY <1>1, <1>2, <1>6 DEF Stages, SegStages, Making, FillDatabase
    <2>2. \A t \in Segs : t = s \/ shm'[t] = shm[t]
      BY <1>2 DEF Others
    <2>3. OwnSegs' = OwnSegs /\ OwnSegs \subseteq Segs /\ hard' = hard
      BY <1>1 DEF OwnSegs, hard
    <2>4. ASSUME NEW q \in Processes \ {m}, seg[q] = s
          PROVE  /\ ~Drives(q) /\ pc[q] \notin {"slot"} \cup Entered
                 /\ pc[q] = "alive" => hard
      BY <1>1, <1>6, <2>1, <2>4 DEF OneDriver, Stages
    <2>5. SegStages'
      <3>1. \A q \in Processes : seg'[q] # NoSeg => shm'[seg'[q]].made
        BY <1>1, <1>2, <2>2 DEF SegStages, ProcShape
      <3>2. name' # NoSeg => shm'[name'].made
        BY <1>1, <1>2, <2>2 DEF SegStages, ProcShape
      <3>3. \A t \in Segs : ~shm'[t].made => shm'[t] = Blank /\ t \notin shared'
        BY <1>1, <1>2, <2>2 DEF SegStages
      <3>4. shm'[s].proc_oid_next # 0
        BY <1>2, <2>1
      <3>5. shm'[s].manager_alive_ts # "zero" \/ shm'[s].readable => shm'[s].ready
        BY <1>2, <2>1
      <3>6. ASSUME NEW t \in OwnSegs
            PROVE  /\ shm'[t].manager_alive_ts # "zero" \/ shm'[t].readable => shm'[t].ready
                   /\ shm'[t].ready => shm'[t].proc_oid_next # 0 /\ t \in sized'
                   /\ shm'[t].proc_oid_next = 0 =>
                        shm'[t].objs = {} /\ \A i \in Slots : shm'[t].proc[i] = FreeSlot
        <4>1. CASE t = s
          BY <1>1, <2>1, <3>4, <3>5, <4>1
        <4>2. CASE t # s
          BY <1>1, <2>2, <2>3, <4>2 DEF SegStages
        <4> QED BY <4>1, <4>2
      <3> QED BY <2>3, <3>1, <3>2, <3>3, <3>6 DEF SegStages
    <2>6. OneDriver'
      BY <1>1, <1>3, <2>3 DEF OneDriver, Drives
    <2>7. Stages'
      <3>1. ASSUME NEW q \in Processes \ {m}, seg'[q] \in OwnSegs,
                   pc'[q] \in {"slot", "fill"} \cup Making \cup Filled \cup Entered
                     \/ (pc'[q] = "alive" /\ ~hard)
            PROVE  shm'[seg'[q]] = shm[seg[q]]
        BY <1>3, <2>2, <2>3, <2>4, <3>1 DEF Drives, Leading
      <3>2. /\ pc'[m] = "fill" => ~shm'[s].ready /\ shm'[s].proc_oid_next # 0
            /\ pc'[m] = "enable" => shm'[s].ready
            /\ pc'[m] \in {"fill", "enable"} /\ seg'[m] = s
        <4>1. CASE InitShm(m)
          <5>1. pc[m] = "init"
            BY <4>1 DEF InitShm
          <5> QED BY <1>1, <1>2, <4>1, <5>1 DEF ProcShape
        <4>2. CASE FillDatabase(m)
          <5>1. pc[m] = "fill"
            BY <4>2 DEF FillDatabase
          <5> QED BY <1>1, <1>2, <4>2, <5>1 DEF ProcShape
        <4> QED BY <4>1, <4>2
      <3>3. ASSUME NEW q \in Processes \ {m}, seg'[q] \in OwnSegs
            PROVE  /\ pc'[q] \in Making =>
                        ~shm'[seg'[q]].ready /\ shm'[seg'[q]].proc_oid_next = 0
                   /\ pc'[q] = "fill" => ~shm'[seg'[q]].ready /\ shm'[seg'[q]].proc_oid_next # 0
                   /\ pc'[q] \in {"init", "fill"} => seg'[q] \in sized'
                   /\ pc'[q] \in Filled => shm'[seg'[q]].ready
                   /\ pc'[q] \in {"slot"} \cup Entered => shm'[seg'[q]].ready
                   /\ pc'[q] = "alive" /\ ~hard => shm'[seg'[q]].ready
        BY <1>1, <1>3, <3>1, <3>3 DEF Stages, Making
      <3> QED BY <1>1, <2>1, <2>3, <3>2, <3>3 DEF Stages, Filled, Entered, Making
    <2> QED BY <1>4, <2>5, <2>6, <2>7
  <1> QED BY <1>1, <1>5, <1>6 DEF OwnSegs

LEMMA BeginEntry ==
  ASSUME EntryInv, NEW m \in Managers, OpenNew(m) \/ InitShm(m) \/ FillDatabase(m)
  PROVE  EntryInv'
  <1> USE DEF EntryInv
  <1>1. m \in Processes /\ m \notin Clients /\ Managers \subseteq Processes
        /\ (pc[m] \in {"init", "fill"} => seg[m] \in Segs)
    BY DEF Processes, ProcPlaces, Leading, Making
  <1>2. /\ UNCHANGED <<lives, todo, scan, victim, evicted>>
        /\ \E pl \in {"size", "fill", "enable"} : pc' = [pc EXCEPT ![m] = pl]
        /\ Typed' /\ pc[m] \notin {"probe", "purge"}
        /\ oid' = oid \/ oid' = [oid EXCEPT ![m] = 1]
        /\ name' = name \/ name' \in Segs
        /\ seg' = seg \/ \E s \in Segs : seg' = [seg EXCEPT ![m] = s]
        /\ sized' \subseteq Segs /\ shared' \subseteq Segs
    <2>1. CASE OpenNew(m)
      <3>1. /\ pc[m] = "new" /\ pc' = [pc EXCEPT ![m] = "size"]
            /\ UNCHANGED <<lives, oid, todo, scan, victim, evicted>>
        BY <2>1 DEF OpenNew, GoTo
      <3>2. PICK s \in Segs : OpensFresh(m, s) \/ OpensOld(m, s)
        BY <2>1, OpenNewEffect
      <3> QED BY <3>1, <3>2 DEF OpensFresh, OpensOld, NewSeg, ProcShape
    <2>2. CASE InitShm(m)
      <3>1. /\ pc[m] = "init" /\ pc' = [pc EXCEPT ![m] = "fill"]
            /\ oid' = [oid EXCEPT ![m] = 1]
            /\ UNCHANGED <<name, seg, lives, todo, scan, victim, marks>>
        BY <2>2 DEF InitShm, GoTo
      <3>2. Typed'
        BY <2>2, InitShmEffect
      <3> QED BY <3>1, <3>2 DEF ProcShape
    <2>3. CASE FillDatabase(m)
      <3>1. /\ pc[m] = "fill" /\ pc' = [pc EXCEPT ![m] = "enable"]
            /\ UNCHANGED <<name, seg, lives, oid, todo, scan, victim, marks>>
        BY <2>3 DEF FillDatabase, GoTo
      <3> QED BY <1>1, <2>3, <3>1, FillEffect DEF ProcShape
    <2> QED BY <2>1, <2>2, <2>3
  <1>3. ProcShape'
    <2>1. pc' \in [Processes -> Places] /\ \A c \in Clients : pc'[c] \in {"dead"} \cup Joining \cup Entered
      BY <1>1, <1>2 DEF ProcShape, Places, Leading, Filled, Making, Processes
    <2>2. \A n \in Managers : pc'[n] \in {"probe", "purge"} => scan'[n] \in Slots
      BY <1>1, <1>2 DEF ProcShape
    <2> QED BY <1>2, <2>1, <2>2 DEF ProcShape, Typed
  <1> QED BY <1>3, OpenEntry, MakeEntry

LEMMA StaleEntry ==
  ASSUME EntryInv, NEW s \in Segs, GoesStale(s)
  PROVE  EntryInv'
  <1> USE DEF EntryInv
  <1>1. /\ Typed' /\ \A t \in Segs : /\ shm'[t].made = shm[t].made /\ shm'[t].ready = shm[t].ready
                                     /\ shm'[t].proc_oid_next = shm[t].proc_oid_next
                                     /\ t # s => shm'[t] = shm[t]
    BY StaleEffect DEF TsChange, Others, ProcsKept
  <1>2. UNCHANGED <<name, cast, pc, lives, seg, oid, todo, scan, victim, marks>>
    BY DEF GoesStale
  <1>3. ProcShape' /\ ProcPlaces' /\ OneDriver'
    BY <1>1, <1>2 DEF ProcShape, Typed, ProcPlaces, OneDriver, Drives, OwnSegs
  <1>4. Stages'
    BY <1>1, <1>2 DEF Stages, OwnSegs, hard
  <1>5. SegStages'
    <2>1. shm[s].made /\ (s \in OwnSegs => shm[s].ready /\ shm[s].proc_oid_next # 0)
      BY DEF GoesStale, SegStages, Blank
    <2>2. \A q \in Processes : seg'[q] # NoSeg => shm'[seg'[q]].made
      BY <1>1, <1>2 DEF SegStages, ProcShape
    <2>3. name' # NoSeg => shm'[name'].made
      BY <1>1, <1>2 DEF SegStages, ProcShape
    <2>4. \A t \in Segs : ~shm'[t].made => shm'[t] = Blank /\ t \notin shared'
      BY <1>1, <1>2, <2>1 DEF SegStages
    <2>5. ASSUME NEW t \in OwnSegs'
          PROVE  /\ shm'[t].manager_alive_ts # "zero" \/ shm'[t].readable => shm'[t].ready
                 /\ shm'[t].ready => shm'[t].proc_oid_next # 0 /\ t \in sized'
                 /\ shm'[t].proc_oid_next = 0 =>
                      shm'[t].objs = {} /\ \A i \in Slots : shm'[t].proc[i] = FreeSlot
      <3>1. t \in OwnSegs /\ t \in Segs
        BY <1>2 DEF OwnSegs
      <3>2. CASE t = s
        BY <1>1, <1>2, <2>1, <3>1, <3>2 DEF SegStages
      <3>3. CASE t # s
        BY <1>1, <1>2, <3>1, <3>3 DEF SegStages
      <3> QED BY <3>2, <3>3
    <2> QED BY <2>2, <2>3, <2>4, <2>5 DEF SegStages
  <1> QED BY <1>3, <1>4, <1>5

LEMMA NextEntry == EntryInv /\ [ProcNext]_procVars => EntryInv'
  <1> SUFFICES ASSUME EntryInv, [ProcNext]_procVars PROVE EntryInv'
    OBVIOUS
  <1>1. CASE UNCHANGED procVars
    BY <1>1 DEF procVars, EntryInv, ProcShape, ProcPlaces, SegStages, OneDriver, Drives, Stages,
                OwnSegs, hard
  <1>2. ASSUME NEW p \in Processes, AsideStep(p) \/ ConnectStep(p) PROVE EntryInv'
    <2>1. CASE ProgramAside(p)
      BY <2>1, ConnectShape, ConnectPlaces, ConnectStages DEF EntryInv
    <2>2. CASE TakeSlot(p) \/ InsertProcess(p) \/ DeleteOwn(p) \/ ReleaseSlot(p)
      BY <2>2, ProgramInEntry
    <2> QED BY <1>2, <2>1, <2>2 DEF AsideStep, ConnectStep, ProgramAside
  <1>3. ASSUME NEW p \in Clients, CreateObject(p) PROVE EntryInv'
    BY <1>3, ProgramInEntry DEF Processes
  <1>4. ASSUME NEW m \in Managers, ManagerAsideStep(m) \/ ManagerStep(m) PROVE EntryInv'
    <2>1. CASE ManagerAside(m)
      BY <2>1, ManagerAsideShape, ManagerAsideEntry DEF EntryInv
    <2>2. CASE OpenNew(m) \/ InitShm(m) \/ FillDatabase(m)
      BY <2>2, BeginEntry
    <2>3. CASE \/ ConnectEnable(m) \/ DeleteOfDead(m) \/ ClearSlot(m) \/ NextRound(m)
               \/ MainLoop(m) \/ DestroyDatabase(m)
      BY <2>3, ManagerInEntry
    <2> QED BY <1>4, <2>1, <2>2, <2>3 DEF ManagerAsideStep, ManagerStep, ManagerAside
  <1>5. ASSUME NEW s \in Segs, GoesStale(s) PROVE EntryInv'
    BY <1>5, StaleEntry
  <1> QED BY <1>1, <1>2, <1>3, <1>4, <1>5 DEF ProcNext

\* Whoever gets beyond the wait for the manager finds the database filled and the
\* segment of its size, although the name leads to a segment before its manager has
\* cleared it - as long as no second manager opens the segment as new.
THEOREM EntryAlways == ProcSpec => []ReadyBeforeEntered
  <1>1. EntryInv => ReadyBeforeEntered
    BY DEF EntryInv, SegStages, Stages, ReadyBeforeEntered, Connected, Entered
  <1> QED BY <1>1, InitEntry, NextEntry, PTL DEF ProcSpec

-----------------------------------------------------------------------------
(* What a step of one process does to the slots and objects of a segment. *)

Acts(p) ==
  \/ AsideStep(p) \/ ConnectStep(p)
  \/ p \in Clients /\ CreateObject(p)
  \/ p \in Managers /\ (ManagerAsideStep(p) \/ ManagerStep(p))

\* Slots are given back by who leaves, cleared by the manager and taken; objects are
\* made and deleted by their process, deleted for the dead, and number 1 is the manager.
\* (Of the segments that stay one manager's.)
SlotsFrame(p) ==
  \A s \in OwnSegs', i \in Slots :
    LET old == shm[s].proc[i]
        new == shm'[s].proc[i]
    IN \/ new = old
       \/ /\ new = FreeSlot /\ s = seg[p]
          /\ \/ pc[p] = "leave" /\ pc'[p] = "off" /\ todo[p] = {} /\ old.pid = Pid(p)
             \/ /\ pc[p] = "purge" /\ pc'[p] = "look" /\ todo[p] = {} /\ i = scan[p]
                /\ old.pid = victim[p] \/ old.proc_oid \in evicted'[s]
       \/ /\ old = FreeSlot /\ s = seg[p] /\ pc[p] = "slot"
          /\ new = [proc_oid |-> shm[s].proc_oid_next, pid |-> Pid(p)]
          /\ shm'[s].proc_oid_next = shm[s].proc_oid_next + 1
          /\ \A j \in Slots \ {i} : shm'[s].proc[j] = shm[s].proc[j]

NextFrame(p) ==
  \A s \in OwnSegs' :
    \/ shm'[s].proc_oid_next = shm[s].proc_oid_next
    \/ /\ s = seg[p] /\ pc[p] = "slot"
       /\ shm'[s].proc_oid_next = shm[s].proc_oid_next + 1
    \/ shm[s].proc_oid_next = 0 /\ shm'[s].proc_oid_next = 2

ObjsFrame(p) ==
  \A s \in OwnSegs', x \in Objects :
    \/ x \in shm'[s].objs <=> x \in shm[s].objs
    \/ /\ s = seg[p]
       /\ \/ pc[p] = "insert" /\ pc'[p] = "on" /\ x.owner = oid[p] /\ x \in shm'[s].objs
          \/ pc[p] = "on" /\ pc'[p] = "on" /\ x.owner = oid[p] /\ x \in shm'[s].objs
          \/ pc[p] \in {"leave", "purge"} /\ x \in todo[p] /\ x \notin shm'[s].objs
          \/ pc[p] = "fill" /\ x.owner = 1 /\ x.kind # "persistent"
             /\ x \in shm'[s].objs
          \/ pc[p] = "killed" /\ x.owner = 1 /\ x \notin shm'[s].objs

MarksFrame(p) ==
  /\ OwnSegs' \subseteq OwnSegs /\ cast' = cast
  /\ \A s \in OwnSegs' :
       /\ evicted[s] \subseteq evicted'[s]
       /\ \A o \in evicted'[s] \ evicted[s] :
            p \in Managers /\ pc[p] = "purge" /\ s = seg[p] /\ o = Slot(p).proc_oid

SlotsInv == SlotIds /\ Holders /\ OwnObjects /\ Purging

SlotsSame == \A s \in OwnSegs' : /\ shm'[s].proc = shm[s].proc
                                /\ shm'[s].proc_oid_next = shm[s].proc_oid_next
                                /\ shm'[s].proc_free = shm[s].proc_free
ObjsSame == \A s \in OwnSegs' : shm'[s].objs = shm[s].objs

LEMMA RoundSame ==
  ASSUME EntryInv, NEW m \in Managers, ConnectEnable(m) \/ NextRound(m) \/ MainLoop(m)
  PROVE  SlotsSame /\ ObjsSame
  BY RoundEffect DEF EntryInv, TsChange, Others, ProcsKept, SlotsSame, ObjsSame, OwnSegs

LEMMA StaleSame ==
  ASSUME EntryInv, NEW s \in Segs, GoesStale(s)
  PROVE  SlotsSame /\ ObjsSame
  BY StaleEffect DEF EntryInv, TsChange, Others, ProcsKept, SlotsSame, ObjsSame, OwnSegs

LEMMA AsideSame ==
  ASSUME NEW p, ProgramAside(p) \/ ManagerAside(p)
  PROVE  SlotsSame /\ ObjsSame
  BY DEF ProgramAside, ManagerAside, Start, OpenShm, NothingThere, ManagerAlive, NoSlotLeft,
         InsertFails, Disconnect, Exit, Crash, Fault, LookAtSlot, FoundAlive, FoundDead,
         KillProcs, UnlinkShm, UnlinkOld, SetSize, FillFails, SlotsSame, ObjsSame

LEMMA NewSegSame ==
  ASSUME EntryInv, NEW m \in Managers, OpenNew(m)
  PROVE  SlotsSame /\ ObjsSame
  <1>1. PICK s \in Segs : OpensFresh(m, s) \/ OpensOld(m, s)
    BY OpenNewEffect DEF EntryInv
  <1>2. CASE OpensFresh(m, s)
    <2>1. shm[s] = Blank
      BY <1>2 DEF OpensFresh, EntryInv, SegStages
    <2>2. /\ shm[s].objs = {} /\ shm[s].proc = [i \in Slots |-> FreeSlot]
          /\ shm[s].proc_free = 0 /\ shm[s].proc_oid_next = 0
      BY <2>1 DEF Blank
    <2> QED BY <1>2, <2>2 DEF OpensFresh, NewSeg, Others, ObjsSame, SlotsSame, OwnSegs
  <1>3. CASE OpensOld(m, s)
    BY <1>3 DEF OpensOld, NewSeg, Others, ObjsSame, SlotsSame, OwnSegs
  <1> QED BY <1>1, <1>2, <1>3

LEMMA SameFrames ==
  ASSUME NEW p, SlotsSame
  PROVE  SlotsFrame(p) /\ NextFrame(p)
  BY DEF SlotsSame, SlotsFrame, NextFrame

\* InitShm clears what is clear.
LEMMA InitShmFrames ==
  ASSUME EntryInv, NEW m \in Managers, InitShm(m)
  PROVE  SlotsFrame(m) /\ NextFrame(m) /\ ObjsSame
  <1>0. seg[m] \in Segs /\ OwnSegs' = OwnSegs /\ OwnSegs \subseteq Segs
    BY DEF InitShm, EntryInv, ProcPlaces, Making, Processes, OwnSegs
  <1>1. seg[m] \in OwnSegs => shm[seg[m]].proc_oid_next = 0
    BY DEF InitShm, EntryInv, Stages, Making, Processes
  <1>2. seg[m] \in OwnSegs =>
          shm[seg[m]].objs = {} /\ \A i \in Slots : shm[seg[m]].proc[i] = FreeSlot
    BY <1>1 DEF EntryInv, SegStages
  <1>3. /\ Others(seg[m]) /\ shm'[seg[m]].objs = {} /\ shm'[seg[m]].proc_oid_next = 2
        /\ shm'[seg[m]].proc = [i \in Slots |-> FreeSlot]
    BY InitShmEffect DEF EntryInv
  <1>4. \A s \in OwnSegs, i \in Slots : shm'[s].proc[i] = shm[s].proc[i]
    BY <1>0, <1>2, <1>3 DEF Others
  <1>5. SlotsFrame(m)
    BY <1>0, <1>4 DEF SlotsFrame
  <1>6. NextFrame(m)
    BY <1>0, <1>1, <1>3 DEF Others, NextFrame
  <1>7. ObjsSame
    BY <1>0, <1>2, <1>3 DEF Others, ObjsSame
  <1> QED BY <1>5, <1>6, <1>7

LEMMA TakeFrames ==
  ASSUME EntryInv, SlotIds, NEW p \in Processes, TakeSlot(p)
  PROVE  SlotsFrame(p) /\ NextFrame(p) /\ ObjsSame
  <1>1. seg[p] \in Segs /\ pc[p] = "slot" /\ OwnSegs' = OwnSegs /\ OwnSegs \subseteq Segs
    BY DEF TakeSlot, EntryInv, ProcPlaces, OwnSegs
  <1> DEFINE s == seg[p]
             e == [proc_oid |-> shm[s].proc_oid_next, pid |-> Pid(p)]
  <1>2. PICK i \in FreeSlots(s) :
           SlotsChange(s, [shm[s].proc EXCEPT ![i] = e],
                       shm[s].proc_oid_next + 1, shm[s].proc_free - 1)
    BY TakeEffect DEF EntryInv
  <1>3. i \in Slots /\ (s \in OwnSegs => shm[s].proc[i] = FreeSlot)
    <2>1. shm[s].proc[i].proc_oid = 0 /\ i \in Slots /\ shm[s].proc[i] \in ProcSlot
      BY <1>1, ObjsTyped DEF FreeSlots, EntryInv
    <2>2. s \in OwnSegs => shm[s].proc[i].pid = NoPid
      BY <1>1, <2>1 DEF SlotIds
    <2> QED BY <2>1, <2>2 DEF ProcSlot, FreeSlot
  <1>4. shm[s].proc \in [Slots -> ProcSlot]
    BY <1>1, ObjsTyped DEF EntryInv
  <1>5. \A j \in Slots : shm'[s].proc[j] = IF j = i THEN e ELSE shm[s].proc[j]
    <2> HIDE DEF e
    <2> QED BY <1>2, <1>3, <1>4 DEF SlotsChange
  <1>6. \A t \in Segs \ {s} : shm'[t] = shm[t]
    BY <1>2 DEF SlotsChange, Others
  <1>7. SlotsFrame(p)
    <2>1. shm'[s].proc_oid_next = shm[s].proc_oid_next + 1
      BY <1>2 DEF SlotsChange
    <2>2. shm'[s].proc[i] = e /\ \A j \in Slots \ {i} : shm'[s].proc[j] = shm[s].proc[j]
      BY <1>3, <1>5
    <2> HIDE DEF s
    <2> QED BY <1>1, <1>3, <1>6, <2>1, <2>2 DEF SlotsFrame, s
  <1>8. NextFrame(p)
    BY <1>1, <1>2, <1>6 DEF NextFrame, SlotsChange
  <1>9. ObjsSame
    BY <1>1, <1>2, <1>6 DEF ObjsSame, SlotsChange
  <1> QED BY <1>7, <1>8, <1>9

LEMMA WithoutFrames ==
  ASSUME EntryInv, NEW p \in Processes, NEW gone \in SUBSET Slots, NEW k, seg[p] \in Segs,
         SlotsChange(seg[p], WithoutObjs(seg[p], gone), shm[seg[p]].proc_oid_next, k),
         OwnSegs' = OwnSegs,
         \A i \in gone : seg[p] \in OwnSegs =>
             \/ pc[p] = "leave" /\ pc'[p] = "off" /\ todo[p] = {} /\ InSlot(seg[p], i, p)
             \/ /\ pc[p] = "purge" /\ pc'[p] = "look" /\ todo[p] = {} /\ i = scan[p]
                /\ \/ shm[seg[p]].proc[i].pid = victim[p]
                   \/ shm[seg[p]].proc[i].proc_oid \in evicted'[seg[p]]
  PROVE  SlotsFrame(p) /\ NextFrame(p) /\ ObjsSame
  <1>1. \A j \in Slots :
          shm'[seg[p]].proc[j] = IF j \in gone THEN FreeSlot ELSE shm[seg[p]].proc[j]
    BY DEF SlotsChange, WithoutObjs
  <1>2. OwnSegs \subseteq Segs /\ \A t \in Segs \ {seg[p]} : shm'[t] = shm[t]
    BY DEF SlotsChange, Others, OwnSegs
  <1>3. SlotsFrame(p)
    BY <1>1, <1>2 DEF SlotsFrame, InSlot
  <1>4. NextFrame(p)
    BY <1>2 DEF NextFrame, SlotsChange
  <1>5. ObjsSame
    BY <1>2 DEF ObjsSame, SlotsChange
  <1> QED BY <1>3, <1>4, <1>5

LEMMA ReleaseFrames ==
  ASSUME EntryInv, SlotIds, Holders, NEW p \in Processes, ReleaseSlot(p)
  PROVE  SlotsFrame(p) /\ NextFrame(p) /\ ObjsSame
  <1>1. pc[p] = "leave" /\ pc'[p] = "off" /\ todo[p] = {} /\ seg[p] \in Segs /\ pc[p] \in Entered
    BY DEF ReleaseSlot, GoTo, EntryInv, ProcShape, ProcPlaces, Entered
  <1>2. ASSUME NEW i \in OwnSlots(p), seg[p] \in OwnSegs PROVE InSlot(seg[p], i, p)
    BY <1>1, <1>2 DEF OwnSlots, Holders
  <1>5. OwnSegs' = OwnSegs
    BY DEF OwnSegs, ReleaseSlot
  <1>3. OwnSlots(p) \in SUBSET Slots
    BY DEF OwnSlots
  <1>4. \E k : SlotsChange(seg[p], WithoutObjs(seg[p], OwnSlots(p)), shm[seg[p]].proc_oid_next, k)
    BY ReleaseEffect DEF EntryInv
  <1> QED BY <1>1, <1>2, <1>3, <1>4, <1>5, WithoutFrames

LEMMA ClearFrames ==
  ASSUME EntryInv, NEW m \in Managers, ClearSlot(m)
  PROVE  SlotsFrame(m) /\ NextFrame(m) /\ ObjsSame
  <1>1. /\ pc[m] = "purge" /\ pc'[m] = "look" /\ todo[m] = {} /\ seg[m] \in Segs
        /\ m \in Processes /\ scan[m] \in Slots
    BY DEF ClearSlot, GoTo, EntryInv, ProcShape, ProcPlaces, Leading, Filled, Processes
  <1> DEFINE gone == {scan[m]}
  <1>2. gone \in SUBSET Slots /\ \A i \in gone : i = scan[m]
    BY <1>1
  <1>3. /\ OwnSegs' = OwnSegs
        /\ Slot(m).pid = victim[m] \/ Slot(m).proc_oid \in evicted'[seg[m]]
    BY <1>1 DEF ClearSlot, Misled, OwnSegs, EntryInv, ProcShape
  <1>4. \E k : SlotsChange(seg[m], WithoutObjs(seg[m], gone), shm[seg[m]].proc_oid_next, k)
    BY ClearEffect DEF EntryInv
  <1> HIDE DEF gone
  <1>5. \A i \in gone : \/ shm[seg[m]].proc[i].pid = victim[m]
                         \/ shm[seg[m]].proc[i].proc_oid \in evicted'[seg[m]]
    BY <1>2, <1>3 DEF Slot
  <1> QED BY <1>1, <1>2, <1>3, <1>4, <1>5, WithoutFrames

LEMMA ObjsChangeFrames ==
  ASSUME NEW s \in Segs, NEW objs, ObjsChange(s, objs)
  PROVE  SlotsSame /\ \A t \in OwnSegs' \ {s} : shm'[t].objs = shm[t].objs
  BY DEF ObjsChange, Others, ProcsKept, SlotsSame, OwnSegs

LEMMA ObjsFrames ==
  ASSUME EntryInv, NEW p \in Processes,
         \/ InsertProcess(p) \/ DeleteOwn(p) \/ (p \in Clients /\ CreateObject(p))
         \/ (p \in Managers /\ (FillDatabase(p) \/ DeleteOfDead(p) \/ DestroyDatabase(p)))
  PROVE  SlotsSame /\ ObjsFrame(p)
  <1> USE DEF EntryInv
  <1> DEFINE s == seg[p]
  <1>1. s \in Segs
    BY DEF InsertProcess, DeleteOwn, CreateObject, FillDatabase, DeleteOfDead, DestroyDatabase,
           ProcPlaces, Leading, Filled, Entered
  <1>2. CASE InsertProcess(p)
    <2>1. /\ ObjsChange(s, shm[s].objs \cup {Obj(oid[p], "process")})
          /\ pc[p] = "insert" /\ pc'[p] = "on"
      BY <1>2, InsertEffect
    <2>2. SlotsSame /\ \A t \in OwnSegs' \ {s} : shm'[t].objs = shm[t].objs
      BY <1>1, <2>1, ObjsChangeFrames
    <2>3. shm'[s].objs = shm[s].objs \cup {Obj(oid[p], "process")}
      BY <2>1 DEF ObjsChange
    <2>4. Obj(oid[p], "process").owner = oid[p]
      BY DEF Obj
    <2> QED BY <2>1, <2>2, <2>3, <2>4 DEF ObjsFrame
  <1>3. CASE p \in Clients /\ CreateObject(p)
    <2>1. PICK k \in DataKinds : ObjsChange(s, shm[s].objs \cup {Obj(oid[p], k)})
      BY <1>3, CreateEffect
    <2>2. SlotsSame /\ \A t \in OwnSegs' \ {s} : shm'[t].objs = shm[t].objs
      BY <1>1, <2>1, ObjsChangeFrames
    <2>3. shm'[s].objs = shm[s].objs \cup {Obj(oid[p], k)} /\ pc[p] = "on" /\ pc'[p] = "on"
      BY <1>3, <2>1 DEF ObjsChange, CreateObject
    <2>4. Obj(oid[p], k).owner = oid[p]
      BY DEF Obj
    <2> QED BY <2>2, <2>3, <2>4 DEF ObjsFrame
  <1>4. CASE DeleteOwn(p) \/ (p \in Managers /\ DeleteOfDead(p))
    <2>1. PICK x \in todo[p] : ObjsChange(s, shm[s].objs \ {x})
      BY <1>1, <1>4, DeleteEffect DEF DeleteOwn, DeleteOfDead
    <2>2. SlotsSame /\ \A t \in OwnSegs' \ {s} : shm'[t].objs = shm[t].objs
      BY <1>1, <2>1, ObjsChangeFrames
    <2>3. shm'[s].objs = shm[s].objs \ {x} /\ pc[p] \in {"leave", "purge"}
      BY <1>4, <2>1 DEF ObjsChange, DeleteOwn, DeleteOfDead
    <2> QED BY <2>1, <2>2, <2>3 DEF ObjsFrame
  <1>5. CASE p \in Managers /\ FillDatabase(p)
    <2>1. /\ Others(s) /\ ProcsKept(s) /\ shm'[s].objs = shm[s].objs \cup {Database, Obj(1, "process")}
      BY <1>1, <1>5, FillEffect
    <2>2. /\ pc[p] = "fill"
          /\ \A x \in {Database, Obj(1, "process")} : x.owner = 1 /\ x.kind # "persistent"
      BY <1>5 DEF FillDatabase, Obj, Database
    <2>3. SlotsSame /\ \A t \in OwnSegs' \ {s} : shm'[t].objs = shm[t].objs
      BY <2>1 DEF Others, ProcsKept, SlotsSame, OwnSegs
    <2> QED BY <2>1, <2>2, <2>3 DEF ObjsFrame
  <1>6. CASE p \in Managers /\ DestroyDatabase(p)
    <2>1. ObjsChange(s, shm[s].objs \ OwnedBy(s, 1))
      BY <1>6, DestroyEffect
    <2>2. SlotsSame /\ \A t \in OwnSegs' \ {s} : shm'[t].objs = shm[t].objs
      BY <1>1, <2>1, ObjsChangeFrames
    <2>3. shm'[s].objs = shm[s].objs \ OwnedBy(s, 1) /\ pc[p] = "killed"
      BY <1>6, <2>1 DEF ObjsChange, DestroyDatabase
    <2>4. \A x \in OwnedBy(s, 1) : x.owner = 1
      BY DEF OwnedBy
    <2> QED BY <2>2, <2>3, <2>4 DEF ObjsFrame
  <1> QED BY <1>2, <1>3, <1>4, <1>5, <1>6

LEMMA StepMarks ==
  ASSUME EntryInv, NEW p \in Processes, Acts(p)
  PROVE  MarksFrame(p)
  <1>1. CASE p \in Managers /\ ClearSlot(p)
    <2>1. OwnSegs' = OwnSegs /\ OwnSegs \subseteq Segs /\ cast' = cast /\ pc[p] = "purge"
      BY <1>1 DEF ClearSlot, OwnSegs
    <2>2. \A s \in Segs : evicted'[s] = evicted[s]
            \/ (s = seg[p] /\ evicted'[s] = evicted[s] \cup {Slot(p).proc_oid})
      BY <1>1 DEF ClearSlot, EntryInv, ProcShape
    <2> QED BY <1>1, <2>1, <2>2 DEF MarksFrame
  <1>2. CASE UNCHANGED <<shared, evicted, cast>>
    BY <1>2 DEF MarksFrame, OwnSegs
  <1>3. CASE p \in Managers /\ OpenNew(p)
    BY <1>3 DEF OpenNew, MarksFrame, OwnSegs
  <1>4. CASE AsideStep(p) \/ ConnectStep(p) \/ CreateObject(p)
    BY <1>2, <1>4 DEF AsideStep, Start, OpenShm, NothingThere, Exit, Crash, Fault, ConnectStep,
       ManagerAlive, TakeSlot, NoSlotLeft, InsertProcess, InsertFails, Disconnect, DeleteOwn,
       ReleaseSlot, CreateObject
  <1>5. CASE p \in Managers /\ (ManagerAsideStep(p) \/ ManagerStep(p))
    BY <1>1, <1>2, <1>3, <1>5 DEF ManagerAsideStep, UnlinkOld, SetSize, ConnectEnable,
       UnlinkShm, ManagerStep, InitShm, FillDatabase, FillFails, LookAtSlot, FoundAlive,
       FoundDead, DeleteOfDead, NextRound, MainLoop, KillProcs, DestroyDatabase
  <1> QED BY <1>4, <1>5 DEF Acts

LEMMA StepFrames ==
  ASSUME EntryInv, SlotIds, Holders, NEW p \in Processes, Acts(p)
  PROVE  SlotsFrame(p) /\ NextFrame(p) /\ ObjsFrame(p)
  <1>0. ObjsSame => ObjsFrame(p)
    BY DEF ObjsSame, ObjsFrame
  <1>1. CASE ProgramAside(p) \/ (p \in Managers /\ ManagerAside(p))
    BY <1>0, <1>1, AsideSame, SameFrames
  <1>2. CASE p \in Managers /\ (OpenNew(p) \/ ConnectEnable(p) \/ NextRound(p) \/ MainLoop(p))
    BY <1>0, <1>2, NewSegSame, RoundSame, SameFrames
  <1>3. CASE p \in Managers /\ InitShm(p)
    BY <1>0, <1>3, InitShmFrames
  <1>4. CASE TakeSlot(p) \/ ReleaseSlot(p) \/ (p \in Managers /\ ClearSlot(p))
    BY <1>0, <1>4, TakeFrames, ReleaseFrames, ClearFrames
  <1>5. CASE \/ InsertProcess(p) \/ DeleteOwn(p) \/ (p \in Clients /\ CreateObject(p))
             \/ (p \in Managers /\ (FillDatabase(p) \/ DeleteOfDead(p) \/ DestroyDatabase(p)))
    BY <1>5, ObjsFrames, SameFrames
  <1> QED BY <1>1, <1>2, <1>3, <1>4, <1>5
          DEF Acts, AsideStep, ConnectStep, ManagerAsideStep, ManagerStep, ProgramAside,
              ManagerAside

-----------------------------------------------------------------------------
(* What a step of one process leaves of the others: they stay, or a manager *)
(* has sent them a signal.                                                  *)

StaysSo(q) ==
  /\ pc'[q] = pc[q] /\ seg'[q] = seg[q] /\ oid'[q] = oid[q] /\ todo'[q] = todo[q]
OthersStay(p) ==
  /\ \A q \in Processes \ {p} :
       /\ lives'[q] = lives[q]
       /\ StaysSo(q) \/ pc'[q] = "dead"
  /\ \A m \in Managers \ {p} : scan'[m] = scan[m] /\ victim'[m] = victim[m]

\* A process starts in a new life, or keeps the one it has.
LivesFrame(p) ==
  \/ lives'[p] = lives[p] /\ (pc'[p] # "dead" => pc[p] # "dead")
  \/ pc[p] = "dead" /\ pc'[p] = "open" /\ lives'[p] = lives[p] + 1

LEMMA StepStays ==
  ASSUME EntryInv, NEW p \in Processes, Acts(p)
  PROVE  OthersStay(p) /\ LivesFrame(p)
  <1> USE DEF EntryInv, ProcShape, GoTo
  <1>1. CASE Start(p) \/ OpenShm(p) \/ NothingThere(p) \/ ManagerAlive(p) \/ NoSlotLeft(p)
    BY <1>1 DEF Start, OpenShm, NothingThere, ManagerAlive, NoSlotLeft, Refused,
                OthersStay, StaysSo, LivesFrame
  <1>2. CASE TakeSlot(p) \/ InsertProcess(p) \/ InsertFails(p) \/ CreateObject(p)
    BY <1>2 DEF TakeSlot, InsertProcess, InsertFails, CreateObject, Refused,
                OthersStay, StaysSo, LivesFrame
  <1>3. CASE Disconnect(p) \/ DeleteOwn(p) \/ ReleaseSlot(p)
    BY <1>3 DEF Disconnect, DeleteOwn, DeleteNext, ReleaseSlot,
                OthersStay, StaysSo, LivesFrame
  <1>4. CASE Exit(p) \/ Crash(p) \/ Fault(p) \/ UnlinkShm(p)
    BY <1>4 DEF Exit, Crash, Fault, UnlinkShm, Ends, OthersStay, StaysSo, LivesFrame
  <1>5. CASE UnlinkOld(p) \/ OpenNew(p) \/ SetSize(p) \/ InitShm(p)
    BY <1>5 DEF UnlinkOld, OpenNew, SetSize, InitShm, OthersStay, StaysSo, LivesFrame
  <1>9. CASE FillDatabase(p) \/ FillFails(p) \/ ConnectEnable(p)
    BY <1>9 DEF FillDatabase, FillFails, ConnectEnable, OthersStay, StaysSo, LivesFrame
  <1>6. CASE p \in Managers /\ (LookAtSlot(p) \/ FoundAlive(p) \/ FoundDead(p))
    BY <1>6 DEF LookAtSlot, FoundAlive, FoundDead, OthersStay, StaysSo, LivesFrame
  <1>7. CASE DeleteOfDead(p) \/ ClearSlot(p) \/ NextRound(p) \/ MainLoop(p)
             \/ DestroyDatabase(p)
    BY <1>7 DEF DeleteOfDead, DeleteNext, ClearSlot, NextRound, MainLoop, DestroyDatabase,
                OthersStay, StaysSo, LivesFrame
  <1>8. CASE p \in Managers /\ KillProcs(p)
    <2>1. \A q \in Processes \ {p} :
            \/ q \in Signalled(p) /\ pc'[q] = "dead"
            \/ StaysSo(q)
      BY <1>8, KillEffect DEF Gone, StaysSo
    <2>5. /\ UNCHANGED <<lives, scan>> /\ victim' = [victim EXCEPT ![p] = NoPid]
          /\ pc[p] # "dead"
      BY <1>8 DEF KillProcs
    <2> QED BY <1>8, <2>1, <2>5 DEF OthersStay, LivesFrame
  <1> QED BY <1>1, <1>2, <1>3, <1>4, <1>5, <1>6, <1>7, <1>8, <1>9
          DEF Acts, AsideStep, ConnectStep, ManagerAsideStep, ManagerStep

-----------------------------------------------------------------------------
(* The process list: ids are given once, and who is connected has its slot. *)

LEMMA PidsDiffer ==
  ASSUME ProcShape, ProcPlaces, NEW p \in Processes
  PROVE  /\ Pid(p)[1] = p /\ Pid(p)[2] = lives[p]
         /\ \A q \in Processes : Pid(p) = Pid(q) => p = q
         /\ pc[p] # "dead" => Pid(p) # NoPid /\ Pid(p) \in LivingPids
  <1>1. Pid(p)[1] = p /\ Pid(p)[2] = lives[p] /\ NoPid[2] = 0
    BY DEF Pid, NoPid
  <1>2. \A q \in Processes : Pid(p) = Pid(q) => p = q
    BY DEF Pid
  <1>3. pc[p] # "dead" => Pid(p) # NoPid
    BY <1>1 DEF ProcPlaces
  <1>4. pc[p] # "dead" => Pid(p) \in LivingPids
    BY DEF LivingPids, Alive
  <1> QED BY <1>1, <1>2, <1>3, <1>4

\* The number given next, once the manager has set it.
LEMMA NextIds ==
  ASSUME EntryInv, SlotIds, NEW p \in Processes, seg[p] \in OwnSegs,
         pc[p] \in {"slot", "fill"} \cup Entered \cup Filled
  PROVE  seg[p] \in Segs /\ shm[seg[p]].proc_oid_next \in Nat /\ shm[seg[p]].proc_oid_next >= 2
  <1>1. seg[p] \in Segs
    BY DEF OwnSegs
  <1>2. shm[seg[p]].proc_oid_next # 0
    BY <1>1 DEF EntryInv, Stages, SegStages
  <1>3. shm[seg[p]].proc_oid_next # 1
    BY <1>1 DEF SlotIds
  <1>4. shm[seg[p]].proc_oid_next \in Nat
    BY <1>1, ObjsTyped DEF EntryInv
  <1> QED BY <1>1, <1>2, <1>3, <1>4

LEMMA SlotTyped ==
  ASSUME EntryInv, NEW s \in Segs, NEW i \in Slots
  PROVE  /\ shm[s].proc[i] \in ProcSlot /\ shm[s].proc[i].proc_oid \in Nat
         /\ shm[s].proc[i].pid \in Pids /\ shm[s].proc_oid_next \in Nat
         /\ shm[s].proc[i].pid # NoPid =>
              shm[s].proc[i].pid[1] \in Processes /\ shm[s].proc[i].pid[2] \in Nat
  <1>1. shm[s].proc[i] \in ProcSlot /\ shm[s].proc_oid_next \in Nat
    BY ObjsTyped DEF EntryInv
  <1> QED BY <1>1 DEF ProcSlot, Pids

LEMMA NextGrows ==
  ASSUME EntryInv, SlotIds, NEW p \in Processes, NextFrame(p), MarksFrame(p),
         NEW s \in OwnSegs'
  PROVE  /\ s \in OwnSegs /\ s \in Segs
         /\ shm[s].proc_oid_next \in Nat /\ shm'[s].proc_oid_next \in Nat
         /\ shm'[s].proc_oid_next >= shm[s].proc_oid_next
         /\ shm'[s].proc_oid_next # 1
  <1>0. s \in OwnSegs /\ s \in Segs
    BY DEF MarksFrame, OwnSegs
  <1>1. shm[s].proc_oid_next \in Nat /\ shm[s].proc_oid_next # 1
    BY <1>0, ObjsTyped DEF EntryInv, SlotIds
  <1>2. CASE s = seg[p] /\ pc[p] = "slot" /\ shm'[s].proc_oid_next = shm[s].proc_oid_next + 1
    <2>1. shm[s].proc_oid_next >= 2
      BY <1>0, <1>2, NextIds
    <2> QED BY <1>0, <1>1, <1>2, <2>1
  <1> QED BY <1>0, <1>1, <1>2 DEF NextFrame

LEMMA LivesGrow ==
  ASSUME EntryInv, NEW p \in Processes, OthersStay(p), LivesFrame(p), NEW q \in Processes
  PROVE  lives[q] \in Nat /\ lives'[q] \in Nat /\ lives'[q] >= lives[q]
  <1>1. lives[q] \in Nat
    BY DEF EntryInv, ProcShape
  <1> QED BY <1>1 DEF OthersStay, LivesFrame

\* An entry that is new.
LEMMA TakenEntry ==
  ASSUME EntryInv, SlotIds, NEW p \in Processes, SlotsFrame(p), MarksFrame(p),
         LivesFrame(p), NEW s \in OwnSegs', NEW i \in Slots
  PROVE  LET e == shm'[s].proc[i] IN
         \/ e = shm[s].proc[i]
         \/ e = FreeSlot
         \/ /\ e = [proc_oid |-> shm[s].proc_oid_next, pid |-> Pid(p)]
            /\ shm[s].proc_oid_next >= 2 /\ pc[p] = "slot" /\ s = seg[p]
            /\ shm[s].proc[i] = FreeSlot
            /\ shm'[s].proc_oid_next = shm[s].proc_oid_next + 1
            /\ \A j \in Slots \ {i} : shm'[s].proc[j] = shm[s].proc[j]
            /\ lives'[p] = lives[p]
  <1>1. pc[p] = "slot" /\ s = seg[p] => shm[s].proc_oid_next >= 2
    BY NextIds DEF MarksFrame
  <1>2. pc[p] = "slot" => lives'[p] = lives[p]
    BY DEF LivesFrame
  <1> QED BY <1>1, <1>2 DEF SlotsFrame

StartedBy(pid) == pid # NoPid /\ pid[2] \in 1 .. lives'[pid[1]]

LEMMA SlotIdsKept ==
  ASSUME EntryInv, EntryInv', SlotIds, Holders, NEW p \in Processes,
         SlotsFrame(p), NextFrame(p), ObjsFrame(p), MarksFrame(p), OthersStay(p),
         LivesFrame(p)
  PROVE  SlotIds'
  <1> SUFFICES ASSUME NEW s \in OwnSegs'
               PROVE  /\ shm'[s].proc_oid_next # 1
                      /\ \A i \in Slots :
                           LET e == shm'[s].proc[i] IN
                           /\ e.proc_oid = 0 <=> e.pid = NoPid
                           /\ e.proc_oid # 0 =>
                                /\ e.proc_oid >= 2 /\ e.proc_oid < shm'[s].proc_oid_next
                                /\ StartedBy(e.pid)
                           /\ \A j \in Slots : e.proc_oid = shm'[s].proc[j].proc_oid /\ i # j
                                                 => e.proc_oid = 0
                      /\ \A x \in shm'[s].objs :
                           /\ x.owner >= 1 /\ x.owner < shm'[s].proc_oid_next
                           /\ x.owner = 1 => x.kind # "persistent"
                      /\ \A o \in evicted'[s] :
                           o = 0 \/ (o >= 2 /\ o < shm'[s].proc_oid_next)
    BY DEF SlotIds, Started, StartedBy
  <1>1. /\ s \in OwnSegs /\ s \in Segs
        /\ shm[s].proc_oid_next \in Nat /\ shm'[s].proc_oid_next \in Nat
        /\ shm'[s].proc_oid_next >= shm[s].proc_oid_next /\ shm'[s].proc_oid_next # 1
    BY NextGrows
  <1>2. ASSUME NEW i \in Slots
        PROVE  LET e == shm'[s].proc[i] IN
               /\ e.proc_oid = 0 <=> e.pid = NoPid
               /\ e.proc_oid # 0 =>
                    /\ e.proc_oid >= 2 /\ e.proc_oid < shm'[s].proc_oid_next
                    /\ StartedBy(e.pid)
    <2>1. CASE shm'[s].proc[i] = shm[s].proc[i]
      <3> DEFINE e == shm[s].proc[i]
      <3>1. /\ e.proc_oid = 0 <=> e.pid = NoPid
            /\ e.proc_oid # 0 =>
                 /\ e.proc_oid >= 2 /\ e.proc_oid < shm[s].proc_oid_next
                 /\ Started(e.pid)
        BY <1>1 DEF SlotIds
      <3>2. e.proc_oid \in Nat /\ (e.pid # NoPid => e.pid[1] \in Processes /\ e.pid[2] \in Nat)
        BY <1>1, SlotTyped
      <3>3. e.pid # NoPid => lives'[e.pid[1]] >= lives[e.pid[1]]
                             /\ lives[e.pid[1]] \in Nat /\ lives'[e.pid[1]] \in Nat
        BY <3>2, LivesGrow
      <3> HIDE DEF e
      <3> QED BY SMTT(60), <1>1, <2>1, <3>1, <3>2, <3>3 DEF e, Started, StartedBy
    <2>2. CASE shm'[s].proc[i] = FreeSlot
      BY <2>2 DEF FreeSlot
    <2>3. CASE /\ shm'[s].proc[i] = [proc_oid |-> shm[s].proc_oid_next, pid |-> Pid(p)]
               /\ shm[s].proc_oid_next >= 2 /\ pc[p] = "slot" /\ lives'[p] = lives[p]
               /\ shm'[s].proc_oid_next = shm[s].proc_oid_next + 1
      <3>1. Pid(p) # NoPid /\ Pid(p)[1] = p /\ Pid(p)[2] = lives[p]
        BY <2>3, PidsDiffer DEF EntryInv
      <3>2. lives[p] \in Nat /\ lives[p] # 0
        BY <2>3 DEF EntryInv, ProcShape, ProcPlaces
      <3> QED BY <1>1, <2>3, <3>1, <3>2 DEF StartedBy
    <2> QED BY ZenonT(120), <2>1, <2>2, <2>3, TakenEntry
  <1>3. ASSUME NEW i \in Slots, NEW j \in Slots, i # j,
               shm'[s].proc[i].proc_oid = shm'[s].proc[j].proc_oid
        PROVE  shm'[s].proc[i].proc_oid = 0
    <2>1. CASE shm'[s].proc[i] = FreeSlot \/ shm'[s].proc[j] = FreeSlot
      BY <1>3, <2>1 DEF FreeSlot
    <2>2. CASE shm'[s].proc[i] = shm[s].proc[i] /\ shm'[s].proc[j] = shm[s].proc[j]
      BY <1>1, <1>3, <2>2 DEF SlotIds
    <2>3. ASSUME NEW k \in Slots, NEW l \in Slots, k # l, shm'[s].proc[k].proc_oid # 0,
                 shm'[s].proc[k] = [proc_oid |-> shm[s].proc_oid_next, pid |-> Pid(p)],
                 \A n \in Slots \ {k} : shm'[s].proc[n] = shm[s].proc[n],
                 shm'[s].proc[k].proc_oid = shm'[s].proc[l].proc_oid
          PROVE  FALSE
      <3>1. shm'[s].proc[l] = shm[s].proc[l] /\ shm[s].proc[l].proc_oid = shm[s].proc_oid_next
        BY <2>3
      <3>2. shm[s].proc[l].proc_oid < shm[s].proc_oid_next
        BY <1>1, <2>3, <3>1 DEF SlotIds
      <3> QED BY <1>1, <3>1, <3>2
    <2>4. \/ shm'[s].proc[i] \in {shm[s].proc[i], FreeSlot}
          \/ /\ shm'[s].proc[i] = [proc_oid |-> shm[s].proc_oid_next, pid |-> Pid(p)]
             /\ \A n \in Slots \ {i} : shm'[s].proc[n] = shm[s].proc[n]
      BY TakenEntry
    <2>5. \/ shm'[s].proc[j] \in {shm[s].proc[j], FreeSlot}
          \/ /\ shm'[s].proc[j] = [proc_oid |-> shm[s].proc_oid_next, pid |-> Pid(p)]
             /\ \A n \in Slots \ {j} : shm'[s].proc[n] = shm[s].proc[n]
      BY TakenEntry
    <2> QED BY <1>3, <2>1, <2>2, <2>3, <2>4, <2>5
  <1>4. ASSUME NEW x \in shm'[s].objs
        PROVE  /\ x.owner >= 1 /\ x.owner < shm'[s].proc_oid_next
               /\ x.owner = 1 => x.kind # "persistent"
    <2>1. x \in Objects /\ x.owner \in Nat
      <3>1. x \in Objects
        BY <1>1 DEF EntryInv, ProcShape, Segment
      <3> QED BY <3>1 DEF Objects
    <2>2. CASE x \in shm[s].objs
      BY <1>1, <2>1, <2>2 DEF SlotIds
    <2>3. CASE s = seg[p] /\ pc[p] \in {"insert", "on"} /\ x.owner = oid[p]
      <3>1. oid[p] >= 2 /\ oid[p] < shm[s].proc_oid_next /\ oid[p] \in Nat
        BY <1>1, <2>3 DEF Holders, Entered, EntryInv, ProcShape
      <3> QED BY <1>1, <2>3, <3>1
    <2>4. CASE s = seg[p] /\ pc[p] = "fill" /\ x.owner = 1 /\ x.kind # "persistent"
      <3>1. shm[s].proc_oid_next >= 2
        BY <1>1, <2>4, NextIds
      <3> QED BY <1>1, <2>4, <3>1
    <2> QED BY <2>1, <2>2, <2>3, <2>4 DEF ObjsFrame
  <1>5. ASSUME NEW o \in evicted'[s]
        PROVE  o = 0 \/ (o >= 2 /\ o < shm'[s].proc_oid_next)
    <2>1. CASE o \in evicted[s]
      <3>1. (o = 0 \/ (o >= 2 /\ o < shm[s].proc_oid_next)) /\ o \in Nat
        BY <1>1, <2>1 DEF SlotIds, EntryInv, ProcShape
      <3> QED BY <1>1, <2>1, <3>1 DEF EntryInv, ProcShape
    <2>2. CASE o \notin evicted[s]
      <3>1. pc[p] = "purge" /\ p \in Managers /\ s = seg[p] /\ o = Slot(p).proc_oid
        BY <2>2 DEF MarksFrame
      <3>2. scan[p] \in Slots
        BY <3>1 DEF EntryInv, ProcShape
      <3>3. o = shm[s].proc[scan[p]].proc_oid
        BY <3>1 DEF Slot
      <3>4. o = 0 \/ (o >= 2 /\ o < shm[s].proc_oid_next)
        BY <1>1, <3>2, <3>3 DEF SlotIds
      <3>5. o \in Nat
        BY <1>1, <3>2, <3>3, SlotTyped
      <3> QED BY <1>1, <3>4, <3>5
    <2> QED BY <2>1, <2>2
  <1> QED BY <1>1, <1>2, <1>3, <1>4, <1>5

\* The entry of a living process goes when the process itself gives it back, or is
\* cleared by mistake.
LEMMA EntryStays ==
  ASSUME EntryInv, Purging, NEW p \in Processes, SlotsFrame(p), MarksFrame(p),
         NEW q \in Processes \ {p}, pc[q] # "dead", NEW s \in OwnSegs', NEW i \in Slots
  PROVE  /\ InSlot(s, i, q) =>
              \/ shm'[s].proc[i] = shm[s].proc[i]
              \/ shm'[s].proc[i] = FreeSlot /\ shm[s].proc[i].proc_oid \in evicted'[s]
         /\ shm'[s].proc[i].pid = Pid(q) => shm'[s].proc[i] = shm[s].proc[i]
  <1>1. /\ Pid(p) # Pid(q) /\ Pid(q) # NoPid /\ Pid(q) \in LivingPids /\ s \in OwnSegs
    BY PidsDiffer DEF EntryInv, MarksFrame
  <1>2. CASE shm'[s].proc[i] = shm[s].proc[i]
    BY <1>2
  <1>3. CASE /\ shm'[s].proc[i] = FreeSlot
             /\ pc[p] = "leave" /\ shm[s].proc[i].pid = Pid(p)
    BY <1>1, <1>3 DEF InSlot, FreeSlot
  <1>4. CASE /\ shm'[s].proc[i] = FreeSlot /\ s = seg[p] /\ pc[p] = "purge" /\ i = scan[p]
             /\ shm[s].proc[i].pid = victim[p] \/ shm[s].proc[i].proc_oid \in evicted'[s]
    <2>1. p \in Managers
      BY <1>4 DEF EntryInv, ProcShape, Processes, Joining, Entered
    <2>2. victim[p] \notin LivingPids
      BY <1>1, <1>4, <2>1 DEF Purging
    <2> QED BY <1>1, <1>4, <2>2 DEF InSlot, FreeSlot
  <1>5. CASE /\ shm[s].proc[i] = FreeSlot
             /\ shm'[s].proc[i] = [proc_oid |-> shm[s].proc_oid_next, pid |-> Pid(p)]
    BY <1>1, <1>5 DEF InSlot, FreeSlot
  <1> QED BY <1>2, <1>3, <1>4, <1>5 DEF SlotsFrame

HoldersOf(p) ==
  /\ pc[p] \in Entered /\ seg[p] \in OwnSegs =>
       /\ oid[p] >= 2 /\ oid[p] < shm[seg[p]].proc_oid_next
       /\ \/ oid[p] \in evicted[seg[p]]
          \/ \E i \in Slots : shm[seg[p]].proc[i] = [proc_oid |-> oid[p], pid |-> Pid(p)]
       /\ \A i \in Slots : shm[seg[p]].proc[i].proc_oid = oid[p] => InSlot(seg[p], i, p)
  /\ pc[p] \in Entered => \A s \in OwnSegs, i \in Slots :
       InSlot(s, i, p) => s = seg[p] /\ shm[s].proc[i].proc_oid = oid[p]
  /\ pc[p] \in Joining => \A s \in OwnSegs, i \in Slots : ~InSlot(s, i, p)

LEMMA HoldersSplit == Holders <=> \A p \in Processes : HoldersOf(p)
  BY DEF Holders, HoldersOf

LEMMA OthersHold ==
  ASSUME EntryInv, SlotIds, Holders, Purging, NEW p \in Processes, SlotsFrame(p),
         NextFrame(p), MarksFrame(p), OthersStay(p), LivesFrame(p),
         NEW q \in Processes \ {p}
  PROVE  HoldersOf(q)'
  <1>1. CASE pc'[q] = "dead"
    BY <1>1 DEF HoldersOf, Entered, Joining
  <1>2. CASE StaysSo(q) /\ pc'[q] \in Entered \cup Joining
    <2>1. /\ pc[q] # "dead" /\ Pid(q)' = Pid(q) /\ pc'[q] = pc[q] /\ oid'[q] = oid[q]
          /\ seg'[q] = seg[q] /\ OwnSegs' \subseteq OwnSegs /\ OwnSegs \subseteq Segs
      BY <1>2 DEF StaysSo, Entered, Joining, Pid, OthersStay, MarksFrame, OwnSegs
    <2>2. \A s \in OwnSegs', i \in Slots :
            /\ InSlot(s, i, q) => \/ shm'[s].proc[i] = shm[s].proc[i]
                                  \/ shm[s].proc[i].proc_oid \in evicted'[s]
            /\ InSlot(s, i, q)' => shm'[s].proc[i] = shm[s].proc[i] /\ InSlot(s, i, q)
      BY <2>1, EntryStays DEF InSlot
    <2>3. HoldersOf(q)
      BY HoldersSplit
    <2>4. CASE pc[q] \in Joining
      BY <2>1, <2>2, <2>3, <2>4 DEF HoldersOf, Entered, Joining
    <2>5. CASE pc[q] \in Entered
      <3>1. \A s \in OwnSegs', j \in Slots :
              InSlot(s, j, q)' => s = seg'[q] /\ shm'[s].proc[j].proc_oid = oid'[q]
        BY <2>1, <2>2, <2>3, <2>5 DEF HoldersOf
      <3>2. ASSUME seg[q] \in OwnSegs'
            PROVE  /\ oid[q] >= 2 /\ oid[q] < shm'[seg[q]].proc_oid_next
                   /\ \/ oid[q] \in evicted'[seg[q]]
                      \/ \E i \in Slots :
                           shm'[seg[q]].proc[i] = [proc_oid |-> oid[q], pid |-> Pid(q)]
                   /\ \A i \in Slots :
                        shm'[seg[q]].proc[i].proc_oid = oid[q] => InSlot(seg[q], i, q)'
        <4> DEFINE s == seg[q]
        <4>1. /\ shm[s].proc_oid_next \in Nat /\ shm'[s].proc_oid_next \in Nat
              /\ shm'[s].proc_oid_next >= shm[s].proc_oid_next /\ s \in OwnSegs /\ s \in Segs
          BY <3>2, NextGrows
        <4>2. /\ oid[q] >= 2 /\ oid[q] < shm[s].proc_oid_next /\ oid[q] \in Nat
          BY <2>3, <2>5, <4>1 DEF HoldersOf, EntryInv, ProcShape
        <4>3. \/ oid[q] \in evicted'[s]
              \/ \E i \in Slots : shm'[s].proc[i] = [proc_oid |-> oid[q], pid |-> Pid(q)]
          <5>1. CASE oid[q] \in evicted[s]
            BY <3>2, <5>1 DEF MarksFrame
          <5>2. ASSUME NEW i \in Slots, shm[s].proc[i] = [proc_oid |-> oid[q], pid |-> Pid(q)]
                PROVE  \/ oid[q] \in evicted'[s]
                       \/ shm'[s].proc[i] = [proc_oid |-> oid[q], pid |-> Pid(q)]
            BY <2>2, <3>2, <5>2 DEF InSlot
          <5> QED BY <2>3, <2>5, <4>1, <5>1, <5>2 DEF HoldersOf
        <4>4. ASSUME NEW i \in Slots, shm'[s].proc[i].proc_oid = oid[q]
              PROVE  InSlot(s, i, q)'
          <5>1. CASE shm'[s].proc[i] = shm[s].proc[i]
            BY <2>1, <2>3, <2>5, <4>1, <4>4, <5>1 DEF HoldersOf, InSlot
          <5>2. shm'[s].proc[i] # FreeSlot
            BY <4>2, <4>4 DEF FreeSlot
          <5>3. shm'[s].proc[i] # [proc_oid |-> shm[s].proc_oid_next, pid |-> Pid(p)]
            BY <4>1, <4>2, <4>4
          <5> QED BY <3>2, <5>1, <5>2, <5>3, TakenEntry
        <4> QED BY <4>1, <4>2, <4>3, <4>4
      <3> QED BY <2>1, <2>5, <3>1, <3>2 DEF HoldersOf, Entered, Joining
    <2> QED BY <1>2, <2>1, <2>4, <2>5
  <1>3. CASE pc'[q] \notin Entered \cup Joining
    BY <1>3 DEF HoldersOf
  <1> QED BY <1>1, <1>2, <1>3 DEF OthersStay

\* Process p itself goes on in its place.
LEMMA SamePlaceHolds ==
  ASSUME NEW p \in Processes, HoldersOf(p), SlotsSame, MarksFrame(p), lives'[p] = lives[p],
         \/ pc[p] \in Entered /\ pc'[p] \in Entered /\ oid'[p] = oid[p] /\ seg'[p] = seg[p]
         \/ pc[p] \in Joining /\ pc'[p] \in Joining
         \/ pc'[p] \notin Entered \cup Joining
  PROVE  HoldersOf(p)'
  <1>1. Pid(p)' = Pid(p) /\ OwnSegs' \subseteq OwnSegs
    BY DEF Pid, MarksFrame
  <1>2. /\ \A s \in OwnSegs', i \in Slots : shm'[s].proc[i] = shm[s].proc[i]
        /\ \A s \in OwnSegs' : /\ shm'[s].proc_oid_next = shm[s].proc_oid_next
                               /\ evicted[s] \subseteq evicted'[s]
    BY DEF SlotsSame, MarksFrame
  <1>3. CASE pc[p] \in Entered /\ pc'[p] \in Entered /\ oid'[p] = oid[p] /\ seg'[p] = seg[p]
    <2>1. pc'[p] \notin Joining
      BY <1>3 DEF Entered, Joining
    <2>2. ASSUME seg[p] \in OwnSegs'
          PROVE  /\ oid[p] >= 2 /\ oid[p] < shm'[seg[p]].proc_oid_next
                 /\ \/ oid[p] \in evicted'[seg[p]]
                    \/ \E i \in Slots :
                         shm'[seg[p]].proc[i] = [proc_oid |-> oid[p], pid |-> Pid(p)]
                 /\ \A i \in Slots :
                      shm'[seg[p]].proc[i].proc_oid = oid[p] => InSlot(seg[p], i, p)'
      BY <1>1, <1>2, <1>3, <2>2 DEF HoldersOf, InSlot
    <2>3. \A s \in OwnSegs', i \in Slots :
            InSlot(s, i, p)' => s = seg'[p] /\ shm'[s].proc[i].proc_oid = oid'[p]
      BY <1>1, <1>2, <1>3 DEF HoldersOf, InSlot
    <2> QED BY <1>1, <1>3, <2>1, <2>2, <2>3 DEF HoldersOf
  <1>4. CASE pc[p] \in Joining /\ pc'[p] \in Joining
    <2>1. pc'[p] \notin Entered
      BY <1>4 DEF Entered, Joining
    <2> QED BY <1>1, <1>2, <1>4, <2>1 DEF HoldersOf, InSlot
  <1> QED BY <1>3, <1>4 DEF HoldersOf

LEMMA StartHolds ==
  ASSUME EntryInv, SlotIds, NEW p \in Processes, Start(p)
  PROVE  HoldersOf(p)'
  <1>1. /\ pc'[p] = "open" /\ lives'[p] = lives[p] + 1 /\ lives[p] \in Nat /\ shm' = shm
        /\ OwnSegs' = OwnSegs
    BY DEF Start, GoTo, EntryInv, ProcShape, OwnSegs
  <1>2. ASSUME NEW s \in OwnSegs, NEW i \in Slots, shm[s].proc[i].pid = Pid(p)' PROVE FALSE
    <2>1. shm[s].proc[i].pid[1] = p /\ shm[s].proc[i].pid[2] = lives[p] + 1
      BY <1>1, <1>2 DEF Pid
    <2>2. shm[s].proc[i].proc_oid # 0
      <3>1. shm[s].proc[i].pid # NoPid
        BY <1>1, <2>1 DEF NoPid
      <3> QED BY <3>1 DEF SlotIds
    <2>3. shm[s].proc[i].pid[2] \in 1 .. lives[p]
      BY <2>1, <2>2 DEF SlotIds, Started
    <2> QED BY <1>1, <2>1, <2>3
  <1>3. \A s \in OwnSegs', i \in Slots : ~InSlot(s, i, p)'
    BY <1>1, <1>2 DEF InSlot
  <1> QED BY <1>1, <1>3 DEF HoldersOf, Entered

LEMMA TakeHolds ==
  ASSUME EntryInv, SlotIds, Holders, NEW p \in Processes, TakeSlot(p)
  PROVE  HoldersOf(p)'
  <1>1. /\ pc[p] = "slot" /\ pc'[p] = "insert" /\ seg[p] \in Segs /\ seg' = seg
        /\ oid'[p] = shm[seg[p]].proc_oid_next /\ lives' = lives
        /\ OwnSegs' = OwnSegs /\ OwnSegs \subseteq Segs
    BY DEF TakeSlot, GoTo, EntryInv, ProcShape, ProcPlaces, OwnSegs
  <1> DEFINE s == seg[p]
             e == [proc_oid |-> shm[s].proc_oid_next, pid |-> Pid(p)]
  <1>2. PICK i \in FreeSlots(s) :
           SlotsChange(s, [shm[s].proc EXCEPT ![i] = e],
                       shm[s].proc_oid_next + 1, shm[s].proc_free - 1)
    BY TakeEffect DEF EntryInv
  <1>3. i \in Slots /\ shm[s].proc \in [Slots -> ProcSlot]
    BY <1>1, ObjsTyped DEF FreeSlots, EntryInv
  <1>4. /\ shm'[s].proc[i] = e /\ \A j \in Slots \ {i} : shm'[s].proc[j] = shm[s].proc[j]
        /\ \A t \in Segs \ {s} : shm'[t] = shm[t]
    <2> HIDE DEF e
    <2> QED BY <1>2, <1>3 DEF SlotsChange, Others
  <1>5. Pid(p)' = Pid(p) /\ HoldersOf(p)
    BY <1>1, HoldersSplit DEF Pid
  <1>6. \A t \in OwnSegs, j \in Slots : ~InSlot(t, j, p)
    BY <1>1, <1>5 DEF HoldersOf, Joining
  <1>7. \A t \in OwnSegs, j \in Slots : InSlot(t, j, p)' => t = s /\ j = i
    BY <1>1, <1>4, <1>5, <1>6 DEF InSlot
  <1>8. shm'[s].proc[i] = [proc_oid |-> oid'[p], pid |-> Pid(p)']
    BY <1>1, <1>4, <1>5
  <1>9. s \in OwnSegs =>
          /\ oid'[p] >= 2 /\ oid'[p] < shm'[s].proc_oid_next
          /\ \A j \in Slots : shm'[s].proc[j].proc_oid = oid'[p] => j = i
    <2>1. s \in OwnSegs => shm[s].proc_oid_next >= 2 /\ shm[s].proc_oid_next \in Nat
      BY <1>1, NextIds
    <2>2. shm'[s].proc_oid_next = shm[s].proc_oid_next + 1
      BY <1>2 DEF SlotsChange
    <2>3. s \in OwnSegs => \A j \in Slots : shm[s].proc[j].proc_oid # shm[s].proc_oid_next
      BY <2>1, SlotTyped, <1>1 DEF SlotIds
    <2> QED BY <1>1, <1>4, <2>1, <2>2, <2>3
  <1> HIDE DEF e
  <1> QED BY <1>1, <1>3, <1>5, <1>7, <1>8, <1>9 DEF HoldersOf, Joining, InSlot

LEMMA ReleaseHolds ==
  ASSUME EntryInv, Holders, NEW p \in Processes, ReleaseSlot(p)
  PROVE  HoldersOf(p)'
  <1>1. /\ pc[p] = "leave" /\ pc'[p] = "off" /\ lives' = lives /\ pc[p] \in Entered
        /\ OwnSegs' = OwnSegs /\ OwnSegs \subseteq Segs
    BY DEF ReleaseSlot, GoTo, EntryInv, ProcShape, Entered, OwnSegs
  <1>2. /\ \A j \in Slots : shm'[seg[p]].proc[j] =
             IF j \in OwnSlots(p) THEN FreeSlot ELSE shm[seg[p]].proc[j]
        /\ \A t \in Segs \ {seg[p]} : shm'[t] = shm[t]
    <2>1. \E n, k : SlotsChange(seg[p], WithoutObjs(seg[p], OwnSlots(p)), n, k)
      BY ReleaseEffect DEF EntryInv
    <2> QED BY <2>1 DEF SlotsChange, WithoutObjs, Others
  <1>3. Pid(p)' = Pid(p) /\ Pid(p) # NoPid /\ HoldersOf(p)
    BY <1>1, HoldersSplit, PidsDiffer DEF Pid, EntryInv
  <1>4. ASSUME NEW t \in OwnSegs, NEW j \in Slots, InSlot(t, j, p)' PROVE FALSE
    <2>1. CASE t = seg[p] /\ j \in OwnSlots(p)
      BY <1>2, <1>3, <1>4, <2>1 DEF InSlot, FreeSlot
    <2>2. CASE ~(t = seg[p] /\ j \in OwnSlots(p))
      <3>1. InSlot(t, j, p)
        BY <1>1, <1>2, <1>3, <1>4, <2>2 DEF InSlot
      <3>2. t = seg[p] /\ shm[t].proc[j].proc_oid = oid[p] /\ oid[p] >= 2
        BY <1>1, <1>3, <3>1 DEF HoldersOf
      <3>3. j \in OwnSlots(p)
        BY <3>2 DEF OwnSlots
      <3> QED BY <2>2, <3>2, <3>3
    <2> QED BY <2>1, <2>2
  <1> QED BY <1>1, <1>4 DEF HoldersOf, Entered

\* The steps of p that leave every slot as it is, and where they lead.
LEMMA OwnPlace ==
  ASSUME EntryInv, NEW p \in Processes,
         \/ OpenShm(p) \/ NothingThere(p) \/ ManagerAlive(p) \/ NoSlotLeft(p)
         \/ InsertProcess(p) \/ InsertFails(p) \/ (p \in Clients /\ CreateObject(p))
         \/ Disconnect(p) \/ DeleteOwn(p) \/ Exit(p) \/ Crash(p) \/ Fault(p)
  PROVE  /\ SlotsSame /\ lives'[p] = lives[p]
         /\ \/ pc[p] \in Entered /\ pc'[p] \in Entered /\ oid'[p] = oid[p] /\ seg'[p] = seg[p]
            \/ pc[p] \in Joining /\ pc'[p] \in Joining
            \/ pc'[p] \notin Entered \cup Joining
  <1> USE DEF EntryInv, ProcShape, GoTo, Entered, Joining
  <1>1. CASE OpenShm(p) \/ NothingThere(p) \/ ManagerAlive(p) \/ NoSlotLeft(p) \/ InsertFails(p)
    <2>1. SlotsSame
      BY <1>1, AsideSame DEF ProgramAside
    <2> QED BY <1>1, <2>1 DEF OpenShm, NothingThere, ManagerAlive, NoSlotLeft, InsertFails, Refused
  <1>2. CASE InsertProcess(p) \/ (p \in Clients /\ CreateObject(p)) \/ DeleteOwn(p)
    <2>1. SlotsSame
      BY <1>2, ObjsFrames
    <2> QED BY <1>2, <2>1 DEF InsertProcess, CreateObject, DeleteOwn
  <1>3. CASE Disconnect(p) \/ Exit(p) \/ Crash(p) \/ Fault(p)
    <2>1. SlotsSame
      BY <1>3, AsideSame DEF ProgramAside
    <2> QED BY <1>3, <2>1 DEF Disconnect, Exit, Crash, Fault, Ends
  <1> QED BY <1>1, <1>2, <1>3

LEMMA ManagerPlace ==
  ASSUME EntryInv, NEW m \in Managers, ManagerAsideStep(m) \/ ManagerStep(m)
  PROVE  pc'[m] \notin Entered \cup Joining
  <1> USE DEF EntryInv, ProcShape, GoTo, Entered, Joining
  <1>0. m \in Processes
    BY DEF Processes
  <1>1. CASE UnlinkOld(m) \/ OpenNew(m) \/ SetSize(m) \/ ConnectEnable(m) \/ UnlinkShm(m)
    BY <1>0, <1>1 DEF UnlinkOld, OpenNew, SetSize, ConnectEnable, UnlinkShm, Ends
  <1>5. CASE InitShm(m) \/ FillDatabase(m) \/ FillFails(m) \/ DestroyDatabase(m)
    BY <1>0, <1>5 DEF InitShm, FillDatabase, FillFails, DestroyDatabase
  <1>2. CASE LookAtSlot(m) \/ FoundAlive(m) \/ FoundDead(m) \/ NextRound(m) \/ MainLoop(m)
    BY <1>0, <1>2 DEF LookAtSlot, FoundAlive, FoundDead, NextRound, MainLoop
  <1>3. CASE DeleteOfDead(m) \/ ClearSlot(m)
    BY <1>0, <1>3 DEF DeleteOfDead, ClearSlot
  <1>4. CASE KillProcs(m)
    BY <1>4, KillEffect
  <1> QED BY <1>1, <1>2, <1>3, <1>4, <1>5 DEF ManagerAsideStep, ManagerStep

LEMMA HoldersKept ==
  ASSUME EntryInv, SlotIds, Holders, Purging, NEW p \in Processes, Acts(p),
         SlotsFrame(p), NextFrame(p), MarksFrame(p), OthersStay(p), LivesFrame(p)
  PROVE  Holders'
  <1>1. HoldersOf(p)'
    <2>1. CASE Start(p)
      BY <2>1, StartHolds
    <2>2. CASE TakeSlot(p)
      BY <2>2, TakeHolds
    <2>3. CASE ReleaseSlot(p)
      BY <2>3, ReleaseHolds
    <2>4. CASE \/ OpenShm(p) \/ NothingThere(p) \/ ManagerAlive(p) \/ NoSlotLeft(p)
               \/ InsertProcess(p) \/ InsertFails(p) \/ (p \in Clients /\ CreateObject(p))
               \/ Disconnect(p) \/ DeleteOwn(p) \/ Exit(p) \/ Crash(p) \/ Fault(p)
      <3>2. HoldersOf(p)
        BY HoldersSplit
      <3> QED BY <2>4, <3>2, OwnPlace, SamePlaceHolds
    <2>5. CASE p \in Managers /\ (ManagerAsideStep(p) \/ ManagerStep(p))
      BY <2>5, ManagerPlace DEF HoldersOf
    <2> QED BY <2>1, <2>2, <2>3, <2>4, <2>5 DEF Acts, AsideStep, ConnectStep
  <1>2. \A q \in Processes \ {p} : HoldersOf(q)'
    BY OthersHold
  <1>3. Holders' <=> \A q \in Processes : HoldersOf(q)'
    BY DEF Holders, HoldersOf
  <1> QED BY <1>1, <1>2, <1>3

-----------------------------------------------------------------------------
(* The objects of a process and those purge_procs deletes. *)

LEMMA IdsKept ==
  ASSUME EntryInv, SlotIds, Holders, IdsAreUnique, NEW p \in Processes, Acts(p),
         MarksFrame(p), OthersStay(p)
  PROVE  IdsAreUnique'
  <1>1. \A q \in Processes \ {p} : pc'[q] \in Entered =>
          pc[q] \in Entered /\ seg'[q] = seg[q] /\ oid'[q] = oid[q]
    BY DEF OthersStay, StaysSo, Entered
  <1>2. OwnSegs' \subseteq OwnSegs /\ OwnSegs \subseteq Segs
    BY DEF MarksFrame, OwnSegs
  <1>3. CASE TakeSlot(p)
    <2>1. /\ pc[p] = "slot" /\ seg' = seg /\ oid'[p] = shm[seg[p]].proc_oid_next
      BY <1>3 DEF TakeSlot, EntryInv, ProcShape
    <2>2. \A q \in Processes \ {p} :
            pc'[q] \in Entered /\ seg'[q] = seg[p] /\ seg[p] \in OwnSegs => oid'[q] # oid'[p]
      <3>1. ASSUME NEW q \in Processes \ {p}, pc'[q] \in Entered, seg'[q] = seg[p],
                   seg[p] \in OwnSegs
            PROVE  oid'[q] # oid'[p]
        <4>1. oid[q] \in Nat /\ shm[seg[p]].proc_oid_next \in Nat
          BY <1>2, <3>1, ObjsTyped DEF EntryInv, ProcShape
        <4>2. HoldersOf(q)
          BY HoldersSplit
        <4>3. oid[q] < shm[seg[p]].proc_oid_next
          BY <1>1, <3>1, <4>2 DEF HoldersOf
        <4> QED BY <1>1, <2>1, <3>1, <4>1, <4>3
      <3> QED BY <3>1
    <2> QED BY <1>1, <1>2, <2>1, <2>2 DEF IdsAreUnique
  <1>4. CASE pc'[p] \in Entered => pc[p] \in Entered /\ seg'[p] = seg[p] /\ oid'[p] = oid[p]
    BY <1>1, <1>2, <1>4 DEF IdsAreUnique
  <1>5. CASE Start(p) \/ ReleaseSlot(p)
    BY <1>4, <1>5 DEF Start, ReleaseSlot, GoTo, Entered, EntryInv, ProcShape
  <1>6. CASE p \in Managers /\ (ManagerAsideStep(p) \/ ManagerStep(p))
    BY <1>4, <1>6, ManagerPlace
  <1>7. CASE \/ OpenShm(p) \/ NothingThere(p) \/ ManagerAlive(p) \/ NoSlotLeft(p)
             \/ InsertProcess(p) \/ InsertFails(p) \/ (p \in Clients /\ CreateObject(p))
             \/ Disconnect(p) \/ DeleteOwn(p) \/ Exit(p) \/ Crash(p) \/ Fault(p)
    BY <1>4, <1>7, OwnPlace DEF Joining, Entered
  <1> QED BY <1>3, <1>5, <1>6, <1>7 DEF Acts, AsideStep, ConnectStep

\* The slot that purge_procs clears is nobody's who is connected, as long as it is the
\* victim's.
LEMMA PurgedIsNobody ==
  ASSUME EntryInv, Holders, Purging, NEW m \in Managers, pc[m] = "purge",
         seg[m] \in OwnSegs, ~Misled(m),
         NEW p \in Processes, pc[p] \in Entered, seg[p] = seg[m]
  PROVE  Slot(m).proc_oid # oid[p]
  <1>1. scan[m] \in Slots
    BY DEF EntryInv, ProcShape
  <1>2. Slot(m).pid = victim[m] /\ victim[m] \notin LivingPids
    BY DEF Purging, Misled
  <1>3. Slot(m).pid # Pid(p)
    BY <1>2, PidsDiffer DEF Entered, EntryInv
  <1>4. \A i \in Slots : shm[seg[m]].proc[i].proc_oid = oid[p] => InSlot(seg[m], i, p)
    BY HoldersSplit DEF HoldersOf
  <1> QED BY <1>1, <1>3, <1>4 DEF InSlot, Slot

\* The manager of a segment is alone in it.
LEMMA LeaderIsAlone ==
  ASSUME EntryInv, NEW m \in Processes, NEW n \in Processes, pc[m] \in Leading,
         pc[n] \in Leading, seg[m] = seg[n], seg[m] \in OwnSegs
  PROVE  m = n
  BY DEF EntryInv, OneDriver, Drives

OwnObjectsOf(p) == seg[p] \in OwnSegs =>
  /\ pc[p] = "insert" => \A x \in shm[seg[p]].objs : x.owner # oid[p]
  /\ pc[p] = "leave" =>
       Mortal(seg[p], oid[p]) \subseteq todo[p] /\ OwnedList(todo[p], oid[p])

\* A step of another process makes no object of who is connected.
LEMMA OwnObjectsStay ==
  ASSUME EntryInv, Holders, IdsAreUnique, NEW p \in Processes, ObjsFrame(p),
         MarksFrame(p), NEW q \in Processes \ {p}, pc[q] \in Entered, seg[q] \in OwnSegs',
         NEW x \in Objects, x.owner = oid[q], x \in shm'[seg[q]].objs
  PROVE  x \in shm[seg[q]].objs
  <1>1. seg[q] \in OwnSegs
    BY DEF MarksFrame
  <1>2. oid[q] >= 2 /\ oid[q] \in Nat
    BY <1>1 DEF Holders, EntryInv, ProcShape
  <1>3. CASE seg[q] = seg[p] /\ pc[p] \in Entered /\ x.owner = oid[p]
    BY <1>1, <1>3 DEF IdsAreUnique
  <1>4. CASE x.owner = 1
    BY <1>2, <1>4
  <1> QED BY <1>3, <1>4 DEF ObjsFrame, Entered

LEMMA OthersObjects ==
  ASSUME EntryInv, EntryInv', Holders, IdsAreUnique, OwnObjects, NEW p \in Processes,
         ObjsFrame(p), MarksFrame(p), OthersStay(p), NEW q \in Processes \ {p}
  PROVE  OwnObjectsOf(q)'
  <1>1. CASE pc'[q] \notin {"insert", "leave"}
    BY <1>1 DEF OwnObjectsOf
  <1>2. CASE StaysSo(q) /\ pc'[q] \in {"insert", "leave"} /\ seg'[q] \in OwnSegs'
    <2>1. /\ pc'[q] = pc[q] /\ oid'[q] = oid[q] /\ seg'[q] = seg[q] /\ todo'[q] = todo[q]
          /\ pc[q] \in Entered /\ seg[q] \in OwnSegs' /\ seg[q] \in OwnSegs /\ seg[q] \in Segs
      BY <1>2 DEF StaysSo, Entered, MarksFrame, OwnSegs
    <2>2. shm'[seg[q]].objs \subseteq Objects
      BY <2>1 DEF EntryInv, ProcShape, Segment
    <2>3. \A x \in shm'[seg[q]].objs : x.owner = oid[q] => x \in shm[seg[q]].objs
      BY <2>1, <2>2, OwnObjectsStay
    <2>4. CASE pc[q] = "insert"
      <3>1. \A x \in shm[seg[q]].objs : x.owner # oid[q]
        BY <2>1, <2>4 DEF OwnObjects
      <3> QED BY <2>1, <2>3, <2>4, <3>1 DEF OwnObjectsOf
    <2>5. CASE pc[q] = "leave"
      <3>1. Mortal(seg[q], oid[q]) \subseteq todo[q] /\ OwnedList(todo[q], oid[q])
        BY <2>1, <2>5 DEF OwnObjects
      <3>2. \A x \in shm'[seg[q]].objs :
              x.owner = oid[q] /\ x.kind # "persistent" => x \in todo[q]
        BY <2>3, <3>1 DEF Mortal
      <3> QED BY <2>1, <2>5, <3>1, <3>2 DEF OwnObjectsOf, Mortal, OwnedList
    <2> QED BY <1>2, <2>1, <2>4, <2>5
  <1> QED BY <1>1, <1>2 DEF OthersStay, OwnObjectsOf

LEMMA OwnObjectsOwn ==
  ASSUME EntryInv, SlotIds, Holders, OwnObjects, NEW p \in Processes, Acts(p),
         MarksFrame(p)
  PROVE  OwnObjectsOf(p)'
  <1> USE DEF GoTo
  <1>0. /\ pc \in [Processes -> Places] /\ oid \in [Processes -> Nat] /\ DOMAIN todo = Processes
        /\ OwnSegs' \subseteq OwnSegs /\ OwnSegs \subseteq Segs
    BY DEF EntryInv, ProcShape, MarksFrame, OwnSegs
  <1>1. CASE TakeSlot(p)
    <2>1. /\ pc[p] = "slot" /\ pc'[p] = "insert" /\ seg' = seg
          /\ oid'[p] = shm[seg[p]].proc_oid_next
      BY <1>1 DEF TakeSlot, EntryInv, ProcShape
    <2>2. ObjsSame
      BY <1>1, TakeFrames
    <2>3. ASSUME seg[p] \in OwnSegs'
          PROVE  \A x \in shm'[seg[p]].objs : x.owner # shm[seg[p]].proc_oid_next
      <3>1. shm[seg[p]].objs \subseteq Objects /\ shm[seg[p]].proc_oid_next \in Nat
        BY <1>0, <2>3, ObjsTyped DEF EntryInv
      <3>2. \A x \in shm[seg[p]].objs : x.owner < shm[seg[p]].proc_oid_next
        BY <1>0, <2>3 DEF SlotIds
      <3> QED BY <2>2, <2>3, <3>1, <3>2 DEF Objects, ObjsSame
    <2> QED BY <2>1, <2>3 DEF OwnObjectsOf
  <1>2. CASE InsertFails(p)
    <2>1. /\ pc[p] = "insert" /\ pc'[p] \in {"create", "leave"} /\ seg' = seg /\ shm' = shm
          /\ todo' = todo /\ (pc'[p] = "leave" => oid'[p] = oid[p])
      BY <1>0, <1>2 DEF InsertFails, Refused
    <2>2. todo[p] = {} /\ (seg[p] \in OwnSegs => \A x \in shm[seg[p]].objs : x.owner # oid[p])
      BY <2>1 DEF OwnObjects, EntryInv, ProcPlaces
    <2> QED BY <1>0, <2>1, <2>2 DEF OwnObjectsOf, Mortal, OwnedList
  <1>3. CASE Disconnect(p)
    <2>1. /\ pc[p] \in Entered /\ pc'[p] = "leave" /\ UNCHANGED <<shm, seg, oid>>
          /\ todo'[p] = NotKept(OwnedBy(seg[p], oid[p]))
      BY <1>0, <1>3 DEF Disconnect, Entered
    <2>2. seg[p] \in OwnSegs => oid[p] # 0
      <3>1. seg[p] \in OwnSegs => oid[p] >= 2 /\ oid[p] \in Nat
        BY <1>0, <2>1, HoldersSplit DEF HoldersOf
      <3> QED BY <3>1
    <2> QED BY <1>0, <2>1, <2>2 DEF OwnObjectsOf, Mortal, OwnedList, NotKept, OwnedBy
  <1>4. CASE DeleteOwn(p)
    <2>1. /\ pc[p] = "leave" /\ pc'[p] = "leave" /\ UNCHANGED <<seg, oid>> /\ seg[p] \in Segs
      BY <1>4 DEF DeleteOwn, EntryInv, ProcPlaces, Entered
    <2>2. PICK x \in todo[p] : /\ ObjsChange(seg[p], shm[seg[p]].objs \ {x})
                               /\ todo' = [todo EXCEPT ![p] = todo[p] \ {x}]
      BY <1>4, <2>1, DeleteEffect DEF DeleteOwn, EntryInv
    <2>3. shm'[seg[p]].objs = shm[seg[p]].objs \ {x} /\ todo'[p] = todo[p] \ {x}
      BY <1>0, <2>2 DEF ObjsChange
    <2>4. seg[p] \in OwnSegs =>
            Mortal(seg[p], oid[p]) \subseteq todo[p] /\ OwnedList(todo[p], oid[p])
      BY <2>1 DEF OwnObjects
    <2> QED BY <1>0, <2>1, <2>3, <2>4 DEF OwnObjectsOf, Mortal, OwnedList
  <1>5. CASE Start(p) \/ OpenShm(p) \/ NothingThere(p) \/ ManagerAlive(p) \/ NoSlotLeft(p)
    BY <1>0, <1>5 DEF Start, OpenShm, NothingThere, ManagerAlive, NoSlotLeft, Refused,
                      OwnObjectsOf
  <1>6. CASE \/ InsertProcess(p) \/ CreateObject(p) \/ ReleaseSlot(p) \/ Exit(p) \/ Crash(p)
             \/ Fault(p)
    BY <1>0, <1>6 DEF InsertProcess, CreateObject, ReleaseSlot, Exit, Crash, Fault, Ends,
                      OwnObjectsOf
  <1>7. CASE p \in Managers /\ (ManagerAsideStep(p) \/ ManagerStep(p))
    BY <1>7, ManagerPlace DEF OwnObjectsOf, Entered
  <1> QED BY <1>1, <1>2, <1>3, <1>4, <1>5, <1>6, <1>7 DEF Acts, AsideStep, ConnectStep

LEMMA OwnObjectsKept ==
  ASSUME EntryInv, EntryInv', SlotIds, Holders, IdsAreUnique, OwnObjects,
         NEW p \in Processes, Acts(p), ObjsFrame(p), MarksFrame(p), OthersStay(p)
  PROVE  OwnObjects'
  <1>1. OwnObjects' <=> \A q \in Processes : OwnObjectsOf(q)'
    BY DEF OwnObjects, OwnObjectsOf
  <1> QED BY <1>1, OwnObjectsOwn, OthersObjects

-----------------------------------------------------------------------------
(* purge_procs between its look, the kill and the clearing of the slot. *)

\* Nobody lives again under an old process id.
LEMMA DeadStayDead ==
  ASSUME EntryInv, NEW p \in Processes, OthersStay(p), LivesFrame(p), NEW v,
         v \notin LivingPids, Started(v)
  PROVE  v \notin LivingPids'
  <1>1. SUFFICES ASSUME NEW q \in Processes, pc'[q] # "dead", v = Pid(q)' PROVE FALSE
    BY DEF LivingPids, Alive
  <1>2. v[1] = q /\ v[2] = lives'[q] /\ lives[q] \in Nat /\ v[2] \in 1 .. lives[v[1]]
    BY <1>1 DEF Pid, EntryInv, ProcShape, Started
  <1>3. CASE lives'[q] = lives[q] /\ pc[q] # "dead"
    <2>1. v = Pid(q)
      BY <1>1, <1>3 DEF Pid
    <2> QED BY <1>3, <2>1, PidsDiffer DEF EntryInv
  <1>4. CASE lives'[q] = lives[q] + 1
    BY <1>2, <1>4
  <1> QED BY <1>1, <1>3, <1>4 DEF OthersStay, StaysSo, LivesFrame

LEMMA StartedStays ==
  ASSUME EntryInv, NEW p \in Processes, OthersStay(p), LivesFrame(p), NEW v \in Pids,
         Started(v)
  PROVE  StartedBy(v)
  <1>1. v[1] \in Processes /\ v[2] \in Nat
    BY DEF Started, Pids
  <1>2. lives[v[1]] \in Nat /\ lives'[v[1]] \in Nat /\ lives'[v[1]] >= lives[v[1]]
    BY <1>1, LivesGrow
  <1> QED BY <1>1, <1>2 DEF Started, StartedBy

\* The process id in a slot that is in use is a process's that was started.
LEMMA SlotStarted ==
  ASSUME SlotIds, NEW s \in OwnSegs, NEW i \in Slots,
         shm[s].proc[i].proc_oid # 0 \/ shm[s].proc[i].pid # NoPid
  PROVE  /\ shm[s].proc[i].proc_oid # 0 /\ shm[s].proc[i].proc_oid >= 2
         /\ Started(shm[s].proc[i].pid)
  BY DEF SlotIds

PurgingOf(m) == seg[m] \in OwnSegs =>
  /\ pc[m] \in {"probe", "purge"} => Started(victim[m])
  /\ pc[m] = "purge" =>
       /\ victim[m] \notin LivingPids
       /\ \A x \in todo[m] : x.kind # "persistent"
       /\ ~Misled(m) =>
            /\ Mortal(seg[m], Slot(m).proc_oid) \subseteq todo[m]
            /\ OwnedList(todo[m], Slot(m).proc_oid)

\* A slot another process has changed is not the victim's.
LEMMA OthersSlot ==
  ASSUME EntryInv, SlotIds, Purging, NEW p \in Processes, SlotsFrame(p), MarksFrame(p),
         LivesFrame(p), NEW m \in Managers, pc[m] = "purge", seg[m] \in OwnSegs',
         shm'[seg[m]].proc[scan[m]].pid = victim[m]
  PROVE  shm'[seg[m]].proc[scan[m]] = Slot(m)
  <1>1. seg[m] \in OwnSegs /\ scan[m] \in Slots
    BY DEF EntryInv, ProcShape, MarksFrame
  <1>2. victim[m] # NoPid /\ victim[m] \notin LivingPids
    BY <1>1 DEF Purging, Started
  <1>3. shm'[seg[m]].proc[scan[m]] # FreeSlot
    BY <1>2 DEF FreeSlot
  <1>4. pc[p] = "slot" => shm'[seg[m]].proc[scan[m]].pid # Pid(p)
    BY <1>2, PidsDiffer DEF EntryInv
  <1>5. \/ shm'[seg[m]].proc[scan[m]] = shm[seg[m]].proc[scan[m]]
        \/ shm'[seg[m]].proc[scan[m]] = FreeSlot
        \/ /\ shm'[seg[m]].proc[scan[m]] =
                [proc_oid |-> shm[seg[m]].proc_oid_next, pid |-> Pid(p)]
           /\ pc[p] = "slot"
    BY <1>1, TakenEntry
  <1> QED BY <1>3, <1>4, <1>5 DEF Slot

LEMMA OthersPurge ==
  ASSUME EntryInv, EntryInv', SlotIds, Holders, Purging, NEW p \in Processes,
         SlotsFrame(p), ObjsFrame(p), MarksFrame(p), OthersStay(p), LivesFrame(p),
         NEW m \in Managers \ {p}, StaysSo(m), pc[m] = "purge", seg[m] \in OwnSegs',
         ~Misled(m)'
  PROVE  /\ Mortal(seg[m], Slot(m).proc_oid)' \subseteq todo'[m]
         /\ OwnedList(todo[m], Slot(m).proc_oid)'
  <1>1. /\ scan'[m] = scan[m] /\ seg'[m] = seg[m] /\ victim'[m] = victim[m]
        /\ todo'[m] = todo[m] /\ seg[m] \in OwnSegs /\ seg[m] \in Segs /\ scan[m] \in Slots
    BY DEF OthersStay, StaysSo, MarksFrame, OwnSegs, EntryInv, ProcShape
  <1>2. shm'[seg[m]].proc[scan[m]].pid = victim[m]
    BY <1>1 DEF Misled, Slot
  <1>3. shm'[seg[m]].proc[scan[m]] = Slot(m)
    BY <1>2, OthersSlot
  <1>4. Slot(m)' = Slot(m) /\ ~Misled(m)
    BY <1>1, <1>2, <1>3 DEF Slot, Misled
  <1>5. /\ Mortal(seg[m], Slot(m).proc_oid) \subseteq todo[m]
        /\ OwnedList(todo[m], Slot(m).proc_oid)
    BY <1>1, <1>4 DEF Purging
  <1>6. Slot(m).proc_oid >= 2 /\ Slot(m).proc_oid \in Nat
    <2>1. Slot(m).pid # NoPid
      BY <1>1, <1>4 DEF Purging, Misled, Started
    <2>2. Slot(m).proc_oid >= 2
      BY <1>1, <2>1, SlotStarted DEF Slot
    <2> QED BY <1>1, <2>2, SlotTyped DEF Slot
  <1>7. shm'[seg[m]].objs \subseteq Objects
    BY <1>1 DEF EntryInv, ProcShape, Segment
  <1>8. ASSUME NEW x \in Objects, x.owner = Slot(m).proc_oid, x \in shm'[seg[m]].objs
        PROVE  x \in shm[seg[m]].objs
    <2>1. CASE seg[m] = seg[p] /\ pc[p] \in Entered /\ x.owner = oid[p]
      BY <1>1, <1>4, <1>8, <2>1, PurgedIsNobody
    <2>2. x.owner # 1
      BY <1>6, <1>8
    <2> QED BY <1>8, <2>1, <2>2 DEF ObjsFrame, Entered
  <1>9. \A x \in shm'[seg[m]].objs :
          x.owner = Slot(m).proc_oid /\ x.kind # "persistent" => x \in todo[m]
    BY <1>5, <1>7, <1>8 DEF Mortal
  <1> QED BY <1>1, <1>4, <1>5, <1>9 DEF Mortal, OwnedList

LEMMA OthersPurging ==
  ASSUME EntryInv, EntryInv', SlotIds, Holders, Purging, NEW p \in Processes,
         SlotsFrame(p), ObjsFrame(p), MarksFrame(p), OthersStay(p), LivesFrame(p),
         NEW m \in Managers \ {p}, StaysSo(m)
  PROVE  PurgingOf(m)'
  <1>1. /\ victim'[m] = victim[m] /\ todo'[m] = todo[m] /\ seg'[m] = seg[m]
        /\ pc'[m] = pc[m] /\ victim[m] \in Pids /\ OwnSegs' \subseteq OwnSegs
    BY DEF OthersStay, StaysSo, MarksFrame, EntryInv, ProcShape
  <1>2. ASSUME pc[m] \in {"probe", "purge"}, seg[m] \in OwnSegs' PROVE StartedBy(victim[m])
    BY <1>1, <1>2, StartedStays DEF Purging
  <1>3. ASSUME pc[m] = "purge", seg[m] \in OwnSegs'
        PROVE  victim[m] \notin LivingPids' /\ \A x \in todo[m] : x.kind # "persistent"
    <2>1. /\ Started(victim[m]) /\ victim[m] \notin LivingPids
          /\ \A x \in todo[m] : x.kind # "persistent"
      BY <1>1, <1>3 DEF Purging
    <2> QED BY <2>1, DeadStayDead
  <1>4. ASSUME pc[m] = "purge", seg[m] \in OwnSegs', ~Misled(m)'
        PROVE  /\ Mortal(seg[m], Slot(m).proc_oid)' \subseteq todo'[m]
               /\ OwnedList(todo[m], Slot(m).proc_oid)'
    BY <1>4, OthersPurge
  <1> QED BY <1>1, <1>2, <1>3, <1>4 DEF PurgingOf, Started, StartedBy

\* A process that connects is not a manager at work.
LEMMA ConnectElsewhere ==
  ASSUME EntryInv, NEW p \in Processes, AsideStep(p) \/ ConnectStep(p) \/ CreateObject(p)
  PROVE  pc'[p] \notin {"probe", "purge"}
  <1> USE DEF GoTo
  <1>0. DOMAIN pc = Processes
    BY DEF EntryInv, ProcShape
  <1>1. CASE \/ Start(p) \/ OpenShm(p) \/ NothingThere(p) \/ ManagerAlive(p) \/ TakeSlot(p)
             \/ NoSlotLeft(p)
    BY <1>0, <1>1 DEF Start, OpenShm, NothingThere, ManagerAlive, TakeSlot, NoSlotLeft, Refused
  <1>2. CASE InsertProcess(p) \/ InsertFails(p) \/ CreateObject(p) \/ Disconnect(p)
    BY <1>0, <1>2 DEF InsertProcess, InsertFails, CreateObject, Disconnect, Refused
  <1>3. CASE DeleteOwn(p) \/ ReleaseSlot(p) \/ Exit(p) \/ Crash(p) \/ Fault(p)
    BY <1>0, <1>3 DEF DeleteOwn, ReleaseSlot, Exit, Crash, Fault, Ends
  <1> QED BY <1>1, <1>2, <1>3 DEF AsideStep, ConnectStep

LEMMA OwnPurging ==
  ASSUME EntryInv, SlotIds, Purging, NEW m \in Managers, ManagerAsideStep(m) \/ ManagerStep(m),
         MarksFrame(m), OthersStay(m), LivesFrame(m)
  PROVE  PurgingOf(m)'
  <1> USE DEF GoTo
  <1>0. /\ m \in Processes /\ DOMAIN pc = Processes /\ DOMAIN todo = Processes
        /\ DOMAIN victim = Managers /\ PurgingOf(m)
        /\ OwnSegs' \subseteq OwnSegs /\ OwnSegs \subseteq Segs
    BY DEF EntryInv, ProcShape, Processes, Purging, PurgingOf, MarksFrame, OwnSegs
  <1>1. CASE LookAtSlot(m)
    <2>1. CASE pc'[m] = "probe" /\ seg'[m] \in OwnSegs'
      <3>1. /\ Slot(m).proc_oid # 0 /\ victim'[m] = Slot(m).pid
            /\ UNCHANGED <<shm, seg, scan, lives>> /\ scan[m] <= ProcMax
        BY <1>0, <1>1, <2>1 DEF LookAtSlot
      <3>2. scan[m] \in Slots /\ seg[m] \in OwnSegs
        BY <1>0, <2>1, <3>1 DEF EntryInv, ProcShape, Slots
      <3>3. Started(victim'[m])
        BY <3>1, <3>2, SlotStarted DEF Slot
      <3> QED BY <2>1, <3>1, <3>3 DEF PurgingOf, Started
    <2>2. pc'[m] \in {"look", "probe"}
      BY <1>0, <1>1 DEF LookAtSlot
    <2> QED BY <2>1, <2>2 DEF PurgingOf
  <1>2. CASE FoundDead(m)
    <2>1. /\ pc[m] = "probe" /\ pc'[m] = "purge" /\ victim[m] \notin LivingPids
          /\ UNCHANGED <<shm, seg, scan, lives, victim>>
          /\ todo'[m] = NotKept(OwnedBy(seg[m], Slot(m).proc_oid))
      BY <1>0, <1>2 DEF FoundDead
    <2>2. Slot(m)' = Slot(m) /\ (Misled(m)' <=> Misled(m))
      BY <2>1 DEF Slot, Misled
    <2>3. ASSUME seg[m] \in OwnSegs'
          PROVE  /\ Started(victim[m]) /\ victim[m] \notin LivingPids'
                 /\ ~Misled(m) => Slot(m).proc_oid # 0
      <3>1. seg[m] \in OwnSegs /\ scan[m] \in Slots
        BY <1>0, <2>1, <2>3 DEF EntryInv, ProcShape
      <3>2. Started(victim[m])
        BY <2>1, <3>1 DEF Purging
      <3>3. victim[m] \notin LivingPids'
        BY <1>0, <2>1, <3>2, DeadStayDead
      <3>4. ~Misled(m) => Slot(m).pid # NoPid
        BY <3>2 DEF Misled, Started
      <3>5. Slot(m).pid # NoPid => Slot(m).proc_oid # 0
        BY <3>1, SlotStarted DEF Slot
      <3> QED BY <3>2, <3>3, <3>4, <3>5
    <2>4. Slot(m).proc_oid # 0 =>
            /\ Mortal(seg[m], Slot(m).proc_oid) = todo'[m]
            /\ OwnedList(todo'[m], Slot(m).proc_oid)
      BY <2>1 DEF NotKept, OwnedBy, Mortal, OwnedList
    <2>5. \A x \in todo'[m] : x.kind # "persistent"
      BY <2>1 DEF NotKept
    <2>6. \A o : Mortal(seg[m], o)' = Mortal(seg[m], o)
      BY <2>1 DEF Mortal
    <2> QED BY <2>1, <2>2, <2>3, <2>4, <2>5, <2>6 DEF PurgingOf, Started, OwnedList, Mortal
  <1>3. CASE DeleteOfDead(m)
    <2>1. /\ pc[m] = "purge" /\ pc'[m] = "purge" /\ UNCHANGED <<seg, scan, lives, victim>>
          /\ seg[m] \in Segs /\ scan[m] \in Slots
      BY <1>0, <1>3 DEF DeleteOfDead, EntryInv, ProcShape, ProcPlaces, Leading, Filled
    <2>2. PICK x \in todo[m] : /\ ObjsChange(seg[m], shm[seg[m]].objs \ {x})
                               /\ todo' = [todo EXCEPT ![m] = todo[m] \ {x}]
      BY <1>0, <1>3, <2>1, DeleteEffect DEF DeleteOfDead, EntryInv
    <2>3. /\ shm'[seg[m]].objs = shm[seg[m]].objs \ {x} /\ todo'[m] = todo[m] \ {x}
          /\ shm'[seg[m]].proc = shm[seg[m]].proc
      BY <1>0, <2>2 DEF ObjsChange, ProcsKept
    <2>4. Slot(m)' = Slot(m) /\ (Misled(m)' <=> Misled(m))
      BY <2>1, <2>3 DEF Slot, Misled
    <2>5. seg[m] \in OwnSegs' =>
            /\ Started(victim[m]) /\ victim[m] \notin LivingPids
            /\ \A y \in todo[m] : y.kind # "persistent"
            /\ ~Misled(m) =>
                 /\ Mortal(seg[m], Slot(m).proc_oid) \subseteq todo[m]
                 /\ OwnedList(todo[m], Slot(m).proc_oid)
      BY <1>0, <2>1 DEF PurgingOf
    <2>6. seg[m] \in OwnSegs' => victim[m] \notin LivingPids'
      BY <1>0, <2>5, DeadStayDead
    <2>7. Started(victim[m])' <=> Started(victim[m])
      BY <2>1 DEF Started
    <2> QED BY <2>1, <2>3, <2>4, <2>5, <2>6, <2>7 DEF PurgingOf, Mortal, OwnedList
  <1>4. CASE MainLoop(m)
    <2>1. SlotsSame /\ ObjsSame
      BY <1>4, RoundSame
    <2>2. UNCHANGED <<seg, scan, lives, pc, todo, victim>> /\ OwnSegs' = OwnSegs
      BY <1>4 DEF MainLoop, OwnSegs
    <2>3. ASSUME seg[m] \in OwnSegs PROVE Slot(m)' = Slot(m) /\ shm'[seg[m]].objs = shm[seg[m]].objs
      BY <2>1, <2>2, <2>3 DEF Slot, SlotsSame, ObjsSame
    <2>4. LivingPids' = LivingPids
      BY <2>2 DEF LivingPids, Pid, Alive
    <2> QED BY <1>0, <2>2, <2>3, <2>4 DEF PurgingOf, Started, Misled, Mortal, OwnedList
  <1>5. CASE \/ UnlinkOld(m) \/ OpenNew(m) \/ SetSize(m) \/ InitShm(m) \/ FillDatabase(m)
             \/ FillFails(m) \/ ConnectEnable(m) \/ DestroyDatabase(m) \/ UnlinkShm(m)
             \/ FoundAlive(m) \/ NextRound(m)
    <2>1. pc'[m] \notin {"probe", "purge"}
      BY <1>0, <1>5 DEF UnlinkOld, OpenNew, SetSize, InitShm, FillDatabase, FillFails,
                        ConnectEnable, DestroyDatabase, UnlinkShm, FoundAlive, NextRound, Ends
    <2> QED BY <2>1 DEF PurgingOf
  <1>6. CASE ClearSlot(m)
    <2>1. pc'[m] = "look"
      BY <1>0, <1>6 DEF ClearSlot
    <2> QED BY <2>1 DEF PurgingOf
  <1>7. CASE KillProcs(m)
    BY <1>7, KillEffect DEF PurgingOf
  <1> QED BY <1>1, <1>2, <1>3, <1>4, <1>5, <1>6, <1>7 DEF ManagerAsideStep, ManagerStep

LEMMA PurgingKept ==
  ASSUME EntryInv, EntryInv', SlotIds, Holders, Purging, NEW p \in Processes, Acts(p),
         SlotsFrame(p), ObjsFrame(p), MarksFrame(p), OthersStay(p), LivesFrame(p)
  PROVE  Purging'
  <1>1. ASSUME NEW m \in Managers \ {p} PROVE PurgingOf(m)'
    <2>1. CASE pc'[m] = "dead"
      BY <2>1 DEF PurgingOf
    <2>2. CASE StaysSo(m)
      BY <2>2, OthersPurging
    <2> QED BY <2>1, <2>2 DEF OthersStay, Processes
  <1>2. ASSUME p \in Managers PROVE PurgingOf(p)'
    <2>1. CASE ManagerAsideStep(p) \/ ManagerStep(p)
      BY <1>2, <2>1, OwnPurging
    <2>2. CASE AsideStep(p) \/ ConnectStep(p) \/ CreateObject(p)
      BY <2>2, ConnectElsewhere DEF PurgingOf
    <2> QED BY <2>1, <2>2 DEF Acts
  <1>3. Purging' <=> \A m \in Managers : PurgingOf(m)'
    BY DEF Purging, PurgingOf
  <1> QED BY <1>1, <1>2, <1>3

-----------------------------------------------------------------------------
(* The count of free slots, and what slots that are given back leave. *)

LEMMA SlotSteps ==
  ASSUME EntryInv, NEW p \in Processes, Acts(p)
  PROVE  \/ SlotsSame
         \/ TakeSlot(p) \/ ReleaseSlot(p) \/ (p \in Managers /\ (InitShm(p) \/ ClearSlot(p)))
  <1>1. CASE ProgramAside(p) \/ (p \in Managers /\ ManagerAside(p))
    BY <1>1, AsideSame
  <1>2. CASE p \in Managers /\ (OpenNew(p) \/ ConnectEnable(p) \/ NextRound(p) \/ MainLoop(p))
    BY <1>2, NewSegSame, RoundSame
  <1>3. CASE \/ InsertProcess(p) \/ DeleteOwn(p) \/ (p \in Clients /\ CreateObject(p))
             \/ (p \in Managers /\ (FillDatabase(p) \/ DeleteOfDead(p) \/ DestroyDatabase(p)))
    BY <1>3, ObjsFrames
  <1> QED BY <1>1, <1>2, <1>3
          DEF Acts, AsideStep, ConnectStep, ManagerAsideStep, ManagerStep, ProgramAside,
              ManagerAside

CountOf(s) ==
  shm[s].proc_oid_next # 0 /\ 0 \notin evicted[s] =>
    shm[s].proc_free = Cardinality(FreeSlots(s))
FreeAfter(s) == {i \in Slots : shm'[s].proc[i].proc_oid = 0}
CountOnceTaken(s) ==
  shm'[s].proc_oid_next # 0 /\ 0 \notin evicted'[s] =>
    shm'[s].proc_free = Cardinality(FreeAfter(s))

LEMMA FreeAreFinite ==
  ASSUME NEW s
  PROVE  IsFiniteSet(FreeSlots(s)) /\ Cardinality(FreeSlots(s)) \in Nat
  <1>1. FreeSlots(s) \subseteq Slots
    BY DEF FreeSlots
  <1> QED BY <1>1, SlotsAreFinite, FS_Subset, FS_CardinalityType

LEMMA SameCount ==
  ASSUME NEW s \in Segs, CountOf(s), shm'[s].proc = shm[s].proc,
         shm'[s].proc_oid_next = shm[s].proc_oid_next, shm'[s].proc_free = shm[s].proc_free,
         evicted[s] \subseteq evicted'[s]
  PROVE  CountOnceTaken(s)
  <1>1. FreeAfter(s) = FreeSlots(s)
    BY DEF FreeSlots, FreeAfter
  <1> QED BY <1>1 DEF CountOf, CountOnceTaken

LEMMA TakeCounts ==
  ASSUME EntryInv, SlotIds, NEW p \in Processes, TakeSlot(p), seg[p] \in OwnSegs,
         CountOf(seg[p])
  PROVE  CountOnceTaken(seg[p])
  <1> DEFINE s == seg[p]
             e == [proc_oid |-> shm[s].proc_oid_next, pid |-> Pid(p)]
  <1>1. /\ pc[p] = "slot" /\ s \in Segs /\ shm[s].proc_oid_next \in Nat
        /\ shm[s].proc_oid_next >= 2 /\ evicted'[s] = evicted[s]
    BY NextIds DEF TakeSlot
  <1>2. PICK i \in FreeSlots(s) :
           SlotsChange(s, [shm[s].proc EXCEPT ![i] = e],
                       shm[s].proc_oid_next + 1, shm[s].proc_free - 1)
    BY TakeEffect DEF EntryInv
  <1>3. i \in Slots /\ shm[s].proc \in [Slots -> ProcSlot] /\ e.proc_oid = shm[s].proc_oid_next
    BY <1>1, ObjsTyped DEF FreeSlots, EntryInv
  <1>9. CountOf(s)
    OBVIOUS
  <1> HIDE DEF e, s
  <1>4. /\ shm'[s].proc[i] = e /\ \A j \in Slots \ {i} : shm'[s].proc[j] = shm[s].proc[j]
        /\ shm'[s].proc_free = shm[s].proc_free - 1
    BY <1>2, <1>3 DEF SlotsChange
  <1>5. FreeAfter(s) = FreeSlots(s) \ {i}
    BY <1>1, <1>3, <1>4 DEF FreeSlots, FreeAfter
  <1>6. Cardinality(FreeSlots(s) \ {i}) = Cardinality(FreeSlots(s)) - 1
    BY <1>2, FreeAreFinite, FS_RemoveElement
  <1>7. 0 \notin evicted'[s] => shm[s].proc_free = Cardinality(FreeSlots(s))
    BY <1>1, <1>9 DEF CountOf
  <1>8. 0 \notin evicted'[s] => shm'[s].proc_free = Cardinality(FreeAfter(s))
    BY <1>4, <1>5, <1>6, <1>7
  <1> QED BY <1>8 DEF CountOnceTaken, s

\* Slots that were in use are free.
LEMMA WithoutCounts ==
  ASSUME NEW s \in Segs, NEW gone \in SUBSET Slots, CountOf(s), evicted[s] \subseteq evicted'[s],
         shm[s].proc_free \in Int, \A i \in gone : shm[s].proc[i].proc_oid # 0,
         SlotsChange(s, WithoutObjs(s, gone), shm[s].proc_oid_next,
                     shm[s].proc_free + Cardinality(gone))
  PROVE  CountOnceTaken(s)
  <1>1. \A i \in Slots :
          shm'[s].proc[i] = IF i \in gone THEN FreeSlot ELSE shm[s].proc[i]
    BY DEF SlotsChange, WithoutObjs
  <1>2. FreeAfter(s) = FreeSlots(s) \cup gone
    BY <1>1 DEF FreeSlots, FreeAfter, FreeSlot
  <1>3. FreeSlots(s) \cap gone = {}
    BY DEF FreeSlots
  <1>4. IsFiniteSet(gone) /\ Cardinality(gone) \in Nat
    BY SlotsAreFinite, FS_Subset, FS_CardinalityType
  <1>5. Cardinality(FreeSlots(s) \cup gone) =
          Cardinality(FreeSlots(s)) + Cardinality(gone) - Cardinality({})
    BY <1>3, <1>4, FreeAreFinite, FS_Union
  <1>6. Cardinality({}) = 0
    BY FS_EmptySet
  <1>7. Cardinality(FreeAfter(s)) = Cardinality(FreeSlots(s)) + Cardinality(gone)
    BY <1>2, <1>4, <1>5, <1>6, FreeAreFinite
  <1>8. /\ shm'[s].proc_oid_next = shm[s].proc_oid_next
        /\ shm'[s].proc_free = shm[s].proc_free + Cardinality(gone)
    BY DEF SlotsChange
  <1> QED BY <1>7, <1>8 DEF CountOf, CountOnceTaken

LEMMA CountsKept ==
  ASSUME EntryInv, SlotIds, Holders, Purging, SlotsAreCounted, NEW p \in Processes, Acts(p),
         MarksFrame(p)
  PROVE  SlotsAreCounted'
  <1>0. /\ \A s \in OwnSegs : CountOf(s)
        /\ SlotsAreCounted' <=> \A s \in OwnSegs' : CountOnceTaken(s)
        /\ OwnSegs' \subseteq OwnSegs /\ OwnSegs \subseteq Segs
        /\ \A s \in OwnSegs' : evicted[s] \subseteq evicted'[s]
    BY DEF SlotsAreCounted, CountOf, CountOnceTaken, FreeSlots, FreeAfter, MarksFrame, OwnSegs
  <1>1. CASE SlotsSame
    BY <1>0, <1>1, SameCount DEF SlotsSame
  <1>2. ASSUME NEW s \in Segs, s \in OwnSegs' => CountOnceTaken(s), Others(s)
        PROVE  SlotsAreCounted'
    <2>1. ASSUME NEW t \in OwnSegs' \ {s} PROVE CountOnceTaken(t)
      <3>1. shm'[t] = shm[t]
        BY <1>0, <1>2 DEF Others
      <3> QED BY <1>0, <3>1, SameCount
    <2> QED BY <1>0, <1>2, <2>1
  <1>3. CASE TakeSlot(p)
    <2>1. seg[p] \in Segs
      BY <1>3 DEF TakeSlot, EntryInv, ProcPlaces
    <2>2. Others(seg[p])
      BY <1>3, TakeEffect DEF EntryInv, SlotsChange
    <2> QED BY <1>0, <1>2, <1>3, <2>1, <2>2, TakeCounts
  <1>4. CASE ReleaseSlot(p)
    <2>1. pc[p] \in Entered /\ seg[p] \in Segs
      BY <1>4 DEF ReleaseSlot, EntryInv, ProcPlaces, Entered
    <2>3. OwnSlots(p) \in SUBSET Slots
      BY DEF OwnSlots
    <2>4. \A i \in OwnSlots(p) : shm[seg[p]].proc[i].proc_oid # 0
      BY DEF OwnSlots
    <2>5. shm[seg[p]].proc_free \in Int
      BY <2>1, ObjsTyped DEF EntryInv
    <2>6. SlotsChange(seg[p], WithoutObjs(seg[p], OwnSlots(p)), shm[seg[p]].proc_oid_next,
                      shm[seg[p]].proc_free + Cardinality(OwnSlots(p)))
      BY <1>4, ReleaseEffect DEF EntryInv
    <2>7. seg[p] \in OwnSegs' => CountOnceTaken(seg[p])
      BY <1>0, <2>1, <2>3, <2>4, <2>5, <2>6, WithoutCounts
    <2>8. Others(seg[p])
      BY <2>6 DEF SlotsChange
    <2> QED BY <1>2, <2>1, <2>7, <2>8
  <1>5. CASE p \in Managers /\ ClearSlot(p)
    <2>1. pc[p] = "purge" /\ seg[p] \in Segs /\ scan[p] \in Slots
      BY <1>5 DEF ClearSlot, EntryInv, ProcShape, ProcPlaces, Leading, Filled
    <2>3. shm[seg[p]].proc_free \in Int
      BY <2>1, ObjsTyped DEF EntryInv
    <2>4. SlotsChange(seg[p], WithoutObjs(seg[p], {scan[p]}), shm[seg[p]].proc_oid_next,
                      shm[seg[p]].proc_free + 1)
      BY <1>5, ClearEffect DEF EntryInv
    <2> DEFINE gone == {scan[p]}
    <2>5. gone \in SUBSET Slots /\ Cardinality(gone) = 1
      BY <2>1, FS_Singleton
    <2>6. SlotsChange(seg[p], WithoutObjs(seg[p], gone), shm[seg[p]].proc_oid_next,
                      shm[seg[p]].proc_free + Cardinality(gone))
      BY <2>4, <2>5
    <2>7. ASSUME seg[p] \in OwnSegs', Slot(p).proc_oid # 0 PROVE CountOnceTaken(seg[p])
      <3>1. \A i \in gone : shm[seg[p]].proc[i].proc_oid # 0
        BY <2>7 DEF Slot
      <3> HIDE DEF gone
      <3> QED BY <1>0, <2>1, <2>3, <2>5, <2>6, <2>7, <3>1, WithoutCounts
    <2>8. ASSUME seg[p] \in OwnSegs', Slot(p).proc_oid = 0 PROVE 0 \in evicted'[seg[p]]
      <3>1. Slot(p).pid = NoPid
        BY <1>0, <2>1, <2>8 DEF SlotIds, Slot
      <3>2. Misled(p)
        BY <1>0, <1>5, <2>1, <2>8, <3>1 DEF Purging, Started, Misled
      <3>3. evicted'[seg[p]] = evicted[seg[p]] \cup {0}
        BY <1>5, <2>1, <2>8, <3>2 DEF ClearSlot, EntryInv, ProcShape
      <3> QED BY <3>3
    <2>9. Others(seg[p])
      BY <2>4 DEF SlotsChange
    <2> QED BY <1>2, <2>1, <2>7, <2>8, <2>9 DEF CountOnceTaken
  <1>6. CASE p \in Managers /\ InitShm(p)
    <2>1. seg[p] \in Segs
      BY <1>6 DEF InitShm, EntryInv, ProcPlaces, Making, Processes
    <2>2. /\ Others(seg[p]) /\ shm'[seg[p]].proc_free = ProcMax
          /\ shm'[seg[p]].proc = [i \in Slots |-> FreeSlot]
      BY <1>6, InitShmEffect DEF EntryInv
    <2>3. FreeAfter(seg[p]) = Slots
      BY <2>2 DEF FreeAfter, FreeSlot
    <2>4. CountOnceTaken(seg[p])
      BY <2>2, <2>3, SlotsAreFinite DEF CountOnceTaken
    <2> QED BY <1>2, <2>1, <2>2, <2>4
  <1> QED BY <1>1, <1>3, <1>4, <1>5, <1>6, SlotSteps

\* A slot that is given back leaves no object but persistent ones.
LEMMA LeftKept ==
  ASSUME EntryInv, EntryInv', SlotIds, Holders, OwnObjects, Purging, NothingLeftBehind,
         NEW p \in Processes, SlotsFrame(p), ObjsFrame(p), MarksFrame(p)
  PROVE  NothingLeftBehind'
  <1> SUFFICES ASSUME NEW s \in OwnSegs', NEW x \in shm'[s].objs,
                      x.owner # 1, x.kind # "persistent", x.owner \notin evicted'[s]
               PROVE  \E i \in Slots : shm'[s].proc[i].proc_oid = x.owner
    BY DEF NothingLeftBehind
  <1>0. s \in OwnSegs /\ s \in Segs /\ evicted[s] \subseteq evicted'[s]
    BY DEF MarksFrame, OwnSegs
  <1>1. x \in Objects /\ x.owner \in Nat
    BY <1>0 DEF EntryInv, ProcShape, Segment, Objects
  <1>2. CASE x \in shm[s].objs
    <2>1. PICK i \in Slots : shm[s].proc[i].proc_oid = x.owner
      BY <1>0, <1>2 DEF NothingLeftBehind
    <2>2. CASE shm'[s].proc[i] = shm[s].proc[i]
      BY <2>1, <2>2
    <2>3. CASE pc[p] = "leave" /\ s = seg[p] /\ todo[p] = {} /\ shm[s].proc[i].pid = Pid(p)
      <3>1. HoldersOf(p) /\ pc[p] \in Entered /\ InSlot(s, i, p)
        BY <2>3, HoldersSplit DEF Entered, InSlot
      <3>2. x.owner = oid[p]
        BY <1>0, <2>1, <3>1 DEF HoldersOf
      <3>3. x \in todo[p]
        BY <1>0, <1>2, <2>3, <3>2 DEF OwnObjects, Mortal
      <3> QED BY <2>3, <3>3
    <2>4. CASE /\ pc[p] = "purge" /\ s = seg[p] /\ todo[p] = {} /\ i = scan[p]
               /\ shm[s].proc[i].pid = victim[p] \/ shm[s].proc[i].proc_oid \in evicted'[s]
      <3>1. p \in Managers
        BY <2>4 DEF EntryInv, ProcShape, Processes, Joining, Entered
      <3>2. x.owner = Slot(p).proc_oid
        BY <2>1, <2>4 DEF Slot
      <3>3. ~Misled(p)
        BY <2>1, <2>4 DEF Misled, Slot
      <3>4. x \in todo[p]
        BY <1>0, <1>2, <2>4, <3>1, <3>2, <3>3 DEF Purging, Mortal
      <3> QED BY <2>4, <3>4
    <2>5. CASE shm[s].proc[i] = FreeSlot
      <3>1. x.owner = 0
        BY <2>1, <2>5 DEF FreeSlot
      <3>2. x.owner >= 1
        BY <1>0, <1>2 DEF SlotIds
      <3> QED BY <3>1, <3>2
    <2> QED BY <2>2, <2>3, <2>4, <2>5 DEF SlotsFrame
  <1>3. CASE x \notin shm[s].objs
    <2>1. s = seg[p] /\ pc[p] \in {"insert", "on"} /\ x.owner = oid[p]
      BY <1>1, <1>3 DEF ObjsFrame
    <2>2. HoldersOf(p) /\ pc[p] \in Entered /\ oid[p] \in Nat
      BY <2>1, HoldersSplit DEF Entered, EntryInv, ProcShape
    <2>3. PICK i \in Slots : shm[s].proc[i] = [proc_oid |-> oid[p], pid |-> Pid(p)]
      BY <1>0, <2>1, <2>2 DEF HoldersOf
    <2>4. shm[s].proc[i].proc_oid = oid[p] /\ oid[p] >= 2
      BY <1>0, <2>1, <2>2, <2>3 DEF HoldersOf
    <2>5. shm[s].proc[i] # FreeSlot
      BY <2>2, <2>4 DEF FreeSlot
    <2>6. shm'[s].proc[i] = shm[s].proc[i]
      BY <2>1, <2>5 DEF SlotsFrame
    <2> QED BY <2>1, <2>4, <2>6
  <1> QED BY <1>2, <1>3

-----------------------------------------------------------------------------
(* The invariant, and what it says. *)

LEMMA InitProcInv == ProcInit => ProcInv
  <1> SUFFICES ASSUME ProcInit PROVE ProcInv
    OBVIOUS
  <1>1. EntryInv
    BY InitEntry
  <1>2. /\ shm = [s \in Segs |-> Blank] /\ pc = [p \in Processes |-> "dead"]
        /\ evicted = [s \in Segs |-> {}] /\ OwnSegs \subseteq Segs
    BY DEF ProcInit, OwnSegs
  <1>3. \A s \in OwnSegs : /\ shm[s].objs = {} /\ shm[s].proc_oid_next = 0 /\ evicted[s] = {}
                           /\ \A i \in Slots : shm[s].proc[i] = FreeSlot
    BY <1>2 DEF Blank
  <1>4. SlotIds
    BY <1>3 DEF SlotIds, FreeSlot
  <1>5. Holders /\ IdsAreUnique /\ OwnObjects /\ Purging
    BY <1>2 DEF Holders, IdsAreUnique, OwnObjects, Purging, Processes, Entered, Joining
  <1>6. SlotsAreCounted /\ NothingLeftBehind
    BY <1>3 DEF SlotsAreCounted, NothingLeftBehind
  <1> QED BY <1>1, <1>4, <1>5, <1>6 DEF ProcInv

\* A step that changes no slot, no object and no process keeps everything.
LEMMA IdleKeeps ==
  ASSUME ProcInv, EntryInv', SlotsSame, ObjsSame,
         UNCHANGED <<name, cast, pc, lives, seg, oid, todo, scan, victim, marks>>
  PROVE  ProcInv'
  <1> USE DEF ProcInv
  <1>1. \A p \in Processes : Pid(p)' = Pid(p)
    BY DEF Pid
  <1>2. LivingPids' = LivingPids /\ OwnSegs' = OwnSegs /\ OwnSegs \subseteq Segs
    BY DEF LivingPids, Pid, Alive, OwnSegs
  <1>3. \A s \in OwnSegs : /\ \A i \in Slots : shm'[s].proc[i] = shm[s].proc[i]
                           /\ shm'[s].proc_oid_next = shm[s].proc_oid_next
                           /\ shm'[s].objs = shm[s].objs
    BY <1>2 DEF SlotsSame, ObjsSame
  <1>4. SlotIds'
    BY <1>2, <1>3 DEF SlotIds, Started
  <1>5. Holders'
    <2>2. ASSUME NEW p \in Processes PROVE HoldersOf(p)'
      <3>1. HoldersOf(p)
        BY HoldersSplit
      <3>2. \/ pc[p] \in Entered /\ pc'[p] \in Entered /\ oid'[p] = oid[p] /\ seg'[p] = seg[p]
            \/ pc[p] \in Joining /\ pc'[p] \in Joining
            \/ pc'[p] \notin Entered \cup Joining
        OBVIOUS
      <3>3. MarksFrame(p)
        BY <1>2 DEF MarksFrame
      <3> QED BY <3>1, <3>2, <3>3, SamePlaceHolds
    <2> QED BY <2>2 DEF Holders, HoldersOf
  <1>6. OwnObjects' /\ IdsAreUnique'
    BY <1>2, <1>3 DEF OwnObjects, IdsAreUnique, Mortal, OwnedList
  <1>7. Purging'
    <2>1. ASSUME NEW m \in Managers, pc[m] = "purge", seg[m] \in OwnSegs
          PROVE  Slot(m)' = Slot(m) /\ shm'[seg[m]].objs = shm[seg[m]].objs
      BY <1>3, <2>1 DEF Slot, EntryInv, ProcShape
    <2> QED BY <1>2, <2>1 DEF Purging, Started, Misled, Mortal, OwnedList
  <1>8. SlotsAreCounted'
    <2>1. \A s \in OwnSegs : CountOf(s)
      BY DEF SlotsAreCounted, CountOf
    <2>2. \A s \in OwnSegs : CountOnceTaken(s)
      BY <1>2, <2>1, SameCount DEF SlotsSame
    <2> QED BY <1>2, <2>2 DEF SlotsAreCounted, CountOnceTaken, FreeSlots, FreeAfter
  <1>9. NothingLeftBehind'
    BY <1>2, <1>3 DEF NothingLeftBehind
  <1> QED BY <1>4, <1>5, <1>6, <1>7, <1>8, <1>9

\* A step is one of a process, or the time goes on.
LEMMA StepsAreActs ==
  ProcNext => (\E p \in Processes : Acts(p)) \/ (\E s \in Segs : GoesStale(s))
  BY DEF ProcNext, Acts, Processes

LEMMA NextProcInv == ProcInv /\ [ProcNext]_procVars => ProcInv'
  <1> SUFFICES ASSUME ProcInv, [ProcNext]_procVars PROVE ProcInv'
    OBVIOUS
  <1> USE DEF ProcInv
  <1>0. EntryInv'
    BY NextEntry
  <1>1. CASE UNCHANGED procVars
    BY <1>0, <1>1, IdleKeeps DEF procVars, SlotsSame, ObjsSame
  <1>2. ASSUME NEW s \in Segs, GoesStale(s) PROVE ProcInv'
    BY <1>0, <1>2, StaleSame, IdleKeeps DEF GoesStale
  <1>3. ASSUME NEW p \in Processes, Acts(p) PROVE ProcInv'
    <2>1. /\ SlotsFrame(p) /\ NextFrame(p) /\ ObjsFrame(p) /\ MarksFrame(p)
          /\ OthersStay(p) /\ LivesFrame(p)
      BY <1>3, StepFrames, StepMarks, StepStays
    <2>2. SlotIds' /\ Holders' /\ IdsAreUnique'
      BY <1>0, <1>3, <2>1, SlotIdsKept, HoldersKept, IdsKept
    <2>3. OwnObjects' /\ Purging'
      BY <1>0, <1>3, <2>1, OwnObjectsKept, PurgingKept
    <2>4. SlotsAreCounted' /\ NothingLeftBehind'
      BY <1>0, <1>3, <2>1, CountsKept, LeftKept
    <2> QED BY <1>0, <2>2, <2>3, <2>4
  <1> QED BY <1>1, <1>2, <1>3, StepsAreActs

LEMMA InvAlways == ProcSpec => []ProcInv
  BY InitProcInv, NextProcInv, PTL DEF ProcSpec

\* Who is connected has its slot and only one, and the count of free slots is right -
\* but for the slots that changed hands between the look and the clearing of purge_procs,
\* and in segments that two managers have opened as new.
THEOREM SlotsAlways == ProcSpec => []SlotsAreRight
  <1>1. ProcInv => SlotsAreRight
    <2> SUFFICES ASSUME ProcInv PROVE SlotsAreRight
      OBVIOUS
    <2> USE DEF ProcInv
    <2>1. ASSUME NEW p \in Processes, Connected(p), seg[p] \in OwnSegs,
                 oid[p] \notin evicted[seg[p]]
          PROVE  \E i \in Slots :
                   /\ shm[seg[p]].proc[i] = [proc_oid |-> oid[p], pid |-> Pid(p)]
                   /\ \A j \in Slots \ {i} : shm[seg[p]].proc[j].proc_oid # oid[p]
      <3>1. HoldersOf(p) /\ pc[p] \in Entered /\ oid[p] \in Nat
        BY <2>1, HoldersSplit DEF Connected, Entered, EntryInv, ProcShape
      <3>2. PICK i \in Slots : shm[seg[p]].proc[i] = [proc_oid |-> oid[p], pid |-> Pid(p)]
        BY <2>1, <3>1 DEF HoldersOf
      <3>3. shm[seg[p]].proc[i].proc_oid = oid[p] /\ oid[p] >= 2
        BY <2>1, <3>1, <3>2 DEF HoldersOf
      <3>4. \A j \in Slots \ {i} : shm[seg[p]].proc[j].proc_oid # oid[p]
        BY <2>1, <3>1, <3>3 DEF SlotIds
      <3> QED BY <3>2, <3>4
    <2> QED BY <2>1 DEF SlotsAreRight, ConnectedHaveOneSlot
  <1> QED BY <1>1, InvAlways, PTL

\* A slot is given back, by its process or by purge_procs, only when everything of
\* its process but persistent objects is deleted - unless purge_procs clears the slot of
\* another than the process it found dead.
THEOREM LeftAlways == ProcSpec => []NothingLeftBehind
  <1>1. ProcInv => NothingLeftBehind
    BY DEF ProcInv
  <1> QED BY <1>1, InvAlways, PTL

\* An object that is deleted: who may have done it.
LEMMA DeletedObject ==
  ASSUME ProcInv, NEW p \in Processes, Acts(p), NEW s \in OwnSegs', NEW x \in shm[s].objs,
         x \notin shm'[s].objs
  PROVE  /\ x.kind # "persistent"
         /\ \/ \A q \in Processes :
                 seg[q] = s /\ oid[q] = x.owner => pc[q] \in {"leave", "killed"}
            \/ \E m \in Managers :
                 pc[m] = "purge" /\ seg[m] = s /\ x \in todo[m] /\ Misled(m)
  <1> USE DEF ProcInv
  <1>1. ObjsFrame(p) /\ s \in OwnSegs /\ s \in Segs
    BY StepFrames, StepMarks DEF MarksFrame, OwnSegs
  <1>2. x \in Objects /\ x.owner \in Nat
    BY <1>1 DEF EntryInv, ProcShape, Segment, Objects
  <1>3. x.owner >= 1 /\ (x.owner = 1 => x.kind # "persistent")
    BY <1>1 DEF SlotIds
  <1>4. \A q \in Processes : oid[q] = x.owner => pc[q] \in Entered \cup Leading
    BY <1>3 DEF EntryInv, ProcShape, ProcPlaces, Places
  <1>5. \A q \in Processes :
          /\ pc[q] \in Entered /\ seg[q] = s => oid[q] >= 2 /\ oid[q] \in Nat
          /\ pc[q] \in Leading => oid[q] = 1
    <2>1. ASSUME NEW q \in Processes, pc[q] \in Entered, seg[q] = s
          PROVE  oid[q] >= 2 /\ oid[q] \in Nat
      <3>1. HoldersOf(q)
        BY HoldersSplit
      <3> QED BY <1>1, <2>1, <3>1 DEF HoldersOf, EntryInv, ProcShape
    <2> QED BY <2>1 DEF EntryInv, ProcPlaces
  <1>6. CASE s = seg[p] /\ pc[p] = "leave" /\ x \in todo[p]
    <2>1. x.kind # "persistent" /\ x.owner = oid[p] /\ pc[p] \in Entered
      BY <1>1, <1>6 DEF OwnObjects, OwnedList, Entered
    <2>2. ASSUME NEW q \in Processes, seg[q] = s, oid[q] = x.owner PROVE pc[q] = "leave"
      <3>1. pc[q] \in Entered
        BY <1>4, <1>5, <1>6, <2>1, <2>2
      <3>2. q = p
        BY <1>1, <1>6, <2>1, <2>2, <3>1 DEF IdsAreUnique
      <3> QED BY <1>6, <3>2
    <2> QED BY <2>1, <2>2
  <1>7. CASE s = seg[p] /\ pc[p] = "purge" /\ x \in todo[p]
    <2>1. p \in Managers /\ scan[p] \in Slots
      BY <1>7 DEF EntryInv, ProcShape, Processes, Joining, Entered
    <2>2. x.kind # "persistent" /\ Started(victim[p])
      BY <1>1, <1>7, <2>1 DEF Purging
    <2>3. ASSUME ~Misled(p), NEW q \in Processes, seg[q] = s, oid[q] = x.owner PROVE FALSE
      <3>1. x.owner = Slot(p).proc_oid
        BY <1>1, <1>7, <2>1, <2>3 DEF Purging, OwnedList
      <3>2. Slot(p).proc_oid >= 2
        BY <1>1, <1>7, <2>1, <2>2, <2>3, SlotStarted DEF Slot, Misled, Started
      <3>3. pc[q] \in Entered
        BY <1>4, <1>5, <2>3, <3>1, <3>2
      <3> QED BY <1>1, <1>7, <2>1, <2>3, <3>1, <3>3, PurgedIsNobody
    <2> QED BY <1>7, <2>1, <2>2, <2>3
  <1>8. CASE s = seg[p] /\ pc[p] = "killed" /\ x.owner = 1
    <2>1. ASSUME NEW q \in Processes, seg[q] = s, oid[q] = x.owner PROVE pc[q] = "killed"
      <3>1. pc[q] \in Leading
        BY <1>4, <1>5, <1>8, <2>1
      <3>2. q = p
        BY <1>1, <1>8, <2>1, <3>1, LeaderIsAlone DEF Leading, Filled
      <3> QED BY <1>8, <3>2
    <2> QED BY <1>3, <1>8, <2>1
  <1> QED BY <1>1, <1>2, <1>6, <1>7, <1>8 DEF ObjsFrame

\* Nobody deletes a persistent object, and only a process itself its own objects while it
\* lives - or a manager whose slot changed hands under it.
THEOREM LivingAlways == ProcSpec => LivingKeepTheirObjects
  <1> DEFINE Kept ==
        \A s \in Segs \ shared' : \A x \in shm[s].objs :
          \/ x \in shm'[s].objs
          \/ /\ x.kind # "persistent"
             /\ \/ \A p \in Processes :
                     seg[p] = s /\ oid[p] = x.owner => pc[p] \in {"leave", "killed"}
                \/ \E m \in Managers :
                     pc[m] = "purge" /\ seg[m] = s /\ x \in todo[m] /\ Misled(m)
  <1>1. ASSUME ProcInv, [ProcNext]_procVars PROVE [Kept]_procVars
    <2>0. Segs \ shared' = OwnSegs'
      BY DEF OwnSegs
    <2>1. ASSUME NEW s \in Segs, GoesStale(s) PROVE Kept
      BY <1>1, <2>0, <2>1, StaleSame DEF ObjsSame, ProcInv
    <2>2. ASSUME NEW p \in Processes, Acts(p) PROVE Kept
      BY <1>1, <2>0, <2>2, DeletedObject
    <2> HIDE DEF Kept
    <2> QED BY <1>1, <2>1, <2>2, StepsAreActs
  <1>2. ProcInv /\ [ProcNext]_procVars => [Kept]_procVars
    BY <1>1
  <1> QED BY <1>2, InvAlways, PTL DEF ProcSpec, LivingKeepTheirObjects

\* purge_procs deletes a dead process's objects, as it says, as long as its slot is the
\* one it looked at: a slot that changed hands in between is all that can mislead it.
DeadUnlessMisled ==
  \A m \in Managers :
    pc[m] = "purge" /\ seg[m] \in OwnSegs /\ ~Misled(m) => DeletedForTheDead(m)
THEOREM DeadAlways == ProcSpec => []DeadUnlessMisled
  <1>1. ProcInv => DeadUnlessMisled
    <2> SUFFICES ASSUME ProcInv, NEW m \in Managers, pc[m] = "purge", seg[m] \in OwnSegs,
                        ~Misled(m), NEW p \in Processes \ {m}, Connected(p), seg[p] = seg[m]
                 PROVE  todo[m] \cap OwnedBy(seg[m], oid[p]) = {}
      BY DEF DeadUnlessMisled, DeletedForTheDead
    <2> USE DEF ProcInv
    <2>1. pc[p] \in Entered /\ oid[p] # 0
      <3>1. pc[p] \in Entered
        BY DEF Connected, Entered
      <3>2. oid[p] >= 2 /\ oid[p] \in Nat
        BY <3>1, HoldersSplit DEF HoldersOf, EntryInv, ProcShape
      <3> QED BY <3>1, <3>2
    <2>2. Slot(m).proc_oid # oid[p]
      BY <2>1, PurgedIsNobody
    <2>3. \A x \in todo[m] : x.owner = Slot(m).proc_oid
      BY DEF Purging, OwnedList
    <2>4. \A x \in OwnedBy(seg[m], oid[p]) : x.owner = oid[p]
      BY <2>1 DEF OwnedBy
    <2> QED BY <2>2, <2>3, <2>4
  <1> QED BY <1>1, InvAlways, PTL

-----------------------------------------------------------------------------
(* The types: what the bounds of the model give, besides ProcShape. *)

BoundedSegment(r) ==
  /\ \A i \in Slots : r.proc[i].proc_oid <= r.proc_oid_next
  /\ \A x \in r.objs : x.owner <= MaxConnects
BoundedProcess(p) == lives[p] <= cast.starts[p] /\ oid[p] <= MaxConnects
ProcBounds ==
  /\ crashes \in Nat /\ cast \in Casts
  /\ \A p \in Processes : BoundedProcess(p)
  /\ \A s \in Segs : BoundedSegment(shm[s])

\* A number is given and a process is started within the bounds.
LEMMA BoundedActions ==
  ASSUME NEW p \in Processes, Acts(p)
  PROVE  /\ UNCHANGED cast /\ (crashes' = crashes \/ crashes' = crashes + 1)
         /\ UNCHANGED lives \/ Start(p)
  <1>1. CASE AsideStep(p) \/ ConnectStep(p) \/ CreateObject(p)
    BY <1>1 DEF AsideStep, ConnectStep, Start, OpenShm, NothingThere, ManagerAlive, TakeSlot,
         NoSlotLeft, InsertProcess, InsertFails, Disconnect, DeleteOwn, ReleaseSlot, Exit,
         Crash, Fault, CreateObject
  <1>2. CASE ManagerAsideStep(p) \/ ManagerStep(p)
    BY <1>2 DEF ManagerAsideStep, ManagerStep, UnlinkOld, OpenNew, SetSize, InitShm,
         FillDatabase, FillFails, ConnectEnable, LookAtSlot, FoundAlive, FoundDead,
         DeleteOfDead, ClearSlot, NextRound, MainLoop, KillProcs, DestroyDatabase, UnlinkShm
  <1> QED BY <1>1, <1>2 DEF Acts

\* What a step does to the numbers in the segments.
LEMMA BoundedSegments ==
  ASSUME EntryInv, ProcBounds, NEW p \in Processes, Acts(p), NEW s \in Segs
  PROVE  BoundedSegment(shm'[s])
  <1> USE DEF EntryInv
  <1>0. /\ oid[p] <= MaxConnects /\ oid[p] \in Nat /\ Typed /\ 1 <= MaxConnects
        /\ \A t \in Segs : BoundedSegment(shm[t]) /\ shm[t].proc_oid_next \in Nat
                           /\ \A i \in Slots : shm[t].proc[i].proc_oid \in Nat
    BY SlotTyped, ObjsTyped DEF ProcBounds, BoundedProcess, ProcShape, Typed
  <1>1. ASSUME /\ shm'[s].proc = shm[s].proc /\ shm'[s].proc_oid_next = shm[s].proc_oid_next
               /\ \A x \in shm'[s].objs : x \in shm[s].objs \/ x.owner \in {1, oid[p]}
        PROVE  BoundedSegment(shm'[s])
    BY <1>0, <1>1 DEF BoundedSegment
  <1>2. ASSUME /\ \A i \in Slots : shm'[s].proc[i] = FreeSlot
               /\ shm'[s].objs = {} /\ shm'[s].proc_oid_next \in Nat
        PROVE  BoundedSegment(shm'[s])
    BY <1>2 DEF BoundedSegment, FreeSlot
  <1>3. ASSUME NEW t \in Segs, NEW objs, ObjsChange(t, objs),
               \A x \in objs : x \in shm[t].objs \/ x.owner \in {1, oid[p]}
        PROVE  BoundedSegment(shm'[s])
    BY <1>1, <1>3 DEF ObjsChange, Others, ProcsKept
  <1>4. ASSUME shm'[s] = shm[s] PROVE BoundedSegment(shm'[s])
    BY <1>1, <1>4
  <1>5. CASE ProgramAside(p) \/ (p \in Managers /\ ManagerAside(p))
    <2>1. shm' = shm
      BY <1>5 DEF ProgramAside, ManagerAside, Start, OpenShm, NothingThere, ManagerAlive,
         NoSlotLeft, InsertFails, Disconnect, Exit, Crash, Fault, LookAtSlot, FoundAlive,
         FoundDead, KillProcs, UnlinkShm, UnlinkOld, SetSize, FillFails
    <2> QED BY <1>4, <2>1
  <1>6. CASE p \in Managers /\ (ConnectEnable(p) \/ NextRound(p) \/ MainLoop(p))
    <2>1. TsChange(seg[p])
      BY <1>6, RoundEffect
    <2> QED BY <1>1, <1>4, <2>1 DEF TsChange, Others, ProcsKept
  <1>7. CASE p \in Managers /\ OpenNew(p)
    <2>1. PICK t \in Segs : NewSeg(t)
      BY <1>7, OpenNewEffect DEF OpensFresh, OpensOld
    <2> QED BY <1>2, <1>4, <2>1 DEF NewSeg, Others
  <1>8. CASE p \in Managers /\ InitShm(p)
    BY <1>2, <1>4, <1>8, InitShmEffect DEF Others
  <1>9. CASE p \in Managers /\ FillDatabase(p)
    <2>0. seg[p] \in Segs
      BY <1>9 DEF FillDatabase, ProcPlaces, Leading
    <2>1. /\ Others(seg[p]) /\ shm'[seg[p]].proc = shm[seg[p]].proc
          /\ shm'[seg[p]].proc_oid_next = shm[seg[p]].proc_oid_next
          /\ shm'[seg[p]].objs = shm[seg[p]].objs \cup {Database, Obj(1, "process")}
      BY <1>9, <2>0, FillEffect DEF ProcsKept
    <2>2. Database.owner = 1 /\ Obj(1, "process").owner = 1
      BY DEF Database, Obj
    <2> QED BY <1>1, <1>4, <2>1, <2>2 DEF Others
  <1>10. CASE InsertProcess(p)
    <2>1. seg[p] \in Segs /\ Obj(oid[p], "process").owner = oid[p]
      BY <1>10 DEF InsertProcess, ProcPlaces, Entered, Obj
    <2> DEFINE objs == shm[seg[p]].objs \cup {Obj(oid[p], "process")}
    <2>2. ObjsChange(seg[p], objs)
      BY <1>10, InsertEffect
    <2>3. \A x \in objs : x \in shm[seg[p]].objs \/ x.owner \in {1, oid[p]}
      BY <2>1
    <2> HIDE DEF objs
    <2> QED BY <1>3, <2>1, <2>2, <2>3
  <1>11. CASE p \in Clients /\ CreateObject(p)
    <2>1. seg[p] \in Segs
      BY <1>11 DEF CreateObject, ProcPlaces, Entered
    <2>2. PICK k \in DataKinds : ObjsChange(seg[p], shm[seg[p]].objs \cup {Obj(oid[p], k)})
      BY <1>11, CreateEffect
    <2> DEFINE objs == shm[seg[p]].objs \cup {Obj(oid[p], k)}
    <2>3. \A x \in objs : x \in shm[seg[p]].objs \/ x.owner \in {1, oid[p]}
      BY DEF Obj
    <2>4. ObjsChange(seg[p], objs)
      BY <2>2
    <2> HIDE DEF objs
    <2> QED BY <1>3, <2>1, <2>3, <2>4
  <1>12. CASE DeleteOwn(p) \/ (p \in Managers /\ DeleteOfDead(p))
    <2>1. seg[p] \in Segs /\ DeleteNext(p)
      BY <1>12 DEF DeleteOwn, DeleteOfDead, ProcPlaces, Entered, Leading, Filled
    <2>2. PICK x \in todo[p] : ObjsChange(seg[p], shm[seg[p]].objs \ {x})
      BY <2>1, DeleteEffect
    <2> QED BY <1>3, <2>1, <2>2
  <1>13. CASE p \in Managers /\ DestroyDatabase(p)
    <2>1. seg[p] \in Segs
      BY <1>13 DEF DestroyDatabase, ProcPlaces, Leading, Filled
    <2> DEFINE objs == shm[seg[p]].objs \ OwnedBy(seg[p], 1)
    <2>2. ObjsChange(seg[p], objs) /\ \A x \in objs : x \in shm[seg[p]].objs
      BY <1>13, DestroyEffect
    <2> HIDE DEF objs
    <2> QED BY <1>3, <2>1, <2>2
  <1>14. CASE TakeSlot(p)
    <2> DEFINE t == seg[p]
               e == [proc_oid |-> shm[t].proc_oid_next, pid |-> Pid(p)]
    <2>1. t \in Segs
      BY <1>14 DEF TakeSlot, ProcPlaces
    <2>2. PICK i \in FreeSlots(t) :
             SlotsChange(t, [shm[t].proc EXCEPT ![i] = e],
                         shm[t].proc_oid_next + 1, shm[t].proc_free - 1)
      BY <1>14, TakeEffect
    <2>3. i \in Slots /\ shm[t].proc \in [Slots -> ProcSlot] /\ e.proc_oid = shm[t].proc_oid_next
      BY <2>1, ObjsTyped DEF FreeSlots
    <2> HIDE DEF e, t
    <2>4. /\ shm'[t].proc[i] = e /\ \A j \in Slots \ {i} : shm'[t].proc[j] = shm[t].proc[j]
          /\ shm'[t].proc_oid_next = shm[t].proc_oid_next + 1 /\ Others(t)
          /\ shm'[t].objs = shm[t].objs
      BY <2>2, <2>3 DEF SlotsChange
    <2>5. BoundedSegment(shm'[t])
      BY <1>0, <2>1, <2>3, <2>4 DEF BoundedSegment
    <2> QED BY <1>4, <2>1, <2>4, <2>5 DEF Others
  <1>15. CASE ReleaseSlot(p) \/ (p \in Managers /\ ClearSlot(p))
    <2>1. seg[p] \in Segs
      BY <1>15 DEF ReleaseSlot, ClearSlot, ProcPlaces, Entered, Leading, Filled
    <2>2. \E gone, k : SlotsChange(seg[p], WithoutObjs(seg[p], gone), shm[seg[p]].proc_oid_next, k)
      BY <1>15, ReleaseEffect, ClearEffect
    <2>3. /\ Others(seg[p]) /\ shm'[seg[p]].objs = shm[seg[p]].objs
          /\ shm'[seg[p]].proc_oid_next = shm[seg[p]].proc_oid_next
          /\ \A i \in Slots : shm'[seg[p]].proc[i] \in {FreeSlot, shm[seg[p]].proc[i]}
      BY <2>2 DEF SlotsChange, WithoutObjs
    <2>4. BoundedSegment(shm'[seg[p]])
      BY <1>0, <2>1, <2>3 DEF BoundedSegment, FreeSlot
    <2> QED BY <1>4, <2>3, <2>4 DEF Others
  <1> QED BY <1>5, <1>6, <1>7, <1>8, <1>9, <1>10, <1>11, <1>12, <1>13, <1>14, <1>15
          DEF Acts, AsideStep, ConnectStep, ManagerAsideStep, ManagerStep, ProgramAside,
              ManagerAside

\* What a step does to the number and the lives of a process.
LEMMA BoundedProcesses ==
  ASSUME EntryInv, ProcBounds, NEW p \in Processes, Acts(p), NEW q \in Processes
  PROVE  BoundedProcess(q)'
  <1>0. /\ lives \in [Processes -> Nat] /\ oid \in [Processes -> Nat] /\ cast' = cast
        /\ cast.starts[p] \in Nat /\ BoundedProcess(q) /\ 1 <= MaxConnects
    BY BoundedActions DEF EntryInv, ProcShape, ProcBounds, Processes
  <1>1. lives'[q] <= cast'.starts[q]
    <2>1. CASE Start(p)
      BY <1>0, <2>1 DEF Start, BoundedProcess
    <2> QED BY <1>0, <2>1, BoundedActions DEF BoundedProcess
  <1>2. oid'[q] \in {oid[q], 0, 1} \/ oid'[q] <= MaxConnects
    <2>1. CASE TakeSlot(p)
      <3>1. /\ oid' = [oid EXCEPT ![p] = shm[seg[p]].proc_oid_next]
            /\ shm[seg[p]].proc_oid_next < MaxConnects /\ seg[p] \in Segs
        BY <2>1 DEF TakeSlot, EntryInv, ProcPlaces
      <3>2. shm[seg[p]].proc_oid_next \in Nat
        BY <3>1, ObjsTyped DEF EntryInv
      <3> QED BY <1>0, <3>1, <3>2
    <2>2. CASE \/ Start(p) \/ OpenShm(p) \/ NothingThere(p) \/ ManagerAlive(p) \/ NoSlotLeft(p)
               \/ InsertProcess(p) \/ InsertFails(p) \/ Disconnect(p) \/ DeleteOwn(p)
               \/ ReleaseSlot(p) \/ Exit(p) \/ Crash(p) \/ Fault(p) \/ CreateObject(p)
      BY <1>0, <2>2 DEF Start, OpenShm, NothingThere, ManagerAlive, NoSlotLeft, InsertProcess,
         InsertFails, Disconnect, DeleteOwn, ReleaseSlot, Exit, Crash, Fault, CreateObject,
         Ends, Refused
    <2>3. CASE ManagerAsideStep(p) \/ ManagerStep(p)
      BY <1>0, <2>3 DEF ManagerAsideStep, ManagerStep, UnlinkOld, OpenNew, SetSize, InitShm,
         FillDatabase, FillFails, ConnectEnable, LookAtSlot, FoundAlive, FoundDead,
         DeleteOfDead, ClearSlot, NextRound, MainLoop, KillProcs, DestroyDatabase, UnlinkShm,
         Ends
    <2> QED BY <2>1, <2>2, <2>3 DEF Acts, AsideStep, ConnectStep
  <1> QED BY <1>0, <1>1, <1>2 DEF BoundedProcess

LEMMA BoundsAlways == ProcSpec => []ProcBounds
  <1>1. ASSUME ProcInit PROVE ProcBounds
    <2>1. /\ cast \in Casts /\ crashes = 0
          /\ \A p \in Processes : lives[p] = 0 /\ oid[p] = 0
      BY <1>1 DEF ProcInit
    <2>2. \A p \in Processes : cast.starts[p] \in Nat
      BY <2>1 DEF Processes
    <2>3. \A s \in Segs : BoundedSegment(shm[s])
      BY <1>1 DEF ProcInit, Blank, BoundedSegment, FreeSlot
    <2> QED BY <2>1, <2>2, <2>3 DEF ProcBounds, BoundedProcess
  <1>2. ASSUME ProcInv, ProcBounds, [ProcNext]_procVars PROVE ProcBounds'
    <2>1. CASE UNCHANGED procVars
      BY <1>2, <2>1 DEF procVars, ProcBounds, BoundedProcess, BoundedSegment
    <2>2. ASSUME NEW s \in Segs, GoesStale(s) PROVE ProcBounds'
      <3>1. UNCHANGED <<crashes, cast, lives, oid>>
        BY <2>2 DEF GoesStale
      <3>2. TsChange(s)
        BY <1>2, <2>2, StaleEffect DEF ProcInv, EntryInv
      <3>3. \A t \in Segs : /\ shm'[t].proc = shm[t].proc /\ shm'[t].objs = shm[t].objs
                            /\ shm'[t].proc_oid_next = shm[t].proc_oid_next
        BY <3>2 DEF TsChange, Others, ProcsKept
      <3> QED BY <1>2, <3>1, <3>3 DEF ProcBounds, BoundedProcess, BoundedSegment
    <2>3. ASSUME NEW p \in Processes, Acts(p) PROVE ProcBounds'
      <3>1. crashes' \in Nat /\ cast' \in Casts
        BY <1>2, <2>3, BoundedActions DEF ProcBounds
      <3>2. \A s \in Segs : BoundedSegment(shm'[s])
        BY <1>2, <2>3, BoundedSegments DEF ProcInv
      <3>3. \A q \in Processes : BoundedProcess(q)'
        BY <1>2, <2>3, BoundedProcesses DEF ProcInv
      <3> QED BY <3>1, <3>2, <3>3 DEF ProcBounds, BoundedSegment
    <2> QED BY <1>2, <2>1, <2>2, <2>3, StepsAreActs
  <1>3. ProcInv /\ ProcBounds /\ [ProcNext]_procVars => ProcBounds'
    BY <1>2
  <1> QED BY <1>1, <1>3, InvAlways, PTL DEF ProcSpec

\* Every variable has its type (ipc_posix.h:55-91, obj_local.h:28-60), in every segment,
\* also in those that two managers have opened: no process is started or numbered beyond
\* the bounds, and purge_procs stays within the list of slots.
THEOREM ProcTyped == ProcSpec => []ProcTypeOK
  <1>1. ASSUME ProcInv, ProcBounds PROVE ProcTypeOK
    <2> USE <1>1 DEF ProcInv, EntryInv
    <2>1. ASSUME NEW s \in Segs
          PROVE  /\ shm[s].proc_free \in Int
                 /\ \A i \in Slots : shm[s].proc[i].proc_oid \in 0 .. shm[s].proc_oid_next
                 /\ \A x \in shm[s].objs : x.owner \in 0 .. MaxConnects /\ x.kind \in ObjKinds
      <3>1. /\ shm[s].proc_oid_next \in Nat /\ shm[s].objs \subseteq Objects
            /\ shm[s].proc_free \in Int /\ BoundedSegment(shm[s])
        BY ObjsTyped DEF ProcBounds
      <3>2. ASSUME NEW i \in Slots PROVE shm[s].proc[i].proc_oid \in 0 .. shm[s].proc_oid_next
        <4>1. shm[s].proc[i].proc_oid \in Nat
          BY SlotTyped
        <4> QED BY <3>1, <4>1 DEF BoundedSegment
      <3>3. ASSUME NEW x \in shm[s].objs PROVE x.owner \in 0 .. MaxConnects /\ x.kind \in ObjKinds
        <4>1. x.owner \in Nat /\ x.kind \in ObjKinds /\ x.owner <= MaxConnects
          BY <3>1 DEF Objects, BoundedSegment
        <4> QED BY <4>1
      <3> QED BY <3>1, <3>2, <3>3
    <2>2. pc \in [Processes -> {"dead", "open", "alive", "slot", "insert", "on", "leave", "off",
                 "create", "new", "size", "init", "fill", "enable", "look", "probe", "purge",
                 "killed", "unlink"}]
      BY DEF Places, Joining, Entered, Making, Leading, Filled, ProcShape
    <2>3. ASSUME NEW p \in Processes PROVE oid[p] \in Nat /\ lives[p] \in 0 .. cast.starts[p]
      <3>1. cast.starts[p] \in Nat
        BY DEF ProcBounds, Processes
      <3> QED BY <3>1 DEF ProcBounds, BoundedProcess, ProcShape
    <2> QED BY <2>1, <2>2, <2>3 DEF ProcBounds, ProcTypeOK, ProcShape
  <1>2. ProcInv /\ ProcBounds => ProcTypeOK
    BY <1>1
  <1> QED BY <1>2, InvAlways, BoundsAlways, PTL
=============================================================================
