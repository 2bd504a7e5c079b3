---------------------------- MODULE RtdbObjMeta ----------------------------
(***************************************************************************)
(* The object registry of the RTDB: the metadata slots in shared memory,   *)
(* the heap blocks behind them, and the calls that change them - insert,   *)
(* delete with the cascade to children, and the purge of old objects       *)
(* (kogmo_rtdb_objmeta.c, kogmo_rtdb_housekeeping.c, kogmo_rtdb_rtmalloc.c).*)
(*                                                                         *)
(* A step is one section under objmeta_lock or heap_lock, or the passage   *)
(* between two sections; sections of different processes interleave.       *)
(* objmeta_lock records who still holds the lock after a section.  Its     *)
(* mutex is of type ERRORCHECK and not robust: the owner may lock it again *)
(* (EDEADLK is taken for success), nobody else ever gets it from a dead    *)
(* owner.                                                                  *)
(*                                                                         *)
(* Time: a deleted object is "recent" until its keep time is over, then    *)
(* "old".  A call compares keep times with the time of its begin, so it    *)
(* remembers in due[p] the objects that were old then.                     *)
(*                                                                         *)
(* Left out: the manager makes one call after the other.  In the hard      *)
(* real-time daemon its deletes for dead processes run in a thread of      *)
(* their own beside its purge (kogmo_rtdb_man.c:220-237, 291-306); here    *)
(* only the deletes of other processes interleave with the purge.          *)
(***************************************************************************)
EXTENDS Integers, FiniteSets, SequencesExt

CONSTANTS
  Procs,         \* the processes connected to the database
  Manager,       \* the one that runs the housekeeping; it is admin
  Nobody,        \* no process
  Kinds,         \* the metadata a caller may pass to insert
  ObjMax,        \* number of metadata slots
  Blocks,        \* the blocks of data the heap has room for
  NoBlock,       \* buffer_idx and new_allocated_heap_idx of 0
  HardRealtime,  \* whether KOGMO_RTDB_HARDREALTIME is defined
  MaxOid,        \* bound: inserts begin while fewer ids are given away
  MaxDrift,      \* bound: and objmeta_free is not further below the truth
  MaxDeaths      \* bound: processes killed

ASSUME ObjMetaAssumption ==
  /\ Manager \in Procs /\ Nobody \notin Procs
  /\ ObjMax \in Nat \ {0} /\ MaxOid \in Nat /\ {MaxDrift, MaxDeaths} \subseteq Nat
  /\ IsFiniteSet(Blocks) /\ NoBlock \notin Blocks
  /\ HardRealtime \in BOOLEAN
  /\ \A k \in Kinds :
       {k.unique, k.keep_alloc, k.immediately_delete, k.write_allow,
        k.parent_delete, k.data} \subseteq BOOLEAN

VARIABLES
  objmeta,          \* the metadata slots
  objmeta_lock,     \* who left a section without unlocking
  objmeta_free,     \* the database's count of free slots
  objmeta_oid_next, \* the next object id
  heap,             \* the allocated blocks
  pc,               \* what each process does next
  want,             \* insert: the metadata to insert
  buf,              \* insert: new_allocated_heap_idx
  due,              \* insert, purge: the objects old when the call began
  target,           \* delete: the object to delete now
  imm,              \* delete: immediately_delete
  todo,             \* delete: the children found and not yet looked at
  scan,             \* purge: the next slot to look at
  doomed            \* history: <<c, p>> where p deleted the parent of c

regs == <<want, buf, due, target, imm, todo, scan>>
vars == <<objmeta, objmeta_lock, objmeta_free, objmeta_oid_next, heap, pc,
          regs, doomed>>

Slots == 0 .. ObjMax - 1

FreeSlots == {s \in Slots : objmeta[s].oid = 0}
Used      == Slots \ FreeSlots
Live      == {s \in Used : objmeta[s].deleted = "no"}
Old       == {objmeta[s].oid : s \in {t \in Used : objmeta[t].deleted = "old"}}

\* What a scan of the slots in S finds first.
First(S) == {s \in S : \A t \in S : s <= t}

\* findmeta_byid: the slots (at most one) of an object id.
FindMeta(oid) == {s \in Used : objmeta[s].oid = oid}

\* What nobody reads of a free slot is left out: purgeslot clears the oid only.
Free == [oid |-> 0, kind |-> Nobody, parent |-> 0, proc |-> Nobody,
         deleted |-> "no", buffer |-> NoBlock]

NoCall == [kind |-> Nobody, parent |-> 0]

Init ==
  /\ objmeta = [s \in Slots |-> Free]
  /\ objmeta_lock = Nobody
  /\ objmeta_free = ObjMax
  /\ objmeta_oid_next = 1
  /\ heap = {}
  /\ pc = [p \in Procs |-> "idle"]
  /\ want = [p \in Procs |-> NoCall]
  /\ buf = [p \in Procs |-> NoBlock]
  /\ due = [p \in Procs |-> {}]
  /\ target = [p \in Procs |-> 0]
  /\ imm = [p \in Procs |-> FALSE]
  /\ todo = [p \in Procs |-> <<>>]
  /\ scan = [p \in Procs |-> 0]
  /\ doomed = {}

-----------------------------------------------------------------------------
(* Locks, calls and returns. *)

\* kogmo_rtdb_objmeta_lock succeeds.
CanLock(p) == objmeta_lock \in {Nobody, p}

Unlock == objmeta_lock' = Nobody

GoTo(p, place) == pc' = [pc EXCEPT ![p] = place]

\* What the local variables of a call held is gone.
Forgotten(p) ==
  /\ want' = [want EXCEPT ![p] = NoCall]
  /\ due' = [due EXCEPT ![p] = {}]
  /\ target' = [target EXCEPT ![p] = 0]
  /\ imm' = [imm EXCEPT ![p] = FALSE]
  /\ todo' = [todo EXCEPT ![p] = <<>>]
  /\ scan' = [scan EXCEPT ![p] = 0]

Return(p) ==
  /\ GoTo(p, "idle")
  /\ Forgotten(p)
  /\ buf' = [buf EXCEPT ![p] = NoBlock]

-----------------------------------------------------------------------------
(* kogmo_rtdb_obj_insert *)

\* The time is read.  The manager inserts at start up, before anyone else is
\* connected: here the first object, the root.  Parent 0 means the root.
InsertCall(p) ==
  /\ pc[p] = "idle"
  /\ objmeta_oid_next <= MaxOid
  /\ objmeta_free + MaxDrift >= Cardinality(FreeSlots)
  /\ p = Manager <=> objmeta_oid_next = 1
  /\ \E k \in Kinds, parent \in {0} \cup 2 .. objmeta_oid_next - 1 :
       want' = [want EXCEPT ![p] = [kind |-> k, parent |-> parent]]
  /\ due' = [due EXCEPT ![p] = Old]
  /\ GoTo(p, "insert")
  /\ UNCHANGED <<objmeta, objmeta_lock, objmeta_free, objmeta_oid_next, heap,
                 buf, target, imm, todo, scan, doomed>>

\* Deleted objects of this process whose memory it may use again.
KeptEarly(p) ==                                                   \* a mutant
  {s \in Used \ Live : objmeta[s].proc = p /\ objmeta[s].kind = want[p].kind
                       /\ objmeta[s].kind.keep_alloc}
KeptSlots(p) ==
  {s \in Used \ Live :
     /\ objmeta[s].proc = p
     /\ objmeta[s].kind.keep_alloc
     /\ objmeta[s].kind.data = want[p].kind.data
     /\ objmeta[s].oid \in due[p]}

\* A live object of the same name, one of the two being unique.
Clash(k) ==
  \E s \in Live : /\ objmeta[s].kind.name = k.name
                  /\ objmeta[s].kind.unique \/ k.unique

\* The metadata is copied to slot s, then the object gets its id.
StoreNextId(p, s, buffer) ==                                      \* a mutant
  /\ objmeta' = [objmeta EXCEPT ![s] =
       [oid |-> objmeta_oid_next + 1, kind |-> want[p].kind, parent |-> 1,
        proc |-> p, deleted |-> "no", buffer |-> buffer]]
  /\ objmeta_oid_next' = objmeta_oid_next + 1
  /\ Unlock /\ Return(p)
StoreNewBlock(p, s, buffer) ==                                    \* a mutant
  /\ objmeta' = [objmeta EXCEPT ![s] =
       [oid |-> objmeta_oid_next, kind |-> want[p].kind, parent |-> 1,
        proc |-> p, deleted |-> "no", buffer |-> buf[p]]]
  /\ objmeta_oid_next' = objmeta_oid_next + 1
  /\ Unlock /\ Return(p)
Store(p, s, buffer) ==
  /\ objmeta' = [objmeta EXCEPT ![s] =
       [oid |-> objmeta_oid_next, kind |-> want[p].kind,
        parent |-> IF want[p].parent = 0 /\ objmeta_oid_next > 1
                   THEN 1 ELSE want[p].parent,
        proc |-> p, deleted |-> "no", buffer |-> buffer]]
  /\ objmeta_oid_next' = objmeta_oid_next + 1
  /\ Unlock
  /\ Return(p)

\* OUTOFOBJ after the loop: neither the lock nor a new block is given back.
GiveUp(p) ==
  /\ objmeta_lock' = p
  /\ Return(p)
  /\ UNCHANGED <<objmeta, objmeta_oid_next>>

\* NOTUNIQ, OUTOFOBJ: the lock is released, then a new block given back.
RefuseLocked(p) == GiveUp(p)                                      \* a mutant
RefuseLeaks(p) ==                                                 \* a mutant
  Unlock /\ Return(p) /\ UNCHANGED <<objmeta, objmeta_oid_next>>
Refuse(p) ==
  /\ Unlock
  /\ IF buf[p] = NoBlock THEN Return(p) ELSE GoTo(p, "free") /\ UNCHANGED regs
  /\ UNCHANGED <<objmeta, objmeta_oid_next>>

\* First try: a kept slot, whose block comes with it.
InsertKept(p) ==
  /\ pc[p] = "insert" /\ CanLock(p) /\ KeptSlots(p) # {}
  /\ \E s \in First(KeptSlots(p)) :
       IF Clash(want[p].kind) THEN Refuse(p) ELSE Store(p, s, objmeta[s].buffer)
  /\ UNCHANGED <<objmeta_free, heap, doomed>>

\* The lock is released while memory is allocated.
InsertNeedsBlock(p) ==
  /\ pc[p] = "insert" /\ CanLock(p) /\ KeptSlots(p) = {}
  /\ want[p].kind.data
  /\ Unlock
  /\ GoTo(p, "alloc")
  /\ UNCHANGED <<objmeta, objmeta_free, objmeta_oid_next, heap, regs, doomed>>

InsertAlloc(p) ==
  /\ pc[p] = "alloc"
  /\ \E b \in Blocks \ heap :
       heap' = heap \cup {b} /\ buf' = [buf EXCEPT ![p] = b]
  /\ GoTo(p, "claim")
  /\ UNCHANGED <<objmeta, objmeta_lock, objmeta_free, objmeta_oid_next,
                 want, due, target, imm, todo, scan, doomed>>

\* No memory.  In hard real-time the insert ends here; otherwise it locks
\* again to retry.
InsertNoMemory(p) ==
  /\ pc[p] = "alloc" /\ Blocks \subseteq heap
  /\ IF HardRealtime THEN Return(p) ELSE GoTo(p, "retry") /\ UNCHANGED regs
  /\ UNCHANGED <<objmeta, objmeta_lock, objmeta_free, objmeta_oid_next, heap,
                 doomed>>

\* NOTUNIQ after a failed allocation: the index to free is -1, which the heap
\* refuses (suba.c:193).
RefuseRetry(p) ==
  /\ Unlock
  /\ GoTo(p, "free")
  /\ UNCHANGED <<objmeta, objmeta_oid_next, regs>>

\* The retry is a `continue' of do { } while(0): it leaves the loop, with the
\* lock and without a slot.
InsertRetry(p) ==
  /\ pc[p] = "retry" /\ CanLock(p)
  /\ IF Clash(want[p].kind) THEN RefuseRetry(p) ELSE GiveUp(p)
  /\ UNCHANGED <<objmeta_free, heap, doomed>>

Claiming(p) ==
  \/ pc[p] = "claim"
  \/ pc[p] = "insert" /\ KeptSlots(p) = {} /\ ~want[p].kind.data

\* Second try: a free slot.  It is counted off before the check for unique.
ClaimUnchecked(p) ==                                              \* a mutant
  /\ Claiming(p) /\ CanLock(p) /\ FreeSlots # {}
  /\ objmeta_free' = objmeta_free - 1
  /\ \E s \in First(FreeSlots) :
       IF pc[p] # "claim" /\ Clash(want[p].kind) THEN Refuse(p) ELSE Store(p, s, buf[p])
  /\ UNCHANGED <<heap, doomed>>
InsertClaim(p) ==
  /\ Claiming(p) /\ CanLock(p) /\ FreeSlots # {}
  /\ objmeta_free' = objmeta_free - 1
  /\ \E s \in First(FreeSlots) :
       IF Clash(want[p].kind) THEN Refuse(p) ELSE Store(p, s, buf[p])
  /\ UNCHANGED <<heap, doomed>>

InsertNoSlot(p) ==
  /\ Claiming(p) /\ CanLock(p) /\ FreeSlots = {}
  /\ IF HardRealtime \/ Clash(want[p].kind) THEN Refuse(p) ELSE GiveUp(p)
  /\ UNCHANGED <<objmeta_free, heap, doomed>>

\* The useless block is given back.
InsertFree(p) ==
  /\ pc[p] = "free"
  /\ heap' = heap \ {buf[p]}
  /\ Return(p)
  /\ UNCHANGED <<objmeta, objmeta_lock, objmeta_free, objmeta_oid_next, doomed>>

-----------------------------------------------------------------------------
(* kogmo_rtdb_obj_delete_imm *)

\* A process deletes any object it knows of; the manager, in purge_procs, what
\* a dead process left, immediately if that process asked for it.
DeleteCall(p) ==
  /\ pc[p] = "idle"
  /\ \E o \in 1 .. objmeta_oid_next - 1, i \in BOOLEAN :
       /\ IF p = Manager
          THEN \E s \in FindMeta(o) : pc[objmeta[s].proc] = "dead"
          ELSE FindMeta(o) # {} /\ ~i
       /\ target' = [target EXCEPT ![p] = o]
       /\ imm' = [imm EXCEPT ![p] = i]
  /\ GoTo(p, "delete")
  /\ UNCHANGED <<objmeta, objmeta_lock, objmeta_free, objmeta_oid_next, heap,
                 want, buf, due, todo, scan, doomed>>

MayDelete(p, s) ==
  objmeta[s].kind.write_allow \/ objmeta[s].proc = p \/ p = Manager

AtOnceUnlessKept(p, s) == ~objmeta[s].kind.keep_alloc              \* a mutant
AtOnce(p, s) == objmeta[s].kind.immediately_delete \/ imm[p]

\* The slots the target can be deleted from: at most one.
Deletable(p) ==
  {s \in FindMeta(target[p]) :
     MayDelete(p, s) /\ (s \in Live \/ AtOnce(p, s))}

\* NOTFOUND or NOPERM: on with the children of the object deleted before.
DeleteFails(p) ==
  /\ pc[p] = "delete" /\ CanLock(p) /\ Deletable(p) = {}
  /\ Unlock
  /\ GoTo(p, "children")
  /\ target' = [target EXCEPT ![p] = 0]
  /\ imm' = [imm EXCEPT ![p] = FALSE]
  /\ UNCHANGED <<objmeta, objmeta_free, objmeta_oid_next, heap, want, buf, due,
                 todo, scan, doomed>>

\* searchinfo by parent: the live children, in the order of the slots.
ChildSlots(oid) == {s \in Live : objmeta[s].parent = oid}
UpTo(S, s) == {t \in S : t <= s}
Nth(S, i)  == CHOOSE s \in S : Cardinality(UpTo(S, s)) = i
Children(oid) ==
  [i \in 1 .. Cardinality(ChildSlots(oid)) |->
     objmeta[Nth(ChildSlots(oid), i)].oid]

\* purgeslot: the block is given back and the slot is free again.
PurgeBlockOnly(s) ==                                              \* a mutant
  /\ objmeta_free' = objmeta_free + 1
  /\ heap' = heap \ {objmeta[s].buffer}
  /\ UNCHANGED objmeta
PurgeSlot(s) ==
  /\ objmeta' = [objmeta EXCEPT ![s] = Free]
  /\ objmeta_free' = objmeta_free + 1
  /\ heap' = heap \ {objmeta[s].buffer}

\* The children that shall go with the object in slot s when p deletes it.
Dependents(p, s) ==
  {<<objmeta[c].oid, p>> :
     c \in {d \in Live \ {s} : /\ objmeta[d].parent = objmeta[s].oid
                               /\ objmeta[d].kind.parent_delete
                               /\ MayDelete(p, d)}}

DeleteMark(p) ==
  /\ pc[p] = "delete" /\ CanLock(p)
  /\ \E s \in Deletable(p) :
       /\ IF AtOnce(p, s)
          THEN PurgeSlot(s)
          ELSE /\ objmeta' = [objmeta EXCEPT ![s].deleted = "recent"]
               /\ UNCHANGED <<objmeta_free, heap>>
       /\ todo' = [todo EXCEPT ![p] = Children(target[p]) \o todo[p]]
       /\ doomed' = {d \in doomed : FindMeta(d[1]) # {}} \cup Dependents(p, s)
  /\ Unlock
  /\ GoTo(p, "children")
  /\ target' = [target EXCEPT ![p] = 0]
  /\ imm' = [imm EXCEPT ![p] = FALSE]
  /\ UNCHANGED <<objmeta_oid_next, want, buf, due, scan>>

\* readinfo of the next child: if it is live and depends on its parent it is
\* deleted, before the rest of the list.
ReadChildBreak(p) ==                                              \* a mutant
  /\ pc[p] = "children" /\ CanLock(p) /\ todo[p] # <<>>
  /\ IF \E s \in FindMeta(Head(todo[p])) \cap Live : objmeta[s].kind.parent_delete
     THEN /\ target' = [target EXCEPT ![p] = Head(todo[p])] /\ GoTo(p, "delete")
          /\ todo' = [todo EXCEPT ![p] = Tail(todo[p])]
     ELSE todo' = [todo EXCEPT ![p] = <<>>] /\ UNCHANGED <<target, pc>>
  /\ Unlock
  /\ UNCHANGED <<objmeta, objmeta_free, objmeta_oid_next, heap, want, buf, due,
                 imm, scan, doomed>>
ReadChild(p) ==
  /\ pc[p] = "children" /\ CanLock(p) /\ todo[p] # <<>>
  /\ IF \E s \in FindMeta(Head(todo[p])) \cap Live : objmeta[s].kind.parent_delete
     THEN target' = [target EXCEPT ![p] = Head(todo[p])] /\ GoTo(p, "delete")
     ELSE UNCHANGED <<target, pc>>
  /\ todo' = [todo EXCEPT ![p] = Tail(todo[p])]
  /\ Unlock
  /\ UNCHANGED <<objmeta, objmeta_free, objmeta_oid_next, heap, want, buf, due,
                 imm, scan, doomed>>

DeleteReturn(p) ==
  /\ pc[p] = "children" /\ todo[p] = <<>>
  /\ Return(p)
  /\ UNCHANGED <<objmeta, objmeta_lock, objmeta_free, objmeta_oid_next, heap,
                 doomed>>

-----------------------------------------------------------------------------
(* kogmo_rtdb_objmeta_purge_objs, by the manager *)

PurgeCall(p) ==
  /\ pc[p] = "idle" /\ p = Manager
  /\ due' = [due EXCEPT ![p] = Old]
  /\ GoTo(p, "purge")
  /\ UNCHANGED <<objmeta, objmeta_lock, objmeta_free, objmeta_oid_next, heap,
                 want, buf, target, imm, todo, scan, doomed>>

\* Slots not yet scanned whose object was due when the purge began.
DueByNow(p) == {s \in Used \ Live : s >= scan[p]}                 \* a mutant
DueSlots(p) == {s \in Used \ Live : s >= scan[p] /\ objmeta[s].oid \in due[p]}

\* Kept allocations are purged only when memory is short (PERCFREE, MAXSECS:
\* left open), and never in hard real-time.
MustPurge(p) == {s \in DueSlots(p) : ~objmeta[s].kind.keep_alloc}
MayPurge(p)  == IF HardRealtime THEN MustPurge(p) ELSE DueSlots(p)

\* One object is purged, then the lock is released for a moment.
PurgeNext(p) ==
  /\ pc[p] = "purge" /\ CanLock(p)
  /\ \E s \in MayPurge(p) :
       /\ s \in First(MustPurge(p) \cup {s})
       /\ PurgeSlot(s)
       /\ scan' = [scan EXCEPT ![p] = s + 1]
  /\ Unlock
  /\ UNCHANGED <<objmeta_oid_next, pc, want, buf, due, target, imm, todo, doomed>>

PurgeReturn(p) ==
  /\ pc[p] = "purge" /\ CanLock(p) /\ MustPurge(p) = {}
  /\ Unlock
  /\ Return(p)
  /\ UNCHANGED <<objmeta, objmeta_free, objmeta_oid_next, heap, doomed>>

-----------------------------------------------------------------------------
(* Time and death. *)

\* The keep time of a deleted object ends.
Age(s) ==
  /\ s \in Used /\ objmeta[s].deleted = "recent"
  /\ objmeta' = [objmeta EXCEPT ![s].deleted = "old"]
  /\ UNCHANGED <<objmeta_lock, objmeta_free, objmeta_oid_next, heap, pc, regs,
                 doomed>>

\* A process is killed between two sections; a new block stays allocated.
Die(p) ==
  /\ p # Manager /\ pc[p] # "dead"
  /\ Cardinality({q \in Procs : pc[q] = "dead"}) < MaxDeaths
  /\ GoTo(p, "dead")
  /\ Forgotten(p)
  /\ UNCHANGED <<objmeta, objmeta_lock, objmeta_free, objmeta_oid_next, heap,
                 buf, doomed>>

Insert(p) ==
  \/ InsertCall(p) \/ InsertKept(p) \/ InsertNeedsBlock(p) \/ InsertAlloc(p)
  \/ InsertNoMemory(p) \/ InsertRetry(p) \/ InsertClaim(p) \/ InsertNoSlot(p)
  \/ InsertFree(p)

Delete(p) ==
  DeleteCall(p) \/ DeleteFails(p) \/ DeleteMark(p) \/ ReadChild(p) \/ DeleteReturn(p)

Purge(p) == PurgeCall(p) \/ PurgeNext(p) \/ PurgeReturn(p)

Next ==
  \/ \E p \in Procs : Insert(p) \/ Delete(p) \/ Purge(p) \/ Die(p)
  \/ \E s \in Slots : Age(s)

Spec == Init /\ [][Next]_vars

-----------------------------------------------------------------------------
(* Properties *)

Oids  == 0 .. objmeta_oid_next - 1
SlotType ==
  [oid : {0}, kind : {Nobody}, parent : {0}, proc : {Nobody},
   deleted : {"no"}, buffer : {NoBlock}]
  \cup [oid : Oids \ {0}, kind : Kinds, parent : Oids, proc : Procs,
        deleted : {"no", "recent", "old"}, buffer : Blocks \cup {NoBlock}]

\* Every variable has its type (the structs of kogmo_rtdb_obj_local.h and the
\* local variables of the calls).
TypeOK ==
  /\ objmeta \in [Slots -> SlotType]
  /\ objmeta_lock \in Procs \cup {Nobody}
  /\ objmeta_free \in Int
  /\ objmeta_oid_next \in Nat \ {0}
  /\ heap \subseteq Blocks
  /\ pc \in [Procs -> {"idle", "insert", "alloc", "retry", "claim", "free",
                       "delete", "children", "purge", "dead"}]
  /\ want \in [Procs -> {NoCall} \cup [kind : Kinds, parent : Oids]]
  /\ buf \in [Procs -> Blocks \cup {NoBlock}]
  /\ due \in [Procs -> SUBSET Oids]
  /\ target \in [Procs -> Oids]
  /\ imm \in [Procs -> BOOLEAN]
  /\ todo \in [Procs -> Seq(Oids)]
  /\ scan \in [Procs -> 0 .. ObjMax]
  /\ doomed \subseteq Oids \X Procs

\* No two live objects have one name if one of them is unique, however inserts
\* race for the lock they release while allocating (objmeta.c:441-519,
\* types.h:217 "a second object with the same name ... will be refused").
UniqueIsUnique ==
  \A s, t \in Live :
    s # t /\ objmeta[s].kind.name = objmeta[t].kind.name
      => ~objmeta[s].kind.unique /\ ~objmeta[t].kind.unique

HasBlock(s) == objmeta[s].buffer # NoBlock

\* A block of the heap belongs to one object or one insert under way, is
\* allocated as long as it does, and an object with data has one: neither a
\* purge, a re-use of a kept slot nor a failing insert frees or hands out a
\* block twice (objmeta.c:410, 490, 513, 585).
BlocksHaveOneOwner ==
  /\ \A s \in Used : HasBlock(s) => objmeta[s].buffer \in heap
  /\ \A p \in Procs : buf[p] # NoBlock => buf[p] \in heap
  /\ \A s, t \in Used :
       HasBlock(s) /\ objmeta[s].buffer = objmeta[t].buffer => s = t
  /\ \A p, q \in Procs : buf[p] # NoBlock /\ buf[p] = buf[q] => p = q
  /\ \A s \in Used, p \in Procs : HasBlock(s) => objmeta[s].buffer # buf[p]
  /\ \A s \in Used : objmeta[s].kind.data <=> HasBlock(s)

\* No allocated block is forgotten: each belongs to an object or to an insert
\* under way, a killed one included (objmeta.c:489, 513; housekeeping.c:61).
NoMemoryLost ==
  \A b \in heap : \/ \E s \in Used : objmeta[s].buffer = b
                  \/ \E p \in Procs : buf[p] = b

\* The count of free slots the database object reports never exceeds the slots
\* that are free (objmeta.c:471, 589).
FreeIsNotOverstated == objmeta_free <= Cardinality(FreeSlots)

\* Nothing is lost by a failed insert, a purge or a killed process: an allocated
\* block has an owner, and no more slots are counted as free than there are
\* (objmeta.c:471-524, 589).
MemoryIsAccounted == NoMemoryLost /\ FreeIsNotOverstated

\* A call that is over has released objmeta_lock (locklist.txt:1 lists
\* objmeta_unlock among what insert does).
LockIsReleased == \A p \in Procs : pc[p] = "idle" => objmeta_lock # p

PendingDeletes(p) == Range(todo[p]) \cup {target[p]}

\* A child that was to be deleted with its parent is gone, or its deletion is
\* still to come, or who deleted the parent was killed (objmeta.c:643-688,
\* types.h:229 "Object will be deleted if the parent object is deleted").
NoChildLeftBehind ==
  \A d \in doomed :
    \/ FindMeta(d[1]) \cap Live = {}
    \/ d[1] \in PendingDeletes(d[2])
    \/ pc[d[2]] = "dead"

\* A deleted object stays in its slot until its keep time is over, unless its
\* process is dead: neither the purge, which goes by the time of its begin, nor
\* the re-use of a kept slot takes it earlier (objmeta.c:404, housekeeping.c:55).
KeepTimeIsKept ==
  [][\A s \in Used \ Live :
       objmeta'[s].oid # objmeta[s].oid =>
         objmeta[s].deleted = "old" \/ pc[objmeta[s].proc] = "dead"]_vars

\* What a failing insert must not break, even where it leaves the lock locked:
\* blocks have one owner, keep times are kept (objmeta.c:379-524).
RegistryIsKept == []BlocksHaveOneOwner /\ KeepTimeIsKept

\* The slots, locks and heap implement the abstract registry.
Object(s) ==
  [oid |-> objmeta[s].oid, kind |-> objmeta[s].kind,
   parent |-> objmeta[s].parent, proc |-> objmeta[s].proc,
   deleted |-> objmeta[s].deleted # "no"]
Objects == {Object(s) : s \in Used}
Dead    == {p \in Procs : pc[p] = "dead"}

Registry == INSTANCE RtdbRegistry WITH
  objs <- Objects, next <- objmeta_oid_next, dead <- Dead

\* Every section of a call is a step of the registry or none: ids are never
\* given twice, deleted objects do not come back, and only objects that are
\* deleted, or to be deleted at once, disappear (objmeta.c:526-549, 588).
ImplementsRegistry == Registry!Spec
=============================================================================
