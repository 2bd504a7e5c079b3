----------------------------- MODULE RtdbNotify -----------------------------
(***************************************************************************)
(* Waiting for the next data block of an object: readdata_waitnext(_until) *)
(* of the waiters against commits, deletion, purge and re-use of the       *)
(* object's metadata slot (kogmo_rtdb_objdata.c, kogmo_rtdb_objmeta.c,     *)
(* kogmo_rtdb_proc_obj_notify.h).                                          *)
(*                                                                         *)
(* One slot with its notification lock and condition variable.  A waiter   *)
(* finds the slot by object id once and keeps a pointer to it.  The object *)
(* has no write_allow: its creator writes and deletes it, the manager      *)
(* deletes what a dead creator left.  A block is its commit time; how it   *)
(* is copied is RtdbRing's and RtdbObjRead's subject.                      *)
(***************************************************************************)
EXTENDS Integers, FiniteSets

CONSTANTS
  Owners,      \* the processes that insert, write and delete
  Manager,     \* one that only deletes and purges
  Waiters,     \* the processes that wait for data
  Nobody,      \* no process
  NoNotifies,  \* the choices for the flag no_notifies of the database
  Immediate,   \* the choices for the flag immediately_delete of an object
  MaxOid,      \* bound: objects inserted into the slot
  MaxTime,     \* bound: commits
  MaxDeaths    \* bound: owners killed

ASSUME NotifyAssumption ==
  /\ Manager \notin Owners /\ Nobody \notin Owners \cup Waiters \cup {Manager}
  /\ Waiters \cap (Owners \cup {Manager}) = {}
  /\ NoNotifies \subseteq BOOLEAN /\ Immediate \subseteq BOOLEAN
  /\ {MaxOid, MaxTime, MaxDeaths} \subseteq Nat

VARIABLES
  slot,             \* the metadata slot, with the commit time of its latest data
  now,              \* commit times up to now have been used
  oid_next,         \* object ids below it have been used
  no_notifies,      \* whether waiters poll
  notify_lock,      \* owner of obj_changenotify_lock
  pc,               \* what each process does next
  dead,             \* the owners that were killed
  call              \* each waiter's arguments: oid and old_ts

vars == <<slot, now, oid_next, no_notifies, notify_lock, pc, dead, call>>


Procs   == Owners \cup {Manager}
Threads == Procs \cup Waiters

\* The waiters blocked on obj_changenotify.
Asleep == {w \in Waiters : pc[w] = "asleep"}

NoCall == [oid |-> 0, old_ts |-> 0]

Init ==
  /\ slot = [oid |-> 0, deleted |-> FALSE, latest |-> 0, proc |-> Nobody,
             immediately_delete |-> FALSE]
  /\ now = 0
  /\ oid_next = 1
  /\ no_notifies \in NoNotifies
  /\ notify_lock = Nobody
  /\ pc = [t \in Threads |-> "idle"]
  /\ dead = {}
  /\ call = [w \in Waiters |-> NoCall]

GoTo(t, place) == pc' = [pc EXCEPT ![t] = place]

\* kogmo_rtdb_ipc_mutex_lock and _unlock on the slot's notification lock.
Lock(t) == notify_lock = Nobody /\ notify_lock' = t
Unlock  == notify_lock' = Nobody

-----------------------------------------------------------------------------
(* Insert, write, delete, purge. *)

Insert(p) ==
  /\ pc[p] = "idle" /\ p \in Owners /\ slot.oid = 0 /\ oid_next <= MaxOid
  /\ \E i \in Immediate :
       slot' = [oid |-> oid_next, deleted |-> FALSE, latest |-> 0, proc |-> p,
                immediately_delete |-> i]
  /\ oid_next' = oid_next + 1
  /\ UNCHANGED <<now, no_notifies, notify_lock, pc, dead, call>>

\* A commit is at the point where listeners are blocked, if there are any.
CommitPrepare(p) ==
  /\ pc[p] = "idle" /\ now < MaxTime
  /\ slot.oid # 0 /\ slot.proc = p /\ ~slot.deleted
  /\ IF no_notifies THEN UNCHANGED notify_lock ELSE Lock(p)
  /\ GoTo(p, "publish")
  /\ UNCHANGED <<slot, now, oid_next, no_notifies, dead, call>>

\* The commit time becomes valid and history_slot points to it.
PublishAlone(p) ==                                                \* a mutant
  /\ pc[p] = "publish"
  /\ now' = now + 1
  /\ slot' = [slot EXCEPT !.latest = now + 1]
  /\ GoTo(p, "idle")
  /\ IF no_notifies THEN UNCHANGED notify_lock ELSE Unlock
  /\ UNCHANGED <<oid_next, no_notifies, dead, call>>
PublishSameTime(p) ==                                             \* a mutant
  /\ pc[p] = "publish"
  /\ slot' = [slot EXCEPT !.latest = now + 1]
  /\ GoTo(p, IF no_notifies THEN "idle" ELSE "notify")
  /\ UNCHANGED <<now, oid_next, no_notifies, notify_lock, dead, call>>
Publish(p) ==
  /\ pc[p] = "publish"
  /\ now' = now + 1
  /\ slot' = [slot EXCEPT !.latest = now + 1]
  /\ GoTo(p, IF no_notifies THEN "idle" ELSE "notify")
  /\ UNCHANGED <<oid_next, no_notifies, notify_lock, dead, call>>

\* Broadcast, then unlock.
DoNotify(p) ==
  /\ pc[p] = "notify"
  /\ pc' = [t \in Threads |-> IF t = p THEN "idle"
                              ELSE IF t \in Asleep THEN "woken" ELSE pc[t]]
  /\ Unlock
  /\ UNCHANGED <<slot, now, oid_next, no_notifies, dead, call>>

\* delete, up to objmeta_unlock: the object is marked.  It is purged at once if
\* its flag, or the manager for a dead process, asks for it; then it may have
\* been marked before.
DeleteMark(p) ==
  /\ pc[p] = "idle" /\ slot.oid # 0
  /\ slot.proc = p \/ (p = Manager /\ slot.proc \in dead)
  /\ \E i \in BOOLEAN :
       /\ i => p = Manager
       /\ ~slot.deleted \/ slot.immediately_delete \/ i
       /\ slot' = [slot EXCEPT !.deleted = TRUE,
                               !.oid = IF i \/ slot.immediately_delete THEN 0 ELSE @]
  /\ GoTo(p, "deleted")
  /\ UNCHANGED <<now, oid_next, no_notifies, notify_lock, dead, call>>

\* Listeners are informed of the deletion, whatever no_notifies says.
DeleteSilently(p) ==                                              \* a mutant
  /\ pc[p] = "deleted"
  /\ GoTo(p, "idle")
  /\ UNCHANGED <<slot, now, oid_next, no_notifies, notify_lock, dead, call>>
DeletePrepare(p) ==
  /\ pc[p] = "deleted"
  /\ Lock(p)
  /\ GoTo(p, "notify")
  /\ UNCHANGED <<slot, now, oid_next, no_notifies, dead, call>>

\* The keep time is over; deleted_ts stays in the slot.
Purge ==
  /\ pc[Manager] = "idle" /\ slot.oid # 0 /\ slot.deleted
  /\ slot' = [slot EXCEPT !.oid = 0]
  /\ UNCHANGED <<now, oid_next, no_notifies, notify_lock, pc, dead, call>>

\* An owner is killed where it is, with the lock if it had it: the mutex is not
\* robust.
Die(p) ==
  /\ p \in Owners /\ Cardinality(dead) < MaxDeaths
  /\ dead' = dead \cup {p}
  /\ UNCHANGED <<slot, now, oid_next, no_notifies, notify_lock, pc, call>>

-----------------------------------------------------------------------------
(* kogmo_rtdb_obj_readdata_waitnext_until *)

\* The object is found; old_ts is normally the commit time last read.
WaitCall(w) ==
  /\ pc[w] = "idle" /\ slot.oid # 0
  /\ \E old_ts \in 0 .. now :
       call' = [call EXCEPT ![w] = [oid |-> slot.oid, old_ts |-> old_ts]]
  /\ GoTo(w, "prepare")
  /\ UNCHANGED <<slot, now, oid_next, no_notifies, notify_lock, dead>>

Return(w) ==
  /\ GoTo(w, "idle")
  /\ call' = [call EXCEPT ![w] = NoCall]

WaitPrepareAnyway(w) ==                                           \* a mutant
  /\ pc[w] = "prepare"
  /\ GoTo(w, "read")
  /\ UNCHANGED <<slot, now, oid_next, no_notifies, notify_lock, dead, call>>
WaitPrepare(w) ==
  /\ pc[w] = "prepare"
  /\ IF no_notifies THEN UNCHANGED notify_lock ELSE Lock(w)
  /\ GoTo(w, "read")
  /\ UNCHANGED <<slot, now, oid_next, no_notifies, dead, call>>

Found(w)   == slot.oid = call[w].oid /\ ~slot.deleted /\ slot.latest # 0
IsNewerOrSame(w) == Found(w) /\ slot.latest >= call[w].old_ts     \* a mutant
IsNewer(w) == Found(w) /\ slot.latest > call[w].old_ts

\* wait_notify_done; polling waiters have nothing to unlock.
WaitDone == IF no_notifies THEN UNCHANGED notify_lock ELSE Unlock

FindNewer(w) ==
  /\ pc[w] = "read" /\ IsNewer(w)
  /\ WaitDone
  /\ GoTo(w, "reread")
  /\ UNCHANGED <<slot, now, oid_next, no_notifies, dead, call>>

\* Not found and deleted_ts is set: NOTFOUND.
FindDeleted(w) ==
  /\ pc[w] = "read" /\ ~Found(w) /\ slot.deleted
  /\ WaitDone
  /\ Return(w)
  /\ UNCHANGED <<slot, now, oid_next, no_notifies, dead>>

\* Old data, or not found without deleted_ts (no data yet): wait.
FindNothing(w) ==
  /\ pc[w] = "read" /\ ~IsNewer(w) /\ (Found(w) \/ ~slot.deleted)
  /\ GoTo(w, IF no_notifies THEN "poll" ELSE "asleep")
  /\ WaitDone
  /\ UNCHANGED <<slot, now, oid_next, no_notifies, dead, call>>

\* A polling waiter reads without the lock: its header may be overwritten
\* (HISTWRAP), which ends the call.
PollOverwritten(w) ==
  /\ pc[w] = "read" /\ no_notifies /\ Found(w)
  /\ \E p \in Owners : pc[p] = "publish"
  /\ Return(w)
  /\ UNCHANGED <<slot, now, oid_next, no_notifies, notify_lock, dead>>

\* pthread_cond_wait may return without a reason.
WakeSpuriously(w) ==
  /\ w \in Asleep
  /\ GoTo(w, "woken")
  /\ UNCHANGED <<slot, now, oid_next, no_notifies, notify_lock, dead, call>>

\* Awake, the waiter gets the lock back and releases it.
WaitAgain(w) ==
  /\ pc[w] = "woken" /\ notify_lock = Nobody
  /\ GoTo(w, "prepare")
  /\ UNCHANGED <<slot, now, oid_next, no_notifies, notify_lock, dead, call>>

\* wakeup_ts has come (without one this never happens): TIMEOUT, once the lock is
\* free.  A polling waiter returns the result of its last read instead.
Timeout(w) ==
  /\ \/ w \in Asleep /\ notify_lock = Nobody
     \/ pc[w] = "poll"
  /\ Return(w)
  /\ UNCHANGED <<slot, now, oid_next, no_notifies, notify_lock, dead>>

PollAgain(w) ==
  /\ pc[w] = "poll"
  /\ GoTo(w, "prepare")
  /\ UNCHANGED <<slot, now, oid_next, no_notifies, notify_lock, dead, call>>

\* The full object is read without the lock.
ReadAgain(w) ==
  /\ pc[w] = "reread"
  /\ Return(w)
  /\ UNCHANGED <<slot, now, oid_next, no_notifies, notify_lock, dead>>

-----------------------------------------------------------------------------
ProcStep(p) ==
  /\ p \notin dead
  /\ \/ Insert(p) \/ CommitPrepare(p) \/ Publish(p) \/ DoNotify(p)
     \/ DeleteMark(p) \/ DeletePrepare(p) \/ Die(p)

WaiterStep(w) ==
  \/ WaitCall(w) \/ WaitPrepare(w) \/ FindNewer(w) \/ FindDeleted(w)
  \/ FindNothing(w) \/ PollOverwritten(w) \/ WakeSpuriously(w) \/ WaitAgain(w)
  \/ Timeout(w) \/ PollAgain(w) \/ ReadAgain(w)

Next ==
  \/ \E p \in Procs : ProcStep(p)
  \/ \E w \in Waiters : WaiterStep(w)
  \/ Purge

Spec == Init /\ [][Next]_vars

\* What goes on with a call that was begun: nobody has to begin one, and no
\* timeout has to fire.
ProcGoesOn(p)   == p \notin dead /\ (Publish(p) \/ DoNotify(p) \/ DeletePrepare(p))
WaiterGoesOn(w) ==
  \/ WaitPrepare(w) \/ FindNewer(w) \/ FindDeleted(w) \/ FindNothing(w)
  \/ WaitAgain(w) \/ PollAgain(w) \/ ReadAgain(w)

\* Threads are scheduled, and who competes for the lock gets it once it is free
\* often enough.
Fairness ==
  /\ \A p \in Procs : SF_vars(ProcGoesOn(p))
  /\ \A w \in Waiters : SF_vars(WaiterGoesOn(w))

FairSpec == Spec /\ Fairness

-----------------------------------------------------------------------------
(* Properties *)

\* Every variable has its type (kogmo_rtdb_obj_local.h, ipc_posix.h).
TypeOK ==
  /\ slot \in [oid : 0 .. oid_next - 1, deleted : BOOLEAN, latest : 0 .. now,
               proc : Owners \cup {Nobody}, immediately_delete : BOOLEAN]
  /\ now \in Nat /\ oid_next \in Nat \ {0} /\ no_notifies \in BOOLEAN
  /\ notify_lock \in Threads \cup {Nobody}
  /\ pc \in [Threads -> {"idle", "publish", "notify", "deleted", "prepare", "read",
                         "asleep", "woken", "poll", "reread"}]
  /\ dead \subseteq Owners
  /\ call \in [Waiters -> [oid : 0 .. oid_next - 1, old_ts : 0 .. now]]

\* No commit and no deletion is slept through: when a waiter sleeps while its
\* object has newer data, or is marked deleted, somebody is on the way to the
\* broadcast, or died there (objdata.c:155-170, 829-863, objmeta.c:667-671).
NoLostWakeup ==
  \A w \in Asleep :
    /\ IsNewer(w) => notify_lock \in Owners /\ pc[notify_lock] = "notify"
    /\ slot.deleted => \E p \in Procs : pc[p] \in {"notify", "deleted"}

\* What ends the wait is newer than old_ts and stays so until the block is read:
\* the final read cannot fall back behind it while the object lives
\* (objdata.c:836, 892; funcs.h:517 "will be greater than this one").
NewerUntilRead ==
  \A w \in Waiters :
    pc[w] = "reread" /\ slot.oid = call[w].oid => slot.latest > call[w].old_ts

Waiting(w)   == pc[w] \notin {"idle", "reread"}
LockOrphaned == notify_lock \in dead

\* Newer data ends the wait, unless the object goes, or somebody was killed with
\* the lock (objdata.c:826-890).
CommitEndsWait ==
  \A w \in Waiters :
    Waiting(w) /\ IsNewer(w) ~> ~Waiting(w) \/ ~Found(w) \/ LockOrphaned

\* The deletion of an object ends the wait, unless another object takes its slot
\* first, or who deleted it was killed before the broadcast (objdata.c:853,
\* objmeta.c:667-671).
DeletionEndsWait ==
  \A w \in Waiters :
    Waiting(w) /\ slot.deleted
      ~> \/ ~Waiting(w) \/ ~slot.deleted \/ LockOrphaned
         \/ \E p \in dead : pc[p] = "deleted"

\* As the comment in delete says (objmeta.c:669 "inform listeners"): once its
\* object is gone a waiter does not wait for ever.
ListenersAreInformed ==
  \A w \in Waiters :
    Waiting(w) /\ slot.oid # call[w].oid ~> ~Waiting(w)
=============================================================================
