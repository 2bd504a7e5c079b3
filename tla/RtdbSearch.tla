----------------------------- MODULE RtdbSearch -----------------------------
(***************************************************************************)
(* Searching the metadata of the objects, waiting until there is one that  *)
(* matches, and following the list of those that do (kogmo_rtdb_objmeta.c, *)
(* kogmo_rtdb_proc_obj_notify.h and the mutexes and condition variables of *)
(* kogmo_rtdb_ipc_posix.c).                                                *)
(*                                                                         *)
(* Names are taken together with types.  That an object once existed, and  *)
(* is found when asked for that time, is left out, and so are lists longer *)
(* than an id list.                                                        *)
(***************************************************************************)
EXTENDS Integers, FiniteSets

CONSTANTS
  Searchers,     \* processes that search
  Changers,      \* processes that insert, delete and change objects
  SearchSlots,   \* slots of objmeta
  Types,         \* otype
  MaxOid,        \* bound: objects inserted
  MaxChanged,    \* bound: calls of changeinfo
  Calls,         \* bound: what a searcher may call
  MaxCalls,      \* bound: how often
  NoProcess

SearchKinds == {"search", "wait", "waitnext", "lists"}

ASSUME SearchAssumption ==
  /\ NoProcess \notin Searchers \cup Changers /\ Searchers \cap Changers = {}
  /\ 0 \notin Types
  /\ Calls \subseteq [kind : SearchKinds, otype : Types \cup {0}, parent : Nat, proc : Changers \cup {0},
                      until : BOOLEAN]
  /\ {MaxOid, MaxChanged, MaxCalls} \subseteq Nat

VARIABLES
  polling,     \* compiled with KOGMO_RTDB_IPC_DO_POLLING
  objmeta,     \* the slots
  next_oid,
  meta_lock,   \* who has locked objmeta_lock
  inside,      \* who believes to hold it
  at_step,     \* what each searcher does next
  call,        \* its call
  calls,
  awake,       \* the searchers the condition variable has woken
  reply,       \* what the call returned
  knows,       \* its known_idlist
  changed

searchVars == <<polling, objmeta, next_oid, meta_lock, inside, at_step, call, calls, awake, reply,
                knows, changed>>

SearchProcs == Searchers \cup Changers
Free == [oid |-> 0, otype |-> 0, parent |-> 0, proc |-> NoProcess, deleted |-> FALSE]
Live(m) == m.oid # 0 /\ ~m.deleted

SearchInit ==
  /\ polling \in BOOLEAN
  /\ objmeta = [i \in SearchSlots |-> Free]
  /\ next_oid = 1 /\ changed = 0 /\ calls = 0
  /\ meta_lock = NoProcess /\ inside = {}
  /\ at_step = [w \in Searchers |-> "out"]
  /\ call = [w \in Searchers |-> CHOOSE c \in Calls : TRUE]
  /\ awake = {}
  /\ reply = [w \in Searchers |-> "none"]
  /\ knows = [w \in Searchers |-> {}]

-----------------------------------------------------------------------------
(* The lock.  The mutex of the emulation is a number that is compared and   *)
(* swapped; the other one knows its owner and refuses any other (EPERM).    *)

LockMeta(p) ==
  /\ meta_lock = NoProcess
  /\ meta_lock' = p
  /\ inside' = inside \cup {p}

UnlockAnyway(p) ==                                                \* a mutant
  /\ meta_lock' = NoProcess
  /\ inside' = inside \ {p}
UnlockMeta(p) ==
  /\ meta_lock' = IF polling \/ meta_lock = p THEN NoProcess ELSE meta_lock
  /\ inside' = inside \ {p}

\* kogmo_rtdb_objmeta_unlock_notify
Sleepers == {w \in Searchers : at_step[w] = "asleep"}

WakeNobody == UNCHANGED awake                                     \* a mutant
WakeAll == awake' = awake \cup Sleepers

-----------------------------------------------------------------------------
(* Changes *)

ChangerVars == <<polling, at_step, call, calls, reply, knows>>

BeginChange(p) ==
  /\ p \notin inside
  /\ LockMeta(p)
  /\ UNCHANGED <<objmeta, next_oid, awake, changed, ChangerVars>>

InsertMeta(p, t, parent) ==
  \E i \in SearchSlots :
    /\ p \in inside /\ next_oid <= MaxOid /\ objmeta[i].oid = 0
    /\ objmeta' = [objmeta EXCEPT ![i] = [oid |-> next_oid, otype |-> t, parent |-> parent,
                                           proc |-> p, deleted |-> FALSE]]
    /\ next_oid' = next_oid + 1
    /\ WakeAll /\ UnlockMeta(p)
    /\ UNCHANGED <<changed, ChangerVars>>

\* The slot is free at once or later.
DeleteMeta(p, i, immediately) ==
  /\ p \in inside /\ Live(objmeta[i])
  /\ objmeta' = [objmeta EXCEPT ![i] = IF immediately THEN Free ELSE [@ EXCEPT !.deleted = TRUE]]
  /\ WakeAll /\ UnlockMeta(p)
  /\ UNCHANGED <<next_oid, changed, ChangerVars>>

PurgeMeta(p, i) ==
  /\ p \in inside /\ objmeta[i].deleted
  /\ objmeta' = [objmeta EXCEPT ![i] = Free]
  /\ UnlockMeta(p)
  /\ UNCHANGED <<next_oid, awake, changed, ChangerVars>>

\* kogmo_rtdb_obj_changeinfo, of administrators: what is not zero is changed, of a
\* deleted object too.
ChangeMeta(p, i, t, parent) ==
  /\ p \in inside /\ objmeta[i].oid # 0 /\ changed < MaxChanged
  /\ objmeta' = [objmeta EXCEPT ![i].otype = IF t # 0 THEN t ELSE @,
                                ![i].parent = IF parent # 0 THEN parent ELSE @]
  /\ changed' = changed + 1
  /\ WakeAll /\ UnlockMeta(p)
  /\ UNCHANGED <<next_oid, ChangerVars>>

-----------------------------------------------------------------------------
(* Searches *)

Matches(m, q) ==
  /\ Live(m)
  /\ q.otype # 0 => m.otype = q.otype
  /\ q.parent # 0 => m.parent = q.parent
  /\ q.proc # 0 => m.proc = q.proc

Found(q) == {objmeta[i].oid : i \in {j \in SearchSlots : Matches(objmeta[j], q)}}

\* Nothing is found, and nothing can be any more: the parent asked for is gone.
Invalid(q) ==
  Found(q) = {} /\ q.parent # 0 /\ ~\E i \in SearchSlots : objmeta[i].oid = q.parent /\ Live(objmeta[i])

\* The wait has to go on.
NothingNew(w) ==
  /\ ~Invalid(call[w])
  /\ IF call[w].kind = "waitnext" THEN Found(call[w]) = knows[w] ELSE Found(call[w]) = {}

Step(w, s) == at_step' = [at_step EXCEPT ![w] = s]
Returns(w, r) == reply' = [reply EXCEPT ![w] = r] /\ Step(w, "out")

\* kogmo_rtdb_obj_wait_metanotify_prepare, or the lock of a search.
Call(w, c) ==
  /\ at_step[w] = "out" /\ calls < MaxCalls
  /\ call' = [call EXCEPT ![w] = c]
  /\ calls' = calls + 1
  /\ Step(w, "lock")
  /\ UNCHANGED <<polling, objmeta, next_oid, meta_lock, inside, awake, reply, knows, changed>>

Prepare(w) ==
  /\ at_step[w] = "lock"
  /\ LockMeta(w)
  /\ Step(w, "search")
  /\ UNCHANGED <<polling, objmeta, next_oid, call, calls, awake, reply, knows, changed>>

\* A search that returns; lists: known_idlist becomes what is there, and what was
\* added and deleted is told.
SearchReturns(w) ==
  /\ at_step[w] = "search"
  /\ call[w].kind \in {"search", "lists"} \/ ~NothingNew(w)
  /\ Returns(w, IF Invalid(call[w]) THEN "invalid" ELSE "found")
  /\ knows' = IF call[w].kind \in {"waitnext", "lists"} /\ ~Invalid(call[w])
              THEN [knows EXCEPT ![w] = Found(call[w])] ELSE knows
  /\ UnlockMeta(w)
  /\ UNCHANGED <<polling, objmeta, next_oid, call, calls, awake, changed>>

\* The condition variable: asleep and unlocked in one; the emulation just sleeps.
FallAsleep(w) ==
  /\ at_step[w] = "search" /\ call[w].kind \in {"wait", "waitnext"} /\ NothingNew(w)
  /\ Step(w, "asleep")
  /\ UnlockMeta(w)
  /\ UNCHANGED <<polling, objmeta, next_oid, call, calls, awake, reply, knows, changed>>

\* Woken, or the time is up, which the emulation ignores; the lock is taken again.
WakeUp(w) ==
  /\ at_step[w] = "asleep"
  /\ LockMeta(w)
  /\ \/ (polling \/ w \in awake) /\ Step(w, "woken")
     \/ ~polling /\ call[w].until /\ Step(w, "late")
  /\ awake' = awake \ {w}
  /\ UNCHANGED <<polling, objmeta, next_oid, call, calls, reply, knows, changed>>

\* kogmo_rtdb_obj_wait_metanotify unlocks it, and begins again or ...
SearchAgain(w) ==
  /\ at_step[w] = "woken"
  /\ UnlockMeta(w)
  /\ Step(w, "lock")
  /\ UNCHANGED <<polling, objmeta, next_oid, call, calls, awake, reply, knows, changed>>

Late(w) ==
  /\ at_step[w] = "late"
  /\ UnlockMeta(w)
  /\ Step(w, "late2")
  /\ UNCHANGED <<polling, objmeta, next_oid, call, calls, awake, reply, knows, changed>>

\* ... with TIMEOUT kogmo_rtdb_obj_wait_metanotify_done unlocks it once more.
SearchTimedOut(w) ==
  /\ at_step[w] = "late2"
  /\ UnlockMeta(w)
  /\ Returns(w, "timeout")
  /\ UNCHANGED <<polling, objmeta, next_oid, call, calls, awake, knows, changed>>

SearcherStep(w) ==
  \/ (\E c \in Calls : Call(w, c))
  \/ Prepare(w) \/ SearchReturns(w) \/ FallAsleep(w) \/ WakeUp(w) \/ SearchAgain(w) \/ Late(w)
  \/ SearchTimedOut(w)

ChangerStep(p) ==
  \/ BeginChange(p)
  \/ \E t \in Types \cup {0}, parent \in 0 .. next_oid - 1 :
       \/ t # 0 /\ InsertMeta(p, t, parent)
       \/ \E i \in SearchSlots : ChangeMeta(p, i, t, parent)
  \/ \E i \in SearchSlots, now \in BOOLEAN : DeleteMeta(p, i, now)
  \/ \E i \in SearchSlots : PurgeMeta(p, i)

SearchNext == (\E w \in Searchers : SearcherStep(w)) \/ (\E p \in Changers : ChangerStep(p))

SearchSpec == SearchInit /\ [][SearchNext]_searchVars

-----------------------------------------------------------------------------
(* Properties *)

SearchTypeOK ==
  /\ meta_lock \in SearchProcs \cup {NoProcess} /\ inside \subseteq SearchProcs
  /\ awake \subseteq Searchers
  /\ \A i \in SearchSlots : objmeta[i].oid \in 0 .. MaxOid
  /\ \A w \in Searchers : knows[w] \subseteq 1 .. MaxOid

\* The metadata are searched and changed by one process at a time, although a wait
\* that ran out of time unlocks twice, the second time perhaps what somebody else has
\* locked (objmeta.c:832-836, proc_obj_notify.h:66-82).
MetaLockIsExclusive == Cardinality(inside) <= 1

\* A process that has gone to sleep and not been woken would find nothing if it
\* looked: no object has come or gone, and the parent it waits for children of has
\* not gone ("to avoid waiting forever", funcs.h:233).
SleepersMissNothing ==
  ~polling => \A w \in Sleepers : w \in awake \/ NothingNew(w)
=============================================================================
