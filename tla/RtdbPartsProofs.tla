-------------------------- MODULE RtdbPartsProofs ---------------------------
(***************************************************************************)
(* Proofs about the search for metadata (RtdbSearch), for any number of    *)
(* searchers, changers, slots, objects and calls, with the mutex of the    *)
(* operating system and with the emulation that polls; about the remote    *)
(* monitor (RtdbMonitor), for any number of request numbers, requests,     *)
(* objects and commits, as long as a packet does not live until its number *)
(* comes again; and about the parts side by side (MCRtdbParts): a          *)
(* behaviour of them all is one of each part, so that what is proved of a  *)
(* part holds there.                                                       *)
(***************************************************************************)
EXTENDS MCRtdbParts, RtdbHeapProofs, RtdbProcProofs, RtdbRecordProofs, RtdbFollowProofs

-----------------------------------------------------------------------------
(* The search for metadata *)

SearchSteps == {"out", "lock", "search", "asleep", "woken", "late", "late2"}

Functions ==
  /\ polling \in BOOLEAN
  /\ at_step \in [Searchers -> SearchSteps]
  /\ objmeta \in [SearchSlots -> [oid : Nat, otype : Types \cup {0}, parent : Nat,
                                  proc : SearchProcs \cup {NoProcess}, deleted : BOOLEAN]]
  /\ DOMAIN call = Searchers /\ DOMAIN knows = Searchers
  /\ next_oid \in Nat \ {0}

\* Whoever believes to hold the lock is the one it is registered for.
HolderIsInside == \A p \in inside : p = meta_lock /\ p \in SearchProcs

\* Who searches holds the lock, and only a wait for the operating system's condition
\* variable runs out of time.
SearchersHoldIt ==
  \A w \in Searchers :
    /\ at_step[w] \in {"search", "woken", "late"} => w \in inside
    /\ at_step[w] \in {"late", "late2"} => ~polling

SearchInv ==
  Functions /\ HolderIsInside /\ SearchersHoldIt /\ SleepersMissNothing

USE SearchAssumption DEF SearchProcs

LEMMA SearchInitInv == SearchInit => SearchInv
  BY DEF SearchInit, SearchInv, Functions, SearchSteps, HolderIsInside, SearchersHoldIt,
         SleepersMissNothing, Sleepers, Free

\* Nothing a search looks at has changed.
LEMMA NothingNewUnchanged ==
  ASSUME UNCHANGED objmeta, NEW w \in Searchers, call'[w] = call[w], knows'[w] = knows[w]
  PROVE  NothingNew(w)' = NothingNew(w)
  BY DEF NothingNew, Invalid, Found, Matches, Live

\* A lock or unlock, between which at most one process is.
LEMMA SearcherStepInv ==
  ASSUME SearchInv, NEW w \in Searchers, SearcherStep(w)
  PROVE  SearchInv'
<1> USE DEF SearchInv
<1>1. UNCHANGED objmeta /\ UNCHANGED polling /\ UNCHANGED next_oid
  BY DEF SearcherStep, Call, Prepare, SearchReturns, FallAsleep, WakeUp, SearchAgain, Late,
         SearchTimedOut
<1>2. /\ at_step' \in [Searchers -> SearchSteps]
      /\ \A v \in Searchers \ {w} : at_step'[v] = at_step[v]
  BY DEF SearcherStep, Call, Prepare, SearchReturns, FallAsleep, WakeUp, SearchAgain, Late,
         SearchTimedOut, Step, Returns, Functions, SearchSteps
<1>3. /\ DOMAIN call' = Searchers /\ DOMAIN knows' = Searchers
      /\ \A v \in Searchers \ {w} : call'[v] = call[v] /\ knows'[v] = knows[v]
  BY DEF SearcherStep, Call, Prepare, SearchReturns, FallAsleep, WakeUp, SearchAgain, Late,
         SearchTimedOut, Functions
<1>4. \A v \in Searchers \ {w} : v \in awake => v \in awake'
  BY DEF SearcherStep, Call, Prepare, SearchReturns, FallAsleep, WakeUp, SearchAgain, Late,
         SearchTimedOut
<1>5. at_step'[w] = "asleep" /\ ~polling => NothingNew(w) /\ UNCHANGED <<call, knows>>
  BY DEF SearcherStep, Call, Prepare, SearchReturns, FallAsleep, WakeUp, SearchAgain, Late,
         SearchTimedOut, Step, Returns, Functions
<1>6. Functions'
  BY <1>1, <1>2, <1>3 DEF Functions
<1>7. HolderIsInside' /\ SearchersHoldIt'
  <2> USE <1>1, <1>2 DEF HolderIsInside, SearchersHoldIt, Functions, SearchSteps, Step, Returns
  <2>1. CASE \E c \in Calls : Call(w, c)
    BY <2>1 DEF Call
  <2>2. CASE Prepare(w)
    BY <2>2 DEF Prepare, LockMeta
  <2>3. CASE SearchReturns(w)
    BY <2>3 DEF SearchReturns, UnlockMeta
  <2>4. CASE FallAsleep(w)
    BY <2>4 DEF FallAsleep, UnlockMeta
  <2>5. CASE WakeUp(w)
    BY <2>5 DEF WakeUp, LockMeta
  <2>6. CASE SearchAgain(w)
    BY <2>6 DEF SearchAgain, UnlockMeta
  <2>7. CASE Late(w)
    BY <2>7 DEF Late, UnlockMeta
  <2>8. CASE SearchTimedOut(w)
    BY <2>8 DEF SearchTimedOut, UnlockMeta
  <2>9. QED
    BY <2>1, <2>2, <2>3, <2>4, <2>5, <2>6, <2>7, <2>8 DEF SearcherStep
<1>8. SleepersMissNothing'
  <2> SUFFICES ASSUME ~polling, NEW v \in Searchers, at_step'[v] = "asleep"
               PROVE  v \in awake' \/ NothingNew(v)'
    BY <1>1 DEF SleepersMissNothing, Sleepers
  <2>1. CASE v = w
    BY <2>1, <1>1, <1>5, NothingNewUnchanged
  <2>2. CASE v # w
    BY <2>2, <1>1, <1>2, <1>3, <1>4, NothingNewUnchanged DEF SleepersMissNothing, Sleepers
  <2>3. QED
    BY <2>1, <2>2
<1>9. QED
  BY <1>6, <1>7, <1>8

\* Every change but a purge wakes all sleepers, and a purge changes nothing a search
\* can see.
LEMMA ChangerStepInv ==
  ASSUME SearchInv, NEW p \in Changers, ChangerStep(p)
  PROVE  SearchInv'
<1> USE DEF SearchInv
<1>1. UNCHANGED ChangerVars
  BY DEF ChangerStep, BeginChange, InsertMeta, ChangeMeta, DeleteMeta, PurgeMeta
<1>2. Functions'
  <2> USE <1>1 DEF Functions, ChangerVars
  <2>1. CASE BeginChange(p)
    BY <2>1 DEF BeginChange
  <2>2. ASSUME NEW t \in Types, NEW parent \in 0 .. next_oid - 1, InsertMeta(p, t, parent)
        PROVE  Functions'
    BY <2>2 DEF InsertMeta
  <2>3. ASSUME NEW t \in Types \cup {0}, NEW parent \in 0 .. next_oid - 1, NEW i \in SearchSlots,
               ChangeMeta(p, i, t, parent)
        PROVE  Functions'
    <3> DEFINE new == [objmeta[i] EXCEPT !.otype = IF t # 0 THEN t ELSE @,
                                         !.parent = IF parent # 0 THEN parent ELSE @]
    <3>1. parent \in Nat /\ UNCHANGED next_oid
      BY <2>3 DEF ChangeMeta
    <3>2. objmeta' = [objmeta EXCEPT ![i] = new]
      BY <2>3 DEF ChangeMeta
    <3>3. new \in [oid : Nat, otype : Types \cup {0}, parent : Nat,
                   proc : SearchProcs \cup {NoProcess}, deleted : BOOLEAN]
      BY ZenonT(60), <3>1
    <3>4. QED
      BY <3>1, <3>2, <3>3
  <2>4. ASSUME NEW i \in SearchSlots, NEW now \in BOOLEAN, DeleteMeta(p, i, now)
        PROVE  Functions'
    BY ZenonT(60), <2>4 DEF DeleteMeta, Free
  <2>5. ASSUME NEW i \in SearchSlots, PurgeMeta(p, i)
        PROVE  Functions'
    BY <2>5 DEF PurgeMeta, Free
  <2>6. QED
    BY <2>1, <2>2, <2>3, <2>4, <2>5 DEF ChangerStep
<1>3. HolderIsInside' /\ SearchersHoldIt'
  <2>1. BeginChange(p) \/ (p \in inside /\ UnlockMeta(p))
    BY DEF ChangerStep, InsertMeta, ChangeMeta, DeleteMeta, PurgeMeta
  <2>2. CASE BeginChange(p)
    BY <2>2, <1>1 DEF BeginChange, LockMeta, HolderIsInside, SearchersHoldIt, ChangerVars
  <2>3. CASE p \in inside /\ UnlockMeta(p)
    BY <2>3, <1>1 DEF UnlockMeta, HolderIsInside, SearchersHoldIt, ChangerVars
  <2>4. QED
    BY <2>1, <2>2, <2>3
<1>4. SleepersMissNothing'
  <2>1. CASE BeginChange(p)
    <3>1. UNCHANGED <<objmeta, awake, ChangerVars>>
      BY <2>1 DEF BeginChange
    <3>2. QED
      BY <3>1, NothingNewUnchanged DEF SleepersMissNothing, Sleepers, ChangerVars
  <2>2. CASE WakeAll
    BY <2>2, <1>1 DEF WakeAll, SleepersMissNothing, Sleepers, ChangerVars
  <2>3. ASSUME NEW i \in SearchSlots, PurgeMeta(p, i)
        PROVE  SleepersMissNothing'
    <3>1. /\ UNCHANGED awake
          /\ objmeta' = [objmeta EXCEPT ![i] = Free] /\ objmeta[i].deleted
      BY <2>3 DEF PurgeMeta
    <3>2. /\ \A j \in SearchSlots : Live(objmeta'[j]) <=> Live(objmeta[j])
          /\ \A j \in SearchSlots : Live(objmeta[j]) => objmeta'[j] = objmeta[j]
      BY <3>1 DEF Functions, Live, Free
    <3>3. ASSUME NEW w \in Searchers
          PROVE  NothingNew(w)' = NothingNew(w)
      <4>1. UNCHANGED call /\ UNCHANGED knows
        BY <1>1 DEF ChangerVars
      <4>2. \A j \in SearchSlots : Matches(objmeta'[j], call[w]) <=> Matches(objmeta[j], call[w])
        BY <3>2 DEF Matches
      <4>3. \A j \in SearchSlots : Matches(objmeta[j], call[w]) => objmeta'[j] = objmeta[j]
        BY <3>2 DEF Matches
      <4>4. Found(call[w])' = Found(call[w])
        BY <4>1, <4>2, <4>3 DEF Found
      <4>5. Invalid(call[w])' = Invalid(call[w])
        BY <4>1, <4>4, <3>2 DEF Invalid
      <4>6. QED
        BY <4>1, <4>4, <4>5 DEF NothingNew
    <3>4. QED
      BY <3>1, <3>3, <1>1 DEF SleepersMissNothing, Sleepers, ChangerVars
  <2>4. QED
    BY <2>1, <2>2, <2>3 DEF ChangerStep, InsertMeta, ChangeMeta, DeleteMeta
<1>5. QED
  BY <1>2, <1>3, <1>4

LEMMA SearchAlways == SearchSpec => []SearchInv
<1>1. SearchInv /\ [SearchNext]_searchVars => SearchInv'
  <2> SUFFICES ASSUME SearchInv, [SearchNext]_searchVars
               PROVE  SearchInv'
    OBVIOUS
  <2>1. CASE SearchNext
    BY <2>1, SearcherStepInv, ChangerStepInv DEF SearchNext
  <2>2. CASE UNCHANGED searchVars
    <3>1. \A w \in Searchers : NothingNew(w)' = NothingNew(w)
      BY <2>2, NothingNewUnchanged DEF searchVars
    <3>2. QED
      BY <2>2, <3>1 DEF searchVars, SearchInv, Functions, HolderIsInside, SearchersHoldIt,
                        SleepersMissNothing, Sleepers
  <2>3. QED
    BY <2>1, <2>2
<1>2. QED
  BY <1>1, SearchInitInv, PTL DEF SearchSpec

\* The lock of the metadata keeps out everybody else, although a wait that ran out of
\* time unlocks it twice (objmeta.c:832-836, proc_obj_notify.h:66-82): the mutex
\* refuses the second unlock, and the emulation never runs out of time.
THEOREM SearchLockIsExclusive == SearchSpec => []MetaLockIsExclusive
<1>1. SearchInv => MetaLockIsExclusive
  <2> SUFFICES ASSUME SearchInv
               PROVE  Cardinality(inside) <= 1
    BY DEF MetaLockIsExclusive
  <2>1. inside = {} \/ inside = {meta_lock}
    BY DEF SearchInv, HolderIsInside
  <2>2. CASE inside = {}
    BY <2>2, FS_EmptySet
  <2>3. CASE inside = {meta_lock}
    <3>1. Cardinality({meta_lock}) = 1
      BY FS_Singleton
    <3>2. QED
      BY <2>3, <3>1
  <2>4. QED
    BY <2>1, <2>2, <2>3
<1>2. QED
  BY <1>1, SearchAlways, PTL

\* No process sleeps although an object it waits for has come, or one has gone
\* (objmeta.c:800-950, proc_obj_notify.h:58-101).
THEOREM SearchersMissNothing == SearchSpec => []SleepersMissNothing
<1>1. SearchInv => SleepersMissNothing
  BY DEF SearchInv
<1>2. QED
  BY <1>1, SearchAlways, PTL

\* Every variable of the search has its type: ids are given out in order and end at MaxOid.
THEOREM SearchTyped == SearchSpec => []SearchTypeOK
<1>1. SearchInit => SearchTypeOK
  BY DEF SearchInit, SearchTypeOK, Free
<1>2. ASSUME SearchInv, SearchTypeOK, [SearchNext]_searchVars PROVE SearchTypeOK'
  <2> USE <1>2 DEF SearchTypeOK
  <2>1. CASE UNCHANGED searchVars
    BY <2>1 DEF searchVars
  <2>2. ASSUME NEW w \in Searchers, SearcherStep(w) PROVE SearchTypeOK'
    <3> USE <2>2
    <3>1. UNCHANGED objmeta
      BY DEF SearcherStep, Call, Prepare, SearchReturns, FallAsleep, WakeUp, SearchAgain, Late,
             SearchTimedOut
    <3>2. /\ meta_lock' \in {meta_lock, w, NoProcess} /\ inside' \subseteq inside \cup {w}
          /\ awake' \subseteq awake
      BY DEF SearcherStep, Call, Prepare, SearchReturns, FallAsleep, WakeUp, SearchAgain, Late,
             SearchTimedOut, LockMeta, UnlockMeta
    <3>3. knows' = knows \/ knows' = [knows EXCEPT ![w] = Found(call[w])]
      BY DEF SearcherStep, Call, Prepare, SearchReturns, FallAsleep, WakeUp, SearchAgain, Late,
             SearchTimedOut
    <3>4. Found(call[w]) \subseteq 1 .. MaxOid
      BY DEF Found, Matches, Live
    <3>5. \A v \in Searchers : knows'[v] \subseteq 1 .. MaxOid
      BY <3>3, <3>4 DEF SearchInv, Functions
    <3>6. QED
      BY <3>1, <3>2, <3>5
  <2>3. ASSUME NEW p \in Changers, ChangerStep(p) PROVE SearchTypeOK'
    <3> USE <2>3
    <3>1. UNCHANGED knows
      BY DEF ChangerStep, BeginChange, InsertMeta, ChangeMeta, DeleteMeta, PurgeMeta, ChangerVars
    <3>2. /\ meta_lock' \in {meta_lock, p, NoProcess} /\ inside' \subseteq inside \cup {p}
          /\ awake' = awake \/ awake' = awake \cup Sleepers
      BY DEF ChangerStep, BeginChange, InsertMeta, ChangeMeta, DeleteMeta, PurgeMeta, LockMeta,
             UnlockMeta, WakeAll
    <3>3. Sleepers \subseteq Searchers
      BY DEF Sleepers
    <3>4. \A i \in SearchSlots : objmeta'[i].oid \in 0 .. MaxOid
      <4> USE DEF SearchInv, Functions
      <4>1. CASE BeginChange(p)
        BY <4>1 DEF BeginChange
      <4>2. ASSUME NEW t, NEW parent, InsertMeta(p, t, parent)
            PROVE  \A i \in SearchSlots : objmeta'[i].oid \in 0 .. MaxOid
        BY <4>2 DEF InsertMeta
      <4>3. ASSUME NEW t, NEW parent, NEW i \in SearchSlots, ChangeMeta(p, i, t, parent)
            PROVE  \A j \in SearchSlots : objmeta'[j].oid = objmeta[j].oid
        BY <4>3 DEF ChangeMeta
      <4>4. ASSUME NEW i \in SearchSlots, NEW now \in BOOLEAN,
                   DeleteMeta(p, i, now) \/ PurgeMeta(p, i)
            PROVE  \A j \in SearchSlots : objmeta'[j].oid \in {0, objmeta[j].oid}
        BY <4>4 DEF DeleteMeta, PurgeMeta, Free
      <4>5. QED
        BY <4>1, <4>2, <4>3, <4>4 DEF ChangerStep
    <3>5. QED
      BY <3>1, <3>2, <3>3, <3>4
  <2>4. QED
    BY <2>1, <2>2, <2>3 DEF SearchNext
<1>3. SearchInv /\ SearchTypeOK /\ [SearchNext]_searchVars => SearchTypeOK'
  BY <1>2
<1>4. QED
  BY <1>1, <1>3, SearchAlways, PTL DEF SearchSpec

-----------------------------------------------------------------------------
(* The remote monitor *)

RemoteAsks == {"none", "list", "rtdb", "info", "data", "write", "insert", "delete"}

\* The database: nothing has been in the places not given away yet.
DatabaseOK ==
  /\ remote \in [Remotes -> Int] /\ next_remote \in Nat
  /\ \A o \in Remotes : o > next_remote => remote[o] = -1

\* Packets are not older than MaxDelay allows, and the client waits for its last request.
PacketsAreRecent ==
  /\ serial \in Nat /\ api \in ApiCalls \cup {Idle}
  /\ req \in [n : Nat, ask : RemoteAsks, oid : Int]
  /\ requests \subseteq [n : Nat, ask : RemoteAsks, oid : Int]
  /\ replies \subseteq [n : Nat, oid : Int, found : SUBSET Remotes, data : Int]
  /\ \A p \in requests \cup replies : p.n <= serial /\ p.n + MaxDelay >= serial
  /\ waits => req.n = serial /\ api # Idle
  /\ waits => \A p \in requests : p.n = req.n => p = req

\* What the database had when the call began it still has, or it is deleted, or newer.
CallSees ==
  /\ from \in [Remotes -> Int]
  /\ \A o \in Remotes : o > next_remote => from[o] = -1
  /\ \A o \in Remotes : remote[o] >= 0 => remote[o] >= from[o]
  /\ api # Idle => There \subseteq was

\* The replies to the request the client waits for tell the truth.
RepliesAreTrue ==
  waits => \A r \in replies : r.n = req.n =>
    /\ req.ask = "list" => r.found \subseteq was
    /\ req.ask = "data" => r.data >= from[req.oid]
    /\ req.ask \in {"write", "insert"} /\ r.oid >= 0 => req.n \in done

MonitorInv == DatabaseOK /\ PacketsAreRecent /\ CallSees /\ RepliesAreTrue

HIDE SearchAssumption DEF SearchProcs
USE MonitorAssumption

\* What adding one to a value of a function does.
LEMMA IncrementedIs ==
  ASSUME NEW S, NEW f \in [S -> Int], NEW k \in Int
  PROVE  /\ [f EXCEPT ![k] = @ + 1] \in [S -> Int]
         /\ \A o \in S : [f EXCEPT ![k] = @ + 1][o] = IF o = k THEN f[o] + 1 ELSE f[o]
<1>1. \A o \in S : f[o] \in Int
  OBVIOUS
<1>2. \A o \in S : [f EXCEPT ![k] = @ + 1][o] = IF o = k THEN f[o] + 1 ELSE f[o]
  OBVIOUS
<1>3. \A o \in S : [f EXCEPT ![k] = @ + 1][o] \in Int
  BY <1>1, <1>2
<1>4. [f EXCEPT ![k] = @ + 1] = [o \in S |-> [f EXCEPT ![k] = @ + 1][o]]
  OBVIOUS
<1>5. QED
  BY <1>2, <1>3, <1>4

\* Numbers that are less than SERIALS apart differ.
LEMMA SerialsDiffer ==
  ASSUME NEW a \in Nat, NEW b \in Nat, a <= b, b < a + SERIALS, a % SERIALS = b % SERIALS
  PROVE  a = b
<1> DEFINE qa == a \div SERIALS
           qb == b \div SERIALS
<1>1. SERIALS \in Nat \ {0}
  OBVIOUS
<1>2. a % SERIALS = a - SERIALS * qa /\ b % SERIALS = b - SERIALS * qb
  BY <1>1, Z3
<1>3. qa \in Int /\ qb \in Int
  BY <1>1, Z3
<1> HIDE DEF qa, qb
<1>4. SERIALS * (qb - qa) = b - a
  <2>1. SERIALS * (qb - qa) = SERIALS * qb - SERIALS * qa
    BY ONLY SMTT(60), <1>1, <1>3
  <2>2. SERIALS * qa \in Int /\ SERIALS * qb \in Int
    BY ONLY SMTT(60), <1>1, <1>3
  <2>3. QED
    BY ONLY <1>2, <2>1, <2>2, a \in Nat, b \in Nat, a % SERIALS = b % SERIALS
<1>5. ASSUME qb - qa >= 1
      PROVE  FALSE
  <2>1. SERIALS * (qb - qa) >= SERIALS * 1
    BY <1>3, <1>5
  <2>2. QED
    BY <2>1, <1>4
<1>6. ASSUME qb - qa <= -1
      PROVE  FALSE
  <2>1. SERIALS * (qb - qa) <= SERIALS * (-1)
    BY <1>3, <1>6
  <2>2. QED
    BY <2>1, <1>4
<1>7. qb - qa = 0
  BY <1>3, <1>5, <1>6
<1>8. QED
  BY <1>3, <1>4, <1>7

LEMMA MonitorInitInv == MonitorInit => MonitorInv
  BY DEF MonitorInit, MonitorInv, DatabaseOK, PacketsAreRecent, CallSees, RepliesAreTrue, Request,
         RemoteAsks, There, Remotes, Idle

\* A reply goes out of order, late or twice, but to the request it is for.
LEMMA ServerStepInv ==
  ASSUME MonitorInv, NEW p \in requests,
         ServeList(p) \/ ServeRead(p) \/ ServeWrite(p) \/ ServeInsert(p) \/ ServeDelete(p)
  PROVE  MonitorInv'
<1> USE DEF MonitorInv
<1>1. UNCHANGED <<requests, serial, api, req, waits, from>>
  BY DEF ServeList, ServeRead, ServeWrite, ServeInsert, ServeDelete, ClientUnchanged
<1>2. p.n \in Nat /\ p.oid \in Int /\ p.n <= serial /\ p.n + MaxDelay >= serial
  BY DEF PacketsAreRecent
<1>3. DatabaseOK' /\ CallSees'
  <2> USE <1>1 DEF DatabaseOK, CallSees, There, Remotes
  <2>0. ASSUME remote' \in [Remotes -> Int], UNCHANGED next_remote, UNCHANGED was,
               \A o \in Remotes : remote'[o] # remote[o] =>
                 remote'[o] = -1 \/ (remote[o] >= 0 /\ remote'[o] = remote[o] + 1)
        PROVE  DatabaseOK' /\ CallSees'
    <3>1. ASSUME NEW o \in Remotes, remote'[o] >= 0
          PROVE  remote[o] >= 0 /\ remote'[o] >= remote[o]
      <4>1. remote[o] \in Int
        OBVIOUS
      <4>2. CASE remote'[o] = remote[o]
        BY <3>1, <4>1, <4>2
      <4>3. CASE remote'[o] # remote[o]
        BY <3>1, <4>1, <4>3, <2>0
      <4>4. QED
        BY <4>2, <4>3
    <3>2. DatabaseOK'
      <4>1. ASSUME NEW o \in Remotes, o > next_remote
            PROVE  remote'[o] = -1
        <5>1. remote[o] = -1
          BY <4>1
        <5>2. QED
          BY <2>0, <5>1
      <4>2. QED
        BY <2>0, <4>1
    <3>3. There' \subseteq There
      BY <3>1
    <3>4. ASSUME NEW o \in Remotes, remote'[o] >= 0 PROVE remote'[o] >= from[o]
      <4>1. remote[o] >= 0 /\ remote'[o] >= remote[o]
        BY <3>1, <3>4
      <4>2. remote[o] >= from[o] /\ {remote[o], remote'[o], from[o]} \subseteq Int
        BY <2>0, <4>1
      <4>3. QED
        BY ONLY <4>1, <4>2
    <3>5. api # Idle => There' \subseteq was
      BY <3>3
    <3>6. QED
      BY <2>0, <3>2, <3>4, <3>5
  <2>1. CASE ServeList(p) \/ ServeRead(p)
    BY <2>1 DEF ServeList, ServeRead
  <2>2. CASE ServeWrite(p)
    <3>1. UNCHANGED was /\ UNCHANGED next_remote
      BY <2>2 DEF ServeWrite
    <3>2. \/ UNCHANGED remote
          \/ remote[p.oid] >= 0 /\ remote' = [remote EXCEPT ![p.oid] = @ + 1]
      BY <2>2 DEF ServeWrite
    <3>3. /\ remote' \in [Remotes -> Int]
          /\ \A o \in Remotes : remote'[o] # remote[o] =>
               remote[o] >= 0 /\ remote'[o] = remote[o] + 1
      <4>1. CASE UNCHANGED remote
        BY <4>1, <2>0
      <4>2. CASE remote[p.oid] >= 0 /\ remote' = [remote EXCEPT ![p.oid] = @ + 1]
        <5>1. remote \in [Remotes -> Int]
          BY <2>0
        <5>2. /\ remote' \in [Remotes -> Int]
              /\ \A o \in Remotes : remote'[o] = IF o = p.oid THEN remote[o] + 1 ELSE remote[o]
          BY <4>2, <5>1, <1>2, IncrementedIs
        <5>3. QED
          BY <4>2, <5>2
      <4>3. QED
        BY <3>2, <4>1, <4>2
    <3>4. QED
      BY <3>1, <3>3, <2>0
  <2>3. CASE ServeInsert(p)
    <3>1. CASE UNCHANGED <<remote, next_remote, was>>
      BY <3>1
    <3>2. CASE /\ next_remote < MaxRemote /\ next_remote' = next_remote + 1
               /\ remote' = [remote EXCEPT ![next_remote + 1] = 0]
               /\ was' = IF api = Idle THEN was ELSE was \cup {next_remote + 1}
      <4>1. next_remote' \in Nat /\ remote' \in [Remotes -> Int]
        BY <3>2
      <4>2. \A o \in Remotes : o # next_remote + 1 => remote'[o] = remote[o]
        BY <3>2
      <4>3. \A o \in Remotes : o = next_remote + 1 => remote'[o] = 0 /\ remote[o] = -1
        BY <3>2
      <4>4. DatabaseOK'
        BY <3>2, <4>1, <4>2
      <4>5. ASSUME NEW o \in Remotes, remote'[o] >= 0 PROVE remote'[o] >= from[o]
        <5>1. CASE o = next_remote + 1
          <6>1. next_remote \in Nat /\ o > next_remote
            BY <5>1
          <6>2. from[o] = -1
            BY <6>1
          <6>3. QED
            BY <4>3, <5>1, <6>2
        <5>2. CASE o # next_remote + 1
          BY <4>2, <4>5, <5>2
        <5>3. QED
          BY <5>1, <5>2
      <4>6. api # Idle => There' \subseteq was'
        BY <3>2, <4>2
      <4>7. \A o \in Remotes : o > next_remote' => from[o] = -1
        BY <3>2
      <4>8. QED
        BY <4>4, <4>5, <4>6, <4>7
    <3>3. QED
      BY <2>3, <3>1, <3>2 DEF ServeInsert
  <2>4. CASE ServeDelete(p)
    <3>1. UNCHANGED was /\ UNCHANGED next_remote
      BY <2>4 DEF ServeDelete
    <3>2. UNCHANGED remote \/ remote' = [remote EXCEPT ![p.oid] = -1]
      BY <2>4 DEF ServeDelete
    <3>3. remote' \in [Remotes -> Int] /\ \A o \in Remotes : remote'[o] # remote[o] => remote'[o] = -1
      BY <3>2
    <3>4. QED
      BY <3>1, <3>3, <2>0
  <2>5. QED
    BY <2>1, <2>2, <2>3, <2>4
<1>4. ASSUME NEW o \in Int, NEW found \in SUBSET Remotes, NEW d \in Int, ReplyTo(p, o, found, d)
      PROVE  PacketsAreRecent'
  BY <1>1, <1>2, <1>4 DEF PacketsAreRecent, ReplyTo
<1>5. ASSUME NEW o \in Int, NEW found \in SUBSET Remotes, NEW d \in Int, ReplyTo(p, o, found, d),
             UNCHANGED was \/ was \subseteq was', done \subseteq done',
             waits /\ p.ask = "list" => found \subseteq was,
             p.ask = "data" => d >= from[p.oid],
             p.ask \in {"write", "insert"} /\ o >= 0 => p.n \in done'
      PROVE  RepliesAreTrue'
  <2> SUFFICES ASSUME waits, NEW r \in replies', r.n = req.n
               PROVE  /\ req.ask = "list" => r.found \subseteq was'
                      /\ req.ask = "data" => r.data >= from[req.oid]
                      /\ req.ask \in {"write", "insert"} /\ r.oid >= 0 => req.n \in done'
    BY <1>1 DEF RepliesAreTrue
  <2>1. CASE r \in replies
    BY <2>1, <1>5 DEF RepliesAreTrue
  <2>2. CASE r = [n |-> p.n, oid |-> o, found |-> found, data |-> d]
    <3>1. p = req
      BY <2>2 DEF PacketsAreRecent
    <3>2. QED
      BY <2>2, <3>1, <1>5
  <2>3. QED
    BY <2>1, <2>2, <1>5 DEF ReplyTo
<1>6. CASE ServeList(p)
  <2>1. /\ UNCHANGED <<was, done>> /\ p.ask \in {"list", "rtdb"}
        /\ \E found \in SUBSET There : ReplyTo(p, Cardinality(found), found, 0)
    BY <1>6 DEF ServeList
  <2>2. PICK found \in SUBSET There : ReplyTo(p, Cardinality(found), found, 0)
    BY <2>1
  <2>3. IsFiniteSet(Remotes)
    BY FS_Interval DEF Remotes
  <2>4. found \in SUBSET Remotes /\ Cardinality(found) \in Int
    BY <2>3, FS_Subset, FS_CardinalityType DEF There
  <2>5. PacketsAreRecent'
    BY <2>2, <2>4, <1>4
  <2>6. waits => found \subseteq was
    BY <2>2 DEF PacketsAreRecent, CallSees
  <2>7. RepliesAreTrue'
    <3>1. found \in SUBSET Remotes
      BY <2>4
    <3>2. Cardinality(found) \in Int
      BY <2>4
    <3>3. ~(p.ask = "data") /\ ~(p.ask \in {"write", "insert"}) /\ UNCHANGED <<was, done>>
      BY <2>1
    <3>4. QED
      BY <2>2, <2>6, <3>1, <3>2, <3>3, <1>5
  <2>8. QED
    BY <1>3, <2>5, <2>7
<1>7. CASE ServeRead(p)
  <2>1. /\ p.ask \in {"info", "data"} /\ p.oid \in There
        /\ ReplyTo(p, p.oid, {}, remote[p.oid]) /\ UNCHANGED <<was, done>>
    BY <1>7 DEF ServeRead
  <2>2. remote[p.oid] \in Int /\ remote[p.oid] >= from[p.oid]
    BY <2>1 DEF There, DatabaseOK, CallSees
  <2>3. QED
    BY <2>1, <2>2, <1>2, <1>3, <1>4, <1>5
<1>8. CASE ServeWrite(p)
  <2>1. CASE p.oid \in There
    <3>1. ReplyTo(p, p.oid, {}, 0) /\ done' = done \cup {p.n} /\ UNCHANGED was /\ p.ask = "write"
      BY <1>8, <2>1 DEF ServeWrite
    <3>2. QED
      BY <3>1, <1>2, <1>3, <1>4, <1>5
  <2>2. CASE p.oid \notin There
    <3>1. ReplyTo(p, -1, {}, 0) /\ UNCHANGED done /\ UNCHANGED was /\ p.ask = "write"
      BY <1>8, <2>2 DEF ServeWrite
    <3>2. QED
      BY <3>1, <1>2, <1>3, <1>4, <1>5
  <2>3. QED
    BY <2>1, <2>2
<1>9. CASE ServeInsert(p)
  <2>1. CASE next_remote < MaxRemote
    <3>1. /\ ReplyTo(p, next_remote', {}, 0) /\ next_remote' \in Int /\ p.ask = "insert"
          /\ done' = done \cup {p.n} /\ was \subseteq was'
      BY <1>9, <2>1 DEF ServeInsert, DatabaseOK
    <3>2. QED
      BY <3>1, <1>2, <1>3, <1>4, <1>5
  <2>2. CASE ~(next_remote < MaxRemote)
    <3>1. ReplyTo(p, -1, {}, 0) /\ UNCHANGED done /\ UNCHANGED was /\ p.ask = "insert"
      BY <1>9, <2>2 DEF ServeInsert
    <3>2. QED
      BY <3>1, <1>2, <1>3, <1>4, <1>5
  <2>3. QED
    BY <2>1, <2>2
<1>10. CASE ServeDelete(p)
  <2>1. PICK o \in {0, -1} :
          /\ ReplyTo(p, o, {}, 0) /\ done \subseteq done' /\ UNCHANGED was /\ p.ask = "delete"
    BY <1>10 DEF ServeDelete
  <2>2. QED
    BY <2>1, <1>2, <1>3, <1>4, <1>5
<1>11. QED
  BY <1>6, <1>7, <1>8, <1>9, <1>10

LEMMA RemoteStepInv ==
  ASSUME MonitorInv, NEW o \in Remotes, CommitRemote(o) \/ DeleteRemote(o)
  PROVE  MonitorInv'
<1>1. UNCHANGED <<netVars, serial, api, req, waits, from, was, done>>
  BY DEF CommitRemote, DeleteRemote, ClientUnchanged, netVars
<1>2. DatabaseOK' /\ CallSees'
  BY <1>1 DEF MonitorInv, CommitRemote, DeleteRemote, DatabaseOK, CallSees, There
<1>3. PacketsAreRecent' /\ RepliesAreTrue'
  BY <1>1 DEF MonitorInv, PacketsAreRecent, RepliesAreTrue, netVars
<1>4. QED
  BY <1>2, <1>3 DEF MonitorInv

\* A call returns or goes on.
LEMMA OutcomeIs ==
  ASSUME NEW x, Outcome(x)
  PROVE  CallReturns(x) \/ \E next \in [n : {0}, ask : RemoteAsks, oid : {0, RtdbOid, api.oid}] : GoesOn(next)
<1> USE DEF Outcome, Request, RemoteAsks
<1>1. CASE api.kind = "searchinfo_wait" /\ ~x.ok
  BY <1>1 DEF FirstAsk
<1> QED
  BY DEF FirstAsk

\* A call goes on with the objects that were there when it began, or the client waits
\* for nothing.
LEMMA OutcomeInv ==
  ASSUME MonitorInv, NEW x, Outcome(x), api # Idle, UNCHANGED <<netVars, serial>>, DatabaseUnchanged
  PROVE  MonitorInv'
<1> USE DEF MonitorInv, netVars, DatabaseUnchanged
<1>1. CASE CallReturns(x)
  BY <1>1 DEF CallReturns, Idle, Request, RemoteAsks, DatabaseOK, PacketsAreRecent, CallSees, RepliesAreTrue, There
<1>2. ASSUME NEW next \in [n : {0}, ask : RemoteAsks, oid : {0, RtdbOid, api.oid}], GoesOn(next), api.oid \in Int
      PROVE  MonitorInv'
  BY <1>2 DEF GoesOn, RtdbOid, DatabaseOK, PacketsAreRecent, CallSees, RepliesAreTrue, There
<1>3. api.oid \in Int
  BY DEF PacketsAreRecent
<1>4. QED
  BY <1>1, <1>2, <1>3, OutcomeIs

LEMMA ClientStepInv ==
  ASSUME MonitorInv,
         \/ \E c \in ApiCalls : BeginCall(c)
         \/ SendRequest \/ ReceiveTimeout
         \/ \E r \in replies : ReceiveReply(r)
  PROVE  MonitorInv'
<1> USE DEF MonitorInv
<1>1. ASSUME NEW c \in ApiCalls, BeginCall(c)
      PROVE  MonitorInv'
  <2>1. /\ UNCHANGED <<requests, replies, serial, waits, remote, next_remote, done>> /\ api = Idle
        /\ from' = remote /\ was' = There /\ api' = c
    BY <1>1 DEF BeginCall, netVars, DatabaseUnchanged
  <2>2. ~waits
    BY <2>1 DEF PacketsAreRecent
  <2>3. req' \in [n : Nat, ask : RemoteAsks, oid : Int]
    <3>1. c.kind \in ApiKinds /\ c.oid \in Int /\ req' = FirstAsk(c)
      BY <1>1 DEF BeginCall
    <3>2. QED
      BY <3>1 DEF FirstAsk, Request, RemoteAsks, ApiKinds
  <2>4. DatabaseOK' /\ CallSees'
    BY <2>1 DEF DatabaseOK, CallSees, There
  <2>5. PacketsAreRecent' /\ RepliesAreTrue'
    BY <2>1, <2>2, <2>3 DEF PacketsAreRecent, RepliesAreTrue
  <2>6. QED
    BY <2>4, <2>5
<1>2. CASE SendRequest
  <2>1. DatabaseOK' /\ CallSees'
    BY <1>2 DEF SendRequest, DatabaseOK, CallSees, There, DatabaseUnchanged
  <2>2. /\ serial' = serial + 1 /\ serial' \in Nat
        /\ req' \in [n : Nat, ask : RemoteAsks, oid : Int] /\ req'.n = serial'
    BY <1>2 DEF SendRequest, PacketsAreRecent
  <2>3. /\ requests' \subseteq [n : Nat, ask : RemoteAsks, oid : Int]
        /\ replies' \subseteq [n : Nat, oid : Int, found : SUBSET Remotes, data : Int]
    BY <1>2, <2>2 DEF SendRequest, PacketsAreRecent
  <2>4. /\ \A p \in requests' \cup replies' : p.n <= serial' /\ p.n + MaxDelay >= serial'
        /\ \A p \in requests' : p.n = serial' => p = req'
        /\ \A r \in replies' : r.n # serial'
    BY <1>2, <2>2 DEF SendRequest, PacketsAreRecent
  <2>5. PacketsAreRecent' /\ RepliesAreTrue'
    BY <1>2, <2>2, <2>3, <2>4 DEF SendRequest, PacketsAreRecent, RepliesAreTrue
  <2>6. QED
    BY <2>1, <2>5
<1>3. CASE ReceiveTimeout
  BY <1>3, OutcomeInv DEF ReceiveTimeout, PacketsAreRecent
<1>4. ASSUME NEW r \in replies, ReceiveReply(r)
      PROVE  MonitorInv'
  BY <1>4, OutcomeInv DEF ReceiveReply, PacketsAreRecent
<1>5. QED
  BY <1>1, <1>2, <1>3, <1>4

\* A reply that is taken is to the last request.
LEMMA AnswersTheRequest ==
  ASSUME MonitorInv, waits, NEW r \in replies, Answers(r)
  PROVE  r.n = req.n
<1>1. /\ req.n \in Nat /\ r.n \in Nat /\ r.n <= req.n /\ req.n <= r.n + MaxDelay
      /\ r.n % SERIALS = req.n % SERIALS
  BY DEF MonitorInv, PacketsAreRecent, Answers
<1>2. req.n < r.n + SERIALS
  BY <1>1
<1>3. QED
  BY <1>1, <1>2, SerialsDiffer

LEMMA AnswersAreTrueStep ==
  ASSUME MonitorInv, MonitorNext, result' # result, result'.ok
  PROVE  CASE req.ask = "list" -> result'.found \subseteq was
           [] req.ask = "data" -> result'.data >= from[req.oid]
           [] req.ask \in {"write", "insert"} -> req.n \in done
           [] OTHER -> TRUE
<1>1. ASSUME NEW x, Outcome(x)
      PROVE  result' = x
  <2>1. CallReturns(x) \/ UNCHANGED result
    BY <1>1, OutcomeIs DEF GoesOn
  <2>2. QED
    BY <2>1 DEF CallReturns
<1>2. PICK r \in replies : ReceiveReply(r) /\ result' = Received(r)
  <2>1. ~UNCHANGED result
    OBVIOUS
  <2>2. ~\E c \in ApiCalls : BeginCall(c)
    BY DEF BeginCall, NoResult
  <2>3. ~ReceiveTimeout
    BY <1>1 DEF ReceiveTimeout, Failed, NoResult
  <2>4. ~SendRequest
    BY DEF SendRequest
  <2>5. ~\E o \in Remotes : CommitRemote(o) \/ DeleteRemote(o)
    BY DEF CommitRemote, DeleteRemote, ClientUnchanged
  <2>6. ~\E p \in requests :
           ServeList(p) \/ ServeRead(p) \/ ServeWrite(p) \/ ServeInsert(p) \/ ServeDelete(p)
    BY DEF ServeList, ServeRead, ServeWrite, ServeInsert, ServeDelete, ClientUnchanged
  <2>7. PICK r \in replies : ReceiveReply(r)
    BY <2>2, <2>3, <2>4, <2>5, <2>6 DEF MonitorNext
  <2>8. result' = Received(r) \/ result' = Failed
    BY <2>7, <1>1 DEF ReceiveReply
  <2>9. QED
    BY <2>7, <2>8 DEF Failed, NoResult
<1>3. waits /\ r.n = req.n
  BY <1>2, AnswersTheRequest DEF ReceiveReply
<1>4. /\ req.ask = "list" => r.found \subseteq was
      /\ req.ask = "data" => r.data >= from[req.oid]
      /\ req.ask \in {"write", "insert"} /\ r.oid >= 0 => req.n \in done
  BY <1>3 DEF MonitorInv, RepliesAreTrue
<1>5. r.oid >= 0 /\ result'.found = r.found /\ result'.data = r.data
  BY <1>2 DEF Received
<1>6. QED
  BY <1>4, <1>5

LEMMA MonitorAlways == MonitorSpec => []MonitorInv
<1>1. MonitorInv /\ [MonitorNext]_monitorVars => MonitorInv'
  <2> SUFFICES ASSUME MonitorInv, [MonitorNext]_monitorVars
               PROVE  MonitorInv'
    OBVIOUS
  <2>1. CASE MonitorNext
    BY <2>1, ServerStepInv, RemoteStepInv, ClientStepInv DEF MonitorNext
  <2>2. CASE UNCHANGED monitorVars
    BY <2>2 DEF monitorVars, netVars, MonitorInv, DatabaseOK, PacketsAreRecent, CallSees,
                RepliesAreTrue, There
  <2>3. QED
    BY <2>1, <2>2
<1>2. QED
  BY <1>1, MonitorInitInv, PTL DEF MonitorSpec

\* Whatever the network does with the packets, a call of the client that succeeds tells
\* of its own time, and a change it reports has been made (libkogmo_rtdb_udpmon.c:99,
\* 156-157).
THEOREM CallsAreAnswered == MonitorSpec => AnswersAreTrue
  BY MonitorAlways, AnswersAreTrueStep, PTL DEF MonitorSpec, AnswersAreTrue

\* A request asks about an object that there may be.
RequestTyped == MonitorTypeOK /\ req.oid \in 0 .. MaxRemote

\* What the server does to the database and sends back.
LEMMA ServerStepTyped ==
  ASSUME MonitorInv, RequestTyped, NEW p \in requests,
         ServeList(p) \/ ServeRead(p) \/ ServeWrite(p) \/ ServeInsert(p) \/ ServeDelete(p)
  PROVE  RequestTyped'
<1> USE DEF RequestTyped, MonitorTypeOK
<1>1. UNCHANGED <<requests, serial, req, waits>>
  BY DEF ServeList, ServeRead, ServeWrite, ServeInsert, ServeDelete, ClientUnchanged
<1>2. p.n \in 1 .. serial /\ p.oid \in 0 .. MaxRemote
  OBVIOUS
<1>3. ASSUME NEW o \in -1 .. MaxRemote, NEW found \in SUBSET Remotes, NEW d, ReplyTo(p, o, found, d),
             remote' \in [Remotes -> -1 .. MaxVersion], next_remote' \in Remotes,
             was' \subseteq Remotes
      PROVE  RequestTyped'
  BY <1>1, <1>2, <1>3 DEF ReplyTo
<1>4. CASE ServeList(p)
  <2>1. PICK found \in SUBSET Remotes : ReplyTo(p, Cardinality(found), found, 0)
    BY <1>4 DEF ServeList, There
  <2>2. IsFiniteSet(Remotes) /\ Cardinality(Remotes) = MaxRemote
    BY FS_Interval DEF Remotes
  <2>3. Cardinality(found) \in Nat /\ Cardinality(found) <= MaxRemote
    BY <2>2, FS_Subset, FS_CardinalityType
  <2>4. Cardinality(found) \in -1 .. MaxRemote
    BY <2>3
  <2>5. UNCHANGED <<remote, next_remote, was>>
    BY <1>4 DEF ServeList
  <2>6. QED
    BY <1>3, <2>1, <2>4, <2>5
<1>5. CASE ServeRead(p)
  BY <1>2, <1>3, <1>5 DEF ServeRead
<1>6. CASE ServeWrite(p)
  <2>1. UNCHANGED <<next_remote, was>>
    BY <1>6 DEF ServeWrite
  <2>2. CASE p.oid \in There
    <3>1. remote[p.oid] < MaxVersion /\ remote' = [remote EXCEPT ![p.oid] = remote[p.oid] + 1]
          /\ ReplyTo(p, p.oid, {}, 0)
      BY <1>6, <2>2 DEF ServeWrite
    <3>2. p.oid \in Remotes /\ remote[p.oid] \in -1 .. MaxVersion
      BY <2>2 DEF There
    <3>3. remote[p.oid] + 1 \in -1 .. MaxVersion
      BY <3>1, <3>2
    <3>4. remote' \in [Remotes -> -1 .. MaxVersion]
      BY <3>1, <3>3, Updated
    <3>5. p.oid \in -1 .. MaxRemote /\ {} \in SUBSET Remotes
      BY <1>2
    <3>6. next_remote' \in Remotes /\ was' \subseteq Remotes
      BY <2>1
    <3>7. QED
      BY <1>3, <3>1, <3>4, <3>5, <3>6
  <2>3. CASE p.oid \notin There
    BY SMTT(30), <1>3, <1>6, <2>1, <2>3 DEF ServeWrite
  <2>4. QED
    BY <2>2, <2>3
<1>7. CASE ServeInsert(p)
  <2>1. CASE next_remote < MaxRemote
    <3>1. /\ next_remote' = next_remote + 1 /\ remote' = [remote EXCEPT ![next_remote'] = 0]
          /\ was' \subseteq was \cup {next_remote'} /\ ReplyTo(p, next_remote', {}, 0)
      BY <1>7, <2>1 DEF ServeInsert
    <3>2. next_remote' \in Remotes /\ next_remote' \in -1 .. MaxRemote
      BY <2>1, <3>1 DEF Remotes
    <3>3. remote' \in [Remotes -> -1 .. MaxVersion]
      <4>1. 0 \in -1 .. MaxVersion
        OBVIOUS
      <4>2. QED
        BY <3>1, <4>1, Updated
    <3>4. QED
      BY <1>3, <3>1, <3>2, <3>3
  <2>2. CASE ~(next_remote < MaxRemote)
    BY <1>3, <1>7, <2>2 DEF ServeInsert
  <2>3. QED
    BY <2>1, <2>2
<1>8. CASE ServeDelete(p)
  <2>1. UNCHANGED <<next_remote, was>>
    BY <1>8 DEF ServeDelete
  <2>2. PICK o \in {0, -1} : ReplyTo(p, o, {}, 0)
    BY <1>8 DEF ServeDelete
  <2>3. remote' \in [Remotes -> -1 .. MaxVersion]
    <3>1. remote' = remote \/ remote' = [remote EXCEPT ![p.oid] = -1]
      BY <1>8 DEF ServeDelete
    <3>2. -1 \in -1 .. MaxVersion
      OBVIOUS
    <3>3. QED
      BY <3>1, <3>2, Updated
  <2>4. QED
    BY SMTT(30), <1>3, <2>1, <2>2, <2>3
<1>9. QED
  BY <1>4, <1>5, <1>6, <1>7, <1>8

\* What the client asks for, and what the other processes do to the database.
LEMMA ClientStepTyped ==
  ASSUME MonitorInv, RequestTyped,
         \/ \E o \in Remotes : CommitRemote(o) \/ DeleteRemote(o)
         \/ \E c \in ApiCalls : BeginCall(c)
         \/ SendRequest \/ ReceiveTimeout
         \/ \E r \in replies : ReceiveReply(r)
  PROVE  RequestTyped'
<1> USE DEF RequestTyped, MonitorTypeOK
<1>1. api.oid \in 0 .. MaxRemote
  BY DEF MonitorInv, PacketsAreRecent, Idle
<1>2. ASSUME NEW o \in Remotes, CommitRemote(o) \/ DeleteRemote(o) PROVE RequestTyped'
  <2>1. UNCHANGED <<requests, replies, serial, req, waits, was, next_remote>>
    BY <1>2 DEF CommitRemote, DeleteRemote, ClientUnchanged
  <2>2. remote' \in [Remotes -> -1 .. MaxVersion]
    <3>1. PICK v \in {-1, remote[o] + 1} :
            remote' = [remote EXCEPT ![o] = v] /\ (v # -1 => remote[o] < MaxVersion)
      BY <1>2 DEF CommitRemote, DeleteRemote
    <3>2. remote[o] \in -1 .. MaxVersion
      OBVIOUS
    <3>3. v \in -1 .. MaxVersion
      BY <3>1, <3>2
    <3>4. QED
      BY <3>1, <3>3, Updated
  <2>3. QED
    BY <2>1, <2>2
<1>3. ASSUME NEW c \in ApiCalls, BeginCall(c) PROVE RequestTyped'
  <2>1. UNCHANGED <<remote, next_remote, requests, replies, serial, waits>> /\ was' \subseteq Remotes
    BY <1>3 DEF BeginCall, netVars, DatabaseUnchanged, There
  <2>2. c.kind \in ApiKinds /\ c.oid \in 0 .. MaxRemote /\ req' = FirstAsk(c)
    BY <1>3 DEF BeginCall
  <2>3. req'.oid \in {0, c.oid}
    BY <2>2 DEF FirstAsk, Request, ApiKinds
  <2>4. QED
    BY <2>1, <2>2, <2>3
<1>4. CASE SendRequest
  <2>1. /\ serial' = serial + 1 /\ req' = [req EXCEPT !.n = serial'] /\ waits'
        /\ requests' \subseteq requests \cup {req'} /\ replies' \subseteq replies
        /\ UNCHANGED <<remote, next_remote, was>>
    BY <1>4 DEF SendRequest, DatabaseUnchanged
  <2>2. serial \in Nat /\ req'.n = serial' /\ req'.oid = req.oid
    BY <2>1 DEF MonitorInv, PacketsAreRecent
  <2>3. ASSUME NEW p \in requests' PROVE p.n \in 1 .. serial' /\ p.oid \in 0 .. MaxRemote
    <3>1. CASE p \in requests
      BY <2>1, <2>2, <3>1
    <3>2. CASE p = req'
      BY <2>1, <2>2, <3>2
    <3>3. QED
      BY <2>1, <3>1, <3>2
  <2>4. \A r \in replies' : r.n \in 1 .. serial'
    BY <2>1, <2>2
  <2>5. QED
    BY <2>1, <2>2, <2>3, <2>4
<1>5. ASSUME NEW x, Outcome(x), UNCHANGED <<netVars, serial>>, DatabaseUnchanged
      PROVE  RequestTyped'
  <2>1. UNCHANGED <<remote, next_remote, requests, replies, serial>>
    BY <1>5 DEF netVars, DatabaseUnchanged
  <2>2. waits' = FALSE /\ req'.oid \in {0, RtdbOid, api.oid} /\ was' \in {{}, was}
    <3>1. CASE CallReturns(x)
      BY <3>1 DEF CallReturns, Request
    <3>2. ASSUME NEW next \in [n : {0}, ask : RemoteAsks, oid : {0, RtdbOid, api.oid}], GoesOn(next)
          PROVE  waits' = FALSE /\ req'.oid \in {0, RtdbOid, api.oid} /\ was' = was
      BY ONLY <3>2 DEF GoesOn
    <3>3. QED
      BY <1>5, <3>1, <3>2, OutcomeIs
  <2>3. req'.oid \in 0 .. MaxRemote
    BY <1>1, <2>2 DEF RtdbOid
  <2>4. waits' \in BOOLEAN /\ was' \subseteq Remotes
    BY <2>2
  <2>5. QED
    BY <2>1, <2>3, <2>4
<1>6. QED
  BY <1>2, <1>3, <1>4, <1>5 DEF ReceiveTimeout, ReceiveReply

\* Every variable of the monitor has its type: the server looks for no object outside the
\* database, and its replies are about those.
THEOREM MonitorTyped == MonitorSpec => []MonitorTypeOK
<1>1. MonitorInit => RequestTyped
  <2> SUFFICES ASSUME MonitorInit PROVE RequestTyped
    OBVIOUS
  <2>1. \A o \in Remotes : (IF o <= 2 THEN 1 ELSE -1) \in -1 .. MaxVersion
    BY DEF Remotes
  <2>2. remote \in [Remotes -> -1 .. MaxVersion] /\ next_remote \in Remotes
    BY <2>1 DEF MonitorInit, Remotes
  <2>3. /\ requests = {} /\ replies = {} /\ waits = FALSE /\ was = {}
        /\ req.oid = 0 /\ 0 \in 0 .. MaxRemote
    BY DEF MonitorInit, Request
  <2>4. QED
    BY <2>2, <2>3 DEF RequestTyped, MonitorTypeOK
<1>2. MonitorInv /\ RequestTyped /\ [MonitorNext]_monitorVars => RequestTyped'
  <2> SUFFICES ASSUME MonitorInv, RequestTyped, [MonitorNext]_monitorVars PROVE RequestTyped'
    OBVIOUS
  <2>1. CASE MonitorNext
    BY <2>1, ServerStepTyped, ClientStepTyped DEF MonitorNext
  <2>2. CASE UNCHANGED monitorVars
    BY <2>2 DEF monitorVars, netVars, RequestTyped, MonitorTypeOK
  <2>3. QED
    BY <2>1, <2>2
<1>3. RequestTyped => MonitorTypeOK
  BY DEF RequestTyped
<1>4. QED
  BY <1>1, <1>2, <1>3, MonitorAlways, PTL DEF MonitorSpec

-----------------------------------------------------------------------------
(* The parts side by side *)

\* A behaviour of all parts is one of each part, which stands still in most of them.
LEMMA PartsAreParts ==
  PartsSpec => /\ ProcSpec /\ SubaSpec /\ TlsfSpec /\ RecordSpec /\ PlaySpec /\ PlayCtrlSpec
               /\ SearchSpec /\ MonitorSpec /\ FollowSpec
<1>1. PartsInit => /\ ProcInit /\ SubaInit /\ TlsfInit /\ RecordInit /\ PlayInit /\ PlayCtrlInit
                   /\ SearchInit /\ MonitorInit /\ FollowInit
  BY DEF PartsInit
<1>2. [PartsNext]_partsVars =>
        /\ [ProcNext]_procVars /\ [SubaNext]_subaVars /\ [TlsfNext]_tlsfVars
        /\ [RecordNext]_recordVars /\ [PlayNext]_playVars /\ [PlayCtrlNext]_playctrlVars
        /\ [SearchNext]_searchVars /\ [MonitorNext]_monitorVars /\ [FollowNext]_followVars
  BY DEF PartsNext, partsVars
<1>3. QED
  BY <1>1, <1>2, PTL DEF PartsSpec, ProcSpec, SubaSpec, TlsfSpec, RecordSpec, PlaySpec, PlayCtrlSpec,
                         SearchSpec, MonitorSpec, FollowSpec

\* Every variable of every part has its type (objmeta.c, proc_obj_notify.h, suba.c, tlsf.c,
\* kogmo_rtdb_record.c, kogmo_rtdb_play.c).
THEOREM PartsTyped == PartsSpec => []PartsTypeOK
<1>1. PartsInit => part \in Parts
  BY DEF PartsInit
<1>2. part \in Parts /\ [PartsNext]_partsVars => (part \in Parts)'
  BY DEF PartsNext, partsVars
<1>3. ProcSpec => []ProcTypeOK
  BY ProcTyped
<1>4. /\ part \in Parts
      /\ ProcTypeOK /\ SubaTypeOK /\ TlsfTypeOK /\ RecordTypeOK /\ PlayTypeOK /\ PlayCtrlTypeOK
      /\ SearchTypeOK /\ MonitorTypeOK /\ FollowTypeOK
      => PartsTypeOK
  BY DEF Parts, PartsTypeOK
<1>5. PartsSpec => [](part \in Parts)
  BY <1>1, <1>2, PTL DEF PartsSpec
<1>6. QED
  BY <1>3, <1>4, <1>5, PartsAreParts, SubaTyped, TlsfTyped, RecordTyped, PlayTyped, CtrlTyped,
     SearchTyped, MonitorTyped, FollowTyped, PTL

\* Both allocators lose no memory, and what is free is where the next call looks for it, in
\* as large a piece as there is (suba.c:150-163, 212-255, tlsf.c:156-212, 282-348).
THEOREM FreeMemoryAlwaysListed == PartsSpec => []FreeMemoryIsListed
<1>1. HeapIsCellsOnly /\ FreeListIsOneRing /\ BlocksAreARow /\ BitmapsShowTheLists
      => FreeMemoryIsListed
  BY DEF FreeMemoryIsListed
<1>2. QED
  BY <1>1, PartsAreParts, HeapIsCells, FreeListIsARing, BlocksAlwaysARow, BitmapsAlwaysShow, PTL

\* Both allocators give away memory that nobody else has (suba.c:148-261, tlsf.c:282-348,
\* rtmalloc.c:51-116).
THEOREM HeapsImplementHeap == PartsSpec => HeapsAreHeaps
  BY PartsAreParts, SubaImplementsHeap, TlsfImplementsHeap, PTL DEF HeapsAreHeaps
=============================================================================
