------------------------- MODULE RtdbObjMetaProofs -------------------------
(***************************************************************************)
(* Proofs about the object registry of RtdbObjMeta, for any number of      *)
(* processes, slots and blocks, any metadata, and both builds.             *)
(***************************************************************************)
EXTENDS RtdbObjMeta, FiniteSetTheorems, FunctionTheorems, TLAPS

-----------------------------------------------------------------------------
(* The part of the type invariant the proofs below need. *)

Places == {"idle", "insert", "alloc", "retry", "claim", "free", "delete",
           "children", "purge", "dead"}

Buffers == Blocks \cup {NoBlock}

Entry ==
  [oid : Nat, kind : Kinds \cup {Nobody}, parent : Nat,
   proc : Procs \cup {Nobody}, deleted : {"no", "recent", "old"},
   buffer : Buffers]

Call == [kind : Kinds \cup {Nobody}, parent : Nat]

SlotsShape ==
  /\ objmeta \in [Slots -> Entry]
  /\ objmeta_oid_next \in Nat \ {0}

CallsShape ==
  /\ pc \in [Procs -> Places]
  /\ want \in [Procs -> Call]
  /\ buf \in [Procs -> Buffers]

\* Which phases of a call hold a block and metadata to insert.
Phases ==
  \A p \in Procs :
    /\ pc[p] \notin {"claim", "free", "dead"} => buf[p] = NoBlock
    /\ pc[p] \in {"insert", "alloc", "retry", "claim", "free"}
         => want[p].kind \in Kinds
    /\ pc[p] \in {"alloc", "claim"} => want[p].kind.data
    /\ pc[p] = "claim" => buf[p] # NoBlock

IInv ==
  /\ SlotsShape /\ CallsShape /\ Phases
  /\ BlocksHaveOneOwner
  /\ UniqueIsUnique

-----------------------------------------------------------------------------
(* What the operators that change a slot or end a call do, field by field. *)

SameSlots(S) == \A t \in S : objmeta'[t] = objmeta[t]

\* What an insert without a parent gets: the root, or nothing for the root.
NewParent(p) == IF want[p].parent = 0 /\ objmeta_oid_next > 1
                THEN 1 ELSE want[p].parent

\* The metadata of a new object.
NewObject(p, b) ==
  [oid |-> objmeta_oid_next, kind |-> want[p].kind, parent |-> NewParent(p),
   proc |-> p, deleted |-> "no", buffer |-> b]

LEMMA StoreRecord ==
  ASSUME SlotsShape, CallsShape,
         NEW p \in Procs, NEW s \in Slots, NEW b \in Buffers,
         want[p].kind \in Kinds, Store(p, s, b)
  PROVE  /\ objmeta' \in [Slots -> Entry]
         /\ SameSlots(Slots \ {s})
         /\ objmeta'[s] = NewObject(p, b)
         /\ objmeta_oid_next' = objmeta_oid_next + 1
         /\ SlotsShape'
  <1>1. objmeta' = [objmeta EXCEPT ![s] = NewObject(p, b)]
    BY DEF Store, NewParent, NewObject
  <1>2. objmeta_oid_next' \in Nat \ {0} /\ objmeta_oid_next' = objmeta_oid_next + 1
    BY DEF Store, SlotsShape
  <1>3. NewParent(p) \in Nat
    BY DEF CallsShape, Call, NewParent
  <1>4. NewObject(p, b) \in Entry
    BY <1>3 DEF Entry, NewObject, SlotsShape
  <1>5. /\ objmeta' \in [Slots -> Entry]
        /\ objmeta'[s] = NewObject(p, b) /\ SameSlots(Slots \ {s})
    BY <1>1, <1>4 DEF SlotsShape, SameSlots
  <1> QED BY <1>2, <1>5 DEF SlotsShape

\* A new object in slot s.
LEMMA StoreEffect ==
  ASSUME SlotsShape, CallsShape,
         NEW p \in Procs, NEW s \in Slots, NEW b \in Buffers,
         want[p].kind \in Kinds, Store(p, s, b)
  PROVE  /\ SlotsShape'
         /\ SameSlots(Slots \ {s})
         /\ objmeta'[s].oid # 0 /\ objmeta'[s].deleted = "no"
         /\ objmeta'[s].kind = want[p].kind /\ objmeta'[s].buffer = b
  <1>1. /\ NewObject(p, b).oid # 0 /\ NewObject(p, b).deleted = "no"
        /\ NewObject(p, b).kind = want[p].kind /\ NewObject(p, b).buffer = b
    BY DEF NewObject, SlotsShape
  <1> QED BY <1>1, StoreRecord

\* The object in slot s is deleted, or its keep time ends.
LEMMA MarkEffect ==
  ASSUME SlotsShape, NEW s \in Slots, NEW d \in {"recent", "old"},
         objmeta' = [objmeta EXCEPT ![s].deleted = d],
         UNCHANGED objmeta_oid_next
  PROVE  /\ SlotsShape'
         /\ SameSlots(Slots \ {s})
         /\ objmeta'[s].deleted = d
         /\ objmeta'[s].oid = objmeta[s].oid
         /\ objmeta'[s].kind = objmeta[s].kind
         /\ objmeta'[s].buffer = objmeta[s].buffer
         /\ objmeta'[s].parent = objmeta[s].parent
         /\ objmeta'[s].proc = objmeta[s].proc
  <1> DEFINE new == [objmeta[s] EXCEPT !.deleted = d]
  <1>1. objmeta[s] \in Entry
    BY DEF SlotsShape
  <1>2. /\ new \in Entry
        /\ new.deleted = d /\ new.oid = objmeta[s].oid
        /\ new.kind = objmeta[s].kind /\ new.buffer = objmeta[s].buffer
        /\ new.parent = objmeta[s].parent /\ new.proc = objmeta[s].proc
    BY <1>1 DEF Entry
  <1>3. objmeta' = [objmeta EXCEPT ![s] = new]
    OBVIOUS
  <1> HIDE DEF new
  <1>4. objmeta' \in [Slots -> Entry] /\ objmeta'[s] = new /\ SameSlots(Slots \ {s})
    BY <1>2, <1>3 DEF SlotsShape, SameSlots
  <1> QED BY <1>2, <1>4 DEF SlotsShape

\* Slot s is free.
LEMMA PurgeEffect ==
  ASSUME SlotsShape, NEW s \in Slots, PurgeSlot(s), UNCHANGED objmeta_oid_next
  PROVE  /\ SlotsShape'
         /\ SameSlots(Slots \ {s})
         /\ objmeta'[s].oid = 0 /\ objmeta'[s] = Free
  <1>1. Free \in Entry /\ Free.oid = 0
    BY DEF Free, Entry, Buffers
  <1>2. objmeta' \in [Slots -> Entry] /\ objmeta'[s] = Free /\ SameSlots(Slots \ {s})
    BY <1>1 DEF SlotsShape, SameSlots, PurgeSlot
  <1> QED BY <1>1, <1>2 DEF SlotsShape

\* A call that is over holds neither metadata nor a block.
LEMMA ReturnEffect ==
  ASSUME CallsShape, NEW p \in Procs, Return(p)
  PROVE  /\ CallsShape'
         /\ pc'[p] = "idle" /\ buf'[p] = NoBlock
         /\ \A q \in Procs \ {p} :
              pc'[q] = pc[q] /\ want'[q] = want[q] /\ buf'[q] = buf[q]
  <1>1. NoCall \in Call
    BY DEF NoCall, Call
  <1> QED BY <1>1 DEF CallsShape, Return, Forgotten, GoTo, Places, Buffers

-----------------------------------------------------------------------------
(* What a step may do to the slots, to the count of free ones and to the ids. *)

KeepsSlots ==
  /\ UNCHANGED <<objmeta, objmeta_oid_next>>
  /\ objmeta_free' \in {objmeta_free, objmeta_free - 1}

Stores(p, s, b) ==
  /\ want[p].kind \in Kinds /\ ~Clash(want[p].kind)
  /\ Store(p, s, b)

Fills(p, s) ==
  s \in FreeSlots /\ Stores(p, s, buf[p]) /\ objmeta_free' = objmeta_free - 1

Reuses(p, s) ==
  s \in KeptSlots(p) /\ Stores(p, s, objmeta[s].buffer) /\ UNCHANGED objmeta_free

Marks(s, d) ==
  /\ objmeta' = [objmeta EXCEPT ![s].deleted = d]
  /\ UNCHANGED <<objmeta_oid_next, objmeta_free>>

Purges(s) == PurgeSlot(s) /\ UNCHANGED objmeta_oid_next

\* Why an object may leave its slot: it asks for it, a process asks for it, or
\* it was deleted and its keep time over when a call began.
MayGo(s) ==
  \/ objmeta[s].kind.immediately_delete
  \/ \E p \in Procs : imm[p] /\ s \in FindMeta(target[p])
  \/ s \notin Live /\ \E p \in Procs : objmeta[s].oid \in due[p]

SlotStep ==
  \/ KeepsSlots
  \/ \E p \in Procs, s \in Slots : Fills(p, s) \/ Reuses(p, s)
  \/ \E s \in Live : ~objmeta[s].kind.immediately_delete /\ Marks(s, "recent")
  \/ \E s \in Used : objmeta[s].deleted = "recent" /\ Marks(s, "old")
  \/ \E s \in Used : MayGo(s) /\ Purges(s)

\* A new object goes where no live one is.
LEMMA StoresWhere ==
  ASSUME SlotsShape, CallsShape, NEW p \in Procs, NEW s \in Slots,
         Fills(p, s) \/ Reuses(p, s)
  PROVE  s \in Slots \ Live /\ \E b \in Buffers : Stores(p, s, b)
  <1>1. buf[p] \in Buffers /\ objmeta[s].buffer \in Buffers
    BY DEF SlotsShape, CallsShape, Entry
  <1> QED BY <1>1 DEF Fills, Reuses, KeptSlots, FreeSlots, Live, Used

LEMMA RefuseKeepsSlots ==
  ASSUME NEW p \in Procs, Refuse(p) \/ RefuseRetry(p) \/ GiveUp(p)
  PROVE  UNCHANGED <<objmeta, objmeta_oid_next>>
  BY DEF Refuse, RefuseRetry, GiveUp

LEMMA NextIsSlotStep ==
  ASSUME SlotsShape, CallsShape, Phases, [Next]_vars
  PROVE  SlotStep
  <1> USE DEF SlotStep
  <1>1. ASSUME NEW p \in Procs, Insert(p) PROVE SlotStep
    <2>1. CASE InsertKept(p)
      <3>1. PICK s \in First(KeptSlots(p)) :
              IF Clash(want[p].kind) THEN Refuse(p)
                                     ELSE Store(p, s, objmeta[s].buffer)
        BY <2>1 DEF InsertKept
      <3>2. s \in KeptSlots(p) /\ s \in Slots /\ UNCHANGED objmeta_free
        BY <2>1 DEF First, KeptSlots, Used, InsertKept
      <3>3. want[p].kind \in Kinds
        BY <2>1 DEF InsertKept, Phases
      <3>4. CASE Clash(want[p].kind)
        BY <3>1, <3>2, <3>4, RefuseKeepsSlots DEF KeepsSlots
      <3>5. CASE ~Clash(want[p].kind)
        BY <3>1, <3>2, <3>3, <3>5 DEF Stores, Reuses
      <3> QED BY <3>4, <3>5
    <2>2. CASE InsertClaim(p)
      <3>1. PICK s \in First(FreeSlots) :
              IF Clash(want[p].kind) THEN Refuse(p) ELSE Store(p, s, buf[p])
        BY <2>2 DEF InsertClaim
      <3>2. s \in FreeSlots /\ s \in Slots /\ objmeta_free' = objmeta_free - 1
        BY <2>2 DEF First, FreeSlots, InsertClaim
      <3>3. want[p].kind \in Kinds
        BY <2>2 DEF InsertClaim, Claiming, Phases
      <3>4. CASE Clash(want[p].kind)
        BY <3>1, <3>2, <3>4, RefuseKeepsSlots DEF KeepsSlots
      <3>5. CASE ~Clash(want[p].kind)
        BY <3>1, <3>2, <3>3, <3>5 DEF Stores, Fills
      <3> QED BY <3>4, <3>5
    <2>3. CASE InsertRetry(p) \/ InsertNoSlot(p)
      BY <2>3, RefuseKeepsSlots DEF InsertRetry, InsertNoSlot, KeepsSlots
    <2>4. CASE InsertCall(p) \/ InsertNeedsBlock(p) \/ InsertAlloc(p)
               \/ InsertNoMemory(p) \/ InsertFree(p)
      BY <2>4 DEF InsertCall, InsertNeedsBlock, InsertAlloc, InsertNoMemory,
                  InsertFree, KeepsSlots
    <2> QED BY <1>1, <2>1, <2>2, <2>3, <2>4 DEF Insert
  <1>2. ASSUME NEW p \in Procs, Delete(p) PROVE SlotStep
    <2>1. CASE DeleteMark(p)
      <3>1. PICK s \in Deletable(p) :
              IF AtOnce(p, s) THEN PurgeSlot(s)
              ELSE /\ objmeta' = [objmeta EXCEPT ![s].deleted = "recent"]
                   /\ UNCHANGED <<objmeta_free, heap>>
        BY <2>1 DEF DeleteMark
      <3>2. /\ s \in Used /\ s \in FindMeta(target[p]) /\ UNCHANGED objmeta_oid_next
            /\ s \in Live \/ AtOnce(p, s)
        BY <2>1 DEF Deletable, FindMeta, DeleteMark
      <3>3. CASE AtOnce(p, s)
        BY <3>1, <3>2, <3>3 DEF AtOnce, MayGo, Purges
      <3>4. CASE ~AtOnce(p, s)
        BY <3>1, <3>2, <3>4 DEF AtOnce, Marks
      <3> QED BY <3>3, <3>4
    <2>2. CASE DeleteCall(p) \/ DeleteFails(p) \/ ReadChild(p) \/ DeleteReturn(p)
      BY <2>2 DEF DeleteCall, DeleteFails, ReadChild, DeleteReturn, KeepsSlots
    <2> QED BY <1>2, <2>1, <2>2 DEF Delete
  <1>3. ASSUME NEW p \in Procs, Purge(p) PROVE SlotStep
    <2>1. CASE PurgeNext(p)
      <3>1. \A s \in MayPurge(p) : s \in Used \ Live /\ objmeta[s].oid \in due[p]
        BY DEF MayPurge, MustPurge, DueSlots
      <3> QED BY <2>1, <3>1 DEF PurgeNext, Purges, MayGo
    <2>2. CASE PurgeCall(p) \/ PurgeReturn(p)
      BY <2>2 DEF PurgeCall, PurgeReturn, KeepsSlots
    <2> QED BY <1>3, <2>1, <2>2 DEF Purge
  <1>4. ASSUME NEW p \in Procs, Die(p) PROVE SlotStep
    BY <1>4 DEF Die, KeepsSlots
  <1>5. ASSUME NEW s \in Slots, Age(s) PROVE SlotStep
    BY <1>5 DEF Age, Marks
  <1>6. CASE UNCHANGED vars
    BY <1>6 DEF vars, KeepsSlots
  <1> QED BY <1>1, <1>2, <1>3, <1>4, <1>5, <1>6 DEF Next

\* What a step does to the slots, without the reason for it: it suffices for
\* what follows from the shape of the change alone.
LEMMA SlotStepCases ==
  ASSUME SlotsShape, CallsShape, SlotStep
  PROVE  \/ UNCHANGED <<objmeta, objmeta_oid_next>>
         \/ \E p \in Procs, s \in Slots \ Live, b \in Buffers : Stores(p, s, b)
         \/ \E s \in Used, d \in {"recent", "old"} : Marks(s, d)
         \/ \E s \in Used : Purges(s)
  <1>1. ASSUME NEW p \in Procs, NEW s \in Slots, Fills(p, s) \/ Reuses(p, s)
        PROVE  \E q \in Procs, t \in Slots \ Live, b \in Buffers : Stores(q, t, b)
    BY <1>1, StoresWhere
  <1>2. Live \subseteq Used
    BY DEF Live
  <1> QED BY <1>1, <1>2 DEF SlotStep, KeepsSlots

LEMMA SlotsShapeNext ==
  ASSUME SlotsShape, CallsShape, SlotStep
  PROVE  SlotsShape'
  <1>1. CASE UNCHANGED <<objmeta, objmeta_oid_next>>
    BY <1>1 DEF SlotsShape
  <1>2. ASSUME NEW p \in Procs, NEW s \in Slots \ Live, NEW b \in Buffers,
               Stores(p, s, b)
        PROVE  SlotsShape'
    BY <1>2, StoreEffect DEF Stores
  <1>3. ASSUME NEW s \in Used, NEW d \in {"recent", "old"}, Marks(s, d)
        PROVE  SlotsShape'
    BY <1>3, MarkEffect DEF Marks, Used
  <1>4. ASSUME NEW s \in Used, Purges(s) PROVE SlotsShape'
    BY <1>4, PurgeEffect DEF Purges, Used
  <1> QED BY <1>1, <1>2, <1>3, <1>4, SlotStepCases

-----------------------------------------------------------------------------
(* Unique names. *)

\* Objects that were live before cannot become a pair of one unique name.
LEMMA FewerLiveStayUnique ==
  ASSUME UniqueIsUnique, NEW S \in SUBSET Live, Live' = S,
         \A t \in S : objmeta'[t].kind = objmeta[t].kind
  PROVE  UniqueIsUnique'
  BY DEF UniqueIsUnique

LEMMA UniqueNext ==
  ASSUME SlotsShape, CallsShape, UniqueIsUnique, SlotStep
  PROVE  UniqueIsUnique'
  <1>1. CASE UNCHANGED <<objmeta, objmeta_oid_next>>
    BY <1>1 DEF UniqueIsUnique, Live, Used, FreeSlots
  <1>2. ASSUME NEW p \in Procs, NEW s \in Slots \ Live, NEW b \in Buffers,
               Stores(p, s, b)
        PROVE  UniqueIsUnique'
    <2>1. /\ SameSlots(Slots \ {s})
          /\ objmeta'[s].kind = want[p].kind
      BY <1>2, StoreEffect DEF Stores
    <2>2. Live' \subseteq Live \cup {s}
      BY <2>1 DEF Live, Used, FreeSlots, SameSlots
    <2>3. \A t \in Live : objmeta'[t].kind = objmeta[t].kind
      BY <2>1 DEF SameSlots, Live, Used
    <2>4. \A t \in Live : objmeta[t].kind.name = want[p].kind.name
            => ~objmeta[t].kind.unique /\ ~want[p].kind.unique
      BY <1>2 DEF Stores, Clash
    <2> QED BY <2>1, <2>2, <2>3, <2>4 DEF UniqueIsUnique
  <1>3. ASSUME NEW s \in Used, NEW d \in {"recent", "old"}, Marks(s, d)
        PROVE  UniqueIsUnique'
    <2>1. SameSlots(Slots \ {s}) /\ objmeta'[s].deleted = d
      BY <1>3, MarkEffect DEF Marks, Used
    <2>2. /\ Live' \in SUBSET Live
          /\ \A t \in Live' : objmeta'[t].kind = objmeta[t].kind
      BY <2>1 DEF SameSlots, Live, Used, FreeSlots
    <2> QED BY <2>2, FewerLiveStayUnique
  <1>4. ASSUME NEW s \in Used, Purges(s) PROVE UniqueIsUnique'
    <2>1. SameSlots(Slots \ {s}) /\ objmeta'[s].oid = 0
      BY <1>4, PurgeEffect DEF Purges, Used
    <2>2. /\ Live' \in SUBSET Live
          /\ \A t \in Live' : objmeta'[t].kind = objmeta[t].kind
      BY <2>1 DEF SameSlots, Live, Used, FreeSlots
    <2> QED BY <2>2, FewerLiveStayUnique
  <1> QED BY <1>1, <1>2, <1>3, <1>4, SlotStepCases

-----------------------------------------------------------------------------
(* The phases of the calls. *)

LEMMA ReturnPhases ==
  ASSUME CallsShape, Phases, NEW p \in Procs, Return(p)
  PROVE  CallsShape' /\ Phases'
  BY ReturnEffect DEF Phases

\* Going on with the same metadata and block.
LEMMA GoToPhases ==
  ASSUME CallsShape, Phases, NEW p \in Procs, NEW place \in Places,
         GoTo(p, place), UNCHANGED <<want, buf>>,
         place \notin {"claim", "free", "dead"} => buf[p] = NoBlock,
         place \in {"insert", "alloc", "retry", "claim", "free"}
           => want[p].kind \in Kinds,
         place \in {"alloc", "claim"} => want[p].kind.data,
         place = "claim" => buf[p] # NoBlock
  PROVE  CallsShape' /\ Phases'
  <1>1. pc' = [pc EXCEPT ![p] = place] /\ CallsShape'
    BY DEF GoTo, CallsShape
  <1>2. ASSUME NEW q \in Procs
        PROVE  pc'[q] = (IF q = p THEN place ELSE pc[q])
    BY <1>1 DEF CallsShape
  <1> QED BY <1>1, <1>2 DEF Phases

LEMMA RefusePhases ==
  ASSUME CallsShape, Phases, NEW p \in Procs,
         Refuse(p) \/ RefuseRetry(p) \/ GiveUp(p),
         pc[p] \in {"insert", "retry", "claim"}
  PROVE  CallsShape' /\ Phases'
  <1>1. CASE Return(p)
    BY <1>1, ReturnPhases
  <1>2. CASE GoTo(p, "free") /\ UNCHANGED regs
    <2>1. want[p].kind \in Kinds
      BY DEF Phases
    <2> QED BY <1>2, <2>1, GoToPhases DEF regs, Places
  <1> QED BY <1>1, <1>2 DEF Refuse, RefuseRetry, GiveUp

LEMMA InsertPhases ==
  ASSUME CallsShape, Phases, NEW p \in Procs, Insert(p)
  PROVE  CallsShape' /\ Phases'
  <1>1. CASE InsertCall(p)
    <2>1. PICK k \in Kinds, parent \in {0} \cup 2 .. objmeta_oid_next - 1 :
            want' = [want EXCEPT ![p] = [kind |-> k, parent |-> parent]]
      BY <1>1 DEF InsertCall
    <2> DEFINE new == [kind |-> k, parent |-> parent]
    <2>2. new \in Call /\ new.kind = k
      BY DEF Call
    <2> HIDE DEF new
    <2>3. /\ want' \in [Procs -> Call]
          /\ want'[p].kind = k
          /\ \A q \in Procs \ {p} : want'[q] = want[q]
      BY <2>1, <2>2 DEF CallsShape, new
    <2>4. /\ pc' = [pc EXCEPT ![p] = "insert"] /\ buf' = buf /\ pc[p] = "idle"
      BY <1>1 DEF InsertCall, GoTo
    <2>5. CallsShape'
      BY <2>3, <2>4 DEF CallsShape, Places
    <2>6. ASSUME NEW q \in Procs
          PROVE  pc'[q] = (IF q = p THEN "insert" ELSE pc[q])
      BY <2>4 DEF CallsShape
    <2> QED BY <2>3, <2>4, <2>5, <2>6 DEF Phases
  <1>2. CASE InsertAlloc(p)
    <2>1. PICK b \in Blocks \ heap : buf' = [buf EXCEPT ![p] = b]
      BY <1>2 DEF InsertAlloc
    <2>2. pc' = [pc EXCEPT ![p] = "claim"] /\ want' = want /\ pc[p] = "alloc"
      BY <1>2 DEF InsertAlloc, GoTo
    <2>3. b # NoBlock /\ b \in Buffers
      BY ObjMetaAssumption DEF Buffers
    <2>4. CallsShape'
      BY <2>1, <2>2, <2>3 DEF CallsShape, Places
    <2>5. ASSUME NEW q \in Procs
          PROVE  /\ pc'[q] = (IF q = p THEN "claim" ELSE pc[q])
                 /\ buf'[q] = (IF q = p THEN b ELSE buf[q])
      BY <2>1, <2>2 DEF CallsShape
    <2> QED BY <2>2, <2>3, <2>4, <2>5 DEF Phases
  <1>3. CASE InsertNeedsBlock(p)
    <2>1. /\ GoTo(p, "alloc") /\ UNCHANGED <<want, buf>>
          /\ pc[p] = "insert" /\ want[p].kind.data
      BY <1>3 DEF InsertNeedsBlock, regs
    <2>2. want[p].kind \in Kinds /\ buf[p] = NoBlock
      BY <2>1 DEF Phases
    <2> QED BY <2>1, <2>2, GoToPhases DEF Places
  <1>4. CASE InsertNoMemory(p)
    <2>1. CASE Return(p)
      BY <2>1, ReturnPhases
    <2>2. CASE GoTo(p, "retry") /\ UNCHANGED regs
      <3>1. want[p].kind \in Kinds /\ buf[p] = NoBlock
        BY <1>4 DEF InsertNoMemory, Phases
      <3> QED BY <2>2, <3>1, GoToPhases DEF regs, Places
    <2> QED BY <1>4, <2>1, <2>2 DEF InsertNoMemory
  <1>5. CASE InsertKept(p) \/ InsertRetry(p) \/ InsertClaim(p) \/ InsertNoSlot(p)
    <2>1. pc[p] \in {"insert", "retry", "claim"}
      BY <1>5 DEF InsertKept, InsertRetry, InsertClaim, InsertNoSlot, Claiming
    <2>2. Return(p) \/ Refuse(p) \/ RefuseRetry(p) \/ GiveUp(p)
      BY <1>5 DEF InsertKept, InsertRetry, InsertClaim, InsertNoSlot, Store
    <2> QED BY <2>1, <2>2, ReturnPhases, RefusePhases
  <1>6. CASE InsertFree(p)
    BY <1>6, ReturnPhases DEF InsertFree
  <1> QED BY <1>1, <1>2, <1>3, <1>4, <1>5, <1>6 DEF Insert

LEMMA PhasesNext ==
  ASSUME CallsShape, Phases, [Next]_vars
  PROVE  CallsShape' /\ Phases'
  <1>1. ASSUME NEW p \in Procs, Insert(p) PROVE CallsShape' /\ Phases'
    BY <1>1, InsertPhases
  <1>2. ASSUME NEW p \in Procs, Delete(p) PROVE CallsShape' /\ Phases'
    <2>1. CASE DeleteReturn(p)
      BY <2>1, ReturnPhases DEF DeleteReturn
    <2>2. CASE ReadChild(p) /\ UNCHANGED pc
      BY <2>2 DEF ReadChild, CallsShape, Phases
    <2>3. CASE DeleteCall(p) \/ DeleteFails(p) \/ DeleteMark(p)
               \/ (ReadChild(p) /\ ~UNCHANGED pc)
      <3>1. /\ \E place \in {"delete", "children"} : GoTo(p, place)
            /\ UNCHANGED <<want, buf>>
            /\ pc[p] \in {"idle", "delete", "children"}
        BY <2>3 DEF DeleteCall, DeleteFails, DeleteMark, ReadChild
      <3>2. buf[p] = NoBlock
        BY <3>1 DEF Phases
      <3> QED BY <3>1, <3>2, GoToPhases DEF Places
    <2> QED BY <1>2, <2>1, <2>2, <2>3 DEF Delete
  <1>3. ASSUME NEW p \in Procs, Purge(p) PROVE CallsShape' /\ Phases'
    <2>1. CASE PurgeCall(p)
      <3>1. GoTo(p, "purge") /\ UNCHANGED <<want, buf>> /\ buf[p] = NoBlock
        BY <2>1 DEF PurgeCall, Phases
      <3> QED BY <3>1, GoToPhases DEF Places
    <2>2. CASE PurgeNext(p)
      BY <2>2 DEF PurgeNext, CallsShape, Phases
    <2>3. CASE PurgeReturn(p)
      BY <2>3, ReturnPhases DEF PurgeReturn
    <2> QED BY <1>3, <2>1, <2>2, <2>3 DEF Purge
  <1>4. ASSUME NEW p \in Procs, Die(p) PROVE CallsShape' /\ Phases'
    <2>1. NoCall \in Call
      BY DEF NoCall, Call
    <2>2. /\ pc' = [pc EXCEPT ![p] = "dead"]
          /\ want' = [want EXCEPT ![p] = NoCall]
          /\ buf' = buf
      BY <1>4 DEF Die, Forgotten, GoTo
    <2>3. CallsShape'
      BY <2>1, <2>2 DEF CallsShape, Places
    <2>4. ASSUME NEW q \in Procs
          PROVE  /\ pc'[q] = (IF q = p THEN "dead" ELSE pc[q])
                 /\ q # p => want'[q] = want[q]
      BY <2>2 DEF CallsShape
    <2> QED BY <2>2, <2>3, <2>4 DEF Phases
  <1>5. ASSUME NEW s \in Slots, Age(s) PROVE CallsShape' /\ Phases'
    BY <1>5 DEF Age, regs, CallsShape, Phases
  <1>6. CASE UNCHANGED vars
    BY <1>6 DEF vars, regs, CallsShape, Phases
  <1> QED BY <1>1, <1>2, <1>3, <1>4, <1>5, <1>6 DEF Next

-----------------------------------------------------------------------------
(* Every block of the heap has one owner. *)

SameBufs(S) == \A q \in S : buf'[q] = buf[q]

\* A process keeps its block or forgets it.
LEMMA ForgetOwners ==
  ASSUME BlocksHaveOneOwner, NEW p \in Procs, UNCHANGED <<objmeta, heap>>,
         SameBufs(Procs \ {p}), buf'[p] \in {buf[p], NoBlock}
  PROVE  BlocksHaveOneOwner'
  <1>1. \A q \in Procs : buf'[q] \in {buf[q], NoBlock}
    BY DEF SameBufs
  <1>2. Used' = Used
    BY DEF Used, FreeSlots
  <1> QED BY <1>1, <1>2 DEF BlocksHaveOneOwner, HasBlock

\* The block in hand moves into a free slot.
LEMMA StoreNewOwners ==
  ASSUME SlotsShape, CallsShape, BlocksHaveOneOwner,
         NEW p \in Procs, NEW s \in FreeSlots,
         want[p].kind \in Kinds, Store(p, s, buf[p]), UNCHANGED heap,
         want[p].kind.data <=> buf[p] # NoBlock
  PROVE  BlocksHaveOneOwner'
  <1>1. s \in Slots /\ buf[p] \in Buffers
    BY DEF FreeSlots, CallsShape
  <1>2. /\ SameSlots(Slots \ {s})
        /\ objmeta'[s].oid # 0
        /\ objmeta'[s].kind = want[p].kind /\ objmeta'[s].buffer = buf[p]
    BY <1>1, StoreEffect
  <1>3. buf'[p] = NoBlock /\ SameBufs(Procs \ {p})
    BY ReturnEffect DEF Store, SameBufs
  <1>4. Used' = Used \cup {s} /\ s \notin Used
    BY <1>1, <1>2 DEF Used, FreeSlots, SameSlots
  <1>5. \A t \in Used : objmeta'[t] = objmeta[t]
    BY <1>2, <1>4 DEF SameSlots, Used
  <1> QED BY <1>2, <1>3, <1>4, <1>5 DEF BlocksHaveOneOwner, HasBlock, SameBufs

\* The objects in the slots change, their blocks do not.
LEMMA SameBlocksOwners ==
  ASSUME BlocksHaveOneOwner, Used' = Used, UNCHANGED heap, SameBufs(Procs),
         \A t \in Used : /\ objmeta'[t].buffer = objmeta[t].buffer
                         /\ objmeta'[t].kind.data <=> objmeta[t].kind.data
  PROVE  BlocksHaveOneOwner'
  BY DEF BlocksHaveOneOwner, HasBlock, SameBufs

\* A block goes back to the heap with the slot it belonged to.
LEMMA PurgeOwners ==
  ASSUME SlotsShape, BlocksHaveOneOwner, NEW s \in Used, PurgeSlot(s),
         UNCHANGED <<objmeta_oid_next, buf>>
  PROVE  BlocksHaveOneOwner'
  <1>1. s \in Slots /\ SameSlots(Slots \ {s}) /\ objmeta'[s].oid = 0
    BY PurgeEffect DEF Used
  <1>2. Used' = Used \ {s}
    BY <1>1 DEF Used, FreeSlots, SameSlots
  <1>3. \A t \in Used' : objmeta'[t] = objmeta[t]
    BY <1>1, <1>2 DEF SameSlots, Used
  <1>4. heap' = heap \ {objmeta[s].buffer}
    BY DEF PurgeSlot
  <1> QED BY <1>2, <1>3, <1>4 DEF BlocksHaveOneOwner, HasBlock

LEMMA InsertOwners ==
  ASSUME SlotsShape, CallsShape, Phases, BlocksHaveOneOwner,
         NEW p \in Procs, Insert(p)
  PROVE  BlocksHaveOneOwner'
  <1>0. ASSUME Return(p) PROVE SameBufs(Procs \ {p}) /\ buf'[p] = NoBlock
    BY <1>0, ReturnEffect DEF SameBufs
  <1>1. ASSUME Refuse(p) \/ RefuseRetry(p) \/ GiveUp(p), UNCHANGED heap
        PROVE  BlocksHaveOneOwner'
    <2>1. UNCHANGED objmeta
      BY <1>1, RefuseKeepsSlots
    <2>2. SameBufs(Procs \ {p}) /\ buf'[p] \in {buf[p], NoBlock}
      BY <1>0, <1>1 DEF Refuse, RefuseRetry, GiveUp, regs, SameBufs
    <2> QED BY <1>1, <2>1, <2>2, ForgetOwners
  <1>2. CASE InsertKept(p)
    <2>1. PICK s \in First(KeptSlots(p)) :
            IF Clash(want[p].kind) THEN Refuse(p)
                                   ELSE Store(p, s, objmeta[s].buffer)
      BY <1>2 DEF InsertKept
    <2>2. CASE Refuse(p)
      BY <1>1, <1>2, <2>2 DEF InsertKept
    <2>3. CASE Store(p, s, objmeta[s].buffer)
      <3>1. /\ s \in Used /\ s \in Slots
            /\ objmeta[s].kind.data = want[p].kind.data
            /\ objmeta[s].buffer \in Buffers
        BY DEF First, KeptSlots, Used, SlotsShape, Entry
      <3>2. want[p].kind \in Kinds /\ buf[p] = NoBlock /\ UNCHANGED heap
        BY <1>2 DEF InsertKept, Phases
      <3>3. /\ SameSlots(Slots \ {s})
            /\ objmeta'[s].oid # 0
            /\ objmeta'[s].kind = want[p].kind
            /\ objmeta'[s].buffer = objmeta[s].buffer
        BY <2>3, <3>1, <3>2, StoreEffect
      <3>4. Used' = Used
        BY <3>1, <3>3 DEF Used, FreeSlots, SameSlots
      <3>5. \A t \in Used : /\ objmeta'[t].buffer = objmeta[t].buffer
                            /\ objmeta'[t].kind.data <=> objmeta[t].kind.data
        BY <3>1, <3>3 DEF SameSlots, Used
      <3>6. SameBufs(Procs)
        BY <1>0, <2>3, <3>2 DEF Store, SameBufs
      <3> QED BY <3>2, <3>4, <3>5, <3>6, SameBlocksOwners
    <2> QED BY <2>1, <2>2, <2>3
  <1>3. CASE InsertClaim(p)
    <2>1. PICK s \in First(FreeSlots) :
            IF Clash(want[p].kind) THEN Refuse(p) ELSE Store(p, s, buf[p])
      BY <1>3 DEF InsertClaim
    <2>2. CASE Refuse(p)
      BY <1>1, <1>3, <2>2 DEF InsertClaim
    <2>3. CASE Store(p, s, buf[p])
      <3>1. s \in FreeSlots /\ UNCHANGED heap
        BY <1>3 DEF First, InsertClaim
      <3>2. want[p].kind \in Kinds /\ (want[p].kind.data <=> buf[p] # NoBlock)
        BY <1>3 DEF InsertClaim, Claiming, Phases
      <3> QED BY <2>3, <3>1, <3>2, StoreNewOwners
    <2> QED BY <2>1, <2>2, <2>3
  <1>4. CASE InsertRetry(p) \/ InsertNoSlot(p)
    BY <1>1, <1>4 DEF InsertRetry, InsertNoSlot
  <1>5. CASE InsertAlloc(p)
    <2>1. PICK b \in Blocks \ heap :
            heap' = heap \cup {b} /\ buf' = [buf EXCEPT ![p] = b]
      BY <1>5 DEF InsertAlloc
    <2>2. buf'[p] = b /\ SameBufs(Procs \ {p})
      BY <2>1 DEF CallsShape, SameBufs
    <2>3. UNCHANGED objmeta /\ Used' = Used
      BY <1>5 DEF InsertAlloc, Used, FreeSlots
    <2> QED BY <2>1, <2>2, <2>3 DEF BlocksHaveOneOwner, HasBlock, SameBufs
  <1>6. CASE InsertFree(p)
    <2>1. /\ heap' = heap \ {buf[p]} /\ Return(p)
          /\ UNCHANGED objmeta /\ Used' = Used
      BY <1>6 DEF InsertFree, Used, FreeSlots
    <2>2. buf'[p] = NoBlock /\ SameBufs(Procs \ {p})
      BY <1>0, <2>1
    <2> QED BY <2>1, <2>2 DEF BlocksHaveOneOwner, HasBlock, SameBufs
  <1>7. CASE InsertCall(p) \/ InsertNeedsBlock(p)
    <2>1. UNCHANGED <<objmeta, heap, buf>>
      BY <1>7 DEF InsertCall, InsertNeedsBlock, regs
    <2> QED BY <2>1, ForgetOwners DEF SameBufs
  <1>8. CASE InsertNoMemory(p)
    <2>1. UNCHANGED <<objmeta, heap>>
      BY <1>8 DEF InsertNoMemory
    <2>2. SameBufs(Procs \ {p}) /\ buf'[p] \in {buf[p], NoBlock}
      BY <1>0, <1>8 DEF InsertNoMemory, regs, SameBufs
    <2> QED BY <2>1, <2>2, ForgetOwners
  <1> QED BY <1>2, <1>3, <1>4, <1>5, <1>6, <1>7, <1>8 DEF Insert

\* A deletion that only marks, and the end of a keep time.
LEMMA MarkOwners ==
  ASSUME SlotsShape, BlocksHaveOneOwner, NEW s \in Used,
         NEW d \in {"recent", "old"}, Marks(s, d), UNCHANGED <<heap, buf>>
  PROVE  BlocksHaveOneOwner'
  <1>1. /\ s \in Slots /\ SameSlots(Slots \ {s})
        /\ objmeta'[s].oid = objmeta[s].oid
        /\ objmeta'[s].kind = objmeta[s].kind
        /\ objmeta'[s].buffer = objmeta[s].buffer
    BY MarkEffect DEF Marks, Used
  <1>2. Used' = Used
    BY <1>1 DEF Used, FreeSlots, SameSlots
  <1>3. \A t \in Used : /\ objmeta'[t].buffer = objmeta[t].buffer
                        /\ objmeta'[t].kind.data <=> objmeta[t].kind.data
    BY <1>1 DEF SameSlots, Used
  <1> QED BY <1>2, <1>3, SameBlocksOwners DEF SameBufs

LEMMA OwnersNext ==
  ASSUME SlotsShape, CallsShape, Phases, BlocksHaveOneOwner, [Next]_vars
  PROVE  BlocksHaveOneOwner'
  <1>1. ASSUME NEW p \in Procs, UNCHANGED <<objmeta, heap>>,
               UNCHANGED buf \/ (Return(p) /\ buf[p] = NoBlock)
        PROVE  BlocksHaveOneOwner'
    <2>1. SameBufs(Procs \ {p}) /\ buf'[p] \in {buf[p], NoBlock}
      BY <1>1, ReturnEffect DEF SameBufs
    <2> QED BY <1>1, <2>1, ForgetOwners
  <1>2. ASSUME NEW p \in Procs, Insert(p) PROVE BlocksHaveOneOwner'
    BY <1>2, InsertOwners
  <1>3. ASSUME NEW p \in Procs, Delete(p) PROVE BlocksHaveOneOwner'
    <2>1. CASE DeleteMark(p)
      <3>1. PICK s \in Deletable(p) :
              IF AtOnce(p, s) THEN PurgeSlot(s)
              ELSE /\ objmeta' = [objmeta EXCEPT ![s].deleted = "recent"]
                   /\ UNCHANGED <<objmeta_free, heap>>
        BY <2>1 DEF DeleteMark
      <3>2. s \in Used /\ UNCHANGED <<objmeta_oid_next, buf>>
        BY <2>1 DEF Deletable, FindMeta, DeleteMark
      <3>3. CASE PurgeSlot(s)
        BY <3>2, <3>3, PurgeOwners
      <3>4. CASE ~AtOnce(p, s)
        BY <3>1, <3>2, <3>4, MarkOwners DEF Marks
      <3> QED BY <3>1, <3>3, <3>4
    <2>2. CASE DeleteCall(p) \/ DeleteFails(p) \/ ReadChild(p)
      <3>1. UNCHANGED <<objmeta, heap, buf>>
        BY <2>2 DEF DeleteCall, DeleteFails, ReadChild
      <3> QED BY <1>1, <3>1
    <2>3. CASE DeleteReturn(p)
      <3>1. UNCHANGED <<objmeta, heap>> /\ Return(p) /\ buf[p] = NoBlock
        BY <2>3 DEF DeleteReturn, Phases
      <3> QED BY <1>1, <3>1
    <2> QED BY <1>3, <2>1, <2>2, <2>3 DEF Delete
  <1>4. ASSUME NEW p \in Procs, Purge(p) PROVE BlocksHaveOneOwner'
    <2>1. CASE PurgeNext(p)
      <3>1. \E s \in Used : PurgeSlot(s)
        BY <2>1 DEF PurgeNext, MayPurge, MustPurge, DueSlots
      <3>2. UNCHANGED <<objmeta_oid_next, buf>>
        BY <2>1 DEF PurgeNext
      <3> QED BY <3>1, <3>2, PurgeOwners
    <2>2. CASE PurgeCall(p)
      <3>1. UNCHANGED <<objmeta, heap, buf>>
        BY <2>2 DEF PurgeCall
      <3> QED BY <1>1, <3>1
    <2>3. CASE PurgeReturn(p)
      <3>1. UNCHANGED <<objmeta, heap>> /\ Return(p) /\ buf[p] = NoBlock
        BY <2>3 DEF PurgeReturn, Phases
      <3> QED BY <1>1, <3>1
    <2> QED BY <1>4, <2>1, <2>2, <2>3 DEF Purge
  <1>5. ASSUME NEW p \in Procs, Die(p) PROVE BlocksHaveOneOwner'
    <2>1. UNCHANGED <<objmeta, heap, buf>>
      BY <1>5 DEF Die
    <2> QED BY <1>1, <2>1
  <1>6. ASSUME NEW s \in Slots, Age(s) PROVE BlocksHaveOneOwner'
    <2>1. s \in Used /\ Marks(s, "old") /\ UNCHANGED <<heap, buf>>
      BY <1>6 DEF Age, Marks, regs
    <2> QED BY <2>1, MarkOwners
  <1>7. CASE UNCHANGED vars
    <2>1. UNCHANGED <<objmeta, heap, buf>> /\ Manager \in Procs
      BY <1>7, ObjMetaAssumption DEF vars, regs
    <2> QED BY <1>1, <2>1
  <1> QED BY <1>2, <1>3, <1>4, <1>5, <1>6, <1>7 DEF Next

-----------------------------------------------------------------------------
(* The inductive invariant and what follows from it. *)

LEMMA InitIInv ==
  ASSUME Init
  PROVE  IInv
  <1>1. /\ Free \in Entry /\ Free.oid = 0
        /\ NoCall \in Call
    BY DEF Free, Entry, Buffers, NoCall, Call
  <1>2. SlotsShape
    BY <1>1 DEF Init, SlotsShape
  <1>3. CallsShape /\ Phases
    BY <1>1 DEF Init, CallsShape, Phases, Places, Buffers
  <1>4. Used = {}
    BY <1>1 DEF Init, Used, FreeSlots
  <1>5. BlocksHaveOneOwner /\ UniqueIsUnique
    BY <1>4 DEF Init, BlocksHaveOneOwner, UniqueIsUnique, Live
  <1> QED BY <1>2, <1>3, <1>5 DEF IInv

LEMMA NextIInv ==
  ASSUME IInv, [Next]_vars
  PROVE  IInv'
  <1>1. SlotStep
    BY NextIsSlotStep DEF IInv
  <1>2. SlotsShape' /\ UniqueIsUnique'
    BY <1>1, SlotsShapeNext, UniqueNext DEF IInv
  <1>3. CallsShape' /\ Phases'
    BY PhasesNext DEF IInv
  <1>4. BlocksHaveOneOwner'
    BY OwnersNext DEF IInv
  <1> QED BY <1>2, <1>3, <1>4 DEF IInv

\* The strengthened invariant holds always.
THEOREM Inductive == Spec => []IInv
  <1>1. Init => IInv
    BY InitIInv
  <1>2. IInv /\ [Next]_vars => IInv'
    BY NextIInv
  <1> QED BY <1>1, <1>2, PTL DEF Spec

\* No two live objects have one name if one of them is unique, although insert
\* checks for it in another section than the one it began in.
THEOREM UniqueAlways == Spec => []UniqueIsUnique
  <1>1. IInv => UniqueIsUnique
    BY DEF IInv
  <1> QED BY <1>1, Inductive, PTL

\* No block of the heap has two owners or is freed while it has one, whatever
\* inserts, deletions, purges and deaths interleave.
THEOREM OwnersAlways == Spec => []BlocksHaveOneOwner
  <1>1. IInv => BlocksHaveOneOwner
    BY DEF IInv
  <1> QED BY <1>1, Inductive, PTL

-----------------------------------------------------------------------------
(* The list of the children: every live child once, in the order of slots. *)

\* The elements of a finite set of integers are numbered by how many of them
\* are not greater.
LEMMA NthIsRanked ==
  ASSUME NEW S \in SUBSET Int, IsFiniteSet(S)
  PROVE  /\ Cardinality(S) \in Nat
         /\ \A s \in S : \E i \in 1 .. Cardinality(S) : Nth(S, i) = s
         /\ \A i \in 1 .. Cardinality(S) : Nth(S, i) \in S
  <1> DEFINE n == Cardinality(S)
             rank == [s \in S |-> Cardinality(UpTo(S, s))]
  <1>1. n \in Nat
    BY FS_CardinalityType
  <1>2. ASSUME NEW s \in S
        PROVE  /\ IsFiniteSet(UpTo(S, s)) /\ s \in UpTo(S, s)
               /\ UpTo(S, s) \in SUBSET S
               /\ Cardinality(UpTo(S, s)) \in 1 .. n
    <2>1. UpTo(S, s) \in SUBSET S /\ s \in UpTo(S, s)
      BY DEF UpTo
    <2>2. /\ IsFiniteSet(UpTo(S, s))
          /\ Cardinality(UpTo(S, s)) <= n
          /\ Cardinality(UpTo(S, s)) \in Nat
      BY <2>1, FS_Subset, FS_CardinalityType
    <2>3. Cardinality(UpTo(S, s)) # 0
      BY <2>1, <2>2, FS_EmptySet
    <2> QED BY <1>1, <2>1, <2>2, <2>3
  <1>3. ASSUME NEW s \in S, NEW t \in S, s < t
        PROVE  Cardinality(UpTo(S, s)) < Cardinality(UpTo(S, t))
    <2>1. UpTo(S, s) \in SUBSET UpTo(S, t) /\ t \notin UpTo(S, s)
      <3>1. s \in Int /\ t \in Int /\ ~(t <= s)
        BY <1>3
      <3>2. ASSUME NEW x \in S, x <= s PROVE x <= t
        BY <1>3, <3>1, <3>2
      <3> QED BY <3>1, <3>2 DEF UpTo
    <2>2. /\ Cardinality(UpTo(S, s)) <= Cardinality(UpTo(S, t))
          /\ Cardinality(UpTo(S, s)) # Cardinality(UpTo(S, t))
      BY <1>2, <2>1, FS_Subset
    <2> QED BY <1>1, <1>2, <2>2
  <1>4. \A s, t \in S : rank[s] = rank[t] => s = t
    BY <1>1, <1>2, <1>3
  <1>5. rank \in Injection(S, 1 .. n)
    BY <1>2, <1>4 DEF Injection, IsInjective
  <1>6. IsFiniteSet(1 .. n) /\ Cardinality(1 .. n) = n
    BY <1>1, FS_Interval
  <1>7. rank \in Surjection(S, 1 .. n)
    BY <1>5, <1>6, FS_Injection
  <1>8. \A s \in S : Nth(S, rank[s]) = s
    BY <1>4 DEF Nth
  <1>9. \A i \in 1 .. n : \E s \in S : rank[s] = i
    BY <1>7 DEF Surjection
  <1> QED BY <1>1, <1>2, <1>8, <1>9

LEMMA ChildSlotsAreFinite ==
  ASSUME NEW oid
  PROVE  IsFiniteSet(ChildSlots(oid)) /\ ChildSlots(oid) \in SUBSET Int
  <1>1. ObjMax - 1 \in Int
    BY ObjMetaAssumption
  <1>2. IsFiniteSet(Slots) /\ Slots \in SUBSET Int
    BY <1>1, FS_Interval DEF Slots
  <1>3. ChildSlots(oid) \in SUBSET Slots
    BY DEF ChildSlots, Live, Used
  <1> QED BY <1>2, <1>3, FS_Subset

LEMMA ChildrenAreListed ==
  ASSUME NEW oid, NEW O, \A s \in Live : objmeta[s].oid \in O
  PROVE  /\ Children(oid) \in Seq(O)
         /\ \A s \in ChildSlots(oid) : objmeta[s].oid \in Range(Children(oid))
  <1> DEFINE S == ChildSlots(oid)
  <1>1. /\ Cardinality(S) \in Nat
        /\ \A s \in S : \E i \in 1 .. Cardinality(S) : Nth(S, i) = s
        /\ \A i \in 1 .. Cardinality(S) : Nth(S, i) \in S
    BY ChildSlotsAreFinite, NthIsRanked
  <1>2. \A s \in S : objmeta[s].oid \in O
    BY DEF ChildSlots
  <1>3. Children(oid) = [i \in 1 .. Cardinality(S) |-> objmeta[Nth(S, i)].oid]
    BY DEF Children
  <1>4. DOMAIN Children(oid) = 1 .. Cardinality(S)
    BY <1>3
  <1>5. \A i \in 1 .. Cardinality(S) : Children(oid)[i] = objmeta[Nth(S, i)].oid
    BY <1>3
  <1> HIDE DEF S
  <1>6. Children(oid) \in [1 .. Cardinality(S) -> O]
    BY <1>1, <1>2, <1>3
  <1>7. Children(oid) \in Seq(O)
    BY <1>1, <1>6
  <1>8. \A s \in S : objmeta[s].oid \in Range(Children(oid))
    BY <1>1, <1>4, <1>5 DEF Range
  <1> QED BY <1>7, <1>8 DEF S

-----------------------------------------------------------------------------
(* Types. *)

SlotsTyped == objmeta \in [Slots -> SlotType]

\* The local variables of the calls, when O are the ids given away.
RegsTyped(O) ==
  /\ want \in [Procs -> {NoCall} \cup [kind : Kinds, parent : O]]
  /\ due \in [Procs -> SUBSET O]
  /\ target \in [Procs -> O]
  /\ imm \in [Procs -> BOOLEAN]
  /\ todo \in [Procs -> Seq(O)]
  /\ scan \in [Procs -> 0 .. ObjMax]

ObjectType ==
  [oid : Oids \ {0}, kind : Kinds, parent : Oids, proc : Procs,
   deleted : {"no", "recent", "old"}, buffer : Buffers]

LEMMA UsedTyped ==
  ASSUME SlotsTyped, NEW s \in Used
  PROVE  s \in Slots /\ objmeta[s] \in ObjectType /\ objmeta[s].oid # 0
  <1>1. s \in Slots /\ objmeta[s].oid # 0
    BY DEF Used, FreeSlots
  <1>2. objmeta[s] \in SlotType
    BY <1>1 DEF SlotsTyped
  <1> QED BY <1>1, <1>2 DEF SlotType, ObjectType, Buffers

LEMMA OidsGrow ==
  ASSUME SlotsShape, CallsShape, SlotStep
  PROVE  /\ objmeta_oid_next' \in {objmeta_oid_next, objmeta_oid_next + 1}
         /\ Oids \subseteq Oids'
  <1>1. objmeta_oid_next' \in {objmeta_oid_next, objmeta_oid_next + 1}
    BY SlotStepCases DEF Stores, Store, Marks, Purges
  <1>2. objmeta_oid_next \in Nat /\ objmeta_oid_next' \in Nat
        /\ objmeta_oid_next <= objmeta_oid_next'
    BY <1>1 DEF SlotsShape
  <1>3. \A n, m \in Nat : n <= m => 0 .. n - 1 \subseteq 0 .. m - 1
    OBVIOUS
  <1> QED BY <1>1, <1>2, <1>3 DEF Oids

LEMMA SlotsTypedNext ==
  ASSUME SlotsShape, CallsShape, SlotStep, SlotsTyped, RegsTyped(Oids)
  PROVE  SlotsTyped'
  <1> DEFINE n == objmeta_oid_next
  <1>1. n \in Nat \ {0} /\ n' \in {n, n + 1} /\ Oids \subseteq Oids'
    BY OidsGrow DEF SlotsShape
  <1>2. \A t \in Slots : objmeta[t] \in SlotType'
    BY <1>1 DEF SlotsTyped, SlotType
  <1>3. ASSUME NEW s \in Slots, SlotsShape', SameSlots(Slots \ {s}),
               objmeta'[s] \in SlotType'
        PROVE  SlotsTyped'
    <2>1. \A t \in Slots : objmeta'[t] \in SlotType'
      BY <1>2, <1>3 DEF SameSlots
    <2>2. Slots' = Slots /\ objmeta' \in [Slots -> Entry]
      BY <1>3 DEF SlotsShape, Slots, Entry, Buffers
    <2> QED BY <2>1, <2>2 DEF SlotsTyped
  <1>4. CASE UNCHANGED <<objmeta, objmeta_oid_next>>
    BY <1>4 DEF SlotsTyped, SlotType, Oids
  <1>5. ASSUME NEW p \in Procs, NEW s \in Slots \ Live, NEW b \in Buffers,
               Stores(p, s, b)
        PROVE  SlotsTyped'
    <2>1. /\ SlotsShape' /\ SameSlots(Slots \ {s})
          /\ objmeta'[s] = NewObject(p, b) /\ n' = n + 1
      BY <1>5, StoreRecord DEF Stores
    <2>2. want[p].kind \in Kinds
      BY <1>5 DEF Stores
    <2>3. want[p].parent \in Oids
      <3>1. CASE want[p] = NoCall
        BY <1>1, <3>1 DEF NoCall, Oids
      <3>2. CASE want[p] \in [kind : Kinds, parent : Oids]
        BY <3>2
      <3> QED BY <3>1, <3>2 DEF RegsTyped
    <2>4. NewParent(p) \in Oids' /\ n \in Oids' \ {0}
      BY <1>1, <2>1, <2>3 DEF NewParent, Oids
    <2>5. NewObject(p, b) \in ObjectType'
      BY <2>2, <2>4 DEF ObjectType, NewObject
    <2>6. ObjectType' \subseteq SlotType'
      BY DEF ObjectType, SlotType, Buffers
    <2> QED BY <1>3, <2>1, <2>5, <2>6
  <1>6. ASSUME NEW s \in Used, NEW d \in {"recent", "old"}, Marks(s, d)
        PROVE  SlotsTyped'
    <2> DEFINE new == [objmeta[s] EXCEPT !.deleted = d]
    <2>1. s \in Slots /\ SlotsShape' /\ SameSlots(Slots \ {s})
      BY <1>6, MarkEffect DEF Marks, Used
    <2>2. objmeta[s] \in ObjectType /\ Oids' = Oids
      BY <1>6, UsedTyped DEF Marks, Oids
    <2>3. new \in ObjectType'
      BY <2>2 DEF ObjectType
    <2>4. objmeta' = [objmeta EXCEPT ![s] = new]
      BY <1>6 DEF Marks
    <2>5. ObjectType' \subseteq SlotType'
      BY DEF ObjectType, SlotType, Buffers
    <2> HIDE DEF new
    <2>6. objmeta'[s] = new
      BY <2>1, <2>4 DEF SlotsTyped
    <2> QED BY <1>3, <2>1, <2>3, <2>5, <2>6
  <1>7. ASSUME NEW s \in Used, Purges(s) PROVE SlotsTyped'
    <2>1. /\ s \in Slots /\ SlotsShape' /\ SameSlots(Slots \ {s})
          /\ objmeta'[s] = Free
      BY <1>7, PurgeEffect DEF Purges, Used
    <2>2. Free \in SlotType'
      BY DEF Free, SlotType
    <2> QED BY <1>3, <2>1, <2>2
  <1> QED BY <1>4, <1>5, <1>6, <1>7, SlotStepCases

\* The ids a call keeps are ids given away when it took them.
LEMMA RegsTypedNext ==
  ASSUME NEW O, Oids \subseteq O, SlotsShape, SlotsTyped, RegsTyped(O), [Next]_vars
  PROVE  RegsTyped(O)'
  <1>1. /\ 0 \in O /\ {} \in SUBSET O /\ Old \in SUBSET O
        /\ \A s \in Used : objmeta[s].oid \in O
    <2>1. \A s \in Used : objmeta[s].oid \in O
      BY UsedTyped DEF ObjectType
    <2> QED BY <2>1 DEF SlotsShape, Oids, Old
  <1>2. \A o : Children(o) \in Seq(O)
    BY <1>1, ChildrenAreListed DEF Live
  <1>3. ASSUME NEW p \in Procs, Forgotten(p) PROVE RegsTyped(O)'
    <2>1. <<>> \in Seq(O) /\ 0 \in 0 .. ObjMax
      BY ObjMetaAssumption
    <2> QED BY <1>1, <1>3, <2>1 DEF RegsTyped, Forgotten
  <1>4. ASSUME UNCHANGED <<want, due, target, imm, todo, scan>> PROVE RegsTyped(O)'
    BY <1>4 DEF RegsTyped
  <1>5. ASSUME NEW p \in Procs, Insert(p) PROVE RegsTyped(O)'
    <2>1. CASE InsertCall(p)
      <3>1. PICK k \in Kinds, parent \in {0} \cup 2 .. objmeta_oid_next - 1 :
              want' = [want EXCEPT ![p] = [kind |-> k, parent |-> parent]]
        BY <2>1 DEF InsertCall
      <3> DEFINE new == [kind |-> k, parent |-> parent]
      <3>2. parent \in O
        BY <1>1 DEF Oids, SlotsShape
      <3>3. new \in [kind : Kinds, parent : O]
        BY <3>2
      <3>4. want' = [want EXCEPT ![p] = new]
        BY <3>1
      <3> HIDE DEF new
      <3> QED BY <1>1, <2>1, <3>3, <3>4 DEF InsertCall, RegsTyped
    <2>2. CASE InsertAlloc(p) \/ InsertNeedsBlock(p)
      BY <1>4, <2>2 DEF InsertAlloc, InsertNeedsBlock, regs
    <2>3. CASE Return(p) \/ UNCHANGED regs
      BY <1>3, <1>4, <2>3 DEF Return, regs
    <2>4. CASE \/ InsertKept(p) \/ InsertNoMemory(p) \/ InsertRetry(p)
               \/ InsertClaim(p) \/ InsertNoSlot(p) \/ InsertFree(p)
      <3>1. Return(p) \/ UNCHANGED regs
        BY <2>4 DEF InsertKept, InsertNoMemory, InsertRetry, InsertClaim,
                    InsertNoSlot, InsertFree, Store, Refuse, RefuseRetry, GiveUp
      <3> QED BY <2>3, <3>1
    <2> QED BY <1>5, <2>1, <2>2, <2>4 DEF Insert
  <1>6. ASSUME NEW p \in Procs, Delete(p) PROVE RegsTyped(O)'
    <2>1. CASE DeleteCall(p)
      BY <2>1 DEF DeleteCall, RegsTyped, Oids
    <2>2. CASE DeleteFails(p)
      BY <1>1, <2>2 DEF DeleteFails, RegsTyped
    <2>3. CASE DeleteMark(p)
      <3>1. Children(target[p]) \o todo[p] \in Seq(O)
        BY <1>2 DEF RegsTyped
      <3> QED BY <1>1, <2>3, <3>1 DEF DeleteMark, RegsTyped
    <2>4. CASE ReadChild(p)
      <3>1. Head(todo[p]) \in O /\ Tail(todo[p]) \in Seq(O)
        BY <2>4 DEF ReadChild, RegsTyped
      <3> QED BY <2>4, <3>1 DEF ReadChild, RegsTyped
    <2>5. CASE DeleteReturn(p)
      BY <1>3, <2>5 DEF DeleteReturn, Return
    <2> QED BY <1>6, <2>1, <2>2, <2>3, <2>4, <2>5 DEF Delete
  <1>7. ASSUME NEW p \in Procs, Purge(p) PROVE RegsTyped(O)'
    <2>1. CASE PurgeCall(p)
      BY <1>1, <2>1 DEF PurgeCall, RegsTyped
    <2>2. CASE PurgeNext(p)
      <3>1. \A s \in MayPurge(p) : s + 1 \in 0 .. ObjMax
        BY ObjMetaAssumption DEF MayPurge, MustPurge, DueSlots, Used, Slots
      <3> QED BY <2>2, <3>1 DEF PurgeNext, RegsTyped
    <2>3. CASE PurgeReturn(p)
      BY <1>3, <2>3 DEF PurgeReturn, Return
    <2> QED BY <1>7, <2>1, <2>2, <2>3 DEF Purge
  <1>8. ASSUME NEW p \in Procs, Die(p) PROVE RegsTyped(O)'
    BY <1>3, <1>8 DEF Die
  <1>9. CASE (\E s \in Slots : Age(s)) \/ UNCHANGED vars
    BY <1>4, <1>9 DEF Age, vars, regs
  <1> QED BY <1>5, <1>6, <1>7, <1>8, <1>9 DEF Next

LEMMA RegsTypedGrow ==
  ASSUME NEW O, NEW O2, O \subseteq O2, RegsTyped(O)'
  PROVE  RegsTyped(O2)'
  <1>1. todo' \in [Procs -> Seq(O2)]
    <2>1. \A q \in Seq(O) : q \in Seq(O2)
      OBVIOUS
    <2> QED BY <2>1 DEF RegsTyped
  <1>2. [kind : Kinds, parent : O] \subseteq [kind : Kinds, parent : O2]
    OBVIOUS
  <1> QED BY <1>1, <1>2 DEF RegsTyped

-----------------------------------------------------------------------------
(* The life of an object, from the insert to the purge. *)

\* An id is in one slot only.
OidsAreUnique ==
  \A s, t \in Used : objmeta[s].oid = objmeta[t].oid => s = t

\* An object that is to vanish at once is never seen deleted.
MarkedMayWait == \A s \in Used \ Live : ~objmeta[s].kind.immediately_delete

\* What was old when a call began is old now.
DueIsOld ==
  \A p \in Procs, s \in Used :
    objmeta[s].oid \in due[p] => objmeta[s].deleted = "old"

\* Only objects of dead processes are deleted at once without their asking.
ImmIsOfDead ==
  \A p \in Procs :
    imm[p] => \A s \in FindMeta(target[p]) : pc[objmeta[s].proc] = "dead"

\* A call that does not delete has nothing to delete.
CallsForget ==
  \A p \in Procs :
    /\ pc[p] # "delete" => target[p] = 0 /\ ~imm[p]
    /\ pc[p] \notin {"delete", "children"} => todo[p] = <<>>

\* A doomed child that lives may be deleted by who deleted its parent.
DoomedDepend ==
  \A d \in doomed : \A s \in FindMeta(d[1]) \cap Live :
    objmeta[s].kind.parent_delete /\ MayDelete(d[2], s)

Stays(s) ==
  /\ s \in Used /\ s \in Used'
  /\ objmeta'[s].oid = objmeta[s].oid /\ objmeta'[s].kind = objmeta[s].kind
  /\ objmeta'[s].proc = objmeta[s].proc /\ objmeta'[s].parent = objmeta[s].parent
  /\ \/ objmeta'[s].deleted = objmeta[s].deleted
     \/ /\ objmeta[s].deleted = "no" /\ objmeta'[s].deleted = "recent"
        /\ ~objmeta[s].kind.immediately_delete
     \/ objmeta[s].deleted = "recent" /\ objmeta'[s].deleted = "old"

Born(s) ==
  /\ s \in Used'
  /\ objmeta'[s].oid = objmeta_oid_next /\ objmeta'[s].deleted = "no"
  /\ objmeta_oid_next' = objmeta_oid_next + 1

Leaves(s) == (\E p \in Procs : s \in KeptSlots(p)) \/ MayGo(s)

\* An object stays what it is, gets older or leaves; one may be born.
LEMMA Fates ==
  ASSUME SlotsShape, CallsShape, SlotStep
  PROVE  /\ \A s \in Used' : Stays(s) \/ Born(s)
         /\ \A s, t \in Used' : Born(s) /\ Born(t) /\ ~Stays(s) /\ ~Stays(t) => s = t
         /\ \A s \in Used : Stays(s) \/ Leaves(s)
  <1>1. ASSUME NEW S \in SUBSET Slots, SameSlots(S)
        PROVE  \A t \in S : (t \in Used <=> t \in Used') /\ (t \in Used => Stays(t))
    BY <1>1 DEF SameSlots, Used, FreeSlots, Stays
  <1>2. CASE KeepsSlots
    <2>1. SameSlots(Slots)
      BY <1>2 DEF KeepsSlots, SameSlots
    <2>2. Used \subseteq Slots /\ Used' \subseteq Slots
      BY DEF Used, Slots
    <2> QED BY <1>1, <2>1, <2>2
  <1>3. Used \subseteq Slots /\ Used' \subseteq Slots
    BY DEF Used, Slots
  <1>4. ASSUME NEW p \in Procs, NEW s \in Slots, Fills(p, s) \/ Reuses(p, s)
        PROVE  SameSlots(Slots \ {s}) /\ Born(s) /\ (s \in Used => Leaves(s))
    <2>1. PICK b \in Buffers : Stores(p, s, b)
      BY <1>4, StoresWhere
    <2>0. /\ SameSlots(Slots \ {s}) /\ objmeta'[s] = NewObject(p, b)
          /\ objmeta_oid_next' = objmeta_oid_next + 1
      BY <2>1, StoreRecord DEF Stores
    <2>2. /\ SameSlots(Slots \ {s})
          /\ objmeta'[s].oid # 0 /\ objmeta'[s].deleted = "no"
          /\ objmeta'[s].oid = objmeta_oid_next
          /\ objmeta_oid_next' = objmeta_oid_next + 1
      BY <2>0 DEF NewObject, SlotsShape
    <2>3. s \in Used'
      BY <2>2 DEF Used, FreeSlots, Slots
    <2>4. s \in Used => s \in KeptSlots(p)
      BY <1>4 DEF Fills, Reuses, Used
    <2> QED BY <2>2, <2>3, <2>4 DEF Born, Leaves
  <1>5. ASSUME NEW s \in Used, NEW d \in {"recent", "old"}, Marks(s, d),
               \/ /\ objmeta[s].deleted = "no" /\ d = "recent"
                  /\ ~objmeta[s].kind.immediately_delete
               \/ objmeta[s].deleted = "recent" /\ d = "old"
        PROVE  SameSlots(Slots \ {s}) /\ Stays(s)
    <2>1. /\ SameSlots(Slots \ {s})
          /\ objmeta'[s].deleted = d
          /\ objmeta'[s].oid = objmeta[s].oid /\ objmeta'[s].kind = objmeta[s].kind
          /\ objmeta'[s].proc = objmeta[s].proc
          /\ objmeta'[s].parent = objmeta[s].parent
      BY <1>3, <1>5, MarkEffect DEF Marks
    <2>2. s \in Used'
      BY <2>1 DEF Used, FreeSlots, Slots
    <2> QED BY <1>5, <2>1, <2>2 DEF Stays
  <1>6. ASSUME NEW s \in Used, MayGo(s), Purges(s)
        PROVE  SameSlots(Slots \ {s}) /\ s \notin Used' /\ Leaves(s)
    <2>1. SameSlots(Slots \ {s}) /\ objmeta'[s].oid = 0
      BY <1>3, <1>6, PurgeEffect DEF Purges
    <2> QED BY <1>6, <2>1 DEF Used, FreeSlots, Leaves
  <1>7. ASSUME NEW s \in Slots, SameSlots(Slots \ {s}),
               s \in Used' => Stays(s) \/ Born(s), s \in Used => Stays(s) \/ Leaves(s)
        PROVE  /\ \A t \in Used' : Stays(t) \/ Born(t)
               /\ \A t, u \in Used' : Born(t) /\ Born(u) /\ ~Stays(t) /\ ~Stays(u) => t = u
               /\ \A t \in Used : Stays(t) \/ Leaves(t)
    <2>1. \A t \in Slots \ {s} :
            (t \in Used <=> t \in Used') /\ (t \in Used => Stays(t))
      BY <1>1, <1>7
    <2> QED BY <1>3, <1>7, <2>1
  <1>8. ASSUME NEW s \in Live, ~objmeta[s].kind.immediately_delete, Marks(s, "recent")
        PROVE  s \in Used /\ SameSlots(Slots \ {s}) /\ Stays(s)
    <2>1. s \in Used /\ objmeta[s].deleted = "no"
      BY DEF Live
    <2> QED BY <1>5, <1>8, <2>1
  <1>9. ASSUME NEW s \in Used, objmeta[s].deleted = "recent", Marks(s, "old")
        PROVE  SameSlots(Slots \ {s}) /\ Stays(s)
    BY <1>5, <1>9
  <1>10. \/ KeepsSlots
         \/ \E s \in Slots : /\ SameSlots(Slots \ {s})
                             /\ s \in Used' => Stays(s) \/ Born(s)
                             /\ s \in Used => Stays(s) \/ Leaves(s)
    BY <1>3, <1>4, <1>6, <1>8, <1>9 DEF SlotStep
  <1> QED BY <1>2, <1>7, <1>10

\* Steps that leave the local variables of all calls as they are, but for what a
\* call that is over forgets, and for metadata and block of an insert.
MayForget(p) ==
  Die(p) \/ pc[p] \notin {"delete", "children"} \/ (pc[p] = "children" /\ todo[p] = <<>>)

Forgets ==
  \/ UNCHANGED <<due, target, imm, todo>>
  \/ \E p \in Procs : MayForget(p) /\ Forgotten(p)

\* All other steps.
LEMMA CallSteps ==
  ASSUME [Next]_vars
  PROVE  \/ Forgets
         \/ \E p \in Procs : \/ InsertCall(p) \/ PurgeCall(p) \/ DeleteCall(p)
                             \/ DeleteFails(p) \/ DeleteMark(p) \/ ReadChild(p)
  <1> USE DEF Forgets, MayForget
  <1>1. ASSUME NEW p \in Procs, Insert(p) PROVE Forgets \/ InsertCall(p)
    <2>1. CASE \/ InsertKept(p) \/ InsertNoMemory(p) \/ InsertRetry(p)
               \/ InsertClaim(p) \/ InsertNoSlot(p) \/ InsertFree(p)
      <3>1. Return(p) \/ UNCHANGED regs
        BY <2>1 DEF InsertKept, InsertNoMemory, InsertRetry, InsertClaim,
                    InsertNoSlot, InsertFree, Store, Refuse, RefuseRetry, GiveUp
      <3>2. pc[p] \notin {"delete", "children"}
        BY <2>1 DEF InsertKept, InsertNoMemory, InsertRetry, InsertClaim,
                    InsertNoSlot, InsertFree, Claiming
      <3> QED BY <3>1, <3>2 DEF Return, regs
    <2>2. CASE InsertAlloc(p) \/ InsertNeedsBlock(p)
      BY <2>2 DEF InsertAlloc, InsertNeedsBlock, regs
    <2> QED BY <1>1, <2>1, <2>2 DEF Insert
  <1>2. ASSUME NEW p \in Procs, DeleteReturn(p) \/ PurgeReturn(p) \/ Die(p)
        PROVE  Forgets
    BY <1>2 DEF DeleteReturn, PurgeReturn, Return, Die
  <1>3. ASSUME NEW p \in Procs, PurgeNext(p) PROVE Forgets
    BY <1>3 DEF PurgeNext
  <1>4. CASE (\E s \in Slots : Age(s)) \/ UNCHANGED vars
    BY <1>4 DEF Age, vars, regs
  <1> QED BY <1>1, <1>2, <1>3, <1>4 DEF Next, Delete, Purge

LEMMA DueStep ==
  ASSUME RegsTyped(Oids), [Next]_vars, NEW q \in Procs
  PROVE  due'[q] \subseteq due[q] \/ (due'[q] = Old /\ UNCHANGED objmeta)
  <1>1. CASE Forgets
    BY <1>1 DEF Forgets, Forgotten, RegsTyped
  <1>2. ASSUME NEW p \in Procs, InsertCall(p) \/ PurgeCall(p)
        PROVE  due'[q] = due[q] \/ (due'[q] = Old /\ UNCHANGED objmeta)
    BY <1>2 DEF InsertCall, PurgeCall, RegsTyped
  <1>3. ASSUME NEW p \in Procs,
               DeleteCall(p) \/ DeleteFails(p) \/ DeleteMark(p) \/ ReadChild(p)
        PROVE  due'[q] = due[q]
    BY <1>3 DEF DeleteCall, DeleteFails, DeleteMark, ReadChild
  <1> QED BY <1>1, <1>2, <1>3, CallSteps

LEMMA ImmStep ==
  ASSUME RegsTyped(Oids), CallsForget, [Next]_vars, NEW q \in Procs, imm'[q]
  PROVE  \/ imm[q] /\ target'[q] = target[q]
         \/ /\ UNCHANGED objmeta
            /\ \E s \in FindMeta(target'[q]) : pc[objmeta[s].proc] = "dead"
  <1>1. CASE Forgets
    BY <1>1 DEF Forgets, Forgotten, RegsTyped
  <1>2. ASSUME NEW p \in Procs, InsertCall(p) \/ PurgeCall(p)
        PROVE  imm[q] /\ target'[q] = target[q]
    BY <1>2 DEF InsertCall, PurgeCall
  <1>3. ASSUME NEW p \in Procs, DeleteFails(p) \/ DeleteMark(p) \/ ReadChild(p)
        PROVE  imm[q] /\ target'[q] = target[q]
    BY <1>3 DEF DeleteFails, DeleteMark, ReadChild, RegsTyped, CallsForget
  <1>4. ASSUME NEW p \in Procs, DeleteCall(p), q # p
        PROVE  imm[q] /\ target'[q] = target[q]
    BY <1>4 DEF DeleteCall, RegsTyped
  <1>5. ASSUME DeleteCall(q)
        PROVE  /\ UNCHANGED objmeta
               /\ \E s \in FindMeta(target'[q]) : pc[objmeta[s].proc] = "dead"
    <2>1. PICK o \in 1 .. objmeta_oid_next - 1, i \in BOOLEAN :
            /\ IF q = Manager
               THEN \E s \in FindMeta(o) : pc[objmeta[s].proc] = "dead"
               ELSE FindMeta(o) # {} /\ ~i
            /\ target' = [target EXCEPT ![q] = o]
            /\ imm' = [imm EXCEPT ![q] = i]
      BY <1>5 DEF DeleteCall
    <2>2. target'[q] = o /\ imm'[q] = i
      BY <2>1 DEF RegsTyped
    <2> QED BY <1>5, <2>1, <2>2 DEF DeleteCall
  <1> QED BY <1>1, <1>2, <1>3, <1>4, <1>5, CallSteps

\* Nobody comes back from the dead.
LEMMA DeadStep ==
  ASSUME CallsShape, [Next]_vars
  PROVE  Dead' = Dead \/ \E p \in Procs : Die(p) /\ Dead' = Dead \cup {p}
  <1>1. ASSUME UNCHANGED pc PROVE Dead' = Dead
    BY <1>1 DEF Dead
  <1>2. ASSUME NEW p \in Procs, NEW place \in Places \ {"dead"}, GoTo(p, place),
               pc[p] # "dead"
        PROVE  Dead' = Dead
    BY <1>2 DEF GoTo, Dead, CallsShape
  <1>3. ASSUME NEW p \in Procs, Return(p), pc[p] # "dead" PROVE Dead' = Dead
    BY <1>2, <1>3 DEF Return, Places
  <1>4. ASSUME NEW p \in Procs, Insert(p) PROVE Dead' = Dead
    <2>1. CASE InsertCall(p) \/ InsertNeedsBlock(p) \/ InsertAlloc(p)
      <3>1. pc[p] # "dead" /\ \E place \in Places \ {"dead"} : GoTo(p, place)
        BY <2>1 DEF InsertCall, InsertNeedsBlock, InsertAlloc, Places
      <3> QED BY <1>2, <3>1
    <2>2. CASE \/ InsertKept(p) \/ InsertNoMemory(p) \/ InsertRetry(p)
               \/ InsertClaim(p) \/ InsertNoSlot(p) \/ InsertFree(p)
      <3>1. pc[p] # "dead"
        BY <2>2 DEF InsertKept, InsertNoMemory, InsertRetry, InsertClaim,
                    InsertNoSlot, InsertFree, Claiming
      <3>2. Return(p) \/ \E place \in Places \ {"dead"} : GoTo(p, place)
        BY <2>2 DEF InsertKept, InsertNoMemory, InsertRetry, InsertClaim, InsertNoSlot,
                    InsertFree, Store, Refuse, RefuseRetry, GiveUp, Places
      <3> QED BY <1>2, <1>3, <3>1, <3>2
    <2> QED BY <1>4, <2>1, <2>2 DEF Insert
  <1>5. ASSUME NEW p \in Procs, Delete(p) PROVE Dead' = Dead
    <2>1. pc[p] # "dead"
      BY <1>5 DEF Delete, DeleteCall, DeleteFails, DeleteMark, ReadChild, DeleteReturn
    <2>2. Return(p) \/ UNCHANGED pc \/ \E place \in Places \ {"dead"} : GoTo(p, place)
      BY <1>5 DEF Delete, DeleteCall, DeleteFails, DeleteMark, ReadChild, DeleteReturn,
                  Places
    <2> QED BY <1>1, <1>2, <1>3, <2>1, <2>2
  <1>6. ASSUME NEW p \in Procs, Purge(p) PROVE Dead' = Dead
    <2>1. pc[p] # "dead"
      BY <1>6 DEF Purge, PurgeCall, PurgeNext, PurgeReturn
    <2>2. Return(p) \/ UNCHANGED pc \/ \E place \in Places \ {"dead"} : GoTo(p, place)
      BY <1>6 DEF Purge, PurgeCall, PurgeNext, PurgeReturn, Places
    <2> QED BY <1>1, <1>2, <1>3, <2>1, <2>2
  <1>7. ASSUME NEW p \in Procs, Die(p) PROVE Dead' = Dead \cup {p}
    BY <1>7 DEF Die, GoTo, Dead, CallsShape
  <1>8. CASE (\E s \in Slots : Age(s)) \/ UNCHANGED vars
    BY <1>1, <1>8 DEF Age, vars
  <1> QED BY <1>4, <1>5, <1>6, <1>7, <1>8 DEF Next

LEMMA CallsForgetNext ==
  ASSUME CallsShape, RegsTyped(Oids), CallsForget, [Next]_vars
  PROVE  CallsForget'
  <1>1. ASSUME NEW p \in Procs, Forgotten(p), NEW place, GoTo(p, place)
        PROVE  CallsForget'
    <2>1. /\ target'[p] = 0 /\ ~imm'[p] /\ todo'[p] = <<>>
          /\ \A q \in Procs \ {p} :
               pc'[q] = pc[q] /\ target'[q] = target[q] /\ imm'[q] = imm[q]
               /\ todo'[q] = todo[q]
      BY <1>1 DEF Forgotten, GoTo, RegsTyped, CallsShape
    <2> QED BY <2>1 DEF CallsForget
  <1>2. ASSUME NEW p \in Procs, NEW place, GoTo(p, place),
               UNCHANGED <<target, imm, todo>>, pc[p] \notin {"delete", "children"}
        PROVE  CallsForget'
    <2>1. \A q \in Procs \ {p} : pc'[q] = pc[q]
      BY <1>2 DEF GoTo, CallsShape
    <2> QED BY <1>2, <2>1 DEF CallsForget
  <1>3. ASSUME UNCHANGED <<pc, target, imm, todo>> PROVE CallsForget'
    BY <1>3 DEF CallsForget
  <1>4. ASSUME NEW p \in Procs, Insert(p) PROVE CallsForget'
    <2>1. CASE InsertCall(p) \/ InsertNeedsBlock(p) \/ InsertAlloc(p)
      <3>1. /\ pc[p] \notin {"delete", "children"} /\ \E place : GoTo(p, place)
            /\ UNCHANGED <<target, imm, todo>>
        BY <2>1 DEF InsertCall, InsertNeedsBlock, InsertAlloc, regs
      <3> QED BY <1>2, <3>1
    <2>2. CASE \/ InsertKept(p) \/ InsertNoMemory(p) \/ InsertRetry(p)
               \/ InsertClaim(p) \/ InsertNoSlot(p) \/ InsertFree(p)
      <3>1. pc[p] \notin {"delete", "children"}
        BY <2>2 DEF InsertKept, InsertNoMemory, InsertRetry, InsertClaim,
                    InsertNoSlot, InsertFree, Claiming
      <3>2. Return(p) \/ (UNCHANGED regs /\ \E place : GoTo(p, place))
        BY <2>2 DEF InsertKept, InsertNoMemory, InsertRetry, InsertClaim, InsertNoSlot,
                    InsertFree, Store, Refuse, RefuseRetry, GiveUp
      <3> QED BY <1>1, <1>2, <3>1, <3>2 DEF Return, regs
    <2> QED BY <1>4, <2>1, <2>2 DEF Insert
  <1>5. ASSUME NEW p \in Procs, Delete(p) PROVE CallsForget'
    <2>1. CASE DeleteReturn(p)
      BY <1>1, <2>1 DEF DeleteReturn, Return
    <2>2. CASE DeleteCall(p) \/ DeleteFails(p) \/ DeleteMark(p) \/ ReadChild(p)
      <3>1. /\ pc'[p] \in {"delete", "children"}
            /\ pc'[p] = "children" => target'[p] = 0 /\ ~imm'[p]
            /\ \A q \in Procs \ {p} :
                 pc'[q] = pc[q] /\ target'[q] = target[q] /\ imm'[q] = imm[q]
                 /\ todo'[q] = todo[q]
        BY <2>2 DEF DeleteCall, DeleteFails, DeleteMark, ReadChild, GoTo, RegsTyped,
                    CallsShape, CallsForget
      <3> QED BY <3>1 DEF CallsForget
    <2> QED BY <1>5, <2>1, <2>2 DEF Delete
  <1>6. ASSUME NEW p \in Procs, Purge(p) PROVE CallsForget'
    <2>1. CASE PurgeCall(p)
      BY <1>2, <2>1 DEF PurgeCall
    <2>2. CASE PurgeNext(p)
      BY <1>3, <2>2 DEF PurgeNext
    <2>3. CASE PurgeReturn(p)
      BY <1>1, <2>3 DEF PurgeReturn, Return
    <2> QED BY <1>6, <2>1, <2>2, <2>3 DEF Purge
  <1>7. ASSUME NEW p \in Procs, Die(p) PROVE CallsForget'
    BY <1>1, <1>7 DEF Die
  <1>8. CASE (\E s \in Slots : Age(s)) \/ UNCHANGED vars
    BY <1>3, <1>8 DEF Age, vars, regs
  <1> QED BY <1>4, <1>5, <1>6, <1>7, <1>8 DEF Next

-----------------------------------------------------------------------------
(* The strengthened invariant about the life of the objects. *)

LifeInv ==
  /\ IInv /\ SlotsTyped /\ RegsTyped(Oids)
  /\ OidsAreUnique /\ MarkedMayWait
  /\ CallsForget /\ DueIsOld /\ ImmIsOfDead

LEMMA InitLife ==
  ASSUME Init
  PROVE  LifeInv
  <1>1. IInv
    BY InitIInv
  <1>2. SlotsTyped
    BY DEF Init, SlotsTyped, SlotType, Free
  <1>3. RegsTyped(Oids)
    <2>1. 0 \in Oids /\ {} \in SUBSET Oids /\ <<>> \in Seq(Oids) /\ 0 \in 0 .. ObjMax
      BY ObjMetaAssumption DEF Init, Oids
    <2> QED BY <2>1 DEF Init, RegsTyped
  <1>4. Used = {}
    BY DEF Init, Used, FreeSlots, Free
  <1>5. OidsAreUnique /\ MarkedMayWait /\ DueIsOld
    BY <1>4 DEF OidsAreUnique, MarkedMayWait, DueIsOld
  <1>6. CallsForget /\ ImmIsOfDead
    BY DEF Init, CallsForget, ImmIsOfDead
  <1> QED BY <1>1, <1>2, <1>3, <1>5, <1>6 DEF LifeInv

\* The ids given away are below the next one.
LEMMA IdsAreGiven ==
  ASSUME SlotsShape, SlotsTyped, RegsTyped(Oids)
  PROVE  /\ objmeta_oid_next \notin Oids
         /\ \A s \in Used : objmeta[s].oid \in Oids \ {0}
         /\ \A p \in Procs : due[p] \subseteq Oids /\ target[p] \in Oids
  <1>1. objmeta_oid_next \notin Oids
    BY DEF SlotsShape, Oids
  <1>2. \A s \in Used : objmeta[s].oid \in Oids \ {0}
    BY UsedTyped DEF ObjectType
  <1> QED BY <1>1, <1>2 DEF RegsTyped

LEMMA LifeNext ==
  ASSUME LifeInv, [Next]_vars
  PROVE  LifeInv'
  <1>1. /\ IInv' /\ SlotsShape /\ CallsShape /\ Phases /\ SlotStep
        /\ SlotsTyped /\ RegsTyped(Oids)
        /\ OidsAreUnique /\ MarkedMayWait /\ CallsForget /\ DueIsOld /\ ImmIsOfDead
    BY NextIInv, NextIsSlotStep DEF LifeInv, IInv
  <1>2. SlotsTyped'
    BY <1>1, SlotsTypedNext
  <1>3. RegsTyped(Oids)'
    <2>1. PICK O : O = Oids
      OBVIOUS
    <2>2. PICK O2 : O2 = Oids'
      OBVIOUS
    <2>3. RegsTyped(O)
      BY <1>1, <2>1
    <2>4. RegsTyped(O)'
      BY <1>1, <2>1, <2>3, RegsTypedNext
    <2>5. O \subseteq O2
      BY <1>1, <2>1, <2>2, OidsGrow
    <2>6. RegsTyped(O2)'
      BY <2>4, <2>5, RegsTypedGrow
    <2> QED BY <2>2, <2>6 DEF RegsTyped
  <1>4. CallsForget'
    BY <1>1, CallsForgetNext
  <1>5. /\ \A s \in Used' : Stays(s) \/ Born(s)
        /\ \A s, t \in Used' : Born(s) /\ Born(t) /\ ~Stays(s) /\ ~Stays(t) => s = t
    BY <1>1, Fates
  <1>6. /\ objmeta_oid_next \notin Oids
        /\ \A s \in Used : objmeta[s].oid \in Oids \ {0}
        /\ \A p \in Procs : due[p] \subseteq Oids /\ target[p] \in Oids
    BY <1>1, IdsAreGiven
  <1>7. OidsAreUnique'
    BY <1>1, <1>5, <1>6 DEF OidsAreUnique, Stays, Born
  <1>8. MarkedMayWait'
    BY <1>1, <1>5 DEF MarkedMayWait, Stays, Born, Live
  <1>9. DueIsOld'
    <2> SUFFICES ASSUME NEW p \in Procs, NEW s \in Used', objmeta'[s].oid \in due'[p]
                 PROVE  objmeta'[s].deleted = "old"
      BY DEF DueIsOld
    <2>1. CASE due'[p] \subseteq due[p]
      <3>1. Stays(s)
        BY <1>5, <1>6, <2>1 DEF Born
      <3> QED BY <1>1, <2>1, <3>1 DEF DueIsOld, Stays
    <2>2. CASE due'[p] = Old /\ UNCHANGED objmeta
      <3>1. s \in Used
        BY <2>2 DEF Used, FreeSlots
      <3> QED BY <1>1, <2>2, <3>1 DEF Old, OidsAreUnique
    <2> QED BY <1>1, <2>1, <2>2, DueStep
  <1>10. ImmIsOfDead'
    <2> SUFFICES ASSUME NEW p \in Procs, imm'[p], NEW s \in Used',
                        objmeta'[s].oid = target'[p]
                 PROVE  pc'[objmeta'[s].proc] = "dead"
      BY DEF ImmIsOfDead, FindMeta
    <2>1. pc[objmeta'[s].proc] = "dead" /\ objmeta'[s].proc \in Procs
      <3>1. CASE imm[p] /\ target'[p] = target[p]
        <4>1. Stays(s)
          BY <1>5, <1>6, <3>1 DEF Born
        <4>2. s \in FindMeta(target[p]) /\ objmeta'[s].proc = objmeta[s].proc
          BY <3>1, <4>1 DEF Stays, FindMeta
        <4>3. objmeta[s].proc \in Procs
          BY <1>1, <4>1, UsedTyped DEF Stays, ObjectType
        <4> QED BY <1>1, <3>1, <4>2, <4>3 DEF ImmIsOfDead
      <3>2. CASE /\ UNCHANGED objmeta
                 /\ \E t \in FindMeta(target'[p]) : pc[objmeta[t].proc] = "dead"
        <4>1. s \in Used
          BY <3>2 DEF Used, FreeSlots
        <4>2. objmeta[s].proc \in Procs
          BY <1>1, <4>1, UsedTyped DEF ObjectType
        <4> QED BY <1>1, <3>2, <4>1, <4>2 DEF FindMeta, OidsAreUnique
      <3> QED BY <1>1, <3>1, <3>2, ImmStep
    <2>2. objmeta'[s].proc \in Dead'
      BY <1>1, <2>1, DeadStep DEF Dead
    <2> QED BY <2>2 DEF Dead
  <1> QED BY <1>1, <1>2, <1>3, <1>4, <1>7, <1>8, <1>9, <1>10 DEF LifeInv

\* The invariant about the lives of objects, on which the keep time, the types and
\* the refinement rest, holds always.
THEOREM LifeAlways == Spec => []LifeInv
  <1>1. Init => LifeInv
    BY InitLife
  <1>2. LifeInv /\ [Next]_vars => LifeInv'
    BY LifeNext
  <1> QED BY <1>1, <1>2, PTL DEF Spec

\* No object leaves its slot before its keep time is over, unless its process is
\* dead: the purge and the re-use of a kept slot go by what was old when their
\* call began, and that is old when they act on it.
THEOREM KeepTimeAlways == Spec => KeepTimeIsKept
  <1> DEFINE Kept ==
        \A s \in Used \ Live :
          objmeta'[s].oid # objmeta[s].oid =>
            objmeta[s].deleted = "old" \/ pc[objmeta[s].proc] = "dead"
  <1>1. LifeInv /\ [Next]_vars => Kept
    <2> SUFFICES ASSUME LifeInv, [Next]_vars, NEW s \in Used \ Live,
                        objmeta'[s].oid # objmeta[s].oid
                 PROVE  objmeta[s].deleted = "old" \/ pc[objmeta[s].proc] = "dead"
      OBVIOUS
    <2>1. SlotsShape /\ CallsShape /\ SlotStep
      BY NextIsSlotStep DEF LifeInv, IInv
    <2>2. Leaves(s)
      BY <2>1, Fates DEF Stays
    <2> QED BY <2>2 DEF Leaves, MayGo, KeptSlots, LifeInv, MarkedMayWait, DueIsOld,
                        ImmIsOfDead
  <1> QED BY <1>1, LifeAlways, PTL DEF Spec, KeepTimeIsKept

-----------------------------------------------------------------------------
(* The type invariant. *)

SharedTyped ==
  /\ objmeta_lock \in Procs \cup {Nobody}
  /\ objmeta_free \in Int
  /\ heap \subseteq Blocks
  /\ doomed \subseteq (Oids \ {0}) \X Procs

LEMMA DoomedStep ==
  ASSUME [Next]_vars
  PROVE  UNCHANGED doomed \/ \E p \in Procs : DeleteMark(p)
  BY DEF Next, vars, Age, Die,
         Insert, InsertCall, InsertKept, InsertNeedsBlock, InsertAlloc, InsertNoMemory,
         InsertRetry, InsertClaim, InsertNoSlot, InsertFree,
         Delete, DeleteCall, DeleteFails, ReadChild, DeleteReturn,
         Purge, PurgeCall, PurgeNext, PurgeReturn

LEMMA LockTypedNext ==
  ASSUME objmeta_lock \in Procs \cup {Nobody}, [Next]_vars
  PROVE  objmeta_lock' \in Procs \cup {Nobody}
  <1>1. ASSUME NEW p \in Procs, Insert(p) PROVE objmeta_lock' \in Procs \cup {Nobody}
    BY <1>1 DEF Insert, InsertCall, InsertKept, InsertNeedsBlock, InsertAlloc,
                InsertNoMemory, InsertRetry, InsertClaim, InsertNoSlot, InsertFree,
                Store, Refuse, RefuseRetry, GiveUp, Unlock
  <1>2. ASSUME NEW p \in Procs, Delete(p) \/ Purge(p) \/ Die(p)
        PROVE  objmeta_lock' \in Procs \cup {Nobody}
    BY <1>2 DEF Delete, DeleteCall, DeleteFails, DeleteMark, ReadChild, DeleteReturn,
                Purge, PurgeCall, PurgeNext, PurgeReturn, Die, Unlock
  <1>3. CASE (\E s \in Slots : Age(s)) \/ UNCHANGED vars
    BY <1>3 DEF Age, vars
  <1> QED BY <1>1, <1>2, <1>3 DEF Next

LEMMA HeapTypedNext ==
  ASSUME heap \subseteq Blocks, [Next]_vars
  PROVE  heap' \subseteq Blocks
  <1>1. ASSUME NEW p \in Procs, Insert(p) PROVE heap' \subseteq Blocks
    BY <1>1 DEF Insert, InsertCall, InsertKept, InsertNeedsBlock, InsertAlloc,
                InsertNoMemory, InsertRetry, InsertClaim, InsertNoSlot, InsertFree
  <1>2. ASSUME NEW p \in Procs, Delete(p) \/ Purge(p) \/ Die(p)
        PROVE  heap' \subseteq Blocks
    BY <1>2 DEF Delete, DeleteCall, DeleteFails, DeleteMark, ReadChild, DeleteReturn,
                Purge, PurgeCall, PurgeNext, PurgeReturn, Die, PurgeSlot
  <1>3. CASE (\E s \in Slots : Age(s)) \/ UNCHANGED vars
    BY <1>3 DEF Age, vars
  <1> QED BY <1>1, <1>2, <1>3 DEF Next

LEMMA SharedTypedNext ==
  ASSUME LifeInv, SharedTyped, [Next]_vars
  PROVE  SharedTyped'
  <1>1. SlotsShape /\ CallsShape /\ SlotStep /\ SlotsTyped
    BY NextIsSlotStep DEF LifeInv, IInv
  <1>2. objmeta_free' \in Int
    BY <1>1 DEF SharedTyped, SlotStep, KeepsSlots, Fills, Reuses, Marks, Purges, PurgeSlot
  <1>3. Oids \subseteq Oids'
    BY <1>1, OidsGrow
  <1>4. doomed' \subseteq (Oids \ {0}) \X Procs
    <2>1. ASSUME NEW p \in Procs, DeleteMark(p) PROVE doomed' \subseteq (Oids \ {0}) \X Procs
      <3>1. \A s : Dependents(p, s) \subseteq (Oids \ {0}) \X Procs
        BY <1>1, UsedTyped DEF Dependents, Live, ObjectType
      <3> QED BY <2>1, <3>1 DEF DeleteMark, SharedTyped
    <2> QED BY <2>1, DoomedStep DEF SharedTyped
  <1> QED BY <1>2, <1>3, <1>4, LockTypedNext, HeapTypedNext DEF SharedTyped

\* Every variable has its type, in every reachable state: an id in a slot or in a
\* local variable was given away, a slot in use has a kind, an owner and its block.
THEOREM TypeAlways == Spec => []TypeOK
  <1>1. Init => SharedTyped
    BY ObjMetaAssumption DEF Init, SharedTyped, Oids
  <1>2. LifeInv /\ SharedTyped /\ [Next]_vars => SharedTyped'
    BY SharedTypedNext
  <1>3. LifeInv /\ SharedTyped => TypeOK
    BY DEF LifeInv, IInv, SlotsShape, CallsShape, SlotsTyped, RegsTyped, SharedTyped,
           TypeOK, Places, Buffers
  <1> QED BY <1>1, <1>2, <1>3, LifeAlways, PTL DEF Spec

-----------------------------------------------------------------------------
(* The cascade to the children. *)

LEMMA RangeOfConcat ==
  ASSUME NEW O, NEW a \in Seq(O), NEW b \in Seq(O)
  PROVE  Range(a \o b) = Range(a) \cup Range(b)
  <1>1. Range(a \o b) \subseteq Range(a) \cup Range(b)
    BY DEF Range
  <1>2. ASSUME NEW x \in Range(a) PROVE x \in Range(a \o b)
    <2>1. PICK i \in 1 .. Len(a) : x = a[i]
      BY DEF Range
    <2>2. i \in 1 .. Len(a \o b) /\ (a \o b)[i] = x
      BY <2>1
    <2> QED BY <2>2 DEF Range
  <1>3. ASSUME NEW x \in Range(b) PROVE x \in Range(a \o b)
    <2>1. PICK i \in 1 .. Len(b) : x = b[i]
      BY DEF Range
    <2>2. Len(a) + i \in 1 .. Len(a \o b) /\ (a \o b)[Len(a) + i] = x
      BY <2>1
    <2> QED BY <2>2 DEF Range
  <1> QED BY <1>1, <1>2, <1>3

LEMMA RangeOfTail ==
  ASSUME NEW O, NEW a \in Seq(O), a # <<>>
  PROVE  Range(a) = {Head(a)} \cup Range(Tail(a))
  <1>1. Len(a) > 0 /\ Head(a) = a[1] /\ Len(Tail(a)) = Len(a) - 1
        /\ \A i \in 1 .. Len(Tail(a)) : Tail(a)[i] = a[i + 1]
    OBVIOUS
  <1>2. ASSUME NEW x \in Range(a) PROVE x \in {Head(a)} \cup Range(Tail(a))
    <2>1. PICK i \in 1 .. Len(a) : x = a[i]
      BY DEF Range
    <2>2. CASE i = 1
      BY <1>1, <2>1, <2>2
    <2>3. CASE i > 1
      <3>1. i - 1 \in 1 .. Len(Tail(a)) /\ Tail(a)[i - 1] = x
        BY <1>1, <2>1, <2>3
      <3>2. i - 1 \in DOMAIN Tail(a)
        BY <3>1
      <3> QED BY <3>1, <3>2 DEF Range
    <2> QED BY <2>1, <2>2, <2>3
  <1>3. Head(a) \in Range(a)
    BY <1>1 DEF Range
  <1>4. ASSUME NEW x \in Range(Tail(a)) PROVE x \in Range(a)
    <2>1. PICK i \in 1 .. Len(Tail(a)) : x = Tail(a)[i]
      BY DEF Range
    <2>2. i + 1 \in DOMAIN a /\ a[i + 1] = x
      BY <1>1, <2>1
    <2> QED BY <2>2 DEF Range
  <1> QED BY <1>2, <1>3, <1>4

\* The object with id o is not live.
Gone(o) == FindMeta(o) \cap Live = {}

\* The cascade in progress: what it needs beside LifeInv.
CascadeInv == SharedTyped /\ DoomedDepend /\ NoChildLeftBehind

\* What is not live now will not live again.
LEMMA GoneForEver ==
  ASSUME LifeInv, [Next]_vars, NEW o \in Oids
  PROVE  /\ \A t \in FindMeta(o)' \cap Live' : Stays(t) /\ t \in FindMeta(o) \cap Live
         /\ Gone(o) => Gone(o)'
  <1>1. SlotsShape /\ CallsShape /\ SlotStep /\ objmeta_oid_next \notin Oids
    BY NextIsSlotStep, IdsAreGiven DEF LifeInv, IInv
  <1>2. \A t \in Used' : Stays(t) \/ Born(t)
    BY <1>1, Fates
  <1>3. \A t \in FindMeta(o)' \cap Live' : Stays(t) /\ t \in FindMeta(o) \cap Live
    BY <1>1, <1>2 DEF FindMeta, Live, Stays, Born
  <1> QED BY <1>3 DEF Gone

\* Children that shall go with their parent are listed with its deletion.
LEMMA DependentsAreListed ==
  ASSUME LifeInv, NEW p \in Procs, DeleteMark(p), NEW s \in Deletable(p),
         NEW d \in Dependents(p, s)
  PROVE  /\ d[2] = p /\ d[1] \in Range(todo'[p])
         /\ \A c \in FindMeta(d[1]) \cap Live :
              objmeta[c].kind.parent_delete /\ MayDelete(p, c)
  <1>1. PICK c \in Live \ {s} : /\ d = <<objmeta[c].oid, p>>
                                /\ objmeta[c].parent = objmeta[s].oid
                                /\ objmeta[c].kind.parent_delete
                                /\ MayDelete(p, c)
    BY DEF Dependents
  <1>2. s \in FindMeta(target[p]) /\ objmeta[s].oid = target[p]
    BY DEF Deletable, FindMeta
  <1>3. c \in ChildSlots(target[p])
    BY <1>1, <1>2 DEF ChildSlots
  <1>4. \A t \in Live : objmeta[t].oid \in Oids
    BY IdsAreGiven DEF LifeInv, IInv, Live
  <1>5. /\ Children(target[p]) \in Seq(Oids)
        /\ objmeta[c].oid \in Range(Children(target[p]))
    BY <1>3, <1>4, ChildrenAreListed
  <1>6. todo[p] \in Seq(Oids) /\ todo'[p] = Children(target[p]) \o todo[p]
    BY DEF LifeInv, RegsTyped, DeleteMark
  <1>7. d[1] \in Range(todo'[p])
    BY <1>1, <1>5, <1>6, RangeOfConcat
  <1>8. \A t \in FindMeta(d[1]) \cap Live : t = c
    BY <1>1 DEF LifeInv, OidsAreUnique, FindMeta, Live
  <1> QED BY <1>1, <1>7, <1>8

LEMMA DoomedDependNext ==
  ASSUME LifeInv, SharedTyped, DoomedDepend, [Next]_vars
  PROVE  DoomedDepend'
  <1> SUFFICES ASSUME NEW d \in doomed', NEW t \in FindMeta(d[1])' \cap Live'
               PROVE  objmeta'[t].kind.parent_delete /\ MayDelete(d[2], t)'
    BY DEF DoomedDepend, FindMeta
  <1>1. d[1] \in Oids /\ \A c \in FindMeta(d[1]) \cap Live :
                           objmeta[c].kind.parent_delete /\ MayDelete(d[2], c)
    <2>1. CASE d \in doomed
      BY <2>1 DEF SharedTyped, DoomedDepend
    <2>2. CASE d \notin doomed
      <3>1. PICK p \in Procs : DeleteMark(p)
        BY <2>2, DoomedStep
      <3>2. PICK s \in Deletable(p) : d \in Dependents(p, s)
        BY <2>2, <3>1 DEF DeleteMark
      <3>3. d[1] \in Oids
        BY <3>2, IdsAreGiven DEF LifeInv, IInv, Dependents, Live
      <3> QED BY <3>1, <3>2, <3>3, DependentsAreListed
    <2> QED BY <2>1, <2>2
  <1>2. Stays(t) /\ t \in FindMeta(d[1]) \cap Live
    BY <1>1, GoneForEver
  <1> QED BY <1>1, <1>2 DEF Stays, MayDelete

\* A deletion that is still to come is so after the step, or it was done, or
\* there is nothing to delete, or the process died.
LEMMA PendingStep ==
  ASSUME LifeInv, CascadeInv, [Next]_vars, NEW d \in doomed,
         d[1] \in PendingDeletes(d[2])
  PROVE  \/ d[1] \in PendingDeletes(d[2])'
         \/ Gone(d[1]) \/ Gone(d[1])'
         \/ pc'[d[2]] = "dead"
  <1> DEFINE o == d[1]
             q == d[2]
  <1>1. /\ o \in Oids \ {0} /\ q \in Procs
        /\ \A t \in FindMeta(o) \cap Live :
             objmeta[t].kind.parent_delete /\ MayDelete(q, t)
    BY DEF CascadeInv, SharedTyped, DoomedDepend
  <1>2. RegsTyped(Oids) /\ CallsForget /\ CallsShape /\ todo[q] \in Seq(Oids)
    BY <1>1 DEF LifeInv, IInv, RegsTyped
  <1>3. o \in Range(todo[q]) \cup {target[q]}
    BY DEF PendingDeletes
  <1> HIDE DEF o, q
  <1>4. \/ o \in Range(todo'[q]) \cup {target'[q]} \/ Gone(o) \/ Gone(o)'
        \/ pc'[q] = "dead"
    <2>1. ASSUME NEW p \in Procs, MayForget(p), Forgotten(p)
          PROVE  (todo'[q] = todo[q] /\ target'[q] = target[q]) \/ pc'[q] = "dead"
      <3>1. CASE q # p
        BY <1>1, <1>2, <2>1, <3>1 DEF Forgotten, RegsTyped
      <3>2. CASE q = p /\ Die(p)
        BY <1>1, <1>2, <3>2 DEF Die, GoTo, CallsShape
      <3>3. CASE q = p /\ ~Die(p)
        <4>1. todo[q] = <<>> /\ target[q] = 0
          BY <1>1, <1>2, <2>1, <3>3 DEF MayForget, CallsForget
        <4>2. Range(<<>>) = {}
          BY DEF Range
        <4> QED BY <1>1, <1>3, <4>1, <4>2
      <3> QED BY <3>1, <3>2, <3>3
    <2>2. ASSUME NEW p \in Procs, InsertCall(p) \/ PurgeCall(p)
          PROVE  todo'[q] = todo[q] /\ target'[q] = target[q]
      BY <2>2 DEF InsertCall, PurgeCall
    <2>3. ASSUME NEW p \in Procs, DeleteCall(p)
          PROVE  todo'[q] = todo[q] /\ target'[q] \in {target[q]} \cup (IF p = q THEN Oids ELSE {})
      BY <1>1, <1>2, <2>3 DEF DeleteCall, RegsTyped, Oids
    <2>4. ASSUME NEW p \in Procs, DeleteCall(p)
          PROVE  o \in Range(todo'[q]) \cup {target'[q]}
      <3>1. CASE p = q
        <4>1. target[q] = 0
          BY <1>2, <2>4, <3>1 DEF DeleteCall, CallsForget
        <4> QED BY <1>1, <1>3, <2>3, <2>4, <4>1
      <3>2. CASE p # q
        BY <1>3, <2>3, <2>4, <3>2
      <3> QED BY <3>1, <3>2
    <2>5. ASSUME NEW p \in Procs, p # q, DeleteFails(p) \/ DeleteMark(p) \/ ReadChild(p)
          PROVE  todo'[q] = todo[q] /\ target'[q] = target[q]
      BY <1>1, <1>2, <2>5 DEF DeleteFails, DeleteMark, ReadChild, RegsTyped
    <2>6. ASSUME DeleteFails(q) PROVE o \in Range(todo'[q]) \/ Gone(o)
      <3>1. todo'[q] = todo[q] /\ Deletable(q) = {}
        BY <2>6 DEF DeleteFails
      <3>2. o = target[q] => Gone(o)
        BY <1>1, <3>1 DEF Deletable, Gone
      <3> QED BY <1>3, <3>1, <3>2
    <2>7. ASSUME DeleteMark(q) PROVE o \in Range(todo'[q]) \/ Gone(o)'
      <3>1. todo'[q] = Children(target[q]) \o todo[q]
        BY <1>1, <1>2, <2>7 DEF DeleteMark, RegsTyped
      <3>2. Children(target[q]) \in Seq(Oids)
        BY IdsAreGiven, ChildrenAreListed DEF LifeInv, IInv, Live
      <3>3. Range(todo[q]) \subseteq Range(todo'[q])
        BY <1>2, <3>1, <3>2, RangeOfConcat
      <3>4. CASE o = target[q]
        <4>1. PICK s \in Deletable(q) :
                IF AtOnce(q, s) THEN PurgeSlot(s)
                ELSE objmeta' = [objmeta EXCEPT ![s].deleted = "recent"]
          BY <2>7 DEF DeleteMark
        <4>2. s \in FindMeta(o) /\ s \in Used
          BY <3>4 DEF Deletable, FindMeta
        <4>3. \A t \in FindMeta(o) : t = s
          BY <4>2 DEF LifeInv, OidsAreUnique, FindMeta
        <4>4. s \notin Live'
          <5>1. s \in Slots /\ SlotsShape /\ UNCHANGED objmeta_oid_next
            BY <2>7, <4>2 DEF Used, LifeInv, IInv, DeleteMark
          <5>2. CASE AtOnce(q, s)
            BY <4>1, <5>1, <5>2, PurgeEffect DEF Live, Used, FreeSlots
          <5>3. CASE ~AtOnce(q, s)
            <6>1. objmeta'[s].deleted = "recent"
              BY <4>1, <5>1, <5>3, MarkEffect
            <6> QED BY <6>1 DEF Live
          <5> QED BY <5>2, <5>3
        <4> QED BY <1>1, <4>3, <4>4, GoneForEver DEF Gone
      <3> QED BY <1>3, <3>3, <3>4
    <2>8. ASSUME ReadChild(q)
          PROVE  o \in Range(todo'[q]) \cup {target'[q]} \/ Gone(o)
      <3>1. /\ todo[q] # <<>> /\ todo'[q] = Tail(todo[q]) /\ pc[q] = "children"
            /\ IF \E s \in FindMeta(Head(todo[q])) \cap Live : objmeta[s].kind.parent_delete
               THEN target'[q] = Head(todo[q]) ELSE TRUE
        BY <1>1, <1>2, <2>8 DEF ReadChild, RegsTyped
      <3>2. target[q] = 0
        BY <1>1, <1>2, <3>1 DEF CallsForget
      <3>3. o \in {Head(todo[q])} \cup Range(Tail(todo[q]))
        BY <1>1, <1>2, <1>3, <3>1, <3>2, RangeOfTail
      <3>4. CASE o = Head(todo[q])
        BY <1>1, <3>1, <3>4 DEF Gone
      <3> QED BY <3>1, <3>3, <3>4
    <2>9. CASE Forgets
      BY <1>3, <2>1, <2>9 DEF Forgets
    <2> QED BY <1>3, <2>2, <2>4, <2>5, <2>6, <2>7, <2>8, <2>9, CallSteps
  <1> QED BY <1>4 DEF o, q, PendingDeletes

LEMMA CascadeNext ==
  ASSUME LifeInv, CascadeInv, [Next]_vars
  PROVE  CascadeInv'
  <1>1. SharedTyped' /\ DoomedDepend'
    BY SharedTypedNext, DoomedDependNext DEF CascadeInv
  <1>2. NoChildLeftBehind'
    <2> SUFFICES ASSUME NEW d \in doomed'
                 PROVE  \/ Gone(d[1])'
                        \/ d[1] \in PendingDeletes(d[2])'
                        \/ pc'[d[2]] = "dead"
      BY DEF NoChildLeftBehind, Gone, FindMeta, PendingDeletes
    <2>1. CASE d \in doomed
      <3>1. d[1] \in Oids /\ d[2] \in Procs
        BY <2>1 DEF CascadeInv, SharedTyped
      <3>2. Gone(d[1]) => Gone(d[1])'
        BY <3>1, GoneForEver
      <3>3. pc[d[2]] = "dead" => pc'[d[2]] = "dead"
        BY <3>1, DeadStep DEF Dead, LifeInv, IInv
      <3> QED BY <2>1, <3>2, <3>3, PendingStep DEF CascadeInv, NoChildLeftBehind, Gone
    <2>2. CASE d \notin doomed
      <3>1. PICK p \in Procs : DeleteMark(p)
        BY <2>2, DoomedStep
      <3>2. PICK s \in Deletable(p) : d \in Dependents(p, s)
        BY <2>2, <3>1 DEF DeleteMark
      <3> QED BY <3>1, <3>2, DependentsAreListed DEF PendingDeletes
    <2> QED BY <2>1, <2>2
  <1> QED BY <1>1, <1>2 DEF CascadeInv

\* Whoever deletes a parent also deletes the children that shall go with it, those
\* of children included, unless he is killed: neither a failed deletion nor the
\* order of the list, nor other processes, make him skip one.
THEOREM CascadeAlways == Spec => []NoChildLeftBehind
  <1>1. Init => CascadeInv
    BY ObjMetaAssumption
       DEF Init, CascadeInv, SharedTyped, DoomedDepend, NoChildLeftBehind, Oids
  <1>2. LifeInv /\ CascadeInv /\ [Next]_vars => CascadeInv'
    BY CascadeNext
  <1>3. CascadeInv => NoChildLeftBehind
    BY DEF CascadeInv
  <1> QED BY <1>1, <1>2, <1>3, LifeAlways, PTL DEF Spec

-----------------------------------------------------------------------------
(* What is counted and what is allocated. *)

LEMMA FreeSlotsAreFinite ==
  IsFiniteSet(FreeSlots) /\ Cardinality(FreeSlots) \in Nat
  <1>1. IsFiniteSet(Slots)
    <2>1. ObjMax - 1 \in Int
      BY ObjMetaAssumption
    <2> QED BY <2>1, FS_Interval DEF Slots
  <1>2. FreeSlots \in SUBSET Slots
    BY DEF FreeSlots
  <1> QED BY <1>1, <1>2, FS_Subset, FS_CardinalityType

\* objmeta_free is counted down at least when a slot is filled and up only when
\* one is freed.
LEMMA FreeNext ==
  ASSUME SlotsShape, CallsShape, objmeta_free \in Int, FreeIsNotOverstated, SlotStep
  PROVE  FreeIsNotOverstated'
  <1> USE FreeSlotsAreFinite
  <1>1. \A s \in Used : s \in Slots
    BY DEF Used
  <1>2. CASE KeepsSlots
    BY <1>2 DEF KeepsSlots, FreeIsNotOverstated, FreeSlots
  <1>3. ASSUME NEW p \in Procs, NEW s \in Slots, Fills(p, s)
        PROVE  FreeIsNotOverstated'
    <2>1. PICK b \in Buffers : Stores(p, s, b)
      BY <1>3, StoresWhere
    <2>2. SameSlots(Slots \ {s}) /\ objmeta'[s].oid # 0
      BY <2>1, StoreEffect DEF Stores
    <2>3. s \in FreeSlots /\ FreeSlots' = FreeSlots \ {s}
      BY <1>3, <2>2 DEF Fills, SameSlots, FreeSlots
    <2>4. Cardinality(FreeSlots') = Cardinality(FreeSlots) - 1
      BY <2>3, FS_RemoveElement
    <2> QED BY <1>3, <2>4 DEF Fills, FreeIsNotOverstated
  <1>4. ASSUME NEW p \in Procs, NEW s \in Slots, Reuses(p, s)
        PROVE  FreeIsNotOverstated'
    <2>1. PICK b \in Buffers : Stores(p, s, b)
      BY <1>4, StoresWhere
    <2>2. SameSlots(Slots \ {s}) /\ objmeta'[s].oid # 0 /\ objmeta[s].oid # 0
      BY <1>4, <2>1, StoreEffect DEF Stores, Reuses, KeptSlots, Used, FreeSlots
    <2>3. FreeSlots' = FreeSlots
      BY <2>2 DEF SameSlots, FreeSlots
    <2> QED BY <1>4, <2>3 DEF Reuses, FreeIsNotOverstated
  <1>5. ASSUME NEW s \in Used, NEW d \in {"recent", "old"}, Marks(s, d)
        PROVE  FreeIsNotOverstated'
    <2>1. SameSlots(Slots \ {s}) /\ objmeta'[s].oid = objmeta[s].oid
      BY <1>1, <1>5, MarkEffect DEF Marks
    <2>2. FreeSlots' = FreeSlots
      BY <2>1 DEF SameSlots, FreeSlots
    <2> QED BY <1>5, <2>2 DEF Marks, FreeIsNotOverstated
  <1>6. ASSUME NEW s \in Used, Purges(s) PROVE FreeIsNotOverstated'
    <2>1. SameSlots(Slots \ {s}) /\ objmeta'[s].oid = 0
      BY <1>1, <1>6, PurgeEffect DEF Purges
    <2>2. s \notin FreeSlots /\ FreeSlots' = FreeSlots \cup {s}
      BY <1>1, <2>1 DEF SameSlots, FreeSlots, Used
    <2>3. Cardinality(FreeSlots') = Cardinality(FreeSlots) + 1
      BY <2>2, FS_AddElement
    <2> QED BY <1>6, <2>3 DEF Purges, PurgeSlot, FreeIsNotOverstated
  <1>7. Live \subseteq Used
    BY DEF Live
  <1> QED BY <1>2, <1>3, <1>4, <1>5, <1>6, <1>7 DEF SlotStep

\* In hard real-time no call leaves the lock locked, and none retries.
LockFree == objmeta_lock = Nobody /\ \A p \in Procs : pc[p] # "retry"

LEMMA LockFreeNext ==
  ASSUME HardRealtime, CallsShape, LockFree, [Next]_vars
  PROVE  LockFree'
  <1>1. ASSUME NEW p \in Procs, NEW place, place # "retry", GoTo(p, place),
               Unlock \/ UNCHANGED objmeta_lock
        PROVE  LockFree'
    BY <1>1 DEF GoTo, Unlock, LockFree, CallsShape
  <1>2. ASSUME UNCHANGED pc, Unlock \/ UNCHANGED objmeta_lock PROVE LockFree'
    BY <1>2 DEF Unlock, LockFree
  <1>3. ASSUME NEW p \in Procs, Insert(p) PROVE LockFree'
    <2>1. CASE InsertCall(p) \/ InsertNeedsBlock(p) \/ InsertAlloc(p)
      BY <1>1, <2>1 DEF InsertCall, InsertNeedsBlock, InsertAlloc
    <2>2. CASE InsertKept(p) \/ InsertClaim(p)
      BY <1>1, <2>2 DEF InsertKept, InsertClaim, Store, Refuse, Return
    <2>3. CASE InsertNoMemory(p) \/ InsertNoSlot(p) \/ InsertFree(p)
      BY <1>1, <2>3 DEF InsertNoMemory, InsertNoSlot, InsertFree, Refuse, Return
    <2>4. CASE InsertRetry(p)
      BY <2>4 DEF InsertRetry, LockFree
    <2> QED BY <1>3, <2>1, <2>2, <2>3, <2>4 DEF Insert
  <1>4. ASSUME NEW p \in Procs, Delete(p) PROVE LockFree'
    BY <1>1, <1>2, <1>4 DEF Delete, DeleteCall, DeleteFails, DeleteMark, ReadChild,
                            DeleteReturn, Return
  <1>5. ASSUME NEW p \in Procs, Purge(p) \/ Die(p) PROVE LockFree'
    BY <1>1, <1>2, <1>5 DEF Purge, PurgeCall, PurgeNext, PurgeReturn, Return, Die
  <1>6. CASE (\E s \in Slots : Age(s)) \/ UNCHANGED vars
    BY <1>2, <1>6 DEF Age, vars
  <1> QED BY <1>3, <1>4, <1>5, <1>6 DEF Next

\* No owner gives up a block that stays allocated.
LEMMA OwnersStay ==
  ASSUME NoMemoryLost, heap \subseteq Blocks, heap' \subseteq heap,
         \A s \in Used : /\ objmeta[s].buffer \in heap'
                            => s \in Used' /\ objmeta'[s].buffer = objmeta[s].buffer,
         \A p \in Procs : buf[p] \in heap' => buf'[p] = buf[p]
  PROVE  NoMemoryLost'
  BY DEF NoMemoryLost

LEMMA MemoryNext ==
  ASSUME SlotsShape, CallsShape, Phases, heap \subseteq Blocks, NoMemoryLost, HardRealtime, LockFree,
         [Next]_vars
  PROVE  NoMemoryLost'
  <1>1. /\ NoBlock \notin heap
        /\ \A s \in Used : s \in Slots
    BY ObjMetaAssumption DEF Used
  <1>2. ASSUME NEW p \in Procs, Return(p), buf[p] = NoBlock
        PROVE  \A q \in Procs : buf'[q] = buf[q]
    BY <1>2, ReturnEffect
  <1>3. ASSUME UNCHANGED <<objmeta, heap>>, \A q \in Procs : buf'[q] = buf[q]
        PROVE  NoMemoryLost'
    <2>1. Used' = Used
      BY <1>3 DEF Used, FreeSlots
    <2> QED BY <1>3, <2>1, OwnersStay
  <1>4. ASSUME NEW p \in Procs, Refuse(p), UNCHANGED heap PROVE NoMemoryLost'
    <2>1. \A q \in Procs : buf'[q] = buf[q]
      BY <1>2, <1>4 DEF Refuse, regs
    <2> QED BY <1>3, <1>4, <2>1, RefuseKeepsSlots
  <1>5. ASSUME NEW s \in Used, NEW d \in {"recent", "old"}, Marks(s, d),
               UNCHANGED <<heap, buf>>
        PROVE  NoMemoryLost'
    <2>1. /\ SameSlots(Slots \ {s})
          /\ objmeta'[s].oid = objmeta[s].oid
          /\ objmeta'[s].buffer = objmeta[s].buffer
      BY <1>1, <1>5, MarkEffect DEF Marks
    <2>2. \A t \in Used : t \in Used' /\ objmeta'[t].buffer = objmeta[t].buffer
      BY <1>1, <2>1 DEF SameSlots, Used, FreeSlots
    <2> QED BY <1>5, <2>2, OwnersStay
  <1>6. ASSUME NEW s \in Used, PurgeSlot(s), UNCHANGED <<objmeta_oid_next, buf>>
        PROVE  NoMemoryLost'
    <2>1. SameSlots(Slots \ {s})
      BY <1>1, <1>6, PurgeEffect
    <2>2. heap' = heap \ {objmeta[s].buffer}
      BY <1>6 DEF PurgeSlot
    <2>3. \A t \in Used \ {s} : t \in Used' /\ objmeta'[t].buffer = objmeta[t].buffer
      BY <1>1, <2>1 DEF SameSlots, Used, FreeSlots
    <2> QED BY <1>6, <2>2, <2>3, OwnersStay
  <1>7. ASSUME NEW p \in Procs, Insert(p) PROVE NoMemoryLost'
    <2>1. CASE InsertKept(p)
      <3>1. PICK s \in First(KeptSlots(p)) :
              IF Clash(want[p].kind) THEN Refuse(p)
                                     ELSE Store(p, s, objmeta[s].buffer)
        BY <2>1 DEF InsertKept
      <3>2. CASE Refuse(p)
        BY <1>4, <2>1, <3>2 DEF InsertKept
      <3>3. CASE Store(p, s, objmeta[s].buffer)
        <4>1. /\ s \in Used /\ s \in Slots /\ objmeta[s].buffer \in Buffers
              /\ want[p].kind \in Kinds /\ buf[p] = NoBlock /\ UNCHANGED heap
          BY <1>1, <2>1 DEF First, KeptSlots, SlotsShape, Entry, InsertKept, Phases
        <4>2. /\ SameSlots(Slots \ {s})
              /\ objmeta'[s].oid # 0
              /\ objmeta'[s].kind = want[p].kind
              /\ objmeta'[s].buffer = objmeta[s].buffer
          BY <1>1, <3>3, <4>1, StoreEffect
        <4>3. \A t \in Used : t \in Used' /\ objmeta'[t].buffer = objmeta[t].buffer
          BY <1>1, <4>2 DEF SameSlots, Used, FreeSlots
        <4>4. \A q \in Procs : buf'[q] = buf[q]
          BY <1>2, <3>3, <4>1 DEF Store
        <4> QED BY <4>1, <4>3, <4>4, OwnersStay
      <3> QED BY <3>1, <3>2, <3>3
    <2>2. CASE InsertClaim(p)
      <3>1. PICK s \in First(FreeSlots) :
              IF Clash(want[p].kind) THEN Refuse(p) ELSE Store(p, s, buf[p])
        BY <2>2 DEF InsertClaim
      <3>2. CASE Refuse(p)
        BY <1>4, <2>2, <3>2 DEF InsertClaim
      <3>3. CASE Store(p, s, buf[p])
        <4>1. /\ s \in Slots /\ s \notin Used /\ buf[p] \in Buffers
              /\ want[p].kind \in Kinds /\ UNCHANGED heap
          BY <2>2 DEF First, FreeSlots, Used, CallsShape, InsertClaim, Claiming, Phases
        <4>2. /\ SameSlots(Slots \ {s})
              /\ objmeta'[s].oid # 0
              /\ objmeta'[s].kind = want[p].kind
              /\ objmeta'[s].buffer = buf[p]
          BY <3>3, <4>1, StoreEffect
        <4>3. /\ s \in Used'
              /\ \A t \in Used : t \in Used' /\ objmeta'[t].buffer = objmeta[t].buffer
          BY <1>1, <4>1, <4>2 DEF SameSlots, Used, FreeSlots
        <4>4. \A q \in Procs \ {p} : buf'[q] = buf[q]
          BY <3>3, ReturnEffect DEF Store
        <4> QED BY <4>1, <4>2, <4>3, <4>4 DEF NoMemoryLost
      <3> QED BY <3>1, <3>2, <3>3
    <2>3. CASE InsertNoSlot(p)
      BY <1>4, <2>3 DEF InsertNoSlot
    <2>4. CASE InsertRetry(p)
      BY <2>4 DEF InsertRetry, LockFree
    <2>5. CASE InsertAlloc(p)
      <3>1. PICK b \in Blocks \ heap :
              heap' = heap \cup {b} /\ buf' = [buf EXCEPT ![p] = b]
        BY <2>5 DEF InsertAlloc
      <3>2. /\ UNCHANGED objmeta /\ Used' = Used /\ buf[p] = NoBlock
        BY <2>5 DEF InsertAlloc, Used, FreeSlots, Phases
      <3>3. buf'[p] = b /\ \A q \in Procs \ {p} : buf'[q] = buf[q]
        BY <3>1 DEF CallsShape
      <3> QED BY <1>1, <3>1, <3>2, <3>3 DEF NoMemoryLost
    <2>6. CASE InsertFree(p)
      <3>1. /\ heap' = heap \ {buf[p]} /\ Return(p) /\ UNCHANGED objmeta /\ Used' = Used
        BY <2>6 DEF InsertFree, Used, FreeSlots
      <3>2. \A q \in Procs \ {p} : buf'[q] = buf[q]
        BY <3>1, ReturnEffect
      <3> QED BY <3>1, <3>2, OwnersStay
    <2>7. CASE InsertCall(p) \/ InsertNeedsBlock(p)
      BY <1>3, <2>7 DEF InsertCall, InsertNeedsBlock, regs
    <2>8. CASE InsertNoMemory(p)
      <3>1. Return(p) /\ buf[p] = NoBlock /\ UNCHANGED <<objmeta, heap>>
        BY <2>8 DEF InsertNoMemory, Phases
      <3> QED BY <1>2, <1>3, <3>1
    <2> QED BY <1>7, <2>1, <2>2, <2>3, <2>4, <2>5, <2>6, <2>7, <2>8 DEF Insert
  <1>8. ASSUME NEW p \in Procs, Delete(p) PROVE NoMemoryLost'
    <2>1. CASE DeleteMark(p)
      <3>1. PICK s \in Deletable(p) :
              IF AtOnce(p, s) THEN PurgeSlot(s)
              ELSE /\ objmeta' = [objmeta EXCEPT ![s].deleted = "recent"]
                   /\ UNCHANGED <<objmeta_free, heap>>
        BY <2>1 DEF DeleteMark
      <3>2. s \in Used /\ UNCHANGED <<objmeta_oid_next, buf>>
        BY <2>1 DEF Deletable, FindMeta, DeleteMark
      <3>3. CASE AtOnce(p, s)
        BY <1>6, <3>1, <3>2, <3>3
      <3>4. CASE ~AtOnce(p, s)
        BY <1>5, <3>1, <3>2, <3>4 DEF Marks
      <3> QED BY <3>3, <3>4
    <2>2. CASE DeleteCall(p) \/ DeleteFails(p) \/ ReadChild(p)
      BY <1>3, <2>2 DEF DeleteCall, DeleteFails, ReadChild
    <2>3. CASE DeleteReturn(p)
      <3>1. UNCHANGED <<objmeta, heap>> /\ Return(p) /\ buf[p] = NoBlock
        BY <2>3 DEF DeleteReturn, Phases
      <3> QED BY <1>2, <1>3, <3>1
    <2> QED BY <1>8, <2>1, <2>2, <2>3 DEF Delete
  <1>9. ASSUME NEW p \in Procs, Purge(p) PROVE NoMemoryLost'
    <2>1. CASE PurgeNext(p)
      <3>1. \E s \in Used : PurgeSlot(s)
        BY <2>1 DEF PurgeNext, MayPurge, MustPurge, DueSlots
      <3>2. UNCHANGED <<objmeta_oid_next, buf>>
        BY <2>1 DEF PurgeNext
      <3> QED BY <1>6, <3>1, <3>2
    <2>2. CASE PurgeCall(p)
      BY <1>3, <2>2 DEF PurgeCall
    <2>3. CASE PurgeReturn(p)
      <3>1. UNCHANGED <<objmeta, heap>> /\ Return(p) /\ buf[p] = NoBlock
        BY <2>3 DEF PurgeReturn, Phases
      <3> QED BY <1>2, <1>3, <3>1
    <2> QED BY <1>9, <2>1, <2>2, <2>3 DEF Purge
  <1>10. ASSUME NEW p \in Procs, Die(p) PROVE NoMemoryLost'
    BY <1>3, <1>10 DEF Die
  <1>11. ASSUME NEW s \in Slots, Age(s) PROVE NoMemoryLost'
    <2>1. s \in Used /\ Marks(s, "old") /\ UNCHANGED <<heap, buf>>
      BY <1>11 DEF Age, Marks, regs
    <2> QED BY <1>5, <2>1
  <1>12. CASE UNCHANGED vars
    BY <1>3, <1>12 DEF vars, regs
  <1> QED BY <1>7, <1>8, <1>9, <1>10, <1>11, <1>12 DEF Next

\* The count of free slots is never above the truth, in both builds.
THEOREM FreeAlways == Spec => []FreeIsNotOverstated
  <1>1. Init => FreeIsNotOverstated
    <2>1. ASSUME Init PROVE FreeSlots = Slots /\ ObjMax - 1 \in Int /\ objmeta_free = ObjMax
      BY <2>1, ObjMetaAssumption DEF Init, FreeSlots, Free
    <2>2. Cardinality(Slots) = ObjMax
      BY ObjMetaAssumption, FS_Interval DEF Slots
    <2> QED BY <2>1, <2>2, ObjMetaAssumption DEF FreeIsNotOverstated
  <1>2. LifeInv /\ TypeOK /\ FreeIsNotOverstated /\ [Next]_vars => FreeIsNotOverstated'
    BY FreeNext, NextIsSlotStep DEF LifeInv, IInv, TypeOK
  <1> QED BY <1>1, <1>2, LifeAlways, TypeAlways, PTL DEF Spec

\* In the hard real-time build a call that is over has released objmeta_lock.  The
\* other build does not: it gives up an insert with the lock (run obj_meta_lock).
THEOREM LockAlways == HardRealtime => (Spec => []LockIsReleased)
  <1> SUFFICES ASSUME HardRealtime PROVE Spec => []LockIsReleased
    OBVIOUS
  <1>1. Init => LockFree
    BY DEF Init, LockFree
  <1>2. IInv /\ LockFree /\ [Next]_vars => LockFree'
    BY LockFreeNext DEF IInv
  <1>3. LockFree => LockIsReleased
    BY ObjMetaAssumption DEF LockFree, LockIsReleased
  <1> QED BY <1>1, <1>2, <1>3, Inductive, PTL DEF Spec

\* In the hard real-time build every allocated block has an owner and no slot is
\* counted twice, whatever inserts fail, objects are purged and processes killed.
THEOREM MemoryAlways == HardRealtime => (Spec => []MemoryIsAccounted)
  <1> SUFFICES ASSUME HardRealtime PROVE Spec => []MemoryIsAccounted
    OBVIOUS
  <1>1. Init => LockFree /\ NoMemoryLost
    BY DEF Init, LockFree, NoMemoryLost
  <1>2. IInv /\ TypeOK /\ LockFree /\ NoMemoryLost /\ [Next]_vars
          => LockFree' /\ NoMemoryLost'
    BY LockFreeNext, MemoryNext DEF IInv, TypeOK
  <1>3. NoMemoryLost /\ FreeIsNotOverstated => MemoryIsAccounted
    BY DEF MemoryIsAccounted
  <1> QED BY <1>1, <1>2, <1>3, Inductive, TypeAlways, FreeAlways, PTL DEF Spec

-----------------------------------------------------------------------------
(* The slots implement the abstract registry. *)

\* An object record names its slot.
LEMMA ObjectsDiffer ==
  ASSUME OidsAreUnique, NEW s \in Used, NEW t \in Used, Object(s) = Object(t)
  PROVE  s = t
  <1>1. Object(s).oid = objmeta[s].oid /\ Object(t).oid = objmeta[t].oid
    BY DEF Object
  <1> QED BY <1>1 DEF OidsAreUnique

\* When one slot changes, one object changes.
LEMMA ObjectsChange ==
  ASSUME OidsAreUnique, NEW s \in Slots, SameSlots(Slots \ {s})
  PROVE  /\ s \in Used => Object(s) \in Objects
         /\ Objects' = (Objects \ (IF s \in Used THEN {Object(s)} ELSE {}))
                       \cup (IF s \in Used' THEN {Object(s)'} ELSE {})
  <1> DEFINE Rest == {Object(t) : t \in Used \ {s}}
  <1>1. Used' \ {s} = Used \ {s}
    BY DEF SameSlots, Used, FreeSlots, Slots
  <1>2. \A t \in Used \ {s} : Object(t)' = Object(t)
    BY DEF SameSlots, Object, Used
  <1>3. Rest = Objects \ (IF s \in Used THEN {Object(s)} ELSE {})
    <2>1. \A t \in Used \ {s} : s \in Used => Object(t) # Object(s)
      BY ObjectsDiffer
    <2> QED BY <2>1 DEF Objects
  <1>4. Objects' = Rest \cup (IF s \in Used' THEN {Object(s)'} ELSE {})
    <2>1. \A o : o \in Objects' <=> \E t \in Used' : o = Object(t)'
      BY DEF Objects
    <2>2. \A o : o \in Rest <=> \E t \in Used \ {s} : o = Object(t)
      OBVIOUS
    <2> HIDE DEF Rest
    <2> QED BY <1>1, <1>2, <2>1, <2>2
  <1>5. s \in Used => Object(s) \in Objects
    BY DEF Objects
  <1> QED BY <1>3, <1>4, <1>5

\* The live objects of the registry are those of the live slots.
LEMMA LiveObjects ==
  /\ \A s \in Used : Object(s) \in Objects /\ (Object(s) \in Registry!Live <=> s \in Live)
  /\ \A o \in Registry!Live : \E s \in Live : o = Object(s)
  <1>1. \A s \in Used : Object(s) \in Objects /\ (Object(s).deleted <=> s \notin Live)
    BY DEF Objects, Object, Live
  <1>2. \A o \in Objects : \E s \in Used : o = Object(s)
    BY DEF Objects
  <1> QED BY <1>1, <1>2 DEF Registry!Live

LEMMA StoreImplements ==
  ASSUME LifeInv, NEW p \in Procs, NEW s \in Slots, Fills(p, s) \/ Reuses(p, s),
         Dead' = Dead
  PROVE  Registry!Insert
  <1> DEFINE k == want[p].kind
             heir == IF s \in Used THEN {Object(s)} ELSE {}
             new == [oid |-> objmeta_oid_next, kind |-> k, parent |-> NewParent(p),
                     proc |-> p, deleted |-> FALSE]
  <1>1. SlotsShape /\ CallsShape /\ RegsTyped(Oids) /\ OidsAreUnique
    BY DEF LifeInv, IInv
  <1>2. PICK b \in Buffers : Stores(p, s, b)
    BY <1>1, StoresWhere
  <1>3. /\ SameSlots(Slots \ {s}) /\ objmeta'[s] = NewObject(p, b)
        /\ objmeta_oid_next' = objmeta_oid_next + 1
    BY <1>1, <1>2, StoreRecord DEF Stores
  <1>4. s \in Used' /\ Object(s)' = new
    <2>1. objmeta'[s].oid # 0 /\ (objmeta'[s].deleted # "no") = FALSE
      BY <1>1, <1>3 DEF NewObject, SlotsShape
    <2>2. s \in Used'
      BY <2>1 DEF Used, FreeSlots, Slots
    <2>3. Object(s)' = [oid |-> objmeta'[s].oid, kind |-> objmeta'[s].kind,
                        parent |-> objmeta'[s].parent, proc |-> objmeta'[s].proc,
                        deleted |-> FALSE]
      BY <2>1 DEF Object
    <2> QED BY <1>3, <2>2, <2>3 DEF NewObject
  <1>5. NewParent(p) \in 0 .. objmeta_oid_next
    <2>1. want[p].parent \in Oids
      <3>1. 0 \in Oids
        BY <1>1 DEF SlotsShape, Oids
      <3>2. CASE want[p] = NoCall
        BY <3>1, <3>2 DEF NoCall
      <3>3. CASE want[p] \in [kind : Kinds, parent : Oids]
        BY <3>3
      <3> QED BY <1>1, <3>2, <3>3 DEF RegsTyped
    <2> QED BY <1>1, <2>1 DEF NewParent, Oids, SlotsShape
  <1>6. k \in Kinds /\ \A o \in Registry!Live : Registry!MayCoexist(o.kind, k)
    <2>1. \A t \in Live : Registry!MayCoexist(objmeta[t].kind, k)
      BY <1>2 DEF Stores, Clash, Registry!MayCoexist
    <2>2. \A t : Object(t).kind = objmeta[t].kind
      BY DEF Object
    <2> QED BY <1>2, <2>1, <2>2, LiveObjects DEF Stores
  <1>7. heir \in SUBSET {o \in Objects \ Registry!Live :
                           o.proc = p /\ o.kind.keep_alloc}
    <2>1. CASE s \in Used
      <3>1. s \notin Live /\ objmeta[s].proc = p /\ objmeta[s].kind.keep_alloc
        BY <2>1 DEF Fills, Reuses, KeptSlots, Used
      <3>2. Object(s).proc = objmeta[s].proc /\ Object(s).kind = objmeta[s].kind
        BY DEF Object
      <3>3. Object(s) \in Objects \ Registry!Live
        BY <2>1, <3>1, LiveObjects
      <3> QED BY <2>1, <3>1, <3>2, <3>3
    <2>2. CASE s \notin Used
      BY <2>2
    <2> QED BY <2>1, <2>2
  <1>8. Objects' = (Objects \ heir) \cup {new}
    BY <1>1, <1>3, <1>4, ObjectsChange
  <1> HIDE DEF heir
  <1> QED BY <1>3, <1>5, <1>6, <1>7, <1>8 DEF Registry!Insert

LEMMA MarkImplements ==
  ASSUME LifeInv, NEW s \in Live, Marks(s, "recent"), Dead' = Dead
  PROVE  Registry!Delete
  <1>1. SlotsShape /\ OidsAreUnique /\ s \in Used /\ s \in Slots
    BY DEF LifeInv, IInv, Live, Used
  <1>2. /\ SameSlots(Slots \ {s}) /\ objmeta'[s].deleted = "recent"
        /\ objmeta'[s].oid = objmeta[s].oid /\ objmeta'[s].kind = objmeta[s].kind
        /\ objmeta'[s].parent = objmeta[s].parent
        /\ objmeta'[s].proc = objmeta[s].proc
    BY <1>1, MarkEffect DEF Marks
  <1>3. s \in Used' /\ Object(s)' = Registry!Deleted(Object(s))
    <2>1. (objmeta'[s].deleted # "no") = TRUE
      BY <1>2
    <2>2. s \in Used'
      BY <1>1, <1>2 DEF Used, FreeSlots, Slots
    <2>3. Object(s)' = [oid |-> objmeta[s].oid, kind |-> objmeta[s].kind,
                        parent |-> objmeta[s].parent, proc |-> objmeta[s].proc,
                        deleted |-> TRUE]
      BY <1>2, <2>1 DEF Object
    <2>4. /\ Object(s).oid = objmeta[s].oid /\ Object(s).kind = objmeta[s].kind
          /\ Object(s).parent = objmeta[s].parent /\ Object(s).proc = objmeta[s].proc
      BY DEF Object
    <2> QED BY <2>2, <2>3, <2>4 DEF Registry!Deleted
  <1>4. Object(s) \in Registry!Live
    BY <1>1, LiveObjects
  <1>5. Objects' = (Objects \ {Object(s)}) \cup {Registry!Deleted(Object(s))}
    BY <1>1, <1>2, <1>3, ObjectsChange
  <1> QED BY <1>4, <1>5 DEF Registry!Delete, Marks

LEMMA AgeImplements ==
  ASSUME LifeInv, NEW s \in Used, objmeta[s].deleted = "recent", Marks(s, "old")
  PROVE  Objects' = Objects
  <1>1. SlotsShape /\ OidsAreUnique /\ s \in Slots
    BY DEF LifeInv, IInv, Used
  <1>2. /\ SameSlots(Slots \ {s}) /\ objmeta'[s].deleted = "old"
        /\ objmeta'[s].oid = objmeta[s].oid /\ objmeta'[s].kind = objmeta[s].kind
        /\ objmeta'[s].parent = objmeta[s].parent
        /\ objmeta'[s].proc = objmeta[s].proc
    BY <1>1, MarkEffect DEF Marks
  <1>3. s \in Used' /\ Object(s)' = Object(s)
    <2>1. (objmeta'[s].deleted # "no") = (objmeta[s].deleted # "no")
      BY <1>2
    <2> QED BY <1>1, <1>2, <2>1 DEF Object, Used, FreeSlots, Slots
  <1> QED BY <1>1, <1>2, <1>3, ObjectsChange

LEMMA PurgeImplements ==
  ASSUME LifeInv, NEW s \in Used, MayGo(s), Purges(s), Dead' = Dead
  PROVE  Registry!DeleteAtOnce \/ Registry!Forget
  <1>1. SlotsShape /\ SlotsTyped /\ OidsAreUnique /\ s \in Slots
    BY DEF LifeInv, IInv, Used
  <1>2. SameSlots(Slots \ {s}) /\ s \notin Used'
    BY <1>1, PurgeEffect DEF Purges, Used, FreeSlots
  <1>3. Objects' = Objects \ {Object(s)} /\ UNCHANGED objmeta_oid_next
    BY <1>1, <1>2, ObjectsChange DEF Purges
  <1>4. /\ Object(s) \in Objects /\ (Object(s) \in Registry!Live <=> s \in Live)
        /\ Object(s).kind = objmeta[s].kind /\ Object(s).proc = objmeta[s].proc
    BY LiveObjects DEF Object
  <1>5. CASE s \in Live
    <2>1. objmeta[s].kind.immediately_delete \/ objmeta[s].proc \in Dead
      <3>1. objmeta[s].proc \in Procs
        BY <1>1, UsedTyped DEF ObjectType
      <3> QED BY <1>5, <3>1 DEF MayGo, LifeInv, ImmIsOfDead, Dead
    <2> QED BY <1>3, <1>4, <1>5, <2>1 DEF Registry!DeleteAtOnce
  <1>6. CASE s \notin Live
    BY <1>3, <1>4, <1>6 DEF Registry!Forget
  <1> QED BY <1>5, <1>6

LEMMA StepImplements ==
  ASSUME LifeInv, [Next]_vars
  PROVE  [Registry!Next]_(Registry!vars)
  <1>1. ASSUME UNCHANGED <<objmeta, objmeta_oid_next>> PROVE Objects' = Objects
    BY <1>1 DEF Objects, Object, Used, FreeSlots
  <1>2. ASSUME NEW p \in Procs, Die(p), Dead' = Dead \cup {p} PROVE Registry!Die
    BY <1>1, <1>2 DEF Die, Registry!Die
  <1>3. CASE Dead' = Dead
    <2>1. CASE KeepsSlots
      BY <1>1, <1>3, <2>1 DEF KeepsSlots, Registry!vars
    <2>2. ASSUME NEW p \in Procs, NEW s \in Slots, Fills(p, s) \/ Reuses(p, s)
          PROVE  Registry!Next
      BY <1>3, <2>2, StoreImplements DEF Registry!Next
    <2>3. ASSUME NEW s \in Live, Marks(s, "recent") PROVE Registry!Next
      BY <1>3, <2>3, MarkImplements DEF Registry!Next
    <2>4. ASSUME NEW s \in Used, objmeta[s].deleted = "recent", Marks(s, "old")
          PROVE  UNCHANGED Registry!vars
      BY <1>3, <2>4, AgeImplements DEF Marks, Registry!vars
    <2>5. ASSUME NEW s \in Used, MayGo(s), Purges(s) PROVE Registry!Next
      BY <1>3, <2>5, PurgeImplements DEF Registry!Next
    <2>6. SlotStep
      BY NextIsSlotStep DEF LifeInv, IInv
    <2> QED BY <2>1, <2>2, <2>3, <2>4, <2>5, <2>6 DEF SlotStep
  <1>4. CallsShape
    BY DEF LifeInv, IInv
  <1> QED BY <1>2, <1>3, <1>4, DeadStep DEF Registry!Next

\* The calls, with their locks, retries and deaths, implement the registry: an id
\* is given once, an object is deleted once, and what disappears was deleted or
\* asked to vanish at once or belonged to a dead process.
THEOREM RegistryImplemented == Spec => ImplementsRegistry
  <1>1. Init => Registry!Init
    <2> SUFFICES ASSUME Init PROVE Registry!Init
      OBVIOUS
    <2>1. Used = {}
      BY DEF Init, Used, FreeSlots, Free
    <2>2. Objects = {} /\ Dead = {}
      BY <2>1 DEF Objects, Dead, Init
    <2> QED BY <2>2 DEF Registry!Init, Init
  <1>2. LifeInv /\ [Next]_vars => [Registry!Next]_(Registry!vars)
    BY StepImplements
  <1> QED BY <1>1, <1>2, LifeAlways, PTL DEF Spec, ImplementsRegistry, Registry!Spec

\* What a failing insert leaves locked does not harm the registry, in either build.
THEOREM RegistryKept == Spec => RegistryIsKept
  BY OwnersAlways, KeepTimeAlways, PTL DEF RegistryIsKept
=============================================================================
