-------------------------- MODULE RtdbNotifyProofs --------------------------
(***************************************************************************)
(* Proofs about RtdbNotify, for any number of owners, waiters, objects,    *)
(* commits and deaths.                                                     *)
(***************************************************************************)
EXTENDS RtdbNotify, TLAPS

\* Who is between lock and unlock holds the lock, unless waiters poll.
LockDiscipline ==
  /\ \A p \in Procs : pc[p] = "notify" => notify_lock = p
  /\ ~no_notifies =>
       /\ \A p \in Procs : pc[p] = "publish" => notify_lock = p
       /\ \A w \in Waiters : pc[w] = "read" => notify_lock = w
  /\ no_notifies => Asleep = {}

\* The manager commits nothing.
OwnersCommit == pc[Manager] # "publish"

\* A call is about an object that was found.
CallsAreOfObjects == \A w \in Waiters : pc[w] # "idle" => call[w].oid # 0

IInv ==
  /\ TypeOK /\ LockDiscipline /\ OwnersCommit /\ CallsAreOfObjects
  /\ NoLostWakeup /\ NewerUntilRead

USE NotifyAssumption DEF Procs, Threads

LEMMA InitInv == Init => IInv
  BY DEF Init, NoCall, IInv, TypeOK, LockDiscipline, OwnersCommit,
         CallsAreOfObjects, NoLostWakeup, NewerUntilRead, Asleep

\* What processes do.
LEMMA ProcStepInv ==
  ASSUME IInv, NEW p \in Procs, ProcStep(p)
  PROVE  IInv'
<1> USE DEF IInv, TypeOK, LockDiscipline, OwnersCommit, CallsAreOfObjects,
            NoLostWakeup, NewerUntilRead, Asleep, IsNewer, Found, GoTo
<1>1. CASE Insert(p)
  BY <1>1 DEF Insert
<1>2. CASE CommitPrepare(p)
  BY <1>2 DEF CommitPrepare, Lock
<1>3. CASE Publish(p)
  BY <1>3 DEF Publish
<1>4. CASE DoNotify(p)
  BY <1>4 DEF DoNotify, Unlock
<1>5. CASE DeleteMark(p)
  <2>1. TypeOK'
    <3>1. PICK i \in BOOLEAN :
            slot' = [slot EXCEPT !.deleted = TRUE,
                                 !.oid = IF i \/ slot.immediately_delete THEN 0 ELSE @]
      BY <1>5 DEF DeleteMark
    <3>2. /\ slot'.oid \in 0 .. oid_next - 1 /\ slot'.deleted = TRUE
          /\ slot' = [slot EXCEPT !.deleted = TRUE, !.oid = slot'.oid]
      BY <3>1
    <3>3. QED
      BY <1>5, <3>2 DEF DeleteMark
  <2>2. slot'.deleted /\ slot'.latest = slot.latest /\ slot'.oid \in {0, slot.oid}
    BY <1>5 DEF DeleteMark
  <2>3. pc'[p] = "deleted" /\ \A t \in Threads \ {p} : pc'[t] = pc[t]
    BY <1>5 DEF DeleteMark
  <2>4. UNCHANGED <<notify_lock, no_notifies, call>>
    BY <1>5 DEF DeleteMark
  <2>5. (LockDiscipline /\ OwnersCommit /\ CallsAreOfObjects)'
    BY <2>3, <2>4 DEF LockDiscipline, OwnersCommit, CallsAreOfObjects, Asleep
  <2>6. NoLostWakeup'
    BY <2>2, <2>3 DEF NoLostWakeup, IsNewer, Found
  <2>7. NewerUntilRead'
    BY <2>2, <2>3, <2>4 DEF CallsAreOfObjects, NewerUntilRead
  <2>8. QED
    BY <2>1, <2>5, <2>6, <2>7
<1>6. CASE DeletePrepare(p)
  BY <1>6 DEF DeletePrepare, Lock
<1>7. CASE Die(p)
  BY <1>7 DEF Die
<1>8. QED
  BY <1>1, <1>2, <1>3, <1>4, <1>5, <1>6, <1>7 DEF ProcStep

\* What waiters do.
LEMMA WaiterStepInv ==
  ASSUME IInv, NEW w \in Waiters, WaiterStep(w)
  PROVE  IInv'
<1> USE DEF IInv, TypeOK, LockDiscipline, OwnersCommit, CallsAreOfObjects,
            NoLostWakeup, NewerUntilRead, Asleep, IsNewer, Found, GoTo
<1>1. CASE WaitCall(w)
  BY <1>1 DEF WaitCall
<1>2. CASE WaitPrepare(w)
  BY <1>2 DEF WaitPrepare, Lock
<1>3. CASE FindNewer(w)
  BY <1>3 DEF FindNewer, WaitDone, Unlock
<1>4. CASE FindDeleted(w)
  BY <1>4 DEF FindDeleted, WaitDone, Unlock, Return, NoCall
<1>5. CASE FindNothing(w)
  BY <1>5 DEF FindNothing, WaitDone, Unlock
<1>6. CASE PollOverwritten(w)
  BY <1>6 DEF PollOverwritten, Return, NoCall
<1>7. CASE WakeSpuriously(w)
  BY <1>7 DEF WakeSpuriously
<1>8. CASE WaitAgain(w) \/ PollAgain(w)
  BY <1>8 DEF WaitAgain, PollAgain
<1>9. CASE Timeout(w) \/ ReadAgain(w)
  BY <1>9 DEF Timeout, ReadAgain, Return, NoCall
<1>10. QED
  BY <1>1, <1>2, <1>3, <1>4, <1>5, <1>6, <1>7, <1>8, <1>9 DEF WaiterStep

\* The invariant is inductive (all of RtdbNotify's steps, objdata.c:150-170 and
\* 826-896, objmeta.c:660-671).
THEOREM Inductive == Spec => []IInv
<1>1. ASSUME IInv, [Next]_vars PROVE IInv'
  <2>1. CASE \E p \in Procs : ProcStep(p)
    BY <1>1, <2>1, ProcStepInv
  <2>2. CASE \E w \in Waiters : WaiterStep(w)
    BY <1>1, <2>2, WaiterStepInv
  <2>3. CASE Purge
    BY <1>1, <2>3 DEF Purge, IInv, TypeOK, LockDiscipline, OwnersCommit,
       CallsAreOfObjects, NoLostWakeup, NewerUntilRead, Asleep, IsNewer, Found
  <2>4. CASE UNCHANGED vars
    BY <1>1, <2>4 DEF vars, IInv, TypeOK, LockDiscipline, OwnersCommit,
       CallsAreOfObjects, NoLostWakeup, NewerUntilRead, Asleep, IsNewer, Found
  <2>5. QED
    BY <1>1, <2>1, <2>2, <2>3, <2>4 DEF Next
<1>2. QED
  BY InitInv, <1>1, PTL DEF Spec

\* Every variable keeps its type: no call is of an object or a time that never was
\* (objdata.c:824-896, objmeta.c:660-671).
THEOREM TypeAlways == Spec => []TypeOK
BY Inductive, PTL DEF IInv

\* No waiter sleeps through a commit or a deletion, with or without crashes
\* (objdata.c:155-170, 829-863; objmeta.c:667-671).
THEOREM NothingSleptThrough == Spec => []NoLostWakeup
BY Inductive, PTL DEF IInv

\* What ended the wait stays newer than old_ts until the block is read
\* (objdata.c:836, 892).
THEOREM NewerAlways == Spec => []NewerUntilRead
BY Inductive, PTL DEF IInv
=============================================================================
