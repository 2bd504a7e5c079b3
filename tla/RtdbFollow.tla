----------------------------- MODULE RtdbFollow -----------------------------
(***************************************************************************)
(* A C++ program that follows another process by its process object: the   *)
(* owner commits a status in every cycle, the follower wants each of them  *)
(* (kogmo_rtdb_obj_base_classes.hxx, C3_Process and A2_Image in            *)
(* kogmo_rtdb_obj_base_system_classes.hxx).                                *)
(*                                                                         *)
(* A method is a sequence of reads without lock, and between any two of    *)
(* them the owner commits.  Block n is the one committed at time n.  One   *)
(* reading of a commit time is one step here; its words are in RtdbRing.   *)
(* The follower is done before a deleted object is purged.                 *)
(***************************************************************************)
EXTENDS Integers, Sequences

CONSTANTS
  RingSize,   \* history_size of the object
  MaxStatus   \* bound: blocks the owner commits

ASSUME FollowAssumption == RingSize \in Nat \ {0} /\ MaxStatus \in Nat

VARIABLES
  blocks,      \* the block in each slot, 0 while its commit time is invalid
  last,      \* the block history_slot points to, 0 before the first
  writing,   \* where the owner is in a commit
  cycle,     \* for each block: is its status CYCLEDONE
  gone,      \* the object is deleted
  handle,    \* the object in the follower's memory: commit time and block, 0 a mixture
  pointer,   \* read_ptr and read_ptr_ts of an image; moved: a getData that failed has
             \* set the first without the second
  method,    \* what the follower has called,
  at_read,   \* where it is,
  old,       \* its old_ts,
  begun,     \* the block in the handle when it was called,
  caught,    \* and whether it has caught an exception
  used,      \* the blocks seen through the pointer, 0 a mixture, and was it moved
  rd, first, slot, pick, seen  \* its read: what is asked for; the slots the walk began
                               \* at, is at, and would take; the time read in pick

ownerVars == <<blocks, last, writing, cycle, gone>>
walkVars == <<first, slot, pick, seen>>
methodVars == <<method, old, begun, caught>>
followVars == <<ownerVars, handle, pointer, used, at_read, rd, walkVars, methodVars>>

RingSlots == 0 .. RingSize - 1
SlotOf(n) == (n - 1) % RingSize
Methods == {"none", "waitnext", "successor", "predecessor", "cycle", "image"}

FollowInit ==
  /\ blocks = [k \in RingSlots |-> 0] /\ last = 0 /\ writing = "no"
  /\ cycle = <<>> /\ gone = FALSE
  /\ handle = [ts |-> 0, block |-> 0] /\ pointer = [ts |-> 0, slot |-> 0, moved |-> FALSE]
  /\ method = "none" /\ at_read = <<"out", "ok">> /\ used = {}
  /\ old = 0 /\ begun = 0 /\ caught = FALSE
  /\ rd = [mode |-> "last", ts |-> 0] /\ first = 0 /\ slot = 0 /\ pick = 0 /\ seen = 0

-----------------------------------------------------------------------------
(* The owner *)

BeginStatus ==
  /\ ~gone /\ writing = "no" /\ last < MaxStatus
  /\ writing' = "body" /\ blocks' = [blocks EXCEPT ![SlotOf(last + 1)] = 0]
  /\ UNCHANGED <<last, cycle, gone>>

StampStatus ==
  /\ writing = "body" /\ writing' = "stamped"
  /\ blocks' = [blocks EXCEPT ![SlotOf(last + 1)] = last + 1]
  /\ \E done \in BOOLEAN : cycle' = Append(cycle, done)
  /\ UNCHANGED <<last, gone>>

CommitStatus ==
  /\ writing = "stamped" /\ writing' = "no" /\ last' = last + 1
  /\ UNCHANGED <<blocks, cycle, gone>>

\* The owner disconnects.
Leave ==
  /\ ~gone /\ writing = "no" /\ gone' = TRUE
  /\ UNCHANGED <<blocks, last, writing, cycle>>

Owner ==
  /\ BeginStatus \/ StampStatus \/ CommitStatus \/ Leave
  /\ UNCHANGED <<handle, pointer, used, at_read, rd, walkVars, methodVars>>

-----------------------------------------------------------------------------
(* One read of the library, on behalf of what the method does next *)

At(then, step) == at_read = <<then, step>>
Goes(then, step) == at_read' = <<then, step>>
Asks(then, mode, ts) == rd' = [mode |-> mode, ts |-> ts] /\ Goes(then, "first")

\* The reads that fill the handle, and those of a pointer; the others want the header.
IntoHandle(then) == \/ then \in {"younger", "older", "catch"}
                    \/ then = "data" /\ method = "waitnext"
ByPointer == {"get", "valid?"}

\* The walk goes on from a slot whose commit time is t.
WalksOn(t) ==
  CASE rd.mode = "last"    -> rd.ts # 0 /\ t > rd.ts
    [] rd.mode = "older"   -> t >= rd.ts
    [] rd.mode = "younger" -> t > rd.ts

ReadFirst(then) ==
  LET k == SlotOf(last) t == blocks[k] IN
  /\ At(then, "first")
  /\ first' = k /\ slot' = k /\ pick' = k /\ seen' = t
  /\ Goes(then, IF \/ t = 0
                   \/ rd.mode = "last" /\ rd.ts = 0 /\ gone
                   \/ rd.mode = "younger" /\ t <= rd.ts
                THEN "notfound" ELSE IF WalksOn(t) THEN "walk" ELSE "copy")
  /\ UNCHANGED <<handle, pointer>>

\* The slot before. The history ends where the walk began, or at an invalid slot.
ReadBefore(then) ==
  LET k == (slot - 1) % RingSize t == blocks[k] IN
  /\ At(then, "walk") /\ slot' = k
  /\ IF k = first \/ t = 0
     THEN /\ Goes(then, IF rd.mode = "younger" THEN "copy" ELSE "notfound")
          /\ UNCHANGED <<pick, seen>>
     ELSE /\ Goes(then, IF WalksOn(t) THEN "walk" ELSE "copy")
          /\ IF rd.mode # "younger" \/ WalksOn(t) THEN pick' = k /\ seen' = t
             ELSE UNCHANGED <<pick, seen>>
  /\ UNCHANGED <<first, handle, pointer>>

\* The copy, with the commit time that is there after it; or the pointer, and a look at
\* the commit time through it.
ReadCopy(then) ==
  LET t == blocks[pick]
      whole == IF then \in ByPointer THEN t = handle.ts ELSE t = seen
  IN
  /\ At(then, "copy")
  /\ Goes(then, IF whole THEN "ok" ELSE "wrap")
  /\ handle' = IF IntoHandle(then) THEN [ts |-> t, block |-> IF whole THEN t ELSE 0]
               ELSE handle
  /\ pointer' = IF then \in ByPointer
                THEN [ts |-> IF whole THEN t ELSE pointer.ts, slot |-> pick, moved |-> ~whole]
                ELSE pointer
  /\ UNCHANGED walkVars

ReadStep ==
  /\ \E then \in {"header", "data", "younger", "still", "older", "catch", "get", "valid?"} :
       ReadFirst(then) \/ ReadBefore(then) \/ ReadCopy(then)
  /\ UNCHANGED <<ownerVars, used, rd, methodVars>>

-----------------------------------------------------------------------------
(* The methods *)

Return ==
  /\ method' = "none" /\ Goes("out", "ok") /\ rd' = [mode |-> "last", ts |-> 0]
  /\ old' = 0 /\ begun' = 0 /\ caught' = FALSE

\* An exception ends the method, or WaitSuccessiveCycleDone catches it and reads the
\* latest block.
Throw ==
  IF method = "cycle" /\ ~At("catch", "notfound") /\ ~At("catch", "wrap")
  THEN caught' = TRUE /\ Asks("catch", "last", 0) /\ UNCHANGED <<method, old, begun>>
  ELSE Return

NotRead(then) == At(then, "notfound") \/ At(then, "wrap")

\* RTDBReadWaitNext, RTDBReadWaitSuccessor and WaitSuccessiveCycleDone begin by waiting
\* for a block younger than the one in the handle.
CallWait(m) ==
  /\ method = "none" /\ m \in {"waitnext", "successor", "cycle"}
  /\ method' = m /\ old' = handle.ts /\ begun' = handle.block /\ caught' = FALSE
  /\ Asks("header", "last", 0)
  /\ UNCHANGED <<pointer, used>>

\* readdata_waitnext looks at the header, and sleeps or reads on.
LookAtHeader ==
  /\ \/ At("header", "ok") /\ old < seen /\ Asks("data", "last", 0) /\ UNCHANGED methodVars
     \/ /\ (At("header", "ok") /\ old >= seen) \/ (At("header", "notfound") /\ ~gone)
        /\ Goes("header", "asleep") /\ UNCHANGED <<rd, methodVars>>
     \/ At("header", "asleep") /\ (last > old \/ gone)
        /\ Asks("header", "last", 0) /\ UNCHANGED methodVars
     \/ At("header", "notfound") /\ gone /\ Throw
     \/ At("header", "wrap") /\ Throw
  /\ UNCHANGED <<pointer, used>>

\* What the wait was for: RTDBReadYounger.
LatestInstead == Asks("younger", "last", 0)                          \* a mutant
NextStatus == Asks("younger", "younger", old)

AfterWait ==
  /\ \/ NotRead("data") /\ Throw
     \/ At("data", "ok") /\ method = "waitnext" /\ Return
     \/ At("data", "ok") /\ method # "waitnext"
        /\ NextStatus /\ UNCHANGED methodVars
  /\ UNCHANGED <<pointer, used>>

\* isValid: the block is one step younger only if the old one is still there.
TakeItSo == Goes("still", "ok") /\ UNCHANGED rd                       \* a mutant
LookForOld == Asks("still", "last", old)

Succeed ==
  /\ \/ NotRead("younger") /\ Throw
     \/ At("younger", "ok") /\ LookForOld /\ UNCHANGED methodVars
     \/ NotRead("still") /\ Throw
     \/ At("still", "ok") /\ method = "successor" /\ Return
  /\ UNCHANGED <<pointer, used>>

\* The loop of WaitSuccessiveCycleDone, over one successor or caught exception.
CycleStatus ==
  /\ (At("still", "ok") /\ method = "cycle") \/ At("catch", "ok")
  /\ IF cycle[handle.block] THEN Return
     ELSE old' = handle.ts /\ Asks("header", "last", 0) /\ UNCHANGED <<method, begun, caught>>
  /\ UNCHANGED <<pointer, used>>

CycleFails == NotRead("catch") /\ Throw /\ UNCHANGED <<pointer, used>>

Predecessor ==
  /\ \/ /\ method = "none" /\ method' = "predecessor"
        /\ old' = handle.ts /\ begun' = handle.block /\ caught' = FALSE
        /\ Asks("older", "older", handle.ts)
     \/ NotRead("older") /\ Throw
     \/ At("older", "ok") /\ Return
  /\ UNCHANGED <<pointer, used>>

\* getData: the pointer of last time, if it was for this block; else a new one.
GetData ==
  /\ \/ /\ method = "none" /\ handle.block # 0
        /\ method' = "image" /\ used' = {} /\ UNCHANGED <<old, begun, caught>>
        /\ IF pointer.ts = handle.ts THEN Goes("get", "ok") /\ UNCHANGED rd
           ELSE Asks("get", "last", handle.ts)
     \/ NotRead("get") /\ Throw /\ UNCHANGED used
  /\ UNCHANGED pointer

UseData ==
  /\ At("get", "ok") /\ used' = used \cup {<<blocks[pointer.slot], pointer.moved>>}
  /\ UNCHANGED <<pointer, at_read, rd, methodVars>>

\* isDataValid forgets the time of the pointer, so that getData looks again.
KeepPointer == Goes("valid?", "ok") /\ UNCHANGED <<pointer, rd>>       \* a mutant
ForgetPointer == pointer' = [pointer EXCEPT !.ts = 0] /\ Asks("valid?", "last", handle.ts)

IsDataValid ==
  /\ \/ At("get", "ok") /\ ForgetPointer /\ UNCHANGED methodVars
     \/ NotRead("valid?") /\ Return /\ UNCHANGED pointer
     \/ At("valid?", "ok") /\ Return /\ UNCHANGED pointer
  /\ UNCHANGED used

Follower ==
  /\ \/ \E m \in Methods : CallWait(m)
     \/ LookAtHeader \/ AfterWait \/ Succeed \/ CycleStatus \/ CycleFails
     \/ Predecessor \/ GetData \/ UseData \/ IsDataValid
  /\ IF at_read'[2] = "first" \/ method' = "none"
     THEN first' = 0 /\ slot' = 0 /\ pick' = 0 /\ seen' = 0
     ELSE UNCHANGED walkVars
  /\ UNCHANGED <<ownerVars, handle>>

FollowNext == Owner \/ ReadStep \/ Follower

FollowSpec == FollowInit /\ [][FollowNext]_followVars

-----------------------------------------------------------------------------
(* Properties *)

FollowTypeOK ==
  /\ blocks \in [RingSlots -> 0 .. MaxStatus] /\ last \in 0 .. MaxStatus /\ gone \in BOOLEAN
  /\ writing \in {"no", "body", "stamped"} /\ cycle \in Seq(BOOLEAN)
  /\ handle \in [ts : 0 .. MaxStatus, block : 0 .. MaxStatus]
  /\ pointer \in [ts : 0 .. MaxStatus, slot : RingSlots, moved : BOOLEAN]
  /\ used \subseteq (0 .. MaxStatus) \X BOOLEAN
  /\ method \in Methods /\ caught \in BOOLEAN
  /\ {old, begun, seen, rd.ts} \subseteq 0 .. MaxStatus
  /\ {first, slot, pick} \subseteq RingSlots

\* RTDBReadWaitSuccessor and RTDBReadPredecessor return the neighbour of the block that
\* was given, or throw (obj_base_classes.hxx:540-588).
NeighboursAreExact ==
  /\ At("still", "ok") /\ old # 0 => handle.block = old + 1
  /\ At("older", "ok") => handle.block = old - 1

\* WaitSuccessiveCycleDone returns a cycle that is done, and unless it caught an
\* exception there was none between it and the one before (system_classes.hxx:462-482).
CycleIsSuccessive ==
  method = "cycle" /\ method' = "none" /\ (At("still", "ok") \/ At("catch", "ok")) =>
    /\ cycle[handle.block]
    /\ begun # 0 /\ ~caught => \A n \in begun + 1 .. handle.block - 1 : ~cycle[n]

\* A follower that is told of no exception has skipped nothing: neighbours are neighbours,
\* and no finished cycle lies between two that it was given.
NothingIsSkipped == [][NeighboursAreExact' /\ CycleIsSuccessive]_followVars

\* An image that isDataValid confirms was one block whenever it was looked at through the
\* pointer, if that was not the pointer of a getData that failed (system_classes.hxx:
\* 642-675).
ValidImageIsOneBlock == At("valid?", "ok") => \A u \in used : u[2] \/ u[1] = handle.block

\* The same without the condition; no run checks it.  It does not hold: a getData that
\* throws HISTWRAP at line 658 has moved read_ptr and left read_ptr_ts, and for the block
\* of that time the next getData returns the moved pointer at once.
EveryValidImageIsOneBlock == At("valid?", "ok") => \A u \in used : u[1] = handle.block

=============================================================================
