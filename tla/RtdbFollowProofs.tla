-------------------------- MODULE RtdbFollowProofs --------------------------
(***************************************************************************)
(* Proofs about RtdbFollow, for any ring and any number of blocks: what    *)
(* isDataValid confirms was the same block whenever it was looked at, and  *)
(* a follower that is told of no exception has skipped nothing.            *)
(***************************************************************************)
EXTENDS RtdbFollow, TLAPS

Newest == IF writing = "stamped" THEN last + 1 ELSE last

\* Every block is in one slot, and none is newer than the owner's last.
BlocksOK ==
  /\ last \in Nat /\ writing \in {"no", "body", "stamped"}
  /\ blocks = [k \in RingSlots |-> blocks[k]]
  /\ \A k \in RingSlots : blocks[k] \in Nat /\ blocks[k] <= Newest
  /\ \A j, k \in RingSlots : blocks[j] = blocks[k] /\ blocks[j] # 0 => j = k
  /\ {first, slot, pick} \subseteq RingSlots /\ seen \in Nat

HandleOK ==
  /\ handle = [ts |-> handle.ts, block |-> handle.block]
  /\ handle.ts \in Nat /\ handle.ts <= Newest /\ handle.block \in {0, handle.ts}

\* If the block of the pointer is anywhere, it is where the pointer points to.
PointerOK ==
  /\ pointer = [ts |-> pointer.ts, slot |-> pointer.slot, moved |-> pointer.moved]
  /\ pointer.ts \in Nat /\ pointer.ts <= Newest
  /\ pointer.slot \in RingSlots /\ pointer.moved \in BOOLEAN
  /\ ~pointer.moved /\ pointer.ts # 0 =>
       \A k \in RingSlots : blocks[k] = pointer.ts => k = pointer.slot

\* An image is looked at while the handle has its block.
ImageOK ==
  /\ at_read = <<at_read[1], at_read[2]>>
  /\ at_read[1] \in ByPointer <=> method = "image"
  /\ method = "image" => handle.block # 0
  /\ At("get", "ok") => pointer.ts = handle.ts

\* Once something else was seen through the pointer, the block has gone for good.
IsGone(n) == \A k \in RingSlots : blocks[k] # n
UsedOK ==
  method = "image" =>
    \A u \in used : u[2] \/ u[1] = handle.block \/ IsGone(handle.block)

FollowInv ==
  BlocksOK /\ HandleOK /\ PointerOK /\ ImageOK /\ UsedOK /\ ValidImageIsOneBlock

LEMMA SlotsAreSlots ==
  /\ RingSize \in Nat \ {0}
  /\ \A n \in Int : n % RingSize \in RingSlots
  BY FollowAssumption DEF RingSlots

LEMMA FollowInitInv == FollowInit => FollowInv
<1> SUFFICES ASSUME FollowInit PROVE FollowInv
  OBVIOUS
<1>1. 0 \in RingSlots
  BY SlotsAreSlots DEF RingSlots
<1>2. BlocksOK
  <2>1. \A j, k \in RingSlots : blocks[j] = 0 /\ blocks[k] = 0
    BY DEF FollowInit
  <2>2. QED
    BY <1>1, <2>1 DEF FollowInit, BlocksOK, Newest
<1>3. HandleOK /\ PointerOK
  BY <1>1 DEF FollowInit, HandleOK, PointerOK, Newest
<1>4. ImageOK /\ UsedOK /\ ValidImageIsOneBlock
  BY DEF FollowInit, ImageOK, UsedOK, ValidImageIsOneBlock, At, ByPointer
<1>5. QED
  BY <1>2, <1>3, <1>4 DEF FollowInv

\* The owner makes slots invalid and stamps them with blocks nobody has seen.
LEMMA OwnerStepInv == ASSUME FollowInv, Owner PROVE FollowInv'
<1>1. UNCHANGED <<handle, pointer, used, at_read, rd, first, slot, pick, seen, method>>
  BY DEF Owner, walkVars, methodVars
<1>2. last \in Nat /\ SlotOf(last + 1) \in RingSlots
  BY SlotsAreSlots DEF FollowInv, BlocksOK, SlotOf
<1>3. /\ last' \in Nat /\ writing' \in {"no", "body", "stamped"}
      /\ Newest \in Nat /\ Newest' \in Nat /\ Newest <= Newest'
      /\ blocks' = [k \in RingSlots |-> blocks'[k]]
      /\ \A k \in RingSlots :
           \/ blocks'[k] = blocks[k] \/ blocks'[k] = 0
           \/ k = SlotOf(last + 1) /\ blocks'[k] = Newest' /\ Newest' > Newest
  <2>1. CASE BeginStatus
    BY <1>2, <2>1 DEF BeginStatus, FollowInv, BlocksOK, Newest
  <2>2. CASE StampStatus
    BY <1>2, <2>2 DEF StampStatus, FollowInv, BlocksOK, Newest
  <2>3. CASE CommitStatus \/ Leave
    BY <1>2, <2>3 DEF CommitStatus, Leave, FollowInv, BlocksOK, Newest
  <2>4. QED
    BY <2>1, <2>2, <2>3 DEF Owner
<1>4. \A k \in RingSlots : blocks[k] \in Nat /\ blocks[k] <= Newest
  BY DEF FollowInv, BlocksOK
<1>5. \A n \in Nat : n <= Newest /\ n # 0 =>
        \A k \in RingSlots : blocks'[k] = n => blocks[k] = n
  BY <1>3, <1>4
<1>6. BlocksOK'
  <2>1. \A k \in RingSlots : blocks'[k] \in Nat /\ blocks'[k] <= Newest'
    BY <1>3, <1>4
  <2>2. ASSUME NEW j \in RingSlots, NEW k \in RingSlots, blocks'[j] = blocks'[k], blocks'[j] # 0
        PROVE  j = k
    <3>1. CASE blocks'[j] <= Newest
      BY <1>5, <2>1, <2>2, <3>1 DEF FollowInv, BlocksOK
    <3>2. CASE blocks'[j] > Newest
      BY <1>3, <1>4, <2>2, <3>2
    <3>3. QED
      BY <1>3, <2>1, <3>1, <3>2
  <2>3. QED
    BY <1>1, <1>3, <2>1, <2>2 DEF FollowInv, BlocksOK
<1>7. HandleOK'
  BY <1>1, <1>3 DEF FollowInv, HandleOK
<1>8. PointerOK'
  <2>1. pointer.ts \in Nat /\ pointer.ts <= Newest
    BY DEF FollowInv, PointerOK
  <2>2. pointer.ts <= Newest'
    BY <1>3, <2>1
  <2>3. QED
    BY <1>1, <1>5, <2>1, <2>2 DEF FollowInv, PointerOK
<1>9. ImageOK' /\ ValidImageIsOneBlock'
  BY <1>1 DEF FollowInv, ImageOK, ValidImageIsOneBlock, At
<1>10. UsedOK'
  <2>1. handle.block # 0 => (IsGone(handle.block) => IsGone(handle.block)')
    BY <1>1, <1>5 DEF FollowInv, HandleOK, IsGone
  <2>2. QED
    BY <1>1, <2>1 DEF FollowInv, UsedOK, ImageOK
<1>11. QED
  BY <1>6, <1>7, <1>8, <1>9, <1>10 DEF FollowInv

\* A read by pointer moves the pointer, any other leaves it and the image alone.
LEMMA ReadStepInv == ASSUME FollowInv, ReadStep PROVE FollowInv'
<1>1. UNCHANGED <<blocks, last, writing, used, method>>
  BY DEF ReadStep, ownerVars, methodVars
<1>2. PICK then \in {"header", "data", "younger", "still", "older", "catch", "get", "valid?"} :
        ReadFirst(then) \/ ReadBefore(then) \/ ReadCopy(then)
  BY DEF ReadStep
<1>3. at_read[1] = then /\ at_read'[1] = then /\ at_read' = <<at_read'[1], at_read'[2]>>
  BY <1>2 DEF ReadFirst, ReadBefore, ReadCopy, At, Goes
<1>4. Newest' = Newest /\ Newest \in Nat
  BY <1>1 DEF Newest, FollowInv, BlocksOK
<1>5. /\ first \in RingSlots /\ slot \in RingSlots /\ pick \in RingSlots /\ seen \in Nat
      /\ last \in Nat /\ \A k \in RingSlots : blocks[k] \in Nat /\ blocks[k] <= Newest
  BY DEF FollowInv, BlocksOK
<1>6. SlotOf(last) \in RingSlots /\ (slot - 1) % RingSize \in RingSlots
  BY SMTT(30), <1>5, SlotsAreSlots DEF SlotOf, RingSlots
<1>7. CASE ReadFirst(then) \/ ReadBefore(then)
  <2>1. UNCHANGED <<handle, pointer>>
    BY <1>7 DEF ReadFirst, ReadBefore
  <2>2. at_read'[2] # "ok"
    BY <1>7 DEF ReadFirst, ReadBefore, Goes
  <2>3. {first', slot', pick'} \subseteq RingSlots /\ seen' \in Nat
    BY <1>5, <1>6, <1>7 DEF ReadFirst, ReadBefore
  <2>4. BlocksOK'
    BY <1>1, <1>4, <2>3 DEF FollowInv, BlocksOK
  <2>5. HandleOK' /\ PointerOK'
    BY <1>1, <1>4, <2>1 DEF FollowInv, HandleOK, PointerOK
  <2>6. ImageOK' /\ ValidImageIsOneBlock'
    BY <1>1, <1>3, <2>1, <2>2 DEF FollowInv, ImageOK, ValidImageIsOneBlock, At
  <2>7. UsedOK'
    BY <1>1, <2>1 DEF FollowInv, UsedOK, IsGone
  <2>8. QED
    BY <2>4, <2>5, <2>6, <2>7 DEF FollowInv
<1>8. CASE ReadCopy(then)
  <2> DEFINE t == blocks[pick]
  <2>1. t \in Nat /\ t <= Newest
    BY <1>5
  <2>2. UNCHANGED <<first, slot, pick, seen>>
    BY <1>8 DEF ReadCopy, walkVars
  <2>3. BlocksOK'
    BY <1>1, <1>4, <2>2 DEF FollowInv, BlocksOK
  <2>4. CASE then \in ByPointer
    <3>1. /\ handle' = handle
          /\ at_read' = <<then, IF t = handle.ts THEN "ok" ELSE "wrap">>
          /\ pointer' = [ts |-> IF t = handle.ts THEN t ELSE pointer.ts, slot |-> pick,
                         moved |-> t # handle.ts]
          /\ method = "image" /\ handle.block # 0 /\ handle.block = handle.ts
      BY <1>3, <1>8, <2>4 DEF ReadCopy, Goes, IntoHandle, ByPointer, FollowInv, ImageOK, HandleOK
    <3>2. HandleOK'
      BY <1>4, <3>1 DEF FollowInv, HandleOK
    <3>3. PointerOK'
      BY <1>1, <1>4, <1>5, <2>1, <3>1 DEF FollowInv, PointerOK, BlocksOK
    <3>4. ImageOK'
      BY <1>1, <1>3, <2>4, <3>1 DEF FollowInv, ImageOK, At
    <3>5. UsedOK'
      BY <1>1, <3>1 DEF FollowInv, UsedOK, IsGone
    <3>6. ValidImageIsOneBlock'
      <4>1. t = handle.ts => ~IsGone(handle.block)
        BY <1>5, <3>1 DEF IsGone
      <4>2. QED
        BY <1>1, <3>1, <4>1 DEF FollowInv, UsedOK, ValidImageIsOneBlock, At
    <3>7. QED
      BY <2>3, <3>2, <3>3, <3>4, <3>5, <3>6 DEF FollowInv
  <2>5. CASE then \notin ByPointer
    <3>1. pointer' = pointer /\ method # "image" /\ method' # "image"
      BY <1>1, <1>3, <1>8, <2>5 DEF ReadCopy, FollowInv, ImageOK
    <3>2. \/ handle' = handle
          \/ \E b \in {0, t} : handle' = [ts |-> t, block |-> b]
      BY <1>8 DEF ReadCopy
    <3>3. HandleOK' /\ PointerOK'
      BY <1>1, <1>4, <2>1, <3>1, <3>2 DEF FollowInv, HandleOK, PointerOK
    <3>4. ImageOK' /\ UsedOK' /\ ValidImageIsOneBlock'
      BY <1>3, <2>5, <3>1 DEF ImageOK, UsedOK, ValidImageIsOneBlock, At, ByPointer
    <3>5. QED
      BY <2>3, <3>3, <3>4 DEF FollowInv
  <2>6. QED
    BY <2>4, <2>5
<1>9. QED
  BY <1>2, <1>7, <1>8

\* The methods without a pointer begin and end outside an image.
LEMMA OtherMethodStep ==
  ASSUME ImageOK,
         \/ \E m \in Methods : CallWait(m)
         \/ LookAtHeader \/ AfterWait \/ Succeed \/ CycleStatus \/ CycleFails \/ Predecessor
  PROVE  /\ UNCHANGED <<pointer, used>>
         /\ at_read' = <<at_read'[1], at_read'[2]>>
         /\ method' # "image" /\ at_read'[1] \notin ByPointer
<1>1. Throw => \/ method' = method /\ at_read' = <<"catch", "first">>
               \/ method' = "none" /\ at_read' = <<"out", "ok">>
  BY DEF Throw, Return, Asks, Goes
<1>2. Return => method' = "none" /\ at_read' = <<"out", "ok">>
  BY DEF Return, Goes
<1>3. method = "image" => at_read[1] \in {"get", "valid?"}
  BY DEF ImageOK, ByPointer
<1>4. CASE \E m \in Methods : CallWait(m)
  BY <1>4 DEF CallWait, Asks, Goes, ByPointer
<1>5. CASE LookAtHeader
  BY <1>1, <1>3, <1>5 DEF LookAtHeader, Asks, Goes, At, ByPointer, methodVars
<1>6. CASE AfterWait
  BY <1>1, <1>2, <1>3, <1>6 DEF AfterWait, NextStatus, NotRead, Asks, Goes, At, ByPointer, methodVars
<1>7. CASE Succeed
  BY <1>1, <1>2, <1>3, <1>7 DEF Succeed, LookForOld, NotRead, Asks, Goes, At, ByPointer, methodVars
<1>8. CASE CycleStatus
  BY <1>1, <1>2, <1>3, <1>8 DEF CycleStatus, Asks, Goes, At, ByPointer
<1>9. CASE CycleFails
  BY <1>1, <1>3, <1>9 DEF CycleFails, NotRead, At, ByPointer
<1>10. CASE Predecessor
  BY <1>1, <1>2, <1>3, <1>10 DEF Predecessor, NotRead, Asks, Goes, At, ByPointer
<1>11. QED
  BY <1>4, <1>5, <1>6, <1>7, <1>8, <1>9, <1>10

LEMMA ImageStepInv ==
  ASSUME FollowInv, UNCHANGED <<blocks, last, writing, handle>>,
         GetData \/ UseData \/ IsDataValid
  PROVE  PointerOK' /\ ImageOK' /\ UsedOK' /\ ValidImageIsOneBlock'
<1>1. Newest' = Newest /\ Newest \in Nat
  BY DEF Newest, FollowInv, BlocksOK
<1>2. Return => method' = "none" /\ at_read' = <<"out", "ok">>
  BY DEF Return, Goes
<1>3. Throw => \/ method' = method /\ method = "cycle" /\ at_read' = <<"catch", "first">>
               \/ method' = "none" /\ at_read' = <<"out", "ok">>
  BY DEF Throw, Return, Asks, Goes
<1>4. /\ handle.block # 0 => handle.block = handle.ts
      /\ method = "image" => handle.block # 0
      /\ at_read[1] \in ByPointer => method = "image"
  BY DEF FollowInv, HandleOK, ImageOK
<1>5. CASE \/ pointer' = pointer
           \/ pointer' = [pointer EXCEPT !.ts = 0]
  <2>1. CASE GetData
    <3>1. CASE method = "none" /\ handle.block # 0 /\ method' = "image" /\ used' = {}
      <4>1. pointer' = pointer /\ \/ at_read' = <<"get", "ok">> /\ pointer.ts = handle.ts
                                  \/ at_read' = <<"get", "first">>
        BY <2>1, <3>1, <1>4 DEF GetData, Goes, Asks, NotRead, At, ByPointer
      <4>2. QED
        BY <1>1, <3>1, <4>1 DEF FollowInv, PointerOK, ImageOK, UsedOK, ValidImageIsOneBlock, At,
                                ByPointer
    <3>2. CASE method' = "none" /\ at_read' = <<"out", "ok">> /\ pointer' = pointer
      BY <1>1, <3>2 DEF FollowInv, PointerOK, ImageOK, UsedOK, ValidImageIsOneBlock, At, ByPointer
    <3>3. CASE NotRead("get") /\ Throw
      BY <1>2, <1>3, <1>4, <2>1, <3>2, <3>3 DEF GetData, NotRead, At, ByPointer
    <3>4. QED
      BY <2>1, <3>1, <3>3 DEF GetData
  <2>2. CASE UseData
    <3>1. /\ At("get", "ok") /\ used' = used \cup {<<blocks[pointer.slot], pointer.moved>>}
          /\ UNCHANGED <<pointer, at_read, method>>
      BY <2>2 DEF UseData, methodVars
    <3>2. method = "image" /\ pointer.ts = handle.ts /\ handle.block = handle.ts /\ handle.ts # 0
      BY <1>4, <3>1 DEF FollowInv, ImageOK, At, ByPointer
    <3>3. \/ pointer.moved \/ blocks[pointer.slot] = handle.block \/ IsGone(handle.block)
      BY <3>2 DEF FollowInv, PointerOK, IsGone
    <3>4. UsedOK'
      BY <3>1, <3>2, <3>3 DEF FollowInv, UsedOK, IsGone
    <3>5. PointerOK' /\ ImageOK'
      BY <1>1, <3>1 DEF FollowInv, PointerOK, ImageOK, At
    <3>6. ValidImageIsOneBlock'
      BY <3>1 DEF ValidImageIsOneBlock, At
    <3>7. QED
      BY <3>4, <3>5, <3>6
  <2>3. CASE IsDataValid
    <3>1. CASE At("get", "ok") /\ ForgetPointer /\ UNCHANGED methodVars
      <4>1. /\ pointer' = [pointer EXCEPT !.ts = 0] /\ at_read' = <<"valid?", "first">>
            /\ method = "image" /\ UNCHANGED <<used, method>>
        BY <1>4, <2>3, <3>1 DEF IsDataValid, ForgetPointer, Asks, Goes, At, ByPointer, methodVars
      <4>2. PointerOK'
        BY <1>1, <4>1 DEF FollowInv, PointerOK
      <4>3. ImageOK' /\ UsedOK' /\ ValidImageIsOneBlock'
        BY <1>4, <4>1 DEF FollowInv, ImageOK, UsedOK, ValidImageIsOneBlock, IsGone, At, ByPointer
      <4>4. QED
        BY <4>2, <4>3
    <3>2. CASE Return /\ UNCHANGED pointer
      BY <1>1, <1>2, <3>2 DEF FollowInv, PointerOK, ImageOK, UsedOK, ValidImageIsOneBlock, At,
                              ByPointer
    <3>3. QED
      BY <2>3, <3>1, <3>2 DEF IsDataValid
  <2>4. QED
    BY <2>1, <2>2, <2>3
<1>6. QED
  BY <1>5 DEF GetData, UseData, IsDataValid, ForgetPointer

LEMMA FollowerStepInv == ASSUME FollowInv, Follower PROVE FollowInv'
<1>1. UNCHANGED <<blocks, last, writing, handle>>
  BY DEF Follower, ownerVars
<1>2. Newest' = Newest
  BY <1>1 DEF Newest
<1>3. 0 \in RingSlots
  BY SlotsAreSlots DEF RingSlots
<1>4. {first', slot', pick'} \subseteq RingSlots /\ seen' \in Nat
  BY <1>3 DEF Follower, walkVars, FollowInv, BlocksOK
<1>5. BlocksOK' /\ HandleOK'
  BY <1>1, <1>2, <1>4 DEF FollowInv, BlocksOK, HandleOK
<1>6. CASE \/ \E m \in Methods : CallWait(m)
           \/ LookAtHeader \/ AfterWait \/ Succeed \/ CycleStatus \/ CycleFails \/ Predecessor
  <2>1. /\ UNCHANGED <<pointer, used>> /\ at_read' = <<at_read'[1], at_read'[2]>>
        /\ method' # "image" /\ at_read'[1] \notin ByPointer
    BY <1>6, OtherMethodStep DEF FollowInv
  <2>2. PointerOK'
    BY <1>1, <1>2, <2>1 DEF FollowInv, PointerOK
  <2>3. ImageOK' /\ UsedOK' /\ ValidImageIsOneBlock'
    BY <2>1 DEF ImageOK, UsedOK, ValidImageIsOneBlock, At, ByPointer
  <2>4. QED
    BY <1>5, <2>2, <2>3 DEF FollowInv
<1>7. CASE GetData \/ UseData \/ IsDataValid
  BY <1>1, <1>5, <1>7, ImageStepInv DEF FollowInv
<1>8. QED
  BY <1>6, <1>7 DEF Follower

LEMMA FollowAlways == FollowSpec => []FollowInv
<1>1. FollowInv /\ [FollowNext]_followVars => FollowInv'
  <2> SUFFICES ASSUME FollowInv, [FollowNext]_followVars PROVE FollowInv'
    OBVIOUS
  <2>1. CASE FollowNext
    BY <2>1, OwnerStepInv, ReadStepInv, FollowerStepInv DEF FollowNext
  <2>2. CASE UNCHANGED followVars
    BY <2>2 DEF followVars, ownerVars, walkVars, methodVars, FollowInv, BlocksOK, HandleOK, PointerOK,
                ImageOK, UsedOK, ValidImageIsOneBlock, IsGone, Newest, At
  <2>3. QED
    BY <2>1, <2>2
<1>2. QED
  BY <1>1, FollowInitInv, PTL DEF FollowSpec

\* For any ring and however often the owner laps it: an image that isDataValid confirms was
\* the same block whenever it was looked at through the pointer, if no getData that failed
\* had moved the pointer (system_classes.hxx:642-675).
THEOREM ConfirmedImageIsOneBlock == FollowSpec => []ValidImageIsOneBlock
<1>1. FollowInv => ValidImageIsOneBlock
  BY DEF FollowInv
<1>2. QED
  BY <1>1, FollowAlways, PTL

-----------------------------------------------------------------------------
(* Types *)

\* A block that is being committed is one of those that may be.
StatusTyped == FollowTypeOK /\ (writing # "no" => last < MaxStatus)

LEMMA OwnerTyped == ASSUME FollowInv, StatusTyped, Owner PROVE StatusTyped'
<1> USE DEF StatusTyped, FollowTypeOK
<1>1. UNCHANGED <<handle, pointer, used, rd, first, slot, pick, seen, method, old, begun, caught>>
  BY DEF Owner, walkVars, methodVars
<1>2. SlotOf(last + 1) \in RingSlots /\ MaxStatus \in Nat /\ 0 \in 0 .. MaxStatus
  <2>1. last \in Nat /\ MaxStatus \in Nat /\ 0 \in 0 .. MaxStatus
    BY FollowAssumption
  <2>2. SlotOf(last + 1) \in RingSlots
    BY ONLY <2>1, SlotsAreSlots DEF SlotOf
  <2>3. QED
    BY <2>1, <2>2
<1>3. /\ last' \in 0 .. MaxStatus /\ gone' \in BOOLEAN /\ writing' \in {"no", "body", "stamped"}
      /\ cycle' \in Seq(BOOLEAN) /\ (writing' # "no" => last' < MaxStatus)
  <2>1. CASE BeginStatus
    BY <2>1 DEF BeginStatus
  <2>2. CASE StampStatus
    BY <2>2 DEF StampStatus
  <2>3. CASE CommitStatus
    BY <1>2, <2>3 DEF CommitStatus
  <2>4. CASE Leave
    BY <2>4 DEF Leave
  <2>5. QED
    BY <2>1, <2>2, <2>3, <2>4 DEF Owner
<1>4. blocks' \in [RingSlots -> 0 .. MaxStatus]
  <2>1. PICK n \in 0 .. MaxStatus :
          blocks' = blocks \/ blocks' = [blocks EXCEPT ![SlotOf(last + 1)] = n]
    <3>1. CASE BeginStatus
      BY <1>2, <3>1 DEF BeginStatus
    <3>2. CASE StampStatus
      <4>1. last + 1 \in 0 .. MaxStatus
        BY <1>2, <3>2 DEF StampStatus
      <4>2. QED
        BY <3>2, <4>1 DEF StampStatus
    <3>3. CASE CommitStatus \/ Leave
      BY <1>2, <3>3 DEF CommitStatus, Leave
    <3>4. QED
      BY <3>1, <3>2, <3>3 DEF Owner
  <2>2. QED
    BY <1>2, <2>1
<1>5. QED
  BY <1>1, <1>3, <1>4

LEMMA ReadTyped == ASSUME FollowInv, StatusTyped, ReadStep PROVE StatusTyped'
<1> USE DEF StatusTyped, FollowTypeOK
<1>1. UNCHANGED <<blocks, last, writing, cycle, gone, used, rd, method, old, begun, caught>>
  BY DEF ReadStep, ownerVars, methodVars
<1>2. PICK then \in {"header", "data", "younger", "still", "older", "catch", "get", "valid?"} :
        ReadFirst(then) \/ ReadBefore(then) \/ ReadCopy(then)
  BY DEF ReadStep
<1>3. SlotOf(last) \in RingSlots /\ (slot - 1) % RingSize \in RingSlots
  <2>1. last - 1 \in Int /\ slot - 1 \in Int
    BY DEF RingSlots
  <2>2. QED
    BY <2>1, SlotsAreSlots DEF SlotOf
<1>4. CASE ReadFirst(then) \/ ReadBefore(then)
  <2>1. UNCHANGED <<handle, pointer>>
    BY <1>4 DEF ReadFirst, ReadBefore
  <2>2. {first', slot', pick'} \subseteq RingSlots
    BY <1>3, <1>4 DEF ReadFirst, ReadBefore
  <2>3. seen' \in {seen, blocks[SlotOf(last)], blocks[(slot - 1) % RingSize]}
    BY <1>4 DEF ReadFirst, ReadBefore
  <2>4. seen' \in 0 .. MaxStatus
    BY SMTT(30), <1>3, <2>3
  <2>5. QED
    BY <1>1, <2>1, <2>2, <2>4
<1>5. CASE ReadCopy(then)
  <2>1. UNCHANGED <<first, slot, pick, seen>>
    BY <1>5 DEF ReadCopy, walkVars
  <2>2. blocks[pick] \in 0 .. MaxStatus /\ 0 \in 0 .. MaxStatus
    BY FollowAssumption
  <2>3. handle' \in [ts : 0 .. MaxStatus, block : 0 .. MaxStatus]
    BY <1>5, <2>2 DEF ReadCopy
  <2>4. pointer' \in [ts : 0 .. MaxStatus, slot : RingSlots, moved : BOOLEAN]
    <3>1. pointer.ts \in 0 .. MaxStatus /\ pick \in RingSlots
      OBVIOUS
    <3>2. \/ pointer' = pointer
          \/ \E ts \in {blocks[pick], pointer.ts}, moved \in BOOLEAN :
               pointer' = [ts |-> ts, slot |-> pick, moved |-> moved]
      BY <1>5 DEF ReadCopy
    <3>3. QED
      BY <2>2, <3>1, <3>2
  <2>5. QED
    BY <1>1, <2>1, <2>3, <2>4
<1>6. QED
  BY <1>2, <1>4, <1>5

\* What a step of a method does to its variables.
MethodVarsFrom ==
  /\ method' \in {method} \cup Methods /\ caught' \in {caught} \cup BOOLEAN
  /\ old' \in {0, old, handle.ts} /\ begun' \in {0, begun, handle.block}
  /\ rd'.ts \in {0, rd.ts, old, handle.ts}
  /\ pointer' \in {pointer, [pointer EXCEPT !.ts = 0]}
  /\ used' \in {{}, used, used \cup {<<blocks[pointer.slot], pointer.moved>>}}

LEMMA MethodStepIs ==
  ASSUME \/ \E m \in Methods : CallWait(m)
         \/ LookAtHeader \/ AfterWait \/ Succeed \/ CycleStatus \/ CycleFails
         \/ Predecessor \/ GetData \/ UseData \/ IsDataValid
  PROVE  MethodVarsFrom
<1> USE DEF MethodVarsFrom
<1>1. ASSUME Return
      PROVE  /\ method' \in Methods /\ caught' \in BOOLEAN /\ old' = 0 /\ begun' = 0 /\ rd'.ts = 0
  BY <1>1 DEF Return, Methods
<1>2. ASSUME Throw
      PROVE  /\ method' \in {method} \cup Methods /\ caught' \in BOOLEAN /\ old' \in {0, old}
             /\ begun' \in {0, begun} /\ rd'.ts = 0
  <2>1. Return \/ (/\ method' = method /\ old' = old /\ begun' = begun
                  /\ caught' = TRUE /\ rd' = [mode |-> "last", ts |-> 0])
    BY <1>2 DEF Throw, Asks
  <2>2. CASE Return
    BY <1>1, <2>2
  <2>3. CASE ~Return
    <3>1. method' = method /\ old' = old /\ begun' = begun /\ rd'.ts = 0
      BY <2>1, <2>3
    <3>2. caught' \in BOOLEAN
      BY <2>1, <2>3
    <3>3. QED
      BY <3>1, <3>2
  <2>4. QED
    BY <2>2, <2>3
<1>3. ASSUME NEW m \in Methods, CallWait(m) PROVE MethodVarsFrom
  <2>1. /\ method' = m /\ old' = handle.ts /\ begun' = handle.block /\ caught' = FALSE
        /\ rd' = [mode |-> "last", ts |-> 0] /\ UNCHANGED <<pointer, used>>
    BY <1>3 DEF CallWait, Asks
  <2>2. QED
    BY <2>1
<1>4. CASE LookAtHeader
  BY <1>2, <1>4 DEF LookAtHeader, Asks, methodVars
<1>5. CASE AfterWait
  BY <1>1, <1>2, <1>5 DEF AfterWait, NextStatus, Asks, methodVars
<1>6. CASE Succeed
  BY <1>1, <1>2, <1>6 DEF Succeed, LookForOld, Asks, methodVars
<1>7. CASE CycleStatus
  BY <1>1, <1>7 DEF CycleStatus, Asks
<1>8. CASE CycleFails
  BY <1>2, <1>8 DEF CycleFails
<1>9. CASE Predecessor
  <2>1. CASE Return \/ Throw
    BY <1>1, <1>2, <1>9, <2>1 DEF Predecessor
  <2>2. CASE ~Return /\ ~Throw
    <3>1. /\ method' = "predecessor" /\ old' = handle.ts /\ begun' = handle.block
          /\ caught' = FALSE /\ rd' = [mode |-> "older", ts |-> handle.ts]
          /\ UNCHANGED <<pointer, used>>
      BY <1>9, <2>2 DEF Predecessor, Asks
    <3>2. QED
      BY <3>1 DEF Methods
  <2>3. QED
    BY <2>1, <2>2
<1>10. CASE GetData
  BY <1>2, <1>10 DEF GetData, Asks, Methods
<1>11. CASE UseData
  BY <1>11 DEF UseData, methodVars
<1>12. CASE IsDataValid
  BY <1>1, <1>12 DEF IsDataValid, ForgetPointer, Asks, methodVars
<1>13. QED
  BY <1>3, <1>4, <1>5, <1>6, <1>7, <1>8, <1>9, <1>10, <1>11, <1>12

LEMMA MethodTyped == ASSUME FollowInv, StatusTyped, Follower PROVE StatusTyped'
<1> USE DEF StatusTyped, FollowTypeOK
<1>1. UNCHANGED <<blocks, last, writing, cycle, gone, handle>>
  BY DEF Follower, ownerVars
<1>2. 0 \in 0 .. MaxStatus /\ 0 \in RingSlots
  BY FollowAssumption, SlotsAreSlots DEF RingSlots
<1>3. {first', slot', pick'} \subseteq RingSlots /\ seen' \in 0 .. MaxStatus
  BY <1>2 DEF Follower, walkVars
<1>4. MethodVarsFrom
  BY MethodStepIs DEF Follower
<1>5. method' \in Methods /\ caught' \in BOOLEAN /\ {old', begun', rd'.ts} \subseteq 0 .. MaxStatus
  <2>1. handle.ts \in 0 .. MaxStatus /\ handle.block \in 0 .. MaxStatus
    OBVIOUS
  <2>2. /\ method' \in {method} \cup Methods /\ old' \in {0, old, handle.ts}
        /\ begun' \in {0, begun, handle.block} /\ rd'.ts \in {0, rd.ts, old, handle.ts}
    BY <1>4 DEF MethodVarsFrom
  <2>3. caught' \in BOOLEAN
    BY ONLY <1>4, caught \in BOOLEAN DEF MethodVarsFrom
  <2>4. QED
    BY <1>2, <2>1, <2>2, <2>3
<1>6. pointer' \in [ts : 0 .. MaxStatus, slot : RingSlots, moved : BOOLEAN]
  BY <1>2, <1>4 DEF MethodVarsFrom
<1>7. used' \subseteq (0 .. MaxStatus) \X BOOLEAN
  <2>1. pointer.slot \in RingSlots /\ pointer.moved \in BOOLEAN
    OBVIOUS
  <2>2. blocks[pointer.slot] \in 0 .. MaxStatus
    BY <2>1
  <2>3. QED
    BY <1>4, <2>1, <2>2 DEF MethodVarsFrom
<1>8. QED
  BY <1>1, <1>3, <1>5, <1>6, <1>7

\* Every variable of a follower has its type: the slots it walks are in the ring, and no time
\* it asks for or sees is later than the last block that may be committed.
THEOREM FollowTyped == FollowSpec => []FollowTypeOK
<1>1. FollowInit => StatusTyped
  <2> SUFFICES ASSUME FollowInit PROVE StatusTyped
    OBVIOUS
  <2>1. 0 \in 0 .. MaxStatus /\ 0 \in RingSlots
    BY FollowAssumption, SlotsAreSlots DEF RingSlots
  <2>2. QED
    BY <2>1 DEF FollowInit, StatusTyped, FollowTypeOK, Methods
<1>2. FollowInv /\ StatusTyped /\ [FollowNext]_followVars => StatusTyped'
  <2> SUFFICES ASSUME FollowInv, StatusTyped, [FollowNext]_followVars PROVE StatusTyped'
    OBVIOUS
  <2>1. CASE FollowNext
    BY <2>1, OwnerTyped, ReadTyped, MethodTyped DEF FollowNext
  <2>2. CASE UNCHANGED followVars
    BY <2>2 DEF followVars, ownerVars, walkVars, methodVars, StatusTyped, FollowTypeOK
  <2>3. QED
    BY <2>1, <2>2
<1>3. StatusTyped => FollowTypeOK
  BY DEF StatusTyped
<1>4. QED
  BY <1>1, <1>2, <1>3, FollowAlways, PTL DEF FollowSpec

-----------------------------------------------------------------------------
(* Nothing is skipped: which blocks are in the ring, and what a walk shows *)

\* What is a multiple of RingSize and smaller is nothing.
LEMMA NoMultiple ==
  ASSUME NEW m \in Int, RingSize * m < RingSize, RingSize * m > 0 - RingSize
  PROVE  m = 0
<1>1. RingSize \in Nat \ {0}
  BY SlotsAreSlots
<1>2. ASSUME m >= 1 PROVE FALSE
  <2>1. RingSize * m >= RingSize * 1
    BY <1>1, <1>2
  <2>2. QED
    BY <1>1, <2>1
<1>3. ASSUME m <= -1 PROVE FALSE
  <2>1. RingSize * m <= RingSize * (-1)
    BY <1>1, <1>3
  <2>2. QED
    BY <1>1, <2>1
<1>4. QED
  BY <1>2, <1>3

LEMMA Remainder ==
  ASSUME NEW n \in Int
  PROVE  \E q \in Int : n % RingSize = n - RingSize * q
<1>1. RingSize \in Nat \ {0}
  BY SlotsAreSlots
<1>2. n % RingSize = n - RingSize * (n \div RingSize) /\ n \div RingSize \in Int
  BY <1>1, Z3
<1>3. QED
  BY <1>2

\* Blocks less than RingSize apart have different slots.
LEMMA SlotsDiffer ==
  ASSUME NEW a \in Int, NEW b \in Int, SlotOf(a) = SlotOf(b), a <= b, b < a + RingSize
  PROVE  a = b
<1>1. RingSize \in Nat \ {0}
  BY SlotsAreSlots
<1>2. PICK qa \in Int : SlotOf(a) = a - 1 - RingSize * qa
  BY Remainder DEF SlotOf
<1>3. PICK qb \in Int : SlotOf(b) = b - 1 - RingSize * qb
  BY Remainder DEF SlotOf
<1>4. RingSize * (qb - qa) = RingSize * qb - RingSize * qa
  BY <1>1
<1>5. RingSize * (qb - qa) = b - a
  <2>1. RingSize * qa \in Int /\ RingSize * qb \in Int
    BY <1>1
  <2>2. a - 1 - RingSize * qa = b - 1 - RingSize * qb
    BY <1>2, <1>3
  <2>3. RingSize * qb - RingSize * qa = b - a
    BY <2>1, <2>2
  <2>4. QED
    BY <1>4, <2>3
<1>6. qb - qa = 0
  BY <1>1, <1>5, NoMultiple
<1>7. RingSize * (qb - qa) = 0
  BY <1>1, <1>6
<1>8. QED
  BY <1>5, <1>7

\* Blocks RingSize apart have the same slot, and the slot before is that of the block before.
LEMMA SlotsRepeat ==
  ASSUME NEW n \in Int
  PROVE  /\ SlotOf(n) \in RingSlots
         /\ SlotOf(n - RingSize) = SlotOf(n)
         /\ (SlotOf(n) - 1) % RingSize = SlotOf(n - 1)
<1>1. RingSize \in Nat \ {0} /\ \A x \in Int : x % RingSize \in RingSlots
  BY SlotsAreSlots
<1>2. ASSUME NEW x \in Int, NEW y \in Int, NEW k \in Int, x - y = RingSize * k
      PROVE  x % RingSize = y % RingSize
  <2>1. PICK qx \in Int : x % RingSize = x - RingSize * qx
    BY Remainder
  <2>2. PICK qy \in Int : y % RingSize = y - RingSize * qy
    BY Remainder
  <2> DEFINE rx == x % RingSize
             ry == y % RingSize
  <2>3. rx \in 0 .. RingSize - 1 /\ ry \in 0 .. RingSize - 1
    BY <1>1 DEF RingSlots
  <2>4. rx = x - RingSize * qx /\ ry = y - RingSize * qy
    BY <2>1, <2>2
  <2> HIDE DEF rx, ry
  <2>5. RingSize * (k - qx + qy) = RingSize * k - RingSize * qx + RingSize * qy
    BY <1>1
  <2>6. RingSize * k \in Int /\ RingSize * qx \in Int /\ RingSize * qy \in Int
    BY <1>1
  <2>7. RingSize * (k - qx + qy) = rx - ry
    BY <1>2, <2>4, <2>5, <2>6
  <2>8. k - qx + qy = 0
    BY <1>1, <2>3, <2>7, NoMultiple
  <2>9. RingSize * (k - qx + qy) = 0
    BY <1>1, <2>8
  <2>10. rx = ry
    BY <2>3, <2>7, <2>9
  <2>11. QED
    BY <2>10 DEF rx, ry
<1>3. SlotOf(n - RingSize) = SlotOf(n)
  <2>1. (n - RingSize - 1) - (n - 1) = RingSize * (-1)
    BY <1>1
  <2>2. n - RingSize - 1 \in Int /\ n - 1 \in Int /\ -1 \in Int
    BY <1>1
  <2>3. (n - RingSize - 1) % RingSize = (n - 1) % RingSize
    BY <1>2, <2>1, <2>2
  <2>4. QED
    BY <2>3 DEF SlotOf
<1>4. PICK q \in Int : SlotOf(n) = n - 1 - RingSize * q
  BY Remainder DEF SlotOf
<1>5. RingSize * (0 - q) = 0 - RingSize * q /\ RingSize * q \in Int
  BY <1>1
<1>6. SlotOf(n) \in RingSlots /\ SlotOf(n) \in Int
  BY <1>1 DEF SlotOf, RingSlots
<1>7. (SlotOf(n) - 1) - (n - 1 - 1) = RingSize * (0 - q)
  BY <1>4, <1>5, <1>6
<1>8. (SlotOf(n) - 1) % RingSize = (n - 1 - 1) % RingSize
  BY <1>2, <1>6, <1>7
<1>9. QED
  BY <1>3, <1>6, <1>8 DEF SlotOf

-----------------------------------------------------------------------------
\* The newest block whose slot is, or is being, used again.
Overwritten == IF writing = "no" THEN last - RingSize ELSE last + 1 - RingSize

\* In the ring are the blocks since then, each in its slot, and their statuses are known.
RingIs ==
  /\ \A k \in RingSlots : blocks[k] # 0 => SlotOf(blocks[k]) = k /\ blocks[k] > Overwritten
  /\ \A n \in Nat : n > Overwritten /\ n <= Newest /\ n # 0 => blocks[SlotOf(n)] = n
  /\ cycle \in Seq(BOOLEAN) /\ Len(cycle) = Newest

\* The read that looks for the neighbour of old.
OldOK ==
  /\ old \in Nat /\ old <= Newest
  /\ at_read[1] = "younger" => rd = [mode |-> "younger", ts |-> old]
  /\ at_read[1] = "still"   => rd = [mode |-> "last", ts |-> old]
  /\ at_read[1] = "older"   => rd = [mode |-> "older", ts |-> old]

\* The walk is at the block it saw last.
AtSeen == slot = pick /\ pick = SlotOf(seen) /\ seen <= Newest /\ seen # 0

\* While the old block is in the ring, so are those after it, and a walk towards it meets
\* them one by one.
OldIsKept == old # 0 /\ old > Overwritten
YoungerOK ==
  OldIsKept =>
    /\ At("younger", "walk") =>
         /\ AtSeen /\ seen > old
         /\ \E f \in Nat : first = SlotOf(f) /\ seen <= f /\ f <= Newest
    /\ At("younger", "copy") => seen = old + 1
    /\ At("younger", "ok") \/ at_read[1] = "still" => handle.block = old + 1

\* A block not younger than the old one that is still there shows that the old one is.
StillOK ==
  /\ At("still", "copy") => seen # 0 /\ (old # 0 => seen <= old)
  /\ At("still", "ok") => (old # 0 => handle.block = old + 1)

OlderOK ==
  /\ At("older", "walk") => AtSeen /\ seen >= old
  /\ At("older", "copy") => seen = old - 1
  /\ At("older", "ok") => handle.block = old - 1

\* No finished cycle is between the block of the call and the one that is waited from.
CyclesOK ==
  /\ at_read[1] = "catch" => method = "cycle" /\ caught
  /\ method = "cycle" /\ begun # 0 /\ ~caught =>
       begun \in Nat /\ begun <= old /\ \A n \in begun + 1 .. old : ~cycle[n]

WalkInv == FollowInv /\ RingIs /\ OldOK /\ YoungerOK /\ StillOK /\ OlderOK /\ CyclesOK

LEMMA RingFacts ==
  ASSUME WalkInv
  PROVE  /\ RingSize \in Nat \ {0} /\ last \in Nat /\ Newest \in Nat /\ Overwritten \in Int
         /\ Newest <= Overwritten + RingSize
         /\ \A k \in RingSlots : blocks[k] \in Nat /\ blocks[k] <= Newest
         /\ writing \in {"no", "body", "stamped"}
BY SlotsAreSlots DEF WalkInv, FollowInv, BlocksOK, Newest, Overwritten

LEMMA WalkInitInv == FollowInit => WalkInv
<1> SUFFICES ASSUME FollowInit PROVE WalkInv
  OBVIOUS
<1>1. FollowInv
  BY FollowInitInv
<1>2. RingIs
  BY SlotsAreSlots DEF FollowInit, RingIs, Newest, Overwritten
<1>3. OldOK /\ YoungerOK /\ StillOK /\ OlderOK /\ CyclesOK
  BY DEF FollowInit, OldOK, YoungerOK, StillOK, OlderOK, CyclesOK, Newest, At, OldIsKept
<1>4. QED
  BY <1>1, <1>2, <1>3 DEF WalkInv

\* Beginning a status gives up the block RingSize before it, and only that.
LEMMA OwnerKeepsRing ==
  ASSUME WalkInv, Owner
  PROVE  /\ RingIs' /\ Newest <= Newest' /\ Newest' \in Nat
         /\ Overwritten <= Overwritten' /\ Overwritten' \in Int
         /\ \A n \in 1 .. Newest : cycle'[n] = cycle[n]
<1>1. /\ RingSize \in Nat \ {0} /\ last \in Nat /\ Newest \in Nat /\ Overwritten \in Int
      /\ \A k \in RingSlots : blocks[k] \in Nat /\ blocks[k] <= Newest
  BY RingFacts
<1>2. /\ SlotOf(last + 1) \in RingSlots
      /\ SlotOf(last + 1 - RingSize) = SlotOf(last + 1)
      /\ \A n \in Nat : SlotOf(n) \in RingSlots
  BY <1>1, SlotsRepeat
<1>3. ASSUME NEW n \in Nat, n > last + 1 - RingSize, n <= last
      PROVE  SlotOf(n) # SlotOf(last + 1)
  <2>1. last + 1 \in Int /\ n <= last + 1 /\ last + 1 < n + RingSize
    BY <1>1, <1>3
  <2>2. QED
    BY <1>1, <1>3, <2>1, SlotsDiffer
<1>4. /\ \A k \in RingSlots : blocks[k] # 0 => SlotOf(blocks[k]) = k /\ blocks[k] > Overwritten
      /\ \A n \in Nat : n > Overwritten /\ n <= Newest /\ n # 0 => blocks[SlotOf(n)] = n
      /\ cycle \in Seq(BOOLEAN) /\ Len(cycle) = Newest
      /\ blocks = [k \in RingSlots |-> blocks[k]]
  BY DEF WalkInv, RingIs, FollowInv, BlocksOK
<1>5. CASE BeginStatus
  <2>1. /\ writing = "no" /\ writing' = "body" /\ UNCHANGED <<last, cycle>>
        /\ \A k \in RingSlots : blocks'[k] = IF k = SlotOf(last + 1) THEN 0 ELSE blocks[k]
    BY <1>2, <1>4, <1>5 DEF BeginStatus
  <2>2. Newest = last /\ Newest' = last /\ Overwritten = last - RingSize
        /\ Overwritten' = last + 1 - RingSize
    BY <2>1 DEF Newest, Overwritten
  <2>3. ASSUME NEW k \in RingSlots, blocks'[k] # 0
        PROVE  SlotOf(blocks'[k]) = k /\ blocks'[k] > Overwritten'
    <3>1. blocks'[k] = blocks[k] /\ k # SlotOf(last + 1)
      BY <2>1, <2>3
    <3>2. blocks[k] # last + 1 - RingSize
      BY <1>2, <1>4, <2>3, <3>1
    <3>3. blocks[k] > last - RingSize
      BY <1>4, <2>2, <2>3, <3>1
    <3>4. QED
      BY <1>1, <1>4, <2>2, <2>3, <3>1, <3>2, <3>3
  <2>4. ASSUME NEW n \in Nat, n > Overwritten', n <= Newest', n # 0
        PROVE  blocks'[SlotOf(n)] = n
    <3>1. n > last + 1 - RingSize /\ n > Overwritten /\ n <= last
      BY <1>1, <2>2, <2>4
    <3>2. QED
      BY <1>2, <1>3, <1>4, <2>1, <2>2, <2>4, <3>1
  <2>5. RingIs'
    BY <1>4, <2>1, <2>2, <2>3, <2>4 DEF RingIs
  <2>6. QED
    BY <1>1, <2>1, <2>2, <2>5
<1>6. CASE StampStatus
  <2>1. /\ writing = "body" /\ writing' = "stamped" /\ UNCHANGED last
        /\ \A k \in RingSlots : blocks'[k] = IF k = SlotOf(last + 1) THEN last + 1 ELSE blocks[k]
    BY <1>2, <1>4, <1>6 DEF StampStatus
  <2>2. /\ cycle' \in Seq(BOOLEAN) /\ Len(cycle') = Len(cycle) + 1
        /\ \A n \in 1 .. Len(cycle) : cycle'[n] = cycle[n]
    <3>1. PICK done \in BOOLEAN : cycle' = Append(cycle, done)
      BY <1>6 DEF StampStatus
    <3>2. QED
      BY <1>4, <3>1
  <2>3. Newest = last /\ Newest' = last + 1 /\ Overwritten = last + 1 - RingSize
        /\ Overwritten' = last + 1 - RingSize
    BY <2>1 DEF Newest, Overwritten
  <2>4. ASSUME NEW k \in RingSlots, blocks'[k] # 0
        PROVE  SlotOf(blocks'[k]) = k /\ blocks'[k] > Overwritten'
    BY <1>1, <1>4, <2>1, <2>3, <2>4
  <2>5. ASSUME NEW n \in Nat, n > Overwritten', n <= Newest', n # 0
        PROVE  blocks'[SlotOf(n)] = n
    <3>1. CASE n = last + 1
      BY <1>2, <2>1, <3>1
    <3>2. CASE n # last + 1
      <4>1. n > last + 1 - RingSize /\ n <= last
        BY <1>1, <2>3, <2>5, <3>2
      <4>2. QED
        BY <1>2, <1>3, <1>4, <2>1, <2>3, <2>5, <4>1
    <3>3. QED
      BY <3>1, <3>2
  <2>6. RingIs'
    BY <1>4, <2>2, <2>3, <2>4, <2>5 DEF RingIs
  <2>7. QED
    BY <1>1, <1>4, <2>2, <2>3, <2>6
<1>7. CASE CommitStatus
  <2>1. writing = "stamped" /\ writing' = "no" /\ last' = last + 1 /\ UNCHANGED <<blocks, cycle>>
    BY <1>7 DEF CommitStatus
  <2>2. Newest' = Newest /\ Overwritten' = Overwritten
    BY <1>1, <2>1 DEF Newest, Overwritten
  <2>3. QED
    BY <1>1, <1>4, <2>1, <2>2 DEF RingIs
<1>8. CASE Leave
  <2>1. UNCHANGED <<blocks, last, writing, cycle>>
    BY <1>8 DEF Leave
  <2>2. Newest' = Newest /\ Overwritten' = Overwritten
    BY <2>1 DEF Newest, Overwritten
  <2>3. QED
    BY <1>1, <1>4, <2>1, <2>2 DEF RingIs
<1>9. QED
  BY <1>5, <1>6, <1>7, <1>8 DEF Owner

LEMMA OwnerStepWalk == ASSUME WalkInv, Owner PROVE WalkInv'
<1>1. UNCHANGED <<handle, at_read, rd, first, slot, pick, seen, method, old, begun, caught>>
  BY DEF Owner, walkVars, methodVars
<1>2. /\ RingIs' /\ Newest <= Newest' /\ Newest \in Nat /\ Newest' \in Nat
      /\ Overwritten <= Overwritten' /\ Overwritten' \in Int /\ Overwritten \in Int
      /\ \A n \in 1 .. Newest : cycle'[n] = cycle[n]
  BY OwnerKeepsRing, RingFacts
<1>3. FollowInv'
  BY OwnerStepInv DEF WalkInv
<1>4. seen \in Nat /\ old \in Nat /\ old <= Newest
  BY DEF WalkInv, FollowInv, BlocksOK, OldOK
<1>5. OldOK' /\ StillOK'
  BY <1>1, <1>2, <1>4 DEF WalkInv, OldOK, StillOK, At
<1>6. (OldIsKept' => OldIsKept) /\ (AtSeen => AtSeen')
  BY <1>1, <1>2, <1>4 DEF OldIsKept, AtSeen
<1>7. YoungerOK'
  BY <1>1, <1>2, <1>6 DEF WalkInv, YoungerOK, At
<1>8. OlderOK'
  BY <1>1, <1>6 DEF WalkInv, OlderOK, At
<1>9. CyclesOK'
  <2>1. ASSUME method = "cycle" /\ begun # 0 /\ ~caught
        PROVE  begun \in Nat /\ begun <= old /\ \A n \in begun + 1 .. old : ~cycle'[n]
    <3>1. begun \in Nat /\ begun <= old /\ \A n \in begun + 1 .. old : ~cycle[n]
      BY <2>1 DEF WalkInv, CyclesOK
    <3>2. QED
      BY <1>2, <1>4, <3>1
  <2>2. QED
    BY <1>1, <2>1 DEF WalkInv, CyclesOK
<1>10. QED
  BY <1>2, <1>3, <1>5, <1>7, <1>8, <1>9 DEF WalkInv

\* A walk from an old block's younger ones that is at block n is next at n - 1, and n - 1 is
\* there if the old block is.
LEMMA BeforeIsThere ==
  ASSUME WalkInv, AtSeen, OldIsKept, seen > old
  PROVE  /\ (slot - 1) % RingSize = SlotOf(seen - 1)
         /\ blocks[SlotOf(seen - 1)] = seen - 1
<1>1. /\ seen \in Nat /\ old \in Nat /\ old # 0 /\ old > Overwritten /\ seen <= Newest
      /\ slot = SlotOf(seen) /\ Newest \in Nat /\ Overwritten \in Int
  BY RingFacts DEF WalkInv, FollowInv, BlocksOK, OldOK, AtSeen, OldIsKept
<1>2. seen - 1 \in Nat /\ seen - 1 > Overwritten /\ seen - 1 <= Newest /\ seen - 1 # 0
  BY <1>1
<1>3. (SlotOf(seen) - 1) % RingSize = SlotOf(seen - 1)
  BY <1>1, SlotsRepeat
<1>4. blocks[SlotOf(seen - 1)] = seen - 1
  BY <1>2 DEF WalkInv, RingIs
<1>5. QED
  BY <1>1, <1>3, <1>4

\* RTDBReadYounger.
LEMMA YoungerStep ==
  ASSUME WalkInv, ReadFirst("younger") \/ ReadBefore("younger") \/ ReadCopy("younger"),
         UNCHANGED <<blocks, last, writing, cycle, rd, method, old, begun, caught>>
  PROVE  YoungerOK'
<1>1. at_read[1] = "younger" /\ at_read'[1] = "younger" /\ rd = [mode |-> "younger", ts |-> old]
  BY DEF ReadFirst, ReadBefore, ReadCopy, At, Goes, WalkInv, OldOK
<1>2. Newest' = Newest /\ Overwritten' = Overwritten /\ OldIsKept' = OldIsKept
  BY DEF Newest, Overwritten, OldIsKept
<1>3. \A t : WalksOn(t) <=> t > old
  BY <1>1 DEF WalksOn
<1>4. SUFFICES ASSUME OldIsKept PROVE YoungerOK'
  BY <1>2 DEF YoungerOK
<1>5. /\ RingSize \in Nat \ {0} /\ last \in Nat /\ Newest \in Nat /\ Overwritten \in Int
      /\ Newest <= Overwritten + RingSize
      /\ \A k \in RingSlots : blocks[k] \in Nat /\ blocks[k] <= Newest
      /\ seen \in Nat /\ old \in Nat /\ old # 0 /\ old > Overwritten
      /\ {slot, pick, first} \subseteq RingSlots
  BY <1>4, RingFacts DEF WalkInv, FollowInv, BlocksOK, OldOK, OldIsKept
<1>6. \A k \in RingSlots : blocks[k] # 0 => SlotOf(blocks[k]) = k
  BY DEF WalkInv, RingIs
<1>7. CASE ReadFirst("younger")
  <2> DEFINE k == SlotOf(last)
             t == blocks[k]
  <2>1. k \in RingSlots
    BY <1>5, SlotsRepeat
  <2>2. /\ first' = k /\ slot' = k /\ pick' = k /\ seen' = t
        /\ at_read' = <<"younger", IF t = 0 \/ t <= old THEN "notfound" ELSE "walk">>
    BY <1>1, <1>3, <1>5, <1>7, <2>1 DEF ReadFirst, Goes
  <2>3. t \in Nat /\ t <= Newest /\ (t # 0 => SlotOf(t) = k)
    BY <1>5, <1>6, <2>1
  <2> HIDE DEF k, t
  <2>4. ASSUME At("younger", "walk")'
        PROVE  AtSeen' /\ seen' > old /\ \E f \in Nat : first' = SlotOf(f) /\ seen' <= f /\ f <= Newest
    <3>1. t # 0 /\ t > old
      BY <1>5, <2>2, <2>3, <2>4 DEF At
    <3>2. QED
      BY <1>2, <1>5, <2>2, <2>3, <3>1 DEF AtSeen
  <2>5. QED
    BY <1>2, <2>2, <2>4 DEF YoungerOK, At
<1>8. CASE ReadBefore("younger")
  <2>1. At("younger", "walk")
    BY <1>8 DEF ReadBefore
  <2>2. AtSeen /\ seen > old
    BY <1>4, <2>1 DEF WalkInv, YoungerOK
  <2>3. PICK f \in Nat : first = SlotOf(f) /\ seen <= f /\ f <= Newest
    BY <1>4, <2>1 DEF WalkInv, YoungerOK
  <2> DEFINE k == (slot - 1) % RingSize
  <2>4. k = SlotOf(seen - 1) /\ blocks[k] = seen - 1
    BY <1>4, <2>2, BeforeIsThere
  <2> HIDE DEF k
  <2>5. k # first
    <3>1. seen - 1 \in Int /\ seen - 1 <= f /\ f < seen - 1 + RingSize
      BY <1>5, <2>2, <2>3
    <3>2. k = first => seen - 1 = f
      BY <2>3, <2>4, <3>1, SlotsDiffer
    <3>3. QED
      BY <1>5, <2>3, <3>2
  <2>6. seen - 1 # 0
    BY <1>5, <2>2
  <2>7. CASE seen - 1 > old
    <3>1. at_read' = <<"younger", "walk">> /\ slot' = k /\ pick' = k /\ seen' = seen - 1 /\ first' = first
      BY <1>1, <1>3, <1>8, <2>4, <2>5, <2>6, <2>7 DEF ReadBefore, Goes, k
    <3>2. AtSeen' /\ seen' <= f
      BY <1>2, <1>5, <2>2, <2>3, <2>4, <2>6, <3>1 DEF AtSeen
    <3>3. QED
      BY <1>2, <2>3, <2>7, <3>1, <3>2 DEF YoungerOK, At
  <2>8. CASE ~(seen - 1 > old)
    <3>1. at_read' = <<"younger", "copy">> /\ seen' = seen
      BY <1>1, <1>3, <1>8, <2>4, <2>5, <2>6, <2>8 DEF ReadBefore, Goes, k
    <3>2. seen = old + 1
      BY <1>5, <2>2, <2>8
    <3>3. QED
      BY <3>1, <3>2 DEF YoungerOK, At
  <2>9. QED
    BY <2>7, <2>8
<1>9. CASE ReadCopy("younger")
  <2>1. seen = old + 1
    BY <1>4, <1>9 DEF ReadCopy, WalkInv, YoungerOK
  <2>2. /\ at_read' = <<"younger", IF blocks[pick] = seen THEN "ok" ELSE "wrap">>
        /\ blocks[pick] = seen => handle'.block = seen
    BY <1>9 DEF ReadCopy, Goes, IntoHandle, ByPointer
  <2>3. QED
    BY <1>1, <2>1, <2>2 DEF YoungerOK, At
<1>10. QED
  BY <1>7, <1>8, <1>9

\* The read that asks whether the old block is still there.
LEMMA StillStep ==
  ASSUME WalkInv, ReadFirst("still") \/ ReadBefore("still") \/ ReadCopy("still"),
         UNCHANGED <<blocks, last, writing, cycle, rd, method, old, begun, caught>>
  PROVE  YoungerOK' /\ StillOK'
<1>1. /\ at_read[1] = "still" /\ at_read'[1] = "still" /\ rd = [mode |-> "last", ts |-> old]
      /\ handle' = handle
  BY DEF ReadFirst, ReadBefore, ReadCopy, At, Goes, WalkInv, OldOK, IntoHandle
<1>2. OldIsKept' = OldIsKept
  BY DEF Overwritten, OldIsKept
<1>3. YoungerOK'
  BY <1>1, <1>2 DEF WalkInv, YoungerOK, At
<1>4. \A t : WalksOn(t) <=> old # 0 /\ t > old
  BY <1>1 DEF WalksOn
<1>5. /\ RingSize \in Nat \ {0} /\ last \in Nat /\ Newest \in Nat /\ Overwritten \in Int
      /\ \A k \in RingSlots : blocks[k] \in Nat /\ blocks[k] <= Newest
      /\ seen \in Nat /\ old \in Nat /\ {slot, pick, first} \subseteq RingSlots
  BY RingFacts DEF WalkInv, FollowInv, BlocksOK, OldOK
<1>6. CASE ReadFirst("still") \/ ReadBefore("still")
  <2>1. PICK k \in RingSlots : at_read'[2] = "copy" => seen' = blocks[k] /\ blocks[k] # 0 /\ ~WalksOn(blocks[k])
    <3>1. SlotOf(last) \in RingSlots /\ (slot - 1) % RingSize \in RingSlots
      <4>1. slot - 1 \in Int /\ last \in Int
        BY <1>5 DEF RingSlots
      <4>2. QED
        BY <4>1, SlotsRepeat, SlotsAreSlots
    <3>2. CASE ReadFirst("still")
      BY <3>1, <3>2 DEF ReadFirst, Goes
    <3>3. CASE ReadBefore("still")
      BY <1>1, <3>1, <3>3 DEF ReadBefore, Goes
    <3>4. QED
      BY <1>6, <3>2, <3>3
  <2>2. at_read'[2] # "ok"
    BY <1>6 DEF ReadFirst, ReadBefore, Goes
  <2>3. StillOK'
    <3>1. blocks[k] \in Nat
      BY <1>5
    <3>2. ASSUME At("still", "copy")' PROVE seen' # 0 /\ (old # 0 => seen' <= old)
      BY <1>4, <1>5, <2>1, <3>1, <3>2 DEF At
    <3>3. ~At("still", "ok")'
      BY <2>2 DEF At
    <3>4. QED
      BY <3>2, <3>3 DEF StillOK
  <2>4. QED
    BY <1>3, <2>3
<1>7. CASE ReadCopy("still")
  <2>1. /\ At("still", "copy") /\ UNCHANGED <<first, slot, pick, seen>>
        /\ at_read' = <<"still", IF blocks[pick] = seen THEN "ok" ELSE "wrap">>
    BY <1>7 DEF ReadCopy, Goes, ByPointer, walkVars
  <2>2. ASSUME blocks[pick] = seen, old # 0 PROVE handle.block = old + 1
    <3>1. seen # 0 /\ seen <= old
      BY <2>1, <2>2 DEF WalkInv, StillOK
    <3>2. seen > Overwritten
      BY <1>5, <2>2, <3>1 DEF WalkInv, RingIs
    <3>3. OldIsKept
      BY <1>5, <2>2, <3>1, <3>2 DEF OldIsKept
    <3>4. QED
      BY <1>1, <3>3 DEF WalkInv, YoungerOK
  <2>3. StillOK'
    BY <1>1, <2>1, <2>2 DEF StillOK, At
  <2>4. QED
    BY <1>3, <2>3
<1>8. QED
  BY <1>6, <1>7

\* RTDBReadPredecessor: what the walk meets after a block is the one before it, a younger one
\* or nothing.
LEMMA OlderStep ==
  ASSUME WalkInv, ReadFirst("older") \/ ReadBefore("older") \/ ReadCopy("older"),
         UNCHANGED <<blocks, last, writing, cycle, rd, method, old, begun, caught>>
  PROVE  OlderOK'
<1>1. at_read[1] = "older" /\ at_read'[1] = "older" /\ rd = [mode |-> "older", ts |-> old]
  BY DEF ReadFirst, ReadBefore, ReadCopy, At, Goes, WalkInv, OldOK
<1>2. Newest' = Newest
  BY DEF Newest
<1>3. \A t : WalksOn(t) <=> t >= old
  BY <1>1 DEF WalksOn
<1>4. /\ RingSize \in Nat \ {0} /\ last \in Nat /\ Newest \in Nat /\ Overwritten \in Int
      /\ Newest <= Overwritten + RingSize /\ Newest <= last + 1 /\ last <= Newest
      /\ \A k \in RingSlots : blocks[k] \in Nat /\ blocks[k] <= Newest
      /\ seen \in Nat /\ old \in Nat /\ old <= Newest
      /\ {slot, pick, first} \subseteq RingSlots
  BY RingFacts DEF WalkInv, FollowInv, BlocksOK, OldOK, Newest
<1>5. \A k \in RingSlots : blocks[k] # 0 => SlotOf(blocks[k]) = k /\ blocks[k] > Overwritten
  BY DEF WalkInv, RingIs
<1>6. CASE ReadFirst("older")
  <2> DEFINE k == SlotOf(last)
             t == blocks[k]
  <2>1. k \in RingSlots
    BY <1>4, SlotsRepeat
  <2>2. t \in Nat /\ t <= Newest /\ (t # 0 => SlotOf(t) = k /\ t > Overwritten)
    BY <1>4, <1>5, <2>1
  <2>3. /\ first' = k /\ slot' = k /\ pick' = k /\ seen' = t
        /\ at_read' = <<"older", IF t = 0 THEN "notfound" ELSE IF t >= old THEN "walk" ELSE "copy">>
    BY <1>1, <1>3, <1>6 DEF ReadFirst, Goes
  <2>4. SlotOf(last) = k
    OBVIOUS
  <2> HIDE DEF k, t
  <2>5. ASSUME At("older", "walk")' PROVE AtSeen' /\ seen' >= old
    BY <1>2, <1>4, <2>2, <2>3, <2>5 DEF AtSeen, At
  <2>6. ASSUME At("older", "copy")' PROVE seen' = old - 1
    <3>1. t # 0 /\ t < old
      BY <1>4, <2>2, <2>3, <2>6 DEF At
    <3>2. t <= last /\ last < t + RingSize
      BY <1>4, <2>2, <3>1
    <3>3. t = last
      BY <1>4, <2>2, <2>4, <3>1, <3>2, SlotsDiffer
    <3>4. QED
      BY <1>4, <2>3, <3>1, <3>3
  <2>7. QED
    BY <2>3, <2>5, <2>6 DEF OlderOK, At
<1>7. CASE ReadBefore("older")
  <2>1. AtSeen /\ seen >= old
    BY <1>7 DEF ReadBefore, WalkInv, OlderOK
  <2> DEFINE k == (slot - 1) % RingSize
             t == blocks[k]
  <2>2. k = SlotOf(seen - 1) /\ k \in RingSlots
    BY <1>4, <2>1, SlotsRepeat DEF AtSeen
  <2>3. t \in Nat /\ t <= Newest /\ (t # 0 => SlotOf(t) = k /\ t > Overwritten)
    BY <1>4, <1>5, <2>2
  <2>4. \/ at_read' = <<"older", "notfound">>
        \/ /\ t # 0 /\ pick' = k /\ seen' = t /\ slot' = k
           /\ at_read' = <<"older", IF t >= old THEN "walk" ELSE "copy">>
    BY <1>1, <1>3, <1>7 DEF ReadBefore, Goes
  <2> HIDE DEF k, t
  <2>5. ASSUME At("older", "walk")' PROVE AtSeen' /\ seen' >= old
    BY <1>2, <1>4, <2>3, <2>4, <2>5 DEF AtSeen, At
  <2>6. ASSUME At("older", "copy")' PROVE seen' = old - 1
    <3>1. t # 0 /\ t < old /\ seen' = t
      BY <1>4, <2>3, <2>4, <2>6 DEF At
    <3>2. t <= seen - 1 /\ seen - 1 < t + RingSize /\ seen - 1 \in Int
      BY <1>4, <2>1, <2>3, <3>1 DEF AtSeen
    <3>3. t = seen - 1
      BY <2>2, <2>3, <3>1, <3>2, SlotsDiffer
    <3>4. QED
      BY <1>4, <2>1, <2>3, <3>1, <3>3
  <2>7. QED
    BY <2>4, <2>5, <2>6 DEF OlderOK, At
<1>8. CASE ReadCopy("older")
  <2>1. seen = old - 1
    BY <1>8 DEF ReadCopy, WalkInv, OlderOK
  <2>2. /\ at_read' = <<"older", IF blocks[pick] = seen THEN "ok" ELSE "wrap">>
        /\ blocks[pick] = seen => handle'.block = seen
    BY <1>8 DEF ReadCopy, Goes, IntoHandle, ByPointer
  <2>3. QED
    BY <1>1, <2>1, <2>2 DEF OlderOK, At
<1>9. QED
  BY <1>6, <1>7, <1>8

LEMMA ReadStepWalk == ASSUME WalkInv, ReadStep PROVE WalkInv'
<1>1. UNCHANGED <<blocks, last, writing, cycle, gone, used, rd, method, old, begun, caught>>
  BY DEF ReadStep, ownerVars, methodVars
<1>2. PICK then \in {"header", "data", "younger", "still", "older", "catch", "get", "valid?"} :
        ReadFirst(then) \/ ReadBefore(then) \/ ReadCopy(then)
  BY DEF ReadStep
<1>3. at_read[1] = then /\ at_read'[1] = then
  BY <1>2 DEF ReadFirst, ReadBefore, ReadCopy, At, Goes
<1>4. FollowInv'
  BY ReadStepInv DEF WalkInv
<1>5. Newest' = Newest /\ Overwritten' = Overwritten
  BY <1>1 DEF Newest, Overwritten
<1>6. RingIs' /\ OldOK' /\ CyclesOK'
  BY <1>1, <1>3, <1>5 DEF WalkInv, RingIs, OldOK, CyclesOK
<1>7. YoungerOK'
  <2>1. CASE then = "younger"
    BY <1>1, <1>2, <2>1, YoungerStep
  <2>2. CASE then = "still"
    BY <1>1, <1>2, <2>2, StillStep
  <2>3. CASE then \notin {"younger", "still"}
    BY <1>3, <2>3 DEF YoungerOK, At
  <2>4. QED
    BY <2>1, <2>2, <2>3
<1>8. StillOK'
  <2>1. CASE then = "still"
    BY <1>1, <1>2, <2>1, StillStep
  <2>2. CASE then # "still"
    BY <1>3, <2>2 DEF StillOK, At
  <2>3. QED
    BY <2>1, <2>2
<1>9. OlderOK'
  <2>1. CASE then = "older"
    BY <1>1, <1>2, <2>1, OlderStep
  <2>2. CASE then # "older"
    BY <1>3, <2>2 DEF OlderOK, At
  <2>3. QED
    BY <2>1, <2>2
<1>10. QED
  BY <1>4, <1>6, <1>7, <1>8, <1>9 DEF WalkInv

-----------------------------------------------------------------------------
(* What a step of a method leads to *)

Returned == method' = "none" /\ at_read' = <<"out", "ok">> /\ old' = 0
Caught ==
  /\ method = "cycle" /\ UNCHANGED <<method, old, begun>> /\ caught'
  /\ at_read' = <<"catch", "first">>
Waits ==
  /\ UNCHANGED <<method, old, begun, caught>>
  /\ at_read' \in {<<"header", "first">>, <<"header", "asleep">>, <<"data", "first">>}
Asked ==
  /\ UNCHANGED <<method, old, begun, caught>>
  /\ at_read' = <<"younger", "first">> /\ rd' = [mode |-> "younger", ts |-> old]
Checks ==
  /\ At("younger", "ok") /\ UNCHANGED <<method, old, begun, caught>>
  /\ at_read' = <<"still", "first">> /\ rd' = [mode |-> "last", ts |-> old]
Called ==
  /\ old' = handle.ts /\ begun' = handle.block /\ ~caught'
  /\ \/ at_read' = <<"header", "first">>
     \/ /\ method' = "predecessor" /\ at_read' = <<"older", "first">>
        /\ rd' = [mode |-> "older", ts |-> handle.ts]
Loops ==
  /\ (method = "cycle" /\ At("still", "ok")) \/ At("catch", "ok")
  /\ ~cycle[handle.block] /\ UNCHANGED <<method, begun, caught>>
  /\ old' = handle.ts /\ at_read' = <<"header", "first">>
Looks ==
  /\ UNCHANGED <<old, begun, caught>> /\ method' \in {method, "image"}
  /\ at_read' \in {<<"get", "ok">>, <<"get", "first">>, <<"valid?", "first">>}

LEMMA FollowerStepIs ==
  ASSUME Follower
  PROVE  Returned \/ Caught \/ Waits \/ Asked \/ Checks \/ Called \/ Loops \/ Looks
<1>1. ASSUME Return PROVE Returned
  BY <1>1 DEF Return, Goes, Returned
<1>2. ASSUME Throw PROVE Returned \/ Caught
  BY <1>1, <1>2 DEF Throw, Asks, Goes, Caught
<1>3. CASE \E m \in Methods : CallWait(m)
  BY <1>3 DEF CallWait, Asks, Goes, Called
<1>4. CASE LookAtHeader
  BY <1>2, <1>4 DEF LookAtHeader, Asks, Goes, methodVars, Waits
<1>5. CASE AfterWait
  BY <1>1, <1>2, <1>5 DEF AfterWait, NextStatus, Asks, Goes, methodVars, Asked
<1>6. CASE Succeed
  BY <1>1, <1>2, <1>6 DEF Succeed, LookForOld, Asks, Goes, methodVars, Checks
<1>7. CASE CycleStatus
  BY <1>1, <1>7 DEF CycleStatus, Asks, Goes, Loops
<1>8. CASE CycleFails
  BY <1>2, <1>8 DEF CycleFails
<1>9. CASE Predecessor
  BY <1>1, <1>2, <1>9 DEF Predecessor, Asks, Goes, Called
<1>10. CASE GetData
  BY <1>2, <1>10 DEF GetData, Asks, Goes, Looks
<1>11. CASE UseData
  BY <1>11 DEF UseData, At, methodVars, Looks
<1>12. CASE IsDataValid
  BY <1>1, <1>12 DEF IsDataValid, ForgetPointer, Asks, Goes, methodVars, Looks
<1>13. QED
  BY <1>3, <1>4, <1>5, <1>6, <1>7, <1>8, <1>9, <1>10, <1>11, <1>12 DEF Follower

LEMMA FollowerStepWalk == ASSUME WalkInv, Follower PROVE WalkInv'
<1>1. UNCHANGED <<blocks, last, writing, cycle, handle>>
  BY DEF Follower, ownerVars
<1>2. Newest' = Newest /\ Overwritten' = Overwritten
  BY <1>1 DEF Newest, Overwritten
<1>3. Returned \/ Caught \/ Waits \/ Asked \/ Checks \/ Called \/ Loops \/ Looks
  BY FollowerStepIs
<1>4. /\ handle.ts \in Nat /\ handle.ts <= Newest /\ handle.block \in {0, handle.ts}
      /\ old \in Nat /\ old <= Newest /\ Newest \in Nat
  BY RingFacts DEF WalkInv, FollowInv, HandleOK, OldOK
<1>5. FollowInv' /\ RingIs'
  BY <1>1, <1>2, FollowerStepInv DEF WalkInv, RingIs
<1>6. /\ at_read'[2] \notin {"walk", "copy"}
      /\ at_read'[1] \in {"younger", "still", "older"} => at_read'[2] = "first"
  BY <1>3 DEF Returned, Caught, Waits, Asked, Checks, Called, Loops, Looks
<1>7. OldOK'
  BY <1>2, <1>3, <1>4 DEF OldOK, Returned, Caught, Waits, Asked, Checks, Called, Loops, Looks
<1>8. StillOK' /\ OlderOK'
  BY <1>6 DEF StillOK, OlderOK, At
<1>9. YoungerOK'
  <2>1. CASE at_read'[1] = "still"
    <3>1. Checks
      BY <1>3, <2>1 DEF Returned, Caught, Waits, Asked, Called, Loops, Looks
    <3>2. OldIsKept' => handle.block = old + 1 /\ old' = old
      BY <1>2, <3>1 DEF Checks, OldIsKept, WalkInv, YoungerOK
    <3>3. QED
      BY <1>1, <1>6, <2>1, <3>2 DEF YoungerOK, At
  <2>2. CASE at_read'[1] # "still"
    BY <1>6, <2>2 DEF YoungerOK, At
  <2>3. QED
    BY <2>1, <2>2
<1>10. CyclesOK'
  <2> USE DEF CyclesOK
  <2>1. CASE Returned
    BY <2>1 DEF Returned
  <2>2. CASE Caught
    BY <2>2 DEF Caught
  <2>3. CASE Waits \/ Asked \/ Checks
    BY <1>1, <2>3 DEF WalkInv, Waits, Asked, Checks
  <2>4. CASE Called
    <3>1. at_read'[1] # "catch"
      BY <2>4 DEF Called
    <3>2. begun' # 0 => begun' \in Nat /\ begun' <= old' /\ begun' + 1 .. old' = {}
      BY <1>4, <2>4 DEF Called
    <3>3. QED
      BY <3>1, <3>2
  <2>5. CASE Loops
    <3>1. at_read'[1] # "catch" /\ UNCHANGED <<method, begun, caught>> /\ old' = handle.ts
      BY <2>5 DEF Loops
    <3>2. ASSUME method = "cycle", begun # 0, ~caught
          PROVE  begun <= old' /\ \A n \in begun + 1 .. old' : ~cycle[n]
      <4>1. At("still", "ok")
        BY <2>5, <3>2 DEF Loops, WalkInv, At
      <4>2. begun \in Nat /\ begun <= old /\ \A n \in begun + 1 .. old : ~cycle[n]
        BY <3>2 DEF WalkInv
      <4>3. handle.block = old + 1
        BY <1>4, <3>2, <4>1, <4>2 DEF WalkInv, StillOK
      <4>4. old' = old + 1 /\ ~cycle[old + 1]
        BY <1>4, <2>5, <3>1, <4>3 DEF Loops
      <4>5. QED
        BY <1>4, <4>2, <4>4
    <3>3. QED
      BY <1>1, <3>1, <3>2 DEF WalkInv
  <2>6. CASE Looks
    <3>1. at_read'[1] # "catch" /\ (method' = "cycle" => method = "cycle")
      BY <2>6 DEF Looks
    <3>2. QED
      BY <1>1, <2>6, <3>1 DEF WalkInv, Looks
  <2>7. QED
    BY <1>3, <2>1, <2>2, <2>3, <2>4, <2>5, <2>6
<1>11. QED
  BY <1>5, <1>7, <1>8, <1>9, <1>10 DEF WalkInv

LEMMA WalkStepInv == WalkInv /\ [FollowNext]_followVars => WalkInv'
<1> SUFFICES ASSUME WalkInv, [FollowNext]_followVars PROVE WalkInv'
  OBVIOUS
<1>1. CASE FollowNext
  BY <1>1, OwnerStepWalk, ReadStepWalk, FollowerStepWalk DEF FollowNext
<1>2. CASE UNCHANGED followVars
  <2>1. FollowInv'
    BY <1>2 DEF followVars, ownerVars, walkVars, methodVars, WalkInv, FollowInv, BlocksOK, HandleOK,
                PointerOK, ImageOK, UsedOK, ValidImageIsOneBlock, IsGone, Newest, At
  <2>2. RingIs' /\ OldOK' /\ CyclesOK'
    BY <1>2 DEF followVars, ownerVars, walkVars, methodVars, WalkInv, RingIs, OldOK, CyclesOK,
                Newest, Overwritten
  <2>3. YoungerOK' /\ StillOK' /\ OlderOK'
    BY <1>2 DEF followVars, ownerVars, walkVars, methodVars, WalkInv, YoungerOK, StillOK, OlderOK,
                OldIsKept, AtSeen, At, Newest, Overwritten
  <2>4. QED
    BY <2>1, <2>2, <2>3 DEF WalkInv
<1>3. QED
  BY <1>1, <1>2

\* WaitSuccessiveCycleDone returns in one place.
LEMMA CycleReturns ==
  ASSUME WalkInv, FollowNext
  PROVE  CycleIsSuccessive
<1>1. SUFFICES ASSUME method = "cycle", method' = "none", At("still", "ok") \/ At("catch", "ok")
               PROVE  /\ cycle[handle.block]
                      /\ begun # 0 /\ ~caught => \A n \in begun + 1 .. handle.block - 1 : ~cycle[n]
  BY DEF CycleIsSuccessive
<1>2. Follower
  BY <1>1 DEF FollowNext, Owner, ReadStep, methodVars
<1>3. cycle[handle.block]
  <2>1. CycleStatus
    BY <1>1, <1>2 DEF Follower, CallWait, LookAtHeader, AfterWait, Succeed, CycleFails, Predecessor,
                      GetData, UseData, IsDataValid, NotRead, At
  <2>2. QED
    BY <1>1, <2>1 DEF CycleStatus
<1>4. ASSUME begun # 0, ~caught
      PROVE  \A n \in begun + 1 .. handle.block - 1 : ~cycle[n]
  <2>1. At("still", "ok")
    BY <1>1, <1>4 DEF WalkInv, CyclesOK, At
  <2>2. old \in Nat /\ begun \in Nat /\ begun <= old /\ \A n \in begun + 1 .. old : ~cycle[n]
    BY <1>1, <1>4 DEF WalkInv, CyclesOK, OldOK
  <2>3. handle.block = old + 1
    BY <1>4, <2>1, <2>2 DEF WalkInv, StillOK
  <2>4. QED
    BY <2>2, <2>3
<1>5. QED
  BY <1>3, <1>4

\* For any ring and however often the owner laps it: a successor or predecessor that is
\* returned is the neighbour, and between two finished cycles that WaitSuccessiveCycleDone
\* returns without an exception there is no third (obj_base_classes.hxx:540-588,
\* system_classes.hxx:462-482).
THEOREM NothingSkipped == FollowSpec => NothingIsSkipped
<1>1. WalkInv /\ [FollowNext]_followVars => [NeighboursAreExact' /\ CycleIsSuccessive]_followVars
  <2> SUFFICES ASSUME WalkInv, FollowNext PROVE NeighboursAreExact' /\ CycleIsSuccessive
    OBVIOUS
  <2>1. WalkInv'
    BY WalkStepInv
  <2>2. NeighboursAreExact'
    BY <2>1 DEF WalkInv, StillOK, OlderOK, NeighboursAreExact
  <2>3. QED
    BY <2>2, CycleReturns
<1>2. QED
  BY <1>1, WalkInitInv, WalkStepInv, PTL DEF FollowSpec, NothingIsSkipped
=============================================================================
