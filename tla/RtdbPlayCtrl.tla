---------------------------- MODULE RtdbPlayCtrl ----------------------------
(***************************************************************************)
(* The control object of the player: programs read it, change it and write *)
(* it back (C3_PlayerCtrl, the player's window, rtdbplayctrl); the player  *)
(* obeys what it finds there when the data time is another than last time  *)
(* (kogmo_rtdb_play.c).  In the simulation the clock is the one of the     *)
(* recording: it stands still in a pause and jumps with the player.        *)
(***************************************************************************)
EXTENDS Integers, Sequences

CONSTANTS
  PlayRemotes,  \* programs that control the player
  MaxClock,     \* bounds: readings of the clock,
  MaxWrites     \* and commands

ASSUME PlayCtrlAssumption == MaxClock \in Nat /\ MaxWrites \in Nat

VARIABLES
  rtdb_now,  \* kogmo_rtdb_timestamp_now
  ctrlobj,   \* the latest block of the control object: its number n, the number of the
             \* block it was made from, its data time; twice: commit() wrote it; go: the
             \* write that gave its goto_ts or frame_go, 0 for none
  mine,      \* each program's copy of the object, n = -1 while it has no use for it
  ctrl_ts,   \* last_ctrlobj_ts
  looked,    \* the block the player last looked at
  obeyed     \* the gotos and frame_gos it carried out

playctrlVars == <<rtdb_now, ctrlobj, mine, ctrl_ts, looked, obeyed>>

Clock == 0 .. MaxClock
Block(n, base, ts, twice, go) ==
  [n |-> n, base |-> base, data_ts |-> ts, twice |-> twice, go |-> go]
NoCopy == Block(-1, -1, 0, FALSE, 0)

\* The player writes the object when it starts.
PlayCtrlInit ==
  /\ rtdb_now = 0 /\ ctrlobj = Block(0, 0, 0, FALSE, 0)
  /\ mine = [r \in PlayRemotes |-> NoCopy]
  /\ ctrl_ts = 0 /\ looked = 0 /\ obeyed = <<>>

\* Time goes on: in the simulation unless the player pauses, otherwise always.
Tick ==
  /\ rtdb_now < MaxClock /\ rtdb_now' = rtdb_now + 1
  /\ UNCHANGED <<ctrlobj, mine, ctrl_ts, looked, obeyed>>

-----------------------------------------------------------------------------
(* The programs *)

\* Every method begins by reading the object.
UpdateCtrl(r) ==
  /\ mine[r] = NoCopy /\ ctrlobj.n < MaxWrites
  /\ mine' = [mine EXCEPT ![r] = ctrlobj]
  /\ UNCHANGED <<rtdb_now, ctrlobj, ctrl_ts, looked, obeyed>>

\* C3_PlayerCtrl::RTDBWrite gives a data time that is not the one that was read.
StampNow(last_ts) == rtdb_now                                            \* a mutant
Stamp(last_ts) == IF rtdb_now = last_ts THEN 1 + last_ts ELSE rtdb_now

Put(r, ts, twice, go) ==
  /\ ctrlobj.n < MaxWrites
  /\ ctrlobj' = Block(ctrlobj.n + 1, mine[r].n, ts, twice, go)
  /\ mine' = [mine EXCEPT ![r] = NoCopy]
  /\ UNCHANGED <<rtdb_now, ctrl_ts, looked, obeyed>>

\* Pause, Speed, Loop, beginset, endset: what was to be done at once is cleared.
KeepsGo(r) == mine[r].go                                              \* a mutant
NoGo(r) == 0

Setting(r) ==
  mine[r] # NoCopy /\ Put(r, Stamp(mine[r].data_ts), FALSE, NoGo(r))

\* ScanTo, JumpTo, FrameGo, goset, framego.
GoToTime(r) ==
  mine[r] # NoCopy /\ Put(r, Stamp(mine[r].data_ts), FALSE, ctrlobj.n + 1)

\* The commit() of the window changes the data time itself, and RTDBWrite once more.
Commit(r) ==
  mine[r] # NoCopy /\ Put(r, Stamp(Stamp(mine[r].data_ts)), TRUE, NoGo(r))

-----------------------------------------------------------------------------
(* The player *)

\* It reads the latest block, and obeys it if it looks new.
Look ==
  /\ looked # ctrlobj.n
  /\ looked' = ctrlobj.n
  /\ IF ctrlobj.data_ts # ctrl_ts
     THEN /\ ctrl_ts' = ctrlobj.data_ts
          /\ IF ctrlobj.go # 0 THEN obeyed' = Append(obeyed, ctrlobj.go) /\ rtdb_now' \in Clock
             ELSE UNCHANGED <<obeyed, rtdb_now>>
     ELSE UNCHANGED <<ctrl_ts, obeyed, rtdb_now>>
  /\ UNCHANGED <<ctrlobj, mine>>

PlayCtrlNext ==
  \/ Tick \/ Look
  \/ \E r \in PlayRemotes : UpdateCtrl(r) \/ Setting(r) \/ GoToTime(r) \/ Commit(r)

PlayCtrlSpec == PlayCtrlInit /\ [][PlayCtrlNext]_playctrlVars

-----------------------------------------------------------------------------
(* Properties *)

BlockType ==
  [n : -1 .. MaxWrites, base : -1 .. MaxWrites, data_ts : 0 .. MaxClock + 1,
   twice : BOOLEAN, go : 0 .. MaxWrites]

PlayCtrlTypeOK ==
  /\ rtdb_now \in Clock /\ ctrlobj \in BlockType /\ mine \in [PlayRemotes -> BlockType]
  /\ ctrl_ts \in 0 .. MaxClock + 1 /\ looked \in 0 .. MaxWrites
  /\ obeyed \in Seq(1 .. MaxWrites)

\* A goto or frame_go is carried out once, and none after a later one: whoever changes
\* something else clears it (system_classes.hxx:89-150, qrtdbplaymain.ui.h:151-170,
\* kogmo_rtdb_play.c:421-480).
GoesOnce == \A i, j \in DOMAIN obeyed : i < j => obeyed[i] < obeyed[j]

\* A command made from the block that the player last looked at is noticed, though time
\* stands still (system_classes.hxx:49-58, kogmo_rtdb_play.c:421-437).
CommandIsNoticed ==
  ctrlobj.n # looked /\ ctrlobj.base = looked /\ ~ctrlobj.twice => ctrlobj.data_ts # ctrl_ts

\* Both: a goto is carried out once, and what
\* was made from the block that the player knows is noticed (system_classes.hxx:49-150,
\* kogmo_rtdb_play.c:421-480).
CommandsAreObeyed == GoesOnce /\ CommandIsNoticed

\* Notice of every command; no run checks it.  It does not hold: two commands in a row
\* give a data time t + 1 and then t again, and commit() adds its 1 before RTDBWrite looks
\* (qrtdbplaymain.ui.h:175-181).
EveryCommandIsNoticed == ctrlobj.n # looked => ctrlobj.data_ts # ctrl_ts
=============================================================================
