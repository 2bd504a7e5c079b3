---------------------------- MODULE RtdbHistory ----------------------------
(***************************************************************************)
(* What an RTDB object promises to its users, without rings and words.     *)
(*                                                                         *)
(* The object is a log of data blocks.  A commit appends a block and then  *)
(* makes it the current one; no block is ever changed or taken back.  A    *)
(* read that begins while block i is current returns, in one piece, a      *)
(* block of the log - at least as young as block i if it asks for the      *)
(* latest data - or nothing.                                               *)
(***************************************************************************)
EXTENDS Integers, Sequences

CONSTANTS Readers, Block

VARIABLES
  log,      \* the blocks committed so far, in order
  current,  \* number of the block that is current, 0 at first
  call      \* each reader's call: whether it runs, whether it asks for the
            \* latest data, the block current at its begin, and its answer

vars == <<log, current, call>>

\* The answer is the number of a block, 0 for "nothing".
Idle == [active |-> FALSE, latest |-> TRUE, since |-> 0, answer |-> 0]

Init ==
  /\ log = <<>>
  /\ current = 0
  /\ call = [r \in Readers |-> Idle]

\* The next block becomes readable.
Commit ==
  /\ log' \in Seq(Block) /\ Len(log') = Len(log) + 1
  /\ SubSeq(log', 1, Len(log)) = log
  /\ UNCHANGED <<current, call>>

MakeCurrent ==
  /\ current' = Len(log)
  /\ UNCHANGED <<log, call>>

Call(r) ==
  /\ ~call[r].active
  /\ \E latest \in BOOLEAN :
       call' = [call EXCEPT ![r] = [active |-> TRUE, latest |-> latest,
                                    since |-> current, answer |-> 0]]
  /\ UNCHANGED <<log, current>>

Answers(r) == {0} \cup (IF call[r].latest THEN call[r].since .. Len(log)
                                          ELSE 1 .. Len(log))

Answer(r) ==
  /\ call[r].active
  /\ \E i \in Answers(r) :
       call' = [call EXCEPT ![r] = [active |-> FALSE, latest |-> call[r].latest,
                                    since |-> call[r].since, answer |-> i]]
  /\ UNCHANGED <<log, current>>

Next ==
  \/ Commit
  \/ MakeCurrent
  \/ \E r \in Readers : Call(r) \/ Answer(r)

Spec == Init /\ [][Next]_vars
=============================================================================
