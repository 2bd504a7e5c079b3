------------------------------ MODULE RtdbHeap ------------------------------
(***************************************************************************)
(* What the allocators of the object heap promise (kogmo_rtdb_rtmalloc.c): *)
(* a block is memory of the heap that nobody else holds, and it stays with *)
(* its owner until it is given back.  suba.c (RtdbSuba) and tlsf.c         *)
(* (RtdbTlsf) are shown to implement this.                                 *)
(***************************************************************************)
EXTENDS Integers

CONSTANTS HeapBytes    \* the addresses of the heap

VARIABLE given         \* the blocks: where they begin, and what was asked for

Bytes(b) == b.at .. b.at + b.size - 1

HeapInit == given = {}

GiveBlock ==
  \E b \in given' \ given :
    /\ given' = given \cup {b}
    /\ Bytes(b) \subseteq HeapBytes
    /\ \A other \in given : Bytes(other) \cap Bytes(b) = {}

TakeBack == \E b \in given : given' = given \ {b}

HeapNext == GiveBlock \/ TakeBack

HeapSpec == HeapInit /\ [][HeapNext]_given
=============================================================================
