------------------------------ MODULE RtdbSuba ------------------------------
(***************************************************************************)
(* The allocator of the object heap: kogmo_rtdb_rtmalloc.c on top of       *)
(* suba.c.  Free cells form a ring in the order of their addresses, whose  *)
(* last cell is tail; a cell is a header of POFF bytes and its data.       *)
(* Every call runs under heap_lock and is one step.                        *)
(***************************************************************************)
EXTENDS Integers, FiniteSets

CONSTANTS
  SubaSize,     \* bytes of the heap
  SubaHdr,      \* bytes of struct allocator, aligned
  POFF,         \* bytes of a cell's header
  ALIGNMASK,
  MinCell,      \* the mincell that kogmo_rtdb_obj_mem_init asks for
  SubaAsks      \* sizes that are asked for

ASSUME SubaAssumption ==
  /\ {SubaSize, SubaHdr, POFF, MinCell} \subseteq Nat \ {0} /\ ALIGNMASK \in Nat
  /\ SubaAsks \subseteq Nat \ {0} /\ SubaHdr + POFF < SubaSize

VARIABLES
  cell,         \* the headers in memory, by address: size, and next when free
  tail,
  cells_given   \* what mem_alloc returned and mem_free did not get

subaVars == <<cell, tail, cells_given>>

CellAddresses == 0 .. SubaSize
ALIGN(s) == ((s + ALIGNMASK) \div (ALIGNMASK + 1)) * (ALIGNMASK + 1)

\* Memory without a header: user data, or part of a larger cell.
NoCell == [size |-> 0, next |-> 0]

\* suba_init with rst: one cell, its own successor.
SubaInit ==
  /\ cell = [a \in CellAddresses |->
       IF a = SubaHdr THEN [size |-> SubaSize - (SubaHdr + POFF), next |-> SubaHdr] ELSE NoCell]
  /\ tail = SubaHdr
  /\ cells_given = {}

\* ISADJ
Adjacent(c1, c2) == c1 + POFF + cell[c1].size = c2

\* The bytes a cell gets, and the cells in the order of the walk from tail.
Need(n) == IF n < MinCell THEN ALIGN(MinCell) ELSE ALIGN(n)
Walk == LET at[k \in CellAddresses] == IF k = 0 THEN tail ELSE cell[at[k - 1]].next IN at

\* The walk ends at the first cell that is large enough, or after the last one.
StopsAt(need) ==
  CHOOSE k \in CellAddresses \ {0} :
    LET Ends(j) == cell[Walk[j]].size >= need \/ Walk[j] = tail
    IN Ends(k) /\ \A j \in 1 .. k - 1 : ~Ends(j)

\* A new cell is split off ...
Splits(c, need) == cell[c].size > POFF + need + ALIGN(MinCell)

\* ... or the whole one is used, but never the last.
NoRoom(need) ==
  LET c2 == Walk[StopsAt(need)]
  IN cell[c2].size < need \/ (c2 = tail /\ ~Splits(c2, need))

Split(c1, c2, need) ==
  LET c3 == c2 + POFF + need
      rest == cell[c2].size - (need + POFF)
  IN /\ cell' = [a \in CellAddresses |->
          CASE a = c2 -> [size |-> need, next |-> 0]
            [] a = c3 -> [size |-> rest, next |-> IF c1 = c2 THEN c3 ELSE cell[c2].next]
            [] a = c1 /\ c1 # c2 -> [cell[a] EXCEPT !.next = c3]
            [] OTHER -> cell[a]]
     /\ tail' = IF c2 = tail THEN c3 ELSE tail

\* kogmo_rtdb_obj_mem_alloc
MemAlloc(n) ==
  LET need == Need(n)
      k == StopsAt(need)
      c1 == Walk[k - 1]
      c2 == Walk[k]
  IN /\ ~NoRoom(need)
     /\ IF Splits(c2, need) THEN Split(c1, c2, need)
        ELSE /\ cell' = [cell EXCEPT ![c1].next = cell[c2].next, ![c2].next = 0]
             /\ UNCHANGED tail
     /\ cells_given' = cells_given \cup {[at |-> c2 + POFF, size |-> n]}

\* -1; nobody has set a reclaim function.
MemAllocFails(n) == NoRoom(Need(n)) /\ UNCHANGED subaVars

\* suba_free: behind the last cell ...
AppendCell(c2) ==
  IF Adjacent(tail, c2)
  THEN /\ cell' = [cell EXCEPT ![tail].size = @ + POFF + cell[c2].size, ![c2] = NoCell]
       /\ UNCHANGED tail
  ELSE /\ cell' = [cell EXCEPT ![c2].next = cell[tail].next, ![tail].next = c2]
       /\ tail' = c2

\* ... or between c1 and c3, joined with those it touches.
InsertKeepsTail(c1, c2, c3) ==                                    \* a mutant
  LET j1 == Adjacent(c1, c2)
      j2 == Adjacent(c2, c3)
      swallowed == (IF j1 THEN {c2} ELSE {}) \cup (IF j2 THEN {c3} ELSE {})
      first == IF j1 THEN c1 ELSE c2
      size == (IF j1 THEN cell[c1].size + POFF ELSE 0) + cell[c2].size
              + (IF j2 THEN POFF + cell[c3].size ELSE 0)
      next == IF ~j2 THEN c3 ELSE IF cell[c3].next = c3 THEN first ELSE cell[c3].next
  IN /\ cell' = [a \in CellAddresses |->
          CASE a = first -> [size |-> size, next |-> next]
            [] a \in swallowed -> NoCell
            [] a = c1 /\ ~j1 /\ a \notin swallowed -> [cell[a] EXCEPT !.next = c2]
            [] OTHER -> cell[a]]
     /\ UNCHANGED tail
InsertBetween(c1, c2, c3) ==
  LET j1 == Adjacent(c1, c2)
      j2 == Adjacent(c2, c3)
      swallowed == (IF j1 THEN {c2} ELSE {}) \cup (IF j2 THEN {c3} ELSE {})
      first == IF j1 THEN c1 ELSE c2
      size == (IF j1 THEN cell[c1].size + POFF ELSE 0) + cell[c2].size
              + (IF j2 THEN POFF + cell[c3].size ELSE 0)
      next == IF ~j2 THEN c3 ELSE IF cell[c3].next = c3 THEN first ELSE cell[c3].next
  IN /\ cell' = [a \in CellAddresses |->
          CASE a = first -> [size |-> size, next |-> next]
            [] a \in swallowed -> NoCell
            [] a = c1 /\ ~j1 /\ a \notin swallowed -> [cell[a] EXCEPT !.next = c2]
            [] OTHER -> cell[a]]
     /\ tail' = IF j2 /\ c3 = tail THEN first ELSE tail

\* The first cell of the ring behind ref.
InsertionPoint(ref) ==
  CHOOSE k \in CellAddresses :
    cell[Walk[k]].next >= ref /\ \A j \in 0 .. k - 1 : cell[Walk[j]].next < ref

\* kogmo_rtdb_obj_mem_free
MemFree(b) ==
  LET c2 == b.at - POFF
      k == InsertionPoint(c2)
  IN /\ IF c2 > tail THEN AppendCell(c2)
        ELSE InsertBetween(Walk[k], c2, cell[Walk[k]].next)
     /\ cells_given' = cells_given \ {b}

SubaNext ==
  \/ \E n \in SubaAsks : MemAlloc(n) \/ MemAllocFails(n)
  \/ \E b \in cells_given : MemFree(b)

SubaSpec == SubaInit /\ [][SubaNext]_subaVars

-----------------------------------------------------------------------------
(* Properties *)

FreeCells == {a \in CellAddresses : cell[a].next # 0}
HeldCells == {b.at - POFF : b \in cells_given}
CellBytes(c) == c .. c + POFF + cell[c].size - 1

\* Cells lie within the heap (suba.c:27-32).
SubaTypeOK ==
  /\ cell \in [CellAddresses -> [size : 0 .. SubaSize, next : CellAddresses]]
  /\ tail \in FreeCells
  /\ \A b \in cells_given : b.at \in CellAddresses /\ b.size \in SubaAsks

\* Free and held cells make up the heap, without a gap and without overlap: no
\* memory is lost or belongs to two (suba.c:150-163, 232-255).
HeapIsCellsOnly ==
  /\ UNION {CellBytes(c) : c \in FreeCells \cup HeldCells} = SubaHdr .. SubaSize - 1
  /\ \A c, d \in FreeCells \cup HeldCells : c # d => CellBytes(c) \cap CellBytes(d) = {}
  /\ FreeCells \cap HeldCells = {}

\* The free cells are one ring in the order of their addresses that ends at tail,
\* and two that touch have been joined - so what is given back can be had again in one
\* piece (suba.c:212-255).
FreeListIsOneRing ==
  \A c \in FreeCells :
    /\ ~\E d \in FreeCells : Adjacent(c, d)
    /\ IF c = tail THEN \A d \in FreeCells : cell[c].next <= d /\ d <= c
       ELSE cell[c].next > c /\ ~\E d \in FreeCells : c < d /\ d < cell[c].next

\* The allocator implements the abstract heap.
SubaHeap == INSTANCE RtdbHeap WITH given <- cells_given, HeapBytes <- SubaHdr .. SubaSize - 1
SubaIsAHeap == SubaHeap!HeapSpec
=============================================================================
