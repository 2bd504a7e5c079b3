------------------------------ MODULE RtdbTlsf ------------------------------
(***************************************************************************)
(* The alternative allocator of the object heap (tlsf.c).  The heap is a   *)
(* row of blocks, each a size word and its data; bit 0 of the word says    *)
(* that the block is free, bit 1 that the one before it is, which then can *)
(* be found through prev_hdr.  Free blocks are listed by classes of sizes, *)
(* <<fl, sl>>, and two levels of bitmaps say which lists have members.     *)
(* Every call runs under heap_lock and is one step; a block is named by    *)
(* the address of its size word.                                           *)
(***************************************************************************)
EXTENDS Integers, Sequences, FiniteSets

CONSTANTS
  TlsfSize,        \* mem_pool_size
  TlsfHdr,         \* sizeof(tlsf_t)
  FLI_OFFSET, MAX_LOG2_SLI, REAL_FLI, MIN_BLOCK_SIZE,
  TlsfAsks         \* sizes that are asked for

\* 1 << i, up to MAX_FLI
MAX_FLI == REAL_FLI + FLI_OFFSET
Pow2[i \in 0 .. 30] == IF i = 0 THEN 1 ELSE 2 * Pow2[i - 1]

BHDR_OVERHEAD == 4
SMALL_BLOCK == Pow2[FLI_OFFSET + 1]
MAX_SLI == Pow2[MAX_LOG2_SLI]

VARIABLES
  block,           \* size words and prev_hdr in memory, by address
  matrix,          \* the lists of free blocks
  sl_bitmap, fl_bitmap,
  blocks_given     \* what malloc_ex returned and free_ex did not get

tlsfVars == <<block, matrix, sl_bitmap, fl_bitmap, blocks_given>>

\* The program works with words of 4 bytes.
BlockAddresses == {4 * i : i \in 0 .. TlsfSize \div 4}
FLs == 0 .. REAL_FLI - 1
SLs == 0 .. MAX_SLI - 1

\* Memory without a size word: user data, or the inside of a larger block.
NoHeader == [size |-> 0, free |-> FALSE, prev_free |-> FALSE, prev_hdr |-> 0]

\* _fls and _ffs
fls(x) == CHOOSE i \in 0 .. 29 : Pow2[i] <= x /\ x < Pow2[i + 1]
ffs(bits) == CHOOSE i \in bits : \A j \in bits : i <= j

ROUNDUP_SIZE(r) == ((r + 3) \div 4) * 4
ROUNDDOWN_SIZE(r) == (r \div 4) * 4

\* MAPPING_INSERT: the class of a free block.
ClassOf(r) ==
  IF r < SMALL_BLOCK THEN <<0, r \div (SMALL_BLOCK \div MAX_SLI)>>
  ELSE <<fls(r) - FLI_OFFSET, r \div Pow2[fls(r) - MAX_LOG2_SLI] - MAX_SLI>>

\* MAPPING_SEARCH: the size is rounded up so that every block of its class will do.
SearchSizeAsIs(r) == r                                            \* a mutant
SearchSize(r) ==
  IF r < SMALL_BLOCK THEN r
  ELSE LET step == Pow2[fls(r) - MAX_LOG2_SLI]
       IN ((r + step - 1) \div step) * step

\* What malloc_ex looks for.
Wanted(n) == SearchSize(IF n < MIN_BLOCK_SIZE THEN MIN_BLOCK_SIZE ELSE ROUNDUP_SIZE(n))

\* A pool of words; a class of small blocks is one size (SMALL_BLOCK is 128, MAX_SLI 32);
\* and nothing is asked for that is beyond the bitmaps: malloc_ex does not check that.
ASSUME TlsfAssumption ==
  /\ {TlsfSize, TlsfHdr, MAX_LOG2_SLI, REAL_FLI, MIN_BLOCK_SIZE} \subseteq Nat \ {0}
  /\ FLI_OFFSET = MAX_LOG2_SLI + 1 /\ MAX_FLI <= 30
  /\ TlsfHdr % 4 = 0 /\ MIN_BLOCK_SIZE % 4 = 0
  /\ TlsfSize - TlsfHdr - 2 * BHDR_OVERHEAD >= MIN_BLOCK_SIZE
  /\ TlsfSize < Pow2[MAX_FLI]
  /\ TlsfAsks \subseteq Nat \ {0}
  /\ \A n \in TlsfAsks : ROUNDUP_SIZE(n) < Pow2[MAX_FLI] /\ Wanted(n) < Pow2[MAX_FLI]

\* FIND_SUITABLE_BLOCK: the class of the block that is taken, or none.
Suitable(class) ==
  LET here == {sl \in sl_bitmap[class[1]] : sl >= class[2]}
      above == {fl \in fl_bitmap : fl > class[1]}
  IN IF here # {} THEN {<<class[1], ffs(here)>>}
     ELSE IF above # {} THEN {<<ffs(above), ffs(sl_bitmap[ffs(above)])>>}
     ELSE {}

\* The lists and bitmaps, together.  EXTRACT_BLOCK and EXTRACT_BLOCK_HDR clear
\* the bits of a list that has become empty, INSERT_BLOCK puts b in front.
Lists == [matrix |-> matrix, sl |-> sl_bitmap, fl |-> fl_bitmap]

Unlinked(q, b) ==
  LET p == CHOOSE i \in DOMAIN q : q[i] = b
  IN [i \in 1 .. Len(q) - 1 |-> IF i < p THEN q[i] ELSE q[i + 1]]

ExtractKeepsBits(l, b, c) ==                                      \* a mutant
  [l EXCEPT !.matrix[c[1]][c[2]] = Unlinked(@, b)]
ExtractBlock(l, b, c) ==
  LET left == Unlinked(l.matrix[c[1]][c[2]], b)
      sl == IF left = <<>> THEN l.sl[c[1]] \ {c[2]} ELSE l.sl[c[1]]
  IN [matrix |-> [l.matrix EXCEPT ![c[1]][c[2]] = left],
      sl |-> [l.sl EXCEPT ![c[1]] = sl],
      fl |-> IF sl = {} THEN l.fl \ {c[1]} ELSE l.fl]

InsertBlock(l, b, c) ==
  [matrix |-> [l.matrix EXCEPT ![c[1]][c[2]] = <<b>> \o @],
   sl |-> [l.sl EXCEPT ![c[1]] = @ \cup {c[2]}],
   fl |-> l.fl \cup {c[1]}]

NewLists(l) == matrix' = l.matrix /\ sl_bitmap' = l.sl /\ fl_bitmap' = l.fl

\* GET_NEXT_BLOCK
After(b, size) == b + BHDR_OVERHEAD + size
NextBlock(b) == After(b, block[b].size)

\* init_memory_pool: one free block and a sentinel of size 0.
FirstSize == ROUNDDOWN_SIZE(TlsfSize - TlsfHdr - 2 * BHDR_OVERHEAD)
Sentinel == After(TlsfHdr, FirstSize)

TlsfInit ==
  LET first == ClassOf(FirstSize)
  IN /\ block = [a \in BlockAddresses |->
          CASE a = TlsfHdr -> [NoHeader EXCEPT !.size = FirstSize, !.free = TRUE]
            [] a = Sentinel -> [NoHeader EXCEPT !.prev_free = TRUE, !.prev_hdr = TlsfHdr]
            [] OTHER -> NoHeader]
     /\ matrix = [fl \in FLs |-> [sl \in SLs |->
                    IF <<fl, sl>> = first THEN <<TlsfHdr>> ELSE <<>>]]
     /\ sl_bitmap = [fl \in FLs |-> {sl \in SLs : <<fl, sl>> = first}]
     /\ fl_bitmap = {first[1]}
     /\ blocks_given = {}

\* malloc_ex: what is left over becomes a block if it is large enough.
MallocEx(n) ==
  LET size == Wanted(n) IN
  \E c \in Suitable(ClassOf(size)) :
    LET b == Head(matrix[c[1]][c[2]])
        left == ExtractBlock(Lists, b, c)
        next_b == NextBlock(b)
        rest == block[b].size - size - BHDR_OVERHEAD
        b2 == After(b, size)
    IN /\ IF rest >= MIN_BLOCK_SIZE
          THEN /\ block' = [block EXCEPT
                    ![b2] = [NoHeader EXCEPT !.size = rest, !.free = TRUE],
                    ![next_b].prev_hdr = b2,
                    ![b].size = size, ![b].free = FALSE]
               /\ NewLists(InsertBlock(left, b2, ClassOf(rest)))
          ELSE /\ block' = [block EXCEPT ![next_b].prev_free = FALSE, ![next_b].prev_hdr = 0,
                                         ![b].free = FALSE]
               /\ NewLists(left)
       /\ blocks_given' = blocks_given \cup {[at |-> b + BHDR_OVERHEAD, size |-> n]}

MallocExFails(n) == Suitable(ClassOf(Wanted(n))) = {} /\ UNCHANGED tlsfVars

\* free_ex: joined with the block behind it, then with the one before it.
FreeEx(x) ==
  LET b == x.at - BHDR_OVERHEAD
      next_b == NextBlock(b)
      with_next == block[next_b].free
      l1 == IF with_next THEN ExtractBlock(Lists, next_b, ClassOf(block[next_b].size)) ELSE Lists
      size == block[b].size + (IF with_next THEN block[next_b].size + BHDR_OVERHEAD ELSE 0)
      prev == block[b].prev_hdr
      with_prev == block[b].prev_free
      l2 == IF with_prev THEN ExtractBlock(l1, prev, ClassOf(block[prev].size)) ELSE l1
      first == IF with_prev THEN prev ELSE b
      whole == size + (IF with_prev THEN block[prev].size + BHDR_OVERHEAD ELSE 0)
      swallowed == (IF with_next THEN {next_b} ELSE {}) \cup (IF with_prev THEN {b} ELSE {})
  IN /\ block' = [a \in BlockAddresses |->
          CASE a = first -> [block[a] EXCEPT !.size = whole, !.free = TRUE]
            [] a \in swallowed -> NoHeader
            [] a = After(first, whole) -> [block[a] EXCEPT !.prev_free = TRUE, !.prev_hdr = first]
            [] OTHER -> block[a]]
     /\ NewLists(InsertBlock(l2, first, ClassOf(whole)))
     /\ blocks_given' = blocks_given \ {x}

TlsfNext ==
  \/ \E n \in TlsfAsks : MallocEx(n) \/ MallocExFails(n)
  \/ \E x \in blocks_given : FreeEx(x)

TlsfSpec == TlsfInit /\ [][TlsfNext]_tlsfVars

-----------------------------------------------------------------------------
(* Properties *)

FreeBlocks == {a \in BlockAddresses : block[a].free}
HeldBlocks == {x.at - BHDR_OVERHEAD : x \in blocks_given}
Listed(c) == {matrix[c[1]][c[2]][i] : i \in DOMAIN matrix[c[1]][c[2]]}

TlsfTypeOK ==
  /\ block \in [BlockAddresses -> [size : 0 .. TlsfSize, free : BOOLEAN, prev_free : BOOLEAN,
                              prev_hdr : BlockAddresses]]
  /\ fl_bitmap \subseteq FLs /\ \A fl \in FLs : sl_bitmap[fl] \subseteq SLs
  /\ \A x \in blocks_given : x.at \in BlockAddresses /\ x.size \in TlsfAsks

\* The blocks are a row from the header to the sentinel; a block knows that the
\* one before it is free, and where it is, and no two free ones touch
\* (tlsf.c:282-348).
BlocksAreARow ==
  /\ \A b \in FreeBlocks \cup HeldBlocks :
       LET n == NextBlock(b) IN
       /\ n \in FreeBlocks \cup HeldBlocks \cup {Sentinel}
       /\ block[n].prev_free = block[b].free
       /\ block[b].free => block[n].prev_hdr = b /\ ~block[n].free
       /\ b # TlsfHdr => \E p \in FreeBlocks \cup HeldBlocks : NextBlock(p) = b
  /\ TlsfHdr \in FreeBlocks \cup HeldBlocks /\ FreeBlocks \cap HeldBlocks = {}

\* A free block is listed once, in the class of its size, and the bitmaps say which
\* lists have members: the search neither misses a block nor takes one from an empty
\* list (tlsf.c:156-212).
BitmapsShowTheLists ==
  /\ \A b \in FreeBlocks : b \in Listed(ClassOf(block[b].size))
  /\ \A fl \in FLs, sl \in SLs :
       /\ \A b \in Listed(<<fl, sl>>) : block[b].free /\ ClassOf(block[b].size) = <<fl, sl>>
       /\ Len(matrix[fl][sl]) = Cardinality(Listed(<<fl, sl>>))
       /\ sl \in sl_bitmap[fl] <=> matrix[fl][sl] # <<>>
  /\ \A fl \in FLs : fl \in fl_bitmap <=> sl_bitmap[fl] # {}

\* The allocator implements the abstract heap.
TlsfHeap == INSTANCE RtdbHeap WITH given <- blocks_given, HeapBytes <- TlsfHdr + BHDR_OVERHEAD .. Sentinel - 1
TlsfIsAHeap == TlsfHeap!HeapSpec
=============================================================================
