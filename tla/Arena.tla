------------------------------- MODULE Arena -------------------------------
(***************************************************************************)
(* The bump allocator of src/common/arena.c, in which an IR arena keeps    *)
(* its nodes and strings until it is destroyed as a whole.                 *)
(*                                                                         *)
(* Small requests are cut from the last block of the table.  A request     *)
(* larger than a block gets a block of its own, swapped with the last one  *)
(* so that small requests carry on where they were.  A block is named by   *)
(* the number of the malloc that returned it.                              *)
(***************************************************************************)
EXTENDS Integers

CONSTANTS
  alloc_size,     \* bytes of a block (1 MB)
  Align,          \* sizeof(max_align_t)
  InitBlocks,     \* entries of a new block table (256)
  Sizes,          \* the sizes clients request
  MaxAllocs       \* bound on the blocks of an arena

ASSUME ArenaAssumption ==
  /\ Align \in Nat \ {0} /\ alloc_size \in Nat \ {0}
  /\ InitBlocks \in Nat \ {0}
  /\ Sizes \subseteq Nat /\ MaxAllocs \in Nat

VARIABLES
  nblocks, maxblocks,
  blocks,         \* the table: blocks[1 .. nblocks]
  available,      \* bytes left in the last block
  block_size,     \* block_size[b]: the size block b was malloc'ed with
  live            \* the allocations handed out: none is ever freed alone

vars == <<nblocks, maxblocks, blocks, available, block_size, live>>

round_up(a, b) == ((a + b - 1) \div b) * b

(* new_block: one more entry of the table, which doubles when it is full.  *)
NewMaxblocks_Late == IF nblocks > maxblocks THEN 2 * maxblocks ELSE maxblocks
NewMaxblocks == IF nblocks = maxblocks THEN 2 * maxblocks ELSE maxblocks

NewBlock(size) ==
  /\ nblocks < MaxAllocs
  /\ nblocks' = nblocks + 1
  /\ maxblocks' = NewMaxblocks
  /\ block_size' = [b \in 1 .. nblocks + 1 |-> IF b <= nblocks THEN block_size[b] ELSE size]

Pushed == [i \in 1 .. nblocks + 1 |-> IF i <= nblocks THEN blocks[i] ELSE nblocks + 1]

(* The swap of the last two blocks after a large one was pushed.           *)
PushedBelowLast_NotSwapped == Pushed
PushedBelowLast ==
  [i \in 1 .. nblocks + 1 |-> IF i < nblocks \/ nblocks = 0 THEN Pushed[i]
                              ELSE IF i = nblocks THEN nblocks + 1
                              ELSE blocks[nblocks]]

Handed(b, offset, size) == live \cup {[block |-> b, offset |-> offset, size |-> size]}

(* A request larger than a block.                                          *)
AllocLarge_Counted(size) ==
  /\ size > alloc_size
  /\ NewBlock(size)
  /\ blocks' = PushedBelowLast
  /\ live' = Handed(nblocks + 1, 0, size)
  /\ available' = available - size
AllocLarge(size) ==
  /\ size > alloc_size
  /\ NewBlock(size)
  /\ blocks' = PushedBelowLast
  /\ live' = Handed(nblocks + 1, 0, size)
  /\ UNCHANGED available

(* The arena is full: the rest of the last block is abandoned.             *)
AllocInNewBlock_SizedBlock(size) ==
  /\ size # 0 /\ size <= alloc_size /\ size > available
  /\ NewBlock(size)
  /\ blocks' = Pushed
  /\ live' = Handed(nblocks + 1, 0, size)
  /\ available' = alloc_size - size
AllocInNewBlock(size) ==
  /\ size # 0 /\ size <= alloc_size /\ size > available
  /\ NewBlock(alloc_size)
  /\ blocks' = Pushed
  /\ live' = Handed(nblocks + 1, 0, size)
  /\ available' = alloc_size - size

AllocInLastBlock(size) ==
  /\ size # 0 /\ size <= alloc_size /\ size <= available
  /\ live' = Handed(blocks[nblocks], alloc_size - available, size)
  /\ available' = available - size
  /\ UNCHANGED <<nblocks, maxblocks, blocks, block_size>>

(* A request of nothing gets NULL.                                         *)
AllocNothing(size) == size = 0 /\ UNCHANGED vars

(* shd_arena_alloc                                                         *)
Alloc(request) ==
  LET size == round_up(request, Align)
  IN  AllocNothing(size) \/ AllocLarge(size) \/ AllocInNewBlock(size) \/ AllocInLastBlock(size)

Init ==
  /\ nblocks = 0 /\ maxblocks = InitBlocks
  /\ blocks = [i \in 1 .. 0 |-> 0] /\ block_size = [b \in 1 .. 0 |-> 0]
  /\ available = 0
  /\ live = {}

Next == \E request \in Sizes : Alloc(request)

Spec == Init /\ [][Next]_vars

-----------------------------------------------------------------------------
Allocation == [block : Nat, offset : Nat, size : Nat]

TypeOK ==
  /\ nblocks \in Nat /\ maxblocks \in Nat \ {0}
  /\ blocks \in [1 .. nblocks -> 1 .. nblocks]
  /\ block_size \in [1 .. nblocks -> Nat]
  /\ available \in 0 .. alloc_size
  /\ live \in SUBSET Allocation

(* No two allocations overlap, large or small, whatever the order they     *)
(* were made in: shd_arena_alloc never zeroes a node or a string in use.   *)
Disjoint ==
  \A a, b \in live :
    \/ a = b
    \/ a.block # b.block
    \/ a.offset + a.size <= b.offset
    \/ b.offset + b.size <= a.offset

(* Every allocation lies inside its block.                                 *)
InsideBlock ==
  \A a \in live :
    a.block \in 1 .. nblocks /\ a.offset + a.size <= block_size[a.block]

(* The table has room for its blocks, and shd_destroy_arena frees every    *)
(* block exactly once.                                                     *)
BlocksInTable ==
  /\ nblocks <= maxblocks
  /\ \A b \in 1 .. nblocks : \E i \in 1 .. nblocks : blocks[i] = b
  /\ \A i, j \in 1 .. nblocks : blocks[i] = blocks[j] => i = j
=============================================================================
