----------------------------- MODULE StorageProof -----------------------------
(***************************************************************************)
(* Proofs about what everything else is kept in, for any sizes, keys,      *)
(* texts and tags.                                                         *)
(*                                                                         *)
(* Arena and IrArena: allocations are apart, strings and nodes are there   *)
(* once, and interning asks the allocator for what it promises to serve.   *)
(*                                                                         *)
(* Dict: no key is in the table twice, and the scan for a key that is      *)
(* there meets no clean bucket before it.  So a look-up finds exactly what *)
(* is there.  A tombstone keeps the scans that pass it alive, and an       *)
(* insertion takes the first free bucket of the scan, before which nothing *)
(* is clean.  The table is a finite map.                                   *)
(***************************************************************************)
EXTENDS Dict, IrArena, FiniteSetTheorems, WellFoundedInduction, TLAPS

-----------------------------------------------------------------------------
(* The arenas.                                                             *)

(* Rounding up keeps a size a size.                                        *)
LEMMA RoundUpType ==
  ASSUME NEW a \in Nat, NEW b \in Nat \ {0} PROVE round_up(a, b) \in Nat
<1>1. (a + b - 1) \in Nat
  OBVIOUS
<1>2. (a + b - 1) \div b \in Nat
  BY <1>1
<1>3. \A q \in Nat : q * b \in Nat
  OBVIOUS
<1> QED
  BY <1>2, <1>3 DEF round_up

-----------------------------------------------------------------------------
(* Small requests are cut from a block of alloc_size bytes, the last of    *)
(* the table; the large blocks swapped below it are never cut again.       *)
LastBlockInv ==
  available > 0 =>
    /\ nblocks > 0 /\ block_size[blocks[nblocks]] = alloc_size
    /\ \A a \in live : a.block = blocks[nblocks] =>
         a.offset + a.size <= alloc_size - available

IInv == TypeOK /\ BlocksInTable /\ InsideBlock /\ LastBlockInv /\ Disjoint

LEMMA InitInv == Init => IInv
  BY ArenaAssumption
  DEF Init, IInv, TypeOK, BlocksInTable, InsideBlock, LastBlockInv, Disjoint, Allocation

-----------------------------------------------------------------------------
(* One more block: it is named apart from the others and put in the table  *)
(* once, at the end or below it.                                           *)
LEMMA TableGrows ==
  ASSUME IInv, NEW want \in Nat, NewBlock(want),
         blocks' = Pushed \/ blocks' = PushedBelowLast
  PROVE  /\ nblocks' \in Nat /\ maxblocks' \in Nat \ {0}
         /\ blocks' \in [1 .. nblocks' -> 1 .. nblocks']
         /\ block_size' \in [1 .. nblocks' -> Nat]
         /\ BlocksInTable'
<1>1. nblocks' = nblocks + 1 /\ nblocks \in Nat
  BY DEF IInv, TypeOK, NewBlock
<1>1a. maxblocks' \in Nat \ {0} /\ nblocks' <= maxblocks'
  BY <1>1 DEF IInv, TypeOK, BlocksInTable, NewBlock, NewMaxblocks
<1>1b. block_size' \in [1 .. nblocks' -> Nat]
  <2>1. block_size' = [b \in 1 .. nblocks + 1 |->
                         IF b <= nblocks THEN block_size[b] ELSE want]
    BY DEF NewBlock
  <2>2. \A b \in 1 .. nblocks + 1 : b <= nblocks => block_size[b] \in Nat
    BY <1>1 DEF IInv, TypeOK
  <2> QED
    BY <1>1, <2>1, <2>2
<1>2. \A i \in 1 .. nblocks : blocks[i] \in 1 .. nblocks
  BY DEF IInv, TypeOK
<1>2a. \A i, j \in 1 .. nblocks : blocks[i] = blocks[j] => i = j
  BY DEF IInv, BlocksInTable
<1>2b. \A b \in 1 .. nblocks : \E i \in 1 .. nblocks : blocks[i] = b
  BY DEF IInv, BlocksInTable
<1> DEFINE top == IF nblocks # 0 /\ blocks' = PushedBelowLast THEN nblocks ELSE nblocks + 1
<1>3. top \in 1 .. nblocks + 1 /\ (top = nblocks \/ top = nblocks + 1)
  BY <1>1
<1>4. blocks' = [i \in 1 .. nblocks + 1 |->
                   IF i = top THEN nblocks + 1
                   ELSE IF i <= nblocks THEN blocks[i] ELSE blocks[nblocks]]
  <2>1. CASE nblocks # 0 /\ blocks' = PushedBelowLast
    BY <1>1, <2>1 DEF PushedBelowLast, Pushed
  <2>2. CASE blocks' = Pushed
    BY <1>1, <2>2 DEF PushedBelowLast, Pushed
  <2>3. CASE nblocks = 0 /\ blocks' = PushedBelowLast
    BY <1>1, <2>3 DEF PushedBelowLast, Pushed
  <2> QED
    BY <2>1, <2>2, <2>3
<1> HIDE DEF top
<1>5. \A i \in 1 .. nblocks + 1 :
        blocks'[i] = IF i = top THEN nblocks + 1
                     ELSE IF i <= nblocks THEN blocks[i] ELSE blocks[nblocks]
  BY <1>4
<1>6. \A i \in 1 .. nblocks + 1 : blocks'[i] \in 1 .. nblocks + 1
  <2> TAKE i \in 1 .. nblocks + 1
  <2>1. CASE i = top
    BY <1>1, <1>5, <2>1
  <2>2. CASE i # top /\ i <= nblocks
    BY <1>1, <1>2, <1>5, <2>2
  <2>3. CASE i # top /\ i = nblocks + 1
    <3>1. nblocks \in 1 .. nblocks /\ blocks'[i] = blocks[nblocks]
      BY <1>1, <1>3, <1>5, <2>3
    <3> QED
      BY <1>1, <1>2, <3>1
  <2> QED
    BY <1>1, <2>1, <2>2, <2>3
<1>7. blocks' \in [1 .. nblocks' -> 1 .. nblocks']
  BY <1>1, <1>4, <1>6
<1>8. \A i, j \in 1 .. nblocks + 1 : blocks'[i] = blocks'[j] => i = j
  BY ONLY <1>2a, <1>1, <1>2, <1>3, <1>5
<1>9. ASSUME NEW b \in 1 .. nblocks + 1
      PROVE  \E i \in 1 .. nblocks + 1 : blocks'[i] = b
  <2>1. CASE b = nblocks + 1
    BY <1>3, <1>5, <2>1
  <2>2. CASE b <= nblocks
    <3>0. b \in 1 .. nblocks
      BY <1>1, <2>2
    <3>1. PICK i \in 1 .. nblocks : blocks[i] = b
      BY ONLY <1>2b, <3>0
    <3>2. CASE i # top
      BY <1>1, <1>5, <3>1, <3>2
    <3>3. CASE i = top
      <4>1. i = nblocks /\ nblocks + 1 # top /\ nblocks + 1 \in 1 .. nblocks + 1
        BY <1>1, <1>3, <3>1, <3>3
      <4> QED
        BY <1>1, <1>5, <3>1, <4>1
    <3> QED
      BY <3>2, <3>3
  <2> QED
    BY <1>1, <2>1, <2>2
<1>10. BlocksInTable'
  BY <1>1, <1>1a, <1>8, <1>9 DEF BlocksInTable
<1> QED
  BY <1>1, <1>1a, <1>1b, <1>7, <1>10

(* The memory of a new block is nobody else's: an allocation at its start  *)
(* overlaps none.                                                          *)
LEMMA FreshBlock ==
  ASSUME IInv, NEW want \in Nat, NEW bytes \in Nat, want <= bytes, NewBlock(bytes),
         live' = Handed(nblocks + 1, 0, want)
  PROVE  /\ live' \in SUBSET Allocation
         /\ InsideBlock' /\ Disjoint'
         /\ \A b \in 1 .. nblocks : block_size'[b] = block_size[b]
         /\ block_size'[nblocks + 1] = bytes
<1> DEFINE new == [block |-> nblocks + 1, offset |-> 0, size |-> want]
<1> USE DEF IInv, TypeOK, NewBlock
<1>1. live' = live \cup {new}
  BY DEF Handed
<1>2. new \in Allocation
  BY DEF Allocation
<1>3. \A a \in live : a.block \in 1 .. nblocks
  BY DEF InsideBlock
<1>4. /\ \A b \in 1 .. nblocks : block_size'[b] = block_size[b]
      /\ block_size'[nblocks + 1] = bytes
  OBVIOUS
<1>5. new.block = nblocks + 1 /\ new.offset = 0 /\ new.size = want
  OBVIOUS
<1> HIDE DEF new
<1>6. \A a \in live : a.block # new.block
  BY <1>3, <1>5
<1>7. Disjoint'
  BY <1>1, <1>6 DEF Disjoint
<1>8. InsideBlock'
  <2> SUFFICES ASSUME NEW a \in live'
               PROVE  a.block \in 1 .. nblocks' /\ a.offset + a.size <= block_size'[a.block]
    BY DEF InsideBlock
  <2>1. CASE a \in live
    BY <1>3, <1>4, <2>1 DEF InsideBlock
  <2>2. CASE a = new
    BY <1>4, <1>5, <2>2
  <2> QED
    BY <1>1, <2>1, <2>2
<1> QED
  BY <1>1, <1>2, <1>4, <1>7, <1>8

LEMMA AllocLargeInv ==
  ASSUME IInv, NEW want \in Nat, AllocLarge(want) PROVE IInv'
<1>1. /\ want <= want /\ NewBlock(want) /\ blocks' = PushedBelowLast
      /\ live' = Handed(nblocks + 1, 0, want) /\ available' = available
  BY DEF AllocLarge
<1>2. TypeOK' /\ BlocksInTable'
  BY <1>1, TableGrows, FreshBlock DEF IInv, TypeOK
<1>3. InsideBlock' /\ Disjoint'
  BY <1>1, FreshBlock
<1>4. LastBlockInv'
  <2> SUFFICES ASSUME available > 0 PROVE LastBlockInv'
    BY <1>1 DEF LastBlockInv
  <2>1. nblocks > 0 /\ nblocks' = nblocks + 1
    BY <1>1 DEF IInv, LastBlockInv, NewBlock
  <2>2. blocks'[nblocks'] = blocks[nblocks] /\ blocks[nblocks] \in 1 .. nblocks
    BY <1>1, <2>1 DEF IInv, TypeOK, PushedBelowLast
  <2>3. block_size'[blocks[nblocks]] = alloc_size
    BY <1>1, <2>2, FreshBlock DEF IInv, LastBlockInv
  <2>4. ASSUME NEW a \in live', a.block = blocks[nblocks]
        PROVE  a.offset + a.size <= alloc_size - available
    <3>1. a \in live
      BY <1>1, <2>2, <2>4 DEF Handed, IInv, TypeOK
    <3> QED
      BY <2>4, <3>1 DEF IInv, LastBlockInv
  <2>5. nblocks' > 0 /\ available' = available
    BY <1>1, <2>1 DEF IInv, TypeOK
  <2> QED
    BY <2>2, <2>3, <2>4, <2>5 DEF LastBlockInv
<1> QED
  BY <1>2, <1>3, <1>4 DEF IInv

LEMMA AllocInNewBlockInv ==
  ASSUME IInv, NEW want \in Nat, AllocInNewBlock(want) PROVE IInv'
<1>1. /\ want <= alloc_size /\ NewBlock(alloc_size) /\ blocks' = Pushed
      /\ live' = Handed(nblocks + 1, 0, want) /\ available' = alloc_size - want
      /\ alloc_size \in Nat
  BY ArenaAssumption DEF AllocInNewBlock
<1>2. TypeOK' /\ BlocksInTable'
  <2>1. available' \in 0 .. alloc_size
    BY <1>1
  <2> QED
    BY <1>1, <2>1, TableGrows, FreshBlock DEF TypeOK
<1>3. InsideBlock' /\ Disjoint'
  BY <1>1, FreshBlock
<1>4. LastBlockInv'
  <2>1. /\ nblocks' = nblocks + 1 /\ nblocks \in Nat
        /\ blocks'[nblocks + 1] = nblocks + 1
    BY <1>1 DEF IInv, TypeOK, NewBlock, Pushed
  <2>2. block_size'[nblocks + 1] = alloc_size
    BY <1>1, FreshBlock
  <2>3. ASSUME NEW a \in live', a.block = nblocks + 1
        PROVE  a.offset + a.size <= alloc_size - available'
    <3>1. a \notin live
      BY <2>1, <2>3 DEF IInv, InsideBlock
    <3>2. a.offset = 0 /\ a.size = want
      BY <1>1, <3>1 DEF Handed
    <3> QED
      BY <1>1, <3>2
  <2> QED
    BY <2>1, <2>2, <2>3 DEF LastBlockInv
<1> QED
  BY <1>2, <1>3, <1>4 DEF IInv

LEMMA AllocInLastBlockInv ==
  ASSUME IInv, NEW want \in Nat, AllocInLastBlock(want) PROVE IInv'
<1> DEFINE last == blocks[nblocks]
           start == alloc_size - available
           new == [block |-> last, offset |-> start, size |-> want]
<1>1. /\ want # 0 /\ want <= available /\ available \in 0 .. alloc_size
      /\ live' = live \cup {new} /\ available' = available - want
      /\ UNCHANGED <<nblocks, maxblocks, blocks, block_size>>
      /\ alloc_size \in Nat
  BY ArenaAssumption DEF AllocInLastBlock, Handed, IInv, TypeOK
<1>2. /\ nblocks > 0 /\ block_size[last] = alloc_size
      /\ \A a \in live : a.block = last => a.offset + a.size <= start
  BY <1>1 DEF IInv, LastBlockInv
<1>3. last \in 1 .. nblocks /\ nblocks \in Nat
  BY <1>2 DEF IInv, TypeOK
<1>4. start \in Nat /\ start + want <= alloc_size
  BY <1>1
<1>5. new \in Allocation
  BY <1>3, <1>4 DEF Allocation
<1>6. new.block = last /\ new.offset = start /\ new.size = want
  OBVIOUS
<1>7. \A a \in live : a.offset \in Nat /\ a.size \in Nat
  BY DEF IInv, TypeOK, Allocation
<1>8. available' = available - want /\ alloc_size - available' = start + want
  BY <1>1
<1> HIDE DEF last, start, new
<1>9. TypeOK'
  <2>1. available' \in 0 .. alloc_size
    BY <1>1
  <2>2. live' \in SUBSET Allocation
    BY <1>1, <1>5 DEF IInv, TypeOK
  <2> QED
    BY <1>1, <2>1, <2>2 DEF IInv, TypeOK
<1>10. BlocksInTable'
  BY <1>1 DEF IInv, BlocksInTable
<1>11. InsideBlock'
  BY <1>1, <1>2, <1>3, <1>4, <1>6 DEF IInv, InsideBlock
<1>12. Disjoint'
  BY <1>1, <1>2, <1>6 DEF IInv, Disjoint
<1>13. LastBlockInv'
  <2>1. \A a \in live' : a.block = last => a.offset + a.size <= start + want
    BY <1>1, <1>2, <1>4, <1>6, <1>7
  <2> QED
    BY <1>1, <1>2, <1>8, <2>1 DEF LastBlockInv, last
<1> QED
  BY <1>9, <1>10, <1>11, <1>12, <1>13 DEF IInv

(* A request for nothing.                                                  *)
LEMMA UntouchedInv == ASSUME IInv, UNCHANGED vars PROVE IInv'
  BY DEF vars, IInv, TypeOK, BlocksInTable, InsideBlock, LastBlockInv, Disjoint

LEMMA AllocNothingInv == ASSUME IInv, NEW request, AllocNothing(request) PROVE IInv'
  BY UntouchedInv DEF AllocNothing

(* Whatever is asked for, by whomever the arena serves.                    *)
LEMMA AllocInv == ASSUME IInv, NEW request \in Nat, Alloc(request) PROVE IInv'
<1>1. round_up(request, Align) \in Nat
  BY ArenaAssumption, RoundUpType
<1> QED
  BY <1>1, AllocNothingInv, AllocLargeInv, AllocInNewBlockInv, AllocInLastBlockInv DEF Alloc

LEMMA InvStep == ASSUME IInv, [Next]_vars PROVE IInv'
  BY UntouchedInv, AllocInv, ArenaAssumption DEF Next

THEOREM Invariance == Spec => []IInv
<1> QED
  BY InitInv, InvStep, PTL DEF Spec

(* shd_arena_alloc never hands out memory that is in use, whatever the     *)
(* sizes and the order of the requests.                                    *)
THEOREM AllocationsDisjoint == Spec => []Disjoint
<1>1. IInv => Disjoint
  BY DEF IInv
<1> QED
  BY <1>1, Invariance, PTL

(* An allocation never runs past the end of its malloc'ed block.           *)
THEOREM AllocationsInsideBlocks == Spec => []InsideBlock
<1>1. IInv => InsideBlock
  BY DEF IInv
<1> QED
  BY <1>1, Invariance, PTL

(* new_block keeps room for its table, and shd_destroy_arena frees each    *)
(* block once.                                                             *)
THEOREM TableHoldsBlocksOnce == Spec => []BlocksInTable
<1>1. IInv => BlocksInTable
  BY DEF IInv
<1> QED
  BY <1>1, Invariance, PTL

-----------------------------------------------------------------------------
(* What is interned.                                                       *)
List == [of : {"strings", "nodes"}, elems : Seq(Nat)]
Node == [tag : Structural \cup Nominal, names : Nat, ops : Nat]

(* Of any arena, the parser's too.                                         *)
IrTypes == strings \in Seq(Texts) /\ lists \in Seq(List) /\ nodes \in Seq(Node)

(* Each string in the arena is the one of the string set with its text.    *)
StringsInv ==
  /\ strings \in Seq(Texts) /\ string_set \in [Texts -> 0 .. Len(strings)]
  /\ \A c \in Texts : string_set[c] # NULL => strings[string_set[c]] = c
  /\ \A p \in 1 .. Len(strings) : string_set[strings[p]] = p
  /\ \A g \in given : g.asked \in Texts /\ g.got \in 1 .. Len(strings)
                        /\ strings[g.got] = g.asked

(* Names are strings of the arena; structural nodes of the node set differ *)
(* in their payloads.                                                      *)
NamesInv ==
  \A l \in 1 .. Len(lists) : lists[l].of = "strings" =>
    \A k \in 1 .. Len(lists[l].elems) : lists[l].elems[k] \in 1 .. Len(strings)
NodesInv ==
  /\ node_set \subseteq 1 .. Len(nodes)
  /\ \A i \in 1 .. Len(nodes) :
       /\ nodes[i].names \in 1 .. Len(lists) /\ lists[nodes[i].names].of = "strings"
       /\ nodes[i].ops \in 1 .. Len(lists) /\ lists[nodes[i].ops].of = "nodes"
PayloadsDiffer ==
  \A i, j \in node_set : nodes[i].tag \in Structural /\ nodes[i] = nodes[j] => i = j

(* Of an arena a pass rewrites into.                                       *)
PassesInv == StringsInv /\ NamesInv /\ NodesInv /\ PayloadsDiffer

IrInv == IrTypes /\ ListsShared /\ (~ parsing => PassesInv)

LEMMA IrInitInv == IrInit => IrInv
  BY DEF IrInit, IrInv, IrTypes, ListsShared, PassesInv, StringsInv, NamesInv, NodesInv,
         PayloadsDiffer, NULL

-----------------------------------------------------------------------------
(* What Intern does: the text is in the arena afterwards, as before if it  *)
(* was, and no other string has moved.                                     *)
LEMMA InternInv ==
  ASSUME StringsInv, NEW c \in Texts, Intern(c, c)
  PROVE  /\ StringsInv'
         /\ Len(strings) <= Len(strings') /\ Len(strings) \in Nat /\ Len(strings') \in Nat
         /\ \A p \in 1 .. Len(strings) : strings'[p] = strings[p]
<1> DEFINE ptr == IF string_set[c] # NULL THEN string_set[c] ELSE Len(strings) + 1
<1>0. /\ strings \in Seq(Texts) /\ string_set \in [Texts -> 0 .. Len(strings)]
      /\ Len(strings) \in Nat
  BY DEF StringsInv
<1>1. given' = given \cup {[asked |-> c, got |-> ptr]}
  BY DEF Intern, string_impl, Found, Fresh
<1>2. CASE string_set[c] # NULL
  <2>1. UNCHANGED <<strings, string_set>>
    BY <1>2 DEF Intern, string_impl, Found
  <2>2. ptr \in 1 .. Len(strings) /\ strings[ptr] = c
    BY <1>0, <1>2 DEF StringsInv, NULL
  <2> QED
    BY <1>0, <1>1, <2>1, <2>2 DEF StringsInv
<1>3. CASE string_set[c] = NULL
  <2>1. /\ strings' = Append(strings, c) /\ string_set' = [string_set EXCEPT ![c] = Len(strings) + 1]
        /\ ptr = Len(strings) + 1
    BY <1>3 DEF Intern, string_impl, Found, Fresh
  <2>2. /\ strings' \in Seq(Texts) /\ Len(strings') = Len(strings) + 1
        /\ strings'[Len(strings) + 1] = c
        /\ \A p \in 1 .. Len(strings) : strings'[p] = strings[p]
    BY <1>0, <2>1
  <2>3. string_set' \in [Texts -> 0 .. Len(strings')]
    BY <1>0, <2>1, <2>2
  <2>4. ASSUME NEW d \in Texts, string_set'[d] # NULL PROVE strings'[string_set'[d]] = d
    <3>1. CASE d = c
      BY <1>0, <2>1, <2>2, <3>1
    <3>2. CASE d # c
      <4>1. string_set'[d] = string_set[d] /\ string_set[d] \in 1 .. Len(strings)
        BY <1>0, <2>1, <2>4, <3>2 DEF NULL
      <4> QED
        BY <2>2, <2>4, <4>1 DEF StringsInv
    <3> QED
      BY <3>1, <3>2
  <2>5. ASSUME NEW p \in 1 .. Len(strings') PROVE string_set'[strings'[p]] = p
    <3>1. CASE p = Len(strings) + 1
      BY <1>0, <2>1, <2>2, <3>1
    <3>2. CASE p \in 1 .. Len(strings)
      <4>1. strings[p] \in Texts /\ string_set[strings[p]] = p
        BY <1>0, <3>2 DEF StringsInv
      <4>2. strings[p] # c
        BY <1>3, <3>2, <4>1 DEF NULL
      <4> QED
        BY <1>0, <2>1, <2>2, <3>2, <4>1, <4>2
    <3> QED
      BY <1>0, <2>2, <3>1, <3>2
  <2>6. ASSUME NEW g \in given'
        PROVE  g.asked \in Texts /\ g.got \in 1 .. Len(strings') /\ strings'[g.got] = g.asked
    <3>1. CASE g \in given
      BY <1>0, <2>2, <3>1 DEF StringsInv
    <3>2. CASE g = [asked |-> c, got |-> ptr]
      BY <1>0, <2>1, <2>2, <3>2
    <3> QED
      BY <1>1, <3>1, <3>2
  <2> QED
    BY <1>0, <2>2, <2>3, <2>4, <2>5, <2>6 DEF StringsInv
<1> QED
  BY <1>2, <1>3

LEMMA StringInv ==
  ASSUME PassesInv, NEW c \in Texts, shd_string(c) PROVE PassesInv'
<1>1. Intern(c, c) /\ UNCHANGED <<lists, nodes, node_set>>
  BY DEF shd_string, shd_string_sized
<1>2. StringsInv' /\ Len(strings) <= Len(strings') /\ Len(strings) \in Nat /\ Len(strings') \in Nat
  BY <1>1, InternInv DEF PassesInv
<1>3. NamesInv'
  BY <1>1, <1>2 DEF PassesInv, NamesInv
<1>4. NodesInv' /\ PayloadsDiffer'
  BY <1>1 DEF PassesInv, NodesInv, PayloadsDiffer
<1> QED
  BY <1>2, <1>3, <1>4 DEF PassesInv

(* A list is appended only when none is like it, and the others stay.      *)
LEMMA InternListInv ==
  ASSUME IrTypes, ListsShared, NEW list \in List, InternList(list)
  PROVE  /\ lists' \in Seq(List) /\ ListsShared'
         /\ Len(lists) \in Nat /\ Len(lists') \in Nat /\ Len(lists) <= Len(lists')
         /\ \A l \in 1 .. Len(lists) : lists'[l] = lists[l]
         /\ \A l \in 1 .. Len(lists') : l \in 1 .. Len(lists) \/ lists'[l] = list
<1>1. lists \in Seq(List) /\ Len(lists) \in Nat
  BY DEF IrTypes
<1>2. CASE lists' = lists
  BY <1>1, <1>2 DEF ListsShared
<1>3. CASE ~ InListSet(list) /\ lists' = Append(lists, list)
  <2>1. /\ lists' \in Seq(List) /\ Len(lists') = Len(lists) + 1
        /\ lists'[Len(lists) + 1] = list
        /\ \A l \in 1 .. Len(lists) : lists'[l] = lists[l]
    BY <1>1, <1>3
  <2>2. \A l \in 1 .. Len(lists) : lists[l] # list
    BY <1>3 DEF InListSet
  <2>3. \A l \in 1 .. Len(lists') : l \in 1 .. Len(lists) \/ l = Len(lists) + 1
    BY <1>1, <2>1
  <2>4. ListsShared'
    <3> SUFFICES ASSUME NEW l \in 1 .. Len(lists'), NEW m \in 1 .. Len(lists'), lists'[l] = lists'[m]
                 PROVE  l = m
      BY DEF ListsShared
    <3>1. CASE l \in 1 .. Len(lists) /\ m \in 1 .. Len(lists)
      BY <2>1, <3>1 DEF ListsShared
    <3>2. CASE l \in 1 .. Len(lists) /\ m = Len(lists) + 1
      BY <2>1, <2>2, <3>2
    <3>3. CASE m \in 1 .. Len(lists) /\ l = Len(lists) + 1
      BY <2>1, <2>2, <3>3
    <3> QED
      BY <2>3, <3>1, <3>2, <3>3
  <2> QED
    BY <1>1, <2>1, <2>3, <2>4
<1> QED
  BY <1>2, <1>3 DEF InternList

LEMMA ListInv ==
  ASSUME IrInv, NEW list \in List, InternList(list),
         list.of = "strings" => \A k \in 1 .. Len(list.elems) : list.elems[k] \in 1 .. Len(strings)
  PROVE  IrInv'
<1>1. /\ lists' \in Seq(List) /\ ListsShared'
      /\ Len(lists) \in Nat /\ Len(lists') \in Nat /\ Len(lists) <= Len(lists')
      /\ \A l \in 1 .. Len(lists) : lists'[l] = lists[l]
      /\ \A l \in 1 .. Len(lists') : l \in 1 .. Len(lists) \/ lists'[l] = list
  BY InternListInv DEF IrInv
<1>2. UNCHANGED <<parsing, strings, string_set, nodes, node_set, given>>
  BY DEF InternList
<1>3. ASSUME PassesInv PROVE PassesInv'
  <2>1. StringsInv' /\ PayloadsDiffer'
    BY <1>2, <1>3 DEF PassesInv, StringsInv, PayloadsDiffer
  <2>2. NamesInv'
    <3> SUFFICES ASSUME NEW l \in 1 .. Len(lists'), lists'[l].of = "strings"
                 PROVE  \A k \in 1 .. Len(lists'[l].elems) : lists'[l].elems[k] \in 1 .. Len(strings')
      BY DEF NamesInv
    <3>1. CASE l \in 1 .. Len(lists)
      BY <1>1, <1>2, <1>3, <3>1 DEF PassesInv, NamesInv
    <3>2. CASE lists'[l] = list
      BY <1>2, <3>2
    <3> QED
      BY <1>1, <3>1, <3>2
  <2>3. ASSUME NEW i \in 1 .. Len(nodes)
        PROVE  /\ nodes[i].names \in 1 .. Len(lists') /\ lists'[nodes[i].names].of = "strings"
               /\ nodes[i].ops \in 1 .. Len(lists') /\ lists'[nodes[i].ops].of = "nodes"
    <3>1. /\ nodes[i].names \in 1 .. Len(lists) /\ lists[nodes[i].names].of = "strings"
          /\ nodes[i].ops \in 1 .. Len(lists) /\ lists[nodes[i].ops].of = "nodes"
      BY <1>3 DEF PassesInv, NodesInv
    <3> QED
      BY <1>1, <3>1
  <2>4. NodesInv'
    BY <1>2, <1>3, <2>3 DEF PassesInv, NodesInv
  <2> QED
    BY <2>1, <2>2, <2>4 DEF PassesInv
<1> QED
  BY <1>1, <1>2, <1>3 DEF IrInv, IrTypes

(* What shd_strings and shd_nodes are given.                               *)
LEMMA EntriesType ==
  ASSUME NEW n \in Nat, NEW elems \in Entries(n)
  PROVE  elems \in Seq(Nat) /\ \A k \in 1 .. Len(elems) : elems[k] \in 1 .. n
<1>1. PICK count \in 0 .. MaxCount : elems \in [1 .. count -> 1 .. n]
  BY DEF Entries
<1>2. count \in Nat /\ elems \in Seq(1 .. n)
  BY <1>1, TextAssumption
<1>3. elems \in Seq(Nat)
  BY <1>2
<1> QED
  BY <1>2, <1>3

(* Records and ranges are equal when their parts are.                      *)
LEMMA SameList ==
  ASSUME NEW l \in List, NEW m \in List, l.of = m.of, l.elems = m.elems PROVE l = m
  BY DEF List

LEMMA SameEntries ==
  ASSUME NEW s \in Seq(Nat), NEW t \in Seq(Nat), Len(s) = Len(t), \A k \in 1 .. Len(s) : s[k] = t[k]
  PROVE  s = t
<1>1. s = [k \in 1 .. Len(s) |-> s[k]] /\ t = [k \in 1 .. Len(t) |-> t[k]]
  OBVIOUS
<1> QED
  BY ONLY <1>1, Len(s) = Len(t), \A k \in 1 .. Len(s) : s[k] = t[k]

LEMMA SameRange ==
  ASSUME NEW m \in Nat, NEW n \in Nat, 1 .. m = 1 .. n PROVE m = n
<1>1. (m = 0 \/ m \in 1 .. n) /\ (n = 0 \/ n \in 1 .. m)
  OBVIOUS
<1> QED
  BY <1>1

(* A node is appended only when the set has none with its payload.         *)
LEMMA NodeInv ==
  ASSUME PassesInv, nodes \in Seq(Node), NEW payload \in Node, ~ InNodeSet(payload),
         payload.names \in 1 .. Len(lists), lists[payload.names].of = "strings",
         payload.ops \in 1 .. Len(lists), lists[payload.ops].of = "nodes", UNCHANGED lists,
         nodes' = Append(nodes, payload), node_set' = node_set \cup {Len(nodes) + 1}
  PROVE  NodesInv' /\ PayloadsDiffer'
<1>1. /\ Len(nodes) \in Nat /\ Len(nodes') = Len(nodes) + 1
      /\ nodes'[Len(nodes) + 1] = payload
      /\ \A i \in 1 .. Len(nodes) : nodes'[i] = nodes[i]
  OBVIOUS
<1>2. \A i \in node_set : i \in 1 .. Len(nodes)
  BY DEF PassesInv, NodesInv
<1>3. ASSUME NEW i \in node_set' PROVE i \in 1 .. Len(nodes')
  <2>1. i \in 1 .. Len(nodes) \/ i = Len(nodes) + 1
    BY <1>2
  <2> QED
    BY <1>1, <2>1
<1>4. ASSUME NEW i \in 1 .. Len(nodes')
      PROVE  /\ nodes'[i].names \in 1 .. Len(lists) /\ lists[nodes'[i].names].of = "strings"
             /\ nodes'[i].ops \in 1 .. Len(lists) /\ lists[nodes'[i].ops].of = "nodes"
  <2>1. CASE i \in 1 .. Len(nodes)
    BY <1>1, <2>1 DEF PassesInv, NodesInv
  <2>2. CASE i = Len(nodes) + 1
    BY <1>1, <2>2
  <2> QED
    BY <1>1, <2>1, <2>2
<1>5. ASSUME NEW i \in node_set', NEW j \in node_set',
             nodes'[i].tag \in Structural, nodes'[i] = nodes'[j]
      PROVE  i = j
  <2>1. ASSUME NEW k \in node_set, payload.tag \in Structural PROVE nodes[k] # payload
    BY <2>1 DEF InNodeSet
  <2>2. CASE i \in node_set /\ j \in node_set
    <3>1. nodes'[i] = nodes[i] /\ nodes'[j] = nodes[j]
      BY <1>1, <1>2, <2>2
    <3> QED
      BY <1>5, <2>2, <3>1 DEF PassesInv, PayloadsDiffer
  <2>3. CASE i \notin node_set /\ j \in node_set
    <3>1. nodes'[i] = payload /\ nodes'[j] = nodes[j]
      BY <1>1, <1>2, <2>3
    <3> QED
      BY <1>5, <2>1, <2>3, <3>1
  <2>4. CASE i \in node_set /\ j \notin node_set
    <3>1. nodes'[j] = payload /\ nodes'[i] = nodes[i]
      BY <1>1, <1>2, <2>4
    <3> QED
      BY <1>5, <2>1, <2>4, <3>1
  <2> QED
    BY <2>2, <2>3, <2>4
<1> QED
  BY <1>3, <1>4, <1>5 DEF NodesInv, PayloadsDiffer

LEMMA CreateNodeInv ==
  ASSUME IrInv, NEW tag \in Structural \cup Nominal,
         NEW names \in 1 .. Len(lists), NEW ops \in 1 .. Len(lists), CreateNode(tag, names, ops)
  PROVE  IrInv'
<1> DEFINE payload == [tag |-> tag, names |-> names, ops |-> ops]
<1>1. UNCHANGED <<parsing, strings, string_set, lists, given>>
  BY DEF CreateNode
<1>2. Len(lists) \in Nat /\ nodes \in Seq(Node) /\ strings' \in Seq(Texts) /\ lists' \in Seq(List)
  BY <1>1 DEF IrInv, IrTypes
<1>3. ListsShared'
  BY <1>1 DEF IrInv, ListsShared
<1>4. ASSUME PassesInv PROVE StringsInv' /\ NamesInv'
  BY <1>1, <1>4 DEF PassesInv, StringsInv, NamesInv
<1>5. CASE UNCHANGED <<nodes, node_set>>
  <2>1. ASSUME PassesInv PROVE NodesInv' /\ PayloadsDiffer'
    BY <1>1, <1>5, <2>1 DEF PassesInv, NodesInv, PayloadsDiffer
  <2> QED
    BY <1>1, <1>2, <1>3, <1>4, <1>5, <2>1 DEF IrInv, IrTypes, PassesInv
<1>6. CASE /\ ~ InNodeSet(payload)
           /\ nodes' = Append(nodes, payload) /\ node_set' = node_set \cup {Len(nodes) + 1}
  <2>1. lists[names].of = "strings" /\ lists[ops].of = "nodes"
    BY DEF CreateNode, Imported
  <2>2. payload \in Node /\ payload.names = names /\ payload.ops = ops
    BY <1>2 DEF Node
  <2> HIDE DEF payload
  <2>3. nodes' \in Seq(Node)
    BY <1>2, <1>6, <2>2
  <2>4. ASSUME PassesInv PROVE NodesInv' /\ PayloadsDiffer'
    BY <1>1, <1>2, <1>6, <2>1, <2>2, <2>4, NodeInv
  <2> QED
    BY <1>1, <1>2, <1>3, <1>4, <2>3, <2>4 DEF IrInv, IrTypes, PassesInv
<1> QED
  BY <1>5, <1>6 DEF CreateNode

(* The parser's strings, with whatever follows them, are strings.          *)
LEMMA SizedStringTypes ==
  ASSUME IrTypes, NEW c \in Texts, NEW w, shd_string_sized(c, w) PROVE IrTypes'
<1>1. strings' = strings \/ strings' = Append(strings, c)
  BY DEF shd_string_sized, Intern, string_impl
<1> QED
  BY <1>1 DEF IrTypes, shd_string_sized

LEMMA IrInvStep == ASSUME IrInv, [IrNext]_<<vars, irvars>> PROVE IrInv'
<1>1. Len(strings) \in Nat /\ Len(nodes) \in Nat
  BY DEF IrInv, IrTypes
<1>2. ASSUME NEW c \in Texts, NEW w, shd_string_sized(c, w), parsing \/ w = c PROVE IrInv'
  <2>1. UNCHANGED <<parsing, lists>> /\ IrTypes'
    BY <1>2, SizedStringTypes DEF shd_string_sized, IrInv
  <2>2. ListsShared'
    BY <2>1 DEF IrInv, ListsShared
  <2> QED
    BY <1>2, <2>1, <2>2, StringInv DEF shd_string, IrInv
<1>3. ASSUME NEW in_strs \in Entries(Len(strings)), shd_strings(in_strs) PROVE IrInv'
  <2> DEFINE list == [of |-> "strings", elems |-> in_strs]
  <2>1. in_strs \in Seq(Nat) /\ \A k \in 1 .. Len(in_strs) : in_strs[k] \in 1 .. Len(strings)
    BY <1>1, EntriesType
  <2>2. list \in List /\ list.elems = in_strs
    BY <2>1 DEF List
  <2>3. InternList(list)
    BY <1>3 DEF shd_strings
  <2> HIDE DEF list
  <2> QED
    BY <2>1, <2>2, <2>3, ListInv
<1>4. ASSUME NEW in_nodes \in Entries(Len(nodes)), shd_nodes(in_nodes) PROVE IrInv'
  <2> DEFINE list == [of |-> "nodes", elems |-> in_nodes]
  <2>1. in_nodes \in Seq(Nat)
    BY <1>1, EntriesType
  <2>2. list \in List /\ list.of # "strings"
    BY <2>1 DEF List
  <2>3. InternList(list)
    BY <1>4 DEF shd_nodes
  <2> HIDE DEF list
  <2> QED
    BY <2>2, <2>3, ListInv
<1>5. ASSUME UNCHANGED irvars PROVE IrInv'
  BY <1>5 DEF irvars, IrInv, IrTypes, ListsShared, PassesInv, StringsInv, NamesInv, NodesInv,
              PayloadsDiffer
<1> QED
  BY <1>2, <1>3, <1>4, <1>5, CreateNodeInv DEF IrNext, shd_string

(* Two names that read the same are one string, so that two lists of names *)
(* that read the same are one list.                                        *)
LEMMA NamesIdentify ==
  ASSUME IrTypes, ListsShared, PassesInv, NEW i \in 1 .. Len(nodes), NEW j \in 1 .. Len(nodes),
         NameTexts(i) = NameTexts(j)
  PROVE  nodes[i].names = nodes[j].names
<1> DEFINE l == nodes[i].names
           m == nodes[j].names
<1>1. /\ l \in 1 .. Len(lists) /\ lists[l].of = "strings"
      /\ m \in 1 .. Len(lists) /\ lists[m].of = "strings"
  BY DEF PassesInv, NodesInv
<1>2. lists[l] \in List /\ lists[m] \in List
  BY <1>1 DEF IrTypes
<1>3. lists[l].elems \in Seq(Nat) /\ lists[m].elems \in Seq(Nat)
  BY <1>2 DEF List
<1>4. /\ NameTexts(i) = [k \in 1 .. Len(lists[l].elems) |-> strings[lists[l].elems[k]]]
      /\ NameTexts(j) = [k \in 1 .. Len(lists[m].elems) |-> strings[lists[m].elems[k]]]
  BY DEF NameTexts
<1> HIDE DEF l, m
<1>5. DOMAIN NameTexts(i) = 1 .. Len(lists[l].elems) /\ DOMAIN NameTexts(j) = 1 .. Len(lists[m].elems)
  BY ONLY <1>4
<1>6. Len(lists[l].elems) = Len(lists[m].elems)
  BY <1>3, <1>5, SameRange
<1>7. ASSUME NEW k \in 1 .. Len(lists[l].elems) PROVE lists[l].elems[k] = lists[m].elems[k]
  <2>1. NameTexts(i)[k] = strings[lists[l].elems[k]] /\ NameTexts(j)[k] = strings[lists[m].elems[k]]
    BY ONLY <1>4, <1>6
  <2>2. lists[l].elems[k] \in 1 .. Len(strings) /\ lists[m].elems[k] \in 1 .. Len(strings)
    BY <1>1, <1>6 DEF PassesInv, NamesInv
  <2> QED
    BY <2>1, <2>2 DEF PassesInv, StringsInv
<1>8. lists[l].elems = lists[m].elems
  BY <1>3, <1>6, <1>7, SameEntries
<1>9. lists[l] = lists[m]
  BY <1>1, <1>2, <1>8, SameList
<1> QED
  BY <1>1, <1>9 DEF ListsShared, l, m

(* What the compiler compares by address is there once: in every arena the *)
(* lists (shd_nodes and shd_strings), in the arenas the passes rewrite     *)
(* into also the strings (string_impl) and the structural nodes            *)
(* (_shd_create_node_helper), and everyone gets the text it asked for.     *)
THEOREM AddressesIdentify == IrSpec => []InterningExact
<1>1. IrInv => InterningExact
  <2> SUFFICES ASSUME IrInv, ~ parsing PROVE StringsInterned /\ NodesShared
    BY DEF IrInv, InterningExact
  <2>1. StringsInterned
    <3>1. \A g \in given : strings[g.got] = g.asked /\ string_set[g.asked] = g.got
      BY DEF IrInv, PassesInv, StringsInv
    <3> QED
      BY <3>1 DEF StringsInterned, StringsShared, StringsFaithful
  <2>2. ASSUME NEW i \in node_set, NEW j \in node_set, nodes[i].tag \in Structural, SameText(i, j)
        PROVE  i = j
    <3>1. /\ i \in 1 .. Len(nodes) /\ j \in 1 .. Len(nodes)
          /\ nodes[i].ops \in 1 .. Len(lists) /\ lists[nodes[i].ops].of = "nodes"
          /\ nodes[j].ops \in 1 .. Len(lists) /\ lists[nodes[j].ops].of = "nodes"
      BY DEF IrInv, PassesInv, NodesInv
    <3>2. nodes[i].names = nodes[j].names
      BY <2>2, <3>1, NamesIdentify DEF IrInv, SameText
    <3>3. lists[nodes[i].ops] = lists[nodes[j].ops]
      <4>1. lists[nodes[i].ops] \in List /\ lists[nodes[j].ops] \in List
        BY <3>1 DEF IrInv, IrTypes
      <4>2. lists[nodes[i].ops].elems = lists[nodes[j].ops].elems
        BY <2>2 DEF SameText
      <4> QED
        BY <3>1, <4>1, <4>2, SameList
    <3>4. nodes[i].ops = nodes[j].ops
      BY <3>1, <3>3 DEF IrInv, ListsShared
    <3>5. nodes[i] \in Node /\ nodes[j] \in Node
      BY <3>1 DEF IrInv, IrTypes
    <3>6. nodes[i] = nodes[j]
      BY <2>2, <3>2, <3>4, <3>5 DEF SameText, Node
    <3> QED
      BY <2>2, <3>6 DEF IrInv, PassesInv, PayloadsDiffer
  <2> QED
    BY <2>1, <2>2 DEF NodesShared
<1> QED
  BY <1>1, IrInitInv, IrInvStep, PTL DEF IrSpec

-----------------------------------------------------------------------------
(* Strings, nodes and lists live in the bump allocator: whatever           *)
(* string_impl and _shd_create_node_helper ask it for, no two of them      *)
(* share memory, none runs past its block, and each block is freed once.   *)
THEOREM StorageIsSound == IrSpec => [](Disjoint /\ InsideBlock /\ BlocksInTable)
<1>1. IrInit => IInv
  BY InitInv DEF IrInit
<1>2. ASSUME IInv, [IrNext]_<<vars, irvars>> PROVE IInv'
  <2>1. ASSUME NEW request \in Nat, Alloc(request) PROVE IInv'
    BY <1>2, <2>1, AllocInv
  <2>2. ASSUME UNCHANGED vars PROVE IInv'
    BY <1>2, <2>2, InvStep
  <2>3. ASSUME NEW c \in Texts, NEW w \in Texts, AllocString(c, w) PROVE IInv'
    BY <2>1, <2>2, <2>3, TextAssumption DEF AllocString
  <2>4. ASSUME NEW c \in Texts, NEW w \in Texts, shd_string_sized(c, w) PROVE IInv'
    BY <2>3, <2>4 DEF shd_string_sized
  <2>5. ASSUME NEW tag, NEW names, NEW ops, CreateNode(tag, names, ops) PROVE IInv'
    BY <2>1, <2>2, <2>5, TextAssumption DEF CreateNode
  <2>6. ASSUME NEW list, Len(list.elems) \in Nat, InternList(list) PROVE IInv'
    <3>1. PointerSize * Len(list.elems) \in Nat
      BY <2>6, TextAssumption
    <3> QED
      BY <2>1, <2>2, <2>6, <3>1 DEF InternList
  <2>8. ASSUME NEW n, NEW elems \in Entries(n) PROVE Len(elems) \in Nat
    <3>1. PICK count \in 0 .. MaxCount : elems \in [1 .. count -> 1 .. n]
      BY DEF Entries
    <3>2. count \in Nat /\ \A S : \A f \in [1 .. count -> S] : f \in Seq(S)
      BY TextAssumption
    <3>3. elems \in Seq(1 .. n)
      BY <3>1, <3>2
    <3> QED
      BY <3>3
  <2>9. ASSUME NEW n, NEW elems \in Entries(n), shd_strings(elems) \/ shd_nodes(elems) PROVE IInv'
    BY <2>6, <2>8, <2>9 DEF shd_strings, shd_nodes
  <2>7. \A c \in Texts : Remainder[c] \subseteq Texts
    BY TextAssumption
  <2> QED
    BY <1>2, <2>2, <2>4, <2>5, <2>7, <2>9 DEF IrNext, shd_string
<1>3. IInv => Disjoint /\ InsideBlock /\ BlocksInTable
  BY DEF IInv
<1> QED
  BY <1>1, <1>2, <1>3, PTL DEF IrSpec

-----------------------------------------------------------------------------
(* The hash table.                                                         *)

(* A set of numbers has a least one.                                       *)
LEMMA LeastExists ==
  ASSUME NEW S \in SUBSET Nat, S # {}
  PROVE  \E i \in S : \A j \in S : i <= j
<1>1. PICK x \in S : \A y \in S : ~ (<<y, x>> \in OpToRel(<, Nat))
  BY NatLessThanWellFounded, WFMin
<1>2. ASSUME NEW y \in S PROVE x <= y
  <2>1. ~ (y < x)
    BY <1>1 DEF OpToRel
  <2> QED
    BY <2>1
<1> QED
  BY <1>2

LEMMA FirstIsLeast ==
  ASSUME NEW S \in SUBSET Nat, S # {}
  PROVE  First(S) \in S /\ \A j \in S : First(S) <= j
  BY LeastExists DEF First

(* A full circle visits buckets of the table.                              *)
LEMMA ProbeType ==
  ASSUME NEW k \in Keys, NEW i \in Nat, NEW n \in Nat \ {0}
  PROVE  Probe(k, i, n) \in 0 .. n - 1
<1>1. Hash[k] + i \in Nat
  BY DictAssumption
<1> QED
  BY <1>1 DEF Probe

(* What a product and a rest say of a division.                            *)
LEMMA RestIsUnique ==
  ASSUME NEW n \in Nat \ {0}, NEW d \in Nat, NEW q \in 0 .. n - 1
  PROVE  (n * d + q) % n = q
<1> DEFINE a == n * d + q
           e == a \div n
           r == a % n
<1>1. a \in Nat /\ e \in Nat /\ r \in 0 .. n - 1 /\ a = n * e + r
  OBVIOUS
<1>2. n * (d - e) = r - q
  BY <1>1
<1>3. CASE d - e >= 1
  <2>1. n * (d - e) >= n
    BY <1>1, <1>3
  <2> QED
    BY <1>1, <1>2, <2>1
<1>4. CASE e - d >= 1
  <2>1. n * (e - d) >= n
    BY <1>1, <1>4
  <2>2. n * (e - d) = q - r
    BY <1>1, <1>2
  <2> QED
    BY <1>1, <2>1, <2>2
<1>5. CASE d = e
  BY <1>1, <1>2, <1>5
<1> QED
  BY <1>1, <1>3, <1>4, <1>5

(* A full circle visits every bucket.                                      *)
LEMMA ProbeReaches ==
  ASSUME NEW k \in Keys, NEW n \in Nat \ {0}, NEW q \in 0 .. n - 1
  PROVE  \E i \in 0 .. n - 1 : Probe(k, i, n) = q
<1> DEFINE h == Hash[k]
           d == h \div n
           r == h % n
<1>1. h \in Nat
  BY DictAssumption
<1> HIDE DEF h
<1>2. d \in Nat /\ r \in 0 .. n - 1 /\ h = n * d + r
  BY <1>1
<1> HIDE DEF d, r
<1>3. CASE q >= r
  <2>1. q - r \in 0 .. n - 1 /\ h + (q - r) = n * d + q
    BY <1>1, <1>2, <1>3
  <2>2. (h + (q - r)) % n = q
    BY <1>2, <2>1, RestIsUnique
  <2> QED
    BY <2>1, <2>2 DEF Probe, h
<1>4. CASE q < r
  <2>1. q + n - r \in 0 .. n - 1 /\ h + (q + n - r) = n * (d + 1) + q
    BY <1>1, <1>2, <1>4
  <2>2. (h + (q + n - r)) % n = q
    BY <1>2, <2>1, RestIsUnique
  <2> QED
    BY <2>1, <2>2 DEF Probe, h
<1> QED
  BY <1>2, <1>3, <1>4

-----------------------------------------------------------------------------
(* The two scans stop at the first bucket that stops them.                 *)
LEMMA ScanEndFacts ==
  ASSUME NEW tab, NEW k \in Keys, NEW n \in Nat \ {0}
  PROVE  /\ ScanEnd(tab, n, k) \in 0 .. n
         /\ ScanEnd(tab, n, k) < n =>
              LET p == Probe(k, ScanEnd(tab, n, k), n) IN Has(tab, p, k) \/ IsClean(tab, p)
         /\ \A j \in 0 .. ScanEnd(tab, n, k) - 1 :
              ~ Has(tab, Probe(k, j, n), k) /\ ~ IsClean(tab, Probe(k, j, n))
<1> DEFINE Stop(j) == Has(tab, Probe(k, j, n), k) \/ IsClean(tab, Probe(k, j, n))
           S == {i \in 0 .. n : i = n \/ Stop(i)}
<1>1. ScanEnd(tab, n, k) = CHOOSE i \in 0 .. n : (i = n \/ Stop(i)) /\ \A j \in 0 .. i - 1 : ~ Stop(j)
  BY DEF ScanEnd, FirstOf
<1> HIDE DEF Stop
<1>2. n \in S /\ S \in SUBSET Nat
  OBVIOUS
<1>3. PICK i \in S : \A j \in S : i <= j
  BY <1>2, LeastExists
<1>4. \A j \in 0 .. i - 1 : ~ Stop(j)
  BY <1>3
<1>5. /\ ScanEnd(tab, n, k) \in 0 .. n
      /\ ScanEnd(tab, n, k) = n \/ Stop(ScanEnd(tab, n, k))
      /\ \A j \in 0 .. ScanEnd(tab, n, k) - 1 : ~ Stop(j)
  BY <1>1, <1>3, <1>4
<1> QED
  BY <1>5 DEF Stop

LEMMA FirstAvailableFacts ==
  ASSUME NEW tab, NEW k \in Keys, NEW n \in Nat \ {0}
  PROVE  /\ FirstAvailable(tab, n, k) \in 0 .. n
         /\ FirstAvailable(tab, n, k) < n =>
              LET p == Probe(k, FirstAvailable(tab, n, k), n)
              IN  Has(tab, p, k) \/ IsFree(tab, p)
         /\ \A j \in 0 .. FirstAvailable(tab, n, k) - 1 :
              ~ Has(tab, Probe(k, j, n), k) /\ ~ IsFree(tab, Probe(k, j, n))
<1> DEFINE Stop(j) == Has(tab, Probe(k, j, n), k) \/ IsFree(tab, Probe(k, j, n))
           S == {i \in 0 .. n : i = n \/ Stop(i)}
<1>1. FirstAvailable(tab, n, k) =
        CHOOSE i \in 0 .. n : (i = n \/ Stop(i)) /\ \A j \in 0 .. i - 1 : ~ Stop(j)
  BY DEF FirstAvailable, FirstOf
<1> HIDE DEF Stop
<1>2. n \in S /\ S \in SUBSET Nat
  OBVIOUS
<1>3. PICK i \in S : \A j \in S : i <= j
  BY <1>2, LeastExists
<1>4. \A j \in 0 .. i - 1 : ~ Stop(j)
  BY <1>3
<1>5. /\ FirstAvailable(tab, n, k) \in 0 .. n
      /\ FirstAvailable(tab, n, k) = n \/ Stop(FirstAvailable(tab, n, k))
      /\ \A j \in 0 .. FirstAvailable(tab, n, k) - 1 : ~ Stop(j)
  BY <1>1, <1>3, <1>4
<1> QED
  BY <1>5 DEF Stop

-----------------------------------------------------------------------------
(* A table: no key is there twice, and the scan for a key that is there    *)
(* meets no clean bucket before it.                                        *)
Unique(tab, n) ==
  \A p, q \in 0 .. n - 1 :
    tab[p].is_present /\ tab[q].is_present /\ tab[p].key = tab[q].key => p = q
Reached(tab, n, p) ==
  \E i \in 0 .. n - 1 :
    /\ Probe(tab[p].key, i, n) = p
    /\ \A j \in 0 .. i - 1 : ~ IsClean(tab, Probe(tab[p].key, j, n))
TableOK(tab, n) ==
  /\ tab \in [0 .. n - 1 -> Bucket]
  /\ \A p \in 0 .. n - 1 : tab[p].is_present =>
       /\ tab[p].key \in Keys /\ tab[p].value \in Values /\ ~ tab[p].is_thombstone
       /\ Reached(tab, n, p)
  /\ Unique(tab, n)

(* So a look-up finds exactly what is there.                               *)
LEMMA FindFacts ==
  ASSUME NEW n \in Nat \ {0}, NEW tab, TableOK(tab, n), NEW k \in Keys
  PROVE  /\ \A p \in 0 .. n - 1 : Has(tab, p, k) =>
               /\ Find(tab, n, k) = p
               /\ ScanEnd(tab, n, k) < n /\ Probe(k, ScanEnd(tab, n, k), n) = p
         /\ (\A p \in 0 .. n - 1 : ~ Has(tab, p, k)) =>
               /\ Find(tab, n, k) = None
               /\ ~ (ScanEnd(tab, n, k) < n /\ Has(tab, Probe(k, ScanEnd(tab, n, k), n), k))
<1> DEFINE stop == ScanEnd(tab, n, k)
           at == Probe(k, stop, n)
<1>1. /\ stop \in 0 .. n
      /\ stop < n => Has(tab, at, k) \/ IsClean(tab, at)
      /\ \A j \in 0 .. stop - 1 : ~ Has(tab, Probe(k, j, n), k) /\ ~ IsClean(tab, Probe(k, j, n))
  BY ScanEndFacts
<1>2. at \in 0 .. n - 1
  BY <1>1, ProbeType
<1>3. Find(tab, n, k) = IF stop < n /\ Has(tab, at, k) THEN at ELSE None
  BY DEF Find
<1> HIDE DEF stop
<1>4. ASSUME NEW p \in 0 .. n - 1, Has(tab, p, k)
      PROVE  Find(tab, n, k) = p /\ stop < n /\ at = p
  <2>1. tab[p].is_present /\ tab[p].key = k
    BY <1>4 DEF Has
  <2>2. PICK i \in 0 .. n - 1 : Probe(k, i, n) = p /\ \A j \in 0 .. i - 1 : ~ IsClean(tab, Probe(k, j, n))
    BY <2>1 DEF TableOK, Reached
  <2>3. stop <= i
    BY <1>1, <1>4, <2>2
  <2>4. stop < n /\ Has(tab, at, k)
    <3>1. CASE stop = i
      BY <1>4, <2>2, <3>1
    <3>2. CASE stop < i
      BY <1>1, <2>2, <3>2
    <3> QED
      BY <1>1, <2>3, <3>1, <3>2
  <2>5. at = p
    BY <1>2, <2>1, <2>4 DEF Has, TableOK, Unique
  <2> QED
    BY <1>3, <2>4, <2>5
<1>5. ASSUME \A p \in 0 .. n - 1 : ~ Has(tab, p, k)
      PROVE  Find(tab, n, k) = None /\ ~ (stop < n /\ Has(tab, at, k))
  BY <1>2, <1>3, <1>5
<1> QED
  BY <1>4, <1>5 DEF stop

(* What is found, in one line.                                             *)
LEMMA ValueFacts ==
  ASSUME NEW n \in Nat \ {0}, NEW tab, TableOK(tab, n), NEW k \in Keys
  PROVE  /\ \A p \in 0 .. n - 1 : Has(tab, p, k) =>
              ValueOf(tab, n, k) = tab[p].value /\ tab[p].value # None
         /\ (\A p \in 0 .. n - 1 : ~ Has(tab, p, k)) => ValueOf(tab, n, k) = None
<1>1. ASSUME NEW p \in 0 .. n - 1, Has(tab, p, k)
      PROVE  ValueOf(tab, n, k) = tab[p].value /\ tab[p].value # None
  <2>1. Find(tab, n, k) = p /\ p # None
    BY <1>1, FindFacts, DictAssumption
  <2>2. tab[p].value \in Values
    BY <1>1 DEF Has, TableOK
  <2> QED
    BY <2>1, <2>2, DictAssumption DEF ValueOf
<1>2. ASSUME \A p \in 0 .. n - 1 : ~ Has(tab, p, k) PROVE ValueOf(tab, n, k) = None
  BY <1>2, FindFacts DEF ValueOf
<1> QED
  BY <1>1, <1>2

-----------------------------------------------------------------------------
(* The keys in the table.                                                  *)
PresentIn(tab, n) == {p \in 0 .. n - 1 : tab[p].is_present}
KeysOf(tab, n) == {tab[p].key : p \in PresentIn(tab, n)}

(* They are those that are found.                                          *)
LEMMA KeysAreFound ==
  ASSUME NEW n \in Nat \ {0}, NEW tab, TableOK(tab, n)
  PROVE  /\ KeysOf(tab, n) = {k \in Keys : Find(tab, n, k) # None}
         /\ \A k \in Keys : k \in KeysOf(tab, n) <=> ValueOf(tab, n, k) # None
<1>1. KeysOf(tab, n) \subseteq Keys
  BY DEF KeysOf, PresentIn, TableOK
<1>2. \A k \in Keys : k \in KeysOf(tab, n) <=> \E p \in 0 .. n - 1 : Has(tab, p, k)
  BY DEF KeysOf, PresentIn, Has
<1>3. \A k \in Keys : (\E p \in 0 .. n - 1 : Has(tab, p, k)) <=> Find(tab, n, k) # None
  BY FindFacts, DictAssumption
<1>4. \A k \in Keys : (\E p \in 0 .. n - 1 : Has(tab, p, k)) <=> ValueOf(tab, n, k) # None
  BY ValueFacts
<1> QED
  BY <1>1, <1>2, <1>3, <1>4

(* There are finitely many, and when all buckets are taken as many as      *)
(* buckets.                                                                *)
LEMMA KeysFinite ==
  ASSUME NEW n \in Nat \ {0}, NEW tab, TableOK(tab, n)
  PROVE  /\ IsFiniteSet(KeysOf(tab, n)) /\ Cardinality(KeysOf(tab, n)) \in 0 .. n
         /\ (\A p \in 0 .. n - 1 : tab[p].is_present) => Cardinality(KeysOf(tab, n)) >= n
<1> DEFINE K == KeysOf(tab, n)
           P == PresentIn(tab, n)
           f == [p \in P |-> tab[p].key]
<1>1. IsFiniteSet(0 .. n - 1) /\ Cardinality(0 .. n - 1) = n
  BY FS_Interval
<1>2. P \in SUBSET (0 .. n - 1)
  BY DEF PresentIn
<1>3. IsFiniteSet(P) /\ Cardinality(P) <= n
  BY <1>1, <1>2, FS_Subset
<1>4. f \in Surjection(P, K)
  BY DEF KeysOf, Surjection
<1>5. IsFiniteSet(K) /\ Cardinality(K) \in 0 .. n
  <2>1. IsFiniteSet(K) /\ Cardinality(K) <= Cardinality(P)
    BY <1>3, <1>4, FS_Surjection
  <2> QED
    BY <1>3, <2>1, FS_CardinalityType
<1>6. ASSUME \A p \in 0 .. n - 1 : tab[p].is_present, ~ (Cardinality(K) >= n)
      PROVE  FALSE
  <2>1. P = 0 .. n - 1
    BY <1>6 DEF PresentIn
  <2>2. f \in [0 .. n - 1 -> K] /\ Cardinality(K) < Cardinality(0 .. n - 1)
    BY <1>1, <1>4, <1>5, <1>6, <2>1, FS_CardinalityType DEF Surjection
  <2> HIDE DEF f, K
  <2>3. PICK x, y \in 0 .. n - 1 : x # y /\ f[x] = f[y]
    BY <1>1, <1>5, <2>2, FS_PigeonHole
  <2>4. tab[x].key = tab[y].key
    BY <2>1, <2>3 DEF f
  <2> QED
    BY <1>6, <2>3, <2>4 DEF TableOK, Unique
<1> QED
  BY <1>5, <1>6

-----------------------------------------------------------------------------
(* What the scan of an insertion finds.                                    *)
LEMMA ScanFacts ==
  ASSUME NEW n \in Nat \ {0}, NEW tab, TableOK(tab, n), NEW k \in Keys
  PROVE  LET at == Scan(tab, n, k) IN
         /\ at.dst \in 0 .. n - 1 /\ at.src \in 0 .. n - 1
         /\ at.mode \in {"Inserting", "Overwriting", "Moving"}
         /\ at.mode = "Inserting" <=> \A p \in 0 .. n - 1 : ~ Has(tab, p, k)
         /\ at.mode # "Inserting" => at.available /\ Has(tab, at.src, k)
         /\ at.mode = "Overwriting" => at.dst = at.src
         /\ at.mode = "Moving" => at.dst # at.src
         /\ at.available => Has(tab, at.dst, k) \/ IsFree(tab, at.dst)
         /\ at.available =>
              \E i \in 0 .. n - 1 :
                at.dst = Probe(k, i, n) /\ \A j \in 0 .. i - 1 : ~ IsFree(tab, Probe(k, j, n))
         /\ (\E p \in 0 .. n - 1 : IsFree(tab, p)) => at.available
<1> DEFINE stop == ScanEnd(tab, n, k)
           first == FirstAvailable(tab, n, k)
           found == stop < n /\ Has(tab, Probe(k, stop, n), k)
           at == Scan(tab, n, k)
<1>1. /\ at.available <=> first < n
      /\ at.dst = Probe(k, first, n) /\ at.src = Probe(k, stop, n)
      /\ at.mode = IF ~ found THEN "Inserting" ELSE IF first = stop THEN "Overwriting" ELSE "Moving"
  BY DEF Scan
<1>2. /\ stop \in 0 .. n
      /\ \A j \in 0 .. stop - 1 : ~ Has(tab, Probe(k, j, n), k) /\ ~ IsClean(tab, Probe(k, j, n))
  BY ScanEndFacts
<1>3. /\ first \in 0 .. n
      /\ first < n => Has(tab, Probe(k, first, n), k) \/ IsFree(tab, Probe(k, first, n))
      /\ \A j \in 0 .. first - 1 : ~ Has(tab, Probe(k, j, n), k) /\ ~ IsFree(tab, Probe(k, j, n))
  BY FirstAvailableFacts
<1>4. found <=> \E p \in 0 .. n - 1 : Has(tab, p, k)
  BY FindFacts
<1>5. at.dst \in 0 .. n - 1 /\ at.src \in 0 .. n - 1
  BY <1>1, <1>2, <1>3, ProbeType
<1> HIDE DEF stop, first, at
<1>6. found => first <= stop
  BY <1>2, <1>3
<1>7. at.mode = "Moving" => at.dst # at.src
  <2> SUFFICES ASSUME at.mode = "Moving", at.dst = at.src PROVE FALSE
    OBVIOUS
  <2>1. found /\ first # stop
    BY <1>1
  <2>2. first < stop /\ first < n /\ first \in 0 .. stop - 1
    BY <1>2, <1>3, <1>6, <2>1
  <2>3. ~ Has(tab, at.dst, k)
    BY <1>1, <1>2, <2>2
  <2> QED
    BY <1>1, <2>1, <2>3
<1>8. ASSUME NEW p \in 0 .. n - 1, IsFree(tab, p) PROVE first < n
  <2>1. PICK i \in 0 .. n - 1 : Probe(k, i, n) = p
    BY ProbeReaches
  <2> QED
    BY <1>3, <1>8, <2>1
<1>9. at.available =>
        \E i \in 0 .. n - 1 :
          at.dst = Probe(k, i, n) /\ \A j \in 0 .. i - 1 : ~ IsFree(tab, Probe(k, j, n))
  BY <1>1, <1>3
<1>10. at.available => Has(tab, at.dst, k) \/ IsFree(tab, at.dst)
  BY <1>1, <1>3
<1>11. /\ at.mode \in {"Inserting", "Overwriting", "Moving"}
       /\ at.mode = "Inserting" <=> \A p \in 0 .. n - 1 : ~ Has(tab, p, k)
       /\ at.mode # "Inserting" => Has(tab, at.src, k)
       /\ at.mode = "Overwriting" => at.dst = at.src
  BY <1>1, <1>4
<1>12. at.mode # "Inserting" => at.available
  BY <1>1, <1>2, <1>3, <1>6
<1> QED
  BY <1>1, <1>5, <1>7, <1>8, <1>9, <1>10, <1>11, <1>12 DEF at

(* After an insertion the key is in one bucket, with its value, and the    *)
(* others are where they were.                                             *)
LEMMA PlaceFacts ==
  ASSUME NEW n \in Nat \ {0}, NEW tab, TableOK(tab, n), NEW k \in Keys, NEW v \in Values,
         NEW at, at = Scan(tab, n, k), at.available,
         NEW new, new = Place(tab, at, k, v)
  PROVE  /\ new \in [0 .. n - 1 -> Bucket]
         /\ new[at.dst] = Holding(k, v)
         /\ \A p \in 0 .. n - 1 : Has(new, p, k) <=> p = at.dst
         /\ \A p \in 0 .. n - 1 : new[p].is_present /\ p # at.dst =>
              new[p] = tab[p] /\ tab[p].is_present /\ tab[p].key # k
         /\ \A p \in 0 .. n - 1 : tab[p].is_present /\ tab[p].key # k =>
              p # at.dst /\ new[p] = tab[p]
         /\ \A p \in 0 .. n - 1 : ~ IsClean(tab, p) => ~ IsClean(new, p)
<1>1. /\ at.dst \in 0 .. n - 1 /\ at.src \in 0 .. n - 1
      /\ at.mode \in {"Inserting", "Overwriting", "Moving"}
      /\ at.mode = "Inserting" <=> \A p \in 0 .. n - 1 : ~ Has(tab, p, k)
      /\ at.mode # "Inserting" => Has(tab, at.src, k)
      /\ at.mode = "Overwriting" => at.dst = at.src
      /\ at.mode = "Moving" => at.dst # at.src
      /\ Has(tab, at.dst, k) \/ IsFree(tab, at.dst)
  BY ScanFacts
<1>2. tab \in [0 .. n - 1 -> Bucket] /\ Unique(tab, n)
  BY DEF TableOK
<1>3. \A p \in 0 .. n - 1 :
        new[p] = IF p = at.dst THEN Holding(k, v)
                 ELSE IF at.mode = "Moving" /\ p = at.src THEN Thombstone ELSE tab[p]
  BY <1>2 DEF Place, Positions
<1>4. Holding(k, v) \in Bucket /\ Thombstone \in Bucket
  BY DEF Holding, Thombstone, EmptyBucket, Bucket
<1>5. /\ Holding(k, v).is_present /\ Holding(k, v).key = k
      /\ ~ Thombstone.is_present /\ Thombstone.is_thombstone
  BY DEF Holding, Thombstone, EmptyBucket
<1>6. new \in [0 .. n - 1 -> Bucket]
  BY <1>2, <1>4 DEF Place, Positions
<1>7. ASSUME NEW p \in 0 .. n - 1, new[p].is_present, p # at.dst
      PROVE  new[p] = tab[p] /\ tab[p].is_present /\ tab[p].key # k
  <2>1. new[p] = tab[p] /\ ~ (at.mode = "Moving" /\ p = at.src)
    BY <1>3, <1>5, <1>7
  <2>2. tab[p].key # k
    BY <1>1, <1>2, <1>7, <2>1 DEF Has, Unique
  <2> QED
    BY <1>7, <2>1, <2>2
<1>8. ASSUME NEW p \in 0 .. n - 1, tab[p].is_present, tab[p].key # k
      PROVE  p # at.dst /\ new[p] = tab[p]
  BY <1>1, <1>3, <1>8 DEF Has, IsFree
<1>9. ASSUME NEW p \in 0 .. n - 1, ~ IsClean(tab, p)
      PROVE  ~ IsClean(new, p)
  BY <1>3, <1>5, <1>9 DEF IsClean, IsFree
<1>10. \A p \in 0 .. n - 1 : Has(new, p, k) <=> p = at.dst
  BY <1>1, <1>3, <1>5, <1>7 DEF Has
<1> QED
  BY <1>1, <1>3, <1>6, <1>7, <1>8, <1>9, <1>10

(* And it is a table again.                                                *)
LEMMA PlaceKeepsTable ==
  ASSUME NEW n \in Nat \ {0}, NEW tab, TableOK(tab, n), NEW k \in Keys, NEW v \in Values,
         NEW at, at = Scan(tab, n, k), at.available,
         NEW new, new = Place(tab, at, k, v)
  PROVE  TableOK(new, n)
<1>1. /\ new \in [0 .. n - 1 -> Bucket] /\ at.dst \in 0 .. n - 1
      /\ new[at.dst] = Holding(k, v)
      /\ \A p \in 0 .. n - 1 : new[p].is_present /\ p # at.dst =>
           new[p] = tab[p] /\ tab[p].is_present /\ tab[p].key # k
      /\ \A p \in 0 .. n - 1 : ~ IsClean(tab, p) => ~ IsClean(new, p)
  BY PlaceFacts, ScanFacts
<1>2. Holding(k, v).key = k /\ Holding(k, v).value = v /\ ~ Holding(k, v).is_thombstone
  BY DEF Holding
<1>3. ASSUME NEW p \in 0 .. n - 1, new[p].is_present
      PROVE  /\ new[p].key \in Keys /\ new[p].value \in Values /\ ~ new[p].is_thombstone
             /\ Reached(new, n, p)
  <2>1. CASE p = at.dst
    <3>1. new[p].key = k /\ new[p].value = v /\ ~ new[p].is_thombstone
      BY <1>1, <1>2, <2>1
    <3>2. PICK i \in 0 .. n - 1 :
            at.dst = Probe(k, i, n) /\ \A j \in 0 .. i - 1 : ~ IsFree(tab, Probe(k, j, n))
      BY ScanFacts
    <3>3. ASSUME NEW j \in 0 .. i - 1 PROVE ~ IsClean(new, Probe(k, j, n))
      <4>1. Probe(k, j, n) \in 0 .. n - 1
        BY ProbeType
      <4> QED
        BY <1>1, <3>2, <4>1 DEF IsClean
    <3> QED
      BY <2>1, <3>1, <3>2, <3>3 DEF Reached
  <2>2. CASE p # at.dst
    <3>1. new[p] = tab[p] /\ tab[p].is_present
      BY <1>1, <1>3, <2>2
    <3>2. /\ tab[p].key \in Keys /\ tab[p].value \in Values /\ ~ tab[p].is_thombstone
          /\ Reached(tab, n, p)
      BY <3>1 DEF TableOK
    <3>3. PICK i \in 0 .. n - 1 :
            /\ Probe(tab[p].key, i, n) = p
            /\ \A j \in 0 .. i - 1 : ~ IsClean(tab, Probe(tab[p].key, j, n))
      BY <3>2 DEF Reached
    <3>4. ASSUME NEW j \in 0 .. i - 1 PROVE ~ IsClean(new, Probe(tab[p].key, j, n))
      <4>1. Probe(tab[p].key, j, n) \in 0 .. n - 1
        BY <3>2, ProbeType
      <4> QED
        BY <1>1, <3>3, <4>1
    <3> QED
      BY <3>1, <3>2, <3>3, <3>4 DEF Reached
  <2> QED
    BY <2>1, <2>2
<1>4. Unique(new, n)
  <2> SUFFICES ASSUME NEW p \in 0 .. n - 1, NEW q \in 0 .. n - 1,
                      new[p].is_present, new[q].is_present, new[p].key = new[q].key
               PROVE  p = q
    BY DEF Unique
  <2>1. CASE p # at.dst /\ q # at.dst
    BY <1>1, <2>1 DEF TableOK, Unique
  <2>2. CASE p = at.dst \/ q = at.dst
    BY <1>1, <1>2, <2>2
  <2> QED
    BY <2>1, <2>2
<1> QED
  BY <1>1, <1>3, <1>4 DEF TableOK

(* The key is added, and has the value it was given.                       *)
LEMMA PlaceIsPut ==
  ASSUME NEW n \in Nat \ {0}, NEW tab, TableOK(tab, n), NEW k \in Keys, NEW v \in Values,
         NEW at, at = Scan(tab, n, k), at.available,
         NEW new, new = Place(tab, at, k, v)
  PROVE  /\ KeysOf(new, n) = KeysOf(tab, n) \cup {k}
         /\ at.mode = "Inserting" <=> k \notin KeysOf(tab, n)
         /\ \A c \in Keys : ValueOf(new, n, c) = IF c = k THEN v ELSE ValueOf(tab, n, c)
<1>1. /\ at.dst \in 0 .. n - 1 /\ new[at.dst] = Holding(k, v)
      /\ \A p \in 0 .. n - 1 : Has(new, p, k) <=> p = at.dst
      /\ \A p \in 0 .. n - 1 : new[p].is_present /\ p # at.dst =>
           new[p] = tab[p] /\ tab[p].is_present /\ tab[p].key # k
      /\ \A p \in 0 .. n - 1 : tab[p].is_present /\ tab[p].key # k =>
           p # at.dst /\ new[p] = tab[p]
  BY PlaceFacts, ScanFacts
<1>2. Holding(k, v).key = k /\ Holding(k, v).value = v /\ Holding(k, v).is_present
  BY DEF Holding
<1>3. TableOK(new, n)
  BY PlaceKeepsTable
<1>4. ASSUME NEW c \in Keys, c # k
      PROVE  \A p \in 0 .. n - 1 : Has(new, p, c) <=> Has(tab, p, c)
  BY <1>1, <1>2, <1>4 DEF Has
<1>5. ASSUME NEW c \in Keys
      PROVE  ValueOf(new, n, c) = IF c = k THEN v ELSE ValueOf(tab, n, c)
  <2>1. CASE c = k
    BY <1>1, <1>2, <1>3, <2>1, ValueFacts
  <2>2. CASE c # k
    <3>1. CASE \A p \in 0 .. n - 1 : ~ Has(tab, p, c)
      BY <1>3, <1>4, <2>2, <3>1, ValueFacts
    <3>2. CASE \E p \in 0 .. n - 1 : Has(tab, p, c)
      <4>1. PICK p \in 0 .. n - 1 : Has(tab, p, c)
        BY <3>2
      <4>2. Has(new, p, c) /\ new[p] = tab[p]
        BY <1>1, <1>4, <2>2, <4>1 DEF Has
      <4>3. ValueOf(tab, n, c) = tab[p].value
        BY <4>1, ValueFacts
      <4>4. ValueOf(new, n, c) = new[p].value
        BY <1>3, <4>2, ValueFacts
      <4> QED
        BY <2>2, <4>2, <4>3, <4>4
    <3> QED
      BY <3>1, <3>2
  <2> QED
    BY <2>1, <2>2
<1>6. KeysOf(new, n) = KeysOf(tab, n) \cup {k}
  <2>1. KeysOf(new, n) \subseteq Keys /\ KeysOf(tab, n) \subseteq Keys
    BY <1>3, KeysAreFound
  <2>2. \A c \in Keys : c \in KeysOf(new, n) <=> c \in KeysOf(tab, n) \/ c = k
    BY <1>1, <1>3, <1>4, <1>5, KeysAreFound, DictAssumption
  <2> QED
    BY <2>1, <2>2
<1>7. at.mode = "Inserting" <=> k \notin KeysOf(tab, n)
  <2>1. at.mode = "Inserting" <=> \A p \in 0 .. n - 1 : ~ Has(tab, p, k)
    BY ScanFacts
  <2> QED
    BY <2>1 DEF KeysOf, PresentIn, Has
<1> QED
  BY <1>5, <1>6, <1>7

-----------------------------------------------------------------------------
(* What rehash has done after pos buckets: a table exists after each.      *)
Rehashing(tab, n, m, g) ==
  /\ g[0] = [q \in 0 .. 2 * n - 1 |-> EmptyBucket]
  /\ \A pos \in 1 .. m : g[pos] = Reinsert(g[pos - 1], 2 * n, tab[pos - 1])

LEMMA RehashExists ==
  ASSUME NEW n \in Nat, NEW tab, NEW m \in 0 .. n
  PROVE  \E g : Rehashing(tab, n, m, g)
<1> DEFINE Bad == {i \in 0 .. n : ~ \E g : Rehashing(tab, n, i, g)}
<1> SUFFICES ASSUME Bad # {} PROVE FALSE
  OBVIOUS
<1>0. Bad \in SUBSET Nat
  OBVIOUS
<1> HIDE DEF Bad
<1>1. PICK i \in Bad : \A j \in Bad : i <= j
  BY <1>0, LeastExists
<1> USE DEF Bad
<1>2. CASE i = 0
  <2> DEFINE g == [pos \in {0} |-> [q \in 0 .. 2 * n - 1 |-> EmptyBucket]]
  <2>1. Rehashing(tab, n, 0, g)
    BY DEF Rehashing
  <2> QED
    BY <1>1, <1>2, <2>1
<1>3. CASE i > 0
  <2>1. i - 1 \in 0 .. n /\ i - 1 \notin Bad
    BY <1>1, <1>3
  <2>2. PICK g : Rehashing(tab, n, i - 1, g)
    BY <2>1
  <2> DEFINE h == [pos \in 0 .. i |->
                     IF pos < i THEN g[pos] ELSE Reinsert(g[i - 1], 2 * n, tab[i - 1])]
  <2>3. h[0] = g[0]
    BY <1>1, <1>3
  <2>4. ASSUME NEW pos \in 1 .. i PROVE h[pos] = Reinsert(h[pos - 1], 2 * n, tab[pos - 1])
    <3>1. h[pos - 1] = g[pos - 1]
      BY <1>1
    <3>2. CASE pos < i
      <4>1. h[pos] = g[pos] /\ pos \in 1 .. i - 1
        BY <1>1, <3>2
      <4> QED
        BY <2>2, <3>1, <4>1 DEF Rehashing
    <3>3. CASE pos = i
      <4>1. h[pos] = Reinsert(g[i - 1], 2 * n, tab[i - 1])
        BY <1>1, <3>3
      <4> QED
        BY <3>1, <3>3, <4>1
    <3> QED
      BY <1>1, <3>2, <3>3
  <2> HIDE DEF h
  <2>5. Rehashing(tab, n, i, h)
    BY <2>2, <2>3, <2>4 DEF Rehashing
  <2> QED
    BY <1>1, <2>5
<1> QED
  BY <1>1, <1>2, <1>3

(* Grown is what it ends with.                                             *)
LEMMA GrownIsRehashed ==
  ASSUME NEW n \in Nat, NEW tab
  PROVE  \E g : Rehashing(tab, n, n, g) /\ Grown(tab, n) = g[n]
<1> DEFINE step(g, pos) == IF pos = 0 THEN [q \in 0 .. 2 * n - 1 |-> EmptyBucket]
                           ELSE Reinsert(g[pos - 1], 2 * n, tab[pos - 1])
           r == CHOOSE g : g = [pos \in 0 .. n |-> step(g, pos)]
<1>1. Grown(tab, n) = r[n]
  BY DEF Grown
<1>2. PICK g : Rehashing(tab, n, n, g)
  BY RehashExists
<1> DEFINE h == [pos \in 0 .. n |-> g[pos]]
<1>3. ASSUME NEW pos \in 0 .. n PROVE h[pos] = step(h, pos)
  <2>1. CASE pos = 0
    BY <1>2, <2>1 DEF Rehashing
  <2>2. CASE pos # 0
    <3>1. pos \in 1 .. n /\ h[pos - 1] = g[pos - 1] /\ h[pos] = g[pos]
      BY <2>2
    <3>2. h[pos] = Reinsert(g[pos - 1], 2 * n, tab[pos - 1])
      BY <1>2, <3>1 DEF Rehashing
    <3> QED
      BY <2>2, <3>1, <3>2
  <2> QED
    BY <2>1, <2>2
<1>4. h = [pos \in 0 .. n |-> h[pos]]
  OBVIOUS
<1> HIDE DEF h, step
<1>5. h = [pos \in 0 .. n |-> step(h, pos)]
  BY <1>3, <1>4
<1>6. r = [pos \in 0 .. n |-> step(r, pos)]
  BY <1>5
<1> HIDE DEF r
<1>7. \A pos \in 0 .. n : r[pos] = step(r, pos)
  BY <1>6
<1>8. Rehashing(tab, n, n, r)
  <2>1. r[0] = [q \in 0 .. 2 * n - 1 |-> EmptyBucket]
    BY <1>7 DEF step
  <2>2. ASSUME NEW pos \in 1 .. n PROVE r[pos] = Reinsert(r[pos - 1], 2 * n, tab[pos - 1])
    BY <1>7 DEF step
  <2> QED
    BY <2>1, <2>2 DEF Rehashing
<1> QED
  BY <1>1, <1>8

-----------------------------------------------------------------------------
(* The entries of the first pos buckets are in the new table, and there is *)
(* no tombstone in it.                                                     *)
Rehashed(tab, n, pos, new) ==
  /\ TableOK(new, 2 * n)
  /\ \A q \in 0 .. 2 * n - 1 : ~ new[q].is_thombstone
  /\ \A c \in Keys : c \in KeysOf(new, 2 * n) <=> \E q \in 0 .. pos - 1 : Has(tab, q, c)
  /\ \A q \in 0 .. pos - 1 : tab[q].is_present =>
       ValueOf(new, 2 * n, tab[q].key) = tab[q].value

(* The new table, before anything is in it.                                *)
LEMMA EmptyTable ==
  ASSUME NEW n \in Nat, NEW new, new = [q \in 0 .. n - 1 |-> EmptyBucket]
  PROVE  TableOK(new, n) /\ KeysOf(new, n) = {} /\ \A q \in 0 .. n - 1 : IsClean(new, q)
<1>1. /\ EmptyBucket \in Bucket /\ ~ EmptyBucket.is_present /\ ~ EmptyBucket.is_thombstone
  BY DEF EmptyBucket, Bucket
<1> QED
  BY <1>1 DEF TableOK, Unique, KeysOf, PresentIn, IsClean, IsFree

(* A bucket more.  Its key is fresh, and there is room.                    *)
LEMMA ReinsertStep ==
  ASSUME NEW n \in Nat \ {0}, NEW tab, TableOK(tab, n), NEW pos \in 1 .. n, NEW old,
         Rehashed(tab, n, pos - 1, old),
         NEW new, new = Reinsert(old, 2 * n, tab[pos - 1])
  PROVE  Rehashed(tab, n, pos, new)
<1> DEFINE b == tab[pos - 1]
           at == Scan(old, 2 * n, b.key)
<1>1. pos - 1 \in 0 .. n - 1 /\ 2 * n \in Nat \ {0} /\ TableOK(old, 2 * n)
  BY DEF Rehashed
<1>2. CASE ~ b.is_present
  <2>1. new = old
    BY <1>2 DEF Reinsert
  <2>2. \A q \in 0 .. pos - 1 : tab[q].is_present => q \in 0 .. (pos - 1) - 1
    BY <1>2
  <2>3. \A c : (\E q \in 0 .. pos - 1 : Has(tab, q, c)) <=> \E q \in 0 .. (pos - 1) - 1 : Has(tab, q, c)
    BY <2>2 DEF Has
  <2> QED
    BY <2>1, <2>2, <2>3 DEF Rehashed
<1>3. CASE b.is_present
  <2>1. b.key \in Keys /\ b.value \in Values
    BY <1>1, <1>3 DEF TableOK
  <2>2. new = Place(old, at, b.key, b.value)
    BY <1>3 DEF Reinsert
  <2>3. ~ \E q \in 0 .. (pos - 1) - 1 : Has(tab, q, b.key)
    BY <1>1, <1>3 DEF Has, TableOK, Unique
  <2>4. b.key \notin KeysOf(old, 2 * n)
    BY <2>1, <2>3 DEF Rehashed
  <2>5. at.available
    <3> SUFFICES ASSUME \A q \in 0 .. 2 * n - 1 : old[q].is_present PROVE FALSE
      BY <1>1, <2>1, ScanFacts DEF IsFree
    <3>1. Cardinality(KeysOf(old, 2 * n)) >= 2 * n
      BY <1>1, KeysFinite
    <3>2. KeysOf(old, 2 * n) \subseteq Keys
      BY <1>1, KeysAreFound
    <3>3. KeysOf(old, 2 * n) \subseteq KeysOf(tab, n)
      <4> SUFFICES ASSUME NEW c \in KeysOf(old, 2 * n) PROVE c \in KeysOf(tab, n)
        OBVIOUS
      <4>1. c \in Keys
        BY <3>2
      <4>2. PICK q \in 0 .. (pos - 1) - 1 : Has(tab, q, c)
        BY <4>1 DEF Rehashed
      <4>3. q \in 0 .. n - 1 /\ tab[q].is_present /\ tab[q].key = c
        BY <4>2 DEF Has
      <4> QED
        BY <4>3 DEF KeysOf, PresentIn
    <3>4. IsFiniteSet(KeysOf(tab, n)) /\ Cardinality(KeysOf(tab, n)) <= n
      BY KeysFinite
    <3>5. Cardinality(KeysOf(old, 2 * n)) <= Cardinality(KeysOf(tab, n))
      BY <3>3, <3>4, FS_Subset
    <3>6. Cardinality(KeysOf(old, 2 * n)) \in Nat /\ Cardinality(KeysOf(tab, n)) \in Nat
      BY <1>1, KeysFinite
    <3> QED
      BY <3>1, <3>4, <3>5, <3>6
  <2> HIDE DEF at, b
  <2>6. TableOK(new, 2 * n)
    BY <1>1, <2>1, <2>2, <2>5, PlaceKeepsTable DEF at
  <2>7. /\ KeysOf(new, 2 * n) = KeysOf(old, 2 * n) \cup {b.key}
        /\ at.mode = "Inserting"
        /\ \A c \in Keys : ValueOf(new, 2 * n, c) = IF c = b.key THEN b.value ELSE ValueOf(old, 2 * n, c)
    BY <1>1, <2>1, <2>2, <2>4, <2>5, PlaceIsPut DEF at
  <2>8. ASSUME NEW q \in 0 .. 2 * n - 1 PROVE ~ new[q].is_thombstone
    <3>1. new[q] = IF q = at.dst THEN Holding(b.key, b.value) ELSE old[q]
      BY <1>1, <2>2, <2>7 DEF Place, Positions, TableOK
    <3> QED
      BY <3>1 DEF Holding, Rehashed
  <2>9. ASSUME NEW c \in Keys
        PROVE  c \in KeysOf(new, 2 * n) <=> \E q \in 0 .. pos - 1 : Has(tab, q, c)
    <3>1. Has(tab, pos - 1, c) <=> c = b.key
      BY <1>3 DEF Has, b
    <3>2. (\E q \in 0 .. pos - 1 : Has(tab, q, c)) <=>
            (\E q \in 0 .. (pos - 1) - 1 : Has(tab, q, c)) \/ c = b.key
      BY <3>1
    <3> QED
      BY <2>7, <3>2 DEF Rehashed
  <2>10. ASSUME NEW q \in 0 .. pos - 1, tab[q].is_present
         PROVE  ValueOf(new, 2 * n, tab[q].key) = tab[q].value
    <3>1. q \in 0 .. n - 1 /\ tab[q].key \in Keys
      BY <2>10 DEF TableOK
    <3>2. CASE q = pos - 1
      BY <2>7, <3>1, <3>2 DEF b
    <3>3. CASE q # pos - 1
      <4>1. q \in 0 .. (pos - 1) - 1
        BY <3>3
      <4>2. tab[q].key # b.key
        BY <2>3, <2>10, <4>1 DEF Has
      <4> QED
        BY <2>7, <2>10, <3>1, <4>1, <4>2 DEF Rehashed
    <3> QED
      BY <3>2, <3>3
  <2> QED
    BY <2>6, <2>8, <2>9, <2>10 DEF Rehashed
<1> QED
  BY <1>2, <1>3

(* All of them.                                                            *)
LEMMA GrownFacts ==
  ASSUME NEW n \in Nat \ {0}, NEW tab, TableOK(tab, n)
  PROVE  /\ TableOK(Grown(tab, n), 2 * n)
         /\ \A q \in 0 .. 2 * n - 1 : ~ Grown(tab, n)[q].is_thombstone
         /\ KeysOf(Grown(tab, n), 2 * n) = KeysOf(tab, n)
         /\ \A c \in Keys : ValueOf(Grown(tab, n), 2 * n, c) = ValueOf(tab, n, c)
<1>1. PICK g : Rehashing(tab, n, n, g) /\ Grown(tab, n) = g[n]
  BY GrownIsRehashed
<1> DEFINE Bad == {pos \in 0 .. n : ~ Rehashed(tab, n, pos, g[pos])}
           new == Grown(tab, n)
<1>2. ASSUME Bad # {} PROVE FALSE
  <2>1. Bad \in SUBSET Nat
    OBVIOUS
  <2> HIDE DEF Bad
  <2>2. PICK pos \in Bad : \A j \in Bad : pos <= j
    BY <1>2, <2>1, LeastExists
  <2> USE DEF Bad
  <2>3. CASE pos = 0
    <3>1. 2 * n \in Nat /\ g[0] = [q \in 0 .. 2 * n - 1 |-> EmptyBucket]
      BY <1>1 DEF Rehashing
    <3>2. /\ TableOK(g[0], 2 * n) /\ KeysOf(g[0], 2 * n) = {}
          /\ \A q \in 0 .. 2 * n - 1 : IsClean(g[0], q)
      BY <3>1, EmptyTable
    <3>3. Rehashed(tab, n, 0, g[0])
      BY <3>2 DEF Rehashed, IsClean
    <3> QED
      BY <2>2, <2>3, <3>3
  <2>4. CASE pos # 0
    <3>1. pos \in 1 .. n /\ pos - 1 \in 0 .. n /\ pos - 1 \notin Bad
      BY <2>2, <2>4
    <3>2. Rehashed(tab, n, pos - 1, g[pos - 1]) /\ g[pos] = Reinsert(g[pos - 1], 2 * n, tab[pos - 1])
      BY <1>1, <3>1 DEF Rehashing
    <3>3. Rehashed(tab, n, pos, g[pos])
      BY <3>1, <3>2, ReinsertStep
    <3> QED
      BY <2>2, <3>3
  <2> QED
    BY <2>3, <2>4
<1>3. Rehashed(tab, n, n, new)
  BY <1>1, <1>2
<1> HIDE DEF new
<1>4. TableOK(new, 2 * n) /\ 2 * n \in Nat \ {0}
  BY <1>3 DEF Rehashed
<1>5. \A c \in Keys : c \in KeysOf(new, 2 * n) <=> \E q \in 0 .. n - 1 : Has(tab, q, c)
  BY <1>3 DEF Rehashed
<1>6. KeysOf(new, 2 * n) \subseteq Keys /\ KeysOf(tab, n) \subseteq Keys
  BY <1>4, KeysAreFound
<1>7. KeysOf(new, 2 * n) = KeysOf(tab, n)
  <2>1. \A c \in Keys : c \in KeysOf(tab, n) <=> \E q \in 0 .. n - 1 : Has(tab, q, c)
    BY DEF KeysOf, PresentIn, Has
  <2> QED
    BY <1>5, <1>6, <2>1
<1>8. ASSUME NEW c \in Keys PROVE ValueOf(new, 2 * n, c) = ValueOf(tab, n, c)
  <2>1. CASE c \in KeysOf(tab, n)
    <3>1. PICK q \in 0 .. n - 1 : tab[q].is_present /\ tab[q].key = c
      BY <2>1 DEF KeysOf, PresentIn
    <3>2. ValueOf(new, 2 * n, c) = tab[q].value
      BY <1>3, <3>1 DEF Rehashed
    <3> QED
      BY <3>1, <3>2, ValueFacts DEF Has
  <2>2. CASE c \notin KeysOf(tab, n)
    BY <1>4, <1>7, <2>2, KeysAreFound
  <2> QED
    BY <2>1, <2>2
<1> QED
  BY <1>3, <1>4, <1>7, <1>8 DEF Rehashed, new

-----------------------------------------------------------------------------
(* The inductive invariant.                                                *)
DictInv ==
  /\ size \in Nat /\ size >= 3 /\ size <= MaxSize
  /\ TableOK(alloc, size)
  /\ entries_count = Cardinality(KeysOf(alloc, size))
  /\ thombstones_count \in 0 .. Wrap - 1
  /\ iterator_state \in Nat \cup {None}
  /\ IterationIsExact
  /\ ScanEndsAtCleanBucket

(* A table with fewer entries than buckets and no tombstone has a clean    *)
(* bucket.                                                                 *)
LEMMA CleanBucketLeft ==
  ASSUME NEW n \in Nat \ {0}, NEW tab, TableOK(tab, n), Cardinality(KeysOf(tab, n)) < n,
         \A q \in 0 .. n - 1 : ~ tab[q].is_thombstone
  PROVE  \E p \in 0 .. n - 1 : IsClean(tab, p)
<1>1. Cardinality(KeysOf(tab, n)) \in Nat
  BY KeysFinite
<1>2. ~ \A p \in 0 .. n - 1 : tab[p].is_present
  BY <1>1, KeysFinite
<1> QED
  BY <1>2 DEF IsClean, IsFree

(* An insertion into a table of n buckets, when there is room for one more *)
(* as far as the counters tell.                                            *)
LEMMA InsertIntoFacts ==
  ASSUME NEW n \in Nat \ {0}, NEW tab, TableOK(tab, n), NEW tombs \in 0 .. Wrap - 1,
         NEW count, count = Cardinality(KeysOf(tab, n)), tombs \in {0, 1} => count + 1 < n,
         NEW k \in Keys, NEW v \in Values,
         Scan(tab, n, k).available, InsertInto(tab, n, count, tombs, k, v)
  PROVE  /\ size' = n /\ TableOK(alloc', size')
         /\ entries_count' = Cardinality(KeysOf(alloc', size'))
         /\ thombstones_count' \in 0 .. Wrap - 1
         /\ ScanEndsAtCleanBucket'
         /\ \A c \in Keys : ValueOf(alloc', size', c) = IF c = k THEN v ELSE ValueOf(tab, n, c)
         /\ reply' = [bool |-> ValueOf(tab, n, k) = None]
<1> DEFINE at == Scan(tab, n, k)
<1>1. /\ size' = n /\ alloc' = Place(tab, at, k, v)
      /\ thombstones_count' = IF tab[at.dst].is_thombstone THEN OneLess(tombs) ELSE tombs
      /\ entries_count' = IF at.mode = "Inserting" THEN count + 1 ELSE count
      /\ reply' = [bool |-> at.mode = "Inserting"]
  BY DEF InsertInto
<1> HIDE DEF at
<1>2. TableOK(alloc', n)
  BY <1>1, PlaceKeepsTable DEF at
<1>3. /\ KeysOf(alloc', n) = KeysOf(tab, n) \cup {k}
      /\ at.mode = "Inserting" <=> k \notin KeysOf(tab, n)
      /\ \A c \in Keys : ValueOf(alloc', n, c) = IF c = k THEN v ELSE ValueOf(tab, n, c)
  BY <1>1, PlaceIsPut DEF at
<1>4. IsFiniteSet(KeysOf(tab, n)) /\ count \in Nat
  BY KeysFinite
<1>5. entries_count' = Cardinality(KeysOf(alloc', n)) /\ entries_count' \in {count, count + 1}
  BY <1>1, <1>3, <1>4, FS_AddElement
<1>6. OneLess(tombs) \in 0 .. Wrap - 1 /\ (OneLess(tombs) = 0 => tombs = 1)
  <2>1. Wrap \in Nat /\ Wrap > 0
    BY DictAssumption
  <2>2. CASE tombs = 0
    BY <2>1, <2>2, DictAssumption DEF OneLess
  <2>3. CASE tombs > 0
    <3>1. tombs - 1 \in 0 .. Wrap - 1 /\ tombs + Wrap - 1 = Wrap * 1 + (tombs - 1)
      BY <2>1, <2>3
    <3>2. (Wrap * 1 + (tombs - 1)) % Wrap = tombs - 1
      BY <2>1, <3>1, RestIsUnique
    <3> QED
      BY <3>1, <3>2 DEF OneLess
  <2> QED
    BY <2>2, <2>3
<1>7. thombstones_count' \in 0 .. Wrap - 1 /\ (thombstones_count' = 0 => tombs \in {0, 1})
  BY <1>1, <1>6
<1>8. ASSUME thombstones_count' = 0, \A q \in 0 .. n - 1 : ~ alloc'[q].is_thombstone
      PROVE  \E p \in 0 .. n - 1 : IsClean(alloc', p)
  <2>1. Cardinality(KeysOf(alloc', n)) < n
    BY <1>4, <1>5, <1>7, <1>8
  <2> QED
    BY <1>2, <1>8, <2>1, CleanBucketLeft
<1>9. ScanEndsAtCleanBucket'
  BY <1>1, <1>8 DEF ScanEndsAtCleanBucket, IsClean, IsFree
<1>10. reply' = [bool |-> ValueOf(tab, n, k) = None]
  BY <1>1, <1>3, KeysAreFound
<1> QED
  BY <1>1, <1>2, <1>3, <1>5, <1>7, <1>9, <1>10

(* The room there is before a growth, and after one.                       *)
LEMMA RoomBefore ==
  ASSUME DictInv, ~ MustGrow, thombstones_count \in {0, 1}
  PROVE  entries_count + 1 < size
<1>1. entries_count \in 0 .. size
  BY KeysFinite DEF DictInv
<1>2. entries_count + thombstones_count \in 0 .. Wrap - 1 /\ Wrap \in Nat \ {0}
  BY <1>1, DictAssumption DEF DictInv
<1>3. (entries_count + thombstones_count) % Wrap = entries_count + thombstones_count
  BY <1>2
<1>4. (entries_count + thombstones_count) * 10 <= 6 * size
  BY <1>1, <1>2, <1>3 DEF MustGrow, DictInv
<1> QED
  BY <1>1, <1>4 DEF DictInv

(* Insert, seen as the one insertion it makes in the end.                  *)
LEMMA InsertFacts ==
  ASSUME DictInv, NEW k \in Keys, NEW v \in Values, Insert(k, v)
  PROVE  \/ UNCHANGED <<size, alloc, entries_count, thombstones_count, reply>>
         \/ /\ size' \in Nat /\ size' >= 3 /\ size' <= MaxSize /\ TableOK(alloc', size')
            /\ entries_count' = Cardinality(KeysOf(alloc', size'))
            /\ thombstones_count' \in 0 .. Wrap - 1
            /\ ScanEndsAtCleanBucket'
            /\ \A c \in Keys : ValueOf(alloc', size', c) = IF c = k THEN v ELSE ValueOf(alloc, size, c)
            /\ reply' = [bool |-> ValueOf(alloc, size, k) = None]
<1>1. CASE ~ MustGrow /\ InsertInto(alloc, size, entries_count, thombstones_count, k, v)
  <2>1. CASE Scan(alloc, size, k).available
    <3>1. size \in Nat \ {0} /\ TableOK(alloc, size) /\ thombstones_count \in 0 .. Wrap - 1
      BY DEF DictInv
    <3>2. /\ size' = size /\ TableOK(alloc', size')
          /\ entries_count' = Cardinality(KeysOf(alloc', size'))
          /\ thombstones_count' \in 0 .. Wrap - 1
          /\ ScanEndsAtCleanBucket'
          /\ \A c \in Keys : ValueOf(alloc', size', c) = IF c = k THEN v ELSE ValueOf(alloc, size, c)
          /\ reply' = [bool |-> ValueOf(alloc, size, k) = None]
      BY <1>1, <2>1, <3>1, RoomBefore, InsertIntoFacts DEF DictInv
    <3> QED
      BY <3>2 DEF DictInv
  <2>2. CASE ~ Scan(alloc, size, k).available
    BY <1>1, <2>2 DEF InsertInto
  <2> QED
    BY <2>1, <2>2
<1>2. CASE /\ MustGrow /\ 2 * size <= MaxSize
           /\ InsertInto(Grown(alloc, size), 2 * size, entries_count, 0, k, v)
  <2> DEFINE new == Grown(alloc, size)
  <2>1. size \in Nat \ {0} /\ 2 * size \in Nat \ {0} /\ TableOK(alloc, size) /\ Wrap \in Nat \ {0}
    BY DictAssumption DEF DictInv
  <2>2. /\ TableOK(new, 2 * size) /\ KeysOf(new, 2 * size) = KeysOf(alloc, size)
        /\ \A c \in Keys : ValueOf(new, 2 * size, c) = ValueOf(alloc, size, c)
    BY <2>1, GrownFacts
  <2> HIDE DEF new
  <2>3. entries_count \in 0 .. size
    BY <2>1, KeysFinite DEF DictInv
  <2>4. entries_count = Cardinality(KeysOf(new, 2 * size)) /\ entries_count + 1 < 2 * size
    BY <2>2, <2>3 DEF DictInv
  <2>5. InsertInto(new, 2 * size, entries_count, 0, k, v) /\ 0 \in 0 .. Wrap - 1
    BY <1>2, <2>1 DEF new
  <2>6. CASE Scan(new, 2 * size, k).available
    <3>1. /\ size' = 2 * size /\ TableOK(alloc', size')
          /\ entries_count' = Cardinality(KeysOf(alloc', size'))
          /\ thombstones_count' \in 0 .. Wrap - 1
          /\ ScanEndsAtCleanBucket'
          /\ \A c \in Keys : ValueOf(alloc', size', c) = IF c = k THEN v ELSE ValueOf(new, 2 * size, c)
          /\ reply' = [bool |-> ValueOf(new, 2 * size, k) = None]
      BY <2>1, <2>2, <2>4, <2>5, <2>6, InsertIntoFacts
    <3> QED
      BY <1>2, <2>1, <2>2, <3>1 DEF DictInv
  <2>7. CASE ~ Scan(new, 2 * size, k).available
    BY <2>5, <2>7 DEF InsertInto
  <2> QED
    BY <2>6, <2>7
<1> QED
  BY <1>1, <1>2 DEF Insert

LEMMA InsertInv ==
  ASSUME DictInv, NEW k \in Keys, NEW v \in Values, Insert(k, v)
  PROVE  DictInv'
<1>1. iterator_state' = None
  BY DEF Insert
<1>2. CASE UNCHANGED <<size, alloc, entries_count, thombstones_count, reply>>
  BY <1>1, <1>2 DEF DictInv, IterationIsExact, ScanEndsAtCleanBucket, IsClean, IsFree, KeysOf, PresentIn
<1>3. CASE /\ size' \in Nat /\ size' >= 3 /\ size' <= MaxSize /\ TableOK(alloc', size')
           /\ entries_count' = Cardinality(KeysOf(alloc', size'))
           /\ thombstones_count' \in 0 .. Wrap - 1
           /\ ScanEndsAtCleanBucket'
  BY <1>1, <1>3 DEF DictInv, IterationIsExact
<1> QED
  BY <1>2, <1>3, InsertFacts

(* A removal.                                                              *)
LEMMA RemoveFacts ==
  ASSUME DictInv, NEW k \in Keys, Find(alloc, size, k) # None,
         alloc' = RemoveAt(Find(alloc, size, k))
  PROVE  /\ Find(alloc, size, k) \in 0 .. size - 1 /\ Has(alloc, Find(alloc, size, k), k)
         /\ TableOK(alloc', size) /\ KeysOf(alloc', size) = KeysOf(alloc, size) \ {k}
         /\ k \in KeysOf(alloc, size)
         /\ \A c \in Keys : ValueOf(alloc', size, c) = IF c = k THEN None ELSE ValueOf(alloc, size, c)
         /\ \A q \in 0 .. size - 1 : alloc'[q].is_present <=>
              alloc[q].is_present /\ q # Find(alloc, size, k)
         /\ \A q \in 0 .. size - 1 : alloc'[q].is_present => alloc'[q] = alloc[q]
         /\ alloc'[Find(alloc, size, k)].is_thombstone
<1> DEFINE p == Find(alloc, size, k)
<1>1. size \in Nat \ {0} /\ TableOK(alloc, size)
  BY DEF DictInv
<1>2. p \in 0 .. size - 1 /\ Has(alloc, p, k)
  BY <1>1, FindFacts
<1> HIDE DEF p
<1>3. /\ Thombstone \in Bucket /\ ~ Thombstone.is_present /\ Thombstone.is_thombstone
  BY DEF Thombstone, EmptyBucket, Bucket
<1>4. /\ alloc' \in [0 .. size - 1 -> Bucket]
      /\ \A q \in 0 .. size - 1 : alloc'[q] = IF q = p THEN Thombstone ELSE alloc[q]
  BY <1>1, <1>2, <1>3 DEF RemoveAt, TableOK, p
<1>5. \A q \in 0 .. size - 1 : ~ IsClean(alloc, q) => ~ IsClean(alloc', q)
  BY <1>3, <1>4 DEF IsClean, IsFree
<1>6. ASSUME NEW q \in 0 .. size - 1, alloc'[q].is_present
      PROVE  /\ alloc'[q].key \in Keys /\ alloc'[q].value \in Values /\ ~ alloc'[q].is_thombstone
             /\ Reached(alloc', size, q)
  <2>1. alloc'[q] = alloc[q] /\ alloc[q].is_present
    BY <1>3, <1>4, <1>6
  <2>2. /\ alloc[q].key \in Keys /\ alloc[q].value \in Values /\ ~ alloc[q].is_thombstone
        /\ Reached(alloc, size, q)
    BY <1>1, <2>1 DEF TableOK
  <2>3. \A j \in Nat : Probe(alloc[q].key, j, size) \in 0 .. size - 1
    BY <1>1, <2>2, ProbeType
  <2>4. PICK i \in 0 .. size - 1 :
          /\ Probe(alloc[q].key, i, size) = q
          /\ \A j \in 0 .. i - 1 : ~ IsClean(alloc, Probe(alloc[q].key, j, size))
    BY <2>2 DEF Reached
  <2>5. \A j \in 0 .. i - 1 : ~ IsClean(alloc', Probe(alloc[q].key, j, size))
    BY <1>5, <2>3, <2>4
  <2> QED
    BY <2>1, <2>2, <2>4, <2>5 DEF Reached
<1>7. Unique(alloc', size)
  BY <1>1, <1>3, <1>4 DEF TableOK, Unique
<1>8. TableOK(alloc', size)
  BY <1>4, <1>6, <1>7 DEF TableOK
<1>9. \A q \in 0 .. size - 1 : ~ Has(alloc', q, k)
  BY <1>1, <1>2, <1>3, <1>4 DEF Has, TableOK, Unique
<1>10. ASSUME NEW c \in Keys, c # k, NEW q \in 0 .. size - 1
       PROVE  Has(alloc', q, c) <=> Has(alloc, q, c)
  BY <1>2, <1>3, <1>4, <1>10 DEF Has
<1>11. ASSUME NEW c \in Keys
       PROVE  ValueOf(alloc', size, c) = IF c = k THEN None ELSE ValueOf(alloc, size, c)
  <2>1. CASE c = k
    BY <1>1, <1>8, <1>9, <2>1, ValueFacts
  <2>2. CASE c # k
    <3>1. CASE \A q \in 0 .. size - 1 : ~ Has(alloc, q, c)
      BY <1>1, <1>8, <1>10, <2>2, <3>1, ValueFacts
    <3>2. CASE \E q \in 0 .. size - 1 : Has(alloc, q, c)
      <4>1. PICK q \in 0 .. size - 1 : Has(alloc, q, c)
        BY <3>2
      <4>2. Has(alloc', q, c) /\ alloc'[q] = alloc[q]
        BY <1>3, <1>4, <1>10, <2>2, <4>1 DEF Has
      <4> QED
        BY <1>1, <1>8, <2>2, <4>1, <4>2, ValueFacts
    <3> QED
      BY <3>1, <3>2
  <2> QED
    BY <2>1, <2>2
<1>12. k \in KeysOf(alloc, size)
  BY <1>2 DEF KeysOf, PresentIn, Has
<1>13. KeysOf(alloc', size) = KeysOf(alloc, size) \ {k}
  <2>1. KeysOf(alloc', size) \subseteq Keys /\ KeysOf(alloc, size) \subseteq Keys
    BY <1>1, <1>8, KeysAreFound
  <2>2. \A c \in Keys : c \in KeysOf(alloc', size) <=> c \in KeysOf(alloc, size) /\ c # k
    BY <1>1, <1>8, <1>11, KeysAreFound
  <2> QED
    BY <2>1, <2>2
<1> QED
  BY <1>2, <1>3, <1>4, <1>8, <1>11, <1>12, <1>13 DEF p

LEMMA RemoveInv ==
  ASSUME DictInv, NEW k \in Keys, Remove(k)
  PROVE  DictInv'
<1> DEFINE p == Find(alloc, size, k)
<1>1. UNCHANGED <<size, iterator_state, visited>>
  BY DEF Remove
<1>2. CASE /\ p # None /\ alloc' = RemoveAt(p)
           /\ thombstones_count' = (thombstones_count + 1) % Wrap
           /\ entries_count' = entries_count - 1
  <2> HIDE DEF p
  <2>1. /\ p \in 0 .. size - 1 /\ Has(alloc, p, k)
        /\ TableOK(alloc', size) /\ KeysOf(alloc', size) = KeysOf(alloc, size) \ {k}
        /\ k \in KeysOf(alloc, size)
        /\ \A q \in 0 .. size - 1 : alloc'[q].is_present <=> alloc[q].is_present /\ q # p
        /\ \A q \in 0 .. size - 1 : alloc'[q].is_present => alloc'[q] = alloc[q]
        /\ alloc'[p].is_thombstone
    BY <1>2, RemoveFacts DEF p
  <2>2. size \in Nat \ {0} /\ TableOK(alloc, size) /\ thombstones_count \in Nat /\ Wrap \in Nat \ {0}
    BY DictAssumption DEF DictInv
  <2>3. entries_count' = Cardinality(KeysOf(alloc', size'))
    <3>1. IsFiniteSet(KeysOf(alloc, size))
      BY <2>2, KeysFinite
    <3> QED
      BY <1>1, <1>2, <2>1, <3>1, FS_RemoveElement DEF DictInv
  <2>4. thombstones_count' \in 0 .. Wrap - 1
    BY <1>2, <2>2
  <2>5. IterationIsExact'
    <3> SUFFICES ASSUME iterator_state # None, NEW q \in 0 .. size - 1, alloc'[q].is_present
                 PROVE  alloc'[q].key \in visited <=> q < iterator_state
      BY <1>1 DEF IterationIsExact, Present
    <3> QED
      BY <2>1 DEF DictInv, IterationIsExact, Present
  <2>6. ScanEndsAtCleanBucket'
    BY <1>1, <2>1 DEF ScanEndsAtCleanBucket
  <2> QED
    BY <1>1, <2>1, <2>3, <2>4, <2>5, <2>6 DEF DictInv
<1>3. CASE p = None /\ UNCHANGED <<alloc, thombstones_count, entries_count>>
  BY <1>1, <1>3 DEF DictInv, IterationIsExact, Present, ScanEndsAtCleanBucket, IsClean, IsFree,
                    KeysOf, PresentIn
<1> QED
  BY <1>2, <1>3 DEF Remove

(* Clearing.                                                               *)
LEMMA ClearInv == ASSUME DictInv, Clear PROVE DictInv'
<1>1. /\ size' = size /\ alloc' = [p \in 0 .. size - 1 |-> EmptyBucket]
      /\ entries_count' = 0 /\ thombstones_count' = 0 /\ iterator_state' = None
  BY DEF Clear
<1>2. size \in Nat /\ 0 \in 0 .. size - 1 /\ 0 \in 0 .. Wrap - 1
  BY DictAssumption DEF DictInv
<1>3. TableOK(alloc', size) /\ KeysOf(alloc', size) = {} /\ \A q \in 0 .. size - 1 : IsClean(alloc', q)
  BY <1>1, <1>2, EmptyTable
<1>4. ScanEndsAtCleanBucket'
  BY <1>1, <1>2, <1>3 DEF ScanEndsAtCleanBucket, IsClean, IsFree
<1> QED
  BY <1>1, <1>2, <1>3, <1>4, FS_EmptySet DEF DictInv, IterationIsExact

(* Iterating.                                                              *)
LEMMA IterInv == ASSUME DictInv, Iter PROVE DictInv'
<1> DEFINE later == {p \in iterator_state .. size - 1 : alloc[p].is_present}
<1>1. /\ iterator_state # None /\ iterator_state \in Nat
      /\ UNCHANGED <<size, alloc, entries_count, thombstones_count>>
  BY DEF Iter, DictInv
<1>2. CASE /\ later # {} /\ iterator_state' = First(later) + 1
           /\ visited' = visited \cup {alloc[First(later)].key}
  <2>1. later \in SUBSET Nat
    BY <1>1 DEF DictInv
  <2>2. First(later) \in later /\ \A j \in later : First(later) <= j
    <3> HIDE DEF later
    <3> QED
      BY <1>2, <2>1, FirstIsLeast
  <2> DEFINE f == First(later)
  <2> HIDE DEF f
  <2>3. f \in 0 .. size - 1 /\ iterator_state <= f /\ alloc[f].is_present
    BY <1>1, <2>2 DEF f, DictInv
  <2>4. ASSUME NEW p \in Present PROVE alloc[p].key \in visited' <=> p < f + 1
    <3>1. p \in 0 .. size - 1 /\ alloc[p].is_present
      BY DEF Present
    <3>2. alloc[p].key \in visited <=> p < iterator_state
      BY <1>1 DEF DictInv, IterationIsExact
    <3>3. alloc[p].key = alloc[f].key <=> p = f
      BY <2>3, <3>1 DEF DictInv, TableOK, Unique
    <3>4. p >= iterator_state => f <= p
      BY <1>1, <2>2, <3>1 DEF f, DictInv
    <3> QED
      BY <1>1, <1>2, <2>3, <3>1, <3>2, <3>3, <3>4 DEF f
  <2>5. Present' = Present
    BY <1>1 DEF Present
  <2>6. IterationIsExact' /\ iterator_state' \in Nat
    BY <1>1, <1>2, <2>3, <2>4, <2>5 DEF IterationIsExact, f
  <2> QED
    BY <1>1, <2>6 DEF DictInv, ScanEndsAtCleanBucket, IsClean, IsFree, KeysOf, PresentIn
<1>3. CASE later = {} /\ iterator_state' = None
  BY <1>1, <1>3 DEF DictInv, IterationIsExact, ScanEndsAtCleanBucket, IsClean, IsFree, KeysOf, PresentIn
<1> QED
  BY <1>2, <1>3 DEF Iter

LEMMA IterBeginInv == ASSUME DictInv, IterBegin PROVE DictInv'
<1>1. /\ iterator_state' = 0 /\ visited' = {}
      /\ UNCHANGED <<size, alloc, entries_count, thombstones_count>>
  BY DEF IterBegin
<1>2. IterationIsExact'
  BY <1>1 DEF IterationIsExact, Present, DictInv
<1> QED
  BY <1>1, <1>2 DEF DictInv, ScanEndsAtCleanBucket, IsClean, IsFree, KeysOf, PresentIn

(* Nothing happens to the table.                                           *)
LEMMA SameTableInv ==
  ASSUME DictInv,
         UNCHANGED <<size, alloc, entries_count, thombstones_count, iterator_state, visited>>
  PROVE  DictInv'
  BY DEF DictInv, IterationIsExact, Present, ScanEndsAtCleanBucket, IsClean, IsFree, KeysOf, PresentIn

LEMMA DictInitInv == ASSUME DictInit PROVE DictInv
<1>1. /\ size = init_size /\ alloc = [p \in 0 .. size - 1 |-> EmptyBucket]
      /\ entries_count = 0 /\ thombstones_count = 0 /\ iterator_state = None
  BY DEF DictInit
<1>2. size \in Nat /\ size >= 3 /\ size <= MaxSize /\ 0 \in 0 .. size - 1 /\ 0 \in 0 .. Wrap - 1
  BY <1>1, DictAssumption
<1>3. TableOK(alloc, size) /\ KeysOf(alloc, size) = {} /\ \A q \in 0 .. size - 1 : IsClean(alloc, q)
  BY <1>1, <1>2, EmptyTable
<1>4. ScanEndsAtCleanBucket
  BY <1>1, <1>2, <1>3 DEF ScanEndsAtCleanBucket
<1> QED
  BY <1>1, <1>2, <1>3, <1>4, FS_EmptySet DEF DictInv, IterationIsExact

LEMMA DictNextInv == ASSUME DictInv, [DictNext]_dictvars PROVE DictInv'
<1>1. CASE \E k \in Keys, v \in Values : Insert(k, v)
  BY <1>1, InsertInv
<1>2. CASE \E k \in Keys : Remove(k)
  BY <1>2, RemoveInv
<1>3. CASE \E k \in Keys : FindValue(k)
  BY <1>3, SameTableInv DEF FindValue
<1>4. CASE Clear \/ IterBegin \/ Iter
  BY <1>4, ClearInv, IterBeginInv, IterInv
<1>5. CASE UNCHANGED dictvars
  BY <1>5, SameTableInv DEF dictvars
<1> QED
  BY <1>1, <1>2, <1>3, <1>4, <1>5 DEF DictNext

THEOREM DictInvariance == DictSpec => []DictInv
  BY DictInitInv, DictNextInv, PTL DEF DictSpec

(* shd_dict_count says how many keys can be found.                         *)
THEOREM CountsAreExact == DictSpec => []CountIsExact
<1>1. DictInv => CountIsExact
  BY KeysAreFound DEF DictInv, CountIsExact
<1> QED
  BY <1>1, DictInvariance, PTL

(* A loop over shd_dict_iter that removes entries gets every key once.     *)
THEOREM IterationsAreExact == DictSpec => []IterationIsExact
<1>1. DictInv => IterationIsExact
  BY DEF DictInv
<1> QED
  BY <1>1, DictInvariance, PTL

(* In a table nobody has removed from, a scan meets a clean bucket.        *)
THEOREM ScansEnd == DictSpec => []ScanEndsAtCleanBucket
<1>1. DictInv => ScanEndsAtCleanBucket
  BY DEF DictInv
<1> QED
  BY <1>1, DictInvariance, PTL

(* The table refines a map: first, it is empty.                            *)
LEMMA DictInitRefines == ASSUME DictInit PROVE Abstract!Init
<1>1. DictInv /\ KeysOf(alloc, size) = {}
  BY DictInitInv, EmptyTable, DictAssumption DEF DictInit
<1>2. \A k \in Keys : ValueOf(alloc, size, k) = None
  BY <1>1, KeysAreFound DEF DictInv
<1> QED
  BY <1>2 DEF Abstract!Init, Abstract!Absent, AsMap, DictInit

(* Each operation is the one of the map, or nothing.                       *)
LEMMA DictNextRefines ==
  ASSUME DictInv, [DictNext]_dictvars
  PROVE  Abstract!Next \/ UNCHANGED <<AsMap, reply>>
<1>1. ASSUME NEW k \in Keys, NEW v \in Values, Insert(k, v)
      PROVE  Abstract!Put(k, v) \/ UNCHANGED <<AsMap, reply>>
  <2>1. CASE UNCHANGED <<size, alloc, entries_count, thombstones_count, reply>>
    BY <2>1 DEF AsMap
  <2>2. CASE /\ \A c \in Keys : ValueOf(alloc', size', c) = IF c = k THEN v ELSE ValueOf(alloc, size, c)
             /\ reply' = [bool |-> ValueOf(alloc, size, k) = None]
    <3>1. AsMap' = [AsMap EXCEPT ![k] = v] /\ reply' = [bool |-> AsMap[k] = None]
      BY <2>2 DEF AsMap
    <3> QED
      BY <3>1 DEF Abstract!Put
  <2> QED
    BY <1>1, <2>1, <2>2, InsertFacts
<1>2. ASSUME NEW k \in Keys, Remove(k)
      PROVE  Abstract!Delete(k)
  <2>1. size' = size /\ size \in Nat \ {0} /\ TableOK(alloc, size)
    BY <1>2 DEF Remove, DictInv
  <2>2. Find(alloc, size, k) # None <=> AsMap[k] # None
    BY <2>1, KeysAreFound DEF AsMap
  <2>3. reply' = [bool |-> Find(alloc, size, k) # None]
    BY <1>2 DEF Remove
  <2>4. AsMap' = [AsMap EXCEPT ![k] = None]
    <3>1. CASE Find(alloc, size, k) # None /\ alloc' = RemoveAt(Find(alloc, size, k))
      <4>1. \A c \in Keys : ValueOf(alloc', size, c) = IF c = k THEN None ELSE ValueOf(alloc, size, c)
        BY <3>1, RemoveFacts
      <4> QED
        BY <2>1, <4>1 DEF AsMap
    <3>2. CASE Find(alloc, size, k) = None /\ UNCHANGED alloc
      BY <2>1, <2>2, <3>2 DEF AsMap
    <3> QED
      BY <1>2, <3>1, <3>2 DEF Remove
  <2>5. reply' = [bool |-> AsMap[k] # None]
    BY <2>2, <2>3
  <2> QED
    BY <2>4, <2>5 DEF Abstract!Delete
<1>3. ASSUME NEW k \in Keys, FindValue(k)
      PROVE  Abstract!Get(k)
  BY <1>3 DEF FindValue, Abstract!Get, AsMap
<1>4. CASE Clear
  <2>1. size \in Nat \ {0} /\ size' = size /\ alloc' = [p \in 0 .. size - 1 |-> EmptyBucket] /\ reply' = None
    BY <1>4 DEF Clear, DictInv
  <2>2. TableOK(alloc', size) /\ KeysOf(alloc', size) = {}
    BY <2>1, EmptyTable
  <2>3. \A k \in Keys : ValueOf(alloc', size, k) = None
    BY <2>1, <2>2, KeysAreFound
  <2>4. AsMap' = [k \in Keys |-> None]
    BY <2>1, <2>3 DEF AsMap
  <2> QED
    BY <2>1, <2>4 DEF Abstract!Next, Abstract!Empty, Abstract!Absent
<1>5. CASE IterBegin \/ Iter
  BY <1>5 DEF IterBegin, Iter, AsMap
<1>6. CASE UNCHANGED dictvars
  BY <1>6 DEF dictvars, AsMap
<1> QED
  BY <1>1, <1>2, <1>3, <1>4, <1>5, <1>6 DEF DictNext, Abstract!Next

(* The hash table is a finite map, whatever the order of insertions,       *)
(* removals, moves and growths, and tells its clients what a map would.    *)
THEOREM DictIsAMap == DictSpec => ImplementsMap
<1>1. DictInit => Abstract!Init
  BY DictInitRefines
<1>2. DictInv /\ [DictNext]_dictvars => [Abstract!Next]_<<AsMap, reply>>
  BY DictNextRefines
<1> QED
  BY <1>1, <1>2, DictInvariance, PTL DEF DictSpec, ImplementsMap, Abstract!Spec
===============================================================================
