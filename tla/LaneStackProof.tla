--------------------------- MODULE LaneStackProof ---------------------------
EXTENDS LaneStack, SequenceTheorems, WellFoundedInduction, TLAPS

(* Proofs about LaneStack and MemoryLayout: what a lane keeps in memory is there when it is  *)
(* wanted, for any types, any stack size and any number of calls, when only the entry point *)
(* has allocas.  The order is that of what the proof rests on: how types are laid out, what *)
(* loads and stores do, the stack, generic pointers, the variables, the frames of lifted    *)
(* tails, the inductive invariant, and one lemma for each step of the lane.                 *)

(* A set of numbers has a least one.                                                        *)
LEMMA LeastExists ==
  ASSUME NEW S \in SUBSET Nat, S # {}
  PROVE  \E i \in S : \A j \in S : i <= j
<1>1. PICK x \in S : \A y \in S : ~ (<<y, x>> \in OpToRel(<, Nat))
  BY NatLessThanWellFounded, WFMin
<1>2. ASSUME NEW y \in S PROVE x <= y
  <2>1. ~ (y < x)
    BY <1>1 DEF OpToRel
  <2> QED
    BY <2>1
<1> QED
  BY <1>2

(* Induction over the numbers up to n, for a property given as a set.                       *)
LEMMA UpTo ==
  ASSUME NEW n \in Nat, NEW G \in SUBSET (0 .. n),
         0 \in G, \A k \in 1 .. n : k - 1 \in G => k \in G
  PROVE  G = 0 .. n
<1> DEFINE Bad == (0 .. n) \ G
<1> SUFFICES ASSUME Bad # {} PROVE FALSE
  OBVIOUS
<1>1. Bad \in SUBSET Nat
  OBVIOUS
<1> HIDE DEF Bad
<1>2. PICK k \in Bad : \A j \in Bad : k <= j
  BY <1>1, LeastExists
<1> USE DEF Bad
<1>3. k \in 1 .. n /\ k - 1 \in G
  BY <1>2
<1> QED
  BY <1>3

LEMMA UpToEnd ==
  ASSUME NEW n \in Nat, NEW G \in SUBSET (0 .. n),
         0 \in G, \A k \in 1 .. n : k - 1 \in G => k \in G
  PROVE  n \in G
<1>1. G = 0 .. n
  BY UpTo
<1> QED
  BY <1>1

-----------------------------------------------------------------------------
(* Layouts (memory_layout.c).                                                               *)

WellLaid(l) ==
  /\ l.size \in Nat
  /\ l.alignment \in {0, 4, 8}
  /\ l.alignment = 0 => l.size = 0
  /\ \A path \in DOMAIN l.words :
       l.words[path] \in Nat /\ l.words[path] % 4 = 0 /\ l.words[path] + 4 <= l.size
  /\ \A p, q \in DOMAIN l.words : l.words[p] = l.words[q] => p = q
  /\ DOMAIN l.words # {} => l.alignment # 0 /\ l.size % 4 = 0

LEMMA IntWellLaid ==
  ASSUME NEW bytes \in {1, 2, 4, 8}
  PROVE  WellLaid(IntLayout(bytes)) /\ IntLayout(bytes).size = bytes
<1>1. bytes \div 4 \in Nat /\ larger(bytes, 4) \in {4, 8}
  BY DEF larger
<1>2. bytes \div 4 # 0 => bytes % 4 = 0 /\ 4 * (bytes \div 4) = bytes
  OBVIOUS
<1>3. \A w \in 1 .. (bytes \div 4) : 4 * (w - 1) \in Nat /\ (4 * (w - 1)) % 4 = 0 /\ 4 * (w - 1) + 4 <= bytes
  BY <1>1, <1>2
<1> QED
  BY <1>1, <1>2, <1>3 DEF WellLaid, IntLayout, WordBytes

LEMMA RoundUp ==
  ASSUME NEW a \in Nat, NEW b \in {0, 4, 8}
  PROVE  /\ round_up(a, b) \in Nat
         /\ a <= round_up(a, b)
         /\ b # 0 => round_up(a, b) % 4 = 0
         /\ a = 0 => round_up(a, b) = 0
         /\ b = 4 /\ a % 4 = 0 => round_up(a, b) = a
BY DEF round_up

(* The members of a record lie one after the other.                                         *)
PlacingStep(members, layout, g, i) ==
  IF i = 0 THEN [size |-> 0, alignment |-> 0, offsets |-> <<>>]
  ELSE LET before == g[i - 1]
           member == layout[members[i]]
           offset == round_up(before.size, member.alignment)
       IN  [size |-> offset + member.size,
            alignment |-> larger(before.alignment, member.alignment),
            offsets |-> Append(before.offsets, offset)]

LEMMA PlacingExists ==
  ASSUME NEW members, NEW layout, Len(members) \in Nat
  PROVE  \E g : /\ g = [i \in 0 .. Len(members) |-> PlacingStep(members, layout, g, i)]
                /\ place_members(members, layout) = g[Len(members)]
<1> DEFINE n == Len(members)
           Step1(g, i) == PlacingStep(members, layout, g, i)
           Made(g, m) == \A i \in 0 .. m : g[i] = Step1(g, i)
           G == {m \in 0 .. n : \E g : Made(g, m)}
<1>1. 0 \in G
  <2>1. Made([i \in {0} |-> [size |-> 0, alignment |-> 0, offsets |-> <<>>]], 0)
    BY DEF PlacingStep
  <2> QED
    BY <2>1
<1>2. ASSUME NEW m \in 1 .. n, m - 1 \in G PROVE m \in G
  <2>1. PICK g : Made(g, m - 1)
    BY <1>2
  <2> DEFINE h == [i \in 0 .. m |-> IF i < m THEN g[i] ELSE Step1(g, m)]
  <2>2. ASSUME NEW i \in 0 .. m PROVE Step1(h, i) = Step1(g, i)
    <3>1. i = 0 \/ h[i - 1] = g[i - 1]
      OBVIOUS
    <3> HIDE DEF h
    <3> QED
      BY <3>1 DEF PlacingStep
  <2>3. \A i \in 0 .. m : h[i] = IF i < m THEN g[i] ELSE Step1(g, m)
    OBVIOUS
  <2> HIDE DEF h, Step1
  <2>4. Made(h, m)
    <3> SUFFICES ASSUME NEW i \in 0 .. m PROVE h[i] = Step1(g, i)
      BY <2>2
    <3> QED
      BY <2>1, <2>3
  <2> QED
    BY <2>4
<1>3. G = 0 .. n
  <2> HIDE DEF G
  <2>1. G \in SUBSET (0 .. n)
    BY DEF G
  <2> QED
    BY <1>1, <1>2, <2>1, UpTo
<1>4. PICK g : Made(g, n)
  BY <1>3
<1> DEFINE h == [i \in 0 .. n |-> g[i]]
<1>5. h = [i \in 0 .. n |-> Step1(h, i)]
  <2>1. ASSUME NEW i \in 0 .. n PROVE h[i] = Step1(h, i)
    <3>1. h[i] = Step1(g, i) /\ (i = 0 \/ h[i - 1] = g[i - 1])
      BY <1>4
    <3> HIDE DEF h
    <3> QED
      BY <3>1 DEF PlacingStep
  <2>2. h = [i \in 0 .. n |-> h[i]]
    OBVIOUS
  <2> HIDE DEF h, Step1
  <2> QED
    BY <2>1, <2>2
<1> DEFINE r == CHOOSE f : f = [i \in 0 .. n |-> Step1(f, i)]
<1>6. r = [i \in 0 .. n |-> Step1(r, i)]
  <2> HIDE DEF h, Step1
  <2> QED
    BY <1>5
<1>7. place_members(members, layout) = r[n]
  BY DEF place_members, PlacingStep
<1> HIDE DEF r
<1> QED
  BY <1>6, <1>7

(* What has been placed does not overlap.                                                   *)
Placed(r, i, members, layout) ==
  /\ r.size \in Nat
  /\ r.alignment \in {0, 4, 8}
  /\ r.alignment = 0 => r.size = 0
  /\ r.offsets \in Seq(Nat)
  /\ Len(r.offsets) = i
  /\ i > 0 => r.offsets[1] = 0
  /\ \A k \in 1 .. i :
       /\ r.offsets[k] + layout[members[k]].size <= r.size
       /\ layout[members[k]].alignment <= r.alignment
       /\ layout[members[k]].alignment # 0 => r.offsets[k] % 4 = 0
  /\ \A j, k \in 1 .. i : j < k => r.offsets[j] + layout[members[j]].size <= r.offsets[k]

LEMMA MembersArePlaced ==
  ASSUME NEW members, NEW layout, Len(members) \in Nat,
         \A k \in 1 .. Len(members) : WellLaid(layout[members[k]])
  PROVE  Placed(place_members(members, layout), Len(members), members, layout)
<1> DEFINE n == Len(members)
<1>1. PICK g : /\ g = [i \in 0 .. n |-> PlacingStep(members, layout, g, i)]
               /\ place_members(members, layout) = g[n]
  BY PlacingExists
<1> DEFINE G == {i \in 0 .. n : Placed(g[i], i, members, layout)}
<1>2. 0 \in G
  <2>1. g[0] = [size |-> 0, alignment |-> 0, offsets |-> <<>>]
    BY <1>1 DEF PlacingStep
  <2>2. Placed(g[0], 0, members, layout)
    BY <2>1 DEF Placed
  <2> QED
    BY <2>2
<1>3. ASSUME NEW i \in 1 .. n, i - 1 \in G PROVE i \in G
  <2> DEFINE before == g[i - 1]
             l == layout[members[i]]
             offset == round_up(before.size, l.alignment)
  <2>1. g[i] = [size |-> offset + l.size, alignment |-> larger(before.alignment, l.alignment),
                offsets |-> Append(before.offsets, offset)]
    <3>1. g[i] = PlacingStep(members, layout, g, i)
      BY <1>1
    <3> QED
      BY <3>1 DEF PlacingStep
  <2>2. Placed(before, i - 1, members, layout)
    BY <1>3
  <2>3. l.size \in Nat /\ l.alignment \in {0, 4, 8}
    BY DEF WellLaid
  <2> HIDE DEF before, l
  <2>4. before.size \in Nat /\ before.alignment \in {0, 4, 8} /\ before.offsets \in Seq(Nat) /\ Len(before.offsets) = i - 1
    BY <2>2 DEF Placed
  <2>5. offset \in Nat /\ before.size <= offset /\ (l.alignment # 0 => offset % 4 = 0)
    BY <2>3, <2>4, RoundUp
  <2> HIDE DEF offset
  <2>6. g[i].size = offset + l.size /\ g[i].alignment = larger(before.alignment, l.alignment)
        /\ g[i].offsets = Append(before.offsets, offset)
    BY <2>1
  <2>7. /\ g[i].offsets \in Seq(Nat) /\ Len(g[i].offsets) = i
        /\ g[i].offsets[i] = offset
        /\ \A k \in 1 .. i - 1 : g[i].offsets[k] = before.offsets[k]
    BY <2>4, <2>5, <2>6
  <2>8. g[i].size \in Nat /\ g[i].alignment \in {0, 4, 8} /\ before.alignment <= g[i].alignment /\ l.alignment <= g[i].alignment
        /\ before.size <= g[i].size
    BY <2>3, <2>4, <2>5, <2>6 DEF larger
  <2>9. ASSUME NEW k \in 1 .. i
        PROVE  /\ g[i].offsets[k] + layout[members[k]].size <= g[i].size
               /\ layout[members[k]].alignment <= g[i].alignment
               /\ layout[members[k]].alignment # 0 => g[i].offsets[k] % 4 = 0
    <3>1. CASE k = i
      BY <2>3, <2>5, <2>6, <2>7, <2>8, <3>1 DEF l
    <3>2. CASE k \in 1 .. i - 1
      <4>1. /\ before.offsets[k] + layout[members[k]].size <= before.size
            /\ layout[members[k]].alignment <= before.alignment
            /\ layout[members[k]].alignment # 0 => before.offsets[k] % 4 = 0
        BY <2>2, <3>2 DEF Placed
      <4>2. layout[members[k]].size \in Nat /\ layout[members[k]].alignment \in {0, 4, 8}
        <5>1. WellLaid(layout[members[k]])
          BY <3>2
        <5> QED
          BY <5>1 DEF WellLaid
      <4>3. before.offsets[k] \in Nat /\ g[i].offsets[k] = before.offsets[k]
        <5> DEFINE o == before.offsets
        <5>1. o \in Seq(Nat) /\ Len(o) = i - 1
          BY <2>4
        <5> HIDE DEF o
        <5>2. o[k] \in Nat
          BY <3>2, <5>1
        <5> QED
          BY <2>7, <3>2, <5>2 DEF o
      <4>4. g[i].offsets[k] + layout[members[k]].size <= g[i].size
        <5> DEFINE o == before.offsets[k]
                   s == layout[members[k]].size
                   a == before.size
                   b == g[i].size
        <5>1. o \in Nat /\ s \in Nat /\ a \in Nat /\ b \in Nat /\ o + s <= a /\ a <= b
          BY <2>4, <2>8, <4>1, <4>2, <4>3
        <5> HIDE DEF o, s, a, b
        <5>2. o + s <= b
          BY <5>1
        <5>3. g[i].offsets[k] = o
          BY <4>3 DEF o
        <5> QED
          BY <5>2, <5>3 DEF s, b
      <4>5. layout[members[k]].alignment <= g[i].alignment
        <5>1. layout[members[k]].alignment \in Nat
          BY <4>2
        <5>2. before.alignment \in Nat
          BY <2>4
        <5>3. g[i].alignment \in Nat
          BY <2>8
        <5>4. layout[members[k]].alignment <= before.alignment
          BY <4>1
        <5>5. before.alignment <= g[i].alignment
          BY <2>8
        <5> QED
          BY <5>1, <5>2, <5>3, <5>4, <5>5
      <4> QED
        BY <4>1, <4>3, <4>4, <4>5
    <3> QED
      BY <3>1, <3>2
  <2>10. ASSUME NEW j \in 1 .. i, NEW k \in 1 .. i, j < k
         PROVE  g[i].offsets[j] + layout[members[j]].size <= g[i].offsets[k]
    <3>1. CASE k = i
      <4>1. before.offsets[j] + layout[members[j]].size <= before.size
        BY <2>2, <2>10, <3>1 DEF Placed
      <4>2. before.offsets[j] \in Nat /\ g[i].offsets[j] = before.offsets[j]
        <5>1. j \in 1 .. i - 1
          BY <2>10, <3>1
        <5>2. g[i].offsets[j] = before.offsets[j]
          BY <2>7, <5>1
        <5>3. before.offsets[j] \in Nat
          BY <2>4, <5>1
        <5> QED
          BY <5>2, <5>3
      <4>3. layout[members[j]].size \in Nat /\ g[i].offsets[k] = offset
        <5>1. WellLaid(layout[members[j]])
          BY <2>10, <3>1
        <5> QED
          BY <2>7, <3>1, <5>1 DEF WellLaid
      <4> DEFINE o == before.offsets[j]
                 s == layout[members[j]].size
                 a == before.size
      <4>4. o \in Nat /\ s \in Nat /\ a \in Nat /\ o + s <= a /\ a <= offset /\ offset \in Nat
        BY <2>4, <2>5, <4>1, <4>2, <4>3
      <4> HIDE DEF o, s, a
      <4>5. o + s <= offset
        BY <4>4
      <4>6. g[i].offsets[j] = o
        BY <4>2 DEF o
      <4> QED
        BY <4>3, <4>5, <4>6 DEF s
    <3>2. CASE k \in 1 .. i - 1
      <4>1. j \in 1 .. i - 1
        BY <2>10, <3>2
      <4>2. before.offsets[j] + layout[members[j]].size <= before.offsets[k]
        BY <2>2, <2>10, <3>2, <4>1 DEF Placed
      <4>3. g[i].offsets[j] = before.offsets[j] /\ g[i].offsets[k] = before.offsets[k]
        BY <2>7, <3>2, <4>1
      <4> QED
        BY <4>2, <4>3
    <3> QED
      BY <3>1, <3>2
  <2>11. g[i].offsets[1] = 0
    <3>1. CASE i = 1
      <4>1. before = g[0]
        BY <3>1 DEF before
      <4>2. g[0] = PlacingStep(members, layout, g, 0)
        BY <1>1
      <4>3. before.size = 0
        BY <4>1, <4>2 DEF PlacingStep
      <4>4. offset = 0
        BY <2>3, <4>3 DEF offset, round_up
      <4> QED
        BY <2>7, <3>1, <4>4
    <3>2. CASE i > 1
      <4>1. 1 \in 1 .. i - 1 /\ i - 1 > 0
        BY <3>2
      <4>2. before.offsets[1] = 0
        BY <2>2, <4>1 DEF Placed
      <4>3. g[i].offsets[1] = before.offsets[1]
        BY <2>7, <4>1
      <4> QED
        BY <4>2, <4>3
    <3> QED
      BY <3>1, <3>2
  <2>12. g[i].alignment = 0 => g[i].size = 0
    <3> SUFFICES ASSUME g[i].alignment = 0 PROVE g[i].size = 0
      OBVIOUS
    <3>1. before.alignment = 0 /\ l.alignment = 0
      BY <2>3, <2>4, <2>8
    <3>2. before.size = 0
      BY <2>2, <3>1 DEF Placed
    <3>3. l.size = 0
      <4>1. WellLaid(l)
        BY DEF l
      <4> QED
        BY <3>1, <4>1 DEF WellLaid
    <3>4. offset = 0
      BY <3>1, <3>2 DEF offset, round_up
    <3> QED
      BY <2>6, <3>3, <3>4
  <2>13. Placed(g[i], i, members, layout)
    BY <2>7, <2>8, <2>9, <2>10, <2>11, <2>12 DEF Placed
  <2> QED
    BY <2>13
<1>4. G \in SUBSET (0 .. n) /\ n \in Nat
  OBVIOUS
<1> HIDE DEF G, n
<1>5. G = 0 .. n
  BY <1>2, <1>3, <1>4, UpTo
<1>6. Placed(g[n], n, members, layout)
  BY <1>4, <1>5 DEF G
<1> QED
  BY <1>1, <1>6 DEF n

(* What is made of well laid parts that do not overlap is well laid.                        *)
LEMMA MemberWords ==
  ASSUME NEW offsets, NEW words
  PROVE  LET W == member_words(offsets, words) IN
         /\ \A path \in DOMAIN W : /\ path = <<path[1], path[2]>>
                                   /\ path[1] \in DOMAIN words
                                   /\ path[2] \in DOMAIN words[path[1]]
                                   /\ W[path] = offsets[path[1]] + words[path[1]][path[2]]
         /\ \A i \in DOMAIN words : \A q \in DOMAIN words[i] :
              <<i, q>> \in DOMAIN W /\ W[<<i, q>>] = offsets[i] + words[i][q]
<1> DEFINE D == UNION { {i} \X DOMAIN words[i] : i \in DOMAIN words }
           W == member_words(offsets, words)
<1>1. W = [path \in D |-> offsets[path[1]] + words[path[1]][path[2]]]
  BY DEF member_words
<1>2. ASSUME NEW path \in D
      PROVE  path = <<path[1], path[2]>> /\ path[1] \in DOMAIN words /\ path[2] \in DOMAIN words[path[1]]
  <2>1. PICK i \in DOMAIN words : path \in {i} \X DOMAIN words[i]
    OBVIOUS
  <2> QED
    BY <2>1
<1>3. ASSUME NEW i \in DOMAIN words, NEW q \in DOMAIN words[i] PROVE <<i, q>> \in D
  <2>1. <<i, q>> \in {i} \X DOMAIN words[i]
    OBVIOUS
  <2> QED
    BY <2>1
<1> HIDE DEF D, W
<1>4. DOMAIN W = D /\ \A path \in D : W[path] = offsets[path[1]] + words[path[1]][path[2]]
  BY <1>1
<1>5. \A path \in DOMAIN W : /\ path = <<path[1], path[2]>>
                             /\ path[1] \in DOMAIN words
                             /\ path[2] \in DOMAIN words[path[1]]
                             /\ W[path] = offsets[path[1]] + words[path[1]][path[2]]
  BY <1>2, <1>4
<1>6. ASSUME NEW i \in DOMAIN words, NEW q \in DOMAIN words[i]
      PROVE  <<i, q>> \in DOMAIN W /\ W[<<i, q>>] = offsets[i] + words[i][q]
  <2>1. <<i, q>>[1] = i /\ <<i, q>>[2] = q
    OBVIOUS
  <2> QED
    BY <1>3, <1>4, <2>1
<1> QED
  BY <1>5, <1>6 DEF W

LEMMA CompoundWellLaid ==
  ASSUME NEW I, NEW ls, NEW offsets, NEW size \in Nat, NEW alignment \in {0, 4, 8},
         alignment = 0 => size = 0,
         \A i \in I : /\ WellLaid(ls[i])
                      /\ offsets[i] \in Nat
                      /\ offsets[i] + ls[i].size <= size
                      /\ DOMAIN ls[i].words # {} => offsets[i] % 4 = 0 /\ alignment # 0 /\ size % 4 = 0,
         \A i, j \in I : i # j => \/ offsets[i] + ls[i].size <= offsets[j]
                                  \/ offsets[j] + ls[j].size <= offsets[i]
  PROVE  WellLaid([size |-> size, alignment |-> alignment, offsets |-> offsets,
                   words |-> member_words(offsets, [i \in I |-> ls[i].words])])
<1> DEFINE ws == [i \in I |-> ls[i].words]
           W == member_words(offsets, ws)
           L == [size |-> size, alignment |-> alignment, offsets |-> offsets, words |-> W]
<1>1. \A path \in DOMAIN W : /\ path = <<path[1], path[2]>>
                             /\ path[1] \in I
                             /\ path[2] \in DOMAIN ls[path[1]].words
                             /\ W[path] = offsets[path[1]] + ls[path[1]].words[path[2]]
  <2>1. DOMAIN ws = I /\ \A i \in I : ws[i] = ls[i].words
    OBVIOUS
  <2> HIDE DEF ws
  <2> QED
    BY <2>1, MemberWords
<1>2. L.size = size /\ L.alignment = alignment /\ L.words = W
  OBVIOUS
<1> HIDE DEF W, L
<1>3. ASSUME NEW path \in DOMAIN W
      PROVE  /\ W[path] \in Nat /\ W[path] % 4 = 0 /\ W[path] + 4 <= size
             /\ alignment # 0 /\ size % 4 = 0
             /\ offsets[path[1]] <= W[path] /\ W[path] + 4 <= offsets[path[1]] + ls[path[1]].size
  <2> DEFINE i == path[1]
             w == ls[i].words[path[2]]
  <2>1. i \in I /\ path[2] \in DOMAIN ls[i].words /\ W[path] = offsets[i] + w
    BY <1>1
  <2>2. WellLaid(ls[i]) /\ offsets[i] \in Nat /\ offsets[i] + ls[i].size <= size
    BY <2>1
  <2>3. offsets[i] % 4 = 0 /\ alignment # 0 /\ size % 4 = 0
    BY <2>1
  <2>4. w \in Nat /\ w % 4 = 0 /\ w + 4 <= ls[i].size /\ ls[i].size \in Nat
    BY <2>1, <2>2 DEF WellLaid
  <2> HIDE DEF w, i
  <2>5. W[path] \in Nat /\ W[path] % 4 = 0 /\ W[path] + 4 <= size /\ offsets[i] <= W[path] /\ W[path] + 4 <= offsets[i] + ls[i].size
    BY <2>1, <2>2, <2>3, <2>4
  <2> QED
    BY <2>3, <2>5 DEF i
<1>4. ASSUME NEW p \in DOMAIN W, NEW q \in DOMAIN W, W[p] = W[q] PROVE p = q
  <2>1. /\ p = <<p[1], p[2]>> /\ p[1] \in I /\ p[2] \in DOMAIN ls[p[1]].words /\ W[p] = offsets[p[1]] + ls[p[1]].words[p[2]]
        /\ q = <<q[1], q[2]>> /\ q[1] \in I /\ q[2] \in DOMAIN ls[q[1]].words /\ W[q] = offsets[q[1]] + ls[q[1]].words[q[2]]
    BY <1>1
  <2>2. /\ offsets[p[1]] \in Nat /\ ls[p[1]].size \in Nat /\ WellLaid(ls[p[1]])
        /\ offsets[q[1]] \in Nat /\ ls[q[1]].size \in Nat /\ WellLaid(ls[q[1]])
    BY <2>1 DEF WellLaid
  <2>3. /\ W[p] \in Nat /\ offsets[p[1]] <= W[p] /\ W[p] + 4 <= offsets[p[1]] + ls[p[1]].size
        /\ W[q] \in Nat /\ offsets[q[1]] <= W[q] /\ W[q] + 4 <= offsets[q[1]] + ls[q[1]].size
    BY <1>3
  <2>4. p[1] = q[1]
    <3> SUFFICES ASSUME p[1] # q[1] PROVE FALSE
      OBVIOUS
    <3>1. \/ offsets[p[1]] + ls[p[1]].size <= offsets[q[1]]
          \/ offsets[q[1]] + ls[q[1]].size <= offsets[p[1]]
      BY <2>1
    <3> QED
      BY <1>4, <2>2, <2>3, <3>1
  <2>5. ls[p[1]].words[p[2]] = ls[p[1]].words[q[2]]
    <3>1. ls[p[1]].words[p[2]] \in Nat /\ ls[p[1]].words[q[2]] \in Nat
      BY <2>1, <2>2, <2>4 DEF WellLaid
    <3>2. W[p] = offsets[p[1]] + ls[p[1]].words[p[2]] /\ W[p] = offsets[p[1]] + ls[p[1]].words[q[2]]
      BY <1>4, <2>1, <2>4
    <3> QED
      BY <2>2, <3>1, <3>2
  <2>6. p[2] = q[2]
    BY <2>1, <2>2, <2>4, <2>5 DEF WellLaid
  <2> QED
    BY <2>1, <2>4, <2>6
<1>5. DOMAIN W # {} => alignment # 0 /\ size % 4 = 0
  BY <1>3
<1> QED
  BY <1>2, <1>3, <1>4, <1>5 DEF WellLaid, L, W

LayoutStep(g, n) ==
  IF n = 0 THEN <<>>
  ELSE LET before == g[n - 1]
       IN  [t \in DOMAIN before \cup {Types[n]} |->
              IF t = Types[n] THEN mem_layout(t, before) ELSE before[t]]

LEMMA TypesFacts ==
  /\ Len(Types) \in Nat /\ DOMAIN Types = 1 .. Len(Types)
  /\ \A n \in 1 .. Len(Types) : Types[n] \in ProgramTypes
BY TypesAssumption DEF ProgramTypes

LEMMA LayoutsExist ==
  layouts = [n \in 0 .. Len(Types) |-> LayoutStep(layouts, n)]
<1> DEFINE N == Len(Types)
           Made(g, m) == \A i \in 0 .. m : g[i] = LayoutStep(g, i)
           G == {m \in 0 .. N : \E g : Made(g, m)}
<1>1. 0 \in G
  <2>1. Made([i \in {0} |-> <<>>], 0)
    BY DEF LayoutStep
  <2> QED
    BY <2>1, TypesFacts
<1>2. ASSUME NEW m \in 1 .. N, m - 1 \in G PROVE m \in G
  <2>1. PICK g : Made(g, m - 1)
    BY <1>2
  <2> DEFINE h == [i \in 0 .. m |-> IF i < m THEN g[i] ELSE LayoutStep(g, m)]
  <2>2. ASSUME NEW i \in 0 .. m PROVE LayoutStep(h, i) = LayoutStep(g, i)
    <3>1. i = 0 \/ h[i - 1] = g[i - 1]
      BY TypesFacts
    <3> HIDE DEF h
    <3> QED
      BY <3>1 DEF LayoutStep
  <2>3. \A i \in 0 .. m : h[i] = IF i < m THEN g[i] ELSE LayoutStep(g, m)
    OBVIOUS
  <2> HIDE DEF h
  <2>4. Made(h, m)
    <3> SUFFICES ASSUME NEW i \in 0 .. m PROVE h[i] = LayoutStep(g, i)
      BY <2>2
    <3> QED
      BY <2>1, <2>3, TypesFacts
  <2> QED
    BY <2>4
<1>3. G \in SUBSET (0 .. N) /\ N \in Nat
  BY TypesFacts
<1>4. PICK g : Made(g, N)
  <2> HIDE DEF G, N
  <2>1. G = 0 .. N
    BY <1>1, <1>2, <1>3, UpTo
  <2>2. N \in G
    BY <1>3, <2>1
  <2> QED
    BY <2>2 DEF G
<1> DEFINE h == [i \in 0 .. N |-> g[i]]
<1>5. h = [i \in 0 .. N |-> LayoutStep(h, i)]
  <2>1. ASSUME NEW i \in 0 .. N PROVE h[i] = LayoutStep(h, i)
    <3>1. h[i] = LayoutStep(g, i) /\ (i = 0 \/ h[i - 1] = g[i - 1])
      BY <1>4, TypesFacts
    <3> HIDE DEF h
    <3> QED
      BY <3>1 DEF LayoutStep
  <2>2. h = [i \in 0 .. N |-> h[i]]
    OBVIOUS
  <2> HIDE DEF h
  <2> QED
    BY <2>1, <2>2
<1> DEFINE r == CHOOSE f : f = [i \in 0 .. N |-> LayoutStep(f, i)]
<1>6. r = [i \in 0 .. N |-> LayoutStep(r, i)]
  <2> HIDE DEF h
  <2> QED
    BY <1>5
<1>7. layouts = r
  BY DEF layouts, LayoutStep
<1> QED
  BY <1>6, <1>7

(* The layout of a type is what was computed when its turn came.                            *)
LEMMA LayoutsStay ==
  ASSUME NEW i \in 1 .. Len(Types)
  PROVE  /\ \A n \in i .. Len(Types) :
              Types[i] \in DOMAIN layouts[n] /\ layouts[n][Types[i]] = mem_layout(Types[i], layouts[i - 1])
         /\ get_mem_layout[Types[i]] = mem_layout(Types[i], layouts[i - 1])
<1> DEFINE N == Len(Types)
           t == Types[i]
           l == mem_layout(t, layouts[i - 1])
           G == {k \in 0 .. (N - i) : t \in DOMAIN layouts[i + k] /\ layouts[i + k][t] = l}
<1>1. N \in Nat /\ i \in 1 .. N /\ \A n \in 0 .. N : layouts[n] = LayoutStep(layouts, n)
  BY LayoutsExist, TypesFacts
<1>2. ASSUME NEW n \in 1 .. N
      PROVE  layouts[n] = [u \in DOMAIN layouts[n - 1] \cup {Types[n]} |->
                             IF u = Types[n] THEN mem_layout(u, layouts[n - 1]) ELSE layouts[n - 1][u]]
  <2>1. n # 0 /\ layouts[n] = LayoutStep(layouts, n)
    BY <1>1
  <2> QED
    BY <2>1 DEF LayoutStep
<1>3. 0 \in G
  <2>1. t \in DOMAIN layouts[i] /\ layouts[i][t] = l
    BY <1>1, <1>2
  <2> QED
    BY <1>1, <2>1
<1>4. ASSUME NEW k \in 1 .. (N - i), k - 1 \in G PROVE k \in G
  <2> DEFINE m == i + k
             b == layouts[m - 1]
  <2>1. t \in DOMAIN b /\ b[t] = l
    <3>1. i + (k - 1) = m - 1
      BY <1>1
    <3> QED
      BY <1>4, <3>1
  <2>2. m \in 1 .. N /\ m # i
    BY <1>1
  <2> HIDE DEF m
  <2>3. Types[m] # t
    BY <1>1, <2>2, TypesAssumption, TypesFacts
  <2>4. layouts[m] = [u \in DOMAIN b \cup {Types[m]} |->
                        IF u = Types[m] THEN mem_layout(u, b) ELSE b[u]]
    BY <1>2, <2>2
  <2>5. t \in DOMAIN layouts[m] /\ layouts[m][t] = l
    <3> HIDE DEF b, l, t
    <3> QED
      BY <2>1, <2>3, <2>4
  <2> QED
    BY <2>5 DEF m
<1>5. G \in SUBSET (0 .. (N - i)) /\ N - i \in Nat
  BY <1>1
<1>6. G = 0 .. (N - i)
  <2> HIDE DEF G, N
  <2> DEFINE M == N - i
  <2>1. M \in Nat /\ G \in SUBSET (0 .. M) /\ \A k \in 1 .. M : k - 1 \in G => k \in G
    BY <1>4, <1>5
  <2> HIDE DEF M
  <2>2. G = 0 .. M
    BY <1>3, <2>1, UpTo
  <2> QED
    BY <2>2 DEF M
<1>7. ASSUME NEW n \in i .. N PROVE t \in DOMAIN layouts[n] /\ layouts[n][t] = l
  <2>1. n - i \in 0 .. (N - i) /\ i + (n - i) = n
    BY <1>1
  <2>2. n - i \in G
    BY <1>6, <2>1
  <2> QED
    BY <2>1, <2>2
<1>8. N \in i .. N
  BY <1>1
<1> QED
  BY <1>7, <1>8 DEF get_mem_layout

(* What place_members says of the offsets of a record.                                      *)
LaidOut(l, members, layout) ==
  /\ l.offsets \in Seq(Nat)
  /\ Len(l.offsets) = Len(members)
  /\ Len(members) > 0 => l.offsets[1] = 0
  /\ \A k \in DOMAIN members :
       /\ l.offsets[k] \in Nat
       /\ l.offsets[k] + layout[members[k]].size <= l.size
       /\ layout[members[k]].alignment # 0 => l.offsets[k] % 4 = 0
  /\ \A j, k \in DOMAIN members : j < k => l.offsets[j] + layout[members[j]].size <= l.offsets[k]
  /\ l.words = member_words(l.offsets, [k \in DOMAIN members |-> layout[members[k]].words])

LEMMA RecordLaidOut ==
  ASSUME NEW members, NEW layout, Len(members) \in Nat, DOMAIN members = 1 .. Len(members),
         \A k \in DOMAIN members : WellLaid(layout[members[k]])
  PROVE  /\ WellLaid(get_record_layout(members, layout))
         /\ LaidOut(get_record_layout(members, layout), members, layout)
<1> DEFINE n == Len(members)
           r == place_members(members, layout)
           size == round_up(r.size, r.alignment)
           ls == [k \in 1 .. n |-> layout[members[k]]]
           ws == [k \in DOMAIN members |-> layout[members[k]].words]
           l == get_record_layout(members, layout)
<1>1. Placed(r, n, members, layout)
  BY MembersArePlaced
<1>2. l = [size |-> size, alignment |-> r.alignment, offsets |-> r.offsets,
           words |-> member_words(r.offsets, ws)]
  BY DEF get_record_layout, RecordLayout
<1>3. \A k \in 1 .. n : ls[k] = layout[members[k]] /\ WellLaid(ls[k])
  OBVIOUS
<1>4. ws = [k \in 1 .. n |-> ls[k].words]
  OBVIOUS
<1>5. r.size \in Nat /\ r.alignment \in {0, 4, 8} /\ r.offsets \in Seq(Nat) /\ Len(r.offsets) = n
      /\ (n > 0 => r.offsets[1] = 0)
  BY <1>1 DEF Placed
<1>6. size \in Nat /\ r.size <= size /\ (r.alignment # 0 => size % 4 = 0)
      /\ (r.alignment = 0 => size = 0)
  <2> HIDE DEF r
  <2>1. r.alignment = 0 => r.size = 0
    BY <1>1 DEF Placed
  <2> QED
    BY <1>5, <2>1, RoundUp
<1>7. ASSUME NEW k \in 1 .. n
      PROVE  /\ r.offsets[k] \in Nat
             /\ r.offsets[k] + ls[k].size <= size
             /\ ls[k].alignment # 0 => r.offsets[k] % 4 = 0
             /\ DOMAIN ls[k].words # {} => r.offsets[k] % 4 = 0 /\ r.alignment # 0 /\ size % 4 = 0
  <2> HIDE DEF r, size, ls, n
  <2>1. /\ r.offsets[k] + ls[k].size <= r.size
        /\ ls[k].alignment <= r.alignment
        /\ ls[k].alignment # 0 => r.offsets[k] % 4 = 0
    BY <1>1, <1>3 DEF Placed
  <2>2. r.offsets[k] \in Nat
    BY <1>5 DEF n
  <2>3. ls[k].size \in Nat /\ ls[k].alignment \in {0, 4, 8} /\ (DOMAIN ls[k].words # {} => ls[k].alignment # 0)
    BY <1>3 DEF WellLaid
  <2>4. r.offsets[k] + ls[k].size <= size
    <3>1. r.offsets[k] + ls[k].size <= r.size
      BY <2>1
    <3>2. r.size <= size /\ r.size \in Nat /\ size \in Nat
      BY <1>5, <1>6
    <3> QED
      BY <2>2, <2>3, <3>1, <3>2
  <2>5. ls[k].alignment # 0 => r.alignment # 0
    BY <1>5, <2>1, <2>3
  <2> QED
    BY <1>6, <2>1, <2>2, <2>3, <2>4, <2>5
<1>8. ASSUME NEW j \in 1 .. n, NEW k \in 1 .. n, j < k
      PROVE  r.offsets[j] + ls[j].size <= r.offsets[k]
  BY <1>1, <1>3, <1>8 DEF Placed
<1>9. \A j, k \in 1 .. n : j # k => \/ r.offsets[j] + ls[j].size <= r.offsets[k]
                                    \/ r.offsets[k] + ls[k].size <= r.offsets[j]
  BY <1>8
<1>10. WellLaid(l)
  <2> DEFINE offsets == r.offsets
             alignment == r.alignment
             I == 1 .. n
  <2>1. size \in Nat /\ alignment \in {0, 4, 8} /\ (alignment = 0 => size = 0)
    BY <1>5, <1>6
  <2>2. \A i \in I : /\ WellLaid(ls[i])
                     /\ offsets[i] \in Nat
                     /\ offsets[i] + ls[i].size <= size
                     /\ DOMAIN ls[i].words # {} => offsets[i] % 4 = 0 /\ alignment # 0 /\ size % 4 = 0
    <3> HIDE DEF r, size, ls, ws, l
    <3> QED
      BY <1>3, <1>7
  <2>3. \A i, j \in I : i # j => \/ offsets[i] + ls[i].size <= offsets[j]
                                 \/ offsets[j] + ls[j].size <= offsets[i]
    <3> HIDE DEF r, size, ls, ws, l
    <3> QED
      BY <1>9
  <2> HIDE DEF r, size, ls, n, ws, l, offsets, alignment, I
  <2>4. WellLaid([size |-> size, alignment |-> alignment, offsets |-> offsets,
                  words |-> member_words(offsets, [k \in I |-> ls[k].words])])
    BY <2>1, <2>2, <2>3, CompoundWellLaid
  <2>5. [k \in I |-> ls[k].words] = ws
    BY <1>4 DEF I
  <2>6. l = [size |-> size, alignment |-> alignment, offsets |-> offsets, words |-> member_words(offsets, ws)]
    BY <1>2 DEF offsets, alignment
  <2> QED
    BY <2>4, <2>5, <2>6
<1>11. LaidOut(l, members, layout)
  <2>1. l.size = size /\ l.offsets = r.offsets /\ l.words = member_words(r.offsets, ws)
    BY <1>2
  <2> HIDE DEF r, size, ls, l, ws
  <2>2. DOMAIN members = 1 .. n
    OBVIOUS
  <2>3. \A k \in DOMAIN members : /\ l.offsets[k] \in Nat
                                  /\ l.offsets[k] + layout[members[k]].size <= l.size
                                  /\ layout[members[k]].alignment # 0 => l.offsets[k] % 4 = 0
    BY <1>3, <1>7, <2>1
  <2>4. \A j, k \in DOMAIN members : j < k => l.offsets[j] + layout[members[j]].size <= l.offsets[k]
    BY <1>3, <1>8, <2>1
  <2> QED
    BY <1>5, <2>1, <2>3, <2>4 DEF LaidOut, ws
<1> QED
  BY <1>10, <1>11

LEMMA Product ==
  ASSUME NEW s \in Nat
  PROVE  /\ \A k \in Nat : k * s \in Nat
         /\ \A j, k \in Nat : j < k => j * s + s <= k * s
         /\ s % 4 = 0 => \A k \in Nat : (k * s) % 4 = 0
<1>1. \A k \in Nat : k * s \in Nat
  OBVIOUS
<1>2. ASSUME NEW j \in Nat, NEW k \in Nat, j < k PROVE j * s + s <= k * s
  BY <1>2
<1>3. ASSUME NEW k \in Nat, s % 4 = 0 PROVE (k * s) % 4 = 0
  <2>1. PICK q \in Nat : s = 4 * q
    BY <1>3
  <2>2. k * s = 4 * (k * q)
    BY <2>1
  <2>3. k * q \in Nat
    OBVIOUS
  <2>4. PICK m \in Nat : k * s = 4 * m
    BY <2>2, <2>3
  <2> QED
    BY <2>4
<1> QED
  BY <1>1, <1>2, <1>3

LEMMA ArrLaidOut ==
  ASSUME NEW size \in Nat, NEW element, WellLaid(element)
  PROVE  /\ WellLaid(ArrLayout(size, element))
         /\ ArrLayout(size, element).size = size * element.size
         /\ ArrLayout(size, element).words =
              member_words([i \in 1 .. size |-> (i - 1) * element.size], [i \in 1 .. size |-> element.words])
<1> DEFINE s == element.size
           offsets == [i \in 1 .. size |-> (i - 1) * s]
           ls == [i \in 1 .. size |-> element]
           ws == [i \in 1 .. size |-> element.words]
           l == ArrLayout(size, element)
<1>1. l = [size |-> size * s, alignment |-> element.alignment, offsets |-> offsets, words |-> member_words(offsets, ws)]
  BY DEF ArrLayout
<1>2. s \in Nat /\ element.alignment \in {0, 4, 8} /\ (element.alignment = 0 => s = 0)
      /\ (DOMAIN element.words # {} => element.alignment # 0 /\ s % 4 = 0)
  BY DEF WellLaid
<1>3. ws = [i \in 1 .. size |-> ls[i].words]
  OBVIOUS
<1>4. \A i \in 1 .. size : ls[i] = element /\ offsets[i] = (i - 1) * s
  OBVIOUS
<1> HIDE DEF s, offsets, ls, ws, l
<1>5. size * s \in Nat /\ (element.alignment = 0 => size * s = 0)
  BY <1>2, Product
<1>6. ASSUME NEW i \in 1 .. size
      PROVE  /\ WellLaid(ls[i])
             /\ offsets[i] \in Nat
             /\ offsets[i] + ls[i].size <= size * s
             /\ DOMAIN ls[i].words # {} => offsets[i] % 4 = 0 /\ element.alignment # 0 /\ (size * s) % 4 = 0
  <2>1. i - 1 \in Nat /\ i - 1 < size
    OBVIOUS
  <2>2. offsets[i] = (i - 1) * s /\ ls[i] = element
    BY <1>4
  <2>3. (i - 1) * s \in Nat /\ (i - 1) * s + s <= size * s
    BY <1>2, <2>1, Product
  <2>4. DOMAIN ls[i].words # {} => offsets[i] % 4 = 0 /\ element.alignment # 0 /\ (size * s) % 4 = 0
    BY <1>2, <2>1, <2>2, Product
  <2> QED
    BY <2>2, <2>3, <2>4 DEF s
<1>7. ASSUME NEW i \in 1 .. size, NEW j \in 1 .. size, i < j
      PROVE  offsets[i] + ls[i].size <= offsets[j]
  <2>1. i - 1 \in Nat /\ j - 1 \in Nat /\ i - 1 < j - 1
    BY <1>7
  <2>2. (i - 1) * s + s <= (j - 1) * s
    BY <1>2, <2>1, Product
  <2> QED
    BY <1>4, <2>2 DEF s
<1>8. \A i, j \in 1 .. size : i # j => \/ offsets[i] + ls[i].size <= offsets[j]
                                      \/ offsets[j] + ls[j].size <= offsets[i]
  BY <1>7
<1>9. WellLaid([size |-> size * s, alignment |-> element.alignment, offsets |-> offsets,
                words |-> member_words(offsets, [i \in 1 .. size |-> ls[i].words])])
  BY <1>2, <1>5, <1>6, <1>8, CompoundWellLaid
<1>10. WellLaid(l) /\ l.size = size * s /\ l.words = member_words(offsets, ws)
  BY <1>1, <1>3, <1>9
<1> QED
  BY <1>10 DEF l, s, offsets, ws

(* What a type is made of had its layout before.                                            *)
LEMMA ComponentLayout ==
  ASSUME NEW n \in 1 .. Len(Types), NEW t \in TypesBefore(n)
  PROVE  t \in ProgramTypes /\ layouts[n - 1][t] = get_mem_layout[t]
<1>1. PICK i \in 1 .. (n - 1) : t = Types[i]
  BY DEF TypesBefore
<1>2. i \in 1 .. Len(Types) /\ n - 1 \in i .. Len(Types)
  BY <1>1, TypesFacts
<1> QED
  BY <1>1, <1>2, LayoutsStay, TypesFacts

LEMMA KindsOfTypes ==
  ASSUME NEW n \in 1 .. Len(Types), NEW t, t = Types[n]
  PROVE  \/ t.tag = "Int" /\ t.bytes \in {1, 2, 4, 8} /\ get_mem_layout[t] = IntLayout(t.bytes)
         \/ /\ t.tag = "Record" /\ t.members \in Seq(TypesBefore(n))
            /\ get_mem_layout[t] = get_record_layout(t.members, layouts[n - 1])
         \/ /\ t.tag = "Arr" /\ t.element \in TypesBefore(n) /\ t.size \in Nat
            /\ get_mem_layout[t] = ArrLayout(t.size, get_mem_layout[t.element])
<1>1. get_mem_layout[t] = mem_layout(t, layouts[n - 1])
  BY LayoutsStay
<1>2. \/ \E bytes \in {1, 2, 4, 8} : t = Int_TAG(bytes)
      \/ t.tag = "Record" /\ t = RecordType(t.members) /\ t.members \in Seq(TypesBefore(n))
      \/ t.tag = "Arr" /\ t = ArrType(t.element, t.size) /\ t.element \in TypesBefore(n) /\ t.size \in Nat
  BY TypesAssumption, TypesFacts
<1>3. CASE \E bytes \in {1, 2, 4, 8} : t = Int_TAG(bytes)
  <2>1. t.tag = "Int" /\ t.bytes \in {1, 2, 4, 8}
    BY <1>3 DEF Int_TAG
  <2> QED
    BY <1>1, <2>1 DEF mem_layout
<1>4. CASE t.tag = "Record" /\ t = RecordType(t.members) /\ t.members \in Seq(TypesBefore(n))
  BY <1>1, <1>4 DEF mem_layout
<1>5. CASE t.tag = "Arr" /\ t = ArrType(t.element, t.size) /\ t.element \in TypesBefore(n) /\ t.size \in Nat
  BY <1>1, <1>5, ComponentLayout DEF mem_layout
<1> QED
  BY <1>2, <1>3, <1>4, <1>5

(* Every type of the program is laid out without overlap.                                   *)
LEMMA TypeIsWellLaid ==
  \A t \in ProgramTypes : WellLaid(get_mem_layout[t])
<1> DEFINE N == Len(Types)
           G == {m \in 0 .. N : \A i \in 1 .. m : WellLaid(get_mem_layout[Types[i]])}
<1>1. 0 \in G
  BY TypesFacts
<1>2. ASSUME NEW m \in 1 .. N, m - 1 \in G PROVE m \in G
  <2> DEFINE t == Types[m]
  <2>1. ASSUME NEW u \in TypesBefore(m) PROVE WellLaid(get_mem_layout[u]) /\ WellLaid(layouts[m - 1][u])
    <3>1. PICK i \in 1 .. (m - 1) : u = Types[i]
      BY DEF TypesBefore
    <3>2. WellLaid(get_mem_layout[u])
      BY <1>2, <3>1
    <3> QED
      BY <3>2, ComponentLayout
  <2>2. WellLaid(get_mem_layout[t])
    <3>1. CASE t.tag = "Int" /\ t.bytes \in {1, 2, 4, 8} /\ get_mem_layout[t] = IntLayout(t.bytes)
      BY <3>1, IntWellLaid
    <3>2. CASE t.members \in Seq(TypesBefore(m)) /\ get_mem_layout[t] = get_record_layout(t.members, layouts[m - 1])
      <4>1. Len(t.members) \in Nat /\ DOMAIN t.members = 1 .. Len(t.members)
        BY <3>2
      <4>2. \A k \in DOMAIN t.members : t.members[k] \in TypesBefore(m)
        BY <3>2
      <4>3. \A k \in DOMAIN t.members : WellLaid(layouts[m - 1][t.members[k]])
        BY <2>1, <4>2
      <4> HIDE DEF t
      <4> QED
        BY <3>2, <4>1, <4>3, RecordLaidOut
    <3>3. CASE t.element \in TypesBefore(m) /\ t.size \in Nat /\ get_mem_layout[t] = ArrLayout(t.size, get_mem_layout[t.element])
      BY <2>1, <3>3, ArrLaidOut
    <3> QED
      BY <3>1, <3>2, <3>3, KindsOfTypes
  <2>3. \A i \in 1 .. m : i \in 1 .. (m - 1) \/ i = m
    BY TypesFacts
  <2>4. \A i \in 1 .. m : WellLaid(get_mem_layout[Types[i]])
    BY <1>2, <2>2, <2>3
  <2> QED
    BY <2>4
<1>3. G \in SUBSET (0 .. N) /\ N \in Nat
  BY TypesFacts
<1>4. N \in G
  <2> HIDE DEF G, N
  <2> QED
    BY <1>1, <1>2, <1>3, UpTo
<1> SUFFICES ASSUME NEW t \in ProgramTypes PROVE WellLaid(get_mem_layout[t])
  OBVIOUS
<1>5. PICK n \in 1 .. N : t = Types[n]
  BY TypesFacts DEF ProgramTypes
<1> QED
  BY <1>4, <1>5

LEMMA TypeFacts ==
  ASSUME NEW t \in ProgramTypes
  PROVE  /\ size_of(t) \in Nat
         /\ \A path \in DOMAIN words_of(t) :
              words_of(t)[path] \in Nat /\ words_of(t)[path] % 4 = 0 /\ words_of(t)[path] + 4 <= size_of(t)
         /\ \A p, q \in DOMAIN words_of(t) : words_of(t)[p] = words_of(t)[q] => p = q
BY TypeIsWellLaid DEF WellLaid, size_of, words_of

(* The members of a record and of an array: where lower_ptr_index points to is where the    *)
(* words of the member are.                                                                 *)
LEMMA MemberFacts ==
  ASSUME NEW t \in ProgramTypes, t.tag \in {"Record", "Arr"}
  PROVE  /\ \A i \in Members(t) :
              /\ MemberType(t, i) \in ProgramTypes
              /\ lower_ptr_index(t, 0, i) \in Nat
              /\ \A a \in Nat : lower_ptr_index(t, a, i) = a + lower_ptr_index(t, 0, i)
              /\ lower_ptr_index(t, 0, i) + size_of(MemberType(t, i)) <= size_of(t)
              /\ \A q \in DOMAIN words_of(MemberType(t, i)) :
                   /\ <<i, q>> \in DOMAIN words_of(t)
                   /\ words_of(t)[<<i, q>>] = lower_ptr_index(t, 0, i) + words_of(MemberType(t, i))[q]
         /\ \A path \in DOMAIN words_of(t) :
              /\ path = <<path[1], path[2]>>
              /\ path[1] \in Members(t)
              /\ path[2] \in DOMAIN words_of(MemberType(t, path[1]))
<1>1. PICK n \in 1 .. Len(Types) : t = Types[n]
  BY TypesFacts DEF ProgramTypes
<1>2. CASE t.tag = "Record"
  <2>1. t.members \in Seq(TypesBefore(n)) /\ get_mem_layout[t] = get_record_layout(t.members, layouts[n - 1])
    BY <1>1, <1>2, KindsOfTypes
  <2> DEFINE ms == t.members
             ws == [k \in DOMAIN ms |-> layouts[n - 1][ms[k]].words]
             offsets == get_mem_layout[t].offsets
  <2>2. Len(ms) \in Nat /\ DOMAIN ms = 1 .. Len(ms) /\ \A k \in DOMAIN ms : ms[k] \in TypesBefore(n)
    BY <2>1
  <2>3. \A k \in DOMAIN ms : /\ ms[k] \in ProgramTypes /\ layouts[n - 1][ms[k]] = get_mem_layout[ms[k]]
                             /\ WellLaid(layouts[n - 1][ms[k]])
    BY <2>2, ComponentLayout, TypeIsWellLaid
  <2>4. LaidOut(get_mem_layout[t], ms, layouts[n - 1])
    <3> HIDE DEF ms
    <3> QED
      BY <2>1, <2>2, <2>3, RecordLaidOut DEF ms
  <2>5. Members(t) = DOMAIN ms /\ \A i : MemberType(t, i) = ms[i] /\ \A a : lower_ptr_index(t, a, i) = a + offset_of(t, i)
    BY <1>2 DEF Members, MemberType, lower_ptr_index
  <2>6. \A i \in DOMAIN ms : offset_of(t, i) \in Nat /\ offset_of(t, i) + size_of(ms[i]) <= size_of(t)
    BY <2>3, <2>4 DEF LaidOut, offset_of, size_of
  <2>7. words_of(t) = member_words(offsets, ws)
    BY <2>4 DEF LaidOut, words_of
  <2>8. \A i \in DOMAIN ms : ws[i] = words_of(ms[i])
    BY <2>3 DEF words_of
  <2>9. DOMAIN ws = DOMAIN ms /\ \A i \in DOMAIN ms : offset_of(t, i) = offsets[i]
    BY DEF offset_of
  <2> HIDE DEF ms, ws, offsets
  <2> DEFINE W == words_of(t)
  <2>13. /\ \A path \in DOMAIN words_of(t) :
             /\ path = <<path[1], path[2]>>
             /\ path[1] \in DOMAIN ws
             /\ path[2] \in DOMAIN ws[path[1]]
        /\ \A i \in DOMAIN ws : \A q \in DOMAIN ws[i] :
             <<i, q>> \in DOMAIN words_of(t) /\ words_of(t)[<<i, q>>] = offsets[i] + ws[i][q]
    <3> HIDE DEF W
    <3>1. W = member_words(offsets, ws)
      BY <2>7 DEF W
    <3> QED
      BY <3>1, MemberWords DEF W
  <2>10. ASSUME NEW i \in DOMAIN ms, NEW q \in DOMAIN words_of(ms[i])
         PROVE  /\ <<i, q>> \in DOMAIN words_of(t)
                /\ words_of(t)[<<i, q>>] = offset_of(t, i) + words_of(ms[i])[q]
    <3> HIDE DEF W
    <3>1. i \in DOMAIN ws /\ ws[i] = words_of(ms[i]) /\ offset_of(t, i) = offsets[i]
      BY <2>8, <2>9
    <3>2. q \in DOMAIN ws[i]
      BY <3>1
    <3>3. <<i, q>> \in DOMAIN words_of(t) /\ words_of(t)[<<i, q>>] = offsets[i] + ws[i][q]
      BY <2>13, <3>1, <3>2
    <3> QED
      BY <3>1, <3>3
  <2>11. \A path \in DOMAIN words_of(t) :
           path = <<path[1], path[2]>> /\ path[1] \in DOMAIN ms /\ path[2] \in DOMAIN words_of(ms[path[1]])
    BY <2>8, <2>9, <2>13
  <2>12. \A i \in DOMAIN ms : lower_ptr_index(t, 0, i) = offset_of(t, i)
    BY <2>5, <2>6
  <2> QED
    BY <2>3, <2>5, <2>6, <2>10, <2>11, <2>12
<1>3. CASE t.tag = "Arr"
  <2>1. t.element \in TypesBefore(n) /\ t.size \in Nat /\ get_mem_layout[t] = ArrLayout(t.size, get_mem_layout[t.element])
    BY <1>1, <1>3, KindsOfTypes
  <2> DEFINE e == t.element
             s == size_of(e)
             offsets == [i \in 1 .. t.size |-> (i - 1) * s]
             ws == [i \in 1 .. t.size |-> words_of(e)]
  <2>2. e \in ProgramTypes /\ WellLaid(get_mem_layout[e])
    BY <2>1, ComponentLayout, TypeIsWellLaid
  <2>3. s \in Nat
    BY <2>2, TypeFacts
  <2>4. size_of(t) = t.size * s /\ words_of(t) = member_words(offsets, ws)
    BY <2>1, <2>2, ArrLaidOut DEF size_of, words_of
  <2>5. Members(t) = 1 .. t.size /\ \A i : MemberType(t, i) = e /\ \A a : lower_ptr_index(t, a, i) = a + (i - 1) * s
    BY <1>3 DEF Members, MemberType, lower_ptr_index
  <2>6. DOMAIN ws = 1 .. t.size /\ \A i \in 1 .. t.size : ws[i] = words_of(e) /\ offsets[i] = (i - 1) * s
    OBVIOUS
  <2> HIDE DEF offsets, ws, s, e
  <2>7. ASSUME NEW i \in 1 .. t.size PROVE (i - 1) * s \in Nat /\ (i - 1) * s + s <= size_of(t)
    <3>1. i - 1 \in Nat /\ i - 1 < t.size
      BY <2>1
    <3> QED
      BY <2>1, <2>3, <2>4, <3>1, Product
  <2> DEFINE W == words_of(t)
  <2>13. /\ \A path \in DOMAIN words_of(t) :
             /\ path = <<path[1], path[2]>>
             /\ path[1] \in DOMAIN ws
             /\ path[2] \in DOMAIN ws[path[1]]
        /\ \A i \in DOMAIN ws : \A q \in DOMAIN ws[i] :
             <<i, q>> \in DOMAIN words_of(t) /\ words_of(t)[<<i, q>>] = offsets[i] + ws[i][q]
    <3> HIDE DEF W
    <3>1. W = member_words(offsets, ws)
      BY <2>4 DEF W
    <3> QED
      BY <3>1, MemberWords DEF W
  <2>8. ASSUME NEW i \in 1 .. t.size, NEW q \in DOMAIN words_of(e)
        PROVE  /\ <<i, q>> \in DOMAIN words_of(t)
               /\ words_of(t)[<<i, q>>] = (i - 1) * s + words_of(e)[q]
    <3> HIDE DEF W
    <3>1. i \in DOMAIN ws /\ ws[i] = words_of(e) /\ offsets[i] = (i - 1) * s
      BY <2>6
    <3>2. q \in DOMAIN ws[i]
      BY <3>1
    <3>3. <<i, q>> \in DOMAIN words_of(t) /\ words_of(t)[<<i, q>>] = offsets[i] + ws[i][q]
      BY <2>13, <3>1, <3>2
    <3> QED
      BY <3>1, <3>3
  <2>9. \A path \in DOMAIN words_of(t) :
           path = <<path[1], path[2]>> /\ path[1] \in 1 .. t.size /\ path[2] \in DOMAIN words_of(e)
    BY <2>6, <2>13
  <2>10. ASSUME NEW i \in 1 .. t.size
         PROVE  /\ lower_ptr_index(t, 0, i) = (i - 1) * s
                /\ \A a \in Nat : lower_ptr_index(t, a, i) = a + lower_ptr_index(t, 0, i)
    <3> DEFINE o == (i - 1) * s
    <3>1. o \in Nat
      BY <2>7
    <3>2. \A a : lower_ptr_index(t, a, i) = a + o
      BY <2>5
    <3> HIDE DEF o
    <3>3. lower_ptr_index(t, 0, i) = o
      BY <3>1, <3>2
    <3> QED
      BY <3>2, <3>3 DEF o
  <2>11. \A i \in 1 .. t.size : size_of(MemberType(t, i)) = s
    BY <2>5 DEF s
  <2>12. ASSUME NEW i \in 1 .. t.size
         PROVE  /\ MemberType(t, i) = e
                /\ e \in ProgramTypes
                /\ lower_ptr_index(t, 0, i) \in Nat
                /\ \A a \in Nat : lower_ptr_index(t, a, i) = a + lower_ptr_index(t, 0, i)
                /\ lower_ptr_index(t, 0, i) + size_of(e) <= size_of(t)
                /\ \A q \in DOMAIN words_of(e) :
                     /\ <<i, q>> \in DOMAIN words_of(t)
                     /\ words_of(t)[<<i, q>>] = lower_ptr_index(t, 0, i) + words_of(e)[q]
    <3>1. lower_ptr_index(t, 0, i) = (i - 1) * s /\ s = size_of(e)
      BY <2>10 DEF s
    <3> QED
      BY <2>2, <2>5, <2>7, <2>8, <2>10, <3>1
  <2> QED
    BY <2>5, <2>9, <2>12
<1> QED
  BY <1>2, <1>3

LEMMA RecordOffsets ==
  ASSUME NEW t \in ProgramTypes, t.tag = "Record"
  PROVE  /\ t.members \in Seq(ProgramTypes)
         /\ \A k \in DOMAIN t.members :
              /\ offset_of(t, k) \in Nat
              /\ offset_of(t, k) + size_of(t.members[k]) <= size_of(t)
              /\ size_of(t.members[k]) > 0 => offset_of(t, k) % 4 = 0
         /\ \A j, k \in DOMAIN t.members :
              j < k => offset_of(t, j) + size_of(t.members[j]) <= offset_of(t, k)
<1>1. PICK n \in 1 .. Len(Types) : t = Types[n]
  BY TypesFacts DEF ProgramTypes
<1> DEFINE ms == t.members
<1>2. ms \in Seq(TypesBefore(n)) /\ get_mem_layout[t] = get_record_layout(ms, layouts[n - 1])
  BY <1>1, KindsOfTypes
<1> HIDE DEF ms
<1>3. Len(ms) \in Nat /\ DOMAIN ms = 1 .. Len(ms) /\ \A k \in DOMAIN ms : ms[k] \in TypesBefore(n)
  BY <1>2
<1>4. \A k \in DOMAIN ms : /\ ms[k] \in ProgramTypes /\ layouts[n - 1][ms[k]] = get_mem_layout[ms[k]]
                           /\ WellLaid(layouts[n - 1][ms[k]])
  BY <1>3, ComponentLayout, TypeIsWellLaid
<1>5. LaidOut(get_mem_layout[t], ms, layouts[n - 1])
  BY <1>2, <1>3, <1>4, RecordLaidOut
<1>6. ms \in Seq(ProgramTypes)
  BY <1>2, <1>3, <1>4
<1>7. ASSUME NEW k \in DOMAIN ms
      PROVE  /\ offset_of(t, k) \in Nat
             /\ offset_of(t, k) + size_of(ms[k]) <= size_of(t)
             /\ size_of(ms[k]) > 0 => offset_of(t, k) % 4 = 0
  <2>1. /\ get_mem_layout[t].offsets[k] \in Nat
        /\ get_mem_layout[t].offsets[k] + get_mem_layout[ms[k]].size <= get_mem_layout[t].size
        /\ get_mem_layout[ms[k]].alignment # 0 => get_mem_layout[t].offsets[k] % 4 = 0
    BY <1>4, <1>5 DEF LaidOut
  <2>2. get_mem_layout[ms[k]].alignment = 0 => get_mem_layout[ms[k]].size = 0
    BY <1>4 DEF WellLaid
  <2> QED
    BY <2>1, <2>2 DEF offset_of, size_of
<1>8. \A j, k \in DOMAIN ms : j < k => offset_of(t, j) + size_of(ms[j]) <= offset_of(t, k)
  BY <1>4, <1>5 DEF LaidOut, offset_of, size_of
<1> QED
  BY <1>6, <1>7, <1>8 DEF ms

-----------------------------------------------------------------------------
(* The types the lane uses.                                                                 *)
LEMMA IntFacts ==
  ASSUME NEW bytes \in {1, 4, 8}, Int_TAG(bytes) \in ProgramTypes
  PROVE  /\ size_of(Int_TAG(bytes)) = bytes
         /\ words_of(Int_TAG(bytes)) = [w \in 1 .. (bytes \div 4) |-> 4 * (w - 1)]
<1> DEFINE t == Int_TAG(bytes)
<1>1. t.tag = "Int" /\ t.bytes = bytes
  BY DEF Int_TAG
<1>2. PICK n \in 1 .. Len(Types) : t = Types[n]
  BY TypesFacts DEF ProgramTypes
<1>3. get_mem_layout[t] = IntLayout(bytes)
  <2> HIDE DEF t
  <2> QED
    BY <1>1, <1>2, KindsOfTypes
<1> QED
  BY <1>3 DEF size_of, words_of, IntLayout, WordBytes

LEMMA WordTypes ==
  /\ {U8, U32, U64, TreeNode, JoinPoint, ArrType(U8, StackBytes), Globals} \subseteq ProgramTypes
  /\ Ptr = U64
  /\ size_of(U8) = 1 /\ size_of(U32) = 4 /\ size_of(U64) = 8
  /\ words_of(U32) = [w \in {1} |-> 0]
  /\ words_of(U64) = [w \in {1, 2} |-> 4 * (w - 1)]
<1>1. {U8, U32, U64, TreeNode, JoinPoint, ArrType(U8, StackBytes), Globals} \subseteq ProgramTypes
  BY LaneStackAssumption
<1>2. size_of(U8) = 1 /\ size_of(U32) = 4 /\ size_of(U64) = 8
  BY <1>1, IntFacts DEF U8, U32, U64
<1>3. words_of(U32) = [w \in 1 .. 1 |-> 4 * (w - 1)] /\ words_of(U64) = [w \in 1 .. 2 |-> 4 * (w - 1)]
  <2>1. 4 \div 4 = 1 /\ 8 \div 4 = 2
    OBVIOUS
  <2> QED
    BY <1>1, <2>1, IntFacts DEF U32, U64
<1>4. [w \in 1 .. 1 |-> 4 * (w - 1)] = [w \in {1} |-> 0] /\ 1 .. 2 = {1, 2}
  OBVIOUS
<1> QED
  BY <1>1, <1>2, <1>3, <1>4 DEF Ptr, U64, PtrBytes

LEMMA JoinPointFacts ==
  /\ destination_path \in DOMAIN words_of(JoinPoint) /\ payload_path \in DOMAIN words_of(JoinPoint)
  /\ destination_path # payload_path
  /\ size_of(JoinPoint) \in Nat /\ size_of(JoinPoint) > 0 /\ size_of(JoinPoint) % 4 = 0
<1>1. JoinPoint \in ProgramTypes /\ JoinPoint.tag = "Record" /\ JoinPoint.members = <<TreeNode, U32, U32>>
  BY WordTypes DEF JoinPoint, RecordType
<1>2. Members(JoinPoint) = 1 .. 3 /\ MemberType(JoinPoint, 2) = U32 /\ MemberType(JoinPoint, 3) = U32
  BY <1>1 DEF Members, MemberType
<1>3. DOMAIN words_of(U32) = {1}
  BY WordTypes
<1>4. <<2, 1>> \in DOMAIN words_of(JoinPoint) /\ <<3, 1>> \in DOMAIN words_of(JoinPoint)
  BY <1>1, <1>2, <1>3, MemberFacts
<1>5. size_of(JoinPoint) \in Nat /\ size_of(JoinPoint) > 0 /\ size_of(JoinPoint) % 4 = 0
  <2>1. WellLaid(get_mem_layout[JoinPoint]) /\ DOMAIN get_mem_layout[JoinPoint].words # {}
    BY <1>1, <1>4, TypeIsWellLaid DEF words_of
  <2> QED
    BY <1>4, <2>1 DEF WellLaid, size_of, words_of
<1> QED
  BY <1>4, <1>5 DEF destination_path, payload_path

(* Where the private variables are.                                                         *)
LEMMA GlobalsFacts ==
  /\ stack \in Nat /\ stack % 4 = 0
  /\ StackBytes \in Nat /\ StackBytes % 4 = 0
  /\ offset_of(Globals, 2) \in Nat /\ offset_of(Globals, 2) % 4 = 0
  /\ offset_of(Globals, 3) \in Nat /\ offset_of(Globals, 3) % 4 = 0
  /\ stack + StackBytes <= offset_of(Globals, 2)
  /\ offset_of(Globals, 2) + 4 <= offset_of(Globals, 3)
  /\ offset_of(Globals, 3) + 8 <= size_of(Globals)
  /\ size_of(Globals) \in Nat /\ size_of(Globals) % 4 = 0 /\ size_of(Globals) < SignBit
<1> DEFINE A == ArrType(U8, StackBytes)
<1>1. Globals \in ProgramTypes /\ Globals.tag = "Record" /\ Globals.members = <<A, U32, U64>>
  BY WordTypes DEF Globals, RecordType
<1>2. A \in ProgramTypes /\ A.tag = "Arr" /\ A.element = U8 /\ A.size = StackBytes
  BY WordTypes DEF ArrType
<1>3. StackBytes \in Nat /\ StackBytes % 4 = 0 /\ size_of(Globals) < SignBit
  BY LaneStackAssumption DEF WordBytes
<1>4. size_of(A) = StackBytes
  <2> HIDE DEF A
  <2>1. PICK n \in 1 .. Len(Types) : A = Types[n]
    BY <1>2, TypesFacts DEF ProgramTypes
  <2>2. get_mem_layout[A] = ArrLayout(StackBytes, get_mem_layout[U8])
    BY <1>2, <2>1, KindsOfTypes
  <2>3. WellLaid(get_mem_layout[U8]) /\ get_mem_layout[U8].size = 1
    BY WordTypes, TypeIsWellLaid DEF size_of
  <2>4. get_mem_layout[A].size = StackBytes * get_mem_layout[U8].size
    BY <1>3, <2>2, <2>3, ArrLaidOut
  <2> QED
    BY <1>3, <2>3, <2>4 DEF size_of
<1> DEFINE ms == Globals.members
<1>5. DOMAIN ms = 1 .. 3 /\ ms[1] = A /\ ms[2] = U32 /\ ms[3] = U64
  BY <1>1
<1> HIDE DEF A
<1>6. /\ \A k \in 1 .. 3 : offset_of(Globals, k) \in Nat
      /\ offset_of(Globals, 1) + StackBytes <= offset_of(Globals, 2)
      /\ offset_of(Globals, 2) + 4 <= offset_of(Globals, 3)
      /\ offset_of(Globals, 3) + 8 <= size_of(Globals)
      /\ offset_of(Globals, 2) % 4 = 0 /\ offset_of(Globals, 3) % 4 = 0
  <2>1. \A j, k \in 1 .. 3 : j < k => offset_of(Globals, j) + size_of(ms[j]) <= offset_of(Globals, k)
    BY <1>1, <1>5, RecordOffsets
  <2>2. \A k \in 1 .. 3 : /\ offset_of(Globals, k) \in Nat
                          /\ offset_of(Globals, k) + size_of(ms[k]) <= size_of(Globals)
                          /\ size_of(ms[k]) > 0 => offset_of(Globals, k) % 4 = 0
    BY <1>1, <1>5, RecordOffsets
  <2>3. /\ offset_of(Globals, 1) + StackBytes <= offset_of(Globals, 2)
        /\ offset_of(Globals, 2) + 4 <= offset_of(Globals, 3)
    <3>1. 1 \in 1 .. 3 /\ 2 \in 1 .. 3 /\ 3 \in 1 .. 3 /\ 1 < 2 /\ 2 < 3
      OBVIOUS
    <3>2. size_of(ms[1]) = StackBytes /\ size_of(ms[2]) = 4
      BY <1>4, <1>5, WordTypes
    <3> QED
      BY <2>1, <3>1, <3>2
  <2>4. offset_of(Globals, 3) + 8 <= size_of(Globals) /\ offset_of(Globals, 2) % 4 = 0 /\ offset_of(Globals, 3) % 4 = 0
    <3>1. size_of(ms[3]) = 8 /\ size_of(ms[2]) = 4
      BY <1>5, WordTypes
    <3>2. 2 \in 1 .. 3 /\ 3 \in 1 .. 3
      OBVIOUS
    <3> QED
      BY <2>2, <3>1, <3>2
  <2> QED
    BY <2>2, <2>3, <2>4
<1>7. offset_of(Globals, 1) = 0
  <2>1. PICK n \in 1 .. Len(Types) : Globals = Types[n]
    BY <1>1, TypesFacts DEF ProgramTypes
  <2>2. ms \in Seq(TypesBefore(n)) /\ get_mem_layout[Globals] = get_record_layout(ms, layouts[n - 1])
    BY <1>1, <2>1, KindsOfTypes
  <2> HIDE DEF ms
  <2>3. Len(ms) = 3 /\ \A k \in DOMAIN ms : WellLaid(layouts[n - 1][ms[k]])
    <3>1. Len(ms) = 3 /\ \A k \in DOMAIN ms : ms[k] \in TypesBefore(n)
      <4>1. ms \in Seq(TypesBefore(n)) /\ DOMAIN ms = 1 .. 3
        BY <1>5, <2>2
      <4>2. Len(ms) = 3
        BY <4>1
      <4>3. \A k \in DOMAIN ms : ms[k] \in TypesBefore(n)
        <5>1. PICK T : T = TypesBefore(n)
          OBVIOUS
        <5>2. ms \in Seq(T)
          BY <4>1, <5>1
        <5>3. \A k \in 1 .. Len(ms) : ms[k] \in T
          BY <5>2
        <5> QED
          BY <4>1, <4>2, <5>1, <5>3
      <4> QED
        BY <4>2, <4>3
    <3> QED
      BY <3>1, ComponentLayout, TypeIsWellLaid
  <2>4. LaidOut(get_mem_layout[Globals], ms, layouts[n - 1])
    BY <1>5, <2>2, <2>3, RecordLaidOut
  <2>5. Len(ms) > 0
    BY <2>3
  <2> QED
    BY <2>4, <2>5 DEF LaidOut, offset_of
<1>8. size_of(Globals) \in Nat /\ size_of(Globals) % 4 = 0
  <2>1. WellLaid(get_mem_layout[Globals])
    BY <1>1, TypeIsWellLaid
  <2>2. <<2, 1>> \in DOMAIN words_of(Globals)
    <3>1. 2 \in Members(Globals) /\ MemberType(Globals, 2) = U32
      BY <1>1, <1>5 DEF Members, MemberType
    <3> QED
      BY <1>1, <3>1, MemberFacts, WordTypes
  <2> QED
    BY <2>1, <2>2 DEF WellLaid, size_of, words_of
<1> QED
  BY <1>3, <1>6, <1>7, <1>8 DEF stack

-----------------------------------------------------------------------------
(* Values in memory (lower_physical_ptrs.c).                                                *)
MemBytes == size_of(Globals)
IsMemory(m) == DOMAIN m = 0 .. (bytes_to_words(MemBytes) - 1)

(* A whole variable of a type fits at an address.                                           *)
Fits(t, a) == t \in ProgramTypes /\ a \in Nat /\ a % 4 = 0 /\ a + size_of(t) <= MemBytes

IsValue(t, v) == v = [path \in DOMAIN words_of(t) |-> v[path]]

(* Two memories differ at most from lo to hi.                                               *)
Outside(m, m2, lo, hi) == \A i \in DOMAIN m : 4 * i + 4 <= lo \/ hi <= 4 * i => m2[i] = m[i]

LEMMA MemoryWords ==
  /\ MemBytes \in Nat
  /\ \A m : IsMemory(m) => \A i : i \in DOMAIN m <=> i \in Nat /\ 4 * i + 4 <= MemBytes
<1>1. MemBytes \in Nat /\ MemBytes % 4 = 0
  BY GlobalsFacts DEF MemBytes
<1> DEFINE n == MemBytes \div 4
<1>2. n \in Nat /\ 4 * n = MemBytes
  BY <1>1
<1> HIDE DEF n
<1>3. \A i : i \in 0 .. (n - 1) <=> i \in Nat /\ 4 * i + 4 <= MemBytes
  BY <1>1, <1>2
<1>4. \A m : IsMemory(m) => DOMAIN m = 0 .. (n - 1)
  BY DEF IsMemory, bytes_to_words, WordBytes, n
<1> QED
  BY <1>1, <1>3, <1>4

LEMMA WordIndex ==
  ASSUME NEW a \in Nat, NEW w \in Nat, a % 4 = 0, w % 4 = 0
  PROVE  (a + w) \div 4 \in Nat /\ 4 * ((a + w) \div 4) = a + w
<1>1. (a + w) % 4 = 0
  OBVIOUS
<1> QED
  BY <1>1

LEMMA Elements ==
  ASSUME NEW t, NEW a, Fits(t, a), NEW m, IsMemory(m)
  PROVE  LET at == elements_of(t, a) IN
         /\ DOMAIN at = DOMAIN words_of(t)
         /\ \A path \in DOMAIN at : at[path] \in DOMAIN m /\ 4 * at[path] = a + words_of(t)[path]
                                    /\ a <= 4 * at[path] /\ 4 * at[path] + 4 <= a + size_of(t)
         /\ \A p, q \in DOMAIN at : at[p] = at[q] => p = q
<1> DEFINE W == words_of(t)
           at == elements_of(t, a)
<1>1. t \in ProgramTypes /\ a \in Nat /\ a % 4 = 0 /\ a + size_of(t) <= MemBytes
  BY DEF Fits
<1>2. /\ size_of(t) \in Nat
      /\ \A path \in DOMAIN W : W[path] \in Nat /\ W[path] % 4 = 0 /\ W[path] + 4 <= size_of(t)
      /\ \A p, q \in DOMAIN W : W[p] = W[q] => p = q
  BY <1>1, TypeFacts
<1>3. at = [path \in DOMAIN W |-> (a + W[path]) \div 4]
  BY DEF elements_of, element_of, bytes_to_words, WordBytes
<1> HIDE DEF W, at
<1>4. ASSUME NEW path \in DOMAIN W
      PROVE  at[path] \in DOMAIN m /\ 4 * at[path] = a + W[path] /\ a <= 4 * at[path]
             /\ 4 * at[path] + 4 <= a + size_of(t)
  <2>1. at[path] = (a + W[path]) \div 4 /\ W[path] \in Nat /\ W[path] % 4 = 0 /\ W[path] + 4 <= size_of(t)
    BY <1>2, <1>3
  <2>2. at[path] \in Nat /\ 4 * at[path] = a + W[path]
    BY <1>1, <2>1, WordIndex
  <2>3. 4 * at[path] + 4 <= a + size_of(t)
    <3> DEFINE s == size_of(t)
               w == W[path]
               x == at[path]
    <3>1. s \in Nat /\ w \in Nat /\ x \in Nat /\ a \in Nat /\ 4 * x = a + w /\ w + 4 <= s
      BY <1>1, <1>2, <2>1, <2>2
    <3> HIDE DEF s, w, x
    <3>2. 4 * x + 4 <= a + s
      BY <3>1
    <3> QED
      BY <3>2 DEF s, x
  <2>4. 4 * at[path] + 4 <= MemBytes
    BY <1>1, <1>2, <2>2, <2>3, MemoryWords
  <2> QED
    BY <1>1, <2>1, <2>2, <2>3, <2>4, MemoryWords
<1>5. DOMAIN at = DOMAIN W
  BY <1>3
<1>6. ASSUME NEW p \in DOMAIN W, NEW q \in DOMAIN W, at[p] = at[q] PROVE p = q
  <2>1. W[p] = W[q]
    BY <1>1, <1>2, <1>4, <1>6
  <2> QED
    BY <1>2, <2>1
<1> QED
  BY <1>4, <1>5, <1>6 DEF W, at

(* What is loaded is what lies there.                                                       *)
LEMMA Loads ==
  ASSUME NEW t, NEW a, Fits(t, a), NEW m, IsMemory(m)
  PROVE  gen_deserialisation(t, m, a) = [path \in DOMAIN words_of(t) |-> m[elements_of(t, a)[path]]]
<1> DEFINE at == elements_of(t, a)
<1>1. DOMAIN at = DOMAIN words_of(t) /\ \A path \in DOMAIN at : at[path] \in DOMAIN m
  BY Elements
<1>2. gen_deserialisation(t, m, a) = [path \in DOMAIN at |-> LoadWord(m, at[path])]
  BY DEF gen_deserialisation
<1> HIDE DEF at
<1>3. \A path \in DOMAIN at : LoadWord(m, at[path]) = m[at[path]]
  BY <1>1 DEF LoadWord
<1> QED
  BY <1>1, <1>2, <1>3 DEF at

LEMMA LoadIsLocal ==
  ASSUME NEW t, NEW a, Fits(t, a), NEW m, IsMemory(m), NEW m2, IsMemory(m2),
         NEW lo \in Nat, NEW hi \in Nat, Outside(m, m2, lo, hi),
         a + size_of(t) <= lo \/ hi <= a
  PROVE  gen_deserialisation(t, m2, a) = gen_deserialisation(t, m, a)
<1> DEFINE at == elements_of(t, a)
<1>1. DOMAIN at = DOMAIN words_of(t)
      /\ \A path \in DOMAIN at : at[path] \in DOMAIN m /\ a <= 4 * at[path] /\ 4 * at[path] + 4 <= a + size_of(t)
  BY Elements
<1>2. a \in Nat /\ size_of(t) \in Nat
  BY TypeFacts DEF Fits
<1> HIDE DEF at
<1>3. ASSUME NEW path \in DOMAIN words_of(t) PROVE m2[at[path]] = m[at[path]]
  <2> DEFINE i == at[path]
  <2>1. i \in DOMAIN m /\ a <= 4 * i /\ 4 * i + 4 <= a + size_of(t)
    BY <1>1
  <2>2. i \in Nat
    BY <2>1, MemoryWords
  <2> HIDE DEF i
  <2>3. 4 * i + 4 <= lo \/ hi <= 4 * i
    BY <1>2, <2>1, <2>2
  <2>4. m2[i] = m[i]
    BY <2>1, <2>3 DEF Outside
  <2> QED
    BY <2>4 DEF i
<1>4. gen_deserialisation(t, m, a) = [path \in DOMAIN words_of(t) |-> m[at[path]]]
      /\ gen_deserialisation(t, m2, a) = [path \in DOMAIN words_of(t) |-> m2[at[path]]]
  BY Loads DEF at
<1> QED
  BY <1>3, <1>4

LEMMA Stores ==
  ASSUME NEW t, NEW a, Fits(t, a), NEW m, IsMemory(m), NEW v, IsValue(t, v),
         NEW m2, m2 = gen_serialisation(t, m, a, v)
  PROVE  /\ IsMemory(m2)
         /\ gen_deserialisation(t, m2, a) = v
         /\ Outside(m, m2, a, a + size_of(t))
<1> DEFINE at == elements_of(t, a)
<1>1. /\ DOMAIN at = DOMAIN words_of(t)
      /\ \A path \in DOMAIN at : at[path] \in DOMAIN m /\ a <= 4 * at[path] /\ 4 * at[path] + 4 <= a + size_of(t)
      /\ \A p, q \in DOMAIN at : at[p] = at[q] => p = q
  BY Elements
<1>2. a \in Nat /\ size_of(t) \in Nat
  BY TypeFacts DEF Fits
<1>3. m2 = [i \in DOMAIN m |-> IF \E path \in DOMAIN at : at[path] = i
                               THEN v[CHOOSE path \in DOMAIN at : at[path] = i] ELSE m[i]]
  BY DEF gen_serialisation
<1> HIDE DEF at
<1>4. DOMAIN m2 = DOMAIN m /\ IsMemory(m2)
  BY <1>3 DEF IsMemory
<1>5. ASSUME NEW path \in DOMAIN at PROVE m2[at[path]] = v[path]
  <2>1. (CHOOSE p \in DOMAIN at : at[p] = at[path]) = path
    BY <1>1
  <2> QED
    BY <1>1, <1>3, <2>1
<1>6. gen_deserialisation(t, m2, a) = [path \in DOMAIN words_of(t) |-> m2[at[path]]]
  BY <1>4, Loads DEF at
<1>7. gen_deserialisation(t, m2, a) = v
  BY <1>1, <1>5, <1>6 DEF IsValue
<1>8. ASSUME NEW i \in DOMAIN m, 4 * i + 4 <= a \/ a + size_of(t) <= 4 * i PROVE m2[i] = m[i]
  <2>1. ~ \E path \in DOMAIN at : at[path] = i
    <3> SUFFICES ASSUME NEW path \in DOMAIN at, at[path] = i PROVE FALSE
      OBVIOUS
    <3>1. a <= 4 * i /\ 4 * i + 4 <= a + size_of(t) /\ i \in Nat
      BY <1>1, MemoryWords
    <3> QED
      BY <1>2, <1>8, <3>1
  <2> QED
    BY <1>3, <2>1
<1> QED
  BY <1>4, <1>7, <1>8 DEF Outside

(* A store to one member changes the words of that member (lower_lea.c).                    *)
LEMMA StoresMember ==
  ASSUME NEW t, NEW a, Fits(t, a), t.tag \in {"Record", "Arr"}, NEW i \in Members(t),
         NEW m, IsMemory(m), NEW v,
         NEW m2, m2 = gen_serialisation(MemberType(t, i), m, lower_ptr_index(t, a, i), v)
  PROVE  /\ IsMemory(m2)
         /\ gen_deserialisation(t, m2, a) =
              [path \in DOMAIN words_of(t) |->
                 IF path[1] = i THEN v[path[2]] ELSE gen_deserialisation(t, m, a)[path]]
         /\ Outside(m, m2, a, a + size_of(t))
<1> DEFINE at == elements_of(t, a)
           M == MemberType(t, i)
           o == lower_ptr_index(t, 0, i)
           there == elements_of(M, lower_ptr_index(t, a, i))
<1>0. t \in ProgramTypes /\ a \in Nat /\ size_of(t) \in Nat
  BY TypeFacts DEF Fits
<1>1. /\ DOMAIN at = DOMAIN words_of(t)
      /\ \A path \in DOMAIN at : at[path] \in DOMAIN m /\ 4 * at[path] = a + words_of(t)[path]
                                 /\ a <= 4 * at[path] /\ 4 * at[path] + 4 <= a + size_of(t)
      /\ \A p, q \in DOMAIN at : at[p] = at[q] => p = q
  BY Elements
<1>2. /\ M \in ProgramTypes /\ o \in Nat /\ lower_ptr_index(t, a, i) = a + o
      /\ \A q \in DOMAIN words_of(M) : <<i, q>> \in DOMAIN words_of(t) /\ words_of(t)[<<i, q>>] = o + words_of(M)[q]
  BY <1>0, MemberFacts
<1>3. \A path \in DOMAIN words_of(t) :
        path = <<path[1], path[2]>> /\ (path[1] = i => path[2] \in DOMAIN words_of(M))
  BY <1>0, MemberFacts
<1>4. DOMAIN there = DOMAIN words_of(M) /\ \A q \in DOMAIN words_of(M) : there[q] = (a + o + words_of(M)[q]) \div 4
  BY <1>2 DEF elements_of, element_of, bytes_to_words, WordBytes
<1>5. m2 = [k \in DOMAIN m |-> IF \E q \in DOMAIN there : there[q] = k
                               THEN v[CHOOSE q \in DOMAIN there : there[q] = k] ELSE m[k]]
  BY DEF gen_serialisation
<1>6. \A q \in DOMAIN words_of(M) : words_of(M)[q] \in Nat
  BY <1>2, TypeFacts
<1> HIDE DEF at, o, there, M
<1>7. ASSUME NEW q \in DOMAIN words_of(M)
      PROVE  <<i, q>> \in DOMAIN at /\ there[q] = at[<<i, q>>]
  <2> DEFINE w == words_of(M)[q]
             x == at[<<i, q>>]
  <2>1. <<i, q>> \in DOMAIN at /\ x \in DOMAIN m /\ 4 * x = a + (o + w)
    BY <1>1, <1>2
  <2>2. x \in Nat
    BY <2>1, MemoryWords
  <2>3. there[q] = (a + o + w) \div 4 /\ w \in Nat
    BY <1>4, <1>6
  <2> HIDE DEF w, x
  <2>4. a + o + w = 4 * x
    BY <1>0, <1>2, <2>1, <2>2, <2>3
  <2>5. there[q] = x
    BY <2>2, <2>3, <2>4
  <2> QED
    BY <2>1, <2>5 DEF x
<1>8. DOMAIN m2 = DOMAIN m /\ IsMemory(m2)
  BY <1>5 DEF IsMemory
<1>9. gen_deserialisation(t, m2, a) = [path \in DOMAIN words_of(t) |-> m2[at[path]]]
      /\ gen_deserialisation(t, m, a) = [path \in DOMAIN words_of(t) |-> m[at[path]]]
  BY <1>8, Loads DEF at
<1>10. ASSUME NEW path \in DOMAIN words_of(t), path[1] = i PROVE m2[at[path]] = v[path[2]]
  <2> DEFINE q == path[2]
  <2>1. path = <<i, q>> /\ q \in DOMAIN words_of(M)
    BY <1>3, <1>10
  <2> HIDE DEF q
  <2>2. there[q] = at[path]
    BY <1>7, <2>1
  <2>3. ASSUME NEW r \in DOMAIN there, there[r] = at[path] PROVE r = q
    <3>1. <<i, r>> \in DOMAIN at /\ <<i, q>> \in DOMAIN at /\ at[<<i, r>>] = at[<<i, q>>]
      BY <1>4, <1>7, <2>1, <2>2, <2>3
    <3>2. <<i, r>> = <<i, q>>
      BY <1>1, <3>1
    <3> QED
      BY <3>2
  <2>4. (CHOOSE r \in DOMAIN there : there[r] = at[path]) = q
    BY <1>4, <2>1, <2>2, <2>3
  <2> QED
    BY <1>1, <1>4, <1>5, <2>1, <2>2, <2>4 DEF q
<1>11. ASSUME NEW path \in DOMAIN words_of(t), path[1] # i PROVE m2[at[path]] = m[at[path]]
  <2>1. ASSUME NEW q \in DOMAIN there, there[q] = at[path] PROVE FALSE
    <3>1. <<i, q>> \in DOMAIN at /\ path \in DOMAIN at /\ at[<<i, q>>] = at[path]
      BY <1>1, <1>4, <1>7, <2>1
    <3>2. path = <<i, q>>
      BY <1>1, <3>1
    <3> QED
      BY <1>11, <3>2
  <2>2. at[path] \in DOMAIN m
    BY <1>1
  <2> QED
    BY <1>5, <2>1, <2>2
<1>12. ASSUME NEW k \in DOMAIN m, 4 * k + 4 <= a \/ a + size_of(t) <= 4 * k PROVE m2[k] = m[k]
  <2>1. ~ \E q \in DOMAIN there : there[q] = k
    <3> SUFFICES ASSUME NEW q \in DOMAIN there, there[q] = k PROVE FALSE
      OBVIOUS
    <3>1. a <= 4 * k /\ 4 * k + 4 <= a + size_of(t) /\ k \in Nat
      BY <1>1, <1>4, <1>7, MemoryWords
    <3> QED
      BY <1>0, <1>12, <3>1
  <2> QED
    BY <1>5, <2>1
<1>13. ASSUME NEW path \in DOMAIN words_of(t)
       PROVE  m2[at[path]] = IF path[1] = i THEN v[path[2]] ELSE gen_deserialisation(t, m, a)[path]
  <2>1. gen_deserialisation(t, m, a)[path] = m[at[path]]
    BY <1>9
  <2> QED
    BY <1>10, <1>11, <2>1
<1>14. gen_deserialisation(t, m2, a) =
         [path \in DOMAIN words_of(t) |->
            IF path[1] = i THEN v[path[2]] ELSE gen_deserialisation(t, m, a)[path]]
  BY <1>9, <1>13
<1>15. Outside(m, m2, a, a + size_of(t))
  BY <1>12 DEF Outside
<1> QED
  BY <1>8, <1>14, <1>15

(* Copies and fills of whole variables (lower_memcpy.c).                                    *)
LEMMA Copies ==
  ASSUME NEW t, NEW dst, NEW src, Fits(t, dst), Fits(t, src), size_of(t) % 4 = 0, size_of(t) > 0,
         NEW m, IsMemory(m), NEW m2, m2 = copy_bytes(m, dst, src, size_of(t))
  PROVE  /\ IsMemory(m2)
         /\ gen_deserialisation(t, m2, dst) = gen_deserialisation(t, m, src)
         /\ Outside(m, m2, dst, dst + size_of(t))
<1> DEFINE W == words_of(t)
           to == elements_of(t, dst)
           from == elements_of(t, src)
           n == size_of(t) \div 4
           d == dst \div 4
           s == src \div 4
<1>1. /\ dst \in Nat /\ dst % 4 = 0 /\ src \in Nat /\ src % 4 = 0 /\ size_of(t) \in Nat
      /\ \A path \in DOMAIN W : W[path] \in Nat /\ W[path] % 4 = 0 /\ W[path] + 4 <= size_of(t)
  BY TypeFacts DEF Fits
<1>2. n \in Nat /\ n > 0 /\ 4 * n = size_of(t) /\ d \in Nat /\ 4 * d = dst /\ s \in Nat /\ 4 * s = src
  BY <1>1
<1>3. m2 = [i \in DOMAIN m |-> IF (i - d) \in 0 .. (n - 1) THEN LoadWord(m, s + (i - d)) ELSE m[i]]
  <2>1. num_in_words(size_of(t)) = n
    BY <1>2 DEF num_in_words, larger, bytes_to_words, WordBytes
  <2> QED
    BY <2>1 DEF copy_bytes, bytes_to_words, WordBytes
<1>4. /\ DOMAIN to = DOMAIN W /\ DOMAIN from = DOMAIN W
      /\ \A path \in DOMAIN W : /\ to[path] \in DOMAIN m /\ 4 * to[path] = dst + W[path]
                                /\ from[path] \in DOMAIN m /\ 4 * from[path] = src + W[path]
  BY Elements
<1> HIDE DEF W, to, from, n, d, s
<1>5. DOMAIN m2 = DOMAIN m /\ IsMemory(m2)
  BY <1>3 DEF IsMemory
<1>6. ASSUME NEW path \in DOMAIN W PROVE m2[to[path]] = m[from[path]]
  <2> DEFINE i == to[path]
             j == from[path]
             w == W[path]
  <2>1. i \in Nat /\ j \in Nat /\ w \in Nat /\ w + 4 <= size_of(t) /\ 4 * i = dst + w /\ 4 * j = src + w
        /\ i \in DOMAIN m /\ j \in DOMAIN m
    BY <1>1, <1>4, MemoryWords
  <2> HIDE DEF i, j, w
  <2>2. i - d \in 0 .. (n - 1) /\ j = s + (i - d)
    BY <1>1, <1>2, <2>1
  <2>3. m2[i] = LoadWord(m, j)
    BY <1>3, <2>1, <2>2
  <2>4. m2[i] = m[j]
    BY <2>1, <2>3 DEF LoadWord
  <2> QED
    BY <2>4 DEF i, j
<1>7. gen_deserialisation(t, m2, dst) = gen_deserialisation(t, m, src)
  <2>1. gen_deserialisation(t, m2, dst) = [path \in DOMAIN W |-> m2[to[path]]]
    BY <1>5, Loads DEF W, to
  <2>2. gen_deserialisation(t, m, src) = [path \in DOMAIN W |-> m[from[path]]]
    BY Loads DEF W, from
  <2> QED
    BY <1>6, <2>1, <2>2
<1>8. ASSUME NEW i \in DOMAIN m, 4 * i + 4 <= dst \/ dst + size_of(t) <= 4 * i PROVE m2[i] = m[i]
  <2>1. i \in Nat
    BY MemoryWords
  <2>2. ~ (i - d \in 0 .. (n - 1))
    BY <1>2, <1>8, <2>1
  <2> QED
    BY <1>3, <2>2
<1> QED
  BY <1>5, <1>7, <1>8 DEF Outside

LEMMA Fills ==
  ASSUME NEW t, NEW dst, Fits(t, dst), size_of(t) % 4 = 0, size_of(t) > 0,
         NEW m, IsMemory(m), NEW word, NEW m2, m2 = fill_bytes(m, dst, U32, <<word>>, size_of(t))
  PROVE  /\ IsMemory(m2)
         /\ gen_deserialisation(t, m2, dst) = Filled(t, word)
         /\ Outside(m, m2, dst, dst + size_of(t))
<1> DEFINE W == words_of(t)
           to == elements_of(t, dst)
           n == size_of(t) \div 4
           d == dst \div 4
<1>1. /\ dst \in Nat /\ dst % 4 = 0 /\ size_of(t) \in Nat
      /\ \A path \in DOMAIN W : W[path] \in Nat /\ W[path] % 4 = 0 /\ W[path] + 4 <= size_of(t)
  BY TypeFacts DEF Fits
<1>2. n \in Nat /\ n > 0 /\ 4 * n = size_of(t) /\ d \in Nat /\ 4 * d = dst
  BY <1>1
<1>3. \A k \in 0 .. (n - 1) : bytes_to_words(lower_ptr_offset(U32, dst, k)) = d + k
  <2> SUFFICES ASSUME NEW k \in 0 .. (n - 1) PROVE (dst + k * 4) \div 4 = d + k
    BY WordTypes DEF lower_ptr_offset, bytes_to_words, WordBytes
  <2> DEFINE x == d + k
  <2>1. x \in Nat /\ dst + k * 4 = 4 * x
    BY <1>2
  <2> HIDE DEF x
  <2>2. (dst + k * 4) \div 4 = x
    BY <2>1
  <2> QED
    BY <2>2 DEF x
<1>4. m2 = [i \in DOMAIN m |-> IF \E k \in 0 .. (n - 1) : i = d + k THEN word ELSE m[i]]
  <2>1. num_in_words(size_of(t)) = n
    BY <1>2 DEF num_in_words, larger, bytes_to_words, WordBytes
  <2>2. <<word>>[1] = word
    OBVIOUS
  <2>3. m2 = [i \in DOMAIN m |-> IF \E k \in 0 .. (n - 1) : i = bytes_to_words(lower_ptr_offset(U32, dst, k))
                                 THEN word ELSE m[i]]
    BY <2>1, <2>2 DEF fill_bytes
  <2> HIDE DEF n, d
  <2> QED
    BY <1>3, <2>3
<1>5. /\ DOMAIN to = DOMAIN W
      /\ \A path \in DOMAIN W : to[path] \in DOMAIN m /\ 4 * to[path] = dst + W[path]
  BY Elements
<1> HIDE DEF W, to, n, d
<1>6. DOMAIN m2 = DOMAIN m /\ IsMemory(m2)
  BY <1>4 DEF IsMemory
<1>7. ASSUME NEW path \in DOMAIN W PROVE m2[to[path]] = word
  <2> DEFINE i == to[path]
             w == W[path]
  <2>1. i \in Nat /\ w \in Nat /\ w + 4 <= size_of(t) /\ 4 * i = dst + w /\ i \in DOMAIN m
    BY <1>1, <1>5, MemoryWords
  <2> HIDE DEF i, w
  <2>2. i - d \in 0 .. (n - 1) /\ i = d + (i - d)
    BY <1>1, <1>2, <2>1
  <2>3. m2[i] = word
    BY <1>4, <2>1, <2>2
  <2> QED
    BY <2>3 DEF i
<1>8. gen_deserialisation(t, m2, dst) = Filled(t, word)
  <2>1. gen_deserialisation(t, m2, dst) = [path \in DOMAIN W |-> m2[to[path]]]
    BY <1>6, Loads DEF W, to
  <2> QED
    BY <1>7, <2>1 DEF Filled, W
<1>9. ASSUME NEW i \in DOMAIN m, 4 * i + 4 <= dst \/ dst + size_of(t) <= 4 * i PROVE m2[i] = m[i]
  <2>1. i \in Nat
    BY MemoryWords
  <2>2. ~ \E k \in 0 .. (n - 1) : i = d + k
    BY <1>2, <1>9, <2>1
  <2> QED
    BY <1>4, <2>2
<1> QED
  BY <1>6, <1>8, <1>9 DEF Outside

-----------------------------------------------------------------------------
(* The stack (lower_stack.c, ir/stack.c).                                                   *)
LEMMA StackElement ==
  \A sp \in Nat : stack_element(sp) = stack + sp
<1> SUFFICES ASSUME NEW sp \in Nat PROVE stack_element(sp) = stack + sp
  OBVIOUS
<1> DEFINE A == ArrType(U8, StackBytes)
<1>1. A.tag = "Arr" /\ A.element = U8
  BY DEF ArrType
<1>2. stack_element(sp) = stack + ((sp + 1) - 1) * size_of(U8)
  BY <1>1 DEF stack_element, lower_ptr_index
<1>3. size_of(U8) = 1 /\ stack \in Nat
  BY WordTypes, GlobalsFacts
<1> QED
  BY <1>2, <1>3

LEMMA StackFits ==
  ASSUME NEW t \in ProgramTypes, NEW a \in Nat, a % 4 = 0, a + size_of(t) <= StackBytes
  PROVE  Fits(t, stack + a)
<1>1. size_of(t) \in Nat
  BY TypeFacts
<1> DEFINE s == size_of(t)
           z == size_of(Globals)
           y == offset_of(Globals, 2)
           x == offset_of(Globals, 3)
<1>2. /\ stack \in Nat /\ stack % 4 = 0 /\ StackBytes \in Nat /\ y \in Nat /\ x \in Nat /\ z \in Nat /\ s \in Nat
      /\ stack + StackBytes <= y /\ y + 4 <= x /\ x + 8 <= z /\ a + s <= StackBytes
  BY <1>1, GlobalsFacts
<1> HIDE DEF s, z, y, x
<1>3. stack + a \in Nat /\ (stack + a) % 4 = 0 /\ stack + a + s <= z
  BY <1>2
<1> QED
  BY <1>3 DEF Fits, MemBytes, s, z

(* What holds of values that lie in memory.                                                 *)
Sound(v) == v.type \in WholeTypes /\ IsValue(v.type, v.is)

LEMMA SoundSize ==
  ASSUME NEW v, Sound(v)
  PROVE  v.type \in ProgramTypes /\ size_of(v.type) \in Nat /\ size_of(v.type) % 4 = 0
BY TypeFacts DEF Sound, WholeTypes, WordBytes

(* From lo on, the values of vs lie on the stack between base and top, the last one at the  *)
(* bottom.                                                                                  *)
StackedFrom(m, base, top, vs, lo) ==
  \E at : /\ at[lo] = top /\ at[Len(vs)] = base
          /\ \A i \in lo .. Len(vs) : at[i] \in Nat /\ at[i] % 4 = 0 /\ base <= at[i] /\ at[i] <= top
          /\ \A i \in (lo + 1) .. Len(vs) :
               /\ at[i - 1] = at[i] + size_of(vs[i].type)
               /\ gen_deserialisation(vs[i].type, m, stack + at[i]) = vs[i].is

Stacked(m, base, top, vs) == StackedFrom(m, base, top, vs, 0)

LEMMA StackedStays ==
  ASSUME NEW m, IsMemory(m), NEW m2, IsMemory(m2), NEW lo \in Nat, NEW hi \in Nat, Outside(m, m2, lo, hi),
         NEW vs, Len(vs) \in Nat, \A i \in 1 .. Len(vs) : Sound(vs[i]),
         NEW low \in 0 .. Len(vs),
         NEW base \in Nat, NEW top \in Nat, top <= StackBytes, StackedFrom(m, base, top, vs, low),
         stack + top <= lo \/ hi <= stack + base
  PROVE  StackedFrom(m2, base, top, vs, low)
<1>1. PICK at : /\ at[low] = top /\ at[Len(vs)] = base
                /\ \A i \in low .. Len(vs) : at[i] \in Nat /\ at[i] % 4 = 0 /\ base <= at[i] /\ at[i] <= top
                /\ \A i \in (low + 1) .. Len(vs) :
                     /\ at[i - 1] = at[i] + size_of(vs[i].type)
                     /\ gen_deserialisation(vs[i].type, m, stack + at[i]) = vs[i].is
  BY DEF StackedFrom
<1>2. ASSUME NEW i \in (low + 1) .. Len(vs)
      PROVE  gen_deserialisation(vs[i].type, m2, stack + at[i]) = vs[i].is
  <2> DEFINE t == vs[i].type
             a == at[i]
             b == at[i - 1]
  <2>1. t \in ProgramTypes /\ size_of(t) \in Nat
    BY SoundSize
  <2>2. a \in Nat /\ a % 4 = 0 /\ base <= a /\ b = a + size_of(t) /\ b <= top /\ b \in Nat
    BY <1>1
  <2>3. gen_deserialisation(t, m, stack + a) = vs[i].is
    BY <1>1
  <2>4. stack \in Nat /\ StackBytes \in Nat
    BY GlobalsFacts
  <2> HIDE DEF t, a, b
  <2>5. a + size_of(t) <= StackBytes
    BY <2>1, <2>2, <2>4
  <2>6. Fits(t, stack + a)
    BY <2>1, <2>2, <2>5, StackFits
  <2>7. (stack + a) + size_of(t) <= lo \/ hi <= stack + a
    <3> DEFINE s == size_of(t)
               x == stack
    <3>1. s \in Nat /\ x \in Nat /\ a \in Nat /\ a + s <= top /\ base <= a
          /\ (x + top <= lo \/ hi <= x + base)
      BY <2>1, <2>2, <2>4
    <3> HIDE DEF s, x
    <3>2. (x + a) + s <= lo \/ hi <= x + a
      <4>1. (x + a) + s <= x + top /\ x + base <= x + a
        BY <3>1
      <4> QED
        BY <3>1, <4>1
    <3> QED
      BY <3>2 DEF s, x
  <2>8. gen_deserialisation(t, m2, stack + a) = gen_deserialisation(t, m, stack + a)
    BY <2>6, <2>7, LoadIsLocal
  <2> QED
    BY <2>3, <2>8 DEF t, a
<1> QED
  BY <1>1, <1>2 DEF StackedFrom

LEMMA OutsideTrans ==
  ASSUME NEW m, IsMemory(m), NEW m1, IsMemory(m1), NEW m2, IsMemory(m2),
         NEW a \in Nat, NEW b \in Nat, NEW c \in Nat, a <= b, b <= c,
         Outside(m, m1, a, b), Outside(m1, m2, b, c)
  PROVE  Outside(m, m2, a, c)
<1> SUFFICES ASSUME NEW i \in DOMAIN m, 4 * i + 4 <= a \/ c <= 4 * i PROVE m2[i] = m[i]
  BY DEF Outside
<1>1. i \in Nat /\ i \in DOMAIN m1
  BY MemoryWords
<1>2. 4 * i + 4 <= b \/ c <= 4 * i
  BY <1>1
<1>3. 4 * i + 4 <= a \/ b <= 4 * i
  BY <1>1
<1> QED
  BY <1>1, <1>2, <1>3 DEF Outside

LEMMA PushOne ==
  ASSUME NEW m, IsMemory(m), NEW sp \in Nat, sp % 4 = 0, NEW popped, NEW v, Sound(v),
         sp + size_of(v.type) <= StackBytes,
         NEW r, r = push([memory |-> m, sp |-> sp, popped |-> popped], v)
  PROVE  /\ IsMemory(r.memory)
         /\ Outside(m, r.memory, stack + sp, stack + sp + size_of(v.type))
         /\ gen_deserialisation(v.type, r.memory, stack + sp) = v.is
<1>1. r.memory = gen_serialisation(v.type, m, stack + sp, v.is)
  BY StackElement DEF push
<1>2. Fits(v.type, stack + sp)
  BY SoundSize, StackFits
<1>3. IsValue(v.type, v.is)
  BY DEF Sound
<1> DEFINE m2 == r.memory
<1> HIDE DEF m2
<1>4. m2 = gen_serialisation(v.type, m, stack + sp, v.is)
  BY <1>1 DEF m2
<1>5. IsMemory(m2) /\ gen_deserialisation(v.type, m2, stack + sp) = v.is
      /\ Outside(m, m2, stack + sp, stack + sp + size_of(v.type))
  BY <1>2, <1>3, <1>4, Stores
<1> QED
  BY <1>5 DEF m2

PushStep(lane, vs, g, n) == IF n = 0 THEN lane ELSE push(g[n - 1], vs[Len(vs) + 1 - n])

LEMMA PushingExists ==
  ASSUME NEW lane, NEW vs, Len(vs) \in Nat
  PROVE  \E g : /\ \A n \in 0 .. Len(vs) : g[n] = PushStep(lane, vs, g, n)
                /\ push_values(lane, vs) = g[Len(vs)]
<1> DEFINE N == Len(vs)
           Made(g, m) == \A i \in 0 .. m : g[i] = PushStep(lane, vs, g, i)
           G == {m \in 0 .. N : \E g : Made(g, m)}
<1>1. 0 \in G
  <2>1. Made([i \in {0} |-> lane], 0)
    BY DEF PushStep
  <2> QED
    BY <2>1
<1>2. ASSUME NEW m \in 1 .. N, m - 1 \in G PROVE m \in G
  <2>1. PICK g : Made(g, m - 1)
    BY <1>2
  <2> DEFINE h == [i \in 0 .. m |-> IF i < m THEN g[i] ELSE PushStep(lane, vs, g, m)]
  <2>2. ASSUME NEW i \in 0 .. m PROVE PushStep(lane, vs, h, i) = PushStep(lane, vs, g, i)
    <3>1. i = 0 \/ h[i - 1] = g[i - 1]
      OBVIOUS
    <3> HIDE DEF h
    <3> QED
      BY <3>1 DEF PushStep
  <2>3. \A i \in 0 .. m : h[i] = IF i < m THEN g[i] ELSE PushStep(lane, vs, g, m)
    OBVIOUS
  <2> HIDE DEF h
  <2>4. Made(h, m)
    <3> SUFFICES ASSUME NEW i \in 0 .. m PROVE h[i] = PushStep(lane, vs, g, i)
      BY <2>2
    <3> QED
      BY <2>1, <2>3
  <2> QED
    BY <2>4
<1>3. G \in SUBSET (0 .. N) /\ N \in Nat
  OBVIOUS
<1>4. PICK g : Made(g, N)
  <2> HIDE DEF G, N
  <2>1. N \in G
    BY <1>1, <1>2, <1>3, UpTo
  <2> QED
    BY <2>1 DEF G
<1> DEFINE h == [i \in 0 .. N |-> g[i]]
<1>5. h = [i \in 0 .. N |-> PushStep(lane, vs, h, i)]
  <2>1. ASSUME NEW i \in 0 .. N PROVE h[i] = PushStep(lane, vs, h, i)
    <3>1. h[i] = PushStep(lane, vs, g, i) /\ (i = 0 \/ h[i - 1] = g[i - 1])
      BY <1>4
    <3> HIDE DEF h
    <3> QED
      BY <3>1 DEF PushStep
  <2>2. h = [i \in 0 .. N |-> h[i]]
    OBVIOUS
  <2> HIDE DEF h
  <2> QED
    BY <2>1, <2>2
<1> DEFINE r == CHOOSE f : f = [i \in 0 .. N |-> PushStep(lane, vs, f, i)]
<1>6. r = [i \in 0 .. N |-> PushStep(lane, vs, r, i)]
  <2> HIDE DEF h
  <2> QED
    BY <1>5
<1>7. push_values(lane, vs) = r[N]
  BY DEF push_values, PushStep
<1> HIDE DEF r
<1> QED
  BY <1>6, <1>7

PopStep(lane, vs, g, n) == IF n = 0 THEN lane ELSE pop(g[n - 1], vs[n])

LEMMA PoppingExists ==
  ASSUME NEW lane, NEW vs, Len(vs) \in Nat
  PROVE  \E g : /\ \A n \in 0 .. Len(vs) : g[n] = PopStep(lane, vs, g, n)
                /\ pop_values(lane, vs) = g[Len(vs)]
<1> DEFINE N == Len(vs)
           Made(g, m) == \A i \in 0 .. m : g[i] = PopStep(lane, vs, g, i)
           G == {m \in 0 .. N : \E g : Made(g, m)}
<1>1. 0 \in G
  <2>1. Made([i \in {0} |-> lane], 0)
    BY DEF PopStep
  <2> QED
    BY <2>1
<1>2. ASSUME NEW m \in 1 .. N, m - 1 \in G PROVE m \in G
  <2>1. PICK g : Made(g, m - 1)
    BY <1>2
  <2> DEFINE h == [i \in 0 .. m |-> IF i < m THEN g[i] ELSE PopStep(lane, vs, g, m)]
  <2>2. ASSUME NEW i \in 0 .. m PROVE PopStep(lane, vs, h, i) = PopStep(lane, vs, g, i)
    <3>1. i = 0 \/ h[i - 1] = g[i - 1]
      OBVIOUS
    <3> HIDE DEF h
    <3> QED
      BY <3>1 DEF PopStep
  <2>3. \A i \in 0 .. m : h[i] = IF i < m THEN g[i] ELSE PopStep(lane, vs, g, m)
    OBVIOUS
  <2> HIDE DEF h
  <2>4. Made(h, m)
    <3> SUFFICES ASSUME NEW i \in 0 .. m PROVE h[i] = PopStep(lane, vs, g, i)
      BY <2>2
    <3> QED
      BY <2>1, <2>3
  <2> QED
    BY <2>4
<1>3. G \in SUBSET (0 .. N) /\ N \in Nat
  OBVIOUS
<1>4. PICK g : Made(g, N)
  <2> HIDE DEF G, N
  <2>1. N \in G
    BY <1>1, <1>2, <1>3, UpTo
  <2> QED
    BY <2>1 DEF G
<1> DEFINE h == [i \in 0 .. N |-> g[i]]
<1>5. h = [i \in 0 .. N |-> PopStep(lane, vs, h, i)]
  <2>1. ASSUME NEW i \in 0 .. N PROVE h[i] = PopStep(lane, vs, h, i)
    <3>1. h[i] = PopStep(lane, vs, g, i) /\ (i = 0 \/ h[i - 1] = g[i - 1])
      BY <1>4
    <3> HIDE DEF h
    <3> QED
      BY <3>1 DEF PopStep
  <2>2. h = [i \in 0 .. N |-> h[i]]
    OBVIOUS
  <2> HIDE DEF h
  <2> QED
    BY <2>1, <2>2
<1> DEFINE r == CHOOSE f : f = [i \in 0 .. N |-> PopStep(lane, vs, f, i)]
<1>6. r = [i \in 0 .. N |-> PopStep(lane, vs, r, i)]
  <2> HIDE DEF h
  <2> QED
    BY <1>5
<1>7. pop_values(lane, vs) = r[N]
  BY DEF pop_values, PopStep
<1> HIDE DEF r
<1> QED
  BY <1>6, <1>7

LEMMA AddWords ==
  ASSUME NEW a \in Nat, NEW b \in Nat, a % 4 = 0, b % 4 = 0
  PROVE  a + b \in Nat /\ (a + b) % 4 = 0 /\ a <= a + b
OBVIOUS

LEMMA PushRecord ==
  ASSUME NEW m, NEW sp, NEW popped, NEW v
  PROVE  push([memory |-> m, sp |-> sp, popped |-> popped], v) =
           [memory |-> gen_serialisation(v.type, m, stack_element(sp), v.is),
            sp |-> sp + size_of(v.type), popped |-> popped]
<1> DEFINE lane == [memory |-> m, sp |-> sp, popped |-> popped]
           M == gen_serialisation(v.type, m, stack_element(sp), v.is)
           e == sp + size_of(v.type)
<1>1. push(lane, v) = [lane EXCEPT !.memory = M, !.sp = e]
  BY DEF push
<1> HIDE DEF M, e
<1> DEFINE lane1 == [memory |-> M, sp |-> sp, popped |-> popped]
<1>2. [lane EXCEPT !.memory = M] = lane1
  OBVIOUS
<1>3. [lane EXCEPT !.memory = M, !.sp = e] = [[lane EXCEPT !.memory = M] EXCEPT !.sp = e]
  OBVIOUS
<1>4. [lane1 EXCEPT !.sp = e] = [memory |-> M, sp |-> e, popped |-> popped]
  OBVIOUS
<1> HIDE DEF lane, lane1
<1> QED
  BY <1>1, <1>2, <1>3, <1>4 DEF M, e, lane

(* What is pushed lies on top of the stack, if there is room for it, and nothing else       *)
(* changes.                                                                                 *)
LEMMA PushValues ==
  ASSUME NEW m, NEW sp \in Nat, sp % 4 = 0, NEW popped,
         NEW vs, Len(vs) \in Nat, \A i \in 1 .. Len(vs) : Sound(vs[i]),
         NEW r, r = push_values([memory |-> m, sp |-> sp, popped |-> popped], vs)
  PROVE  /\ r = [memory |-> r.memory, sp |-> r.sp, popped |-> popped]
         /\ r.sp \in Nat /\ r.sp % 4 = 0 /\ sp <= r.sp
         /\ \A i \in 1 .. Len(vs) : sp + size_of(vs[i].type) <= r.sp
         /\ IsMemory(m) /\ r.sp <= StackBytes =>
              /\ IsMemory(r.memory)
              /\ Outside(m, r.memory, stack + sp, stack + r.sp)
              /\ Stacked(r.memory, sp, r.sp, vs)
<1> DEFINE N == Len(vs)
           lane == [memory |-> m, sp |-> sp, popped |-> popped]
<1>1. PICK g : (\A n \in 0 .. N : g[n] = PushStep(lane, vs, g, n)) /\ push_values(lane, vs) = g[N]
  BY PushingExists
<1>2. g[0] = lane
  <2>1. g[0] = PushStep(lane, vs, g, 0)
    BY <1>1
  <2> QED
    BY <2>1 DEF PushStep
<1>3. ASSUME NEW n \in 1 .. N PROVE g[n] = push(g[n - 1], vs[N + 1 - n])
  <2>1. g[n] = PushStep(lane, vs, g, n)
    BY <1>1
  <2> QED
    BY <2>1 DEF PushStep
<1> DEFINE T(n) == /\ g[n] = [memory |-> g[n].memory, sp |-> g[n].sp, popped |-> popped]
                   /\ g[n].sp \in Nat /\ g[n].sp % 4 = 0 /\ sp <= g[n].sp
                   /\ \A i \in (N + 1 - n) .. N : sp + size_of(vs[i].type) <= g[n].sp
           P(n) == IsMemory(m) /\ g[n].sp <= StackBytes =>
                     /\ IsMemory(g[n].memory)
                     /\ Outside(m, g[n].memory, stack + sp, stack + g[n].sp)
                     /\ StackedFrom(g[n].memory, sp, g[n].sp, vs, N - n)
           G == {n \in 0 .. N : T(n) /\ P(n)}
<1>4. 0 \in G
  <2>1. T(0)
    BY <1>2
  <2>2. P(0)
    <3>1. StackedFrom(m, sp, sp, vs, N)
      <4> DEFINE at == [i \in {N} |-> sp]
      <4>1. at[N] = sp /\ (\A i \in N .. N : at[i] \in Nat /\ at[i] % 4 = 0 /\ sp <= at[i] /\ at[i] <= sp)
        OBVIOUS
      <4>2. (N + 1) .. N = {}
        OBVIOUS
      <4> HIDE DEF at
      <4> QED
        BY <4>1, <4>2 DEF StackedFrom
    <3>2. g[0].memory = m /\ g[0].sp = sp
      BY <1>2
    <3> QED
      BY <3>1, <3>2 DEF Outside
  <2> QED
    BY <2>1, <2>2
<1>5. ASSUME NEW n \in 1 .. N, n - 1 \in G PROVE n \in G
  <2> DEFINE b == g[n - 1]
             v == vs[N + 1 - n]
             s == b.sp
  <2>1. T(n - 1) /\ P(n - 1)
    BY <1>5
  <2>2. Sound(v) /\ N + 1 - n \in 1 .. N
    BY <1>5
  <2>3. v.type \in ProgramTypes /\ size_of(v.type) \in Nat /\ size_of(v.type) % 4 = 0
    BY <2>2, SoundSize
  <2>4. b = [memory |-> b.memory, sp |-> s, popped |-> popped] /\ s \in Nat /\ s % 4 = 0 /\ sp <= s
    BY <2>1
  <2>5. g[n] = push(b, v)
    BY <1>3
  <2>6. g[n] = [memory |-> g[n].memory, sp |-> s + size_of(v.type), popped |-> popped]
    <3> HIDE DEF b, v, s
    <3>1. push([memory |-> b.memory, sp |-> s, popped |-> popped], v) =
            [memory |-> gen_serialisation(v.type, b.memory, stack_element(s), v.is),
             sp |-> s + size_of(v.type), popped |-> popped]
      BY PushRecord
    <3> QED
      BY <2>4, <2>5, <3>1
  <2>7. T(n)
    <3>1. g[n].sp = s + size_of(v.type)
      BY <2>6
    <3>2. g[n].sp \in Nat /\ g[n].sp % 4 = 0 /\ sp <= g[n].sp
      <4> DEFINE x == size_of(v.type)
      <4>1. x \in Nat /\ x % 4 = 0 /\ g[n].sp = s + x
        BY <2>3, <3>1
      <4> HIDE DEF b, v, s, x
      <4>2. s + x \in Nat /\ (s + x) % 4 = 0 /\ s <= s + x
        BY <2>4, <4>1, AddWords
      <4> QED
        BY <2>4, <4>1, <4>2
    <3>3. ASSUME NEW i \in (N + 1 - n) .. N PROVE sp + size_of(vs[i].type) <= g[n].sp
      <4>1. CASE i = N + 1 - n
        <5>1. vs[i] = v
          BY <4>1
        <5> HIDE DEF b, v, s
        <5> QED
          BY <2>3, <2>4, <3>1, <5>1
      <4>2. CASE i \in (N + 1 - (n - 1)) .. N
        <5>1. sp + size_of(vs[i].type) <= s
          BY <2>1, <4>2
        <5>2. i \in 1 .. N
          BY <4>2
        <5>3. size_of(vs[i].type) \in Nat
          BY <5>2, SoundSize
        <5> HIDE DEF b, v, s
        <5> QED
          BY <2>3, <2>4, <3>1, <5>1, <5>3
      <4> QED
        BY <4>1, <4>2
    <3> QED
      BY <2>6, <3>2, <3>3
  <2>8. P(n)
    <3> SUFFICES ASSUME IsMemory(m), g[n].sp <= StackBytes
                 PROVE  /\ IsMemory(g[n].memory)
                        /\ Outside(m, g[n].memory, stack + sp, stack + g[n].sp)
                        /\ StackedFrom(g[n].memory, sp, g[n].sp, vs, N - n)
      OBVIOUS
    <3> DEFINE m1 == b.memory
               m2 == g[n].memory
               e == g[n].sp
               lo == N - (n - 1)
    <3>1. e = s + size_of(v.type) /\ e <= StackBytes /\ s <= e /\ e \in Nat /\ e % 4 = 0
      <4>1. e = s + size_of(v.type)
        BY <2>6
      <4> HIDE DEF b, v, s, e
      <4>2. s <= e /\ e \in Nat /\ e % 4 = 0
        BY <2>3, <2>4, <4>1, AddWords
      <4> QED
        BY <4>1, <4>2 DEF e
    <3>2. StackBytes \in Nat /\ stack \in Nat
      BY GlobalsFacts
    <3>3. s <= StackBytes
      <4>1. s \in Nat
        BY <2>4
      <4>2. e \in Nat /\ e <= StackBytes /\ s <= e /\ StackBytes \in Nat
        BY <3>1, <3>2
      <4> HIDE DEF s, e
      <4> QED
        BY <4>1, <4>2
    <3>4. IsMemory(m1) /\ Outside(m, m1, stack + sp, stack + s) /\ StackedFrom(m1, sp, s, vs, lo)
      BY <2>1, <3>3
    <3>5. /\ IsMemory(m2)
          /\ Outside(m1, m2, stack + s, stack + e)
          /\ gen_deserialisation(v.type, m2, stack + s) = v.is
      <4>1. stack + s + size_of(v.type) = stack + e
        <5> HIDE DEF b, v, s, e
        <5> QED
          BY <2>3, <2>4, <3>1, <3>2
      <4>2. g[n] = push([memory |-> m1, sp |-> s, popped |-> popped], v)
        BY <2>4, <2>5
      <4> DEFINE r0 == g[n]
      <4> HIDE DEF b, v, s, e, m1, r0
      <4>3. r0 = push([memory |-> m1, sp |-> s, popped |-> popped], v)
        BY <4>2 DEF r0
      <4>4. s + size_of(v.type) <= StackBytes
        BY <3>1
      <4>5. /\ IsMemory(r0.memory)
            /\ Outside(m1, r0.memory, stack + s, stack + s + size_of(v.type))
            /\ gen_deserialisation(v.type, r0.memory, stack + s) = v.is
        BY <2>2, <2>4, <3>4, <4>3, <4>4, PushOne
      <4> QED
        BY <4>1, <4>5 DEF r0
    <3> HIDE DEF b, v, s, m1, m2, e
    <3>6. stack + sp \in Nat /\ stack + s \in Nat /\ stack + e \in Nat
          /\ stack + sp <= stack + s /\ stack + s <= stack + e
      BY <2>4, <3>1, <3>2
    <3>7. Outside(m, m2, stack + sp, stack + e)
      BY <3>4, <3>5, <3>6, OutsideTrans
    <3>8. lo \in 0 .. N /\ lo = N - n + 1 /\ N - n \in 0 .. N
      OBVIOUS
    <3> HIDE DEF lo
    <3>9. StackedFrom(m2, sp, s, vs, lo)
      <4> DEFINE x == stack + s
                 y == stack + e
      <4>1. x \in Nat /\ y \in Nat /\ x <= x
        BY <3>6
      <4>2. IsMemory(m1) /\ IsMemory(m2) /\ Outside(m1, m2, x, y) /\ s \in Nat
        BY <2>4, <3>4, <3>5
      <4>3. stack + s <= x
        BY <4>1
      <4> HIDE DEF x, y
      <4> QED
        BY <3>3, <3>4, <3>8, <4>1, <4>2, <4>3, StackedStays
    <3>10. StackedFrom(m2, sp, e, vs, N - n)
      <4>1. PICK at : /\ at[lo] = s /\ at[N] = sp
                      /\ \A i \in lo .. N : at[i] \in Nat /\ at[i] % 4 = 0 /\ sp <= at[i] /\ at[i] <= s
                      /\ \A i \in (lo + 1) .. N :
                           /\ at[i - 1] = at[i] + size_of(vs[i].type)
                           /\ gen_deserialisation(vs[i].type, m2, stack + at[i]) = vs[i].is
        BY <3>9 DEF StackedFrom
      <4> DEFINE k == N - n
                 at2 == [i \in k .. N |-> IF i = k THEN e ELSE at[i]]
      <4>2. k \in Int /\ lo = k + 1 /\ k < N /\ v = vs[lo]
        BY <3>8 DEF v
      <4> HIDE DEF k
      <4>3. at2[k] = e /\ (\A i \in lo .. N : at2[i] = at[i])
        BY <4>2
      <4>4. ASSUME NEW i \in k .. N PROVE at2[i] \in Nat /\ at2[i] % 4 = 0 /\ sp <= at2[i] /\ at2[i] <= e
        <5>1. CASE i = k
          BY <2>4, <3>1, <4>3, <5>1
        <5>2. CASE i \in lo .. N
          <6>1. at2[i] = at[i] /\ at[i] \in Nat /\ at[i] % 4 = 0 /\ sp <= at[i] /\ at[i] <= s
            BY <4>1, <4>3, <5>2
          <6> HIDE DEF at2
          <6> QED
            BY <2>4, <3>1, <6>1
        <5> QED
          BY <4>2, <5>1, <5>2
      <4>5. ASSUME NEW i \in (k + 1) .. N
            PROVE  /\ at2[i - 1] = at2[i] + size_of(vs[i].type)
                   /\ gen_deserialisation(vs[i].type, m2, stack + at2[i]) = vs[i].is
        <5>1. CASE i = lo
          <6>1. at2[i - 1] = e /\ at2[i] = s /\ vs[i] = v
            BY <4>1, <4>2, <4>3, <5>1
          <6> QED
            BY <3>1, <3>5, <6>1
        <5>2. CASE i \in (lo + 1) .. N
          <6>1. at2[i - 1] = at[i - 1] /\ at2[i] = at[i]
            BY <4>2, <4>3, <5>2
          <6> QED
            BY <4>1, <5>2, <6>1
        <5> QED
          BY <4>2, <5>1, <5>2
      <4>6. at2[N] = sp
        BY <4>1, <4>2, <4>3
      <4> HIDE DEF at2
      <4> QED
        BY <4>3, <4>4, <4>5, <4>6 DEF StackedFrom, k
    <3> QED
      BY <3>5, <3>7, <3>10 DEF m2, e
  <2> QED
    BY <2>7, <2>8
<1>6. G \in SUBSET (0 .. N) /\ N \in Nat
  OBVIOUS
<1>7. N \in G
  <2> HIDE DEF G, N
  <2> QED
    BY <1>4, <1>5, <1>6, UpTo
<1>8. T(N) /\ P(N)
  BY <1>7
<1>9. r = g[N]
  BY <1>1
<1>10. N + 1 - N = 1 /\ N - N = 0
  OBVIOUS
<1> HIDE DEF N
<1> QED
  BY <1>8, <1>9, <1>10 DEF Stacked, N

(* A value is the record of what it carries.                                                *)
Whole(v) == v = [type |-> v.type, role |-> v.role, is |-> v.is, meant |-> v.meant, to |-> v.to]

LEMMA PopRecord ==
  ASSUME NEW m, NEW sp, NEW popped, NEW v
  PROVE  pop([memory |-> m, sp |-> sp, popped |-> popped], v) =
           [memory |-> m, sp |-> sp - size_of(v.type),
            popped |-> Append(popped, [v EXCEPT !.is =
                         gen_deserialisation(v.type, m, stack_element(sp - size_of(v.type)))])]
<1> DEFINE lane == [memory |-> m, sp |-> sp, popped |-> popped]
           a == sp - size_of(v.type)
           w == [v EXCEPT !.is = gen_deserialisation(v.type, m, stack_element(a))]
<1>1. pop(lane, v) = [lane EXCEPT !.sp = a, !.popped = Append(popped, w)]
  BY DEF pop
<1> DEFINE p == Append(popped, w)
           lane1 == [memory |-> m, sp |-> a, popped |-> popped]
<1>2. pop(lane, v) = [lane EXCEPT !.sp = a, !.popped = p]
  BY <1>1
<1> HIDE DEF w, p, a
<1>3. [lane EXCEPT !.sp = a] = lane1
  OBVIOUS
<1>4. [lane EXCEPT !.sp = a, !.popped = p] = [[lane EXCEPT !.sp = a] EXCEPT !.popped = p]
  OBVIOUS
<1>5. [lane1 EXCEPT !.popped = p] = [memory |-> m, sp |-> a, popped |-> p]
  OBVIOUS
<1> HIDE DEF lane, lane1
<1>6. pop(lane, v) = [memory |-> m, sp |-> a, popped |-> p]
  BY <1>2, <1>3, <1>4, <1>5
<1> QED
  BY <1>6 DEF lane, p, w, a

(* What lies on the stack is popped as it was pushed, and nothing of it is left.            *)
LEMMA PopValues ==
  ASSUME NEW m, NEW S, NEW vs \in Seq(S), \A i \in 1 .. Len(vs) : Whole(vs[i]) /\ Sound(vs[i]),
         NEW base \in Nat, NEW top \in Nat, Stacked(m, base, top, vs)
  PROVE  pop_values([memory |-> m, sp |-> top, popped |-> <<>>], vs) =
           [memory |-> m, sp |-> base, popped |-> vs]
<1> DEFINE N == Len(vs)
           lane == [memory |-> m, sp |-> top, popped |-> <<>>]
<1>0. N \in Nat
  OBVIOUS
<1>1. PICK g : (\A n \in 0 .. N : g[n] = PopStep(lane, vs, g, n)) /\ pop_values(lane, vs) = g[N]
  BY <1>0, PoppingExists
<1>2. g[0] = lane
  <2>1. g[0] = PopStep(lane, vs, g, 0)
    BY <1>1
  <2> QED
    BY <2>1 DEF PopStep
<1>3. ASSUME NEW n \in 1 .. N PROVE g[n] = pop(g[n - 1], vs[n])
  <2>1. g[n] = PopStep(lane, vs, g, n)
    BY <1>1
  <2> QED
    BY <2>1 DEF PopStep
<1>4. PICK at : /\ at[0] = top /\ at[N] = base
                /\ \A i \in 0 .. N : at[i] \in Nat
                /\ \A i \in 1 .. N :
                     /\ at[i - 1] = at[i] + size_of(vs[i].type)
                     /\ gen_deserialisation(vs[i].type, m, stack + at[i]) = vs[i].is
  BY DEF Stacked, StackedFrom
<1> DEFINE T(n) == /\ g[n] = [memory |-> m, sp |-> at[n], popped |-> g[n].popped]
                   /\ g[n].popped \in Seq(S) /\ Len(g[n].popped) = n
                   /\ \A i \in 1 .. n : g[n].popped[i] = vs[i]
           G == {n \in 0 .. N : T(n)}
<1>5. 0 \in G
  <2>1. T(0)
    BY <1>2, <1>4
  <2> QED
    BY <2>1
<1>6. ASSUME NEW n \in 1 .. N, n - 1 \in G PROVE n \in G
  <2> DEFINE b == g[n - 1]
             p == b.popped
             v == vs[n]
  <2>1. T(n - 1)
    BY <1>6
  <2>2. b = [memory |-> m, sp |-> at[n - 1], popped |-> p] /\ p \in Seq(S) /\ Len(p) = n - 1
        /\ \A i \in 1 .. (n - 1) : p[i] = vs[i]
    BY <2>1
  <2>3. at[n - 1] - size_of(v.type) = at[n] /\ at[n] \in Nat
    <3>1. size_of(v.type) \in Nat
      BY SoundSize
    <3> QED
      BY <1>4, <3>1
  <2>4. gen_deserialisation(v.type, m, stack_element(at[n])) = v.is
    BY <1>4, <2>3, StackElement
  <2>5. [v EXCEPT !.is = v.is] = v
    <3>1. Whole(v)
      OBVIOUS
    <3> HIDE DEF v
    <3> QED
      BY <3>1 DEF Whole
  <2>6. g[n] = [memory |-> m, sp |-> at[n], popped |-> Append(p, v)]
    <3>1. g[n] = pop(b, v)
      BY <1>3
    <3> HIDE DEF b, v, p
    <3> QED
      BY <2>2, <2>3, <2>4, <2>5, <3>1, PopRecord
  <2>7. v \in S
    OBVIOUS
  <2> DEFINE q == Append(p, v)
  <2>8. q \in Seq(S) /\ Len(q) = n /\ \A i \in 1 .. n : q[i] = vs[i]
    <3> HIDE DEF p
    <3>1. q \in Seq(S) /\ Len(q) = n /\ q[n] = v /\ \A i \in 1 .. (n - 1) : q[i] = p[i]
      BY <2>2, <2>7
    <3> HIDE DEF q
    <3>2. \A i \in 1 .. n : i = n \/ i \in 1 .. (n - 1)
      OBVIOUS
    <3> QED
      BY <2>2, <3>1, <3>2
  <2> HIDE DEF q
  <2>9. g[n].popped = q /\ g[n] = [memory |-> m, sp |-> at[n], popped |-> q]
    BY <2>6 DEF q
  <2>10. T(n)
    BY <2>8, <2>9
  <2> QED
    BY <2>10
<1>7. G \in SUBSET (0 .. N)
  OBVIOUS
<1>8. N \in G
  <2>1. \A n \in 1 .. N : n - 1 \in G => n \in G
    <3> HIDE DEF G
    <3> QED
      BY <1>6
  <2> HIDE DEF G, N, T, lane
  <2> QED
    BY <1>0, <1>5, <1>7, <2>1, UpToEnd
<1>9. T(N)
  BY <1>8
<1> DEFINE p == g[N].popped
<1>10. p = vs
  <2>1. p \in Seq(S) /\ Len(p) = Len(vs) /\ \A i \in 1 .. Len(vs) : p[i] = vs[i]
    BY <1>9
  <2> HIDE DEF p
  <2> QED
    BY <2>1, SeqEqual
<1> QED
  BY <1>1, <1>4, <1>9, <1>10

LEMMA ReverseFacts ==
  ASSUME NEW S, NEW vs \in Seq(S)
  PROVE  /\ Reverse(vs) \in Seq(S)
         /\ Len(Reverse(vs)) = Len(vs)
         /\ Reverse(Reverse(vs)) = vs
<1> DEFINE n == Len(vs)
           r == [i \in 1 .. n |-> vs[(n - i) + 1]]
<1>1. n \in Nat /\ \A i \in 1 .. n : (n - i) + 1 \in 1 .. n /\ vs[(n - i) + 1] \in S
  OBVIOUS
<1>2. r \in Seq(S) /\ Len(r) = n
  BY <1>1
<1>3. Reverse(vs) = r
  BY DEF Reverse
<1>4. Reverse(r) = [i \in 1 .. n |-> r[(n - i) + 1]]
  BY <1>2 DEF Reverse
<1>5. ASSUME NEW i \in 1 .. n PROVE r[(n - i) + 1] = vs[i]
  <2>1. (n - i) + 1 \in 1 .. n /\ (n - ((n - i) + 1)) + 1 = i
    BY <1>1
  <2> QED
    BY <2>1
<1>6. vs = [i \in 1 .. n |-> vs[i]]
  OBVIOUS
<1>7. Reverse(r) = vs
  BY <1>4, <1>5, <1>6
<1> QED
  BY <1>2, <1>3, <1>7

-----------------------------------------------------------------------------
(* Generic pointers (lower_generic_ptrs.c).                                                 *)
LEMMA DivMod ==
  ASSUME NEW b \in Nat \ {0}, NEW q \in Nat, NEW r \in Nat, r < b
  PROVE  (q * b + r) \div b = q /\ (q * b + r) % b = r
OBVIOUS

LEMMA Tags ==
  /\ get_tag_for_addr_space("Private") = 3
  /\ get_tag_for_addr_space("Global") = 0
  /\ generic_ptr_tags[3] = "Private" /\ generic_ptr_tags[0] = "Global"
<1>1. \A tag \in 0 .. 7 :
        generic_ptr_tags[tag] = CASE tag \in {0, 7} -> "Global"
                                  [] tag = 1 -> "Shared"
                                  [] tag = 2 -> "Subgroup"
                                  [] tag = 3 -> "Private"
                                  [] OTHER -> "Generic"
  BY DEF generic_ptr_tags
<1>2. DOMAIN generic_ptr_tags = 0 .. 7
  BY DEF generic_ptr_tags
<1>3. \A tag \in 0 .. 7 : generic_ptr_tags[tag] = "Private" <=> tag = 3
  BY <1>1
<1>4. \A tag \in 0 .. 7 : generic_ptr_tags[tag] = "Global" <=> tag \in {0, 7}
  BY <1>1
<1>5. {tag \in DOMAIN generic_ptr_tags : generic_ptr_tags[tag] = "Private"} = {3}
  BY <1>2, <1>3
<1>6. {tag \in DOMAIN generic_ptr_tags : generic_ptr_tags[tag] = "Global"} = {0, 7}
  BY <1>2, <1>4
<1>7. (CHOOSE x \in {3} : \A y \in {3} : x <= y) = 3
  OBVIOUS
<1>8. (CHOOSE x \in {0, 7} : \A y \in {0, 7} : x <= y) = 0
  OBVIOUS
<1>9. 3 \in 0 .. 7 /\ 0 \in 0 .. 7
  OBVIOUS
<1> QED
  BY <1>3, <1>4, <1>5, <1>6, <1>7, <1>8, <1>9 DEF get_tag_for_addr_space, Min

(* A pointer leads to the same place through its generic form.                              *)
RoundTrip(as, address) ==
  LET nptr == convert_to_generic(as, address)
  IN  accessed_addr_space(nptr) = as /\ recover_full_pointer(nptr) = address

LEMMA GenericRoundTrip ==
  /\ \A x \in Nat : x < SignBit => RoundTrip("Private", x)
  /\ RoundTrip("Global", LowGlobal)
  /\ RoundTrip("Global", HighGlobal)
<1> DEFINE S == SignBit
           A == 2 * S
<1>1. S \in Nat /\ S > 12
  <2> DEFINE z == size_of(Globals)
             y == offset_of(Globals, 2)
             x == offset_of(Globals, 3)
  <2>1. y \in Nat /\ x \in Nat /\ z \in Nat /\ y + 4 <= x /\ x + 8 <= z /\ z < S
    BY GlobalsFacts
  <2>2. S \in Nat
    BY SignBitAssumption
  <2> HIDE DEF z, y, x, S
  <2> QED
    BY <2>1, <2>2
<1>2. AddressSpan = A /\ PtrSpan = 8 * A
  BY DEF AddressSpan, PtrSpan
<1> HIDE DEF S
<1>3. A \in Nat \ {0} /\ S \in Nat \ {0} /\ A = 2 * S
  BY <1>1
<1>4. ASSUME NEW x \in Nat, x < S PROVE RoundTrip("Private", x)
  <2> DEFINE nptr == convert_to_generic("Private", x)
  <2>1. x % A = x
    <3>1. x = 0 * A + x /\ x < A
      BY <1>1, <1>4
    <3> HIDE DEF A
    <3> QED
      BY <1>3, <3>1, DivMod
  <2>2. nptr = x + 3 * A
    BY <1>2, <2>1, Tags DEF convert_to_generic
  <2> HIDE DEF nptr
  <2>3. nptr = 3 * A + x /\ nptr = 6 * S + x /\ x < A
    BY <1>1, <1>4, <2>2
  <2>4. nptr \div A = 3 /\ nptr % A = x
    <3> HIDE DEF A
    <3> QED
      BY <1>3, <2>3, DivMod
  <2>5. nptr \div S = 6
    <3> HIDE DEF A
    <3> QED
      BY <1>3, <1>4, <2>3, DivMod
  <2>6. accessed_addr_space(nptr) = "Private"
    BY <1>2, <2>4, Tags DEF accessed_addr_space
  <2>7. recover_full_pointer(nptr) = x
    <3>1. 6 % 2 = 0
      OBVIOUS
    <3>2. (nptr \div SignBit) % 2 = 0
      BY <2>5, <3>1 DEF S
    <3>3. nptr % AddressSpan = x
      BY <1>2, <2>4
    <3> QED
      BY <3>2, <3>3 DEF recover_full_pointer
  <2> QED
    BY <2>6, <2>7 DEF RoundTrip, nptr
<1>5. RoundTrip("Global", LowGlobal)
  <2> DEFINE x == LowGlobal
             nptr == convert_to_generic("Global", x)
  <2>1. x = S - 4
    BY DEF LowGlobal, WordBytes, S
  <2> HIDE DEF x
  <2>2. x \in Nat /\ x < S /\ x < A /\ x = 0 * A + x /\ x = 0 * S + x
    BY <1>1, <2>1
  <2>3. x % A = x /\ x \div A = 0
    <3> HIDE DEF A
    <3> QED
      BY <1>3, <2>2, DivMod
  <2>4. x \div S = 0
    <3> HIDE DEF A
    <3> QED
      BY <1>3, <2>2, DivMod
  <2>5. nptr = x
    BY <1>2, <1>3, <2>2, <2>3, Tags DEF convert_to_generic
  <2> HIDE DEF nptr
  <2>6. accessed_addr_space(nptr) = "Global"
    BY <1>2, <2>3, <2>5, Tags DEF accessed_addr_space
  <2>7. recover_full_pointer(nptr) = x
    <3>1. 0 % 2 = 0
      OBVIOUS
    <3>2. (nptr \div SignBit) % 2 = 0
      BY <2>4, <2>5, <3>1 DEF S
    <3>3. nptr % AddressSpan = x
      BY <1>2, <2>3, <2>5
    <3> QED
      BY <2>2, <3>2, <3>3 DEF recover_full_pointer
  <2> QED
    BY <2>6, <2>7 DEF RoundTrip, nptr, x
<1>6. RoundTrip("Global", HighGlobal)
  <2> DEFINE x == HighGlobal
             nptr == convert_to_generic("Global", x)
             low == A - 4
             rest == S - 4
  <2>1. x = 8 * A - 4
    BY <1>2 DEF HighGlobal, WordBytes
  <2> HIDE DEF x
  <2>2. x = 7 * A + low /\ low \in Nat /\ low < A /\ low = 0 * A + low
    BY <1>1, <2>1
  <2>3. low = 1 * S + rest /\ rest \in Nat /\ rest < S
    BY <1>1
  <2> HIDE DEF low, rest
  <2>4. x % A = low /\ low \div A = 0 /\ low % A = low
    <3> HIDE DEF A
    <3> QED
      BY <1>3, <2>2, DivMod
  <2>5. low \div S = 1
    <3> HIDE DEF A
    <3> QED
      BY <1>3, <2>3, DivMod
  <2>6. nptr = low
    BY <1>2, <1>3, <2>2, <2>4, Tags DEF convert_to_generic
  <2> HIDE DEF nptr
  <2>7. accessed_addr_space(nptr) = "Global"
    BY <1>2, <2>4, <2>6, Tags DEF accessed_addr_space
  <2>8. recover_full_pointer(nptr) = x
    <3> DEFINE B == 8 * A
               r == 7 * A
    <3>1. B \in Nat \ {0} /\ r \in Nat /\ r < B /\ 255 * A = 31 * B + r
      BY <1>1
    <3>2. (255 * A) % B = r
      <4> DEFINE y == 255 * A
      <4>1. y = 31 * B + r
        BY <3>1
      <4> HIDE DEF B, r, y
      <4>2. y % B = r
        BY <3>1, <4>1, DivMod
      <4> QED
        BY <4>2 DEF y
    <3>3. (255 * AddressSpan) % PtrSpan = r
      BY <1>2, <3>2
    <3>4. 1 % 2 = 1
      OBVIOUS
    <3>5. (nptr \div SignBit) % 2 = 1
      BY <2>5, <2>6, <3>4 DEF S
    <3>6. nptr % AddressSpan = low
      BY <1>2, <2>4, <2>6
    <3>7. recover_full_pointer(nptr) = low + r
      BY <3>3, <3>5, <3>6 DEF recover_full_pointer
    <3>8. low + r = x
      BY <1>1, <2>2
    <3> QED
      BY <3>7, <3>8
  <2> QED
    BY <2>7, <2>8 DEF RoundTrip, nptr, x
<1> QED
  BY <1>4, <1>5, <1>6 DEF S

-----------------------------------------------------------------------------
(* Variables.  The slots are those of the entry point, the only function entered with an    *)
(* empty stack; they fill the stack up to low.                                              *)
SlotsOK(slots, low) ==
  /\ low \in Nat /\ low % 4 = 0 /\ low <= StackBytes
  /\ \A p \in slots :
       /\ p = Place(p.id, "Private", p.address, p.type)
       /\ p.id \in Nat /\ p.id >= 5
       /\ p.type \in WholeTypes /\ size_of(p.type) > 0
       /\ p.address \in Nat /\ p.address % 4 = 0
       /\ stack <= p.address /\ p.address + size_of(p.type) <= stack + low
  /\ \A p, q \in slots :
       p.id = q.id => p = q
  /\ \A p, q \in slots :
       p # q => p.address + size_of(p.type) <= q.address \/ q.address + size_of(q.type) <= p.address

(* A variable in private memory is in its bytes or in the stack's below low.                *)
PrivatePlace(p, low) ==
  /\ p.as = "Private"
  /\ Fits(p.type, p.address)
  /\ size_of(p.type) \in Nat /\ size_of(p.type) > 0 /\ size_of(p.type) % 4 = 0
  /\ p.address + size_of(p.type) <= stack + low \/ stack + StackBytes <= p.address

GlobalPlace(p) == p.as = "Global" /\ p.type = U32 /\ p.address \in {LowGlobal, HighGlobal}

Apart(p, q) == p.address + size_of(p.type) <= q.address \/ q.address + size_of(q.type) <= p.address

LEMMA StaticFacts ==
  /\ \A p \in StaticPlaces :
       /\ p.id \in Nat /\ p.id < 5
       /\ p = Place(p.id, p.as, p.address, p.type)
       /\ p.type.tag = "Int"
       /\ \A low \in Nat : (PrivatePlace(p, low) /\ stack + StackBytes <= p.address) \/ GlobalPlace(p)
  /\ \A p, q \in StaticPlaces : p.id = q.id => p = q
  /\ \A p, q \in StaticPlaces : p # q /\ p.as = "Private" /\ q.as = "Private" => Apart(p, q)
  /\ \A p, q \in StaticPlaces : p # q /\ p.as = "Global" /\ q.as = "Global" => p.address # q.address
  /\ LowGlobal # HighGlobal
<1> DEFINE y == offset_of(Globals, 2)
           x == offset_of(Globals, 3)
           a == Place(1, "Private", y, U32)
           b == Place(2, "Private", x, U64)
           c == Place(3, "Global", LowGlobal, U32)
           d == Place(4, "Global", HighGlobal, U32)
<1>1. /\ y \in Nat /\ y % 4 = 0 /\ x \in Nat /\ x % 4 = 0 /\ MemBytes \in Nat
      /\ stack \in Nat /\ StackBytes \in Nat
      /\ stack + StackBytes <= y /\ y + 4 <= x /\ x + 8 <= MemBytes
  BY GlobalsFacts DEF MemBytes
<1>2. size_of(U32) = 4 /\ size_of(U64) = 8 /\ U32 \in ProgramTypes /\ U64 \in ProgramTypes
  BY WordTypes
<1>3. StaticPlaces = {a, b, c, d}
  BY DEF StaticPlaces
<1> HIDE DEF y, x
<1>4. /\ a.id = 1 /\ a.as = "Private" /\ a.address = y /\ a.type = U32
      /\ b.id = 2 /\ b.as = "Private" /\ b.address = x /\ b.type = U64
      /\ c.id = 3 /\ c.as = "Global" /\ c.address = LowGlobal /\ c.type = U32
      /\ d.id = 4 /\ d.as = "Global" /\ d.address = HighGlobal /\ d.type = U32
  BY DEF Place
<1>5. \A p \in {a, b, c, d} : p = Place(p.id, p.as, p.address, p.type)
  BY DEF Place
<1>6. U32.tag = "Int" /\ U64.tag = "Int"
  BY DEF U32, U64, Int_TAG
<1> HIDE DEF a, b, c, d
<1>7. LowGlobal # HighGlobal
  <2> DEFINE S == SignBit
  <2>1. S \in Nat /\ S # 0
    BY SignBitAssumption
  <2>2. LowGlobal = S - 4 /\ HighGlobal = 8 * (2 * S) - 4
    BY DEF LowGlobal, HighGlobal, PtrSpan, AddressSpan, WordBytes
  <2> HIDE DEF S
  <2> QED
    BY <2>1, <2>2
<1>8. ASSUME NEW low \in Nat
      PROVE  /\ PrivatePlace(a, low) /\ stack + StackBytes <= a.address
             /\ PrivatePlace(b, low) /\ stack + StackBytes <= b.address
             /\ GlobalPlace(c) /\ GlobalPlace(d)
  <2>1. Fits(U32, y) /\ Fits(U64, x)
    BY <1>1, <1>2 DEF Fits
  <2>2. stack + StackBytes <= x
    BY <1>1
  <2> QED
    BY <1>1, <1>2, <1>4, <2>1, <2>2 DEF PrivatePlace, GlobalPlace
<1>9. Apart(a, b) /\ Apart(b, a)
  BY <1>1, <1>2, <1>4 DEF Apart
<1>10. \A p \in {a, b, c, d} : p.id \in Nat /\ p.id < 5 /\ p.type.tag = "Int"
  BY <1>4, <1>6
<1>11. \A p, q \in {a, b, c, d} : p.id = q.id => p = q
  BY <1>4
<1>12. \A p, q \in {a, b, c, d} : p # q /\ p.as = "Private" /\ q.as = "Private" => Apart(p, q)
  BY <1>4, <1>9
<1>13. \A p, q \in {a, b, c, d} : p # q /\ p.as = "Global" /\ q.as = "Global" => p.address # q.address
  BY <1>4, <1>7
<1> QED
  BY <1>3, <1>5, <1>7, <1>8, <1>10, <1>11, <1>12, <1>13

LEMMA SlotFacts ==
  ASSUME NEW slots, NEW low, SlotsOK(slots, low), NEW p \in slots
  PROVE  /\ PrivatePlace(p, low) /\ p.address + size_of(p.type) <= stack + low
         /\ p.id \in Nat /\ p.id >= 5
         /\ p.type \in WholeTypes
<1> DEFINE s == size_of(p.type)
           x == p.address
<1>1. /\ p = Place(p.id, "Private", x, p.type)
      /\ p.id \in Nat /\ p.id >= 5 /\ p.type \in WholeTypes /\ s > 0
      /\ x \in Nat /\ x % 4 = 0 /\ stack <= x /\ x + s <= stack + low
      /\ low \in Nat /\ low <= StackBytes
  BY DEF SlotsOK
<1>2. p.type \in ProgramTypes /\ s \in Nat /\ s % 4 = 0
  BY <1>1, TypeFacts DEF WholeTypes, WordBytes
<1>3. /\ stack \in Nat /\ stack % 4 = 0 /\ StackBytes \in Nat /\ MemBytes \in Nat /\ stack + StackBytes <= MemBytes
  <2> DEFINE u == offset_of(Globals, 2)
             w == offset_of(Globals, 3)
  <2>1. /\ u \in Nat /\ w \in Nat /\ MemBytes \in Nat /\ stack \in Nat /\ StackBytes \in Nat /\ stack % 4 = 0
        /\ stack + StackBytes <= u /\ u + 4 <= w /\ w + 8 <= MemBytes
    BY GlobalsFacts DEF MemBytes
  <2> HIDE DEF u, w
  <2> QED
    BY <2>1
<1>4. p.as = "Private"
  BY <1>1 DEF Place
<1> HIDE DEF s, x
<1>5. x + s <= MemBytes
  BY <1>1, <1>2, <1>3
<1> QED
  BY <1>1, <1>2, <1>4, <1>5 DEF PrivatePlace, Fits, s, x

(* Different variables do not overlap.                                                      *)
LEMMA PlaceFacts ==
  ASSUME NEW slots, NEW low, SlotsOK(slots, low)
  PROVE  /\ \A p \in StaticPlaces \cup slots : PrivatePlace(p, low) \/ GlobalPlace(p)
         /\ \A p, q \in StaticPlaces \cup slots : p.id = q.id => p = q
         /\ \A p, q \in StaticPlaces \cup slots :
              p # q /\ p.as = "Private" /\ q.as = "Private" => Apart(p, q)
         /\ \A p, q \in StaticPlaces \cup slots :
              p # q /\ p.as = "Global" /\ q.as = "Global" => p.address # q.address
<1>1. low \in Nat /\ low <= StackBytes
  BY DEF SlotsOK
<1>2. \A p \in StaticPlaces : p.id \in Nat /\ p.id < 5
      /\ ((PrivatePlace(p, low) /\ stack + StackBytes <= p.address) \/ GlobalPlace(p))
  BY <1>1, StaticFacts
<1>3. \A p \in slots : PrivatePlace(p, low) /\ p.address + size_of(p.type) <= stack + low
                       /\ p.id \in Nat /\ p.id >= 5
  BY SlotFacts
<1>4. \A p \in slots : p.as = "Private"
  BY <1>3 DEF PrivatePlace
<1>5. ASSUME NEW p \in slots, NEW q \in StaticPlaces, q.as = "Private" PROVE Apart(p, q) /\ Apart(q, p)
  <2>1. PrivatePlace(q, low) /\ stack + StackBytes <= q.address
    BY <1>2, <1>5 DEF GlobalPlace
  <2>2. PrivatePlace(p, low) /\ p.address + size_of(p.type) <= stack + low
    BY <1>3
  <2> DEFINE s == size_of(p.type)
             x == p.address
             y == q.address
  <2>3. s \in Nat /\ x \in Nat /\ y \in Nat
    BY <2>1, <2>2 DEF PrivatePlace, Fits
  <2>4. stack \in Nat /\ StackBytes \in Nat
    BY GlobalsFacts
  <2>5. x + s <= stack + low /\ stack + StackBytes <= y
    BY <2>1, <2>2
  <2> HIDE DEF s, x, y
  <2>6. x + s <= y
    <3>1. stack + low <= stack + StackBytes
      BY <1>1, <2>4
    <3> QED
      BY <1>1, <2>3, <2>4, <2>5, <3>1
  <2> QED
    BY <2>6 DEF Apart, s, x, y
<1>6. \A p, q \in slots : (p.id = q.id => p = q) /\ (p # q => Apart(p, q))
  BY DEF SlotsOK, Apart
<1>7. \A p \in slots, q \in StaticPlaces : p.id # q.id
  BY <1>2, <1>3
<1>8. \A p, q \in StaticPlaces \cup slots : p.id = q.id => p = q
  BY <1>6, <1>7, StaticFacts
<1>9. \A p, q \in StaticPlaces \cup slots : p # q /\ p.as = "Private" /\ q.as = "Private" => Apart(p, q)
  BY <1>5, <1>6, StaticFacts
<1>10. \A p, q \in StaticPlaces \cup slots : p # q /\ p.as = "Global" /\ q.as = "Global" => p.address # q.address
  BY <1>4, StaticFacts
<1> QED
  BY <1>2, <1>3, <1>8, <1>9, <1>10

(* A variable is reached through a generic pointer, too.                                    *)
LEMMA PlacesRoundTrip ==
  ASSUME NEW p, NEW low, PrivatePlace(p, low) \/ GlobalPlace(p)
  PROVE  RoundTrip(p.as, p.address)
<1>1. CASE PrivatePlace(p, low)
  <2> DEFINE s == size_of(p.type)
             x == p.address
             z == size_of(Globals)
  <2>1. p.as = "Private" /\ x \in Nat /\ s \in Nat /\ s > 0 /\ x + s <= z /\ z \in Nat /\ z < SignBit
    BY <1>1, GlobalsFacts DEF PrivatePlace, Fits, MemBytes
  <2>2. SignBit \in Nat
    BY SignBitAssumption
  <2> HIDE DEF s, x, z
  <2>3. x < SignBit
    BY <2>1, <2>2
  <2> QED
    BY <2>1, <2>3, GenericRoundTrip DEF x
<1>2. CASE GlobalPlace(p)
  BY <1>2, GenericRoundTrip DEF GlobalPlace
<1> QED
  BY <1>1, <1>2

(* What a variable contains, and what the variables are supposed to.                        *)
Loaded(m, mg, p) ==
  IF p.as = "Private" THEN gen_deserialisation(p.type, m, p.address)
  ELSE IF p.address \in DOMAIN mg THEN <<mg[p.address]>> ELSE <<Garbage>>

HoldsOK(m, mg, slots, h) ==
  \A p \in StaticPlaces \cup slots : p.id \in DOMAIN h => Loaded(m, mg, p) = h[p.id]

IsGlobalMemory(mg) == DOMAIN mg = {LowGlobal, HighGlobal}

(* What is pushed above low does not concern the variables.                                 *)
LEMMA PushKeepsPlaces ==
  ASSUME NEW slots, NEW low, SlotsOK(slots, low), NEW m, IsMemory(m), NEW m2, IsMemory(m2), NEW mg, NEW h,
         NEW sp \in Nat, NEW sp2 \in Nat, low <= sp, sp2 <= StackBytes,
         Outside(m, m2, stack + sp, stack + sp2), HoldsOK(m, mg, slots, h)
  PROVE  HoldsOK(m2, mg, slots, h)
<1> SUFFICES ASSUME NEW p \in StaticPlaces \cup slots PROVE Loaded(m2, mg, p) = Loaded(m, mg, p)
  BY DEF HoldsOK
<1>1. CASE PrivatePlace(p, low)
  <2> DEFINE s == size_of(p.type)
             x == p.address
             lo == stack + sp
             hi == stack + sp2
  <2>1. p.as = "Private" /\ Fits(p.type, x) /\ s \in Nat /\ x \in Nat
        /\ (x + s <= stack + low \/ stack + StackBytes <= x)
    BY <1>1 DEF PrivatePlace, Fits
  <2>2. stack \in Nat /\ StackBytes \in Nat /\ low \in Nat
    BY GlobalsFacts DEF SlotsOK
  <2>3. lo \in Nat /\ hi \in Nat /\ Outside(m, m2, lo, hi)
    BY <2>2
  <2>4. stack + low <= lo /\ hi <= stack + StackBytes
    BY <2>2
  <2> HIDE DEF s, x, lo, hi
  <2>5. x + s <= lo \/ hi <= x
    <3>1. CASE x + s <= stack + low
      BY <2>1, <2>2, <2>3, <2>4, <3>1
    <3>2. CASE stack + StackBytes <= x
      BY <2>1, <2>2, <2>3, <2>4, <3>2
    <3> QED
      BY <2>1, <3>1, <3>2
  <2>6. gen_deserialisation(p.type, m2, x) = gen_deserialisation(p.type, m, x)
    <3> USE DEF s
    <3> QED
      BY <2>1, <2>3, <2>5, LoadIsLocal
  <2> QED
    BY <2>1, <2>6 DEF Loaded, x
<1>2. CASE GlobalPlace(p)
  BY <1>2 DEF GlobalPlace, Loaded
<1> QED
  BY <1>1, <1>2, PlaceFacts

(* A store to a variable changes that variable only.                                        *)
Changed(m, mg, m2, mg2, p) ==
  /\ IsMemory(m2) /\ IsGlobalMemory(mg2)
  /\ p.as = "Private" => /\ Outside(m, m2, p.address, p.address + size_of(p.type))
                         /\ \A a \in DOMAIN mg : mg2[a] = mg[a]
  /\ p.as = "Global" => /\ m2 = m
                        /\ \A a \in DOMAIN mg : a # p.address => mg2[a] = mg[a]

WithHeld(h, id, new) == [i \in DOMAIN h \cup {id} |-> IF i = id THEN new ELSE h[i]]

LEMMA ChangeIsHeld ==
  ASSUME NEW slots, NEW low, SlotsOK(slots, low),
         NEW m, IsMemory(m), NEW mg, IsGlobalMemory(mg), NEW h, HoldsOK(m, mg, slots, h),
         NEW m2, NEW mg2, NEW p \in StaticPlaces \cup slots, Changed(m, mg, m2, mg2, p),
         NEW new, Loaded(m2, mg2, p) = new,
         NEW h2, h2 = WithHeld(h, p.id, new)
  PROVE  HoldsOK(m2, mg2, slots, h2)
<1>0. h2 = [i \in DOMAIN h \cup {p.id} |-> IF i = p.id THEN new ELSE h[i]]
  BY DEF WithHeld
<1> SUFFICES ASSUME NEW q \in StaticPlaces \cup slots, q.id \in DOMAIN h2
             PROVE  Loaded(m2, mg2, q) = h2[q.id]
  BY DEF HoldsOK
<1>1. CASE q = p
  BY <1>0, <1>1
<1>2. CASE q # p
  <2>1. q.id # p.id /\ q.id \in DOMAIN h
    BY <1>0, <1>2, PlaceFacts
  <2>2. h2[q.id] = h[q.id] /\ Loaded(m, mg, q) = h[q.id]
    BY <1>0, <2>1 DEF HoldsOK
  <2>3. Loaded(m2, mg2, q) = Loaded(m, mg, q)
    <3>1. CASE PrivatePlace(q, low)
      <4>1. q.as = "Private" /\ Fits(q.type, q.address)
        BY <3>1 DEF PrivatePlace
      <4>2. CASE PrivatePlace(p, low)
        <5> DEFINE lo == p.address
                   hi == p.address + size_of(p.type)
        <5>1. Apart(q, p)
          BY <1>2, <3>1, <4>2, PlaceFacts DEF PrivatePlace
        <5>2. Outside(m, m2, lo, hi) /\ lo \in Nat /\ hi \in Nat /\ IsMemory(m2)
          BY <4>2 DEF Changed, PrivatePlace, Fits
        <5>3. q.address + size_of(q.type) <= lo \/ hi <= q.address
          BY <5>1 DEF Apart
        <5> HIDE DEF lo, hi
        <5>4. gen_deserialisation(q.type, m2, q.address) = gen_deserialisation(q.type, m, q.address)
          BY <4>1, <5>2, <5>3, LoadIsLocal
        <5> QED
          BY <4>1, <5>4 DEF Loaded
      <4>3. CASE GlobalPlace(p)
        <5>1. m2 = m
          BY <4>3 DEF Changed, GlobalPlace
        <5> QED
          BY <4>1, <5>1 DEF Loaded
      <4> QED
        BY <4>2, <4>3, PlaceFacts
    <3>2. CASE GlobalPlace(q)
      <4>1. q.as = "Global" /\ q.address \in DOMAIN mg /\ q.address \in DOMAIN mg2
        BY <3>2 DEF GlobalPlace, IsGlobalMemory, Changed
      <4>2. mg2[q.address] = mg[q.address]
        <5>1. CASE PrivatePlace(p, low)
          BY <4>1, <5>1 DEF PrivatePlace, Changed
        <5>2. CASE GlobalPlace(p)
          <6>1. q.address # p.address
            BY <1>2, <4>1, <5>2, PlaceFacts DEF GlobalPlace
          <6> QED
            BY <4>1, <5>2, <6>1 DEF GlobalPlace, Changed
        <5> QED
          BY <5>1, <5>2, PlaceFacts
      <4> QED
        BY <4>1, <4>2 DEF Loaded
    <3> QED
      BY <3>1, <3>2, PlaceFacts
  <2> QED
    BY <2>2, <2>3
<1> QED
  BY <1>1, <1>2

StoredAt(m, as, address, t, v) == IF as = "Private" THEN gen_serialisation(t, m, address, v) ELSE m

StoredIn(mg, as, address, v) ==
  [a \in DOMAIN mg |-> IF as = "Global" /\ a = address THEN v[1] ELSE mg[a]]

(* What StoreTo does.                                                                       *)
LEMMA StoreToPlace ==
  ASSUME NEW low, NEW p, PrivatePlace(p, low) \/ GlobalPlace(p),
         NEW m, IsMemory(m), NEW mg, IsGlobalMemory(mg), NEW v, IsValue(p.type, v),
         NEW m2, m2 = StoredAt(m, p.as, p.address, p.type, v),
         NEW mg2, mg2 = StoredIn(mg, p.as, p.address, v)
  PROVE  Changed(m, mg, m2, mg2, p) /\ Loaded(m2, mg2, p) = v
<1>0. mg2 = [a \in DOMAIN mg |-> IF p.as = "Global" /\ a = p.address THEN v[1] ELSE mg[a]]
  BY DEF StoredIn
<1>1. IsGlobalMemory(mg2)
  BY <1>0 DEF IsGlobalMemory
<1>2. CASE PrivatePlace(p, low)
  <2>1. p.as = "Private" /\ Fits(p.type, p.address)
    BY <1>2 DEF PrivatePlace
  <2>2. m2 = gen_serialisation(p.type, m, p.address, v)
    BY <2>1 DEF StoredAt
  <2>3. IsMemory(m2) /\ gen_deserialisation(p.type, m2, p.address) = v
        /\ Outside(m, m2, p.address, p.address + size_of(p.type))
    BY <2>1, <2>2, Stores
  <2>4. \A a \in DOMAIN mg : mg2[a] = mg[a]
    BY <1>0, <2>1
  <2> QED
    BY <1>1, <2>1, <2>3, <2>4 DEF Changed, Loaded
<1>3. CASE GlobalPlace(p)
  <2>1. p.as = "Global" /\ p.type = U32 /\ p.address \in DOMAIN mg
    BY <1>3 DEF GlobalPlace, IsGlobalMemory
  <2>2. m2 = m /\ mg2[p.address] = v[1] /\ p.address \in DOMAIN mg2
    BY <1>0, <2>1 DEF StoredAt
  <2>3. <<v[1]>> = v
    <3>1. v = [w \in {1} |-> v[w]]
      BY <2>1, WordTypes DEF IsValue
    <3> DEFINE x == v[1]
    <3>2. [w \in {1} |-> v[w]] = [w \in {1} |-> x]
      OBVIOUS
    <3> HIDE DEF x
    <3>3. [w \in {1} |-> x] = <<x>>
      OBVIOUS
    <3> QED
      BY <3>1, <3>2, <3>3 DEF x
  <2>4. \A a \in DOMAIN mg : a # p.address => mg2[a] = mg[a]
    BY <1>0
  <2> QED
    BY <1>1, <2>1, <2>2, <2>3, <2>4 DEF Changed, Loaded
<1> QED
  BY <1>2, <1>3

-----------------------------------------------------------------------------
(* What a function holds, and what lies in the frames of the tails that are still to be     *)
(* entered.  live gives the stack pointer each of them expects; 0 is the exit.              *)

(* Nothing changes on the stack from low to top.                                            *)
Clear(m, m2, low, top) ==
  \E lo, hi \in Nat : Outside(m, m2, lo, hi) /\ (stack + top <= lo \/ hi <= stack + low)

LEMMA PushIsClear ==
  ASSUME NEW m, NEW m2, NEW low \in Nat, NEW sp \in Nat, NEW sp2 \in Nat,
         Outside(m, m2, stack + sp, stack + sp2)
  PROVE  Clear(m, m2, low, sp)
<1>1. stack \in Nat
  BY GlobalsFacts
<1>2. stack + sp \in Nat /\ stack + sp2 \in Nat /\ stack + sp <= stack + sp
  BY <1>1
<1> QED
  BY <1>2 DEF Clear

LEMMA ChangeIsClear ==
  ASSUME NEW slots, NEW low, SlotsOK(slots, low), NEW m, NEW mg, NEW m2, NEW mg2,
         NEW p \in StaticPlaces \cup slots, Changed(m, mg, m2, mg2, p)
  PROVE  Clear(m, m2, low, StackBytes)
<1>1. CASE PrivatePlace(p, low)
  <2> DEFINE lo == p.address
             hi == p.address + size_of(p.type)
  <2>1. Outside(m, m2, lo, hi) /\ lo \in Nat /\ hi \in Nat /\ (hi <= stack + low \/ stack + StackBytes <= lo)
    BY <1>1 DEF Changed, PrivatePlace, Fits
  <2> HIDE DEF lo, hi
  <2> QED
    BY <2>1 DEF Clear
<1>2. CASE GlobalPlace(p)
  <2>1. m2 = m
    BY <1>2 DEF Changed, GlobalPlace
  <2>2. Outside(m, m2, 0, 0)
    BY <2>1 DEF Outside
  <2>3. 0 \in Nat /\ 0 <= stack + low
    BY GlobalsFacts DEF SlotsOK
  <2> QED
    BY <2>2, <2>3 DEF Clear
<1> QED
  BY <1>1, <1>2, PlaceFacts

LEMMA StackedClear ==
  ASSUME NEW m, IsMemory(m), NEW m2, IsMemory(m2), NEW low \in Nat, NEW sp \in Nat, Clear(m, m2, low, sp),
         NEW vs, Len(vs) \in Nat, \A i \in 1 .. Len(vs) : Sound(vs[i]),
         NEW base \in Nat, NEW top \in Nat, low <= base, top <= sp, top <= StackBytes, Stacked(m, base, top, vs)
  PROVE  Stacked(m2, base, top, vs)
<1>1. PICK lo \in Nat, hi \in Nat : Outside(m, m2, lo, hi) /\ (stack + sp <= lo \/ hi <= stack + low)
  BY DEF Clear
<1>2. stack \in Nat
  BY GlobalsFacts
<1>3. stack + top <= lo \/ hi <= stack + base
  <2> DEFINE x == stack
  <2>1. x \in Nat /\ (x + sp <= lo \/ hi <= x + low)
    BY <1>1, <1>2
  <2> HIDE DEF x
  <2>2. x + top <= lo \/ hi <= x + base
    <3>1. x + top <= x + sp /\ x + low <= x + base
      BY <2>1
    <3> QED
      BY <2>1, <3>1
  <2> QED
    BY <2>2 DEF x
<1>4. 0 \in 0 .. Len(vs)
  OBVIOUS
<1> QED
  BY <1>1, <1>3, <1>4, StackedStays DEF Stacked

(* A value is what it is meant to be; a pointer to a slot leads to it; a join point leads   *)
(* to a tail that still has its frame, below top.                                           *)
ValueOK(v, slots, live, top) ==
  /\ Whole(v) /\ Sound(v) /\ v.is = v.meant
  /\ v.role = "slot" => v.to \in slots /\ v.is[1] = v.to.address
  /\ v.role \in {"jp", "return"} =>
       \E d \in DOMAIN live : v.is[destination_path] = d /\ v.is[payload_path] = live[d] /\ live[d] <= top

SetOK(S, slots, live, top) ==
  /\ \A v \in S : ValueOK(v, slots, live, top)
  /\ \A v, w \in S : v.role = "return" /\ w.role = "saved" => w.is[1] = v.is[payload_path]

ListOK(vs, slots, live, top) == \E S : vs \in Seq(S) /\ SetOK(S, slots, live, top)

LiveOK(live, n) ==
  /\ DOMAIN live \subseteq 0 .. n /\ 0 \in DOMAIN live /\ live[0] = 0
  /\ \A c \in DOMAIN live : live[c] \in Nat /\ live[c] % 4 = 0

FrameOK(m, slots, live, low, cont, top) ==
  \E base \in Nat : /\ low <= base /\ base % 4 = 0 /\ base <= top /\ top <= StackBytes
                    /\ Stacked(m, base, top, Reverse(cont.spilled))
                    /\ ListOK(cont.spilled, slots, live, base)

FramesOK(m, slots, live, low, cs) ==
  \A c \in DOMAIN live \ {0} : FrameOK(m, slots, live, low, cs[c], live[c])

(* What is below top is still there in live2.                                               *)
Below(live, live2, top) ==
  \A c \in DOMAIN live : live[c] <= top => c \in DOMAIN live2 /\ live2[c] = live[c]

LEMMA SetStays ==
  ASSUME NEW S, NEW slots, NEW live, NEW live2, NEW top \in Nat, NEW top2 \in Nat, top <= top2,
         \A c \in DOMAIN live : live[c] \in Nat,
         SetOK(S, slots, live, top), Below(live, live2, top)
  PROVE  SetOK(S, slots, live2, top2)
<1> SUFFICES ASSUME NEW v \in S, v.role \in {"jp", "return"}
             PROVE  \E d \in DOMAIN live2 : v.is[destination_path] = d /\ v.is[payload_path] = live2[d] /\ live2[d] <= top2
  BY DEF SetOK, ValueOK
<1>1. PICK d \in DOMAIN live : v.is[destination_path] = d /\ v.is[payload_path] = live[d] /\ live[d] <= top
  BY DEF SetOK, ValueOK
<1>2. d \in DOMAIN live2 /\ live2[d] = live[d]
  BY <1>1 DEF Below
<1>3. live[d] \in Nat
  BY <1>1
<1>4. live[d] <= top2
  BY <1>1, <1>3
<1> QED
  BY <1>1, <1>2, <1>4

LEMMA ListStays ==
  ASSUME NEW vs, NEW slots, NEW live, NEW live2, NEW top \in Nat, NEW top2 \in Nat, top <= top2,
         \A c \in DOMAIN live : live[c] \in Nat,
         ListOK(vs, slots, live, top), Below(live, live2, top)
  PROVE  ListOK(vs, slots, live2, top2)
BY SetStays DEF ListOK

LEMMA FrameStays ==
  ASSUME NEW m, IsMemory(m), NEW m2, IsMemory(m2), NEW low \in Nat, NEW sp \in Nat, Clear(m, m2, low, sp),
         NEW slots, NEW live, NEW live2, \A c \in DOMAIN live : live[c] \in Nat,
         NEW cont, NEW top \in Nat, top <= sp, Below(live, live2, top),
         FrameOK(m, slots, live, low, cont, top)
  PROVE  FrameOK(m2, slots, live2, low, cont, top)
<1>1. PICK base \in Nat : /\ low <= base /\ base % 4 = 0 /\ base <= top /\ top <= StackBytes
                          /\ Stacked(m, base, top, Reverse(cont.spilled))
                          /\ ListOK(cont.spilled, slots, live, base)
  BY DEF FrameOK
<1>2. Below(live, live2, base)
  <2> SUFFICES ASSUME NEW c \in DOMAIN live, live[c] <= base PROVE live[c] <= top
    BY DEF Below
  <2>1. live[c] \in Nat
    OBVIOUS
  <2> QED
    BY <1>1, <2>1
<1>3. ListOK(cont.spilled, slots, live2, base)
  BY <1>1, <1>2, ListStays
<1>4. PICK S : cont.spilled \in Seq(S) /\ SetOK(S, slots, live, base)
  BY <1>1 DEF ListOK
<1> DEFINE r == Reverse(cont.spilled)
<1>5. r \in Seq(S)
  BY <1>4, ReverseFacts
<1>6. Len(r) \in Nat /\ \A i \in 1 .. Len(r) : Sound(r[i])
  <2>1. \A i \in 1 .. Len(r) : r[i] \in S
    BY <1>5
  <2> QED
    BY <1>4, <1>5, <2>1 DEF SetOK, ValueOK
<1> HIDE DEF r
<1>7. Stacked(m, base, top, r)
  BY <1>1 DEF r
<1>8. Stacked(m2, base, top, r)
  BY <1>1, <1>6, <1>7, StackedClear
<1> QED
  BY <1>1, <1>3, <1>8 DEF FrameOK, r

-----------------------------------------------------------------------------
(* The inductive invariant.                                                                 *)

(* The variables hold what they should, and the frames of the tails that are still to be    *)
(* entered are as they were left.                                                           *)
Common(live, slots, low) ==
  /\ IsMemory(memory_private) /\ IsGlobalMemory(memory_global)
  /\ SlotsOK(slots, low)
  /\ HoldsOK(memory_private, memory_global, slots, holds)
  /\ \E S : conts \in Seq(S)
  /\ \A c \in 1 .. Len(conts) : conts[c].yields \in YieldTypes
  /\ LiveOK(live, Len(conts))
  /\ FramesOK(memory_private, slots, live, low, conts)

IsStackPtr(sp) == sp \in Nat /\ sp % 4 = 0 /\ sp <= StackBytes

(* No frame reaches above sp.                                                               *)
Under(live, low, sp) == low <= sp /\ \A c \in DOMAIN live : live[c] <= sp

DataOK(S) == \A v \in S : Whole(v) /\ Sound(v) /\ v.is = v.meant /\ v.role = "data"

AtRunning(live, slots, low) ==
  /\ next = Running
  /\ IsStackPtr(stack_ptr) /\ Under(live, low, stack_ptr)
  /\ ListOK(values, slots, live, stack_ptr)

(* The arguments of the entry point lie on an otherwise empty stack.                        *)
AtEntry(live, slots, low) ==
  /\ values = <<>> /\ conts = <<>> /\ slots = {} /\ low = 0
  /\ IsStackPtr(stack_ptr)
  /\ \E args, S : /\ next = [kind |-> "entry", args |-> args]
                  /\ args \in Seq(S) /\ DataOK(S)
                  /\ Stacked(memory_private, 0, stack_ptr, args)

(* The arguments of a function lie on the stack above base, the stack pointer of the tail   *)
(* it returns to.                                                                           *)
AtFunction(live, slots, low) ==
  /\ values = <<>>
  /\ IsStackPtr(stack_ptr) /\ stack_ptr > 0
  /\ \E args, S, base :
       /\ next = [kind |-> "function", args |-> args]
       /\ args \in Seq(S) /\ SetOK(S, slots, live, base)
       /\ \A v \in S : v.role # "saved" /\ (v.role = "return" => v.is[payload_path] = base)
       /\ base \in Nat /\ base % 4 = 0 /\ Under(live, low, base)
       /\ Stacked(memory_private, base, stack_ptr, args)

(* The payload, which is the stack pointer a tail expects, and what the tail was given lie  *)
(* above all frames.                                                                        *)
AtContinuation(live, slots, low) ==
  /\ values = <<>>
  /\ IsStackPtr(stack_ptr) /\ stack_ptr > 0
  /\ \E d \in DOMAIN live \ {0} : \E args, S, base :
       LET payload == Value(U32, "data", <<live[d]>>, NoPlace) IN
       /\ next = [kind |-> "continuation", destination |-> d, payload |-> payload, args |-> args]
       /\ args \in Seq(S) /\ DataOK(S)
       /\ base \in Nat /\ base % 4 = 0 /\ Under(live, low, base)
       /\ Stacked(memory_private, base, stack_ptr, <<payload>> \o args)

AtExit == next = [kind |-> "exit"] /\ values = <<>>

LaneInv ==
  \E live, slots, low :
    /\ Common(live, slots, low)
    /\ \/ AtRunning(live, slots, low)
       \/ AtEntry(live, slots, low)
       \/ AtFunction(live, slots, low)
       \/ AtContinuation(live, slots, low)
       \/ AtExit

-----------------------------------------------------------------------------
LEMMA DataIsOK ==
  ASSUME NEW S, DataOK(S), NEW slots, NEW live, NEW top
  PROVE  SetOK(S, slots, live, top)
BY DEF DataOK, SetOK, ValueOK

LEMMA AddValue ==
  ASSUME NEW S, NEW slots, NEW live, NEW top, SetOK(S, slots, live, top),
         NEW v, ValueOK(v, slots, live, top), v.role \notin {"return", "saved"}
  PROVE  SetOK(S \cup {v}, slots, live, top)
BY DEF SetOK

LEMMA SomeValues ==
  ASSUME NEW S, NEW T, T \subseteq S, NEW slots, NEW live, NEW top, SetOK(S, slots, live, top)
  PROVE  SetOK(T, slots, live, top)
BY DEF SetOK

(* Pushes above all frames keep the variables and the frames.                               *)
LEMMA PushKeeps ==
  ASSUME NEW live, NEW slots, NEW low, SlotsOK(slots, low), NEW n, LiveOK(live, n),
         NEW m, IsMemory(m), NEW m2, IsMemory(m2), NEW mg, NEW h, HoldsOK(m, mg, slots, h),
         NEW cs, FramesOK(m, slots, live, low, cs),
         NEW sp \in Nat, NEW sp2 \in Nat, sp2 <= StackBytes, Under(live, low, sp),
         Outside(m, m2, stack + sp, stack + sp2)
  PROVE  HoldsOK(m2, mg, slots, h) /\ FramesOK(m2, slots, live, low, cs)
<1>1. low <= sp /\ low \in Nat
  BY DEF Under, SlotsOK
<1>2. HoldsOK(m2, mg, slots, h)
  BY <1>1, PushKeepsPlaces
<1>3. Clear(m, m2, low, sp)
  BY <1>1, PushIsClear
<1>4. ASSUME NEW c \in DOMAIN live \ {0} PROVE FrameOK(m2, slots, live, low, cs[c], live[c])
  <2>1. FrameOK(m, slots, live, low, cs[c], live[c])
    BY DEF FramesOK
  <2>2. live[c] \in Nat /\ live[c] <= sp /\ \A e \in DOMAIN live : live[e] \in Nat
    BY DEF LiveOK, Under
  <2>3. Below(live, live, live[c])
    BY DEF Below
  <2> QED
    BY <1>1, <1>3, <2>1, <2>2, <2>3, FrameStays
<1> QED
  BY <1>2, <1>4 DEF FramesOK

(* A value is pushed on top of others.                                                      *)
LEMMA PushMore ==
  ASSUME NEW m, IsMemory(m), NEW base \in Nat, NEW sp \in Nat, sp % 4 = 0, base <= sp, NEW popped,
         NEW S, NEW vs \in Seq(S), \A v \in S : Sound(v), Stacked(m, base, sp, vs),
         NEW v, Sound(v), NEW r, r = push([memory |-> m, sp |-> sp, popped |-> popped], v)
  PROVE  /\ r.sp = sp + size_of(v.type)
         /\ r.sp \in Nat /\ r.sp % 4 = 0 /\ sp <= r.sp
         /\ r.sp <= StackBytes => /\ IsMemory(r.memory)
                                  /\ Outside(m, r.memory, stack + sp, stack + r.sp)
                                  /\ Stacked(r.memory, base, r.sp, <<v>> \o vs)
<1> DEFINE e == sp + size_of(v.type)
           m2 == r.memory
           ws == <<v>> \o vs
           N == Len(vs)
<1>1. r.sp = e
  <2>1. r = [memory |-> gen_serialisation(v.type, m, stack_element(sp), v.is), sp |-> e, popped |-> popped]
    BY PushRecord
  <2> HIDE DEF e
  <2> QED
    BY <2>1
<1>2. size_of(v.type) \in Nat /\ size_of(v.type) % 4 = 0
  BY SoundSize
<1>3. e \in Nat /\ e % 4 = 0 /\ sp <= e
  BY <1>2, AddWords
<1> SUFFICES ASSUME e <= StackBytes
             PROVE  IsMemory(m2) /\ Outside(m, m2, stack + sp, stack + e) /\ Stacked(m2, base, e, ws)
  BY <1>1, <1>3
<1>4. stack \in Nat /\ StackBytes \in Nat
  BY GlobalsFacts
<1>5. stack + sp + size_of(v.type) = stack + e
  BY <1>2, <1>4
<1>6. IsMemory(m2) /\ Outside(m, m2, stack + sp, stack + e)
      /\ gen_deserialisation(v.type, m2, stack + sp) = v.is
  BY <1>5, PushOne
<1>7. N \in Nat /\ Len(ws) = N + 1 /\ ws[1] = v /\ \A i \in 1 .. N : ws[i + 1] = vs[i] /\ vs[i] \in S
  OBVIOUS
<1> HIDE DEF e, m2, ws, N
<1>8. Stacked(m2, base, sp, vs)
  <2>1. stack + sp \in Nat /\ stack + e \in Nat /\ stack + sp <= stack + sp /\ 0 \in 0 .. Len(vs) /\ sp <= StackBytes
    <3>1. stack + sp \in Nat /\ stack + e \in Nat /\ stack + sp <= stack + sp
      BY <1>3, <1>4
    <3>2. sp <= StackBytes
      BY <1>3, <1>4
    <3>3. 0 \in 0 .. Len(vs)
      BY <1>7 DEF N
    <3> QED
      BY <3>1, <3>2, <3>3
  <2>2. \A i \in 1 .. Len(vs) : Sound(vs[i])
    BY <1>7 DEF N
  <2> QED
    BY <1>6, <2>1, <2>2, StackedStays DEF Stacked
<1>9. PICK at : /\ at[0] = sp /\ at[N] = base
                /\ \A i \in 0 .. N : at[i] \in Nat /\ at[i] % 4 = 0 /\ base <= at[i] /\ at[i] <= sp
                /\ \A i \in 1 .. N : /\ at[i - 1] = at[i] + size_of(vs[i].type)
                                     /\ gen_deserialisation(vs[i].type, m2, stack + at[i]) = vs[i].is
  <2>1. PICK at : /\ at[0] = sp /\ at[Len(vs)] = base
                  /\ \A i \in 0 .. Len(vs) : at[i] \in Nat /\ at[i] % 4 = 0 /\ base <= at[i] /\ at[i] <= sp
                  /\ \A i \in (0 + 1) .. Len(vs) :
                       /\ at[i - 1] = at[i] + size_of(vs[i].type)
                       /\ gen_deserialisation(vs[i].type, m2, stack + at[i]) = vs[i].is
    BY <1>8 DEF Stacked, StackedFrom
  <2>2. (0 + 1) .. Len(vs) = 1 .. N
    BY DEF N
  <2> QED
    BY <2>1, <2>2 DEF N
<1> DEFINE at2 == [i \in 0 .. (N + 1) |-> IF i = 0 THEN e ELSE at[i - 1]]
<1>10. at2[0] = e /\ \A i \in 1 .. (N + 1) : at2[i] = at[i - 1]
  BY <1>7
<1> HIDE DEF at2
<1>11. at2[N + 1] = base
  <2>1. N + 1 \in 1 .. (N + 1) /\ (N + 1) - 1 = N
    BY <1>7
  <2> QED
    BY <1>9, <1>10, <2>1
<1>12. ASSUME NEW i \in 0 .. (N + 1) PROVE at2[i] \in Nat /\ at2[i] % 4 = 0 /\ base <= at2[i] /\ at2[i] <= e
  <2>1. CASE i = 0
    BY <1>3, <1>10, <2>1
  <2>2. CASE i \in 1 .. (N + 1)
    <3> DEFINE x == at[i - 1]
    <3>1. at2[i] = x /\ x \in Nat /\ x % 4 = 0 /\ base <= x /\ x <= sp
      BY <1>7, <1>9, <1>10, <2>2
    <3> HIDE DEF x
    <3> QED
      BY <1>3, <3>1
  <2> QED
    BY <1>7, <2>1, <2>2
<1>13. ASSUME NEW i \in 1 .. (N + 1)
       PROVE  /\ at2[i - 1] = at2[i] + size_of(ws[i].type)
              /\ gen_deserialisation(ws[i].type, m2, stack + at2[i]) = ws[i].is
  <2>1. CASE i = 1
    <3>1. at2[i - 1] = e /\ at2[i] = sp /\ ws[i] = v
      BY <1>7, <1>9, <1>10, <2>1
    <3> QED
      BY <1>6, <3>1 DEF e
  <2>2. CASE i \in 2 .. (N + 1)
    <3> DEFINE j == i - 1
    <3>1. j \in 1 .. N /\ i = j + 1
      BY <1>7, <2>2
    <3>2. at2[i - 1] = at[j - 1] /\ at2[i] = at[j] /\ ws[i] = vs[j]
      BY <1>7, <1>10, <2>2, <3>1
    <3> HIDE DEF j
    <3> QED
      BY <1>9, <3>1, <3>2
  <2> QED
    BY <1>7, <2>1, <2>2
<1>14. Stacked(m2, base, e, ws)
  <2> DEFINE M == N + 1
  <2>1. Len(ws) = M /\ 0 + 1 = 1
    BY <1>7
  <2>2. at2[0] = e /\ at2[M] = base
    BY <1>10, <1>11
  <2>3. \A i \in 0 .. M : at2[i] \in Nat /\ at2[i] % 4 = 0 /\ base <= at2[i] /\ at2[i] <= e
    BY <1>12
  <2>4. \A i \in (0 + 1) .. M : /\ at2[i - 1] = at2[i] + size_of(ws[i].type)
                                /\ gen_deserialisation(ws[i].type, m2, stack + at2[i]) = ws[i].is
    BY <1>13, <2>1
  <2> HIDE DEF M
  <2> QED
    BY <2>1, <2>2, <2>3, <2>4 DEF Stacked, StackedFrom
<1> QED
  BY <1>6, <1>14

(* Values made by the passes.                                                               *)
LEMMA NewValue ==
  ASSUME NEW t \in WholeTypes, NEW role, NEW is, IsValue(t, is), NEW to
  PROVE  LET v == Value(t, role, is, to) IN
         Whole(v) /\ Sound(v) /\ v.is = v.meant /\ v.role = role /\ v.is = is /\ v.to = to /\ v.type = t
BY DEF Value, Whole, Sound

LEMMA FreshIsValue ==
  ASSUME NEW t, NEW n
  PROVE  IsValue(t, Fresh(t, n))
BY DEF IsValue, Fresh

LEMMA TheWholeTypes ==
  U32 \in WholeTypes /\ U64 \in WholeTypes /\ JoinPoint \in WholeTypes
BY WordTypes, JoinPointFacts DEF WholeTypes, WordBytes

LEMMA JoinPointValue ==
  ASSUME NEW role \in {"jp", "return"}, NEW d, NEW sp
  PROVE  LET v == join_point(role, d, sp) IN
         /\ Whole(v) /\ Sound(v) /\ v.is = v.meant /\ v.role = role /\ v.type = JoinPoint
         /\ v.is[destination_path] = d /\ v.is[payload_path] = sp
<1> DEFINE F == Fresh(JoinPoint, Len(conts))
           G == [F EXCEPT ![destination_path] = d]
           H == [G EXCEPT ![payload_path] = sp]
           D == DOMAIN words_of(JoinPoint)
<1>1. DOMAIN F = D
  BY DEF Fresh
<1>2. destination_path \in D /\ payload_path \in D /\ destination_path # payload_path
  BY JoinPointFacts
<1>3. [F EXCEPT ![destination_path] = d, ![payload_path] = sp] = H
  OBVIOUS
<1> HIDE DEF F, D
<1>4. DOMAIN G = D /\ G[destination_path] = d
  BY <1>1, <1>2
<1> HIDE DEF G
<1>5. DOMAIN H = D /\ H[payload_path] = sp /\ H[destination_path] = d /\ H = [path \in D |-> H[path]]
  BY <1>2, <1>4
<1> HIDE DEF H
<1>6. IsValue(JoinPoint, H)
  BY <1>5 DEF IsValue, D
<1>7. join_point(role, d, sp) = Value(JoinPoint, role, H, NoPlace)
  BY <1>3 DEF join_point, F, G
<1> QED
  BY <1>5, <1>6, <1>7, NewValue, TheWholeTypes

LEMMA Extended ==
  ASSUME NEW S, NEW cs \in Seq(S), NEW x
  PROVE  /\ Append(cs, x) \in Seq(S \cup {x})
         /\ Len(Append(cs, x)) = Len(cs) + 1
         /\ Append(cs, x)[Len(cs) + 1] = x
         /\ \A c \in 1 .. Len(cs) : Append(cs, x)[c] = cs[c]
<1>1. cs \in Seq(S \cup {x})
  OBVIOUS
<1> QED
  BY <1>1

(* A frontier holds values of the function.                                                 *)
LEMMA FrontierFacts ==
  ASSUME NEW S, values \in Seq(S), NEW spilled \in Frontiers
  PROVE  spilled \in Seq(S)
<1>1. CASE spilled = values
  BY <1>1
<1>2. CASE spilled = Reverse(values)
  BY <1>2, ReverseFacts
<1>3. CASE \E i \in DOMAIN values : spilled = RemoveAt(values, i)
  <2>1. PICK i \in DOMAIN values : spilled = RemoveAt(values, i)
    BY <1>3
  <2>2. i \in 1 .. Len(values) /\ Len(values) \in Nat
    OBVIOUS
  <2>3. SubSeq(values, 1, i - 1) \in Seq(S)
    BY <2>2
  <2>4. SubSeq(values, i + 1, Len(values)) \in Seq(S)
    BY <2>2
  <2>5. spilled = SubSeq(values, 1, i - 1) \o SubSeq(values, i + 1, Len(values))
    BY <2>1 DEF RemoveAt
  <2> QED
    BY <2>3, <2>4, <2>5
<1> QED
  BY <1>1, <1>2, <1>3 DEF Frontiers

WithTail(live, n, sp) == [c \in DOMAIN live \cup {n} |-> IF c = n THEN sp ELSE live[c]]

Lifted(l, role, live, slots, low, m2, sp2, n, cs, live2) ==
  /\ l.lane = [memory |-> m2, sp |-> sp2, popped |-> <<>>]
  /\ sp2 \in Nat /\ sp2 % 4 = 0 /\ stack_ptr <= sp2
  /\ l.jp.role = role /\ l.jp.is[payload_path] = sp2 /\ l.jp.type = JoinPoint
  /\ n \in Nat /\ Len(cs) = n + 1 /\ (\E S : cs \in Seq(S))
  /\ \A c \in 1 .. Len(cs) : cs[c].yields \in YieldTypes
  /\ sp2 <= StackBytes =>
       /\ IsMemory(m2) /\ HoldsOK(m2, memory_global, slots, holds)
       /\ LiveOK(live2, n + 1) /\ FramesOK(m2, slots, live2, low, cs) /\ Under(live2, low, sp2)
       /\ ValueOK(l.jp, slots, live2, sp2)
       /\ \A S : SetOK(S, slots, live, stack_ptr) => SetOK(S, slots, live2, sp2)

(* What lifting the tail of a control does (lift_indirect_targets.c): its frame is pushed   *)
(* above all others, and its join point leads to it.                                        *)
LEMMA LiftFacts ==
  ASSUME NEW live, NEW slots, NEW low, Common(live, slots, low), AtRunning(live, slots, low),
         NEW spilled \in Frontiers, NEW yields \in YieldTypes, NEW role \in {"jp", "return"},
         NEW l, l = Lift(Lane(memory_private, stack_ptr), role, spilled, yields),
         NEW m2, m2 = l.lane.memory, NEW sp2, sp2 = l.lane.sp,
         NEW n, n = Len(conts), NEW cs, cs = Append(conts, l.cont),
         NEW live2, live2 = WithTail(live, n + 1, sp2)
  PROVE  Lifted(l, role, live, slots, low, m2, sp2, n, cs, live2)
<1>1. /\ IsMemory(memory_private) /\ SlotsOK(slots, low)
      /\ HoldsOK(memory_private, memory_global, slots, holds)
      /\ LiveOK(live, n) /\ FramesOK(memory_private, slots, live, low, conts)
      /\ \A c \in 1 .. n : conts[c].yields \in YieldTypes
  BY DEF Common
<1>2. stack_ptr \in Nat /\ stack_ptr % 4 = 0 /\ stack_ptr <= StackBytes /\ Under(live, low, stack_ptr)
  BY DEF AtRunning, IsStackPtr
<1>3. PICK S : values \in Seq(S) /\ SetOK(S, slots, live, stack_ptr)
  BY DEF AtRunning, ListOK
<1>4. spilled \in Seq(S)
  BY <1>3, FrontierFacts
<1> DEFINE r == Reverse(spilled)
<1>5. r \in Seq(S) /\ Len(r) \in Nat /\ \A i \in 1 .. Len(r) : Sound(r[i])
  <2>1. r \in Seq(S)
    BY <1>4, ReverseFacts
  <2>2. \A i \in 1 .. Len(r) : r[i] \in S
    BY <2>1
  <2>3. \A v \in S : Sound(v)
    BY <1>3 DEF SetOK, ValueOK
  <2> QED
    BY <2>1, <2>2, <2>3
<1>6. /\ l.lane = push_values([memory |-> memory_private, sp |-> stack_ptr, popped |-> <<>>], r)
      /\ l.jp = join_point(role, n + 1, l.lane.sp)
      /\ l.cont = [spilled |-> spilled, yields |-> yields]
  BY DEF Lift, add_spill_instrs, Lane
<1> HIDE DEF r
<1> DEFINE lane == l.lane
<1> HIDE DEF lane
<1>7. lane = push_values([memory |-> memory_private, sp |-> stack_ptr, popped |-> <<>>], r)
      /\ m2 = lane.memory /\ sp2 = lane.sp
  BY <1>6 DEF lane
<1>8. /\ lane = [memory |-> lane.memory, sp |-> lane.sp, popped |-> <<>>]
      /\ lane.sp \in Nat /\ lane.sp % 4 = 0 /\ stack_ptr <= lane.sp
      /\ lane.sp <= StackBytes =>
           /\ IsMemory(lane.memory)
           /\ Outside(memory_private, lane.memory, stack + stack_ptr, stack + lane.sp)
           /\ Stacked(lane.memory, stack_ptr, lane.sp, r)
  BY <1>1, <1>2, <1>5, <1>7, PushValues
<1>9. l.lane = [memory |-> m2, sp |-> sp2, popped |-> <<>>] /\ sp2 \in Nat /\ sp2 % 4 = 0 /\ stack_ptr <= sp2
  BY <1>7, <1>8 DEF lane
<1>10. /\ Whole(l.jp) /\ Sound(l.jp) /\ l.jp.is = l.jp.meant /\ l.jp.role = role /\ l.jp.type = JoinPoint
       /\ l.jp.is[destination_path] = n + 1 /\ l.jp.is[payload_path] = sp2
  BY <1>6, <1>7, JoinPointValue DEF lane
<1>11. n \in Nat /\ Len(cs) = n + 1 /\ (\E T : cs \in Seq(T)) /\ cs[n + 1] = l.cont
       /\ \A c \in 1 .. n : cs[c] = conts[c]
  <2>1. PICK T : conts \in Seq(T)
    BY DEF Common
  <2>2. n \in Nat
    BY <2>1
  <2> DEFINE x == l.cont
  <2> HIDE DEF x
  <2>3. cs = Append(conts, x)
    BY DEF x
  <2>4. cs \in Seq(T \cup {x}) /\ Len(cs) = n + 1 /\ cs[n + 1] = x /\ \A c \in 1 .. n : cs[c] = conts[c]
    BY <2>1, <2>3, Extended
  <2> QED
    BY <2>2, <2>4 DEF x
<1>12. ASSUME NEW c \in 1 .. Len(cs) PROVE cs[c].yields \in YieldTypes
  <2>1. CASE c \in 1 .. n
    BY <1>1, <1>11, <2>1
  <2>2. CASE c = n + 1
    BY <1>6, <1>11, <2>2
  <2> QED
    BY <1>11, <2>1, <2>2
<1>13. ASSUME sp2 <= StackBytes
       PROVE  /\ IsMemory(m2) /\ HoldsOK(m2, memory_global, slots, holds)
              /\ LiveOK(live2, n + 1) /\ FramesOK(m2, slots, live2, low, cs) /\ Under(live2, low, sp2)
              /\ ValueOK(l.jp, slots, live2, sp2)
              /\ \A T : SetOK(T, slots, live, stack_ptr) => SetOK(T, slots, live2, sp2)
  <2>1. IsMemory(m2) /\ Outside(memory_private, m2, stack + stack_ptr, stack + sp2) /\ Stacked(m2, stack_ptr, sp2, r)
    BY <1>7, <1>8, <1>13
  <2>2. HoldsOK(m2, memory_global, slots, holds) /\ FramesOK(m2, slots, live, low, conts)
    BY <1>1, <1>2, <1>9, <1>13, <2>1, PushKeeps
  <2>3. /\ DOMAIN live2 = DOMAIN live \cup {n + 1} /\ live2[n + 1] = sp2
        /\ \A c \in DOMAIN live : c \in 0 .. n /\ c # n + 1 /\ live2[c] = live[c] /\ live[c] \in Nat /\ live[c] % 4 = 0
    BY <1>1, <1>11 DEF LiveOK, WithTail
  <2>4. LiveOK(live2, n + 1)
    <3>1. DOMAIN live2 \subseteq 0 .. (n + 1)
      BY <1>11, <2>3
    <3>2. 0 \in DOMAIN live2 /\ live2[0] = 0
      BY <1>1, <2>3 DEF LiveOK
    <3>3. \A c \in DOMAIN live2 : live2[c] \in Nat /\ live2[c] % 4 = 0
      BY <1>9, <2>3
    <3> QED
      BY <3>1, <3>2, <3>3 DEF LiveOK
  <2>5. \A top : Below(live, live2, top)
    BY <2>3 DEF Below
  <2>6. \A c \in DOMAIN live : live[c] \in Nat
    BY <2>3
  <2>7. ASSUME NEW T, SetOK(T, slots, live, stack_ptr) PROVE SetOK(T, slots, live2, sp2)
    BY <1>2, <1>9, <2>5, <2>6, <2>7, SetStays
  <2>8. low <= stack_ptr /\ low \in Nat
    BY <1>1, <1>2 DEF Under, SlotsOK
  <2>9. FramesOK(m2, slots, live2, low, cs)
    <3> SUFFICES ASSUME NEW c \in DOMAIN live2 \ {0} PROVE FrameOK(m2, slots, live2, low, cs[c], live2[c])
      BY DEF FramesOK
    <3>1. CASE c \in DOMAIN live
      <4>1. FrameOK(m2, slots, live, low, conts[c], live[c])
        BY <2>2, <3>1 DEF FramesOK
      <4>2. cs[c] = conts[c] /\ live2[c] = live[c] /\ live[c] \in Nat
        BY <1>11, <2>3, <3>1
      <4>3. Clear(m2, m2, low, StackBytes)
        <5>1. Outside(m2, m2, 0, 0)
          BY DEF Outside
        <5>2. 0 \in Nat /\ 0 <= stack + low
          BY <2>8, GlobalsFacts
        <5> QED
          BY <5>1, <5>2 DEF Clear
      <4>4. live[c] <= StackBytes /\ StackBytes \in Nat
        BY <4>1, GlobalsFacts DEF FrameOK
      <4> DEFINE top == live[c]
                 cont == conts[c]
      <4>5. top \in Nat /\ top <= StackBytes /\ FrameOK(m2, slots, live, low, cont, top) /\ Below(live, live2, top)
        BY <2>5, <4>1, <4>2, <4>4
      <4> HIDE DEF top, cont
      <4>6. FrameOK(m2, slots, live2, low, cont, top)
        BY <2>1, <2>6, <2>8, <4>3, <4>4, <4>5, FrameStays
      <4> QED
        BY <4>2, <4>6 DEF top, cont
    <3>2. CASE c = n + 1
      <4>1. cs[c] = l.cont /\ live2[c] = sp2 /\ l.cont.spilled = spilled
        BY <1>6, <1>11, <2>3, <3>2
      <4>2. SetOK(S, slots, live2, stack_ptr)
        <5>1. stack_ptr <= stack_ptr
          BY <1>2
        <5> QED
          BY <1>2, <1>3, <2>5, <2>6, <5>1, SetStays
      <4>3. ListOK(spilled, slots, live2, stack_ptr)
        BY <1>4, <4>2 DEF ListOK
      <4>4. Stacked(m2, stack_ptr, sp2, Reverse(spilled))
        BY <2>1 DEF r
      <4> QED
        BY <1>2, <1>9, <1>13, <2>8, <4>1, <4>3, <4>4 DEF FrameOK
    <3> QED
      BY <2>3, <3>1, <3>2
  <2>10. Under(live2, low, sp2)
    <3>1. low <= sp2
      BY <1>2, <1>9, <2>8
    <3>2. ASSUME NEW c \in DOMAIN live PROVE live[c] <= sp2
      <4> DEFINE x == live[c]
      <4>1. x <= stack_ptr /\ x \in Nat
        BY <1>2, <2>3 DEF Under
      <4> HIDE DEF x
      <4>2. stack_ptr \in Nat /\ sp2 \in Nat /\ stack_ptr <= sp2
        BY <1>2, <1>9
      <4>3. x <= sp2
        BY <4>1, <4>2
      <4> QED
        BY <4>3 DEF x
    <3> QED
      BY <1>9, <2>3, <3>1, <3>2 DEF Under
  <2>11. ValueOK(l.jp, slots, live2, sp2)
    <3>1. l.jp.role # "slot"
      BY <1>10
    <3>2. n + 1 \in DOMAIN live2 /\ live2[n + 1] = sp2 /\ sp2 <= sp2
      BY <1>9, <2>3
    <3> QED
      BY <1>10, <3>1, <3>2 DEF ValueOK
  <2> QED
    BY <2>1, <2>2, <2>4, <2>7, <2>9, <2>10, <2>11
<1> QED
  BY <1>9, <1>10, <1>11, <1>12, <1>13 DEF Lifted

-----------------------------------------------------------------------------
(* Every step keeps the invariant.                                                          *)
LEMMA ControlStep ==
  ASSUME NEW live, NEW slots, NEW low, Common(live, slots, low), AtRunning(live, slots, low), Control
  PROVE  LaneInv'
<1>1. PICK spilled \in Frontiers, yields \in YieldTypes :
        LET lifted == Lift(Lane(memory_private, stack_ptr), "jp", spilled, yields)
        IN  /\ Room(lifted.lane)
            /\ SetLane(lifted.lane)
            /\ values' = Append(values, lifted.jp)
            /\ conts' = Append(conts, lifted.cont)
  BY DEF Control
<1>2. UNCHANGED <<steps, memory_global, next, holds>>
  BY DEF Control
<1>3. PICK l : l = Lift(Lane(memory_private, stack_ptr), "jp", spilled, yields)
  OBVIOUS
<1>4. l.lane.sp <= StackBytes /\ memory_private' = l.lane.memory /\ stack_ptr' = l.lane.sp
      /\ values' = Append(values, l.jp) /\ conts' = Append(conts, l.cont)
  BY <1>1, <1>3 DEF Room, SetLane
<1>5. PICK n, cs, m2, sp2 : n = Len(conts) /\ cs = Append(conts, l.cont) /\ m2 = l.lane.memory /\ sp2 = l.lane.sp
  OBVIOUS
<1>6. PICK live2 : live2 = WithTail(live, n + 1, sp2)
  OBVIOUS
<1>7. "jp" \in {"jp", "return"}
  OBVIOUS
<1>8. /\ sp2 \in Nat /\ sp2 % 4 = 0
      /\ l.jp.role = "jp"
      /\ n \in Nat /\ Len(cs) = n + 1 /\ (\E S : cs \in Seq(S))
      /\ \A c \in 1 .. Len(cs) : cs[c].yields \in YieldTypes
      /\ sp2 <= StackBytes =>
           /\ IsMemory(m2) /\ HoldsOK(m2, memory_global, slots, holds)
           /\ LiveOK(live2, n + 1) /\ FramesOK(m2, slots, live2, low, cs) /\ Under(live2, low, sp2)
           /\ ValueOK(l.jp, slots, live2, sp2)
           /\ \A S : SetOK(S, slots, live, stack_ptr) => SetOK(S, slots, live2, sp2)
  <2>1. Lifted(l, "jp", live, slots, low, m2, sp2, n, cs, live2)
    BY <1>3, <1>5, <1>6, <1>7, LiftFacts
  <2> QED
    BY <2>1 DEF Lifted
<1>9. /\ sp2 <= StackBytes /\ memory_private' = m2 /\ stack_ptr' = sp2 /\ conts' = cs
      /\ memory_global' = memory_global /\ holds' = holds /\ next' = next
  BY <1>2, <1>4, <1>5
<1>10. Common(live2, slots, low)'
  BY <1>8, <1>9 DEF Common
<1>11. ListOK(values', slots, live2, sp2)
  <2>1. PICK S : values \in Seq(S) /\ SetOK(S, slots, live, stack_ptr)
    BY DEF AtRunning, ListOK
  <2>2. SetOK(S \cup {l.jp}, slots, live2, sp2)
    BY <1>8, <1>9, <2>1, AddValue
  <2> DEFINE x == l.jp
  <2> HIDE DEF x
  <2>3. Append(values, x) \in Seq(S \cup {x})
    BY <2>1, Extended
  <2> QED
    BY <1>4, <2>2, <2>3 DEF ListOK, x
<1>12. AtRunning(live2, slots, low)'
  <2>1. next' = Running
    BY <1>9 DEF AtRunning
  <2> QED
    BY <1>8, <1>9, <1>11, <2>1 DEF AtRunning, IsStackPtr, Running
<1> QED
  BY <1>10, <1>12 DEF LaneInv

LEMMA CallStep ==
  ASSUME NEW live, NEW slots, NEW low, Common(live, slots, low), AtRunning(live, slots, low), Call
  PROVE  LaneInv'
<1>1. PICK spilled \in Frontiers, yields \in YieldTypes, args \in {<<>>} \cup {<<v>> : v \in Passed} :
        LET lifted == Lift(Lane(memory_private, stack_ptr), "return", spilled, yields)
            nargs == Append(args, lifted.jp)
            lane == push_values(lifted.lane, nargs)
        IN  /\ Room(lane)
            /\ SetLane(lane)
            /\ conts' = Append(conts, lifted.cont)
            /\ next' = [kind |-> "function", args |-> nargs]
  BY DEF Call
<1>2. values' = <<>> /\ UNCHANGED <<steps, memory_global, holds>>
  BY DEF Call
<1>3. PICK l : l = Lift(Lane(memory_private, stack_ptr), "return", spilled, yields)
  OBVIOUS
<1>4. PICK nargs, lane : nargs = Append(args, l.jp) /\ lane = push_values(l.lane, nargs)
  OBVIOUS
<1>5. lane.sp <= StackBytes /\ memory_private' = lane.memory /\ stack_ptr' = lane.sp
      /\ conts' = Append(conts, l.cont) /\ next' = [kind |-> "function", args |-> nargs]
  BY <1>1, <1>3, <1>4 DEF Room, SetLane
<1>6. PICK n, cs, m2, sp2 : n = Len(conts) /\ cs = Append(conts, l.cont) /\ m2 = l.lane.memory /\ sp2 = l.lane.sp
  OBVIOUS
<1>7. PICK live2 : live2 = WithTail(live, n + 1, sp2)
  OBVIOUS
<1>8. "return" \in {"jp", "return"}
  OBVIOUS
<1>9. /\ l.lane = [memory |-> m2, sp |-> sp2, popped |-> <<>>]
      /\ sp2 \in Nat /\ sp2 % 4 = 0
      /\ l.jp.role = "return" /\ l.jp.is[payload_path] = sp2 /\ l.jp.type = JoinPoint
      /\ n \in Nat /\ Len(cs) = n + 1 /\ (\E S : cs \in Seq(S))
      /\ \A c \in 1 .. Len(cs) : cs[c].yields \in YieldTypes
      /\ sp2 <= StackBytes =>
           /\ IsMemory(m2) /\ HoldsOK(m2, memory_global, slots, holds)
           /\ LiveOK(live2, n + 1) /\ FramesOK(m2, slots, live2, low, cs) /\ Under(live2, low, sp2)
           /\ ValueOK(l.jp, slots, live2, sp2)
           /\ \A S : SetOK(S, slots, live, stack_ptr) => SetOK(S, slots, live2, sp2)
  <2>1. Lifted(l, "return", live, slots, low, m2, sp2, n, cs, live2)
    BY <1>3, <1>6, <1>7, <1>8, LiftFacts
  <2> QED
    BY <2>1 DEF Lifted
<1>10. PICK S : values \in Seq(S) /\ SetOK(S, slots, live, stack_ptr)
  BY DEF AtRunning, ListOK
<1> DEFINE x == l.jp
           T == Passed \cup {x}
<1>11. Passed \subseteq S
  <2>1. ToSet(values) \subseteq S
    BY <1>10 DEF ToSet
  <2> QED
    BY <2>1 DEF Passed
<1>12. nargs \in Seq(T) /\ Len(nargs) \in Nat /\ Len(nargs) >= 1 /\ nargs[Len(nargs)] = x
  <2> HIDE DEF x
  <2>1. args \in Seq(Passed)
    <3>1. CASE args = <<>>
      BY <3>1
    <3>2. CASE args \in {<<v>> : v \in Passed}
      <4>1. PICK v \in Passed : args = <<v>>
        BY <3>2
      <4> QED
        BY <4>1
    <3> QED
      BY <3>1, <3>2
  <2>2. /\ Append(args, x) \in Seq(Passed \cup {x})
        /\ Len(Append(args, x)) = Len(args) + 1 /\ Append(args, x)[Len(args) + 1] = x
    BY <2>1, Extended
  <2>3. Len(args) \in Nat /\ nargs = Append(args, x)
    BY <1>4, <2>1 DEF x
  <2> QED
    BY <2>2, <2>3
<1>13. \A v \in T : Sound(v)
  <2>1. Sound(x)
    <3>1. x = join_point("return", n + 1, sp2)
      BY <1>3, <1>6 DEF Lift
    <3> QED
      BY <1>8, <3>1, JoinPointValue
  <2>2. \A v \in Passed : Sound(v)
    BY <1>10, <1>11 DEF SetOK, ValueOK
  <2> QED
    BY <2>1, <2>2
<1>14. \A i \in 1 .. Len(nargs) : nargs[i] \in T /\ Sound(nargs[i])
  <2> HIDE DEF T
  <2> QED
    BY <1>12, <1>13
<1>15. /\ lane.sp \in Nat /\ lane.sp % 4 = 0 /\ sp2 <= lane.sp
       /\ \A i \in 1 .. Len(nargs) : sp2 + size_of(nargs[i].type) <= lane.sp
       /\ IsMemory(m2) /\ lane.sp <= StackBytes =>
            /\ IsMemory(lane.memory)
            /\ Outside(m2, lane.memory, stack + sp2, stack + lane.sp)
            /\ Stacked(lane.memory, sp2, lane.sp, nargs)
  <2>1. lane = push_values([memory |-> m2, sp |-> sp2, popped |-> <<>>], nargs)
    BY <1>4, <1>9
  <2> QED
    BY <1>9, <1>12, <1>14, <2>1, PushValues
<1>16. sp2 <= StackBytes
  <2>1. StackBytes \in Nat
    BY GlobalsFacts
  <2> QED
    BY <1>5, <1>9, <1>15, <2>1
<1>17. /\ IsMemory(m2) /\ HoldsOK(m2, memory_global, slots, holds)
       /\ LiveOK(live2, n + 1) /\ FramesOK(m2, slots, live2, low, cs) /\ Under(live2, low, sp2)
       /\ ValueOK(x, slots, live2, sp2)
       /\ SetOK(S, slots, live2, sp2)
  BY <1>9, <1>10, <1>16
<1>18. /\ IsMemory(lane.memory) /\ Outside(m2, lane.memory, stack + sp2, stack + lane.sp)
       /\ Stacked(lane.memory, sp2, lane.sp, nargs)
  BY <1>5, <1>15, <1>17
<1>19. PICK m3, sp3 : m3 = lane.memory /\ sp3 = lane.sp
  OBVIOUS
<1>20. SlotsOK(slots, low)
  BY DEF Common
<1>21. HoldsOK(m3, memory_global, slots, holds) /\ FramesOK(m3, slots, live2, low, cs)
  <2>1. IsMemory(m3) /\ sp3 \in Nat /\ sp3 <= StackBytes /\ Outside(m2, m3, stack + sp2, stack + sp3)
    BY <1>5, <1>15, <1>18, <1>19
  <2> QED
    BY <1>9, <1>17, <1>20, <2>1, PushKeeps
<1>22. /\ memory_private' = m3 /\ stack_ptr' = sp3 /\ conts' = cs
       /\ memory_global' = memory_global /\ holds' = holds /\ IsMemory(m3)
  BY <1>2, <1>5, <1>6, <1>18, <1>19
<1>23. IsGlobalMemory(memory_global)
  BY DEF Common
<1>24. Common(live2, slots, low)'
  BY <1>9, <1>17, <1>20, <1>21, <1>22, <1>23 DEF Common
<1>25. SetOK(T, slots, live2, sp2)
  <2>1. SetOK(Passed, slots, live2, sp2)
    BY <1>11, <1>17, SomeValues
  <2>2. \A v \in Passed : v.role \in {"data", "slot"}
    BY DEF Passed
  <2>3. x.role = "return"
    BY <1>9
  <2> HIDE DEF x
  <2> QED
    BY <1>17, <2>1, <2>2, <2>3 DEF SetOK
<1>26. \A v \in T : v.role # "saved" /\ (v.role = "return" => v.is[payload_path] = sp2)
  <2>1. \A v \in Passed : v.role \in {"data", "slot"}
    BY DEF Passed
  <2> QED
    BY <1>9, <2>1
<1>27. IsStackPtr(sp3) /\ sp3 > 0
  <2>1. sp2 + size_of(JoinPoint) <= lane.sp
    <3>1. Len(nargs) \in 1 .. Len(nargs)
      BY <1>12
    <3> QED
      BY <1>9, <1>12, <1>15, <3>1
  <2>2. size_of(JoinPoint) \in Nat /\ size_of(JoinPoint) > 0
    BY JoinPointFacts
  <2> QED
    BY <1>5, <1>9, <1>15, <1>19, <2>1, <2>2 DEF IsStackPtr
<1>28. AtFunction(live2, slots, low)'
  <2>1. Stacked(m3, sp2, sp3, nargs)
    BY <1>18, <1>19
  <2> HIDE DEF T
  <2>2. /\ next' = [kind |-> "function", args |-> nargs]
        /\ nargs \in Seq(T) /\ SetOK(T, slots, live2, sp2)
        /\ \A v \in T : v.role # "saved" /\ (v.role = "return" => v.is[payload_path] = sp2)
        /\ sp2 \in Nat /\ sp2 % 4 = 0 /\ Under(live2, low, sp2)
        /\ Stacked(m3, sp2, sp3, nargs)
    BY <1>5, <1>9, <1>12, <1>17, <1>25, <1>26, <2>1
  <2>3. PICK T2 : T2 = T
    OBVIOUS
  <2> QED
    BY <1>2, <1>22, <1>27, <2>2, <2>3 DEF AtFunction
<1> QED
  BY <1>24, <1>28 DEF LaneInv
(* What is below a stack pointer keeps its frame when the rest is given up.                 *)
Trimmed(live, sp) == [c \in {e \in DOMAIN live : live[e] <= sp} |-> live[c]]

LEMMA TrimmedFacts ==
  ASSUME NEW live, NEW n, LiveOK(live, n), NEW slots, NEW low, SlotsOK(slots, low),
         NEW m, IsMemory(m), NEW cs, FramesOK(m, slots, live, low, cs), NEW sp \in Nat
  PROVE  /\ LiveOK(Trimmed(live, sp), n)
         /\ FramesOK(m, slots, Trimmed(live, sp), low, cs)
         /\ \A c \in DOMAIN Trimmed(live, sp) : Trimmed(live, sp)[c] <= sp
         /\ \A top \in Nat : top <= sp => Below(live, Trimmed(live, sp), top)
<1>1. PICK live2 : live2 = Trimmed(live, sp)
  OBVIOUS
<1>2. /\ DOMAIN live2 = {e \in DOMAIN live : live[e] <= sp}
      /\ \A c \in DOMAIN live2 : c \in DOMAIN live /\ live2[c] = live[c] /\ live2[c] <= sp
  BY <1>1 DEF Trimmed
<1>3. \A c \in DOMAIN live : live[c] \in Nat /\ live[c] % 4 = 0
  BY DEF LiveOK
<1>4. LiveOK(live2, n)
  <2>1. live[0] = 0 /\ 0 \in DOMAIN live /\ 0 <= sp /\ DOMAIN live \subseteq 0 .. n
    BY DEF LiveOK
  <2>2. 0 \in DOMAIN live2 /\ live2[0] = 0
    BY <1>2, <2>1
  <2>3. DOMAIN live2 \subseteq 0 .. n
    BY <1>2, <2>1
  <2>4. \A c \in DOMAIN live2 : live2[c] \in Nat /\ live2[c] % 4 = 0
    BY <1>2, <1>3
  <2> QED
    BY <2>2, <2>3, <2>4 DEF LiveOK
<1>5. ASSUME NEW top \in Nat, top <= sp PROVE Below(live, live2, top)
  <2> SUFFICES ASSUME NEW c \in DOMAIN live, live[c] <= top PROVE c \in DOMAIN live2 /\ live2[c] = live[c]
    BY DEF Below
  <2>1. live[c] \in Nat
    BY <1>3
  <2> DEFINE x == live[c]
  <2>2. x \in Nat /\ x <= top
    BY <2>1
  <2> HIDE DEF x
  <2>3. x <= sp
    BY <1>5, <2>2
  <2> QED
    BY <1>2, <2>3 DEF x
<1>6. ASSUME NEW c \in DOMAIN live2 \ {0} PROVE FrameOK(m, slots, live2, low, cs[c], live2[c])
  <2> DEFINE top == live[c]
             cont == cs[c]
  <2>1. c \in DOMAIN live /\ live2[c] = top /\ top <= sp /\ top \in Nat
    BY <1>2, <1>3
  <2>2. FrameOK(m, slots, live, low, cont, top)
    BY <2>1 DEF FramesOK
  <2> HIDE DEF top, cont
  <2>3. Below(live, live2, top)
    BY <1>5, <2>1
  <2>4. low \in Nat /\ \A e \in DOMAIN live : live[e] \in Nat
    BY <1>3 DEF SlotsOK
  <2>5. Clear(m, m, low, sp)
    <3>1. Outside(m, m, 0, 0)
      BY DEF Outside
    <3>2. 0 \in Nat /\ 0 <= stack + low
      BY <2>4, GlobalsFacts
    <3> QED
      BY <3>1, <3>2 DEF Clear
  <2>6. FrameOK(m, slots, live2, low, cont, top)
    BY <2>1, <2>2, <2>3, <2>4, <2>5, FrameStays
  <2> QED
    BY <2>1, <2>6 DEF cont
<1> QED
  BY <1>1, <1>2, <1>4, <1>5, <1>6 DEF FramesOK

LEMMA LowestFrame ==
  ASSUME NEW m, NEW slots, NEW live, NEW n, LiveOK(live, n), NEW low, SlotsOK(slots, low), NEW cs,
         FramesOK(m, slots, live, low, cs), NEW d \in DOMAIN live, d # 0
  PROVE  low <= live[d]
<1>1. FrameOK(m, slots, live, low, cs[d], live[d])
  BY DEF FramesOK
<1>2. live[d] \in Nat /\ low \in Nat
  BY DEF LiveOK, SlotsOK
<1> DEFINE x == live[d]
<1>3. \E base \in Nat : low <= base /\ base <= x
  BY <1>1 DEF FrameOK
<1>4. x \in Nat /\ low \in Nat
  BY <1>2
<1> HIDE DEF x
<1>5. low <= x
  BY <1>3, <1>4
<1> QED
  BY <1>5 DEF x

(* A join or a return (lower_tailcalls.c): what is yielded and the payload go on top of     *)
(* what the tail it leads to expects.                                                       *)
LEMMA JoinToStep ==
  ASSUME NEW live, NEW slots, NEW low, Common(live, slots, low),
         NEW sp0, IsStackPtr(sp0),
         NEW jp, NEW d \in DOMAIN live, jp.meant[destination_path] = d, jp.is[payload_path] = live[d],
         live[d] <= sp0,
         NEW S, NEW args \in Seq(S), DataOK(S),
         JoinTo(Lane(memory_private, sp0), jp, args),
         values' = <<>>, UNCHANGED <<memory_global, conts, holds>>
  PROVE  LaneInv'
<1>1. PICK payload, l1, l2 : /\ payload = Value(U32, "data", <<live[d]>>, NoPlace)
                             /\ l1 = push_values(Lane(memory_private, sp0), args)
                             /\ l2 = push(l1, payload)
  OBVIOUS
<1>2. /\ l2.sp <= StackBytes /\ memory_private' = l2.memory /\ stack_ptr' = l2.sp
      /\ next' = IF d = 0 THEN [kind |-> "exit"]
                 ELSE [kind |-> "continuation", destination |-> d, payload |-> payload, args |-> args]
  BY <1>1 DEF JoinTo, Room, SetLane
<1>3. PICK m1, sp1, m2, sp2 : m1 = l1.memory /\ sp1 = l1.sp /\ m2 = l2.memory /\ sp2 = l2.sp
  OBVIOUS
<1>4. /\ IsMemory(memory_private) /\ SlotsOK(slots, low)
      /\ HoldsOK(memory_private, memory_global, slots, holds)
      /\ LiveOK(live, Len(conts)) /\ FramesOK(memory_private, slots, live, low, conts)
      /\ IsGlobalMemory(memory_global)
  BY DEF Common
<1>5. sp0 \in Nat /\ sp0 % 4 = 0 /\ sp0 <= StackBytes /\ StackBytes \in Nat /\ stack \in Nat
  BY GlobalsFacts DEF IsStackPtr
<1>6. live[d] \in Nat /\ live[d] % 4 = 0
  BY <1>4 DEF LiveOK
<1>7. Sound(payload) /\ size_of(payload.type) = 4
  <2> DEFINE is == <<live[d]>>
  <2>1. is = [path \in {1} |-> is[path]]
    OBVIOUS
  <2>2. DOMAIN words_of(U32) = {1} /\ size_of(U32) = 4
    BY WordTypes
  <2> HIDE DEF is
  <2>3. IsValue(U32, is)
    BY <2>1, <2>2 DEF IsValue
  <2>4. payload = Value(U32, "data", is, NoPlace)
    BY <1>1 DEF is
  <2> QED
    BY <2>2, <2>3, <2>4, TheWholeTypes, NewValue
<1>8. Len(args) \in Nat /\ \A i \in 1 .. Len(args) : Sound(args[i])
  <2>1. \A i \in 1 .. Len(args) : args[i] \in S
    OBVIOUS
  <2> QED
    BY <2>1 DEF DataOK
<1>9. /\ l1 = [memory |-> m1, sp |-> sp1, popped |-> <<>>]
      /\ sp1 \in Nat /\ sp1 % 4 = 0 /\ sp0 <= sp1
      /\ sp1 <= StackBytes =>
           /\ IsMemory(m1)
           /\ Outside(memory_private, m1, stack + sp0, stack + sp1)
           /\ Stacked(m1, sp0, sp1, args)
  <2>1. l1 = push_values([memory |-> memory_private, sp |-> sp0, popped |-> <<>>], args)
    BY <1>1 DEF Lane
  <2>2. /\ l1 = [memory |-> l1.memory, sp |-> l1.sp, popped |-> <<>>]
        /\ l1.sp \in Nat /\ l1.sp % 4 = 0 /\ sp0 <= l1.sp
        /\ l1.sp <= StackBytes =>
             /\ IsMemory(l1.memory)
             /\ Outside(memory_private, l1.memory, stack + sp0, stack + l1.sp)
             /\ Stacked(l1.memory, sp0, l1.sp, args)
    BY <1>4, <1>5, <1>8, <2>1, PushValues
  <2> QED
    BY <1>3, <2>2
<1>10. sp2 = sp1 + 4
  <2>1. l2 = push([memory |-> m1, sp |-> sp1, popped |-> <<>>], payload)
    BY <1>1, <1>9
  <2>2. l2 = [memory |-> gen_serialisation(payload.type, m1, stack_element(sp1), payload.is),
              sp |-> sp1 + size_of(payload.type), popped |-> <<>>]
    BY <2>1, PushRecord
  <2> QED
    BY <1>3, <1>7, <2>2
<1>11. sp2 <= StackBytes /\ sp1 <= StackBytes /\ sp2 \in Nat
  BY <1>2, <1>3, <1>5, <1>9, <1>10
<1>12. \A v \in S : Sound(v)
  BY DEF DataOK
<1>13. /\ sp2 % 4 = 0 /\ sp1 <= sp2
       /\ IsMemory(m2)
       /\ Outside(m1, m2, stack + sp1, stack + sp2)
       /\ Stacked(m2, sp0, sp2, <<payload>> \o args)
  <2>1. l2 = push([memory |-> m1, sp |-> sp1, popped |-> <<>>], payload)
    BY <1>1, <1>9
  <2>2. IsMemory(m1) /\ Stacked(m1, sp0, sp1, args)
    BY <1>9, <1>11
  <2>3. /\ l2.sp \in Nat /\ l2.sp % 4 = 0 /\ sp1 <= l2.sp
        /\ l2.sp <= StackBytes => /\ IsMemory(l2.memory)
                                  /\ Outside(m1, l2.memory, stack + sp1, stack + l2.sp)
                                  /\ Stacked(l2.memory, sp0, l2.sp, <<payload>> \o args)
    BY <1>5, <1>7, <1>9, <1>12, <2>1, <2>2, PushMore
  <2> QED
    BY <1>2, <1>3, <2>3
<1>14. Outside(memory_private, m2, stack + sp0, stack + sp2)
  <2>1. stack + sp0 \in Nat /\ stack + sp1 \in Nat /\ stack + sp2 \in Nat
        /\ stack + sp0 <= stack + sp1 /\ stack + sp1 <= stack + sp2
    <3>1. stack \in Nat /\ sp0 \in Nat /\ sp1 \in Nat /\ sp2 \in Nat /\ sp0 <= sp1 /\ sp1 <= sp2
      BY <1>5, <1>9, <1>11, <1>13
    <3> DEFINE x == stack
    <3>2. x \in Nat
      BY <3>1
    <3> HIDE DEF x
    <3>3. x + sp0 \in Nat /\ x + sp1 \in Nat /\ x + sp2 \in Nat /\ x + sp0 <= x + sp1 /\ x + sp1 <= x + sp2
      BY <3>1, <3>2
    <3> QED
      BY <3>3 DEF x
  <2>2. IsMemory(m1) /\ Outside(memory_private, m1, stack + sp0, stack + sp1)
    BY <1>9, <1>11
  <2> QED
    BY <1>4, <1>13, <2>1, <2>2, OutsideTrans
<1>15. /\ memory_private' = m2 /\ stack_ptr' = sp2 /\ conts' = conts
       /\ memory_global' = memory_global /\ holds' = holds /\ values' = <<>>
  BY <1>2, <1>3
<1>16. (\E T : conts \in Seq(T)) /\ \A c \in 1 .. Len(conts) : conts[c].yields \in YieldTypes
  BY DEF Common
<1>17. CASE d = 0
  <2>1. PICK live2 : live2 = [c \in {0} |-> 0]
    OBVIOUS
  <2>2. DOMAIN live2 = {0} /\ live2[0] = 0
    BY <2>1
  <2>3. LiveOK(live2, Len(conts))
    <3>1. {0} \subseteq 0 .. Len(conts)
      BY <1>4 DEF LiveOK
    <3>2. 0 \in Nat /\ 0 % 4 = 0
      OBVIOUS
    <3> QED
      BY <2>2, <3>1, <3>2 DEF LiveOK
  <2>4. SlotsOK({}, 0)
    BY <1>5 DEF SlotsOK
  <2>5. FramesOK(memory_private, {}, live2, 0, conts)
    BY <2>2 DEF FramesOK
  <2>6. HoldsOK(memory_private, memory_global, {}, holds)
    BY <1>4 DEF HoldsOK
  <2>7. Under(live2, 0, sp0)
    BY <1>5, <2>2 DEF Under
  <2>8. HoldsOK(m2, memory_global, {}, holds) /\ FramesOK(m2, {}, live2, 0, conts)
    BY <1>4, <1>5, <1>11, <1>13, <1>14, <2>3, <2>4, <2>5, <2>6, <2>7, PushKeeps
  <2>9. Common(live2, {}, 0)'
    BY <1>4, <1>13, <1>15, <1>16, <2>3, <2>4, <2>8 DEF Common
  <2>10. AtExit'
    BY <1>2, <1>15, <1>17 DEF AtExit
  <2> QED
    BY <2>9, <2>10 DEF LaneInv
<1>18. CASE d # 0
  <2>1. PICK live2 : live2 = Trimmed(live, sp0)
    OBVIOUS
  <2>2. /\ LiveOK(live2, Len(conts))
        /\ FramesOK(memory_private, slots, live2, low, conts)
        /\ \A c \in DOMAIN live2 : live2[c] <= sp0
    BY <1>4, <1>5, <2>1, TrimmedFacts
  <2>3. d \in DOMAIN live2 /\ live2[d] = live[d]
    BY <2>1 DEF Trimmed
  <2>4. Under(live2, low, sp0)
    <3>1. low <= live2[d]
      BY <1>4, <1>18, <2>2, <2>3, LowestFrame
    <3>2. low \in Nat /\ live[d] \in Nat
      BY <1>4, <1>6 DEF SlotsOK
    <3> DEFINE x == live[d]
    <3>3. low <= x /\ x <= sp0 /\ x \in Nat
      BY <2>3, <3>1, <3>2
    <3> HIDE DEF x
    <3>4. low <= sp0
      BY <1>5, <3>2, <3>3
    <3> QED
      BY <2>2, <3>4 DEF Under
  <2>5. HoldsOK(m2, memory_global, slots, holds) /\ FramesOK(m2, slots, live2, low, conts)
    BY <1>4, <1>5, <1>11, <1>13, <1>14, <2>2, <2>4, PushKeeps
  <2>6. Common(live2, slots, low)'
    BY <1>4, <1>13, <1>15, <1>16, <2>2, <2>5 DEF Common
  <2>7. IsStackPtr(sp2) /\ sp2 > 0
    BY <1>9, <1>10, <1>11, <1>13 DEF IsStackPtr
  <2>8. /\ next' = [kind |-> "continuation", destination |-> d, payload |-> payload, args |-> args]
        /\ payload = Value(U32, "data", <<live2[d]>>, NoPlace)
        /\ d \in DOMAIN live2 \ {0}
    BY <1>1, <1>2, <1>18, <2>3
  <2>9. AtContinuation(live2, slots, low)'
    <3>1. Stacked(m2, sp0, sp2, <<payload>> \o args)
      BY <1>13
    <3> QED
      BY <1>5, <1>15, <2>4, <2>7, <2>8, <3>1 DEF AtContinuation
  <2> QED
    BY <2>6, <2>9 DEF LaneInv
<1> QED
  BY <1>17, <1>18

(* What is yielded is data of the function.                                                 *)
LEMMA YieldedData ==
  ASSUME NEW live, NEW slots, NEW low, Common(live, slots, low), AtRunning(live, slots, low),
         NEW jp, NEW d \in DOMAIN live, jp.meant[destination_path] = d,
         NEW args \in Data(yield_types(jp))
  PROVE  \E S : args \in Seq(S) /\ DataOK(S)
<1>1. PICK T : values \in Seq(T) /\ SetOK(T, slots, live, stack_ptr)
  BY DEF AtRunning, ListOK
<1> DEFINE S == {v \in T : v.role = "data"}
<1>2. DataOK(S)
  BY <1>1 DEF DataOK, SetOK, ValueOK
<1>3. Passed \subseteq T
  <2>1. ToSet(values) \subseteq T
    BY <1>1 DEF ToSet
  <2> QED
    BY <2>1 DEF Passed
<1>4. PICK types : types = yield_types(jp)
  OBVIOUS
<1>5. Len(types) \in Nat /\ DOMAIN types = 1 .. Len(types)
  <2>1. CASE d = 0
    <3>1. types = <<>>
      BY <1>4, <2>1 DEF yield_types
    <3> QED
      BY <3>1
  <2>2. CASE d # 0
    <3>1. types = conts[d].yields
      BY <1>4, <2>2 DEF yield_types
    <3>2. d \in 1 .. Len(conts)
      BY <2>2 DEF Common, LiveOK
    <3>3. types \in YieldTypes
      BY <3>1, <3>2 DEF Common
    <3>4. types \in Seq(WholeTypes)
      BY <3>3, LaneStackAssumption
    <3> QED
      BY <3>4
  <2> QED
    BY <2>1, <2>2
<1>6. args \in [1 .. Len(types) -> Passed] /\ \A i \in 1 .. Len(types) : args[i].role = "data"
  BY <1>4, <1>5 DEF Data
<1>7. args \in [1 .. Len(types) -> S]
  BY <1>3, <1>6
<1> HIDE DEF S
<1>8. args \in Seq(S)
  BY <1>5, <1>7
<1> QED
  BY <1>2, <1>8

LEMMA JoinStep ==
  ASSUME NEW live, NEW slots, NEW low, Common(live, slots, low), AtRunning(live, slots, low), Join
  PROVE  LaneInv'
<1>1. PICK i \in DOMAIN values : /\ values[i].role = "jp"
                                 /\ \E args \in Data(yield_types(values[i])) :
                                      JoinTo(Lane(memory_private, stack_ptr), values[i], args)
  BY DEF Join
<1>2. PICK jp : jp = values[i]
  OBVIOUS
<1>3. PICK args \in Data(yield_types(jp)) : JoinTo(Lane(memory_private, stack_ptr), jp, args)
  BY <1>1, <1>2
<1>4. values' = <<>> /\ UNCHANGED <<memory_global, conts, holds>>
  BY DEF Join
<1>5. PICK T : values \in Seq(T) /\ SetOK(T, slots, live, stack_ptr)
  BY DEF AtRunning, ListOK
<1>6. ValueOK(jp, slots, live, stack_ptr)
  <2>1. jp \in T
    BY <1>2, <1>5
  <2> QED
    BY <1>5, <2>1 DEF SetOK
<1>7. PICK d \in DOMAIN live : jp.is[destination_path] = d /\ jp.is[payload_path] = live[d] /\ live[d] <= stack_ptr
  BY <1>1, <1>2, <1>6 DEF ValueOK
<1>8. jp.meant[destination_path] = d
  BY <1>6, <1>7 DEF ValueOK
<1>9. PICK S : args \in Seq(S) /\ DataOK(S)
  BY <1>3, <1>8, YieldedData
<1>10. IsStackPtr(stack_ptr)
  BY DEF AtRunning
<1> QED
  BY <1>3, <1>4, <1>7, <1>8, <1>9, <1>10, JoinToStep

LEMMA ReturnStep ==
  ASSUME NEW live, NEW slots, NEW low, Common(live, slots, low), AtRunning(live, slots, low), Return
  PROVE  LaneInv'
<1>1. PICK i \in DOMAIN values, j \in DOMAIN values :
        /\ values[i].role = "return"
        /\ values[j].role = "saved"
        /\ \E args \in Data(yield_types(values[i])) :
             JoinTo(Lane(memory_private, values[j].is[1]), values[i], args)
  BY DEF Return
<1>2. PICK jp, sp0 : jp = values[i] /\ sp0 = values[j].is[1]
  OBVIOUS
<1>3. PICK args \in Data(yield_types(jp)) : JoinTo(Lane(memory_private, sp0), jp, args)
  BY <1>1, <1>2
<1>4. values' = <<>> /\ UNCHANGED <<memory_global, conts, holds>>
  BY DEF Return
<1>5. PICK T : values \in Seq(T) /\ SetOK(T, slots, live, stack_ptr)
  BY DEF AtRunning, ListOK
<1>6. values[i] \in T /\ values[j] \in T
  BY <1>5
<1>7. ValueOK(jp, slots, live, stack_ptr)
  BY <1>2, <1>5, <1>6 DEF SetOK
<1>8. PICK d \in DOMAIN live : jp.is[destination_path] = d /\ jp.is[payload_path] = live[d] /\ live[d] <= stack_ptr
  BY <1>1, <1>2, <1>7 DEF ValueOK
<1>9. jp.meant[destination_path] = d
  BY <1>7, <1>8 DEF ValueOK
<1>10. sp0 = live[d]
  BY <1>1, <1>2, <1>5, <1>6, <1>8 DEF SetOK
<1>11. PICK S : args \in Seq(S) /\ DataOK(S)
  BY <1>3, <1>9, YieldedData
<1>12. IsStackPtr(sp0) /\ live[d] <= sp0
  <2>1. live[d] \in Nat /\ live[d] % 4 = 0
    BY DEF Common, LiveOK
  <2>2. stack_ptr \in Nat /\ stack_ptr <= StackBytes /\ StackBytes \in Nat
    BY GlobalsFacts DEF AtRunning, IsStackPtr
  <2>3. sp0 \in Nat /\ sp0 % 4 = 0 /\ sp0 <= stack_ptr
    BY <1>8, <1>10, <2>1
  <2>4. sp0 <= StackBytes /\ sp0 <= sp0
    BY <2>2, <2>3
  <2> QED
    BY <1>10, <2>3, <2>4 DEF IsStackPtr
<1> QED
  BY <1>3, <1>4, <1>8, <1>9, <1>11, <1>12, JoinToStep
LEMMA NoFrame ==
  /\ \A entered : alloca(entered, <<>>) = <<>>
  /\ HoldNothing(<<>>) => DOMAIN holds' = DOMAIN holds /\ \A id \in DOMAIN holds : holds'[id] = holds[id]
<1>1. \A entered : alloca(entered, <<>>) = <<>>
  BY DEF alloca
<1>2. {v.to.id : v \in ToSet(<<>>)} = {}
  BY DEF ToSet
<1>3. HoldNothing(<<>>) => holds' = [id \in DOMAIN holds \ {} |-> holds[id]]
  BY <1>2 DEF HoldNothing
<1> QED
  BY <1>1, <1>3

(* A function is entered that has no slots.                                                 *)
LEMMA EnterPlain ==
  ASSUME NEW live, NEW slots, NEW low, Common(live, slots, low),
         NEW base, IsStackPtr(base), Under(live, low, base),
         NEW S, NEW vs, vs \in Seq(S), SetOK(S, slots, live, base),
         memory_private' = memory_private, stack_ptr' = base, values' = vs, HoldNothing(<<>>),
         next' = Running, UNCHANGED <<memory_global, conts>>
  PROVE  LaneInv'
<1>1. DOMAIN holds' = DOMAIN holds /\ \A id \in DOMAIN holds : holds'[id] = holds[id]
  BY NoFrame
<1>2. HoldsOK(memory_private, memory_global, slots, holds')
  BY <1>1 DEF Common, HoldsOK
<1>3. memory_global' = memory_global /\ conts' = conts
  OBVIOUS
<1>4. Common(live, slots, low)'
  BY <1>2, <1>3 DEF Common
<1>5. ListOK(vs, slots, live, base)
  BY DEF ListOK
<1>6. AtRunning(live, slots, low)'
  BY <1>5 DEF AtRunning, Running
<1> QED
  BY <1>4, <1>6 DEF LaneInv

LEMMA StackedUp ==
  ASSUME NEW m, NEW base \in Nat, NEW top, NEW vs, Len(vs) \in Nat, Stacked(m, base, top, vs)
  PROVE  top \in Nat /\ base <= top
<1>1. 0 \in 0 .. Len(vs)
  OBVIOUS
<1> QED
  BY <1>1 DEF Stacked, StackedFrom

(* A value of setup_stack_frames.c.                                                         *)
LEMMA SavedValue ==
  ASSUME NEW lane, NEW slots, NEW live, NEW top
  PROVE  LET v == saved_stack_ptr(lane) IN
         ValueOK(v, slots, live, top) /\ v.role = "saved" /\ v.is[1] = lane.sp
<1> DEFINE is == <<lane.sp>>
<1>1. is = [path \in {1} |-> is[path]] /\ is[1] = lane.sp
  OBVIOUS
<1>2. DOMAIN words_of(U32) = {1}
  BY WordTypes
<1> HIDE DEF is
<1>3. IsValue(U32, is)
  BY <1>1, <1>2 DEF IsValue
<1>4. saved_stack_ptr(lane) = Value(U32, "saved", is, NoPlace)
  BY DEF saved_stack_ptr, is
<1> QED
  BY <1>1, <1>3, <1>4, NewValue, TheWholeTypes DEF ValueOK

LEMMA EnterFunctionStep ==
  ASSUME ~AllocaAnywhere,
         NEW live, NEW slots, NEW low, Common(live, slots, low), AtFunction(live, slots, low), EnterFunction
  PROVE  LaneInv'
<1>1. PICK args, S, base :
       /\ next = [kind |-> "function", args |-> args]
       /\ args \in Seq(S) /\ SetOK(S, slots, live, base)
       /\ \A v \in S : v.role # "saved" /\ (v.role = "return" => v.is[payload_path] = base)
       /\ base \in Nat /\ base % 4 = 0 /\ Under(live, low, base)
       /\ Stacked(memory_private, base, stack_ptr, args)
  BY DEF AtFunction
<1>2. stack_ptr \in Nat /\ stack_ptr <= StackBytes /\ stack_ptr > 0 /\ StackBytes \in Nat
  BY GlobalsFacts DEF AtFunction, IsStackPtr
<1>3. PICK entered : entered = Lane(memory_private, stack_ptr)
  OBVIOUS
<1>4. PICK lane : lane = pop_values(entered, args)
  OBVIOUS
<1>5. next.kind = "function" /\ next.args = args
  BY <1>1
<1>6. Frames(entered) = {<<>>}
  <2>1. entered.sp = stack_ptr
    BY <1>3 DEF Lane
  <2> QED
    BY <1>2, <2>1 DEF Frames
<1>7. /\ SetLane(lane)
      /\ values' = args \o <<>> \o <<saved_stack_ptr(lane)>> \o <<>>
      /\ HoldNothing(<<>>)
      /\ next' = Running /\ UNCHANGED <<memory_global, conts>>
      /\ lane = [memory |-> memory_private, sp |-> base, popped |-> args]
  <2>1. Len(args) \in Nat /\ \A i \in 1 .. Len(args) : Whole(args[i]) /\ Sound(args[i])
    <3>1. \A i \in 1 .. Len(args) : args[i] \in S
      BY <1>1
    <3> QED
      BY <1>1, <3>1 DEF SetOK, ValueOK
  <2>2. entered = [memory |-> memory_private, sp |-> stack_ptr, popped |-> <<>>]
    BY <1>3 DEF Lane
  <2>3. lane = [memory |-> memory_private, sp |-> base, popped |-> args]
    BY <1>1, <1>2, <1>4, <2>1, <2>2, PopValues
  <2>4. /\ SetLane(WithFrame(entered, lane, <<>>))
        /\ values' = lane.popped \o <<>> \o <<saved_stack_ptr(lane)>> \o alloca(entered, <<>>)
        /\ HoldNothing(alloca(entered, <<>>))
    BY <1>3, <1>4, <1>5, <1>6 DEF EnterFunction
  <2>5. WithFrame(entered, lane, <<>>) = lane
    BY DEF WithFrame
  <2>6. next' = Running /\ UNCHANGED <<memory_global, conts>>
    BY DEF EnterFunction
  <2> QED
    BY <2>3, <2>4, <2>5, <2>6, NoFrame
<1>8. memory_private' = memory_private /\ stack_ptr' = base
  BY <1>7 DEF SetLane
<1>9. PICK v : v = saved_stack_ptr(lane)
  OBVIOUS
<1>10. ValueOK(v, slots, live, base) /\ v.role = "saved" /\ v.is[1] = base
  <2>1. lane.sp = base
    BY <1>7
  <2> QED
    BY <1>9, <2>1, SavedValue
<1>11. SetOK(S \cup {v}, slots, live, base)
  BY <1>1, <1>10 DEF SetOK
<1>12. PICK vs : vs = args \o <<>> \o <<v>> \o <<>>
  OBVIOUS
<1>13. vs \in Seq(S \cup {v})
  BY <1>1, <1>12
<1>14. IsStackPtr(base)
  <2>1. base <= stack_ptr
    <3>1. Len(args) \in Nat
      BY <1>1
    <3> QED
      BY <1>1, <3>1, StackedUp
  <2>2. base <= StackBytes
    BY <1>1, <1>2, <2>1
  <2> QED
    BY <1>1, <2>2 DEF IsStackPtr
<1> QED
  BY <1>1, <1>7, <1>8, <1>9, <1>11, <1>12, <1>13, <1>14, EnterPlain
PointersTo(a, frame) == {a[i] : i \in DOMAIN frame}
Pointees(A) == {v.to : v \in A}

(* The slots of the entry point (lower_alloca.c) fill the frame from the bottom of the      *)
(* stack.                                                                                   *)
LEMMA FrameSlots ==
  ASSUME NEW frame \in FrameTypes, frame_size(frame) <= StackBytes, conts = <<>>,
         NEW entered, entered = Lane(memory_private, 0),
         NEW a, a = alloca(entered, frame), NEW A, A = PointersTo(a, frame),
         NEW slots, slots = Pointees(A), NEW live, NEW top
  PROVE  /\ SlotsOK(slots, frame_size(frame)) /\ IsStackPtr(frame_size(frame))
         /\ a \in Seq(A) /\ {v.to.id : v \in ToSet(a)} = {p.id : p \in slots}
         /\ \A v \in A : ValueOK(v, slots, live, top) /\ v.role = "slot"
<1> DEFINE t == RecordType(frame)
           size == size_of(t)
<1>0. A = {a[i] : i \in DOMAIN frame} /\ slots = {v.to : v \in A}
  BY DEF PointersTo, Pointees
<1>1. frame \in Seq(WholeTypes) /\ t \in WholeTypes /\ \A i \in DOMAIN frame : size_of(frame[i]) > 0
  <2>1. frame \in Seq({x \in WholeTypes : size_of(x) > 0}) /\ t \in WholeTypes
    BY LaneStackAssumption
  <2> QED
    BY <2>1
<1>2. t.tag = "Record" /\ t.members = frame /\ t \in ProgramTypes
  BY <1>1 DEF RecordType, WholeTypes
<1>3. size \in Nat /\ size % 4 = 0 /\ size <= StackBytes
  <2>1. size_of(t) \in Nat /\ size_of(t) % 4 = 0
    BY <1>1, <1>2, TypeFacts DEF WholeTypes, WordBytes
  <2> QED
    BY <2>1 DEF frame_size
<1> HIDE DEF t
<1>4. /\ \A k \in DOMAIN frame : /\ offset_of(t, k) \in Nat
                                 /\ offset_of(t, k) + size_of(frame[k]) <= size
                                 /\ offset_of(t, k) % 4 = 0
      /\ \A j, k \in DOMAIN frame : j < k => offset_of(t, j) + size_of(frame[j]) <= offset_of(t, k)
  BY <1>1, <1>2, RecordOffsets
<1>5. stack \in Nat /\ stack % 4 = 0 /\ StackBytes \in Nat
  BY GlobalsFacts
<1>6. \A k \in DOMAIN frame : k \in Nat /\ k >= 1 /\ frame[k] \in WholeTypes /\ size_of(frame[k]) \in Nat
  <2>1. \A k \in DOMAIN frame : k \in Nat /\ k >= 1 /\ frame[k] \in WholeTypes
    BY <1>1
  <2> QED
    BY <2>1, TypeFacts DEF WholeTypes
<1> DEFINE place(k) == Place(4 + k, "Private", stack + offset_of(t, k), frame[k])
<1>7. ASSUME NEW k \in DOMAIN frame
      PROVE  a[k] = Value(Ptr, "slot", <<stack + offset_of(t, k), 0>>, place(k))
  <2>1. get_stack_base_addr(entered) = stack /\ entered.sp = 0
    <3>1. entered.sp = 0
      BY DEF Lane
    <3>2. 0 \in Nat /\ stack + 0 = stack
      BY <1>5
    <3> QED
      BY <3>1, <3>2, StackElement DEF get_stack_base_addr
  <2>2. size_of(U8) = 1
    BY WordTypes
  <2> DEFINE o == offset_of(t, k)
             address == lower_ptr_offset(U8, get_stack_base_addr(entered), entered.sp + o)
  <2>3. o \in Nat
    BY <1>4
  <2>4. address = stack + (0 + o) * 1
    <3> HIDE DEF o
    <3> QED
      BY <2>1, <2>2 DEF lower_ptr_offset
  <2>5. address = stack + o
    <3> HIDE DEF o, address
    <3> QED
      BY <1>5, <2>3, <2>4
  <2>6. 4 + 10 * Len(conts) + k = 4 + k
    <3>1. Len(conts) = 0
      OBVIOUS
    <3> QED
      BY <1>6, <3>1
  <2>7. a[k] = Value(Ptr, "slot", <<address, 0>>, Place(4 + 10 * Len(conts) + k, "Private", address, frame[k]))
    BY DEF alloca, t
  <2> HIDE DEF address
  <2> QED
    BY <2>5, <2>6, <2>7
<1>8. ASSUME NEW k \in DOMAIN frame
      PROVE  /\ place(k).id = 4 + k /\ place(k).address = stack + offset_of(t, k) /\ place(k).type = frame[k]
             /\ place(k) = Place(place(k).id, "Private", place(k).address, place(k).type)
  BY DEF Place
<1> HIDE DEF place
<1>9. slots = {place(k) : k \in DOMAIN frame}
  <2>1. ASSUME NEW k \in DOMAIN frame PROVE a[k].to = place(k)
    <3> DEFINE is == <<stack + offset_of(t, k), 0>>
               to == place(k)
    <3>1. a[k] = Value(Ptr, "slot", is, to)
      BY <1>7
    <3> HIDE DEF is, to
    <3>2. a[k].to = to
      BY <3>1 DEF Value
    <3> QED
      BY <3>2 DEF to
  <2> QED
    BY <1>0, <2>1
<1>10. ASSUME NEW p \in slots
       PROVE  /\ p = Place(p.id, "Private", p.address, p.type)
              /\ p.id \in Nat /\ p.id >= 5
              /\ p.type \in WholeTypes /\ size_of(p.type) > 0
              /\ p.address \in Nat /\ p.address % 4 = 0
              /\ stack <= p.address /\ p.address + size_of(p.type) <= stack + size
  <2>1. PICK k \in DOMAIN frame : p = place(k)
    BY <1>9
  <2> DEFINE o == offset_of(t, k)
             s == size_of(frame[k])
  <2>2. o \in Nat /\ o % 4 = 0 /\ s \in Nat /\ s > 0 /\ o + s <= size
    BY <1>1, <1>4, <1>6
  <2>3. p.address = stack + o /\ p.id = 4 + k /\ p.type = frame[k] /\ p = Place(p.id, "Private", p.address, p.type)
    BY <1>8, <2>1
  <2>4. size_of(p.type) = s
    BY <2>3
  <2> HIDE DEF o, s, size
  <2>5. /\ stack + o \in Nat /\ (stack + o) % 4 = 0 /\ stack <= stack + o /\ (stack + o) + s <= stack + size
    <3> DEFINE x == stack
    <3>1. x \in Nat /\ x % 4 = 0
      BY <1>5
    <3>2. size \in Nat
      BY <1>3
    <3> HIDE DEF x
    <3>3. x + o \in Nat /\ (x + o) % 4 = 0
      BY <2>2, <3>1
    <3>4. x <= x + o /\ (x + o) + s <= x + size
      BY <2>2, <3>1, <3>2
    <3> QED
      BY <3>3, <3>4 DEF x
  <2>6. 4 + k \in Nat /\ 4 + k >= 5
    BY <1>6
  <2> QED
    BY <1>6, <2>2, <2>3, <2>4, <2>5, <2>6
<1>11. ASSUME NEW p \in slots, NEW q \in slots
       PROVE  /\ p.id = q.id => p = q
              /\ p # q => p.address + size_of(p.type) <= q.address \/ q.address + size_of(q.type) <= p.address
  <2>1. PICK j \in DOMAIN frame : p = place(j)
    BY <1>9
  <2>2. PICK k \in DOMAIN frame : q = place(k)
    BY <1>9
  <2>3. j \in Nat /\ k \in Nat
    BY <1>6
  <2>4. p.id = q.id => p = q
    BY <1>8, <2>1, <2>2, <2>3
  <2> DEFINE x == offset_of(t, j)
             y == offset_of(t, k)
             u == size_of(frame[j])
             w == size_of(frame[k])
  <2>5. x \in Nat /\ y \in Nat /\ u \in Nat /\ w \in Nat /\ (j < k => x + u <= y) /\ (k < j => y + w <= x)
    BY <1>4, <1>6
  <2>6. p.address = stack + x /\ q.address = stack + y /\ size_of(p.type) = u /\ size_of(q.type) = w
    BY <1>8, <2>1, <2>2
  <2> HIDE DEF x, y, u, w
  <2>7. p # q => x + u <= y \/ y + w <= x
    <3>1. p # q => j # k
      BY <2>1, <2>2
    <3> QED
      BY <2>3, <2>5, <3>1
  <2>8. p # q => (stack + x) + u <= stack + y \/ (stack + y) + w <= stack + x
    BY <1>5, <2>5, <2>7
  <2> QED
    BY <2>4, <2>6, <2>8
<1>12. SlotsOK(slots, size) /\ IsStackPtr(size)
  <2> HIDE DEF size
  <2> QED
    BY <1>3, <1>10, <1>11 DEF SlotsOK, IsStackPtr
<1>13. a \in Seq(A) /\ ToSet(a) = A
  <2>1. DOMAIN frame = 1 .. Len(frame) /\ Len(frame) \in Nat
    BY <1>1
  <2>2. a = [k \in DOMAIN frame |-> a[k]]
    BY DEF alloca
  <2>3. \A k \in DOMAIN frame : a[k] \in A
    BY <1>0
  <2>4. a \in [1 .. Len(frame) -> A]
    BY <2>1, <2>2, <2>3
  <2>5. a \in Seq(A)
    BY <2>1, <2>4
  <2>6. DOMAIN a = DOMAIN frame
    BY <2>1, <2>4
  <2> QED
    BY <1>0, <2>5, <2>6 DEF ToSet
<1>14. ASSUME NEW v \in A PROVE ValueOK(v, slots, live, top) /\ v.role = "slot"
  <2>1. PICK k \in DOMAIN frame : v = a[k]
    BY <1>0
  <2> DEFINE o == stack + offset_of(t, k)
             is == <<o, 0>>
             to == place(k)
  <2>2. v = Value(Ptr, "slot", is, to)
    BY <1>7, <2>1
  <2>3. to \in slots /\ to.address = o
    BY <1>8, <1>9
  <2> HIDE DEF o, to
  <2>4. is[1] = o /\ is = [path \in {1, 2} |-> is[path]]
    OBVIOUS
  <2> HIDE DEF is
  <2>5. DOMAIN words_of(U64) = {1, 2} /\ Ptr = U64
    BY WordTypes
  <2>6. IsValue(U64, is)
    BY <2>4, <2>5 DEF IsValue
  <2>7. Whole(v) /\ Sound(v) /\ v.is = v.meant /\ v.role = "slot" /\ v.is = is /\ v.to = to
    BY <2>2, <2>5, <2>6, NewValue, TheWholeTypes
  <2> QED
    BY <2>3, <2>4, <2>7 DEF ValueOK
<1>15. {v.to.id : v \in ToSet(a)} = {p.id : p \in slots}
  BY <1>0, <1>13
<1>16. frame_size(frame) = size
  BY DEF frame_size, t
<1> HIDE DEF size
<1> QED
  BY <1>12, <1>13, <1>14, <1>15, <1>16
LEMMA EntryStep ==
  ASSUME ~AllocaAnywhere,
         NEW live, NEW slots, NEW low, Common(live, slots, low), AtEntry(live, slots, low), EnterFunction
  PROVE  LaneInv'
<1>1. PICK args, S : /\ next = [kind |-> "entry", args |-> args]
                     /\ args \in Seq(S) /\ DataOK(S)
                     /\ Stacked(memory_private, 0, stack_ptr, args)
  BY DEF AtEntry
<1>2. stack_ptr \in Nat /\ stack_ptr <= StackBytes /\ StackBytes \in Nat /\ conts = <<>> /\ slots = {} /\ low = 0
  BY GlobalsFacts DEF AtEntry, IsStackPtr
<1>3. PICK entered : entered = Lane(memory_private, stack_ptr)
  OBVIOUS
<1>4. PICK lane : lane = pop_values(entered, args)
  OBVIOUS
<1>5. next.kind = "entry" /\ next.args = args
  BY <1>1
<1>6. PICK jp, v : jp = join_point("return", 0, 0) /\ v = saved_stack_ptr(lane)
  OBVIOUS
<1>7. PICK frame \in Frames(entered) :
        /\ Room(WithFrame(entered, lane, frame))
        /\ SetLane(WithFrame(entered, lane, frame))
        /\ values' = lane.popped \o <<jp>> \o <<v>> \o alloca(entered, frame)
        /\ HoldNothing(alloca(entered, frame))
  BY <1>3, <1>4, <1>5, <1>6 DEF EnterFunction
<1>8. next' = Running /\ UNCHANGED <<memory_global, conts>>
  BY DEF EnterFunction
<1>9. lane = [memory |-> memory_private, sp |-> 0, popped |-> args]
  <2>1. Len(args) \in Nat /\ \A i \in 1 .. Len(args) : Whole(args[i]) /\ Sound(args[i])
    <3>1. \A i \in 1 .. Len(args) : args[i] \in S
      BY <1>1
    <3> QED
      BY <1>1, <3>1 DEF DataOK
  <2>2. entered = [memory |-> memory_private, sp |-> stack_ptr, popped |-> <<>>]
    BY <1>3 DEF Lane
  <2>3. 0 \in Nat
    OBVIOUS
  <2> QED
    BY <1>1, <1>2, <1>4, <2>1, <2>2, <2>3, PopValues
<1>10. LiveOK(live, 0) /\ DOMAIN live = {0} /\ live[0] = 0
  <2>1. Len(conts) = 0
    BY <1>2
  <2>2. LiveOK(live, 0)
    BY <2>1 DEF Common
  <2>3. DOMAIN live \subseteq 0 .. 0 /\ 0 \in DOMAIN live /\ live[0] = 0
    BY <2>2 DEF LiveOK
  <2> QED
    BY <2>2, <2>3
(* Whatever the slots are, the values that the function starts with are all right.          *)
<1>11. ASSUME NEW slots2, NEW top \in Nat PROVE SetOK(S \cup {jp, v}, slots2, live, top)
  <2>1. /\ Whole(jp) /\ Sound(jp) /\ jp.is = jp.meant /\ jp.role = "return"
        /\ jp.is[destination_path] = 0 /\ jp.is[payload_path] = 0
    BY <1>6, JoinPointValue
  <2>2. ValueOK(jp, slots2, live, top)
    <3>1. 0 \in DOMAIN live /\ live[0] = 0 /\ 0 <= top
      BY <1>10
    <3> QED
      BY <2>1, <3>1 DEF ValueOK
  <2>3. ValueOK(v, slots2, live, top) /\ v.role = "saved" /\ v.is[1] = 0
    <3>1. lane.sp = 0
      BY <1>9
    <3> QED
      BY <1>6, <3>1, SavedValue
  <2>4. SetOK(S, slots2, live, top)
    BY <1>1, DataIsOK
  <2>5. \A w \in S : w.role = "data"
    BY <1>1 DEF DataOK
  <2> QED
    BY <2>1, <2>2, <2>3, <2>4, <2>5 DEF SetOK
<1>12. CASE frame = <<>>
  <2>1. WithFrame(entered, lane, frame) = lane /\ alloca(entered, frame) = <<>>
    BY <1>12, NoFrame DEF WithFrame
  <2>2. memory_private' = memory_private /\ stack_ptr' = 0 /\ HoldNothing(<<>>)
    BY <1>7, <1>9, <2>1 DEF SetLane
  <2>3. PICK vs : vs = args \o <<jp>> \o <<v>> \o <<>>
    OBVIOUS
  <2>4. values' = vs
    BY <1>7, <1>9, <2>1, <2>3
  <2>5. vs \in Seq(S \cup {jp, v})
    BY <1>1, <2>3
  <2>6. IsStackPtr(0)
    BY <1>2 DEF IsStackPtr
  <2>7. Under(live, low, 0)
    BY <1>2, <1>10 DEF Under
  <2>8. SetOK(S \cup {jp, v}, slots, live, 0)
    BY <1>11
  <2> QED
    BY <1>8, <2>2, <2>4, <2>5, <2>6, <2>7, <2>8, EnterPlain
<1>13. CASE frame # <<>>
  <2>1. stack_ptr = 0 /\ frame \in FrameTypes
    <3>1. entered.sp = stack_ptr
      BY <1>3 DEF Lane
    <3> QED
      BY <1>7, <1>13, <3>1 DEF Frames
  <2>2. PICK size, a, A, slots2 : /\ size = frame_size(frame)
                                  /\ a = alloca(entered, frame)
                                  /\ A = PointersTo(a, frame)
                                  /\ slots2 = Pointees(A)
    OBVIOUS
  <2>3. WithFrame(entered, lane, frame) = [lane EXCEPT !.sp = 0 + size]
    <3>1. entered.sp = 0
      BY <1>3, <2>1 DEF Lane
    <3> QED
      BY <1>13, <2>2, <3>1 DEF WithFrame
  <2>4. [lane EXCEPT !.sp = 0 + size] = [memory |-> memory_private, sp |-> 0 + size, popped |-> args]
    BY <1>9
  <2>5. memory_private' = memory_private /\ stack_ptr' = 0 + size /\ 0 + size <= StackBytes
    BY <1>7, <2>3, <2>4 DEF SetLane, Room
  <2>6. size \in Nat
    <3>1. RecordType(frame) \in WholeTypes
      BY <2>1, LaneStackAssumption
    <3> QED
      BY <2>2, <3>1, TypeFacts DEF frame_size, WholeTypes
  <2>7. stack_ptr' = size /\ size <= StackBytes
    BY <2>5, <2>6
  <2>8. /\ SlotsOK(slots2, size) /\ IsStackPtr(size)
        /\ a \in Seq(A) /\ {w.to.id : w \in ToSet(a)} = {p.id : p \in slots2}
        /\ \A w \in A : ValueOK(w, slots2, live, size) /\ w.role = "slot"
    <3>1. entered = Lane(memory_private, 0)
      BY <1>3, <2>1
    <3> QED
      BY <1>2, <2>1, <2>2, <2>7, <3>1, FrameSlots
  <2>9. values' = args \o <<jp>> \o <<v>> \o a /\ HoldNothing(a)
    BY <1>7, <1>9, <2>2
  <2> DEFINE T == (S \cup {jp, v}) \cup A
  <2>10. SetOK(T, slots2, live, size)
    <3>1. SetOK(S \cup {jp, v}, slots2, live, size)
      BY <1>11, <2>6
    <3> QED
      BY <2>8, <3>1 DEF SetOK
  <2>11. args \o <<jp>> \o <<v>> \o a \in Seq(T)
    <3>1. args \in Seq(T) /\ <<jp>> \in Seq(T) /\ <<v>> \in Seq(T) /\ a \in Seq(T)
      BY <1>1, <2>8
    <3> HIDE DEF T
    <3> QED
      BY <3>1
  <2> HIDE DEF T
  <2>12. ListOK(values', slots2, live, size)
    BY <2>9, <2>10, <2>11 DEF ListOK
  <2>13. holds' = [id \in DOMAIN holds \ {p.id : p \in slots2} |-> holds[id]]
    BY <2>8, <2>9 DEF HoldNothing
  <2>14. HoldsOK(memory_private, memory_global, slots2, holds')
    <3> SUFFICES ASSUME NEW p \in StaticPlaces \cup slots2, p.id \in DOMAIN holds'
                 PROVE  Loaded(memory_private, memory_global, p) = holds'[p.id]
      BY DEF HoldsOK
    <3>1. p.id \in DOMAIN holds /\ p.id \notin {q.id : q \in slots2} /\ holds'[p.id] = holds[p.id]
      BY <2>13
    <3>2. p \in StaticPlaces
      BY <3>1
    <3> QED
      BY <3>1, <3>2 DEF Common, HoldsOK
  <2>15. Under(live, size, size)
    BY <1>10, <2>6 DEF Under
  <2>16. FramesOK(memory_private, slots2, live, size, conts)
    BY <1>10 DEF FramesOK
  <2>17. /\ memory_private' = memory_private /\ memory_global' = memory_global /\ conts' = conts
         /\ stack_ptr' = size /\ next' = Running
    BY <1>8, <2>5, <2>7
  <2>18. Common(live, slots2, size)'
    BY <2>8, <2>14, <2>16, <2>17 DEF Common
  <2>19. AtRunning(live, slots2, size)'
    BY <2>8, <2>12, <2>15, <2>17 DEF AtRunning, Running
  <2> QED
    BY <2>18, <2>19 DEF LaneInv
<1> QED
  BY <1>12, <1>13

(* A lifted tail finds the payload and what it was given on top of the stack, and what was  *)
(* spilled for it where the payload says.                                                   *)
LEMMA EnterContinuationStep ==
  ASSUME ~AllocaAnywhere,
         NEW live, NEW slots, NEW low, Common(live, slots, low), AtContinuation(live, slots, low),
         EnterContinuation
  PROVE  LaneInv'
<1>0. PICK d \in DOMAIN live \ {0} : \E args, S, base :
       LET payload == Value(U32, "data", <<live[d]>>, NoPlace) IN
       /\ next = [kind |-> "continuation", destination |-> d, payload |-> payload, args |-> args]
       /\ args \in Seq(S) /\ DataOK(S)
       /\ base \in Nat /\ base % 4 = 0 /\ Under(live, low, base)
       /\ Stacked(memory_private, base, stack_ptr, <<payload>> \o args)
  BY DEF AtContinuation
<1>1. PICK args, S, base :
       LET payload == Value(U32, "data", <<live[d]>>, NoPlace) IN
       /\ next = [kind |-> "continuation", destination |-> d, payload |-> payload, args |-> args]
       /\ args \in Seq(S) /\ DataOK(S)
       /\ base \in Nat /\ base % 4 = 0 /\ Under(live, low, base)
       /\ Stacked(memory_private, base, stack_ptr, <<payload>> \o args)
  BY <1>0
<1>2. PICK payload : payload = Value(U32, "data", <<live[d]>>, NoPlace)
  OBVIOUS
<1>3. /\ next = [kind |-> "continuation", destination |-> d, payload |-> payload, args |-> args]
      /\ Stacked(memory_private, base, stack_ptr, <<payload>> \o args)
  BY <1>1, <1>2
<1>4. /\ IsMemory(memory_private) /\ SlotsOK(slots, low)
      /\ LiveOK(live, Len(conts)) /\ FramesOK(memory_private, slots, live, low, conts)
  BY DEF Common
<1>5. stack_ptr \in Nat /\ stack_ptr > 0 /\ stack_ptr <= StackBytes /\ StackBytes \in Nat
  BY GlobalsFacts DEF AtContinuation, IsStackPtr
<1>6. live[d] \in Nat /\ live[d] <= base
  BY <1>1, <1>4 DEF LiveOK, Under
<1>7. PICK cont, top : cont = conts[d] /\ top = live[d]
  OBVIOUS
<1>8. PICK low2 \in Nat : /\ low <= low2 /\ low2 % 4 = 0 /\ low2 <= top /\ top <= StackBytes
                          /\ Stacked(memory_private, low2, top, Reverse(cont.spilled))
                          /\ ListOK(cont.spilled, slots, live, low2)
  <2>1. FrameOK(memory_private, slots, live, low, cont, top)
    BY <1>1, <1>4, <1>7 DEF FramesOK
  <2> QED
    BY <2>1 DEF FrameOK
<1>9. PICK entered, popped, lane : /\ entered = Lane(memory_private, stack_ptr)
                                   /\ popped = pop_values(entered, <<payload>> \o args)
                                   /\ lane = lambda_lift(popped, Head(popped.popped).is[1], cont.spilled)
  OBVIOUS
<1>10. next.destination = d /\ next.payload = payload /\ next.args = args
  BY <1>3
<1>11. Frames(entered) = {<<>>}
  <2>1. entered.sp = stack_ptr
    BY <1>9 DEF Lane
  <2> QED
    BY <1>5, <2>1 DEF Frames
<1>12. /\ SetLane(lane)
       /\ values' = lane.popped \o Tail(popped.popped) \o <<>>
       /\ HoldNothing(<<>>)
       /\ next' = Running /\ UNCHANGED <<memory_global, conts>>
  <2>1. /\ SetLane(WithFrame(entered, lane, <<>>))
        /\ values' = lane.popped \o Tail(popped.popped) \o alloca(entered, <<>>)
        /\ HoldNothing(alloca(entered, <<>>))
    BY <1>7, <1>9, <1>10, <1>11 DEF EnterContinuation
  <2>2. WithFrame(entered, lane, <<>>) = lane
    BY DEF WithFrame
  <2>3. next' = Running /\ UNCHANGED <<memory_global, conts>>
    BY DEF EnterContinuation
  <2> QED
    BY <2>1, <2>2, <2>3, NoFrame
<1>13. Whole(payload) /\ Sound(payload) /\ payload.is[1] = top
  <2> DEFINE is == <<live[d]>>
  <2>1. is = [path \in {1} |-> is[path]] /\ is[1] = live[d]
    OBVIOUS
  <2>2. DOMAIN words_of(U32) = {1}
    BY WordTypes
  <2> HIDE DEF is
  <2>3. IsValue(U32, is)
    BY <2>1, <2>2 DEF IsValue
  <2>4. payload = Value(U32, "data", is, NoPlace)
    BY <1>2 DEF is
  <2> QED
    BY <1>7, <2>1, <2>3, <2>4, TheWholeTypes, NewValue
<1>14. popped = [memory |-> memory_private, sp |-> base, popped |-> <<payload>> \o args]
  <2> DEFINE P == S \cup {payload}
             vs == <<payload>> \o args
  <2>1. \A v \in P : Whole(v) /\ Sound(v)
    BY <1>1, <1>13 DEF DataOK
  <2>2. vs \in Seq(P)
    BY <1>1
  <2> HIDE DEF P, vs
  <2>3. \A i \in 1 .. Len(vs) : Whole(vs[i]) /\ Sound(vs[i])
    BY <2>1, <2>2
  <2>4. popped = pop_values([memory |-> memory_private, sp |-> stack_ptr, popped |-> <<>>], vs)
    BY <1>9 DEF Lane, vs
  <2>5. Stacked(memory_private, base, stack_ptr, vs)
    BY <1>3 DEF vs
  <2>6. popped = [memory |-> memory_private, sp |-> base, popped |-> vs]
    BY <1>1, <1>5, <2>2, <2>3, <2>4, <2>5, PopValues
  <2> QED
    BY <2>6 DEF vs
<1>15. Head(popped.popped) = payload /\ Tail(popped.popped) = args
  <2>1. popped.popped = <<payload>> \o args
    BY <1>14
  <2> QED
    BY <1>1, <2>1
<1>16. PICK R : cont.spilled \in Seq(R) /\ SetOK(R, slots, live, low2)
  BY <1>8 DEF ListOK
<1>17. lane.memory = memory_private /\ lane.sp = low2 /\ lane.popped = cont.spilled
  <2> DEFINE r == Reverse(cont.spilled)
             lane0 == [memory |-> memory_private, sp |-> top, popped |-> <<>>]
             recovered == pop_values(lane0, r)
  <2>1. r \in Seq(R) /\ Reverse(r) = cont.spilled
    BY <1>16, ReverseFacts
  <2>2. \A v \in R : Whole(v) /\ Sound(v)
    BY <1>16 DEF SetOK, ValueOK
  <2>3. Stacked(memory_private, low2, top, r)
    BY <1>8
  <2>4. top \in Nat
    BY <1>6, <1>7
  <2>5. [popped EXCEPT !.sp = top, !.popped = <<>>] = lane0
    <3> DEFINE p == <<payload>> \o args
               x1 == [memory |-> memory_private, sp |-> base, popped |-> p]
               x2 == [memory |-> memory_private, sp |-> top, popped |-> p]
    <3>1. popped = x1
      BY <1>14
    <3> HIDE DEF p
    <3>2. [x1 EXCEPT !.sp = top] = x2
      OBVIOUS
    <3>3. [x2 EXCEPT !.popped = <<>>] = lane0
      OBVIOUS
    <3>4. [x1 EXCEPT !.sp = top, !.popped = <<>>] = [[x1 EXCEPT !.sp = top] EXCEPT !.popped = <<>>]
      OBVIOUS
    <3> HIDE DEF x1, x2, lane0
    <3> QED
      BY <3>1, <3>2, <3>3, <3>4
  <2>6. lane = [recovered EXCEPT !.popped = Reverse(recovered.popped)]
    <3>1. lane = lambda_lift(popped, top, cont.spilled)
      BY <1>9, <1>13, <1>15
    <3>2. recovered = pop_values([popped EXCEPT !.sp = top, !.popped = <<>>], Reverse(cont.spilled))
      BY <2>5
    <3> HIDE DEF recovered, r, lane0
    <3> QED
      BY <3>1, <3>2 DEF lambda_lift
  <2> HIDE DEF r
  <2>7. \A i \in 1 .. Len(r) : Whole(r[i]) /\ Sound(r[i])
    BY <2>1, <2>2
  <2>8. recovered = [memory |-> memory_private, sp |-> low2, popped |-> r]
    BY <2>1, <2>3, <2>4, <2>7, PopValues
  <2> HIDE DEF recovered
  <2>9. lane = [memory |-> memory_private, sp |-> low2, popped |-> Reverse(r)]
    <3>1. recovered.popped = r
      BY <2>8
    <3> DEFINE q == Reverse(r)
    <3>2. lane = [recovered EXCEPT !.popped = q]
      BY <2>6, <3>1
    <3> HIDE DEF q
    <3>3. lane = [memory |-> memory_private, sp |-> low2, popped |-> q]
      BY <2>8, <3>2
    <3> QED
      BY <3>3 DEF q
  <2> QED
    BY <2>1, <2>9
<1>18. memory_private' = memory_private /\ stack_ptr' = low2
  BY <1>12, <1>17 DEF SetLane
<1>19. PICK vs : vs = cont.spilled \o args \o <<>>
  OBVIOUS
<1>20. values' = vs
  BY <1>12, <1>15, <1>17, <1>19
<1>21. vs \in Seq(R \cup S)
  <2>1. cont.spilled \in Seq(R \cup S) /\ args \in Seq(R \cup S)
    BY <1>1, <1>16
  <2> QED
    BY <1>19, <2>1
<1>22. PICK live2 : live2 = Trimmed(live, low2)
  OBVIOUS
<1>23. /\ LiveOK(live2, Len(conts))
       /\ FramesOK(memory_private, slots, live2, low, conts)
       /\ \A c \in DOMAIN live2 : live2[c] <= low2
       /\ Below(live, live2, low2)
  <2>1. low2 <= low2
    BY <1>8
  <2> QED
    BY <1>4, <1>8, <1>22, <2>1, TrimmedFacts
<1>24. Common(live2, slots, low)
  BY <1>23 DEF Common
<1>25. Under(live2, low, low2)
  BY <1>8, <1>23 DEF Under
<1>26. IsStackPtr(low2)
  <2>1. top \in Nat
    BY <1>6, <1>7
  <2>2. low2 <= StackBytes
    BY <1>5, <1>8, <2>1
  <2> QED
    BY <1>8, <2>2 DEF IsStackPtr
<1>27. SetOK(R \cup S, slots, live2, low2)
  <2>1. SetOK(R, slots, live2, low2)
    <3>1. low2 <= low2 /\ \A c \in DOMAIN live : live[c] \in Nat
      BY <1>4, <1>8 DEF LiveOK
    <3> QED
      BY <1>8, <1>16, <1>23, <3>1, SetStays
  <2>2. SetOK(S, slots, live2, low2)
    BY <1>1, DataIsOK
  <2>3. \A v \in S : v.role = "data"
    BY <1>1 DEF DataOK
  <2> QED
    BY <2>1, <2>2, <2>3 DEF SetOK
<1> QED
  BY <1>12, <1>18, <1>20, <1>21, <1>24, <1>25, <1>26, <1>27, EnterPlain
-----------------------------------------------------------------------------
(* What the program of the lane does to its variables.                                      *)
LEMMA KnownPlaces ==
  ASSUME NEW live, NEW slots, NEW low, Common(live, slots, low),
         NEW S, values \in Seq(S), NEW top, SetOK(S, slots, live, top)
  PROVE  Places \subseteq StaticPlaces \cup slots
<1> SUFFICES ASSUME NEW v \in ToSet(values), v.role = "slot" PROVE [v.to EXCEPT !.address = v.is[1]] \in slots
  BY DEF Places
<1>2. v \in S
  BY DEF ToSet
<1>3. v.to \in slots /\ v.is[1] = v.to.address
  BY <1>2 DEF SetOK, ValueOK
<1>4. PICK p : p = v.to
  OBVIOUS
<1>5. p = Place(p.id, "Private", p.address, p.type)
  BY <1>3, <1>4 DEF Common, SlotsOK
<1>6. [p EXCEPT !.address = p.address] = p
  BY <1>5 DEF Place
<1> QED
  BY <1>3, <1>4, <1>6

LEMMA PlacesAreKnown ==
  ASSUME NEW live, NEW slots, NEW low, Common(live, slots, low), AtRunning(live, slots, low)
  PROVE  Places \subseteq StaticPlaces \cup slots
BY KnownPlaces DEF AtRunning, ListOK

(* Memory changes where one variable is, and that variable holds what it should.            *)
LEMMA ChangeStep ==
  ASSUME NEW live, NEW slots, NEW low, Common(live, slots, low), AtRunning(live, slots, low),
         NEW p \in StaticPlaces \cup slots,
         Changed(memory_private, memory_global, memory_private', memory_global', p),
         NEW new, Loaded(memory_private', memory_global', p) = new, Hold(p.id, new),
         UNCHANGED <<stack_ptr, values, conts, next>>
  PROVE  LaneInv'
<1>1. /\ IsMemory(memory_private) /\ IsGlobalMemory(memory_global) /\ SlotsOK(slots, low)
      /\ HoldsOK(memory_private, memory_global, slots, holds)
      /\ LiveOK(live, Len(conts)) /\ FramesOK(memory_private, slots, live, low, conts)
  BY DEF Common
<1>2. PICK m2, mg2, h2 : m2 = memory_private' /\ mg2 = memory_global' /\ h2 = holds'
  OBVIOUS
<1>3. Changed(memory_private, memory_global, m2, mg2, p) /\ Loaded(m2, mg2, p) = new
      /\ h2 = WithHeld(holds, p.id, new)
  BY <1>2 DEF Hold, WithHeld
<1>4. HoldsOK(m2, mg2, slots, h2)
  BY <1>1, <1>3, ChangeIsHeld
<1>5. Clear(memory_private, m2, low, StackBytes)
  BY <1>1, <1>3, ChangeIsClear
<1>6. IsMemory(m2) /\ IsGlobalMemory(mg2)
  BY <1>3 DEF Changed
<1>7. ASSUME NEW c \in DOMAIN live \ {0} PROVE FrameOK(m2, slots, live, low, conts[c], live[c])
  <2>1. FrameOK(memory_private, slots, live, low, conts[c], live[c])
    BY <1>1 DEF FramesOK
  <2>2. live[c] \in Nat /\ \A e \in DOMAIN live : live[e] \in Nat
    BY <1>1 DEF LiveOK
  <2>3. live[c] <= StackBytes
    BY <2>1 DEF FrameOK
  <2>4. Below(live, live, live[c])
    BY DEF Below
  <2>5. low \in Nat /\ StackBytes \in Nat
    BY <1>1, GlobalsFacts DEF SlotsOK
  <2> QED
    BY <1>1, <1>5, <1>6, <2>1, <2>2, <2>3, <2>4, <2>5, FrameStays
<1>8. FramesOK(m2, slots, live, low, conts)
  BY <1>7 DEF FramesOK
<1>9. stack_ptr' = stack_ptr /\ values' = values /\ conts' = conts /\ next' = next
  OBVIOUS
<1>10. Common(live, slots, low)'
  BY <1>1, <1>2, <1>4, <1>6, <1>8, <1>9 DEF Common
<1>11. AtRunning(live, slots, low)'
  BY <1>9 DEF AtRunning, Running
<1> QED
  BY <1>10, <1>11 DEF LaneInv

LEMMA ComputeStep ==
  ASSUME NEW live, NEW slots, NEW low, Common(live, slots, low), AtRunning(live, slots, low), Compute
  PROVE  LaneInv'
<1>1. PICK t \in DataTypes : values' = Append(values, Value(t, "data", Fresh(t, steps), NoPlace))
  BY DEF Compute
<1>2. UNCHANGED <<memory_private, memory_global, stack_ptr, conts, next, holds>>
  BY DEF Compute
<1>3. PICK v : v = Value(t, "data", Fresh(t, steps), NoPlace)
  OBVIOUS
<1>4. PICK S : values \in Seq(S) /\ SetOK(S, slots, live, stack_ptr)
  BY DEF AtRunning, ListOK
<1>5. Whole(v) /\ Sound(v) /\ v.is = v.meant /\ v.role = "data"
  <2>1. t \in WholeTypes
    BY LaneStackAssumption
  <2> QED
    BY <1>3, <2>1, FreshIsValue, NewValue
<1>6. SetOK(S \cup {v}, slots, live, stack_ptr)
  <2>1. ValueOK(v, slots, live, stack_ptr) /\ v.role \notin {"return", "saved"}
    BY <1>5 DEF ValueOK
  <2> QED
    BY <1>4, <2>1, AddValue
<1>7. values' \in Seq(S \cup {v})
  BY <1>1, <1>3, <1>4, Extended
<1>8. Common(live, slots, low)'
  BY <1>2 DEF Common
<1>9. AtRunning(live, slots, low)'
  <2>1. ListOK(values', slots, live, stack_ptr)
    BY <1>6, <1>7 DEF ListOK
  <2> QED
    BY <1>2, <2>1 DEF AtRunning, Running
<1> QED
  BY <1>8, <1>9 DEF LaneInv

(* Through a pointer or through its generic form, a store reaches the same variable.        *)
LEMMA StoreStep ==
  ASSUME NEW live, NEW slots, NEW low, Common(live, slots, low), AtRunning(live, slots, low), Store
  PROVE  LaneInv'
<1>1. PICK p \in Places :
        LET value == Fresh(p.type, steps) IN
        /\ Hold(p.id, value)
        /\ \/ StoreTo(p.as, p.address, p.type, value)
           \/ LET nptr == convert_to_generic(p.as, p.address)
              IN  StoreTo(accessed_addr_space(nptr), recover_full_pointer(nptr), p.type, value)
  BY DEF Store
<1>2. PICK value : value = Fresh(p.type, steps)
  OBVIOUS
<1>3. p \in StaticPlaces \cup slots
  BY <1>1, PlacesAreKnown
<1>4. PrivatePlace(p, low) \/ GlobalPlace(p)
  BY <1>3, PlaceFacts DEF Common
<1>5. RoundTrip(p.as, p.address)
  BY <1>4, PlacesRoundTrip
<1>6. Hold(p.id, value) /\ StoreTo(p.as, p.address, p.type, value)
  <2>1. accessed_addr_space(convert_to_generic(p.as, p.address)) = p.as
        /\ recover_full_pointer(convert_to_generic(p.as, p.address)) = p.address
    BY <1>5 DEF RoundTrip
  <2> QED
    BY <1>1, <1>2, <2>1
<1>7. IsValue(p.type, value)
  BY <1>2, FreshIsValue
<1>8. PICK m2, mg2 : m2 = memory_private' /\ mg2 = memory_global'
  OBVIOUS
<1>9. /\ m2 = StoredAt(memory_private, p.as, p.address, p.type, value)
      /\ mg2 = StoredIn(memory_global, p.as, p.address, value)
  BY <1>6, <1>8 DEF StoreTo, StoredAt, StoredIn
<1>10. IsMemory(memory_private) /\ IsGlobalMemory(memory_global)
  BY DEF Common
<1>11. Changed(memory_private, memory_global, m2, mg2, p) /\ Loaded(m2, mg2, p) = value
  <2>1. CASE PrivatePlace(p, low)
    BY <1>7, <1>9, <1>10, <2>1, StoreToPlace
  <2>2. CASE GlobalPlace(p)
    BY <1>7, <1>9, <1>10, <2>2, StoreToPlace
  <2> QED
    BY <1>4, <2>1, <2>2
<1>12. UNCHANGED <<stack_ptr, values, conts, next>>
  BY DEF Store
<1> QED
  BY <1>3, <1>6, <1>8, <1>11, <1>12, ChangeStep

(* Only slots have members.                                                                 *)
LEMMA StoreMemberStep ==
  ASSUME NEW live, NEW slots, NEW low, Common(live, slots, low), AtRunning(live, slots, low), StoreMember
  PROVE  LaneInv'
<1>0. PICK p \in {q \in Places : q.type.tag \in {"Record", "Arr"} /\ q.id \in DOMAIN holds} :
        \E i \in Members(p.type) :
          LET value == Fresh(MemberType(p.type, i), steps) IN
          /\ StoreTo(p.as, lower_ptr_index(p.type, p.address, i), MemberType(p.type, i), value)
          /\ Hold(p.id, [path \in DOMAIN holds[p.id] |->
                          IF path[1] = i THEN value[path[2]] ELSE holds[p.id][path]])
  BY DEF StoreMember
<1>1. PICK i \in Members(p.type) :
        LET value == Fresh(MemberType(p.type, i), steps) IN
        /\ p \in Places /\ p.type.tag \in {"Record", "Arr"} /\ p.id \in DOMAIN holds
        /\ StoreTo(p.as, lower_ptr_index(p.type, p.address, i), MemberType(p.type, i), value)
        /\ Hold(p.id, [path \in DOMAIN holds[p.id] |->
                        IF path[1] = i THEN value[path[2]] ELSE holds[p.id][path]])
  BY <1>0
<1>2. PICK value, new, t, x :
        /\ value = Fresh(MemberType(p.type, i), steps)
        /\ new = [path \in DOMAIN holds[p.id] |-> IF path[1] = i THEN value[path[2]] ELSE holds[p.id][path]]
        /\ t = p.type /\ x = p.address
  OBVIOUS
<1>3. p \in slots
  <2>1. p \in StaticPlaces \cup slots
    BY <1>1, PlacesAreKnown
  <2>2. p.type.tag # "Int"
    BY <1>1
  <2> QED
    BY <2>1, <2>2, StaticFacts
<1>4. /\ IsMemory(memory_private) /\ IsGlobalMemory(memory_global) /\ SlotsOK(slots, low)
      /\ HoldsOK(memory_private, memory_global, slots, holds)
  BY DEF Common
<1>5. p.as = "Private" /\ Fits(t, x)
  BY <1>2, <1>3, <1>4, SlotFacts DEF PrivatePlace
<1>6. PICK m2, mg2 : m2 = memory_private' /\ mg2 = memory_global'
  OBVIOUS
<1>7. /\ m2 = gen_serialisation(MemberType(t, i), memory_private, lower_ptr_index(t, x, i), value)
      /\ DOMAIN mg2 = DOMAIN memory_global /\ \A a \in DOMAIN memory_global : mg2[a] = memory_global[a]
  <2>1. StoreTo("Private", lower_ptr_index(t, x, i), MemberType(t, i), value)
    BY <1>1, <1>2, <1>5
  <2> QED
    BY <1>6, <2>1 DEF StoreTo
<1>8. /\ IsMemory(m2) /\ Outside(memory_private, m2, x, x + size_of(t))
      /\ gen_deserialisation(t, m2, x) =
           [path \in DOMAIN words_of(t) |->
              IF path[1] = i THEN value[path[2]] ELSE gen_deserialisation(t, memory_private, x)[path]]
  <2>1. t.tag \in {"Record", "Arr"} /\ i \in Members(t)
    BY <1>1, <1>2
  <2> QED
    BY <1>4, <1>5, <1>7, <2>1, StoresMember
<1>9. gen_deserialisation(t, memory_private, x) = holds[p.id]
  <2>1. Loaded(memory_private, memory_global, p) = holds[p.id]
    BY <1>1, <1>3, <1>4 DEF HoldsOK
  <2> QED
    BY <1>2, <1>5, <2>1 DEF Loaded
<1>10. DOMAIN holds[p.id] = DOMAIN words_of(t)
  <2>1. gen_deserialisation(t, memory_private, x) =
          [path \in DOMAIN words_of(t) |-> memory_private[elements_of(t, x)[path]]]
    BY <1>4, <1>5, Loads
  <2> QED
    BY <1>9, <2>1
<1>11. gen_deserialisation(t, m2, x) = new
  <2> DEFINE h == holds[p.id]
             D == DOMAIN words_of(t)
  <2>1. gen_deserialisation(t, m2, x) = [path \in D |-> IF path[1] = i THEN value[path[2]] ELSE h[path]]
    BY <1>8, <1>9
  <2>2. new = [path \in DOMAIN h |-> IF path[1] = i THEN value[path[2]] ELSE h[path]] /\ DOMAIN h = D
    BY <1>2, <1>10
  <2> HIDE DEF h, D
  <2> QED
    BY <2>1, <2>2
<1>12. Loaded(m2, mg2, p) = new
  BY <1>2, <1>5, <1>11 DEF Loaded
<1>13. Changed(memory_private, memory_global, m2, mg2, p)
  <2>1. IsGlobalMemory(mg2)
    BY <1>4, <1>7 DEF IsGlobalMemory
  <2> QED
    BY <1>2, <1>5, <1>7, <1>8, <2>1 DEF Changed
<1>14. Hold(p.id, new)
  BY <1>1, <1>2
<1>15. UNCHANGED <<stack_ptr, values, conts, next>>
  BY DEF StoreMember
<1>16. p \in StaticPlaces \cup slots
  BY <1>3
<1> QED
  BY <1>6, <1>12, <1>13, <1>14, <1>15, <1>16, ChangeStep

LEMMA CopyBytesStep ==
  ASSUME NEW live, NEW slots, NEW low, Common(live, slots, low), AtRunning(live, slots, low), CopyBytes
  PROVE  LaneInv'
<1>1. PICK src \in Places, dst \in Places :
        /\ src.as = "Private" /\ dst.as = "Private"
        /\ src.id # dst.id /\ src.type = dst.type /\ src.id \in DOMAIN holds
        /\ memory_private' = copy_bytes(memory_private, dst.address, src.address, size_of(src.type))
        /\ Hold(dst.id, holds[src.id])
  BY DEF CopyBytes
<1>2. UNCHANGED <<memory_global, stack_ptr, values, conts, next>>
  BY DEF CopyBytes
<1>3. src \in StaticPlaces \cup slots /\ dst \in StaticPlaces \cup slots
  BY <1>1, PlacesAreKnown
<1>4. PrivatePlace(src, low) /\ PrivatePlace(dst, low)
  BY <1>1, <1>3, PlaceFacts DEF Common, GlobalPlace
<1>5. /\ IsMemory(memory_private) /\ IsGlobalMemory(memory_global)
      /\ HoldsOK(memory_private, memory_global, slots, holds)
  BY DEF Common
<1>6. PICK m2, t, x, y : m2 = memory_private' /\ t = dst.type /\ x = dst.address /\ y = src.address
  OBVIOUS
<1>7. Fits(t, x) /\ Fits(t, y) /\ size_of(t) % 4 = 0 /\ size_of(t) > 0
  BY <1>1, <1>4, <1>6 DEF PrivatePlace
<1>8. m2 = copy_bytes(memory_private, x, y, size_of(t))
  BY <1>1, <1>6
<1>9. /\ IsMemory(m2) /\ Outside(memory_private, m2, x, x + size_of(t))
      /\ gen_deserialisation(t, m2, x) = gen_deserialisation(t, memory_private, y)
  BY <1>5, <1>7, <1>8, Copies
<1>10. gen_deserialisation(t, memory_private, y) = holds[src.id]
  BY <1>1, <1>3, <1>5, <1>6 DEF HoldsOK, Loaded
<1>11. Changed(memory_private, memory_global, m2, memory_global, dst)
  BY <1>1, <1>5, <1>6, <1>9 DEF Changed
<1>12. Loaded(m2, memory_global, dst) = holds[src.id]
  BY <1>1, <1>6, <1>9, <1>10 DEF Loaded
<1>13. memory_global' = memory_global /\ UNCHANGED <<stack_ptr, values, conts, next>>
  BY <1>2
<1> QED
  BY <1>1, <1>3, <1>6, <1>11, <1>12, <1>13, ChangeStep

LEMMA FillBytesStep ==
  ASSUME NEW live, NEW slots, NEW low, Common(live, slots, low), AtRunning(live, slots, low), FillBytes
  PROVE  LaneInv'
<1>1. PICK dst \in Places :
        /\ dst.as = "Private"
        /\ memory_private' = fill_bytes(memory_private, dst.address, U32, <<500 + steps>>, size_of(dst.type))
        /\ Hold(dst.id, Filled(dst.type, 500 + steps))
  BY DEF FillBytes
<1>2. UNCHANGED <<memory_global, stack_ptr, values, conts, next>>
  BY DEF FillBytes
<1>3. dst \in StaticPlaces \cup slots
  BY <1>1, PlacesAreKnown
<1>4. PrivatePlace(dst, low)
  BY <1>1, <1>3, PlaceFacts DEF Common, GlobalPlace
<1>5. IsMemory(memory_private) /\ IsGlobalMemory(memory_global)
  BY DEF Common
<1>6. PICK m2, t, x, word : m2 = memory_private' /\ t = dst.type /\ x = dst.address /\ word = 500 + steps
  OBVIOUS
<1>7. Fits(t, x) /\ size_of(t) % 4 = 0 /\ size_of(t) > 0
  BY <1>4, <1>6 DEF PrivatePlace
<1>8. m2 = fill_bytes(memory_private, x, U32, <<word>>, size_of(t))
  BY <1>1, <1>6
<1>9. /\ IsMemory(m2) /\ Outside(memory_private, m2, x, x + size_of(t))
      /\ gen_deserialisation(t, m2, x) = Filled(t, word)
  BY <1>5, <1>7, <1>8, Fills
<1>10. Changed(memory_private, memory_global, m2, memory_global, dst)
  BY <1>1, <1>5, <1>6, <1>9 DEF Changed
<1>11. PICK new : new = Filled(t, word)
  OBVIOUS
<1>12. Loaded(m2, memory_global, dst) = new
  BY <1>1, <1>6, <1>9, <1>11 DEF Loaded
<1>13. Hold(dst.id, new)
  BY <1>1, <1>6, <1>11
<1>14. memory_global' = memory_global /\ UNCHANGED <<stack_ptr, values, conts, next>>
  BY <1>2
<1> QED
  BY <1>3, <1>6, <1>10, <1>12, <1>13, <1>14, ChangeStep
-----------------------------------------------------------------------------
(* The invariant holds from the start, and is kept.                                         *)
LEMMA EntryArguments ==
  ASSUME NEW params, params \in Seq(WholeTypes),
         NEW args, args = [i \in DOMAIN params |-> Value(params[i], "data", Fresh(params[i], 90), NoPlace)]
  PROVE  \E S : args \in Seq(S) /\ DataOK(S)
<1> DEFINE S == {Value(params[i], "data", Fresh(params[i], 90), NoPlace) : i \in DOMAIN params}
<1>1. DOMAIN params = 1 .. Len(params) /\ Len(params) \in Nat
  OBVIOUS
<1>2. args \in Seq(S)
  BY <1>1
<1>3. DataOK(S)
  <2> SUFFICES ASSUME NEW i \in DOMAIN params, NEW v, v = Value(params[i], "data", Fresh(params[i], 90), NoPlace)
               PROVE  Whole(v) /\ Sound(v) /\ v.is = v.meant /\ v.role = "data"
    BY DEF DataOK
  <2>1. params[i] \in WholeTypes
    BY <1>1
  <2> QED
    BY <2>1, FreshIsValue, NewValue
<1> HIDE DEF S
<1> QED
  BY <1>2, <1>3

LEMMA InitHolds ==
  ASSUME Init
  PROVE  LaneInv
<1>1. PICK params \in EntryTypes :
        LET args == [i \in DOMAIN params |-> Value(params[i], "data", Fresh(params[i], 90), NoPlace)]
            words == [w \in 0..(bytes_to_words(size_of(Globals)) - 1) |-> 0]
            lane == push_values(
                        Lane(gen_serialisation(U32, words, offset_of(Globals, 2), Fresh(U32, 91)), 0),
                        args)
        IN  /\ Room(lane)
            /\ memory_private = lane.memory
            /\ stack_ptr = lane.sp
            /\ next = [kind |-> "entry", args |-> args]
  BY DEF Init
<1>2. PICK args, words : /\ args = [i \in DOMAIN params |->
                                      Value(params[i], "data", Fresh(params[i], 90), NoPlace)]
                         /\ words = [w \in 0..(bytes_to_words(size_of(Globals)) - 1) |-> 0]
  OBVIOUS
<1>3. PICK m0, lane : /\ m0 = gen_serialisation(U32, words, offset_of(Globals, 2), Fresh(U32, 91))
                      /\ lane = push_values(Lane(m0, 0), args)
  OBVIOUS
<1>4. /\ lane.sp <= StackBytes /\ memory_private = lane.memory /\ stack_ptr = lane.sp
      /\ next = [kind |-> "entry", args |-> args]
  BY <1>1, <1>2, <1>3 DEF Room
<1>5. /\ memory_global = [a \in {LowGlobal, HighGlobal} |-> 0]
      /\ holds = [id \in {1} |-> Fresh(U32, 91)]
      /\ values = <<>> /\ conts = <<>>
  BY DEF Init
<1>6. PICK S : args \in Seq(S) /\ DataOK(S)
  <2>1. params \in Seq(WholeTypes)
    BY LaneStackAssumption
  <2> QED
    BY <1>2, <2>1, EntryArguments
<1>7. stack \in Nat /\ StackBytes \in Nat
  BY GlobalsFacts
<1>8. IsMemory(m0) /\ gen_deserialisation(U32, m0, offset_of(Globals, 2)) = Fresh(U32, 91)
  <2>1. IsMemory(words)
    BY <1>2 DEF IsMemory, MemBytes
  <2> DEFINE y == offset_of(Globals, 2)
             x == offset_of(Globals, 3)
             z == size_of(Globals)
  <2>2. y \in Nat /\ y % 4 = 0 /\ x \in Nat /\ z \in Nat /\ y + 4 <= x /\ x + 8 <= z
    BY GlobalsFacts
  <2>3. U32 \in ProgramTypes /\ size_of(U32) = 4
    BY WordTypes
  <2> HIDE DEF x, y, z
  <2>4. y + 4 <= z
    BY <2>2
  <2>5. Fits(U32, y)
    BY <2>2, <2>3, <2>4 DEF Fits, MemBytes, z
  <2>6. m0 = gen_serialisation(U32, words, y, Fresh(U32, 91))
    BY <1>3 DEF y
  <2>7. IsValue(U32, Fresh(U32, 91))
    BY FreshIsValue
  <2>8. IsMemory(m0) /\ gen_deserialisation(U32, m0, y) = Fresh(U32, 91)
    BY <2>1, <2>5, <2>6, <2>7, Stores
  <2> QED
    BY <2>8 DEF y
<1>9. PICK m, sp : m = lane.memory /\ sp = lane.sp
  OBVIOUS
<1>10. /\ sp \in Nat /\ sp % 4 = 0 /\ sp <= StackBytes
       /\ IsMemory(m) /\ Outside(m0, m, stack + 0, stack + sp) /\ Stacked(m, 0, sp, args)
  <2>1. Len(args) \in Nat /\ \A i \in 1 .. Len(args) : Sound(args[i])
    <3>1. Len(args) \in Nat /\ \A i \in 1 .. Len(args) : args[i] \in S
      BY <1>6
    <3> QED
      BY <1>6, <3>1 DEF DataOK
  <2>2. PICK z \in Nat : z = 0 /\ z % 4 = 0
    OBVIOUS
  <2>3. lane = push_values([memory |-> m0, sp |-> z, popped |-> <<>>], args)
    BY <1>3, <2>2 DEF Lane
  <2>4. z % 4 = 0
    BY <2>2
  <2>5. /\ lane = [memory |-> lane.memory, sp |-> lane.sp, popped |-> <<>>]
        /\ lane.sp \in Nat /\ lane.sp % 4 = 0 /\ z <= lane.sp
        /\ IsMemory(m0) /\ lane.sp <= StackBytes =>
             /\ IsMemory(lane.memory)
             /\ Outside(m0, lane.memory, stack + z, stack + lane.sp)
             /\ Stacked(lane.memory, z, lane.sp, args)
    BY <2>1, <2>3, <2>4, PushValues
  <2>6. /\ IsMemory(m) /\ Outside(m0, m, stack + z, stack + sp) /\ Stacked(m, z, sp, args)
        /\ sp \in Nat /\ sp % 4 = 0 /\ sp <= StackBytes
    BY <1>4, <1>8, <1>9, <2>5
  <2> QED
    BY <2>2, <2>6
<1>11. SlotsOK({}, 0)
  BY <1>7 DEF SlotsOK
<1>12. HoldsOK(m0, memory_global, {}, holds)
  <2> SUFFICES ASSUME NEW p \in StaticPlaces, p.id \in DOMAIN holds
               PROVE  Loaded(m0, memory_global, p) = holds[p.id]
    BY DEF HoldsOK
  <2>1. p.id = 1 /\ holds[p.id] = Fresh(U32, 91)
    BY <1>5
  <2>2. p.as = "Private" /\ p.address = offset_of(Globals, 2) /\ p.type = U32
    <3> DEFINE y == offset_of(Globals, 2)
               x == offset_of(Globals, 3)
    <3>1. StaticPlaces = { Place(1, "Private", y, U32), Place(2, "Private", x, U64),
                           Place(3, "Global", LowGlobal, U32), Place(4, "Global", HighGlobal, U32) }
      BY DEF StaticPlaces
    <3> HIDE DEF x, y
    <3>2. p.as = "Private" /\ p.address = y /\ p.type = U32
      BY <2>1, <3>1 DEF Place
    <3> QED
      BY <3>2 DEF y
  <2> QED
    BY <1>8, <2>1, <2>2 DEF Loaded
<1>13. PICK live : live = [c \in {0} |-> 0]
  OBVIOUS
<1>14. DOMAIN live = {0} /\ live[0] = 0
  BY <1>13
<1>15. LiveOK(live, Len(conts))
  <2>1. Len(conts) = 0 /\ {0} \subseteq 0 .. 0 /\ 0 \in Nat /\ 0 % 4 = 0
    BY <1>5
  <2> QED
    BY <1>14, <2>1 DEF LiveOK
<1>16. \A mem : FramesOK(mem, {}, live, 0, conts)
  BY <1>14 DEF FramesOK
<1>17. HoldsOK(m, memory_global, {}, holds)
  <2>1. 0 \in Nat /\ 0 <= 0
    OBVIOUS
  <2> QED
    BY <1>8, <1>10, <1>11, <1>12, <2>1, PushKeepsPlaces
<1>18. Common(live, {}, 0)
  <2>1. IsGlobalMemory(memory_global)
    BY <1>5 DEF IsGlobalMemory
  <2>2. (\E T : conts \in Seq(T)) /\ 1 .. Len(conts) = {}
    <3>1. conts \in Seq({}) /\ Len(conts) = 0
      BY <1>5
    <3> QED
      BY <3>1
  <2> QED
    BY <1>4, <1>9, <1>10, <1>11, <1>15, <1>16, <1>17, <2>1, <2>2 DEF Common
<1>19. AtEntry(live, {}, 0)
  <2>1. IsStackPtr(sp)
    BY <1>10 DEF IsStackPtr
  <2> QED
    BY <1>4, <1>5, <1>6, <1>9, <1>10, <2>1 DEF AtEntry
<1> QED
  BY <1>18, <1>19 DEF LaneInv

LEMMA StepKeeps ==
  ASSUME ~AllocaAnywhere, LaneInv, [Next]_vars
  PROVE  LaneInv'
<1>1. PICK live, slots, low :
        /\ Common(live, slots, low)
        /\ \/ AtRunning(live, slots, low)
           \/ AtEntry(live, slots, low)
           \/ AtFunction(live, slots, low)
           \/ AtContinuation(live, slots, low)
           \/ AtExit
  BY DEF LaneInv
<1>2. CASE UNCHANGED vars
  <2>1. /\ memory_private' = memory_private /\ memory_global' = memory_global /\ stack_ptr' = stack_ptr
        /\ values' = values /\ conts' = conts /\ next' = next /\ holds' = holds
    BY <1>2 DEF vars
  <2>2. Common(live, slots, low)'
    BY <1>1, <2>1 DEF Common
  <2>3. \/ AtRunning(live, slots, low)'
        \/ AtEntry(live, slots, low)'
        \/ AtFunction(live, slots, low)'
        \/ AtContinuation(live, slots, low)'
        \/ AtExit'
    <3>1. CASE AtRunning(live, slots, low)
      BY <2>1, <3>1 DEF AtRunning, Running
    <3>2. CASE AtEntry(live, slots, low)
      BY <2>1, <3>2 DEF AtEntry
    <3>3. CASE AtFunction(live, slots, low)
      BY <2>1, <3>3 DEF AtFunction
    <3>4. CASE AtContinuation(live, slots, low)
      BY <2>1, <3>4 DEF AtContinuation
    <3>5. CASE AtExit
      BY <2>1, <3>5 DEF AtExit
    <3> QED
      BY <1>1, <3>1, <3>2, <3>3, <3>4, <3>5
  <2> QED
    BY <2>2, <2>3 DEF LaneInv
<1>3. CASE Next
  <2>1. Running.kind = "running"
    BY DEF Running
  <2>2. CASE next = Running
    <3>1. AtRunning(live, slots, low)
      <4>1. next.kind = "running"
        BY <2>1, <2>2
      <4>2. ~AtEntry(live, slots, low)
        BY <4>1 DEF AtEntry
      <4>3. ~AtFunction(live, slots, low)
        BY <4>1 DEF AtFunction
      <4>4. ~AtContinuation(live, slots, low)
        <5>1. AtContinuation(live, slots, low) => next.kind = "continuation"
          BY DEF AtContinuation
        <5> QED
          BY <4>1, <5>1
      <4>5. ~AtExit
        BY <4>1 DEF AtExit
      <4> QED
        BY <1>1, <4>2, <4>3, <4>4, <4>5
    <3>2. ~EnterFunction /\ ~EnterContinuation
      BY <2>1, <2>2 DEF EnterFunction, EnterContinuation
    <3>3. CASE Control
      BY <1>1, <3>1, <3>3, ControlStep
    <3>4. CASE Call
      BY <1>1, <3>1, <3>4, CallStep
    <3>5. CASE Join
      BY <1>1, <3>1, <3>5, JoinStep
    <3>6. CASE Return
      BY <1>1, <3>1, <3>6, ReturnStep
    <3>7. CASE Compute
      BY <1>1, <3>1, <3>7, ComputeStep
    <3>8. CASE Store
      BY <1>1, <3>1, <3>8, StoreStep
    <3>9. CASE StoreMember
      BY <1>1, <3>1, <3>9, StoreMemberStep
    <3>10. CASE CopyBytes
      BY <1>1, <3>1, <3>10, CopyBytesStep
    <3>11. CASE FillBytes
      BY <1>1, <3>1, <3>11, FillBytesStep
    <3> QED
      BY <1>3, <3>2, <3>3, <3>4, <3>5, <3>6, <3>7, <3>8, <3>9, <3>10, <3>11 DEF Next
  <2>3. CASE next # Running
    <3>1. ~AtRunning(live, slots, low)
      BY <2>3 DEF AtRunning
    <3>2. EnterFunction \/ EnterContinuation
      BY <1>3, <2>3 DEF Next, Control, Call, Join, Return, Compute, Store, StoreMember, CopyBytes, FillBytes
    <3>3. CASE AtEntry(live, slots, low)
      <4>1. next.kind = "entry"
        BY <3>3 DEF AtEntry
      <4>2. EnterFunction
        BY <3>2, <4>1 DEF EnterContinuation
      <4> QED
        BY <1>1, <3>3, <4>2, EntryStep
    <3>4. CASE AtFunction(live, slots, low)
      <4>1. next.kind = "function"
        BY <3>4 DEF AtFunction
      <4>2. EnterFunction
        BY <3>2, <4>1 DEF EnterContinuation
      <4> QED
        BY <1>1, <3>4, <4>2, EnterFunctionStep
    <3>5. CASE AtContinuation(live, slots, low)
      <4>1. next.kind = "continuation"
        BY <3>5 DEF AtContinuation
      <4>2. EnterContinuation
        BY <3>2, <4>1 DEF EnterFunction
      <4> QED
        BY <1>1, <3>5, <4>2, EnterContinuationStep
    <3>6. CASE AtExit
      <4>1. next.kind = "exit"
        BY <3>6 DEF AtExit
      <4> QED
        BY <3>2, <4>1 DEF EnterFunction, EnterContinuation
    <3> QED
      BY <1>1, <3>1, <3>3, <3>4, <3>5, <3>6
  <2> QED
    BY <2>2, <2>3
<1> QED
  BY <1>2, <1>3

(* What the invariant says of the state.                                                    *)
LEMMA HeldValues ==
  ASSUME LaneInv
  PROVE  \E live, slots, low, S :
           /\ Common(live, slots, low)
           /\ values \in Seq(S) /\ SetOK(S, slots, live, stack_ptr)
<1>1. PICK live, slots, low :
        /\ Common(live, slots, low)
        /\ \/ AtRunning(live, slots, low)
           \/ values = <<>>
  BY DEF LaneInv, AtEntry, AtFunction, AtContinuation, AtExit
<1>2. CASE AtRunning(live, slots, low)
  BY <1>1, <1>2 DEF AtRunning, ListOK
<1>3. CASE values = <<>>
  <2>1. values \in Seq({}) /\ SetOK({}, slots, live, stack_ptr)
    BY <1>3 DEF SetOK
  <2> QED
    BY <1>1, <2>1
<1> QED
  BY <1>1, <1>2, <1>3

LEMMA InvImplies ==
  ASSUME LaneInv
  PROVE  ValuesSurvive /\ MemoryHolds /\ ReturnRestoresCaller
<1>1. PICK live, slots, low, S :
        /\ Common(live, slots, low)
        /\ values \in Seq(S) /\ SetOK(S, slots, live, stack_ptr)
  BY HeldValues
<1>2. \A i \in DOMAIN values : values[i] \in S
  BY <1>1
<1>3. ValuesSurvive
  BY <1>1, <1>2 DEF ValuesSurvive, SetOK, ValueOK
<1>4. ReturnRestoresCaller
  BY <1>1, <1>2 DEF ReturnRestoresCaller, SetOK
<1>5. Places \subseteq StaticPlaces \cup slots
  BY <1>1, KnownPlaces
<1>6. MemoryHolds
  <2> SUFFICES ASSUME NEW p \in Places, p.id \in DOMAIN holds
               PROVE  LoadFrom(p.as, p.address, p.type) = holds[p.id]
    BY DEF MemoryHolds
  <2>1. Loaded(memory_private, memory_global, p) = holds[p.id]
    BY <1>1, <1>5 DEF Common, HoldsOK
  <2> QED
    BY <2>1 DEF Loaded, LoadFrom
<1> QED
  BY <1>3, <1>4, <1>6

(* The inductive invariant: the variables hold what was stored into them, every tail still  *)
(* to be entered has its frame untouched below everything in use, and what the running      *)
(* function holds, or what lies on the stack for the function to be entered next, is what   *)
(* was meant.                                                                               *)
THEOREM LaneInvariant ==
  ASSUME ~AllocaAnywhere
  PROVE  Spec => []LaneInv
<1>1. Init => LaneInv
  BY InitHolds
<1>2. LaneInv /\ [Next]_vars => LaneInv'
  BY StepKeeps
<1> QED
  BY <1>1, <1>2, PTL DEF Spec

(* The arguments, yielded values, join points, saved stack pointers and spilled values that *)
(* a function pops (lower_callf.c, lift_indirect_targets.c, lower_tailcalls.c, ir/stack.c)  *)
(* are those pushed for it, however deep the calls and whatever was stored in between, for  *)
(* any types, sizes and number of calls.  Only the entry point may have allocas.            *)
THEOREM PoppedIsPushed ==
  ASSUME ~AllocaAnywhere
  PROVE  Spec => []ValuesSurvive
<1>1. LaneInv => ValuesSurvive
  BY InvImplies
<1> QED
  BY <1>1, LaneInvariant, PTL

(* The stack size that a return sets (setup_stack_frames.c) is the one that the tail of the *)
(* call was lifted with (lift_indirect_targets.c).                                          *)
THEOREM ReturnsRestore ==
  ASSUME ~AllocaAnywhere
  PROVE  Spec => []ReturnRestoresCaller
<1>1. LaneInv => ReturnRestoresCaller
  BY InvImplies
<1> QED
  BY <1>1, LaneInvariant, PTL

(* A variable holds what was last stored into it: the stack of lower_stack.c, the slots of  *)
(* lower_alloca.c and the private variables of lower_physical_ptrs.c do not overlap, and    *)
(* the members, copies, fills and generic pointers of a variable lead to it alone.          *)
THEOREM VariablesHold ==
  ASSUME ~AllocaAnywhere
  PROVE  Spec => []MemoryHolds
<1>1. LaneInv => MemoryHolds
  BY InvImplies
<1> QED
  BY <1>1, LaneInvariant, PTL
=============================================================================
