-------------------------------- MODULE Dict --------------------------------
(***************************************************************************)
(* The open-addressing hash table of src/common/dict.c, on which every     *)
(* pass keeps its maps: linear probing, tombstones, a move of a re-inserted*)
(* key to the first free bucket of its probe, growth by doubling at a load *)
(* factor of 0.6.                                                          *)
(*                                                                         *)
(* Keys and values are opaque; only the hash of a key matters.  The        *)
(* counters are size_t and wrap at Wrap.  An assertion of dict_insert that *)
(* fails stops the program.                                                *)
(***************************************************************************)
EXTENDS Integers, FiniteSets

CONSTANTS
  Keys, Values,
  None,        \* no key, no value (NULL)
  Hash,        \* Hash[k]: hash_fn
  init_size,   \* buckets of a new table (32 in the code)
  Wrap,        \* size_t counts modulo Wrap
  MaxSize      \* bound: the largest table

ASSUME DictAssumption ==
  /\ None \notin Keys \cup Values \cup Nat
  /\ Hash \in [Keys -> Nat]
  /\ init_size \in Nat /\ init_size >= 3   \* fewer fill up before they grow
  /\ MaxSize \in Nat /\ init_size <= MaxSize
  /\ Wrap \in Nat /\ Wrap > 2 * MaxSize

VARIABLES
  size, alloc,        \* the buckets, alloc[0 .. size - 1]
  entries_count,
  thombstones_count,
  reply,              \* what the last operation returned
  iterator_state,     \* of a client's loop over shd_dict_iter, None outside
  visited,            \* the keys that loop has been given
  failed              \* an assertion failed

dictvars == <<size, alloc, entries_count, thombstones_count, reply, iterator_state,
          visited, failed>>

Bucket     == [is_present : BOOLEAN, is_thombstone : BOOLEAN,
               key : Keys \cup {None}, value : Values \cup {None}]
EmptyBucket == [is_present |-> FALSE, is_thombstone |-> FALSE, key |-> None, value |-> None]
Thombstone  == [EmptyBucket EXCEPT !.is_thombstone = TRUE]
Holding(k, v) == [is_present |-> TRUE, is_thombstone |-> FALSE, key |-> k, value |-> v]

First(S) == CHOOSE i \in S : \A j \in S : i <= j

Positions(tab) == DOMAIN tab
Has(tab, p, k) == tab[p].is_present /\ tab[p].key = k
IsFree(tab, p) == ~ tab[p].is_present
IsClean(tab, p) == IsFree(tab, p) /\ ~ tab[p].is_thombstone

(* The i-th bucket the linear scan for k looks at, in a table of n.        *)
Probe(k, i, n) == (Hash[k] + i) % n

(* The first bucket of the scan that meets a condition; n after a full     *)
(* circle.                                                                 *)
FirstOf(k, n, Stops(_)) ==
  CHOOSE i \in 0 .. n : /\ i = n \/ Stops(Probe(k, i, n))
                        /\ \A j \in 0 .. i - 1 : ~ Stops(Probe(k, j, n))

(* Where the scan for k ends: at k or at a clean bucket.                   *)
ScanEnd(tab, n, k) == FirstOf(k, n, LAMBDA p : Has(tab, p, k) \/ IsClean(tab, p))

(* The first bucket of the scan that k can take.                           *)
FirstAvailable(tab, n, k) == FirstOf(k, n, LAMBDA p : Has(tab, p, k) \/ IsFree(tab, p))

-----------------------------------------------------------------------------
(* shd_dict_find_impl and shd_dict_find_value_impl.                        *)
Find(tab, n, k) ==
  LET stop == ScanEnd(tab, n, k)
  IN  IF stop < n /\ Has(tab, Probe(k, stop, n), k) THEN Probe(k, stop, n) ELSE None

ValueOf(tab, n, k) ==
  LET p == Find(tab, n, k) IN IF p = None THEN None ELSE tab[p].value

(* The scan of dict_insert, without the growth: the first bucket the key   *)
(* can take, and the one where it is now.                                  *)
Scan(tab, n, k) ==
  LET stop  == ScanEnd(tab, n, k)
      first == FirstAvailable(tab, n, k)
      found == stop < n /\ Has(tab, Probe(k, stop, n), k)
  IN  [available |-> first < n,
       dst  |-> Probe(k, first, n),
       src  |-> Probe(k, stop, n),
       mode |-> IF ~ found THEN "Inserting"
                ELSE IF first = stop THEN "Overwriting" ELSE "Moving"]

(* The table after dict_insert wrote the entry.                            *)
Place_LeavesSource(tab, at, k, v) == [tab EXCEPT ![at.dst] = Holding(k, v)]
Place(tab, at, k, v) ==
  [p \in Positions(tab) |->
     IF p = at.dst THEN Holding(k, v)
     ELSE IF at.mode = "Moving" /\ p = at.src THEN Thombstone ELSE tab[p]]

(* rehash: the entries of the old table, in the order of its buckets, into *)
(* one twice as large.  It is at most half full: it does not grow again.   *)
Reinsert(new, n, bucket) ==
  IF bucket.is_present
  THEN Place(new, Scan(new, n, bucket.key), bucket.key, bucket.value)
  ELSE new

Grown(tab, n) ==
  LET rehash[pos \in 0 .. n] ==
        IF pos = 0 THEN [q \in 0 .. 2 * n - 1 |-> EmptyBucket]
        ELSE Reinsert(rehash[pos - 1], 2 * n, tab[pos - 1])
  IN  rehash[n]

(* The load factor as dict_insert computes it, the sum being a size_t.     *)
MustGrow_WhenFull == (entries_count + thombstones_count) % Wrap > size
MustGrow == ((entries_count + thombstones_count) % Wrap) * 10 > 6 * size

OneLess(count) == (count + Wrap - 1) % Wrap

-----------------------------------------------------------------------------
(* dict_insert into a table of n buckets with count entries and tombs      *)
(* tombstones.                                                             *)
InsertInto(tab, n, count, tombs, k, v) ==
  LET at == Scan(tab, n, k)
  IN  IF at.available
      THEN /\ size' = n
           /\ alloc' = Place(tab, at, k, v)
           /\ thombstones_count' = IF tab[at.dst].is_thombstone THEN OneLess(tombs) ELSE tombs
           /\ entries_count' = IF at.mode = "Inserting" THEN count + 1 ELSE count
           /\ reply' = [bool |-> at.mode = "Inserting"]
           /\ UNCHANGED failed
      ELSE /\ failed' = TRUE
           /\ UNCHANGED <<size, alloc, entries_count, thombstones_count, reply>>

(* An insertion ends any iteration under way: no client does both at once. *)
Insert(k, v) ==
  /\ \/ /\ ~ MustGrow
        /\ InsertInto(alloc, size, entries_count, thombstones_count, k, v)
     \/ /\ MustGrow /\ 2 * size <= MaxSize
        /\ InsertInto(Grown(alloc, size), 2 * size, entries_count, 0, k, v)
  /\ iterator_state' = None /\ visited' = {}

RemoveAt_LeavesNoThombstone(p) == [alloc EXCEPT ![p] = EmptyBucket]
RemoveAt(p) == [alloc EXCEPT ![p] = Thombstone]

Remove(k) ==
  LET p == Find(alloc, size, k)
  IN  /\ reply' = [bool |-> p # None]
      /\ \/ /\ p # None
            /\ alloc' = RemoveAt(p)
            /\ thombstones_count' = (thombstones_count + 1) % Wrap
            /\ entries_count' = entries_count - 1
         \/ /\ p = None
            /\ UNCHANGED <<alloc, thombstones_count, entries_count>>
      /\ UNCHANGED <<size, iterator_state, visited, failed>>

FindValue(k) ==
  /\ reply' = [value |-> ValueOf(alloc, size, k)]
  /\ UNCHANGED <<size, alloc, entries_count, thombstones_count, iterator_state,
                 visited, failed>>

Clear ==
  /\ alloc' = [p \in 0 .. size - 1 |-> EmptyBucket]
  /\ entries_count' = 0 /\ thombstones_count' = 0
  /\ reply' = None
  /\ iterator_state' = None /\ visited' = {}
  /\ UNCHANGED <<size, failed>>

IterBegin ==
  /\ iterator_state = None
  /\ iterator_state' = 0 /\ visited' = {}
  /\ UNCHANGED <<size, alloc, entries_count, thombstones_count, reply, failed>>

Iter_Stays ==
  /\ iterator_state # None
  /\ LET later == {p \in iterator_state .. size - 1 : alloc[p].is_present}
     IN  /\ later # {}
         /\ iterator_state' = First(later)
         /\ visited' = visited \cup {alloc[First(later)].key}
  /\ UNCHANGED <<size, alloc, entries_count, thombstones_count, reply, failed>>

(* One call of shd_dict_iter: on to the next present bucket, or the end.   *)
Iter ==
  /\ iterator_state # None
  /\ LET later == {p \in iterator_state .. size - 1 : alloc[p].is_present}
     IN  \/ /\ later # {}
            /\ iterator_state' = First(later) + 1
            /\ visited' = visited \cup {alloc[First(later)].key}
         \/ /\ later = {}
            /\ iterator_state' = None /\ visited' = {}
  /\ UNCHANGED <<size, alloc, entries_count, thombstones_count, reply, failed>>

DictInit ==
  /\ size = init_size
  /\ alloc = [p \in 0 .. init_size - 1 |-> EmptyBucket]
  /\ entries_count = 0 /\ thombstones_count = 0
  /\ reply = None
  /\ iterator_state = None /\ visited = {}
  /\ failed = FALSE

DictNext ==
  /\ ~ failed
  /\ \/ \E k \in Keys, v \in Values : Insert(k, v)
     \/ \E k \in Keys : Remove(k) \/ FindValue(k)
     \/ Clear \/ IterBegin \/ Iter

DictSpec == DictInit /\ [][DictNext]_dictvars

-----------------------------------------------------------------------------
Present == {p \in 0 .. size - 1 : alloc[p].is_present}

(* entries_count, the size clients read with shd_dict_count, is the number *)
(* of keys that can be found.                                              *)
CountIsExact ==
  entries_count = Cardinality({k \in Keys : Find(alloc, size, k) # None})

(* A client that loops over shd_dict_iter, and removes entries while it    *)
(* does, has been given every key still behind it and none still ahead.    *)
IterationIsExact ==
  iterator_state # None =>
    \A p \in Present : alloc[p].key \in visited <=> p < iterator_state

(* A table that nobody has removed from since it last grew, as most of the *)
(* compiler's, is never full: a scan for an absent key ends at a clean     *)
(* bucket, before it has been all the way round.                           *)
ScanEndsAtCleanBucket ==
  (thombstones_count = 0 /\ \A q \in 0 .. size - 1 : ~ alloc[q].is_thombstone)
    => \E p \in 0 .. size - 1 : IsClean(alloc, p)

(* The table is a map, whatever the order of insertions, removals, moves   *)
(* and growths.                                                            *)
AsMap == [k \in Keys |-> ValueOf(alloc, size, k)]
Abstract == INSTANCE KeyedMap WITH map <- AsMap
ImplementsMap == Abstract!Spec

=============================================================================
