------------------------------ MODULE IrArena ------------------------------
(***************************************************************************)
(* Structural sharing in an IR arena: strings (shd_string and              *)
(* shd_string_sized), lists of strings and of nodes (shd_strings and       *)
(* shd_nodes, all in src/shady/ir.c) and nodes (_shd_create_node_helper,   *)
(* src/shady/ir/grammar.c) are kept in hash sets, so that two things that  *)
(* are equal are the same pointer.  Node comparison relies on it: payloads *)
(* are compared with memcmp, the names and operands in them by address.    *)
(*                                                                         *)
(* A text is a string's content.  The arena the slim parser fills also     *)
(* gets tokens, sized strings whose memory goes on with the rest of the    *)
(* file; an arena that a pass rewrites a module into gets none, because    *)
(* the constructors intern every name anew with shd_string.  Strings,      *)
(* lists and nodes live in the bump allocator (Arena).                     *)
(***************************************************************************)
EXTENDS Arena, Sequences, FiniteSets

CONSTANTS
  Texts,
  Remainder,     \* Remainder[c]: what may be left of a file at a token c
  Structural,    \* tags of nodes compared by payload
  Nominal,       \* tags of nodes compared by address
  Folding,       \* the structural tags _shd_fold_node replaces by an operand
  StringSize,    \* StringSize[c]: strlen(c) + 1
  NodeSize,      \* sizeof(Node)
  PointerSize,   \* sizeof(const Node*) and sizeof(const char*)
  MaxStrings, MaxLists, MaxNodes,    \* bounds on the arena
  MaxCount                           \* bound on the entries of a list

ASSUME TextAssumption ==
  /\ StringSize \in [Texts -> Nat]
  /\ NodeSize \in Nat \ {0} /\ PointerSize \in Nat \ {0}
  /\ Remainder \in [Texts -> SUBSET Texts]
  /\ Structural \cap Nominal = {} /\ Folding \subseteq Structural
  /\ {MaxStrings, MaxLists, MaxNodes, MaxCount} \subseteq Nat

VARIABLES
  parsing,      \* this is the arena the slim parser fills
  strings,      \* the strings in the arena: pointer p has content strings[p]
  string_set,   \* the pointers in the string set, per content; 0: none
  lists,        \* the lists of strings and of nodes, all in their sets
  nodes,        \* the nodes in the arena
  node_set,     \* those in the node set
  given         \* every string a caller asked for and got

irvars == <<parsing, strings, string_set, lists, nodes, node_set, given>>

NULL == 0

(* string_impl(size, zero_terminated): looks up all that follows the       *)
(* pointer, copies and inserts the first size characters.                  *)
Found(zero_terminated) == string_set[zero_terminated]

Fresh == Len(strings) + 1
string_impl(text, zero_terminated) ==
  IF Found(zero_terminated) # NULL
  THEN [ptr |-> Found(zero_terminated), strings |-> strings, set |-> string_set]
  ELSE [ptr |-> Fresh, strings |-> Append(strings, text),
        set |-> [string_set EXCEPT ![text] = Fresh]]

Intern(text, zero_terminated) ==
  LET interned == string_impl(text, zero_terminated)
  IN  /\ Len(interned.strings) <= MaxStrings
      /\ strings' = interned.strings /\ string_set' = interned.set
      /\ given' = given \cup {[asked |-> text, got |-> interned.ptr]}

(* What string_impl allocates: room for all that follows the pointer.      *)
AllocString(text, zero_terminated) ==
  IF Len(string_impl(text, zero_terminated).strings) > Len(strings)
  THEN Alloc(StringSize[zero_terminated]) ELSE UNCHANGED vars

shd_string_sized(text, zero_terminated) ==
  /\ Intern(text, zero_terminated) /\ AllocString(text, zero_terminated)
  /\ UNCHANGED <<parsing, lists, nodes, node_set>>

shd_string(text) == shd_string_sized(text, text)

(* The look-up in nodes_set and strings_set: count and entries, as         *)
(* shd_compare_nodes and shd_compare_strings compare them.                 *)
InListSet(list) == \E l \in 1 .. Len(lists) : lists[l] = list

(* shd_nodes and shd_strings: the list of the set if there is one, else a  *)
(* copy, put in the set.                                                   *)
InternList(list) ==
  /\ \/ InListSet(list) /\ UNCHANGED <<lists, vars>>
     \/ /\ ~ InListSet(list) /\ Len(lists) < MaxLists
        /\ lists' = Append(lists, list)
        /\ Alloc(PointerSize * Len(list.elems))
  /\ UNCHANGED <<parsing, strings, string_set, nodes, node_set, given>>

Entries(n) == UNION {[1 .. count -> 1 .. n] : count \in 0 .. MaxCount}

shd_nodes(in_nodes) == InternList([of |-> "nodes", elems |-> in_nodes])
shd_strings(in_strs) == InternList([of |-> "strings", elems |-> in_strs])

(* The lookup in the node set, as shd_compare_node compares.               *)
InNodeSet_Never(payload) == FALSE
InNodeSet(payload) ==
  payload.tag \in Structural /\ \E i \in node_set : nodes[i] = payload

(* The lists a constructor may hand on: it has interned every name again   *)
(* and then the list of them (shd_string and _shd_import_strings, steps of *)
(* their own here), so each is the pointer the string set has.             *)
Imported(names) ==
  /\ lists[names].of = "strings"
  /\ \A k \in 1 .. Len(lists[names].elems) :
       LET name == lists[names].elems[k] IN string_set[strings[name]] = name

(* _shd_create_node_helper: the payload is looked up, folded, and only     *)
(* then allocated.                                                         *)
CreateNode(tag, names, ops) ==
  LET payload == [tag |-> tag, names |-> names, ops |-> ops]
      folds   == tag \in Folding /\ lists[ops].elems # <<>>
  IN  /\ Imported(names) /\ lists[ops].of = "nodes"
      /\ \/ (InNodeSet(payload) \/ folds) /\ UNCHANGED <<nodes, node_set, vars>>
         \/ /\ ~ InNodeSet(payload) /\ ~ folds
            /\ Len(nodes) < MaxNodes
            /\ Alloc(NodeSize)
            /\ nodes' = Append(nodes, payload)
            /\ node_set' = node_set \cup {Len(nodes) + 1}
      /\ UNCHANGED <<parsing, strings, string_set, lists, given>>

IrInit ==
  /\ Init
  /\ parsing \in BOOLEAN
  /\ strings = <<>> /\ string_set = [c \in Texts |-> NULL]
  /\ lists = <<>> /\ nodes = <<>> /\ node_set = {} /\ given = {}

IrNext ==
  \/ \E c \in Texts : shd_string(c)
  \/ parsing /\ \E c \in Texts : \E w \in Remainder[c] : shd_string_sized(c, w)
  \/ \E in_strs \in Entries(Len(strings)) : shd_strings(in_strs)
  \/ \E in_nodes \in Entries(Len(nodes)) : shd_nodes(in_nodes)
  \/ \E tag \in Structural \cup Nominal, names, ops \in 1 .. Len(lists) :
       CreateNode(tag, names, ops)

IrSpec == IrInit /\ [][IrNext]_<<vars, irvars>>

-----------------------------------------------------------------------------

(* Strings are interned (string_impl): who asks twice for the same text    *)
(* gets the same pointer, whatever was interned and allocated in between,  *)
(* and everyone gets the text it asked for.                                *)
StringsShared ==
  \A g, h \in given : g.asked = h.asked => g.got = h.got
StringsFaithful == \A g \in given : strings[g.got] = g.asked
\* Both hold of string_impl (ir.c) in an arena that gets no tokens.
StringsInterned == StringsShared /\ StringsFaithful

(* Two lists with the same entries are one list (shd_nodes, shd_strings).  *)
ListsShared == \A l, m \in 1 .. Len(lists) : lists[l] = lists[m] => l = m

(* Two structural nodes that read the same, names and operands included,   *)
(* are one node, whatever was created in between.                          *)
NameTexts(i) ==
  LET names == lists[nodes[i].names].elems
  IN  [k \in 1 .. Len(names) |-> strings[names[k]]]
SameText(i, j) ==
  /\ nodes[i].tag = nodes[j].tag /\ NameTexts(i) = NameTexts(j)
  /\ lists[nodes[i].ops].elems = lists[nodes[j].ops].elems
NodesShared ==
  \A i, j \in node_set : nodes[i].tag \in Structural /\ SameText(i, j) => i = j

(* What the compiler compares by address is there once: lists, and in the  *)
(* arenas the passes rewrite into strings (ir.c) and structural nodes      *)
(* (grammar.c).  Of the parser's arena the last two are not true.          *)
InterningExact ==
  /\ ListsShared
  /\ ~ parsing => StringsInterned /\ NodesShared
=============================================================================
