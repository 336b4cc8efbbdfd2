------------------------------ MODULE MemoryTree ------------------------------
(***************************************************************************)
(* The B+ trees in memory that came before those of server-side/schema:    *)
(* table_tree/nodes.c, from keys to rows, and index_tree/indexTree.c, from *)
(* values to the keys of the rows that have them (idxdata).  They differ   *)
(* only in what an insert and a delete do to a leaf.                       *)
(*                                                                         *)
(* A node on the way down that is full is split before it is entered, so   *)
(* every operation is one walk.  The key that moves up stays in the left   *)
(* half, which gets a new, empty node for its last child.  A tree is the   *)
(* value of its root; nodes are never shared.                              *)
(***************************************************************************)
EXTENDS Integers, Sequences, FiniteSets, SequencesExt

Programs == {"table", "index"}

CONSTANTS ORDER,        \* of each program: a node has at most ORDER - 1 pairs, 5 in both
          Pairs,        \* bound: the keys and data that each program is given
          MaxCalls      \* bound on the inserts and deletes

ASSUME MemoryTreeAssumption == /\ ORDER \in [Programs -> Nat \ 0..2]
                               /\ Pairs \in [Programs -> SUBSET (Nat \X Nat)]
                               /\ MaxCalls \in Nat

Keys == UNION {{pair[1] : pair \in Pairs[k]} : k \in DOMAIN Pairs}

VARIABLES kind,         \* which of the two programs runs
          root,         \* the tree
          fate,         \* "up", or the call that has followed a pointer never written
          stored,       \* auxiliary: by key, what was inserted and not deleted
          times,        \* auxiliary: how often a key was inserted,
          calls         \* how many calls were made

vars == <<kind, root, fate, stored, times, calls>>

\* A pair has the data of a key: of a table its row, of an index the keyarray, as a
\* set (its memory has room for one key, and for six as malloc rounds it up).
\* The children of a node just made are not written yet: <<>>.
Pair(key, data) == [key |-> key, data |-> data]
Node(leaf, pairs, kids) == [leaf |-> leaf, pairs |-> pairs, kids |-> kids]
yabcreate == Node(TRUE, <<>>, <<>>)
Full(node) == Len(node.pairs) >= ORDER[kind] - 1

Has(node, key) == \E i \in DOMAIN node.pairs : node.pairs[i].key = key

-----------------------------------------------------------------------------
\* The dichotomies over the pairs of a node, which are in order.  An insert
\* enters the child after the keys that are not greater, a delete the one after
\* those that are smaller, from 0.
CellForInsert(node, key) == Cardinality({i \in DOMAIN node.pairs : node.pairs[i].key <= key})
CellForDelete(node, key) == Cardinality({i \in DOMAIN node.pairs : node.pairs[i].key < key})

\* Mutant: a search goes on after an equal key of an interior node.
ProbeAfter(node, key) ==
  [hit |-> Has(node, key), at |-> IF node.leaf THEN CellForDelete(node, key) ELSE CellForInsert(node, key)]

\* A search stops when it meets the key: hit, at cell at.
Probe(node, key) ==
  LET n == Len(node.pairs)
      probe[min \in -1..n, max \in 0..n] ==
        LET cur == (max + min) \div 2 IN
        CASE max - min <= 1 -> [hit |-> FALSE, at |-> max]
          [] node.pairs[cur + 1].key = key -> [hit |-> TRUE, at |-> cur]
          [] node.pairs[cur + 1].key < key -> probe[cur, max]
          [] OTHER -> probe[min, cur]
  IN probe[-1, n]

\* A node without children that is no leaf: what a call finds behind the pointers
\* that were never written is anything, and the call is not ok.
Unwritten(node) == ~node.leaf /\ node.kids = <<>>

\* What yabsearch returns for a key, {} for 0
RECURSIVE yabsearch(_, _)
yabsearch(node, key) ==
  LET found == Probe(node, key) IN
  CASE node.leaf -> [ok |-> TRUE, data |-> IF found.hit THEN node.pairs[found.at + 1].data ELSE {}]
    [] Unwritten(node) -> [ok |-> FALSE, data |-> {}]
    [] OTHER -> yabsearch(node.kids[found.at + 1], key)

\* Mutant: the child after the last pair is left out.
RECURSIVE AllButLast(_)
AllButLast(node) ==
  LET below == [i \in DOMAIN node.pairs |-> AllButLast(node.kids[i])] IN
  CASE node.leaf -> [ok |-> TRUE, pairs |-> node.pairs]
    [] Unwritten(node) -> [ok |-> FALSE, pairs |-> <<>>]
    [] OTHER -> [ok |-> \A i \in DOMAIN below : below[i].ok,
                 pairs |-> FlattenSeq([i \in DOMAIN below |-> below[i].pairs])]

\* The pairs that yabgetall lists.  It enters nb_keys + 1 children of every node
\* that is no leaf, of one just made too.
RECURSIVE yabgetall(_)
yabgetall(node) ==
  LET below == [i \in DOMAIN node.kids |-> yabgetall(node.kids[i])] IN
  CASE node.leaf -> [ok |-> TRUE, pairs |-> node.pairs]
    [] Unwritten(node) -> [ok |-> FALSE, pairs |-> <<>>]
    [] OTHER -> [ok |-> \A i \in DOMAIN below : below[i].ok,
                 pairs |-> FlattenSeq([i \in DOMAIN below |-> below[i].pairs])]

-----------------------------------------------------------------------------
Mid(child) == Len(child.pairs) \div 2

\* Mutant: the new last child is a leaf, as the half of a leaf is.
LeftHalfOverLeaf(child, mid) ==
  Node(child.leaf, SubSeq(child.pairs, 1, mid),
       IF child.leaf THEN <<>> ELSE Append(SubSeq(child.kids, 1, mid), yabcreate))

\* The halves of a child, the left one with its new last child
LeftHalf(child, mid) ==
  Node(child.leaf, SubSeq(child.pairs, 1, mid),
       IF child.leaf THEN <<>>
       ELSE Append(SubSeq(child.kids, 1, mid), Node(child.kids[1].leaf, <<>>, <<>>)))

\* Mutant: the right half begins a pair too late.
RightHalfLate(child, mid) ==
  Node(child.leaf, SubSeq(child.pairs, mid + 2, Len(child.pairs)),
       SubSeq(child.kids, mid + 2, Len(child.kids)))

RightHalf(child, mid) ==
  Node(child.leaf, SubSeq(child.pairs, mid + 1, Len(child.pairs)),
       SubSeq(child.kids, mid + 1, Len(child.kids)))

\* splitChild: the child at a cell becomes two, between them the key that moves up.
splitChild(parent, cell) ==
  LET child == parent.kids[cell + 1]
      mid == Mid(child) IN
  Node(FALSE, InsertAt(parent.pairs, cell + 1, child.pairs[mid]),
       SubSeq(parent.kids, 1, cell) \o <<LeftHalf(child, mid), RightHalf(child, mid)>>
         \o SubSeq(parent.kids, cell + 2, Len(parent.kids)))

\* Mutant: the walk goes on in the left half.
LeftHalfAlways(parent, cell, key) == cell

\* The half that splitChild returns: of the key that moved up, the left one.
HalfFor(parent, cell, key) == IF parent.pairs[cell + 1].key < key THEN cell + 1 ELSE cell

-----------------------------------------------------------------------------
WithPair(leaf, key, data) ==
  [leaf EXCEPT !.pairs = InsertAt(@, CellForInsert(leaf, key) + 1, Pair(key, data))]

\* A table refuses a key that its leaf has.  An index adds the key of the row to
\* the last pair of the leaf, whichever key that has.
IntoLeaf(leaf, key, inside) ==
  CASE ~Has(leaf, key) -> WithPair(leaf, key, {inside})
    [] kind = "table" -> leaf
    [] OTHER -> [leaf EXCEPT !.pairs[Len(leaf.pairs)].data = @ \union {inside}]

\* The walk of an insert from a node that is not full, with the node it leaves
\* and whether it found every child written.
RECURSIVE Into(_, _, _)
Into(node, key, inside) ==
  LET cell == CellForInsert(node, key)
      split == node.kids # <<>> /\ Full(node.kids[cell + 1])
      parent == IF split THEN splitChild(node, cell) ELSE node
      next == IF split THEN HalfFor(parent, cell, key) ELSE cell
      below == Into(parent.kids[next + 1], key, inside) IN
  CASE node.leaf -> [node |-> IntoLeaf(node, key, inside), ok |-> TRUE]
    [] Unwritten(node) -> [node |-> node, ok |-> FALSE]
    [] OTHER -> [node |-> [parent EXCEPT !.kids[next + 1] = below.node], ok |-> below.ok]

Called == fate = "up" /\ calls < MaxCalls /\ calls' = calls + 1
Fate(call, ok) == fate' = IF ok THEN "up" ELSE call

\* yabinsert and yaidxbinsert: a full root first gets a parent.
Grown == IF Full(root) THEN splitChild(Node(FALSE, <<>>, <<root>>), 0) ELSE root
yabinsert(key, inside) ==
  LET into == Into(Grown, key, inside) IN
  /\ Called
  /\ root' = into.node
  /\ Fate("insert", into.ok)
  /\ stored' = IF kind = "table" /\ stored[key] # {} THEN stored
               ELSE [stored EXCEPT ![key] = @ \union {inside}]
  /\ times' = [times EXCEPT ![key] = @ + 1]
  /\ UNCHANGED kind

-----------------------------------------------------------------------------
\* A pair goes when nothing of its data is left.
FromLeaf(leaf, key, inside) ==
  LET Rest(pair) == IF pair.key = key THEN [pair EXCEPT !.data = @ \ {inside}] ELSE pair
      pairs == [i \in DOMAIN leaf.pairs |-> Rest(leaf.pairs[i])] IN
  [leaf EXCEPT !.pairs = SelectSeq(pairs, LAMBDA pair : pair.data # {})]

\* The walk of a delete, as that of an insert
RECURSIVE From(_, _, _)
From(node, key, inside) ==
  LET cell == CellForDelete(node, key)
      below == From(node.kids[cell + 1], key, inside) IN
  CASE node.leaf -> [node |-> FromLeaf(node, key, inside), ok |-> TRUE]
    [] Unwritten(node) -> [node |-> node, ok |-> FALSE]
    [] OTHER -> [node |-> [node EXCEPT !.kids[cell + 1] = below.node], ok |-> below.ok]

\* yabdelete and yaidxbdelete: nothing is merged.
yabdelete(key, inside) ==
  LET from == From(root, key, inside) IN
  /\ Called
  /\ root' = from.node
  /\ Fate("delete", from.ok)
  /\ stored' = [stored EXCEPT ![key] = @ \ {inside}]
  /\ UNCHANGED <<kind, times>>

\* The calls that only read
Reads == fate = "up" /\ UNCHANGED <<kind, root, stored, times, calls>>
Search(key) == Reads /\ Fate("search", yabsearch(root, key).ok)
List == Reads /\ Fate("list", yabgetall(root).ok)

Init == /\ kind \in Programs
        /\ root = yabcreate
        /\ fate = "up"
        /\ stored = [k \in Keys |-> {}]
        /\ times = [k \in Keys |-> 0]
        /\ calls = 0

Next == \/ \E pair \in Pairs[kind] : yabinsert(pair[1], pair[2]) \/ yabdelete(pair[1], pair[2])
        \/ \E key \in Keys : Search(key)
        \/ List

Spec == Init /\ [][Next]_vars

-----------------------------------------------------------------------------
\* How many levels a tree has below its first children
RECURSIVE Height(_)
Height(node) == IF node.kids = <<>> THEN 0 ELSE 1 + Height(node.kids[1])

\* TYPE: every leaf is at the same level, nodes are not more than full and have
\* a child more than pairs, except those just made above the leaves.
RECURSIVE NodeOK(_, _)
NodeOK(node, height) ==
  /\ Len(node.pairs) < ORDER[kind]
  /\ node.leaf = (height = 0)
  /\ IF node.kids = <<>> THEN node.leaf \/ node.pairs = <<>>
     ELSE /\ Len(node.kids) = Len(node.pairs) + 1
          /\ \A i \in DOMAIN node.kids : NodeOK(node.kids[i], height - 1)
TypeOK == /\ kind \in Programs /\ fate \in {"up", "insert", "delete", "search", "list"}
          /\ NodeOK(root, Height(root))

\* The keys in the leaves, from left to right
RECURSIVE KeysOf(_)
KeysOf(node) ==
  IF node.leaf THEN [i \in DOMAIN node.pairs |-> node.pairs[i].key]
  ELSE FlattenSeq([i \in DOMAIN node.kids |-> KeysOf(node.kids[i])])

\* The keys of a node are in order, and those of each child above the key before it
\* and not above the key after it; only a key inserted again is equal to the key
\* before it.
RECURSIVE Ordered(_, _, _)
Ordered(node, above, upto) ==
  LET keys == <<above>> \o [i \in DOMAIN node.pairs |-> node.pairs[i].key] \o <<upto>> IN
  /\ \A i \in 2..(Len(keys) - 1) :
       /\ keys[i - 1] < keys[i] \/ (keys[i - 1] = keys[i] /\ times[keys[i]] > 1)
       /\ keys[i] <= upto
  /\ \A i \in DOMAIN node.kids : Ordered(node.kids[i], keys[i], keys[i + 1])

\* The tree is a search tree: splits leave every key on its side of the keys above
\* it, although the key that moves up stays below, with a child behind it, and
\* deletes leave keys in interior nodes that no leaf has (splitChild, yabdelete).
InOrder == LET none == Min(Keys) - 1 IN Ordered(root, none, Max(Keys))

\* nodes.c, indexTree.c: a search retrieves the data of a key if there is any.
\* This holds of a key as long as it is inserted once, whatever happens to the
\* other keys: an insert goes after an equal key of an interior node and a search
\* before it, so a key that stayed behind in a node and comes back is not found.
FoundOnce ==
  \A key \in Keys : times[key] < 2 /\ fate = "up" =>
    /\ stored[key] \subseteq yabsearch(root, key).data
    /\ kind = "table" => yabsearch(root, key).data = stored[key]

\* nodes.c:70: a listing retrieves every data stored in the tree.  This holds of the
\* keys that are inserted once, in a tree of at most three levels: a split one level
\* higher makes an interior node that the listing enters.
ListsStored ==
  LET listed == yabgetall(root)
      Of(key) == {i \in DOMAIN listed.pairs : listed.pairs[i].key = key} IN
  fate = "up" /\ Height(root) < 3 =>
    /\ listed.ok
    /\ \A key \in Keys : times[key] < 2 =>
         /\ stored[key] # {} => Cardinality(Of(key)) = 1
         /\ \A i \in Of(key) : /\ stored[key] \subseteq listed.pairs[i].data
                               /\ kind = "table" => stored[key] = listed.pairs[i].data

\* Which calls follow the pointers that splitChild never writes (nodes.c:198): no
\* search and no delete, an insert only of a key that was inserted before, and a
\* listing only of a tree of four levels.
OnlyKnownStrays ==
  [][/\ fate' \notin {"search", "delete"}
     /\ fate' = "insert" => \E key \in Keys : times[key] > 0 /\ times'[key] > times[key]
     /\ fate' = "list" => Height(root) >= 3]_vars

\* An insert adds its own key to the leaves, or leaves them alone when the key was
\* there; a delete takes away at most one key, of which nothing is stored any more,
\* and no other than that whose data it deletes; and no split on the way moves a key
\* out of the leaves or into them twice (yabinsert, yabdelete).
KeysChangeByOne ==
  [][LET old == KeysOf(root)
         new == KeysOf(root') IN
     /\ \A key \in Keys : times'[key] > times[key] =>
          \/ new = old /\ (key \in ToSet(old) \/ fate' = "insert")
          \/ \E i \in DOMAIN new : new[i] = key /\ old = RemoveAt(new, i)
     /\ times' = times /\ new # old =>
          \E i \in DOMAIN old :
            /\ new = RemoveAt(old, i)
            /\ stored'[old[i]] = {} \/ times[old[i]] > 1
            /\ \A key \in Keys : stored'[key] # stored[key] => key = old[i]]_vars
=============================================================================
