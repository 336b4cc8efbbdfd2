--------------------------- MODULE TableTreeSearch ---------------------------
(***************************************************************************)
(* Proofs about TableTree for every ORDER of the tree, any number of rows, *)
(* pages and ends of the process: a search finds every row after every     *)
(* write, the leaf of the next id knows its parent, and the tree           *)
(* implements a table of rows.                                             *)
(***************************************************************************)
EXTENDS TableTreeProofs

-----------------------------------------------------------------------------
\* The invariant.  Only the last leaf and the root are ever split: the parent of
\* the last leaf is the root, however deep it lies.  So the interior nodes below
\* the root never change, and what a search finds is said of a root, which may
\* still be in memory, over the pages below it.

\* The child that a node sends a key to
Child(n, key) == n.kids[Cell(n, key) + 1]

\* A walk through pages of S, and one below the root
Way(d, key, from, to, S) ==
  \E s \in Seq(Page) :
    /\ s # <<>> /\ s[1] = from /\ s[Len(s)] = to
    /\ \A i \in 1..(Len(s) - 1) : s[i] \in S /\ s[i + 1] = Child(d.node[s[i]], key)
Below(d) == Interiors(d) \ {Root}
Leads(d, key, page, leaf) == leaf \in Leaves(d) \ {Root} /\ Way(d, key, page, leaf, Below(d))

\* A search for a key under the root n finds the rows of lower and none that is
\* not in upper.
Answers(leaf, key, lower, upper) == /\ key \in lower => key \in ToSet(leaf.keys)
                                    /\ key \in ToSet(leaf.keys) => key \in upper
Holds(d, n, key, lower, upper) ==
  IF n.leaf THEN Answers(n, key, lower, upper)
  ELSE \E leaf \in Leaves(d) : /\ Leads(d, key, Child(n, key), leaf)
                               /\ Answers(d.node[leaf], key, lower, upper)

Ascending(s) == \A i, j \in 1..Len(s) : i < j => s[i] < s[j]

\* The leaf of every key from its first one on, under the root n
LastLeaf(d, n, leaf) ==
  /\ leaf \in Leaves(d) \ {Root}
  /\ d.node[leaf].parent = Root
  /\ d.node[leaf].keys # <<>> /\ Ascending(d.node[leaf].keys)
  /\ \A i \in 1..Len(n.keys) : n.keys[i] <= d.node[leaf].keys[1]
  /\ \A key \in Key : key >= d.node[leaf].keys[1] => Leads(d, key, Child(n, key), leaf)
  /\ \A i \in 1..(Len(n.kids) - 1) : n.kids[i] # leaf

RootOK(d, n, lower, upper) ==
  /\ Root \in Pages(d)
  /\ n.parent = NoPage /\ Ascending(n.keys)
  /\ \A i \in 1..Len(n.kids) : n.kids[i] # Root
  /\ \A key \in Key : Holds(d, n, key, lower, upper)
  /\ ~n.leaf => \E leaf \in Leaves(d) : LastLeaf(d, n, leaf)

\* The row of an insert in progress, and the file once its leaf is written
NewRow(d) == d.next_id - 1
AllRows(d) == d.rows \union {NewRow(d)}
Pending(d, f) == WriteNode(d, f.page, f.node)

TreeOK(d) == RootOK(d, d.node[Root], d.rows, AllRows(d))

\* The root that the last call holds, once it is written, and once the leaf is
Ready(d, f, n) == RootOK(d, n, d.rows, AllRows(d))
Complete(d, f, n) == f.page # Root /\ RootOK(Pending(d, f), n, AllRows(d), AllRows(d))

SameTree(m, n) == m.leaf = n.leaf /\ m.keys = n.keys /\ m.kids = n.kids

\* The node that a call has split
WasLeaf(d, f, n) ==
  /\ n.leaf /\ Len(n.keys) = ORDER
  /\ f.node.keys = SubSeq(n.keys, 1, Half)
  /\ f.key = n.keys[Half + 1]
  /\ f.sibling \in Leaves(d) \ {Root}
  /\ d.node[f.sibling].keys = SubSeq(n.keys, Half + 1, ORDER)
WasInterior(d, f, n) ==
  /\ ~n.leaf /\ Len(n.keys) = ORDER /\ Len(n.kids) = ORDER + 1
  /\ f.node.keys = SubSeq(n.keys, 1, Half) /\ f.node.kids = SubSeq(n.kids, 1, Half + 1)
  /\ f.key = n.keys[Half + 1]
  /\ f.sibling \in Interiors(d) \ {Root}
  /\ d.node[f.sibling].keys = SubSeq(n.keys, Half + 2, ORDER)
  /\ d.node[f.sibling].kids = SubSeq(n.kids, Half + 2, ORDER + 1)

\* create_root, from the new root to the call that adds the second half to it
CreatingRoot(d, f) ==
  /\ f.pc \in {"root", "move", "sibling", "children", "up"}
  /\ f.pc = "root" => ~d.torn /\ f.page = Root /\ f.node.parent = NoPage
  /\ f.pc # "root" => /\ d.torn /\ d.node[Root] = Interior(NoPage, <<>>, <<f.moved>>)
                      /\ f.node.parent = Root
                      /\ f.moved \in Page \ {Root, f.sibling}
  /\ f.pc \in {"move", "sibling"} => f.page = Root
  /\ f.pc \in {"sibling", "children", "up"} => f.moved \in Pages(d) /\ SameTree(d.node[f.moved], f.node)
  /\ f.pc \in {"children", "up"} => f.page = f.moved

\* No insert is in progress.
Idle(d, fs) == fs = <<>> /\ ~d.torn /\ RootOK(d, d.node[Root], d.rows, d.rows)

\* insert holds a leaf, or the old half of one whose new half is in the tree.
AddingRow(d, fs) ==
  LET e == Pending(d, fs[1]) IN
  /\ Len(fs) = 1 /\ fs[1].pc \in {"split", "write"} /\ ~d.torn
  /\ RootOK(e, e.node[Root], AllRows(d), AllRows(d))
  /\ fs[1].pc = "split" /\ fs[1].page # Root => LastLeaf(e, e.node[Root], fs[1].page)

\* The last leaf is split and its new half is not in the tree.
LeafSplit(d, fs) ==
  /\ Len(fs) = 1 /\ fs[1].pc = "up" /\ ~d.torn
  /\ fs[1].page # Root /\ fs[1].sibling # fs[1].page
  /\ fs[1].node.parent = Root /\ d.node[fs[1].sibling].parent = Root
  /\ \A i \in 1..Len(d.node[Root].kids) : d.node[Root].kids[i] # fs[1].sibling
  /\ \E n \in Node : LET e == WriteNode(d, fs[1].page, n) IN
       /\ WasLeaf(d, fs[1], n)
       /\ RootOK(e, d.node[Root], AllRows(d), AllRows(d))
       /\ LastLeaf(e, d.node[Root], fs[1].page)

\* The root is the leaf that is split.
LeafRootSplit(d, fs) ==
  /\ Len(fs) = 1 /\ CreatingRoot(d, fs[1])
  /\ fs[1].pc = "up" => d.node[fs[1].sibling].parent = Root
  /\ \E n \in Node : WasLeaf(d, fs[1], n) /\ Ascending(n.keys) /\ ToSet(n.keys) = AllRows(d)

\* insert_internal holds the root, with the new half of the leaf.
AddingChild(d, fs) ==
  /\ Len(fs) = 2 /\ fs[2].pc \in {"split", "write"} /\ fs[2].page = Root
  /\ fs[2].pc = "split" => ~d.torn
  /\ Ready(d, fs[1], fs[2].node) /\ Complete(d, fs[1], fs[2].node)

\* The root is an interior node that is split.
RootSplit(d, fs) ==
  /\ Len(fs) = 2 /\ CreatingRoot(d, fs[2])
  /\ fs[1].page \notin {Root, fs[2].sibling}
  /\ fs[2].pc # "root" => fs[1].page # fs[2].moved
  /\ \E n \in Node : WasInterior(d, fs[2], n) /\ Ready(d, fs[1], n) /\ Complete(d, fs[1], n)

\* The new root is complete in memory, and then written before its half.
AddingHalf(d, fs) ==
  /\ Len(fs) = 3 /\ fs[3].pc = "write" /\ fs[3].page = Root
  /\ fs[2].page \notin {Root, fs[1].page} /\ SameTree(d.node[fs[2].page], fs[2].node)
  /\ Ready(d, fs[1], fs[3].node) /\ Complete(d, fs[1], fs[3].node)
WritingHalf(d, fs) ==
  /\ Len(fs) = 2 /\ fs[2].pc = "write" /\ ~d.torn
  /\ fs[2].page \notin {Root, fs[1].page} /\ SameTree(d.node[fs[2].page], fs[2].node)
  /\ Complete(d, fs[1], d.node[Root])

Phase(d, fs) == \/ Idle(d, fs) \/ AddingRow(d, fs) \/ LeafSplit(d, fs) \/ LeafRootSplit(d, fs)
                \/ AddingChild(d, fs) \/ RootSplit(d, fs) \/ AddingHalf(d, fs) \/ WritingHalf(d, fs)

SearchInv == ~lost => /\ Phase(db, frames)
                      /\ \A d \in {db, file} : ~d.torn => TreeOK(d)

-----------------------------------------------------------------------------
\* Walks

\* The cell of a key: the keys up to it are not greater, and the next one is.
CellFits(n, key, c) == /\ c \in 0..Len(n.keys)
                       /\ \A i \in 1..c : n.keys[i] <= key
                       /\ c < Len(n.keys) => key < n.keys[c + 1]

LEMMA CellRange ==
  ASSUME NEW n \in Node, NEW key \in Key
  PROVE  CellFits(n, key, Cell(n, key))
<1> DEFINE s == n.keys
           T == {c \in 0..Len(s) : c < Len(s) => key < s[c + 1]}
<1>1. s \in Seq(Nat) /\ Len(s) \in Nat /\ key \in Nat
  BY DEF Node, Key
<1>2. T \in SUBSET Nat /\ Len(s) \in T
  BY <1>1
<1>3. PICK c \in T : \A y \in T : c <= y
  BY <1>2, LeastNumber
<1>4. ASSUME NEW i \in 1..c PROVE s[i] <= key
  <2>1. i - 1 \in 0..Len(s) /\ i - 1 < Len(s) /\ i - 1 < c /\ (i - 1) + 1 = i /\ s[i] \in Nat
    BY SMTT(30), <1>1
  <2>2. i - 1 \notin T
    BY <1>1, <1>3, <2>1
  <2> QED
    BY <1>1, <2>1, <2>2
<1>5. \E x \in 0..Len(n.keys) : /\ \A i \in 1..x : n.keys[i] <= key
                                /\ x < Len(n.keys) => key < n.keys[x + 1]
  BY <1>3, <1>4
<1> QED
  BY <1>5 DEF Cell, CellFits

\* There is only one.
LEMMA CellIs ==
  ASSUME NEW n \in Node, NEW key \in Key, NEW c, CellFits(n, key, c)
  PROVE  Cell(n, key) = c
<1> DEFINE s == n.keys
           b == Cell(n, key)
<1>1. s \in Seq(Nat) /\ Len(s) \in Nat /\ key \in Nat
  BY DEF Node, Key
<1>2. CellFits(n, key, b)
  BY CellRange
<1> HIDE DEF b
<1>3. ~(b < c)
  <2> SUFFICES ASSUME b < c PROVE FALSE
    OBVIOUS
  <2>1. b + 1 \in 1..c /\ b < Len(s) /\ s[b + 1] \in Nat
    BY <1>1, <1>2 DEF CellFits
  <2> QED
    BY <1>1, <1>2, <2>1 DEF CellFits
<1>4. ~(c < b)
  <2> SUFFICES ASSUME c < b PROVE FALSE
    OBVIOUS
  <2>1. c + 1 \in 1..b /\ c < Len(s) /\ s[c + 1] \in Nat
    BY <1>1, <1>2 DEF CellFits
  <2> QED
    BY <1>1, <1>2, <2>1 DEF CellFits
<1>5. b \in Nat /\ c \in Nat
  BY <1>1, <1>2 DEF CellFits
<1> QED
  BY <1>3, <1>4, <1>5 DEF b

\* The cell depends on the keys alone.
LEMMA ChildOfSame ==
  ASSUME NEW m, NEW n, NEW key, m.keys = n.keys, m.kids = n.kids
  PROVE  Child(m, key) = Child(n, key)
  BY DEF Child, Cell

LEMMA ChildIsPage ==
  ASSUME NEW n \in Node, NEW key \in Key, Len(n.kids) = Len(n.keys) + 1
  PROVE  /\ Cell(n, key) + 1 \in 1..Len(n.kids)
         /\ Child(n, key) \in Page
<1>1. n.keys \in Seq(Key) /\ n.kids \in Seq(Page) /\ Len(n.keys) \in Nat
  BY DEF Node
<1>2. Cell(n, key) \in 0..Len(n.keys)
  BY CellRange DEF CellFits
<1>3. Cell(n, key) + 1 \in 1..Len(n.kids)
  BY <1>1, <1>2
<1> QED
  BY <1>1, <1>3 DEF Child

\* A walk of one page, of one page more, and of one page less
LEMMA WayOfOne ==
  ASSUME NEW d, NEW key, NEW page \in Page, NEW S
  PROVE  Way(d, key, page, page, S)
<1>1. /\ <<page>> \in Seq(Page) /\ <<page>> # <<>> /\ <<page>>[1] = page
      /\ Len(<<page>>) = 1 /\ 1..(1 - 1) = {}
  OBVIOUS
<1> QED
  BY <1>1 DEF Way

LEMMA WayFromAbove ==
  ASSUME NEW d, NEW key, NEW S, NEW page \in S, NEW to, page \in Page,
         Way(d, key, Child(d.node[page], key), to, S)
  PROVE  Way(d, key, page, to, S)
<1>1. PICK s \in Seq(Page) :
        /\ s # <<>> /\ s[1] = Child(d.node[page], key) /\ s[Len(s)] = to
        /\ \A i \in 1..(Len(s) - 1) : s[i] \in S /\ s[i + 1] = Child(d.node[s[i]], key)
  BY DEF Way
<1> DEFINE t == <<page>> \o s
           n == Len(s)
<1>2. n \in Nat /\ n >= 1
  BY <1>1
<1>3. /\ t \in Seq(Page) /\ Len(t) = n + 1 /\ t[1] = page
      /\ \A i \in 1..n : t[i + 1] = s[i]
  BY <1>1, ConsEntries
<1> HIDE DEF t
<1>4. ASSUME NEW i \in 1..n PROVE t[i] \in S /\ t[i + 1] = Child(d.node[t[i]], key)
  <2>1. CASE i = 1
    BY <1>1, <1>2, <1>3, <2>1
  <2>2. CASE i # 1
    <3>1. i - 1 \in 1..(n - 1) /\ i - 1 \in 1..n /\ (i - 1) + 1 = i
      BY <1>2, <2>2
    <3>2. t[i] = s[i - 1] /\ t[i + 1] = s[i]
      <4>1. t[(i - 1) + 1] = s[i - 1]
        BY <1>3, <3>1
      <4> QED
        BY <1>3, <3>1, <4>1
    <3>3. s[i - 1] \in S /\ s[(i - 1) + 1] = Child(d.node[s[i - 1]], key)
      BY <1>1, <3>1
    <3> QED
      BY <3>1, <3>2, <3>3
  <2> QED
    BY <2>1, <2>2
<1>5. t[Len(t)] = to /\ t # <<>> /\ Len(t) - 1 = n
  BY <1>1, <1>2, <1>3
<1> QED
  BY <1>3, <1>4, <1>5 DEF Way

LEMMA WayGoesDown ==
  ASSUME NEW d, NEW key, NEW S, NEW page, NEW to, page # to, Way(d, key, page, to, S)
  PROVE  page \in S /\ Way(d, key, Child(d.node[page], key), to, S)
<1>1. PICK s \in Seq(Page) :
        /\ s # <<>> /\ s[1] = page /\ s[Len(s)] = to
        /\ \A i \in 1..(Len(s) - 1) : s[i] \in S /\ s[i + 1] = Child(d.node[s[i]], key)
  BY DEF Way
<1> DEFINE n == Len(s)
           t == SubSeq(s, 2, n)
<1>2. n \in Nat /\ n >= 2
  BY <1>1
<1>3. t \in Seq(Page) /\ Len(t) = n - 1 /\ \A i \in 1..(n - 1) : t[i] = s[i + 1]
  <2>1. /\ t \in Seq(Page) /\ Len(t) = n - 2 + 1
        /\ \A i \in 1..(n - 2 + 1) : t[i] = s[2 + i - 1]
    BY <1>2, SubSeqEntries
  <2>2. \A i \in 1..(n - 1) : 2 + i - 1 = i + 1
    OBVIOUS
  <2> QED
    BY <1>2, <2>1, <2>2
<1> HIDE DEF t
<1>4. page \in S /\ s[2] = Child(d.node[page], key)
  <2>1. 1 \in 1..(Len(s) - 1) /\ 1 + 1 = 2
    BY <1>2
  <2> QED
    BY <1>1, <2>1
<1>5. ASSUME NEW i \in 1..(n - 2) PROVE t[i] \in S /\ t[i + 1] = Child(d.node[t[i]], key)
  <2>1. /\ i \in 1..(n - 1) /\ i + 1 \in 1..(n - 1)
        /\ t[i] = s[i + 1] /\ t[i + 1] = s[(i + 1) + 1]
    BY <1>2, <1>3
  <2> QED
    BY <1>1, <2>1
<1>6. t # <<>> /\ t[1] = s[2] /\ t[Len(t)] = s[n] /\ Len(t) - 1 = n - 2
  <2>1. 1 \in 1..(n - 1) /\ n - 1 \in 1..(n - 1) /\ (n - 1) + 1 = n /\ 1 + 1 = 2
    BY <1>2
  <2> QED
    BY <1>2, <1>3, <2>1
<1> QED
  BY <1>1, <1>3, <1>4, <1>5, <1>6 DEF Way

\* What the proofs below need of a file: its pages are nodes of the right shape.
Wellformed(d) == d \in Db /\ NodesSound(d)

LEMMA PageShapes ==
  ASSUME NEW d, Wellformed(d)
  PROVE  /\ \A p \in Pages(d) : /\ p \in Page /\ d.node[p] \in Node
                                /\ d.node[p].leaf \in BOOLEAN
                                /\ ~d.node[p].leaf => Len(d.node[p].kids) = Len(d.node[p].keys) + 1
         /\ \A p \in Interiors(d), key \in Key : Child(d.node[p], key) \in Page
         /\ \A p \in Page : Written(d, p) = (p \in Pages(d))
<1>1. ASSUME NEW p \in Pages(d)
      PROVE  /\ p \in Page /\ d.node[p] \in Node
             /\ d.node[p].leaf \in BOOLEAN
             /\ ~d.node[p].leaf => Len(d.node[p].kids) = Len(d.node[p].keys) + 1
  <2>1. p \in Page /\ d.node[p] \in Node /\ NodeOK(d.node[p], ORDER - 1)
    BY PagesAreNodes DEF Wellformed, NodesSound
  <2>2. d.node[p].leaf \in BOOLEAN
    BY <2>1 DEF Node
  <2> QED
    BY <2>1, <2>2 DEF NodeOK
<1>2. ASSUME NEW p \in Interiors(d), NEW key \in Key PROVE Child(d.node[p], key) \in Page
  <2>1. p \in Pages(d) /\ ~d.node[p].leaf
    BY DEF Interiors
  <2> QED
    BY <1>1, <2>1, ChildIsPage
<1>3. \A p \in Page : Written(d, p) = (p \in Pages(d))
  BY DEF Pages, Written
<1> QED
  BY <1>1, <1>2, <1>3

\* The leaves that a walk from a page ends in
Ends(d, key, page) == {leaf \in Leaves(d) : Way(d, key, page, leaf, Interiors(d))}

LEMMA EndsOf ==
  ASSUME NEW d, Wellformed(d), NEW key \in Key, NEW p \in Page
  PROVE  /\ p \notin Pages(d) => Ends(d, key, p) = {}
         /\ p \in Leaves(d) => Ends(d, key, p) = {p}
         /\ p \in Interiors(d) => Ends(d, key, p) = Ends(d, key, Child(d.node[p], key))
<1>1. Leaves(d) \subseteq Pages(d) /\ Leaves(d) \intersect Interiors(d) = {}
      /\ Interiors(d) \subseteq Pages(d)
  BY DEF Leaves, Interiors
<1>2. ASSUME p \notin Interiors(d), NEW leaf \in Ends(d, key, p) PROVE leaf = p
  BY <1>2, WayGoesDown DEF Ends
<1>3. ASSUME p \notin Pages(d) PROVE Ends(d, key, p) = {}
  <2>1. \A leaf \in Ends(d, key, p) : leaf = p /\ leaf \in Leaves(d)
    BY <1>1, <1>2, <1>3 DEF Ends
  <2> QED
    BY <1>1, <1>3, <2>1
<1>4. ASSUME p \in Leaves(d) PROVE Ends(d, key, p) = {p}
  <2>1. p \in Ends(d, key, p)
    BY <1>4, WayOfOne DEF Ends
  <2> QED
    BY <1>1, <1>2, <1>4, <2>1
<1>5. ASSUME p \in Interiors(d) PROVE Ends(d, key, p) = Ends(d, key, Child(d.node[p], key))
  <2>1. ASSUME NEW leaf \in Ends(d, key, p)
        PROVE  leaf \in Ends(d, key, Child(d.node[p], key))
    <3>1. leaf \in Leaves(d) /\ p # leaf
      BY <1>1, <1>5 DEF Ends
    <3> QED
      BY <3>1, WayGoesDown DEF Ends
  <2>2. ASSUME NEW leaf \in Ends(d, key, Child(d.node[p], key))
        PROVE  leaf \in Ends(d, key, p)
    BY <1>5, WayFromAbove DEF Ends
  <2> QED
    BY <2>1, <2>2
<1> QED
  BY <1>3, <1>4, <1>5

\* find_leaf is one function of the page for every key: the recursive definition
\* has a solution, the end of each walk.
Walks(d, key, w) ==
  w = [p \in Page |-> IF ~Written(d, p) THEN NoPage
                      ELSE IF d.node[p].leaf THEN p
                      ELSE w[d.node[p].kids[Cell(d.node[p], key) + 1]]]

LEMMA WalkExists ==
  ASSUME NEW d, Wellformed(d), NEW key \in Key
  PROVE  \E w : Walks(d, key, w) /\ \A root : find_leaf(d, root, key) = w[root]
<1> DEFINE v == [p \in Page |-> IF Ends(d, key, p) = {} THEN NoPage
                                ELSE CHOOSE leaf \in Ends(d, key, p) : TRUE]
           w == CHOOSE f : Walks(d, key, f)
<1>1. Walks(d, key, v)
  <2>4. v = [p \in Page |-> v[p]]
    OBVIOUS
  <2> SUFFICES \A p \in Page : v[p] = IF ~Written(d, p) THEN NoPage
                                      ELSE IF d.node[p].leaf THEN p
                                      ELSE v[d.node[p].kids[Cell(d.node[p], key) + 1]]
    <3> HIDE DEF v
    <3> QED
      BY <2>4, Zenon DEF Walks
  <2> TAKE p \in Page
  <2>1. CASE ~Written(d, p)
    BY <2>1, EndsOf, PageShapes
  <2>2. CASE Written(d, p) /\ d.node[p].leaf
    <3>1. p \in Leaves(d)
      BY <2>2, PageShapes DEF Leaves
    <3>2. Ends(d, key, p) = {p}
      BY <3>1, EndsOf
    <3> QED
      BY <2>2, <3>2
  <2>3. CASE Written(d, p) /\ ~d.node[p].leaf
    <3>1. p \in Interiors(d)
      BY <2>3, PageShapes DEF Interiors
    <3>2. Ends(d, key, p) = Ends(d, key, Child(d.node[p], key)) /\ Child(d.node[p], key) \in Page
      BY <3>1, EndsOf, PageShapes
    <3> QED
      BY <2>3, <3>2 DEF Child
  <2> QED
    BY <2>1, <2>2, <2>3
<1>2. Walks(d, key, w)
  <2> HIDE DEF v
  <2> QED
    BY <1>1
<1>3. ASSUME NEW root PROVE find_leaf(d, root, key) = w[root]
  BY DEF find_leaf, Walks
<1> HIDE DEF w
<1> QED
  BY <1>2, <1>3

\* A walk that ends in a leaf is the one that find_leaf takes.
LEMMA FindLeafFollows ==
  ASSUME NEW d, Wellformed(d), NEW key \in Key, NEW w, Walks(d, key, w),
         NEW page, NEW leaf \in Leaves(d), Way(d, key, page, leaf, Interiors(d))
  PROVE  w[page] = leaf
<1>1. PICK s \in Seq(Page) :
        /\ s # <<>> /\ s[1] = page /\ s[Len(s)] = leaf
        /\ \A i \in 1..(Len(s) - 1) : s[i] \in Interiors(d) /\ s[i + 1] = Child(d.node[s[i]], key)
  BY DEF Way
<1> DEFINE n == Len(s)
           T == {i \in Nat : i \in 1..n /\ \A j \in i..n : w[s[j]] = leaf}
<1>2. n \in Nat /\ n >= 1 /\ \A i \in 1..n : s[i] \in Page
  BY <1>1
<1>3. w[leaf] = leaf
  <2>1. leaf \in Page /\ Written(d, leaf) /\ d.node[leaf].leaf
    BY PageShapes DEF Leaves
  <2> QED
    BY <2>1 DEF Walks
<1>4. ASSUME NEW i \in 1..(n - 1) PROVE w[s[i]] = w[s[i + 1]]
  <2>1. s[i] \in Interiors(d) /\ s[i + 1] = Child(d.node[s[i]], key) /\ s[i] \in Page
    BY <1>1, <1>2
  <2>2. Written(d, s[i]) /\ ~d.node[s[i]].leaf
    BY <2>1, PageShapes DEF Interiors
  <2> QED
    BY <2>1, <2>2 DEF Walks, Child
<1>5. n \in T
  BY <1>1, <1>2, <1>3
<1>6. PICK i \in T : \A j \in T : i <= j
  <2>1. T \in SUBSET Nat
    OBVIOUS
  <2> HIDE DEF T
  <2> QED
    BY <1>5, <2>1, LeastNumber
<1>7. i = 1
  <2> SUFFICES ASSUME i # 1 PROVE FALSE
    OBVIOUS
  <2>1. i \in 1..n /\ (\A j \in i..n : w[s[j]] = leaf) /\ i - 1 \in 1..(n - 1) /\ (i - 1) + 1 = i
    BY <1>2
  <2>2. w[s[i - 1]] = leaf
    <3>1. w[s[i]] = leaf
      BY <1>2, <2>1
    <3> QED
      BY <1>4, <2>1, <3>1
  <2>3. \A j \in (i - 1)..n : j = i - 1 \/ j \in i..n
    BY <1>2, <2>1
  <2>4. i - 1 \in T
    BY <1>2, <2>1, <2>2, <2>3
  <2>5. i <= i - 1
    BY <1>6, <2>4
  <2> QED
    BY <2>1, <2>5
<1>8. 1 \in 1..n /\ 1 \in i..n
  BY <1>2, <1>7
<1> QED
  BY <1>1, <1>8

LEMMA LeadsIsFound ==
  ASSUME NEW d, Wellformed(d), NEW key \in Key, NEW leaf, Root \in Interiors(d),
         Leads(d, key, Child(d.node[Root], key), leaf)
  PROVE  find_leaf(d, Root, key) = leaf
<1>1. PICK w : Walks(d, key, w) /\ find_leaf(d, Root, key) = w[Root]
  BY WalkExists
<1>2. leaf \in Leaves(d) /\ Way(d, key, Child(d.node[Root], key), leaf, Below(d))
  BY DEF Leads
<1>3. Way(d, key, Child(d.node[Root], key), leaf, Interiors(d))
  BY <1>2 DEF Way, Below
<1>4. Root \in Page
  BY PageShapes DEF Interiors
<1>5. Way(d, key, Root, leaf, Interiors(d))
  BY <1>3, <1>4, WayFromAbove
<1> QED
  BY <1>1, <1>2, <1>5, FindLeafFollows

LEMMA RootLeafIsFound ==
  ASSUME NEW d, Wellformed(d), NEW key \in Key, Root \in Leaves(d)
  PROVE  find_leaf(d, Root, key) = Root
<1>1. PICK w : Walks(d, key, w) /\ find_leaf(d, Root, key) = w[Root]
  BY WalkExists
<1>2. Way(d, key, Root, Root, Interiors(d))
  BY PageShapes, WayOfOne DEF Leaves
<1> QED
  BY <1>1, <1>2, FindLeafFollows

LEMMA LeadsOnce ==
  ASSUME NEW d, Wellformed(d), NEW key \in Key, NEW page, NEW a, NEW b,
         Leads(d, key, page, a), Leads(d, key, page, b)
  PROVE  a = b
<1>1. PICK w : Walks(d, key, w)
  BY WalkExists
<1>2. ASSUME NEW c, Leads(d, key, page, c) PROVE w[page] = c
  <2>1. c \in Leaves(d) /\ Way(d, key, page, c, Interiors(d))
    BY <1>2 DEF Leads, Way, Below
  <2> QED
    BY <1>1, <2>1, FindLeafFollows
<1> QED
  BY <1>2

\* What a root holds is what a search finds.
LEMMA HoldsIsFound ==
  ASSUME NEW d, Wellformed(d), NEW key \in Key, Root \in Pages(d), NEW lower, NEW upper,
         Holds(d, d.node[Root], key, lower, upper)
  PROVE  /\ key \in lower => Found(d, key)
         /\ Found(d, key) => key \in upper
<1>1. PICK leaf \in Leaves(d) : /\ leaf = find_leaf(d, Root, key)
                                /\ Answers(d.node[leaf], key, lower, upper)
  <2>1. CASE d.node[Root].leaf
    <3>1. Root \in Leaves(d) /\ Answers(d.node[Root], key, lower, upper)
      BY <2>1 DEF Holds, Leaves
    <3> QED
      BY <3>1, RootLeafIsFound
  <2>2. CASE ~d.node[Root].leaf
    <3>1. Root \in Interiors(d)
      BY <2>2 DEF Interiors
    <3>2. PICK leaf \in Leaves(d) : /\ Leads(d, key, Child(d.node[Root], key), leaf)
                                    /\ Answers(d.node[leaf], key, lower, upper)
      BY <2>2 DEF Holds
    <3> QED
      BY <3>1, <3>2, LeadsIsFound
  <2> QED
    BY <2>1, <2>2
<1>2. Found(d, key) => key \in ToSet(d.node[leaf].keys)
  BY <1>1 DEF Found
<1>3. key \in ToSet(d.node[leaf].keys) => Found(d, key)
  BY <1>1, Zenon DEF Found
<1> QED
  BY <1>1, <1>2, <1>3 DEF Answers

-----------------------------------------------------------------------------
\* What keeps the walks below the root

Routes(d, e) == /\ Below(d) \subseteq Below(e)
                /\ \A p \in Below(d) : e.node[p].keys = d.node[p].keys /\ e.node[p].kids = d.node[p].kids
                /\ Leaves(d) \ {Root} \subseteq Leaves(e)

LEMMA LeadsKept ==
  ASSUME NEW d, NEW e, Routes(d, e), NEW key, NEW page, NEW leaf, Leads(d, key, page, leaf)
  PROVE  Leads(e, key, page, leaf)
<1>1. leaf \in Leaves(e) \ {Root}
  BY DEF Leads, Routes
<1>2. PICK s \in Seq(Page) :
        /\ s # <<>> /\ s[1] = page /\ s[Len(s)] = leaf
        /\ \A i \in 1..(Len(s) - 1) : s[i] \in Below(d) /\ s[i + 1] = Child(d.node[s[i]], key)
  BY DEF Leads, Way
<1>3. ASSUME NEW i \in 1..(Len(s) - 1)
      PROVE  s[i] \in Below(e) /\ s[i + 1] = Child(e.node[s[i]], key)
  <2>1. s[i] \in Below(d) /\ s[i + 1] = Child(d.node[s[i]], key)
    BY <1>2
  <2>2. Child(e.node[s[i]], key) = Child(d.node[s[i]], key)
    BY <2>1, ChildOfSame DEF Routes
  <2> QED
    BY <2>1, <2>2 DEF Routes
<1> QED
  BY <1>1, <1>2, <1>3 DEF Leads, Way

\* Pages other than the root keep their keys and children, and parents too,
\* except those of interior nodes and of the children of n before the last.
Elder(n, p) == \E i \in 1..(Len(n.kids) - 1) : p = n.kids[i]
Kept(d, e, n) ==
  /\ Pages(d) \subseteq Pages(e)
  /\ \A p \in Pages(d) \ {Root} : /\ SameTree(e.node[p], d.node[p])
                                  /\ \/ e.node[p].parent = d.node[p].parent
                                     \/ ~d.node[p].leaf \/ Elder(n, p)

LEMMA KeptRoutes ==
  ASSUME NEW d, NEW e, NEW n, Kept(d, e, n)
  PROVE  Routes(d, e)
  BY DEF Kept, Routes, SameTree, Below, Interiors, Leaves

LEMMA LastLeafKept ==
  ASSUME NEW d, NEW e, NEW n, Kept(d, e, n), NEW leaf, LastLeaf(d, n, leaf)
  PROVE  LastLeaf(e, n, leaf)
<1>1. leaf \in Pages(d) \ {Root} /\ d.node[leaf].leaf /\ ~Elder(n, leaf)
  BY DEF LastLeaf, Leaves, Elder
<1>2. /\ leaf \in Leaves(e) \ {Root} /\ e.node[leaf].keys = d.node[leaf].keys
      /\ e.node[leaf].parent = d.node[leaf].parent
  BY <1>1 DEF Kept, SameTree, Leaves
<1>3. \A key \in Key : key >= d.node[leaf].keys[1] => Leads(e, key, Child(n, key), leaf)
  BY KeptRoutes, LeadsKept DEF LastLeaf
<1> QED
  BY <1>2, <1>3 DEF LastLeaf

LEMMA HoldsKept ==
  ASSUME NEW d, NEW e, NEW n, Kept(d, e, n), NEW key, NEW lower, NEW upper,
         Holds(d, n, key, lower, upper)
  PROVE  Holds(e, n, key, lower, upper)
<1>1. CASE n.leaf
  BY <1>1 DEF Holds
<1>2. CASE ~n.leaf
  <2>1. PICK leaf \in Leaves(d) : /\ Leads(d, key, Child(n, key), leaf)
                                  /\ Answers(d.node[leaf], key, lower, upper)
    BY <1>2 DEF Holds
  <2>2. leaf \in Pages(d) \ {Root}
    BY <2>1 DEF Leads, Leaves
  <2>3. e.node[leaf].keys = d.node[leaf].keys
    BY <2>2 DEF Kept, SameTree
  <2>4. Leads(e, key, Child(n, key), leaf) /\ leaf \in Leaves(e)
    BY <2>1, KeptRoutes, LeadsKept DEF Leads
  <2>5. Answers(e.node[leaf], key, lower, upper)
    BY <2>1, <2>3 DEF Answers
  <2> QED
    BY <1>2, <2>4, <2>5 DEF Holds
<1> QED
  BY <1>1, <1>2

LEMMA RootOKKept ==
  ASSUME NEW d, NEW e, NEW n, Kept(d, e, n), NEW lower, NEW upper, RootOK(d, n, lower, upper)
  PROVE  RootOK(e, n, lower, upper)
<1>1. \A key \in Key : Holds(e, n, key, lower, upper)
  BY HoldsKept DEF RootOK
<1>2. ASSUME ~n.leaf PROVE \E leaf \in Leaves(e) : LastLeaf(e, n, leaf)
  <2>1. PICK leaf \in Leaves(d) : LastLeaf(d, n, leaf)
    BY <1>2 DEF RootOK
  <2>2. LastLeaf(e, n, leaf)
    BY <2>1, LastLeafKept
  <2> QED
    BY <2>2 DEF LastLeaf
<1>3. Root \in Pages(e)
  BY DEF RootOK, Kept
<1> QED
  BY <1>1, <1>2, <1>3 DEF RootOK

-----------------------------------------------------------------------------
\* Keys

\* A sequence with one more entry at its end
Extended(s, t, e) == /\ Len(t) = Len(s) + 1
                     /\ \A i \in 1..Len(s) : t[i] = s[i]
                     /\ t[Len(s) + 1] = e

LEMMA InSet == ASSUME NEW S, NEW s \in Seq(S), NEW e PROVE e \in ToSet(s) <=> \E i \in 1..Len(s) : s[i] = e
<1>1. DOMAIN s = 1..Len(s)
  OBVIOUS
<1>2. ToSet(s) = {s[i] : i \in 1..Len(s)}
  BY <1>1, Zenon DEF ToSet
<1>3. e \in {s[i] : i \in 1..Len(s)} <=> \E i \in 1..Len(s) : s[i] = e
  OBVIOUS
<1> QED
  BY <1>2, <1>3, Zenon

LEMMA ExtendedKeys ==
  ASSUME NEW s \in Seq(Nat), NEW t \in Seq(Nat), NEW key \in Nat, Extended(s, t, key),
         \A i \in 1..Len(s) : s[i] < key
  PROVE  /\ \A k : k \in ToSet(t) <=> k \in ToSet(s) \/ k = key
         /\ Ascending(s) => Ascending(t)
         /\ t # <<>> /\ (s # <<>> => t[1] = s[1])
<1> DEFINE n == Len(s)
<1>1. /\ n \in Nat /\ Len(t) = n + 1 /\ t[n + 1] = key
      /\ \A i \in 1..n : t[i] = s[i] /\ s[i] \in Nat
      /\ \A i \in 1..(n + 1) : i \in 1..n \/ i = n + 1
      /\ \A i \in 1..n : i \in 1..(n + 1)
      /\ n + 1 \in 1..(n + 1)
  BY DEF Extended
<1>2. ASSUME NEW k PROVE k \in ToSet(t) <=> k \in ToSet(s) \/ k = key
  <2>1. k \in ToSet(t) <=> \E i \in 1..(n + 1) : t[i] = k
    <3>1. k \in ToSet(t) <=> \E i \in 1..Len(t) : t[i] = k
      BY InSet
    <3> QED
      BY <1>1, <3>1
  <2>2. k \in ToSet(s) <=> \E i \in 1..n : s[i] = k
    BY InSet
  <2> HIDE DEF n
  <2> QED
    BY <1>1, <2>1, <2>2
<1>3. ASSUME Ascending(s) PROVE Ascending(t)
  <2> HIDE DEF n
  <2> SUFFICES ASSUME NEW i \in 1..(n + 1), NEW j \in 1..(n + 1), i < j PROVE t[i] < t[j]
    BY <1>1 DEF Ascending
  <2>1. i \in 1..n
    BY <1>1
  <2>2. CASE j = n + 1
    BY <1>1, <2>1, <2>2 DEF n
  <2>3. CASE j \in 1..n
    BY <1>1, <1>3, <2>1, <2>3 DEF Ascending, n
  <2> QED
    BY <1>1, <2>2, <2>3
<1>4. t # <<>> /\ (s # <<>> => t[1] = s[1])
  <2>1. s # <<>> => 1 \in 1..n
    OBVIOUS
  <2>2. Len(t) # 0
    BY <1>1
  <2> QED
    BY <1>1, <2>1, <2>2
<1> QED
  BY <1>2, <1>3, <1>4

\* A key above all keys goes to the end.
LEMMA OffsetOfLast ==
  ASSUME NEW n \in Node, NEW key \in Key, \A i \in 1..Len(n.keys) : n.keys[i] < key
  PROVE  Offset(n, key) = Len(n.keys)
<1> DEFINE s == n.keys
           c == Offset(n, key)
<1>1. s \in Seq(Nat) /\ Len(s) \in Nat /\ key \in Nat
  BY DEF Node, Key
<1>2. \E x \in 0..Len(n.keys) : /\ \A i \in 1..x : n.keys[i] < key
                                /\ x < Len(n.keys) => key <= n.keys[x + 1]
  <2>1. Len(n.keys) \in 0..Len(n.keys) /\ ~(Len(n.keys) < Len(n.keys))
    BY <1>1
  <2> QED
    BY <2>1
<1>3. c \in 0..Len(s) /\ (c < Len(s) => key <= s[c + 1])
  BY <1>2 DEF Offset
<1> HIDE DEF c
<1>4. ~(c < Len(s))
  <2> SUFFICES ASSUME c < Len(s) PROVE FALSE
    OBVIOUS
  <2>1. c + 1 \in 1..Len(s) /\ s[c + 1] \in Nat /\ key <= s[c + 1]
    BY <1>1, <1>3
  <2> QED
    BY <1>1, <2>1
<1> QED
  BY <1>1, <1>3, <1>4 DEF c

LEMMA WithRowLast ==
  ASSUME NEW n \in Node, NEW key \in Key, KeysBelow(n, key)
  PROVE  Extended(n.keys, WithRow(n, key).keys, key)
<1> DEFINE s == n.keys
           k == Len(s) + 1
           t == InsertAt(s, k, key)
<1>1. s \in Seq(Key) /\ Len(s) \in Nat /\ k = Len(s) + 1 /\ Offset(n, key) = Len(s)
  BY OffsetOfLast DEF Node, KeysBelow
<1>2. WithRow(n, key).keys = t
  BY <1>1 DEF WithRow, Node
<1> HIDE DEF s, k
<1>3. /\ t \in Seq(Key) /\ Len(t) = Len(s) + 1
      /\ \A j \in 1..(Len(s) + 1) : t[j] = IF j < k THEN s[j] ELSE IF j = k THEN key ELSE s[j - 1]
  <2>1. s \in Seq(Key) /\ k \in 1..(Len(s) + 1)
    BY <1>1
  <2>2. t \in Seq(Key)
    BY <2>1, InsertAtEntries
  <2>3. Len(t) = Len(s) + 1
    BY <2>1, InsertAtEntries
  <2>4. \A j \in 1..(Len(s) + 1) : t[j] = IF j < k THEN s[j] ELSE IF j = k THEN key ELSE s[j - 1]
    BY <2>1, InsertAtEntries
  <2> QED
    BY <2>2, <2>3, <2>4
<1> HIDE DEF t
<1>4. Extended(s, t, key)
  BY <1>1, <1>3 DEF Extended
<1> QED
  BY <1>2, <1>4 DEF s

LEMMA WithChildLast ==
  ASSUME NEW n \in Node, NEW key \in Key, NEW page \in Page,
         \A i \in 1..Len(n.keys) : n.keys[i] < key, Len(n.kids) = Len(n.keys) + 1
  PROVE  LET m == WithChild(n, key, page) IN
         /\ m \in Node /\ m.leaf = n.leaf /\ m.parent = n.parent
         /\ Extended(n.keys, m.keys, key) /\ Extended(n.kids, m.kids, page)
<1> DEFINE s == n.keys
           v == n.kids
           k == Len(s) + 1
           l == Len(s) + 2
           t == InsertAt(s, k, key)
           u == InsertAt(v, l, page)
<1>1. /\ s \in Seq(Key) /\ v \in Seq(Page) /\ Len(s) \in Nat /\ Len(v) = Len(s) + 1
      /\ Offset(n, key) = Len(s) /\ k = Len(s) + 1 /\ l = Len(v) + 1
  BY OffsetOfLast DEF Node
<1>2. WithChild(n, key, page).keys = t /\ WithChild(n, key, page).kids = u
  BY <1>1 DEF WithChild, Node
<1> HIDE DEF s, v, k, l
<1>3. /\ t \in Seq(Key) /\ Len(t) = Len(s) + 1
      /\ \A j \in 1..(Len(s) + 1) : t[j] = IF j < k THEN s[j] ELSE IF j = k THEN key ELSE s[j - 1]
  <2>1. s \in Seq(Key) /\ k \in 1..(Len(s) + 1)
    BY <1>1
  <2>2. t \in Seq(Key)
    BY <2>1, InsertAtEntries
  <2>3. Len(t) = Len(s) + 1
    BY <2>1, InsertAtEntries
  <2>4. \A j \in 1..(Len(s) + 1) : t[j] = IF j < k THEN s[j] ELSE IF j = k THEN key ELSE s[j - 1]
    BY <2>1, InsertAtEntries
  <2> QED
    BY <2>2, <2>3, <2>4
<1>4. /\ u \in Seq(Page) /\ Len(u) = Len(v) + 1
      /\ \A j \in 1..(Len(v) + 1) :
           u[j] = IF j < l THEN v[j] ELSE IF j = l THEN page ELSE v[j - 1]
  <2>1. v \in Seq(Page) /\ l \in 1..(Len(v) + 1)
    BY <1>1
  <2>2. u \in Seq(Page)
    BY <2>1, InsertAtEntries
  <2>3. Len(u) = Len(v) + 1
    BY <2>1, InsertAtEntries
  <2>4. \A j \in 1..(Len(v) + 1) :
          u[j] = IF j < l THEN v[j] ELSE IF j = l THEN page ELSE v[j - 1]
    BY <2>1, InsertAtEntries
  <2> QED
    BY <2>2, <2>3, <2>4
<1> HIDE DEF t, u
<1>5. Extended(s, t, key)
  BY <1>1, <1>3 DEF Extended
<1>6. Extended(v, u, page)
  BY <1>1, <1>4 DEF Extended
<1> QED
  BY <1>2, <1>5, <1>6, WithChildNode DEF s, v

\* The keys of the two halves of a leaf
LEMMA HalvesOfKeys ==
  ASSUME NEW s \in Seq(Nat), Len(s) = ORDER, Ascending(s)
  PROVE  LET left == SubSeq(s, 1, Half)
             right == SubSeq(s, Half + 1, ORDER) IN
         /\ \A k \in Nat : k \in ToSet(left) <=> k \in ToSet(s) /\ k < s[Half + 1]
         /\ \A k \in Nat : k \in ToSet(right) <=> k \in ToSet(s) /\ k >= s[Half + 1]
         /\ right # <<>> /\ right[1] = s[Half + 1] /\ Ascending(right)
<1> DEFINE left == SubSeq(s, 1, Half)
           right == SubSeq(s, Half + 1, ORDER)
           h == Half + 1
<1>1. /\ h \in Nat /\ ORDER \in Nat /\ h >= 2 /\ h <= ORDER /\ Half = h - 1
      /\ \A i \in 1..ORDER : s[i] \in Nat
  BY HalfBounds
<1>2. left \in Seq(Nat) /\ Len(left) = h - 1 /\ \A i \in 1..(h - 1) : left[i] = s[i]
  <2>1. /\ left \in Seq(Nat) /\ Len(left) = Half - 1 + 1
        /\ \A i \in 1..(Half - 1 + 1) : left[i] = s[1 + i - 1]
    BY HalfBounds, SubSeqEntries
  <2>2. \A i \in 1..(h - 1) : 1 + i - 1 = i
    OBVIOUS
  <2> QED
    BY <1>1, <2>1, <2>2
<1>3. /\ right \in Seq(Nat) /\ Len(right) = ORDER - h + 1
      /\ \A i \in 1..(ORDER - h + 1) : right[i] = s[h + i - 1]
  BY HalfBounds, SubSeqEntries
<1> HIDE DEF left, right, h
<1>4. \A i, j \in 1..ORDER : i < j => s[i] < s[j]
  BY DEF Ascending
<1>5. ASSUME NEW k \in Nat
      PROVE  k \in ToSet(left) <=> k \in ToSet(s) /\ k < s[h]
  <2>1. k \in ToSet(left) <=> \E i \in 1..(h - 1) : s[i] = k
    BY <1>2, InSet
  <2>2. k \in ToSet(s) <=> \E i \in 1..ORDER : s[i] = k
    BY InSet
  <2>3. \A i \in 1..(h - 1) : i \in 1..ORDER /\ i < h
    BY <1>1
  <2>4. h \in 1..ORDER
    BY <1>1
  <2>5. \A i \in 1..ORDER : i \in 1..(h - 1) \/ i = h \/ (h < i)
    BY <1>1
  <2>6. \A i \in 1..ORDER : s[i] < s[h] => i \in 1..(h - 1)
    BY <1>1, <1>4, <2>4, <2>5
  <2> QED
    BY <1>4, <2>1, <2>2, <2>3, <2>4, <2>6
<1>6. ASSUME NEW k \in Nat
      PROVE  k \in ToSet(right) <=> k \in ToSet(s) /\ k >= s[h]
  <2>1. k \in ToSet(right) <=> \E i \in 1..(ORDER - h + 1) : right[i] = k
    BY <1>3, InSet
  <2>2. k \in ToSet(s) <=> \E i \in 1..ORDER : s[i] = k
    BY InSet
  <2>3. ASSUME NEW i \in 1..(ORDER - h + 1)
        PROVE  h + i - 1 \in 1..ORDER /\ (h + i - 1 = h \/ h < h + i - 1) /\ right[i] = s[h + i - 1]
    BY <1>1, <1>3
  <2>4. h \in 1..ORDER
    BY <1>1
  <2>5. ASSUME NEW i \in 1..(ORDER - h + 1) PROVE right[i] \in ToSet(s) /\ right[i] >= s[h]
    <3>1. PICK j \in 1..ORDER : (j = h \/ h < j) /\ right[i] = s[j]
      BY <2>3
    <3>2. s[j] \in Nat /\ s[h] \in Nat /\ (j = h \/ s[h] < s[j])
      BY <1>1, <1>4, <2>4, <3>1
    <3>3. right[i] \in ToSet(s)
      BY <2>2, <3>1, InSet
    <3> QED
      BY <3>1, <3>2, <3>3
  <2>6. ASSUME NEW i \in 1..ORDER, s[i] >= s[h]
        PROVE  \E j \in 1..(ORDER - h + 1) : right[j] = s[i]
    <3>1. ~(i < h)
      BY <1>1, <1>4, <2>4, <2>6
    <3>2. i - h + 1 \in 1..(ORDER - h + 1) /\ h + (i - h + 1) - 1 = i
      BY <1>1, <3>1
    <3>3. right[i - h + 1] = s[h + (i - h + 1) - 1]
      BY <1>3, <3>2
    <3> QED
      BY <3>2, <3>3
  <2> QED
    BY <2>1, <2>2, <2>5, <2>6
<1>7. right # <<>> /\ right[1] = s[h]
  <2>1. 1 \in 1..(ORDER - h + 1) /\ h + 1 - 1 = h
    BY <1>1
  <2> QED
    BY <1>1, <1>3, <2>1
<1>8. Ascending(right)
  <2> SUFFICES ASSUME NEW i \in 1..(ORDER - h + 1), NEW j \in 1..(ORDER - h + 1), i < j
               PROVE  right[i] < right[j]
    BY <1>3 DEF Ascending
  <2>1. h + i - 1 \in 1..ORDER /\ h + j - 1 \in 1..ORDER /\ h + i - 1 < h + j - 1
    BY <1>1
  <2>2. s[h + i - 1] < s[h + j - 1]
    BY <1>4, <2>1
  <2> QED
    BY <1>3, <2>2
<1> QED
  BY <1>5, <1>6, <1>7, <1>8 DEF left, right, h

-----------------------------------------------------------------------------
\* Roots in memory

\* m is the root n with the page of a split-off node after all its children.
ChildAdded(n, m, sep, page) ==
  /\ n \in Node /\ n.leaf = FALSE /\ n.parent = NoPage /\ Len(n.kids) = Len(n.keys) + 1
  /\ m \in Node /\ m.leaf = FALSE /\ m.parent = NoPage
  /\ sep \in Key /\ page # Root
  /\ Ascending(n.keys) /\ \A i \in 1..Len(n.keys) : n.keys[i] < sep
  /\ \A i \in 1..Len(n.kids) : n.kids[i] # Root
  /\ Extended(n.keys, m.keys, sep) /\ Extended(n.kids, m.kids, page)

LEMMA WithChildAdded ==
  ASSUME NEW n \in Node, NEW sep \in Key, NEW page \in Page \ {Root},
         n.leaf = FALSE, n.parent = NoPage, Len(n.kids) = Len(n.keys) + 1,
         Ascending(n.keys), \A i \in 1..Len(n.keys) : n.keys[i] < sep,
         \A i \in 1..Len(n.kids) : n.kids[i] # Root
  PROVE  ChildAdded(n, WithChild(n, sep, page), sep, page)
<1> DEFINE m == WithChild(n, sep, page)
<1>1. /\ m \in Node /\ m.leaf = n.leaf /\ m.parent = n.parent
      /\ Extended(n.keys, m.keys, sep) /\ Extended(n.kids, m.kids, page)
  BY WithChildLast
<1> HIDE DEF m
<1> QED
  BY <1>1 DEF ChildAdded, m

LEMMA ChildOfExtended ==
  ASSUME NEW n, NEW m, NEW sep, NEW page, ChildAdded(n, m, sep, page), NEW k \in Key
  PROVE  /\ k < sep => Child(m, k) = Child(n, k)
         /\ k >= sep => Child(m, k) = page
<1> DEFINE s == n.keys
           t == m.keys
           l == Len(s)
<1>1. /\ n \in Node /\ m \in Node /\ sep \in Nat /\ k \in Nat /\ l \in Nat
      /\ s \in Seq(Nat) /\ t \in Seq(Nat)
      /\ \A i \in 1..l : s[i] < sep /\ s[i] \in Nat
      /\ Len(t) = l + 1 /\ t[l + 1] = sep /\ \A i \in 1..l : t[i] = s[i]
      /\ Len(n.kids) = l + 1 /\ m.kids[(l + 1) + 1] = page
      /\ \A i \in 1..(l + 1) : m.kids[i] = n.kids[i]
  <2>1. /\ n \in Node /\ m \in Node /\ sep \in Nat /\ k \in Nat /\ l \in Nat
        /\ s \in Seq(Nat) /\ t \in Seq(Nat)
    BY DEF ChildAdded, Node, Key
  <2>2. /\ \A i \in 1..l : s[i] < sep
        /\ Len(t) = l + 1 /\ t[l + 1] = sep /\ \A i \in 1..l : t[i] = s[i]
    BY DEF ChildAdded, Extended
  <2>3. /\ Len(n.kids) = l + 1 /\ m.kids[Len(n.kids) + 1] = page
        /\ \A i \in 1..Len(n.kids) : m.kids[i] = n.kids[i]
    BY DEF ChildAdded, Extended
  <2>4. \A i \in 1..l : s[i] \in Nat
    BY <2>1
  <2> QED
    BY <2>1, <2>2, <2>3, <2>4
<1> HIDE DEF l
<1>2. ASSUME k < sep PROVE Child(m, k) = Child(n, k)
  <2> DEFINE c == Cell(n, k)
  <2>1. CellFits(n, k, c)
    BY <1>1, CellRange
  <2> HIDE DEF c
  <2>2. c \in 0..l /\ (\A i \in 1..c : s[i] <= k) /\ (c < l => k < s[c + 1])
    BY <2>1 DEF CellFits, l
  <2>3. \A i \in 1..c : i \in 1..l
    BY <1>1, <2>2
  <2>4. c < l + 1 => k < t[c + 1]
    <3>1. CASE c < l
      <4>1. c + 1 \in 1..l
        BY <1>1, <2>2, <3>1
      <4> QED
        BY <1>1, <2>2, <3>1, <4>1
    <3>2. CASE c = l
      BY <1>1, <1>2, <3>2
    <3> QED
      BY <1>1, <2>2, <3>1, <3>2
  <2>5. CellFits(m, k, c)
    <3>1. \A i \in 1..c : t[i] <= k
      BY <1>1, <2>2, <2>3
    <3>2. c \in 0..Len(t) /\ (c < Len(t) => k < t[c + 1])
      BY <1>1, <2>2, <2>4
    <3> QED
      BY <3>1, <3>2 DEF CellFits
  <2>6. Cell(m, k) = c
    BY <1>1, <2>5, CellIs
  <2>7. c + 1 \in 1..(l + 1)
    BY <1>1, <2>2
  <2> QED
    BY <1>1, <2>6, <2>7 DEF Child, c
<1>3. ASSUME k >= sep PROVE Child(m, k) = page
  <2>1. \A i \in 1..(l + 1) : i \in 1..l \/ i = l + 1
    BY <1>1
  <2>2. ASSUME NEW i \in 1..(l + 1) PROVE t[i] <= k
    <3>1. CASE i \in 1..l
      <4>1. t[i] = s[i] /\ s[i] \in Nat /\ s[i] < sep
        BY <1>1, <3>1
      <4> QED
        BY <1>1, <1>3, <4>1
    <3>2. CASE i = l + 1
      BY <1>1, <1>3, <3>2
    <3> QED
      BY <2>1, <3>1, <3>2
  <2>3. l + 1 \in 0..Len(t) /\ ~(l + 1 < Len(t))
    BY <1>1
  <2>4. CellFits(m, k, l + 1)
    BY <1>1, <2>2, <2>3 DEF CellFits
  <2>5. Cell(m, k) = l + 1
    BY <1>1, <2>4, CellIs
  <2> QED
    BY <1>1, <2>5 DEF Child
<1> QED
  BY <1>2, <1>3

LEMMA AddedHolds ==
  ASSUME NEW n, NEW m, NEW sep, NEW page, ChildAdded(n, m, sep, page), NEW k \in Key,
         NEW d, NEW lower, NEW upper,
         k < sep => Holds(d, n, k, lower, upper),
         k >= sep => \E leaf \in Leaves(d) : /\ Leads(d, k, page, leaf)
                                             /\ Answers(d.node[leaf], k, lower, upper)
  PROVE  Holds(d, m, k, lower, upper)
<1>1. n.leaf = FALSE /\ m.leaf = FALSE /\ sep \in Nat /\ k \in Nat
  BY DEF ChildAdded, Key
<1>2. CASE k < sep
  <2>1. Child(m, k) = Child(n, k)
    BY <1>2, ChildOfExtended
  <2> QED
    BY <1>1, <1>2, <2>1 DEF Holds
<1>3. CASE k >= sep
  <2>1. Child(m, k) = page
    BY <1>3, ChildOfExtended
  <2> QED
    BY <1>1, <1>3, <2>1 DEF Holds
<1> QED
  BY <1>1, <1>2, <1>3

\* What a root needs to be one, besides the rows: its keys and children
LEMMA AddedShape ==
  ASSUME NEW n, NEW m, NEW sep, NEW page, ChildAdded(n, m, sep, page)
  PROVE  /\ Ascending(m.keys) /\ \A i \in 1..Len(m.keys) : m.keys[i] <= sep
         /\ \A i \in 1..Len(m.kids) : m.kids[i] # Root
         /\ \A i \in 1..(Len(m.kids) - 1) : i \in 1..Len(n.kids) /\ m.kids[i] = n.kids[i]
<1> DEFINE s == n.keys
           t == m.keys
           l == Len(s)
           v == Len(n.kids)
<1>1. /\ sep \in Nat /\ l \in Nat /\ v \in Nat
      /\ s \in Seq(Nat) /\ t \in Seq(Nat) /\ Ascending(s)
      /\ \A i \in 1..l : s[i] < sep /\ s[i] \in Nat
      /\ Len(t) = l + 1 /\ t[l + 1] = sep /\ \A i \in 1..l : t[i] = s[i]
      /\ Extended(s, t, sep)
  BY DEF ChildAdded, Extended, Node, Key
<1>2. /\ Len(m.kids) = v + 1 /\ m.kids[v + 1] = page /\ page # Root
      /\ \A i \in 1..v : m.kids[i] = n.kids[i] /\ n.kids[i] # Root
  BY DEF ChildAdded, Extended
<1> HIDE DEF l, v
<1>3. Ascending(t)
  BY SMTT(30), <1>1, ExtendedKeys DEF l
<1>4. \A i \in 1..(l + 1) : t[i] <= sep
  <2> TAKE i \in 1..(l + 1)
  <2>1. CASE i = l + 1
    BY <1>1, <2>1
  <2>2. CASE i # l + 1
    <3>1. i \in 1..l
      BY <1>1, <2>2
    <3>2. t[i] = s[i] /\ s[i] < sep /\ s[i] \in Nat
      BY <1>1, <3>1
    <3> QED
      BY ONLY <1>1, <3>2
  <2> QED
    BY <2>1, <2>2
<1>5. \A i \in 1..(v + 1) : i \in 1..v \/ i = v + 1
  BY <1>1
<1>6. Len(m.kids) - 1 = v
  BY <1>1, <1>2
<1>7. \A i \in 1..Len(m.kids) : m.kids[i] # Root
  BY <1>2, <1>5
<1> QED
  BY <1>1, <1>2, <1>3, <1>4, <1>6, <1>7 DEF v

\* A root with a new last leaf
LEMMA AddedLeaf ==
  ASSUME NEW n, NEW m, NEW sep, NEW page, ChildAdded(n, m, sep, page),
         NEW d, Root \in Pages(d), page \in Leaves(d), page \in Page,
         d.node[page].parent = Root, d.node[page].keys # <<>>, d.node[page].keys[1] = sep,
         Ascending(d.node[page].keys),
         \A i \in 1..Len(n.kids) : n.kids[i] # page,
         NEW lower, NEW upper,
         \A k \in Key : /\ k < sep => Holds(d, n, k, lower, upper)
                        /\ k >= sep => Answers(d.node[page], k, lower, upper)
  PROVE  RootOK(d, m, lower, upper) /\ LastLeaf(d, m, page)
<1>1. page # Root /\ m.leaf = FALSE /\ m.parent = NoPage
  BY DEF ChildAdded
<1>2. \A k \in Key : Leads(d, k, page, page)
  BY <1>1, WayOfOne DEF Leads
<1>3. \A k \in Key : Holds(d, m, k, lower, upper)
  BY <1>2, AddedHolds
<1>4. LastLeaf(d, m, page)
  <2>1. \A k \in Key : k >= sep => Leads(d, k, Child(m, k), page)
    BY <1>2, ChildOfExtended
  <2>2. \A i \in 1..(Len(m.kids) - 1) : m.kids[i] # page
    BY AddedShape
  <2> QED
    BY <1>1, <2>1, <2>2, AddedShape DEF LastLeaf
<1> QED
  BY <1>1, <1>3, <1>4, AddedShape DEF RootOK

\* One page of d is written in e.
Stores(d, e, page, n) == /\ page \in Page /\ e.node[page] = n
                         /\ \A p \in Page \ {page} : e.node[p] = d.node[p]
                         /\ Pages(e) = Pages(d) \union {page}

LEMMA WritingStores ==
  ASSUME NEW d \in Db, NEW page \in Pages(d), NEW n \in Node
  PROVE  Stores(d, WriteNode(d, page, n), page, n)
  BY PagesAreNodes, Writing DEF Stores

\* A leaf takes the place of a leaf: the walks stay.
LEMMA LeafStored ==
  ASSUME NEW d, NEW e, NEW page \in Leaves(d), NEW n, n.leaf, Stores(d, e, page, n)
  PROVE  /\ Pages(e) = Pages(d) /\ Leaves(e) = Leaves(d) /\ Interiors(e) = Interiors(d)
         /\ Routes(d, e) /\ Routes(e, d)
<1>1. Pages(e) = Pages(d) /\ \A p \in Pages(d) : p \in Page
  BY DEF Stores, Leaves, Pages
<1>2. \A p \in Pages(d) : e.node[p].leaf <=> d.node[p].leaf
  BY <1>1 DEF Stores, Leaves
<1>3. Leaves(e) = Leaves(d) /\ Interiors(e) = Interiors(d)
  BY <1>1, <1>2 DEF Leaves, Interiors
<1>4. \A p \in Below(d) : e.node[p] = d.node[p]
  BY <1>1 DEF Below, Interiors, Leaves, Stores
<1> QED
  BY <1>1, <1>3, <1>4 DEF Routes, Below

\* insert puts the row of the next id into the last leaf.
LEMMA RowAdded ==
  ASSUME NEW d, Wellformed(d), NEW key \in Key, NEW rows, RootOK(d, d.node[Root], rows, rows),
         \A p \in Pages(d) : KeysBelow(d.node[p], key),
         NEW page \in Leaves(d), page = find_leaf(d, Root, key),
         NEW n \in Node, n.leaf, n.parent = d.node[page].parent, n.kids = d.node[page].kids,
         Extended(d.node[page].keys, n.keys, key),
         NEW e, Stores(d, e, page, n)
  PROVE  /\ RootOK(e, e.node[Root], rows \union {key}, rows \union {key})
         /\ page # Root => LastLeaf(e, e.node[Root], page)
<1> DEFINE r == d.node[Root]
           old == d.node[page]
           new == rows \union {key}
<1>1. /\ page \in Pages(d) /\ old.leaf /\ old \in Node /\ Root \in Pages(d)
      /\ e.node[page] = n /\ n.keys \in Seq(Nat) /\ old.keys \in Seq(Nat) /\ key \in Nat
      /\ \A i \in 1..Len(old.keys) : old.keys[i] < key
  BY PageShapes DEF Leaves, RootOK, Stores, Node, Key, KeysBelow
<1>2. /\ \A k : k \in ToSet(n.keys) <=> k \in ToSet(old.keys) \/ k = key
      /\ Ascending(old.keys) => Ascending(n.keys)
      /\ n.keys # <<>> /\ (old.keys # <<>> => n.keys[1] = old.keys[1])
  BY <1>1, ExtendedKeys
<1>3. ASSUME NEW k, Answers(old, k, rows, rows) PROVE Answers(n, k, new, new) \/ k = key
  BY <1>2, <1>3 DEF Answers
<1>4. Answers(n, key, new, new)
  BY <1>2 DEF Answers
<1>5. /\ Pages(e) = Pages(d) /\ Leaves(e) = Leaves(d) /\ Routes(d, e)
  BY LeafStored
<1>6. CASE r.leaf
  <2>1. Root \in Leaves(d) /\ page = Root
    <3>1. Root \in Leaves(d)
      BY <1>1, <1>6 DEF Leaves
    <3> QED
      BY <3>1, RootLeafIsFound
  <2>2. \A k \in Key : Answers(r, k, rows, rows)
    BY <1>6 DEF RootOK, Holds
  <2>3. \A k \in Key : Holds(e, n, k, new, new)
    BY <1>3, <1>4, <2>1, <2>2 DEF Holds
  <2> QED
    BY <1>1, <1>2, <1>5, <2>1, <2>3 DEF RootOK
<1>7. CASE ~r.leaf
  <2>1. PICK leaf \in Leaves(d) : LastLeaf(d, r, leaf)
    BY <1>7 DEF RootOK
  <2>2. Root \in Interiors(d)
    BY <1>1, <1>7 DEF Interiors
  <2>3. leaf \in Pages(d) /\ leaf \in Page /\ d.node[leaf] \in Node
    BY <2>1, PageShapes DEF Leaves
  <2>4. key >= d.node[leaf].keys[1]
    <3>1. d.node[leaf].keys \in Seq(Nat) /\ d.node[leaf].keys # <<>> /\ KeysBelow(d.node[leaf], key)
      BY <2>1, <2>3 DEF LastLeaf, Node, Key
    <3>2. 1 \in 1..Len(d.node[leaf].keys)
      BY <3>1
    <3> QED
      BY <1>1, <3>1, <3>2 DEF KeysBelow
  <2>5. Leads(d, key, Child(r, key), leaf)
    BY <2>1, <2>4 DEF LastLeaf
  <2>6. leaf = page /\ page # Root
    BY <2>1, <2>2, <2>5, LeadsIsFound DEF LastLeaf
  <2>7. e.node[Root] = r
    BY <2>6, <1>1, PageShapes DEF Stores
  <2>8. \A k \in Key : k >= old.keys[1] => Leads(e, k, Child(r, k), page)
    BY <1>5, <2>1, <2>6, LeadsKept DEF LastLeaf
  <2>9. old.keys # <<>> /\ n.keys[1] = old.keys[1] /\ Ascending(n.keys)
    BY <1>2, <2>1, <2>6 DEF LastLeaf
  <2>10. LastLeaf(e, r, page)
    BY <1>1, <1>2, <1>5, <2>1, <2>6, <2>8, <2>9 DEF LastLeaf
  <2>11. ASSUME NEW k \in Key PROVE Holds(e, r, k, new, new)
    <3>1. CASE k = key
      <4>1. Leads(e, k, Child(r, k), page) /\ Answers(e.node[page], k, new, new)
        BY <1>1, <1>4, <2>4, <2>6, <2>8, <3>1
      <4> QED
        BY <1>5, <1>7, <4>1 DEF Holds
    <3>2. CASE k # key
      <4>1. PICK q \in Leaves(d) : Leads(d, k, Child(r, k), q) /\ Answers(d.node[q], k, rows, rows)
        BY <1>7 DEF RootOK, Holds
      <4>2. Leads(e, k, Child(r, k), q) /\ q \in Leaves(e)
        BY <1>5, <4>1, LeadsKept
      <4>3. Answers(e.node[q], k, new, new)
        <5>1. CASE q = page
          BY <1>1, <1>3, <3>2, <4>1, <5>1
        <5>2. CASE q # page
          <6>1. e.node[q] = d.node[q]
            BY <5>2, PageShapes DEF Stores, Leaves
          <6> QED
            BY <3>2, <4>1, <6>1 DEF Answers
        <5> QED
          BY <5>1, <5>2
      <4> QED
        BY <1>7, <4>2, <4>3 DEF Holds
    <3> QED
      BY <3>1, <3>2
  <2>12. /\ r.parent = NoPage /\ Ascending(r.keys)
         /\ \A i \in 1..Len(r.kids) : r.kids[i] # Root
    BY DEF RootOK
  <2> HIDE DEF r, new
  <2>13. RootOK(e, r, new, new)
    BY <1>1, <1>5, <2>6, <2>10, <2>11, <2>12 DEF RootOK
  <2> QED
    BY <2>7, <2>10, <2>13 DEF new
<1> QED
  BY <1>6, <1>7

\* insert_internal adds the new half of the last leaf to the root: the rows are
\* found with the old half that the file has, and with the one to be written.
LEMMA HalfAdded ==
  ASSUME NEW d, Wellformed(d), NEW f, NEW rows, NEW all, rows \subseteq all,
         NEW r \in Node, r.leaf = FALSE, Len(r.kids) = Len(r.keys) + 1,
         f.page \in Leaves(d), f.sibling # f.page, f.node.leaf,
         d.node[f.sibling].parent = Root,
         \A i \in 1..Len(r.kids) : r.kids[i] # f.sibling,
         RootOK(d, r, rows, all),
         NEW n \in Node, WasLeaf(d, f, n),
         NEW e, Stores(d, e, f.page, n), RootOK(e, r, all, all), LastLeaf(e, r, f.page),
         NEW x, Stores(d, x, f.page, f.node)
  PROVE  /\ RootOK(d, WithChild(r, f.key, f.sibling), rows, all)
         /\ RootOK(x, WithChild(r, f.key, f.sibling), all, all)
<1> DEFINE sep == f.key
           S == f.sibling
           m == WithChild(r, sep, S)
<1>1. /\ n.keys \in Seq(Nat) /\ Len(n.keys) = ORDER /\ Ascending(n.keys) /\ sep = n.keys[Half + 1]
      /\ e.node[f.page] = n /\ x.node[f.page] = f.node /\ n.leaf
      /\ S \in Leaves(d) /\ S # Root /\ S \in Page /\ f.page # Root /\ f.page \in Page
  BY PageShapes DEF WasLeaf, LastLeaf, Stores, Node, Key, Leaves
<1>2. /\ \A k \in Nat : k \in ToSet(f.node.keys) <=> k \in ToSet(n.keys) /\ k < sep
      /\ \A k \in Nat : k \in ToSet(d.node[S].keys) <=> k \in ToSet(n.keys) /\ k >= sep
      /\ d.node[S].keys # <<>> /\ d.node[S].keys[1] = sep /\ Ascending(d.node[S].keys)
  <2>1. /\ f.node.keys = SubSeq(n.keys, 1, Half)
        /\ d.node[S].keys = SubSeq(n.keys, Half + 1, ORDER)
    BY DEF WasLeaf
  <2> HIDE DEF S
  <2> QED
    BY <1>1, <2>1, HalvesOfKeys
<1>3. sep \in Key /\ n.keys[1] \in Nat /\ n.keys[1] < sep
  <2>1. 1 \in 1..ORDER /\ Half + 1 \in 1..ORDER /\ 1 < Half + 1
    BY HalfBounds
  <2> QED
    BY <1>1, <2>1 DEF Ascending, Key
<1>4. \A i \in 1..Len(r.keys) : r.keys[i] < sep
  <2>1. \A i \in 1..Len(r.keys) : r.keys[i] \in Nat /\ r.keys[i] <= n.keys[1]
    BY <1>1 DEF LastLeaf, Node, Key
  <2> QED
    BY <1>3, <2>1 DEF Key
<1>5. ChildAdded(r, m, sep, S)
  <2>1. /\ r.parent = NoPage /\ Ascending(r.keys)
        /\ \A i \in 1..Len(r.kids) : r.kids[i] # Root
    BY DEF RootOK
  <2>2. S \in Page \ {Root}
    BY <1>1
  <2> HIDE DEF S, sep
  <2> QED
    BY <1>3, <1>4, <2>1, <2>2, WithChildAdded
<1>6. Routes(d, e) /\ Routes(e, d) /\ Leaves(e) = Leaves(d) /\ Pages(e) = Pages(d)
  BY <1>1, LeafStored
<1>7. Routes(d, x) /\ Leaves(x) = Leaves(d) /\ Pages(x) = Pages(d)
  BY LeafStored
<1>8. ASSUME NEW k \in Key
      PROVE  \E q \in Leaves(d) : Leads(d, k, Child(r, k), q) /\ Answers(e.node[q], k, all, all)
  <2>1. PICK q \in Leaves(e) : Leads(e, k, Child(r, k), q) /\ Answers(e.node[q], k, all, all)
    BY DEF RootOK, Holds
  <2> QED
    BY <1>6, <2>1, LeadsKept
<1>9. ASSUME NEW k \in Key, k >= sep PROVE Answers(d.node[S], k, all, all)
  <2>1. k \in Nat /\ k >= n.keys[1]
    BY <1>3, <1>9 DEF Key
  <2>2. Leads(e, k, Child(r, k), f.page)
    BY <1>1, <2>1 DEF LastLeaf
  <2>3. Leads(d, k, Child(r, k), f.page)
    BY <1>6, <2>2, LeadsKept
  <2>4. PICK q \in Leaves(d) : Leads(d, k, Child(r, k), q) /\ Answers(e.node[q], k, all, all)
    BY <1>8
  <2>5. q = f.page
    BY <2>3, <2>4, LeadsOnce
  <2>6. Answers(n, k, all, all)
    BY <1>1, <2>4, <2>5
  <2> QED
    BY <1>2, <1>9, <2>1, <2>6 DEF Answers
<1>10. ASSUME NEW k \in Key, k < sep PROVE Holds(x, r, k, all, all)
  <2>1. PICK q \in Leaves(d) : Leads(d, k, Child(r, k), q) /\ Answers(e.node[q], k, all, all)
    BY <1>8
  <2>2. Leads(x, k, Child(r, k), q)
    BY <1>7, <2>1, LeadsKept
  <2>3. Answers(x.node[q], k, all, all)
    <3>1. CASE q = f.page
      BY <1>1, <1>2, <1>10, <2>1, <3>1 DEF Answers, Key
    <3>2. CASE q # f.page
      <4>1. x.node[q] = e.node[q]
        BY <3>2, PageShapes DEF Stores, Leaves
      <4> QED
        BY <2>1, <4>1
    <3> QED
      BY <3>1, <3>2
  <2> QED
    BY <1>7, <2>2, <2>3 DEF Holds
<1>11. x.node[S] = d.node[S]
  BY <1>1 DEF Stores
<1>12. RootOK(d, m, rows, all)
  <2>1. \A k \in Key : /\ k < sep => Holds(d, r, k, rows, all)
                       /\ k >= sep => Answers(d.node[S], k, rows, all)
    <3>1. \A k \in Key : Holds(d, r, k, rows, all)
      BY DEF RootOK
    <3>2. ASSUME NEW k \in Key, k >= sep PROVE Answers(d.node[S], k, rows, all)
      BY <1>9, <3>2 DEF Answers
    <3> QED
      BY <3>1, <3>2
  <2>2. Root \in Pages(d)
    BY DEF RootOK
  <2> HIDE DEF m, S, sep
  <2>3. d.node[S].parent = Root /\ (\A i \in 1..Len(r.kids) : r.kids[i] # S)
    BY DEF S
  <2> QED
    BY <1>1, <1>2, <1>5, <2>1, <2>2, <2>3, AddedLeaf
<1>13. RootOK(x, m, all, all)
  <2>1. \A k \in Key : /\ k < sep => Holds(x, r, k, all, all)
                       /\ k >= sep => Answers(x.node[S], k, all, all)
    BY <1>9, <1>10, <1>11
  <2>2. Root \in Pages(x)
    BY <1>7 DEF RootOK
  <2> HIDE DEF m, S, sep
  <2>3. x.node[S].parent = Root /\ (\A i \in 1..Len(r.kids) : r.kids[i] # S)
    BY <1>11 DEF S
  <2> QED
    BY <1>1, <1>2, <1>5, <1>7, <1>11, <2>1, <2>2, <2>3, AddedLeaf
<1> QED
  BY <1>12, <1>13

\* The halves of an interior node send a key where the whole node did.
LEMMA HalvesSendOn ==
  ASSUME NEW m \in Node, Len(m.keys) = ORDER, Len(m.kids) = ORDER + 1, Ascending(m.keys),
         NEW l \in Node, l.keys = SubSeq(m.keys, 1, Half), l.kids = SubSeq(m.kids, 1, Half + 1),
         NEW r \in Node, r.keys = SubSeq(m.keys, Half + 2, ORDER),
         r.kids = SubSeq(m.kids, Half + 2, ORDER + 1),
         NEW k \in Key
  PROVE  /\ k < m.keys[Half + 1] => Child(l, k) = Child(m, k)
         /\ k >= m.keys[Half + 1] => Child(r, k) = Child(m, k)
<1> DEFINE s == m.keys
           v == m.kids
           h == Half + 1
           c == Cell(m, k)
<1>1. /\ h \in Nat /\ ORDER \in Nat /\ h >= 2 /\ h <= ORDER /\ Half = h - 1 /\ h \in 1..ORDER
      /\ s \in Seq(Nat) /\ v \in Seq(Page) /\ Len(s) = ORDER /\ Len(v) = ORDER + 1 /\ k \in Nat
      /\ \A i \in 1..ORDER : s[i] \in Nat
  <2>1. /\ h \in Nat /\ ORDER \in Nat /\ h >= 2 /\ h <= ORDER /\ Half = h - 1 /\ h \in 1..ORDER
    BY HalfBounds
  <2>2. s \in Seq(Nat) /\ v \in Seq(Page) /\ k \in Nat
    BY DEF Node, Key
  <2>3. \A i \in 1..ORDER : s[i] \in Nat
    BY <2>2
  <2> QED
    BY <2>1, <2>2, <2>3
<1>2. /\ Len(l.keys) = h - 1 /\ \A i \in 1..(h - 1) : l.keys[i] = s[i]
  <2>1. /\ Len(l.keys) = Half - 1 + 1 /\ \A i \in 1..(Half - 1 + 1) : l.keys[i] = s[1 + i - 1]
    BY <1>1, HalfBounds, SubSeqEntries
  <2>2. \A i \in 1..(h - 1) : 1 + i - 1 = i
    OBVIOUS
  <2> QED
    BY <1>1, <2>1, <2>2
<1>3. \A i \in 1..h : l.kids[i] = v[i]
  <2>1. \A i \in 1..(h - 1 + 1) : l.kids[i] = v[1 + i - 1]
    BY <1>1, HalfBounds, SubSeqEntries
  <2>2. \A i \in 1..h : 1 + i - 1 = i
    OBVIOUS
  <2> QED
    BY <1>1, <2>1, <2>2
<1>4. Len(r.keys) = ORDER - h /\ \A i \in 1..(ORDER - h) : r.keys[i] = s[h + i]
  <2>1. /\ Len(r.keys) = ORDER - (Half + 2) + 1
        /\ \A i \in 1..(ORDER - (Half + 2) + 1) : r.keys[i] = s[(Half + 2) + i - 1]
    BY <1>1, HalfBounds, SubSeqEntries
  <2>2. ORDER - (Half + 2) + 1 = ORDER - h /\ \A i \in 1..(ORDER - h) : (Half + 2) + i - 1 = h + i
    BY HalfBounds
  <2> QED
    BY <2>1, <2>2
<1>5. \A i \in 1..(ORDER + 1 - h) : r.kids[i] = v[h + i]
  <2>1. \A i \in 1..(ORDER + 1 - (Half + 2) + 1) : r.kids[i] = v[(Half + 2) + i - 1]
    BY <1>1, HalfBounds, SubSeqEntries
  <2>2. ORDER + 1 - (Half + 2) + 1 = ORDER + 1 - h /\ \A i \in 1..(ORDER + 1 - h) : (Half + 2) + i - 1 = h + i
    BY HalfBounds
  <2> QED
    BY <2>1, <2>2
<1>6. CellFits(m, k, c)
  BY CellRange
<1> HIDE DEF c, h
<1>7. c \in 0..ORDER /\ (\A i \in 1..c : s[i] <= k) /\ (c < ORDER => k < s[c + 1])
  BY <1>1, <1>6 DEF CellFits
<1>8. ASSUME k < s[h] PROVE Child(l, k) = Child(m, k)
  <2>1. c < h
    <3> SUFFICES ASSUME ~(c < h) PROVE FALSE
      OBVIOUS
    <3>1. h \in 1..c
      BY <1>1, <1>7
    <3>2. s[h] <= k /\ s[h] \in Nat
      BY <1>1, <1>7, <3>1
    <3> QED
      BY <1>1, <1>8, <3>2
  <2>2. \A i \in 1..c : i \in 1..(h - 1) /\ i \in 1..ORDER
    BY SMTT(30), <1>1, <1>7, <2>1
  <2>3. \A i \in 1..c : l.keys[i] <= k
    BY <1>2, <1>7, <2>2
  <2>4. c < h - 1 => k < l.keys[c + 1]
    <3> SUFFICES ASSUME c < h - 1 PROVE k < l.keys[c + 1]
      OBVIOUS
    <3>1. c + 1 \in 1..(h - 1) /\ c < ORDER
      BY <1>1, <1>7
    <3> QED
      BY <1>2, <1>7, <3>1
  <2>5. c \in 0..(h - 1)
    BY <1>1, <1>7, <2>1
  <2>6. CellFits(l, k, c)
    BY <1>2, <2>3, <2>4, <2>5 DEF CellFits
  <2>7. Cell(l, k) = c /\ c + 1 \in 1..h
    BY <1>1, <2>5, <2>6, CellIs
  <2>8. l.kids[c + 1] = v[c + 1]
    BY <1>3, <2>7
  <2>9. Child(l, k) = l.kids[c + 1] /\ Child(m, k) = m.kids[c + 1]
    BY <2>7 DEF Child, c
  <2> QED
    BY <2>8, <2>9
<1>9. ASSUME k >= s[h] PROVE Child(r, k) = Child(m, k)
  <2>1. c >= h
    <3> SUFFICES ASSUME ~(c >= h) PROVE FALSE
      OBVIOUS
    <3>5. c \in Nat /\ h \in Nat /\ ORDER \in Nat /\ ~(c >= h) /\ h <= ORDER
      BY <1>1, <1>7
    <3>1. c + 1 \in 1..ORDER /\ c < ORDER /\ (c + 1 = h \/ c + 1 < h)
      BY ONLY <3>5
    <3>2. PICK j \in 1..ORDER : j = c + 1
      BY <3>1
    <3>3. k < s[j] /\ (j = h \/ j < h)
      BY <1>7, <3>1, <3>2
    <3>4. s[j] \in Nat /\ s[h] \in Nat /\ (j = h \/ s[j] < s[h])
      BY <1>1, <3>3 DEF Ascending
    <3> QED
      BY <1>1, <1>9, <3>3, <3>4
  <2> DEFINE b == c - h
  <2>2. b \in 0..(ORDER - h) /\ b \in Nat /\ h + b = c /\ h + (b + 1) = c + 1
    BY <1>1, <1>7, <2>1
  <2> HIDE DEF b
  <2>3. ASSUME NEW i \in 1..b PROVE r.keys[i] <= k
    <3>1. i \in 1..(ORDER - h) /\ h + i \in 1..c
      BY <1>1, <2>2
    <3> QED
      BY <1>4, <1>7, <3>1
  <2>4. b < ORDER - h => k < r.keys[b + 1]
    <3> SUFFICES ASSUME b < ORDER - h PROVE k < r.keys[b + 1]
      OBVIOUS
    <3>1. b + 1 \in 1..(ORDER - h) /\ c < ORDER
      BY <1>1, <2>2
    <3>2. r.keys[b + 1] = s[h + (b + 1)]
      BY <1>4, <3>1
    <3> QED
      BY <1>7, <2>2, <3>1, <3>2
  <2>5. CellFits(r, k, b)
    BY <1>4, <2>2, <2>3, <2>4 DEF CellFits
  <2>6. Cell(r, k) = b /\ b + 1 \in 1..(ORDER + 1 - h)
    <3>1. Cell(r, k) = b
      BY <2>5, CellIs
    <3>2. h \in Nat /\ ORDER \in Nat /\ h <= ORDER
      BY <1>1
    <3>3. b + 1 \in 1..(ORDER + 1 - h)
      BY ONLY <2>2, <3>2
    <3> QED
      BY <3>1, <3>3
  <2>7. r.kids[b + 1] = v[h + (b + 1)]
    BY <1>5, <2>6
  <2>8. Child(r, k) = r.kids[b + 1] /\ Child(m, k) = m.kids[c + 1]
    BY <2>6 DEF Child, c
  <2> QED
    BY <2>2, <2>7, <2>8
<1> QED
  BY <1>8, <1>9 DEF h

\* A root over the one page that create_root moves a node to
Over(page) == Interior(NoPage, <<>>, <<page>>)

LEMMA OverOne ==
  ASSUME NEW page \in Page \ {Root}
  PROVE  LET r == Over(page) IN
         /\ r \in Node /\ r.leaf = FALSE /\ r.parent = NoPage
         /\ r.keys = <<>> /\ Len(r.kids) = Len(r.keys) + 1
         /\ Ascending(r.keys)
         /\ \A k \in Key : Child(r, k) = page
         /\ Len(r.kids) = 1 /\ r.kids[1] = page
<1> DEFINE r == Over(page)
<1>1. /\ r \in Node /\ r.leaf = FALSE /\ r.parent = NoPage /\ r.keys = <<>> /\ r.kids = <<page>>
  BY DEF Over, Interior, Node, Link
<1> HIDE DEF r
<1>2. /\ Len(r.keys) = 0 /\ Len(r.kids) = 1 /\ r.kids[1] = page
      /\ 1..Len(r.keys) = {} /\ 0..Len(r.keys) = {0}
  BY <1>1
<1>3. Ascending(r.keys)
  BY <1>2 DEF Ascending
<1>4. ASSUME NEW k \in Key PROVE Child(r, k) = page
  <2>1. Cell(r, k) \in 0..Len(r.keys)
    BY <1>1, CellRange DEF CellFits
  <2>2. Cell(r, k) = 0
    BY <1>2, <2>1
  <2> QED
    BY <1>2, <2>2 DEF Child
<1> QED
  BY <1>1, <1>2, <1>3, <1>4 DEF r

\* The new root over the two halves of the old one holds what that one held.
LEMMA RootHalved ==
  ASSUME NEW d, NEW f, NEW m \in Node, NEW lower, NEW upper,
         RootOK(d, m, lower, upper), WasInterior(d, f, m),
         f.moved \in Below(d), f.moved \in Page, d.node[f.moved] \in Node,
         SameTree(d.node[f.moved], f.node),
         f.sibling \in Page, d.node[f.sibling] \in Node,
         \A q \in Leaves(d) : d.node[q] \in Node
  PROVE  RootOK(d, WithChild(Over(f.moved), f.key, f.sibling), lower, upper)
<1> DEFINE r == Over(f.moved)
           sep == f.key
           S == f.sibling
           p == f.moved
           g == WithChild(r, sep, S)
<1>1. /\ p \in Page \ {Root} /\ S \in Page \ {Root} /\ p \in Below(d) /\ S \in Below(d)
      /\ ~m.leaf /\ Len(m.keys) = ORDER /\ Len(m.kids) = ORDER + 1 /\ sep = m.keys[Half + 1]
      /\ Ascending(m.keys)
      /\ d.node[p].keys = SubSeq(m.keys, 1, Half) /\ d.node[p].kids = SubSeq(m.kids, 1, Half + 1)
      /\ d.node[S].keys = SubSeq(m.keys, Half + 2, ORDER)
      /\ d.node[S].kids = SubSeq(m.kids, Half + 2, ORDER + 1)
  BY DEF WasInterior, Below, RootOK, SameTree
<1>2. /\ r \in Node /\ r.leaf = FALSE /\ r.parent = NoPage
      /\ r.keys = <<>> /\ Len(r.kids) = Len(r.keys) + 1
      /\ Ascending(r.keys) /\ Len(r.kids) = 1 /\ r.kids[1] = p
      /\ \A k \in Key : Child(r, k) = p
  BY <1>1, OverOne
<1>3. sep \in Key /\ Half + 1 \in 1..Len(m.keys)
  <2>1. Half + 1 \in 1..Len(m.keys) /\ m.keys \in Seq(Key)
    BY <1>1, HalfBounds DEF Node
  <2> QED
    BY <1>1, <2>1
<1> HIDE DEF r, sep, S, p
<1>4. ChildAdded(r, g, sep, S)
  <2>1. \A i \in 1..Len(r.keys) : r.keys[i] < sep
    BY <1>2
  <2>2. \A i \in 1..Len(r.kids) : r.kids[i] # Root
    BY <1>1, <1>2
  <2> QED
    BY <1>1, <1>2, <1>3, <2>1, <2>2, WithChildAdded
<1> HIDE DEF g
<1>5. ASSUME NEW k \in Key
      PROVE  /\ k < sep => Child(d.node[p], k) = Child(m, k)
             /\ k >= sep => Child(d.node[S], k) = Child(m, k)
  BY <1>1, HalvesSendOn DEF p, S
<1>6. ASSUME NEW k \in Key, NEW q, Leads(d, k, Child(m, k), q)
      PROVE  /\ k < sep => Leads(d, k, p, q)
             /\ k >= sep => Leads(d, k, S, q)
  BY <1>1, <1>5, <1>6, WayFromAbove DEF Leads
<1>7. ASSUME NEW k \in Key PROVE Holds(d, g, k, lower, upper)
  <2>1. PICK q \in Leaves(d) : Leads(d, k, Child(m, k), q) /\ Answers(d.node[q], k, lower, upper)
    BY <1>1 DEF RootOK, Holds
  <2>2. ASSUME k < sep PROVE Holds(d, r, k, lower, upper)
    <3>1. Leads(d, k, Child(r, k), q)
      BY <1>2, <1>6, <2>1, <2>2
    <3> QED
      BY <1>2, <2>1, <3>1 DEF Holds
  <2>3. ASSUME k >= sep
        PROVE  \E leaf \in Leaves(d) : Leads(d, k, S, leaf) /\ Answers(d.node[leaf], k, lower, upper)
    BY <1>6, <2>1, <2>3
  <2> QED
    BY <1>4, <2>2, <2>3, AddedHolds
<1>8. PICK leaf \in Leaves(d) : LastLeaf(d, m, leaf)
  BY <1>1 DEF RootOK
<1>9. /\ \A i \in 1..Len(g.keys) : g.keys[i] <= sep
      /\ Ascending(g.keys)
      /\ \A i \in 1..Len(g.kids) : g.kids[i] # Root
      /\ \A i \in 1..(Len(g.kids) - 1) : i \in 1..Len(r.kids) /\ g.kids[i] = r.kids[i]
  BY <1>4, AddedShape
<1>10. g \in Node /\ g.parent = NoPage /\ g.leaf = FALSE /\ \A i \in 1..Len(g.keys) : g.keys[i] \in Nat
  <2>1. g \in Node /\ g.parent = NoPage /\ g.leaf = FALSE
    BY <1>4 DEF ChildAdded
  <2> QED
    BY <2>1 DEF Node, Key
<1>11. LastLeaf(d, g, leaf)
  <2> DEFINE first == d.node[leaf].keys[1]
  <2>1. /\ leaf \in Leaves(d) \ {Root} /\ d.node[leaf].parent = Root
        /\ d.node[leaf].keys # <<>> /\ Ascending(d.node[leaf].keys)
        /\ \A k \in Key : k >= first => Leads(d, k, Child(m, k), leaf)
    BY <1>8 DEF LastLeaf
  <2>2. sep <= first
    <3>1. m.keys[Half + 1] <= first
      BY <1>3, <1>8 DEF LastLeaf
    <3> QED
      BY <1>1, <3>1
  <2>3. first \in Nat
    <3>1. d.node[leaf].keys \in Seq(Nat)
      BY <2>1 DEF Node, Key
    <3>2. 1 \in 1..Len(d.node[leaf].keys)
      BY <2>1, <3>1
    <3> QED
      BY <3>1, <3>2
  <2> HIDE DEF first
  <2>4. \A i \in 1..Len(g.keys) : g.keys[i] <= first
    BY <1>3, <1>9, <1>10, <2>2, <2>3 DEF Key
  <2>5. ASSUME NEW k \in Key, k >= first PROVE Leads(d, k, Child(g, k), leaf)
    <3>1. k >= sep
      BY <1>3, <2>2, <2>3, <2>5 DEF Key
    <3>2. Child(g, k) = S
      BY <1>4, <3>1, ChildOfExtended
    <3> QED
      BY <1>6, <2>1, <2>5, <3>1, <3>2
  <2>6. ASSUME NEW i \in 1..(Len(g.kids) - 1) PROVE g.kids[i] # leaf
    <3>1. g.kids[i] = p
      <4>1. i \in 1..1 /\ g.kids[i] = r.kids[i]
        BY <1>2, <1>9
      <4> QED
        BY <1>2, <4>1
    <3> QED
      BY <1>1, <2>1, <3>1 DEF Below, Interiors, Leaves
  <2> QED
    BY <2>1, <2>4, <2>5, <2>6 DEF LastLeaf, first
<1>12. Root \in Pages(d)
  BY DEF RootOK
<1>13. RootOK(d, g, lower, upper)
  BY <1>7, <1>8, <1>9, <1>10, <1>11, <1>12 DEF RootOK
<1> QED
  BY <1>13 DEF g, r, sep, S, p

\* The same for a leaf that was the root
LEMMA LeafRootHalved ==
  ASSUME NEW d, NEW f, NEW n \in Node, NEW lower, NEW all, lower \subseteq all,
         WasLeaf(d, f, n), Ascending(n.keys), ToSet(n.keys) = all,
         Root \in Pages(d), f.moved \in Leaves(d) \ {Root, f.sibling}, f.moved \in Page,
         SameTree(d.node[f.moved], f.node),
         f.sibling \in Page, d.node[f.sibling].parent = Root
  PROVE  RootOK(d, WithChild(Over(f.moved), f.key, f.sibling), lower, all)
<1> DEFINE r == Over(f.moved)
           sep == f.key
           S == f.sibling
           p == f.moved
           g == WithChild(r, sep, S)
<1>1. /\ p \in Page \ {Root} /\ S \in Page \ {Root} /\ p \in Leaves(d) /\ S \in Leaves(d) /\ p # S
      /\ n.keys \in Seq(Nat) /\ Len(n.keys) = ORDER /\ sep = n.keys[Half + 1]
      /\ d.node[p].keys = SubSeq(n.keys, 1, Half)
      /\ d.node[S].keys = SubSeq(n.keys, Half + 1, ORDER)
      /\ d.node[S].parent = Root
  BY DEF WasLeaf, SameTree, Node, Key
<1>2. /\ r \in Node /\ r.leaf = FALSE /\ r.parent = NoPage
      /\ r.keys = <<>> /\ Len(r.kids) = Len(r.keys) + 1
      /\ Ascending(r.keys) /\ Len(r.kids) = 1 /\ r.kids[1] = p
      /\ \A k \in Key : Child(r, k) = p
  BY <1>1, OverOne
<1>3. sep \in Key
  BY <1>1, HalfBounds DEF Key
<1> HIDE DEF r, sep, S, p
<1>4. ChildAdded(r, g, sep, S) /\ \A i \in 1..Len(r.kids) : r.kids[i] # S
  <2>1. \A i \in 1..Len(r.keys) : r.keys[i] < sep
    BY <1>2
  <2>2. \A i \in 1..Len(r.kids) : r.kids[i] # Root /\ r.kids[i] # S
    BY <1>1, <1>2
  <2> QED
    BY <1>1, <1>2, <1>3, <2>1, <2>2, WithChildAdded
<1> HIDE DEF g
<1>5. /\ \A k \in Nat : k \in ToSet(d.node[p].keys) <=> k \in ToSet(n.keys) /\ k < sep
      /\ \A k \in Nat : k \in ToSet(d.node[S].keys) <=> k \in ToSet(n.keys) /\ k >= sep
      /\ d.node[S].keys # <<>> /\ d.node[S].keys[1] = sep /\ Ascending(d.node[S].keys)
  BY <1>1, HalvesOfKeys
<1>6. ASSUME NEW k \in Key
      PROVE  /\ k < sep => Holds(d, r, k, lower, all)
             /\ k >= sep => Answers(d.node[S], k, lower, all)
  <2>1. Leads(d, k, Child(r, k), p)
    BY <1>1, <1>2, WayOfOne DEF Leads
  <2>2. ASSUME k < sep PROVE Answers(d.node[p], k, lower, all)
    BY <1>5, <2>2 DEF Answers, Key
  <2>3. ASSUME k >= sep PROVE Answers(d.node[S], k, lower, all)
    BY <1>5, <2>3 DEF Answers, Key
  <2> QED
    BY <1>1, <1>2, <2>1, <2>2, <2>3 DEF Holds
<1>7. RootOK(d, g, lower, all)
  BY <1>1, <1>4, <1>5, <1>6, AddedLeaf
<1> QED
  BY <1>7 DEF g, r, sep, S, p

-----------------------------------------------------------------------------
\* What a step keeps

LEMMA StoreKeeps ==
  ASSUME NEW d, NEW e, NEW page, NEW n, Stores(d, e, page, n), NEW m,
         \/ page \notin Pages(d) \/ page = Root
         \/ /\ SameTree(n, d.node[page])
            /\ n.parent = d.node[page].parent \/ ~d.node[page].leaf \/ Elder(m, page)
  PROVE  Kept(d, e, m)
<1>1. Pages(d) \subseteq Pages(e) /\ \A p \in Pages(d) : p \in Page
  BY DEF Stores, Pages
<1> SUFFICES ASSUME NEW p \in Pages(d) \ {Root}
             PROVE  /\ SameTree(e.node[p], d.node[p])
                    /\ \/ e.node[p].parent = d.node[p].parent
                       \/ ~d.node[p].leaf \/ Elder(m, p)
  BY <1>1 DEF Kept
<1>2. CASE p = page
  BY <1>2 DEF Stores
<1>3. CASE p # page
  BY <1>1, <1>3 DEF Stores, SameTree
<1> QED
  BY <1>2, <1>3

LEMMA SameKept ==
  ASSUME NEW d, NEW e, e.node = d.node, e.nb_pages = d.nb_pages, NEW n
  PROVE  Kept(d, e, n) /\ Pages(e) = Pages(d)
<1>1. Pages(e) = Pages(d)
  BY DEF Pages, Written
<1> QED
  BY <1>1 DEF Kept, SameTree

LEMMA KeptTwice ==
  ASSUME NEW c, NEW d, NEW e, NEW n, Kept(c, d, n), Kept(d, e, n)
  PROVE  Kept(c, e, n)
  BY DEF Kept, SameTree

LEMMA PendingKept ==
  ASSUME NEW d \in Db, NEW e \in Db, NEW f, f.page \in Pages(d), f.node \in Node, NEW n, Kept(d, e, n)
  PROVE  Kept(Pending(d, f), Pending(e, f), n)
<1>1. f.page \in Pages(e)
  BY DEF Kept
<1>2. Stores(d, Pending(d, f), f.page, f.node) /\ Stores(e, Pending(e, f), f.page, f.node)
  BY <1>1, WritingStores DEF Pending
<1>3. Pages(Pending(d, f)) = Pages(d) /\ Pages(Pending(e, f)) = Pages(e)
      /\ \A p \in Pages(d) : p \in Page
  BY <1>1, <1>2 DEF Stores, Pages
<1> SUFFICES ASSUME NEW p \in Pages(d) \ {Root}
             PROVE  /\ SameTree(Pending(e, f).node[p], Pending(d, f).node[p])
                    /\ \/ Pending(e, f).node[p].parent = Pending(d, f).node[p].parent
                       \/ ~Pending(d, f).node[p].leaf \/ Elder(n, p)
  BY <1>3 DEF Kept
<1>4. CASE p = f.page
  BY <1>2, <1>4 DEF Stores, SameTree
<1>5. CASE p # f.page
  <2>1. Pending(e, f).node[p] = e.node[p] /\ Pending(d, f).node[p] = d.node[p]
    BY <1>2, <1>3, <1>5 DEF Stores
  <2> QED
    BY <2>1 DEF Kept
<1> QED
  BY <1>4, <1>5

LEMMA ReadyKept ==
  ASSUME NEW d \in Db, NEW e \in Db, e.rows = d.rows, e.next_id = d.next_id,
         NEW f, f.page \in Pages(d), f.node \in Node, NEW n, Kept(d, e, n)
  PROVE  /\ Ready(d, f, n) => Ready(e, f, n)
         /\ Complete(d, f, n) => Complete(e, f, n)
<1>1. AllRows(e) = AllRows(d)
  BY DEF AllRows, NewRow
<1>2. Ready(d, f, n) => Ready(e, f, n)
  BY <1>1, RootOKKept DEF Ready
<1>3. Complete(d, f, n) => Complete(e, f, n)
  BY <1>1, PendingKept, RootOKKept DEF Complete
<1> QED
  BY <1>2, <1>3

LEMMA TreeKept ==
  ASSUME NEW d, NEW e, e.rows = d.rows, e.next_id = d.next_id,
         e.node[Root] = d.node[Root], Kept(d, e, d.node[Root]), TreeOK(d)
  PROVE  TreeOK(e)
<1>1. AllRows(e) = AllRows(d)
  BY DEF AllRows, NewRow
<1> QED
  BY <1>1, RootOKKept DEF TreeOK

\* A root that holds some rows holds fewer, and no more than more.
LEMMA HoldsLess ==
  ASSUME NEW d, NEW n, NEW lower, NEW upper, RootOK(d, n, lower, upper),
         NEW low, NEW up, low \subseteq lower, upper \subseteq up
  PROVE  RootOK(d, n, low, up)
<1>1. ASSUME NEW leaf, NEW key, Answers(leaf, key, lower, upper) PROVE Answers(leaf, key, low, up)
  BY <1>1 DEF Answers
<1>2. \A key \in Key : Holds(d, n, key, low, up)
  BY <1>1 DEF RootOK, Holds
<1> QED
  BY <1>2 DEF RootOK

LEMMA InProgressFacts ==
  ASSUME IInv, SearchInv, frames # <<>>
  PROVE  /\ Wellformed(db) /\ Wellformed(file) /\ Phase(db, frames) /\ ~lost
         /\ db \in Db /\ frames \in Seq(Frame) /\ Len(frames) \in Nat \ {0}
         /\ Top \in Frame /\ CallSound(db, Top) /\ Top = frames[Len(frames)]
         /\ Top.node.leaf = (Len(frames) = 1)
         /\ \A i \in 1..Len(frames) : /\ frames[i] \in Frame /\ CallSound(db, frames[i])
                                      /\ frames[i].node.leaf = (i = 1)
                                      /\ i < Len(frames) => frames[i].pc = "write"
         /\ Children(db, MissingOf(Top)) /\ Parents(db)
         /\ \A d \in {db, file} : ~d.torn => TreeOK(d)
<1>1. /\ ~lost /\ Parents(db) /\ Children(db, MissingOf(Top))
      /\ Len(frames) \in Nat \ {0} /\ Top \in Frame
      /\ CallSound(db, Top) /\ Top.node.leaf = (Len(frames) = 1) /\ CallsSound
  BY TopCall
<1>2. Wellformed(db) /\ Wellformed(file) /\ db \in Db /\ frames \in Seq(Frame)
  BY DEF Wellformed, IInv, Shapes
<1>3. \A i \in 1..Len(frames) : frames[i] \in Frame
  BY <1>2
<1> QED
  BY <1>1, <1>2, <1>3 DEF SearchInv, CallsSound, Top

LEMMA TopIsSet ==
  ASSUME frames \in Seq(Frame), frames # <<>>, NEW f \in Frame, SetTop(f)
  PROVE  /\ frames' \in Seq(Frame) /\ Len(frames') = Len(frames) /\ frames'[Len(frames)] = f
         /\ \A i \in 1..(Len(frames) - 1) : frames'[i] = frames[i]
<1> DEFINE n == Len(frames)
<1>1. n \in Nat \ {0} /\ n = Len(frames)
  OBVIOUS
<1>2. frames' = [frames EXCEPT ![n] = f]
  BY DEF SetTop
<1> HIDE DEF n
<1>3. /\ frames' \in Seq(Frame) /\ Len(frames') = n /\ frames'[n] = f
      /\ \A i \in 1..(n - 1) : frames'[i] = frames[i]
  BY <1>1, <1>2, ExceptSeq
<1> QED
  BY <1>1, <1>3

-----------------------------------------------------------------------------
\* The steps

LEMMA RootIsPage == Root \in Page
  BY TableTreeAssumption DEF Root, Page

LEMMA PhaseOfCall ==
  ASSUME IInv, SearchInv, frames # <<>>
  PROVE  /\ Top.pc = "split" => AddingRow(db, frames) \/ AddingChild(db, frames)
         /\ Top.pc = "write" => \/ AddingRow(db, frames) \/ AddingChild(db, frames)
                                \/ AddingHalf(db, frames) \/ WritingHalf(db, frames)
         /\ Top.pc \in {"root", "move", "sibling"} => LeafRootSplit(db, frames) \/ RootSplit(db, frames)
         /\ Top.pc = "children" => RootSplit(db, frames)
         /\ Top.pc = "up" => \/ LeafSplit(db, frames) \/ LeafRootSplit(db, frames)
                             \/ RootSplit(db, frames)
<1>1. /\ Phase(db, frames) /\ Len(frames) \in Nat \ {0} /\ Top = frames[Len(frames)]
      /\ CallSound(db, Top) /\ Top.node.leaf = (Len(frames) = 1)
  BY InProgressFacts
<1>2. ~Idle(db, frames)
  BY DEF Idle
<1>3. AddingRow(db, frames) => Top.pc \in {"split", "write"}
  BY <1>1 DEF AddingRow
<1>4. LeafSplit(db, frames) => Top.pc = "up"
  BY <1>1 DEF LeafSplit
<1>5. LeafRootSplit(db, frames) => Top.pc \in {"root", "move", "sibling", "up"}
  BY <1>1 DEF LeafRootSplit, CreatingRoot, CallSound
<1>6. AddingChild(db, frames) => Top.pc \in {"split", "write"}
  BY <1>1 DEF AddingChild
<1>7. RootSplit(db, frames) => Top.pc \in {"root", "move", "sibling", "children", "up"}
  BY <1>1 DEF RootSplit, CreatingRoot
<1>8. AddingHalf(db, frames) \/ WritingHalf(db, frames) => Top.pc = "write"
  BY <1>1 DEF AddingHalf, WritingHalf
<1>9. \/ AddingRow(db, frames) \/ LeafSplit(db, frames) \/ LeafRootSplit(db, frames)
      \/ AddingChild(db, frames) \/ RootSplit(db, frames)
      \/ AddingHalf(db, frames) \/ WritingHalf(db, frames)
  BY <1>1, <1>2 DEF Phase
<1> QED
  BY ONLY <1>3, <1>4, <1>5, <1>6, <1>7, <1>8, <1>9

\* A step of create_root changes no page that the walks need.
LEMMA CreatingStep ==
  ASSUME NEW d \in Db, NEW e \in Db, e.rows = d.rows, e.next_id = d.next_id,
         NEW fs, NEW gs, NEW f, NEW g, f = fs[Len(fs)], g = gs[Len(fs)],
         Len(gs) = Len(fs), \A i \in 1..(Len(fs) - 1) : gs[i] = fs[i],
         SameTree(g.node, f.node), g.key = f.key, g.sibling = f.sibling,
         CreatingRoot(e, g), Pages(d) \subseteq Pages(e),
         f.sibling \in Pages(d), SameTree(e.node[f.sibling], d.node[f.sibling]),
         \A n \in Node : RootSplit(d, fs) /\ WasInterior(d, f, n) /\ Ready(d, fs[1], n)
                           => Kept(d, e, n),
         Len(fs) = 1 /\ g.pc = "up" => e.node[f.sibling].parent = Root,
         Len(fs) = 2 => fs[1].page \in Pages(d) \ {g.moved} /\ fs[1].node \in Node
  PROVE  /\ LeafRootSplit(d, fs) => LeafRootSplit(e, gs)
         /\ RootSplit(d, fs) => RootSplit(e, gs)
<1>1. AllRows(e) = AllRows(d)
  BY DEF AllRows, NewRow
<1>2. ASSUME LeafRootSplit(d, fs) PROVE LeafRootSplit(e, gs)
  <2>1. Len(fs) = 1 /\ f = fs[1] /\ g = gs[1]
    BY <1>2 DEF LeafRootSplit
  <2>2. PICK n \in Node : WasLeaf(d, f, n) /\ Ascending(n.keys) /\ ToSet(n.keys) = AllRows(d)
    BY <1>2, <2>1 DEF LeafRootSplit
  <2>3. WasLeaf(e, g, n)
    BY <2>2 DEF WasLeaf, SameTree, Leaves
  <2> QED
    BY <1>1, <2>1, <2>2, <2>3 DEF LeafRootSplit
<1>3. ASSUME RootSplit(d, fs) PROVE RootSplit(e, gs)
  <2>1. Len(fs) = 2 /\ f = fs[2] /\ g = gs[2] /\ gs[1] = fs[1]
    BY <1>3 DEF RootSplit
  <2>2. PICK n \in Node : WasInterior(d, f, n) /\ Ready(d, fs[1], n) /\ Complete(d, fs[1], n)
    BY <1>3, <2>1 DEF RootSplit
  <2>3. WasInterior(e, g, n)
    BY <2>2 DEF WasInterior, SameTree, Interiors
  <2>4. Ready(e, fs[1], n) /\ Complete(e, fs[1], n)
    BY <1>3, <2>1, <2>2, ReadyKept
  <2>5. fs[1].page \notin {Root, g.sibling} /\ fs[1].page # g.moved
    BY <1>3, <2>1 DEF RootSplit
  <2> QED
    BY <2>1, <2>2, <2>3, <2>4, <2>5 DEF RootSplit
<1> QED
  BY <1>2, <1>3

\* The new half that create_root waits to add
LEMMA SiblingOfSplit ==
  ASSUME NEW d, NEW fs, NEW f, f = fs[Len(fs)], LeafRootSplit(d, fs) \/ RootSplit(d, fs)
  PROVE  /\ f.sibling \in Pages(d) \ {Root} /\ CreatingRoot(d, f)
         /\ LeafRootSplit(d, fs) => Len(fs) = 1
         /\ RootSplit(d, fs) => Len(fs) = 2 /\ ~d.node[f.sibling].leaf
<1>1. ASSUME LeafRootSplit(d, fs)
      PROVE  /\ Len(fs) = 1 /\ f.sibling \in Pages(d) \ {Root} /\ CreatingRoot(d, f)
  BY <1>1 DEF LeafRootSplit, WasLeaf, Leaves
<1>2. ASSUME RootSplit(d, fs)
      PROVE  /\ Len(fs) = 2 /\ f.sibling \in Pages(d) \ {Root} /\ CreatingRoot(d, f)
             /\ ~d.node[f.sibling].leaf
  BY <1>2 DEF RootSplit, WasInterior, Interiors
<1> QED
  BY <1>1, <1>2

LEMMA SearchOfMoveNode == ASSUME IInv, SearchInv, MoveNode PROVE SearchInv'
<1> DEFINE e == WriteNode(db, Top.moved, Top.node)
           g == [Top EXCEPT !.pc = "sibling"]
<1>1. /\ frames # <<>> /\ Top.pc = "move" /\ Store(e) /\ SetTop(g)
  BY DEF MoveNode, At
<1>2. /\ ~lost /\ db \in Db /\ frames \in Seq(Frame) /\ Len(frames) \in Nat \ {0}
      /\ Top \in Frame /\ CallSound(db, Top) /\ Top = frames[Len(frames)]
      /\ Top.node.leaf = (Len(frames) = 1)
      /\ \A i \in 1..Len(frames) : frames[i] \in Frame /\ CallSound(db, frames[i])
                                   /\ (i < Len(frames) => frames[i].pc = "write")
  BY <1>1, InProgressFacts
<1>3. LeafRootSplit(db, frames) \/ RootSplit(db, frames)
  BY <1>1, PhaseOfCall
<1>4. /\ Top.sibling \in Pages(db) \ {Root} /\ CreatingRoot(db, Top)
      /\ Top.moved \in Page \ {Root, Top.sibling} /\ db.torn
  BY <1>1, <1>2, <1>3, SiblingOfSplit DEF CreatingRoot
<1>5. Top.moved \in 0..(db.nb_pages - 1) /\ Top.moved \notin Pages(db) /\ Top.node \in Node
  BY <1>1, <1>2 DEF CallSound, Pages, Written, Frame
<1>6. /\ e \in Db /\ e.rows = db.rows /\ e.next_id = db.next_id /\ e.torn = db.torn
      /\ Stores(db, e, Top.moved, Top.node)
  BY <1>2, <1>5, Writing DEF Stores
<1>7. /\ g \in Frame /\ g.pc = "sibling" /\ g.node = Top.node /\ g.key = Top.key /\ g.page = Top.page
      /\ g.sibling = Top.sibling /\ g.moved = Top.moved
  BY <1>2 DEF Frame
<1> HIDE DEF e, g
<1>8. /\ Len(frames') = Len(frames) /\ frames'[Len(frames)] = g
      /\ \A i \in 1..(Len(frames) - 1) : frames'[i] = frames[i]
  BY <1>1, <1>2, <1>7, TopIsSet
<1>9. CreatingRoot(e, g)
  <2>1. /\ Top.page = Root /\ Top.node.parent = Root
        /\ db.node[Root] = Interior(NoPage, <<>>, <<Top.moved>>)
    BY <1>1, <1>4 DEF CreatingRoot
  <2>2. /\ e.node[Root] = db.node[Root] /\ e.node[Top.moved] = Top.node
        /\ Top.moved \in Pages(e)
    BY <1>4, <1>6, RootIsPage DEF Stores
  <2> QED
    BY <1>4, <1>6, <1>7, <2>1, <2>2 DEF CreatingRoot, SameTree
<1>10. /\ Pages(db) \subseteq Pages(e) /\ SameTree(e.node[Top.sibling], db.node[Top.sibling])
       /\ \A n : Kept(db, e, n)
  BY <1>4, <1>5, <1>6, StoreKeeps DEF Kept
<1>11. Len(frames) = 2 => frames[1].page \in Pages(db) \ {g.moved} /\ frames[1].node \in Node
  BY <1>2, <1>5, <1>7 DEF CallSound, Frame
<1>12. LeafRootSplit(e, frames') \/ RootSplit(e, frames')
  BY <1>2, <1>3, <1>4, <1>6, <1>7, <1>8, <1>9, <1>10, <1>11, CreatingStep DEF SameTree
<1>13. db' = e /\ file' = db
  BY <1>1 DEF Store
<1> QED
  BY <1>4, <1>6, <1>12, <1>13 DEF SearchInv, Phase

\* What create_root needs of its call and of the file
LEMMA CreatingFacts ==
  ASSUME IInv, SearchInv, frames # <<>>, Top.pc \in {"root", "move", "sibling", "children"}
  PROVE  /\ ~lost /\ db \in Db /\ frames \in Seq(Frame) /\ Len(frames) \in Nat \ {0}
         /\ Top \in Frame /\ CallSound(db, Top) /\ Top = frames[Len(frames)]
         /\ Top.node.leaf = (Len(frames) = 1) /\ Wellformed(db) /\ Wellformed(file)
         /\ LeafRootSplit(db, frames) \/ RootSplit(db, frames)
         /\ Top.sibling \in Pages(db) \ {Root} /\ CreatingRoot(db, Top)
         /\ Len(frames) = 2 => frames[1].page \in Pages(db) /\ frames[1].node \in Node
         /\ ~db.torn => TreeOK(db)
<1>1. /\ ~lost /\ db \in Db /\ frames \in Seq(Frame) /\ Len(frames) \in Nat \ {0}
      /\ Top \in Frame /\ CallSound(db, Top) /\ Top = frames[Len(frames)]
      /\ Top.node.leaf = (Len(frames) = 1) /\ Wellformed(db) /\ Wellformed(file)
      /\ ~db.torn => TreeOK(db)
      /\ \A i \in 1..Len(frames) : frames[i] \in Frame /\ CallSound(db, frames[i])
                                   /\ (i < Len(frames) => frames[i].pc = "write")
  BY InProgressFacts
<1>2. LeafRootSplit(db, frames) \/ RootSplit(db, frames)
  BY PhaseOfCall
<1>3. Top.sibling \in Pages(db) \ {Root} /\ CreatingRoot(db, Top)
  BY <1>1, <1>2, SiblingOfSplit
<1>4. Len(frames) = 2 => frames[1].page \in Pages(db) /\ frames[1].node \in Node
  BY <1>1 DEF CallSound, Frame
<1> QED
  BY <1>1, <1>2, <1>3, <1>4

LEMMA SearchOfUpdateSibling == ASSUME IInv, SearchInv, UpdateSibling PROVE SearchInv'
<1> DEFINE page == Top.sibling
           n == [db.node[page] EXCEPT !.parent = Top.page]
           e == WriteNode(db, page, n)
           g == [Top EXCEPT !.pc = IF Top.node.leaf THEN "up" ELSE "children", !.page = Top.moved]
<1>1. /\ frames # <<>> /\ Top.pc = "sibling" /\ Store(e) /\ SetTop(g)
  BY DEF UpdateSibling, At
<1>2. /\ ~lost /\ db \in Db /\ frames \in Seq(Frame) /\ Len(frames) \in Nat \ {0}
      /\ Top \in Frame /\ CallSound(db, Top) /\ Top = frames[Len(frames)]
      /\ Top.node.leaf = (Len(frames) = 1)
      /\ LeafRootSplit(db, frames) \/ RootSplit(db, frames)
      /\ page \in Pages(db) \ {Root} /\ CreatingRoot(db, Top)
      /\ Len(frames) = 2 => frames[1].page \in Pages(db) /\ frames[1].node \in Node
  BY <1>1, CreatingFacts
<1>3. /\ Top.page = Root /\ Top.node.parent = Root /\ db.torn
      /\ db.node[Root] = Interior(NoPage, <<>>, <<Top.moved>>)
      /\ Top.moved \in Pages(db) \ {Root, page} /\ SameTree(db.node[Top.moved], Top.node)
  BY <1>1, <1>2 DEF CreatingRoot
<1>4. page \in Page /\ page \in 0..(db.nb_pages - 1) /\ db.node[page] \in Node /\ Top.moved \in Page
  BY <1>2, <1>3, PagesAreNodes
<1>5. n \in Node /\ n.parent = Root /\ SameTree(n, db.node[page])
  BY <1>3, <1>4, RootIsPage DEF Node, Link, SameTree
<1>6. /\ e \in Db /\ e.rows = db.rows /\ e.next_id = db.next_id /\ e.torn = db.torn
      /\ Stores(db, e, page, n)
  <2>1. db \in Db /\ page \in Page /\ page \in 0..(db.nb_pages - 1) /\ n \in Node
    BY <1>2, <1>4, <1>5
  <2> HIDE DEF page, n
  <2> QED
    BY <2>1, Writing DEF Stores
<1>7. /\ g \in Frame /\ g.pc = (IF Top.node.leaf THEN "up" ELSE "children")
      /\ g.node = Top.node /\ g.key = Top.key /\ g.page = Top.moved
      /\ g.sibling = page /\ g.moved = Top.moved
  BY <1>2, <1>4 DEF Frame
<1> HIDE DEF e, g, n
<1>8. /\ Len(frames') = Len(frames) /\ frames'[Len(frames)] = g
      /\ \A i \in 1..(Len(frames) - 1) : frames'[i] = frames[i]
  BY <1>1, <1>2, <1>7, TopIsSet
<1>9. CreatingRoot(e, g)
  <2>1. /\ e.node[Root] = db.node[Root] /\ e.node[Top.moved] = db.node[Top.moved]
        /\ Top.moved \in Pages(e)
    BY <1>2, <1>3, <1>4, <1>6, RootIsPage DEF Stores
  <2>2. Top.moved \in Page \ {Root, g.sibling} /\ g.pc \in {"up", "children"}
    BY <1>3, <1>4, <1>7
  <2> QED
    BY <1>3, <1>6, <1>7, <2>1, <2>2 DEF CreatingRoot
<1>10. /\ Pages(db) \subseteq Pages(e) /\ e.node[page] = n
       /\ SameTree(e.node[page], db.node[page])
  BY <1>5, <1>6 DEF Stores
<1>11. RootSplit(db, frames) => \A m : Kept(db, e, m)
  <2>1. RootSplit(db, frames) => ~db.node[page].leaf
    BY <1>2, SiblingOfSplit
  <2> QED
    BY <1>5, <1>6, <2>1, StoreKeeps
<1>12. Len(frames) = 2 => frames[1].page # g.moved
  <2>1. LeafRootSplit(db, frames) => Len(frames) = 1
    BY DEF LeafRootSplit
  <2>2. RootSplit(db, frames) => Len(frames) = 2 /\ (frames[2].pc # "root" => frames[1].page # frames[2].moved)
    BY DEF RootSplit
  <2> QED
    BY <1>1, <1>2, <1>7, <2>1, <2>2
<1>13. LeafRootSplit(e, frames') \/ RootSplit(e, frames')
  BY <1>2, <1>5, <1>6, <1>7, <1>8, <1>9, <1>10, <1>11, <1>12, CreatingStep DEF SameTree
<1>14. db' = e /\ file' = db
  BY <1>1 DEF Store
<1> QED
  BY <1>3, <1>6, <1>13, <1>14 DEF SearchInv, Phase

LEMMA SearchOfUpdateChild == ASSUME IInv, SearchInv, UpdateChild PROVE SearchInv'
<1> DEFINE page == Top.node.kids[Top.child]
           n == [db.node[page] EXCEPT !.parent = Top.moved]
           e == WriteNode(db, page, n)
           next == IF Top.child = Len(Top.node.kids) THEN "up" ELSE "children"
           g == [Top EXCEPT !.child = @ + 1, !.pc = next]
<1>1. /\ frames # <<>> /\ Top.pc = "children" /\ Store(e) /\ SetTop(g)
  BY Zenon DEF UpdateChild, At
<1>2. /\ ~lost /\ db \in Db /\ frames \in Seq(Frame) /\ Len(frames) \in Nat \ {0}
      /\ Top \in Frame /\ CallSound(db, Top) /\ Top = frames[Len(frames)]
      /\ Top.node.leaf = (Len(frames) = 1)
      /\ LeafRootSplit(db, frames) \/ RootSplit(db, frames)
      /\ Top.sibling \in Pages(db) \ {Root} /\ CreatingRoot(db, Top)
      /\ Len(frames) = 2 => frames[1].page \in Pages(db) /\ frames[1].node \in Node
  BY <1>1, CreatingFacts
<1>3. /\ Top.page = Top.moved /\ Top.node.parent = Root /\ db.torn
      /\ db.node[Root] = Interior(NoPage, <<>>, <<Top.moved>>)
      /\ Top.moved \in Page \ {Root, Top.sibling}
      /\ Top.moved \in Pages(db) /\ SameTree(db.node[Top.moved], Top.node)
  BY <1>1, <1>2 DEF CreatingRoot
<1>4. /\ Top.child \in 1..Len(Top.node.kids) /\ page \in Pages(db) /\ ~Top.node.leaf
  BY <1>1, <1>2 DEF CallSound, KidsIn
<1>5. RootSplit(db, frames) /\ Len(frames) = 2
  BY <1>1, <1>2, PhaseOfCall, SiblingOfSplit
<1>6. page \in Page /\ page \in 0..(db.nb_pages - 1) /\ db.node[page] \in Node
  BY <1>2, <1>4, PagesAreNodes
<1>7. n \in Node /\ SameTree(n, db.node[page])
  BY <1>3, <1>6 DEF Node, Link, SameTree
<1> HIDE DEF n, page
<1>8. /\ e \in Db /\ e.rows = db.rows /\ e.next_id = db.next_id /\ e.torn = db.torn
      /\ Stores(db, e, page, n)
  BY <1>2, <1>6, <1>7, Writing DEF Stores
<1>20. next \in {"children", "up"}
  OBVIOUS
<1>21. Top.child + 1 \in Nat
  BY <1>2 DEF Frame
<1> HIDE DEF next
<1>9. /\ g \in Frame /\ g.pc \in {"children", "up"}
      /\ g.node = Top.node /\ g.key = Top.key /\ g.page = Top.page
      /\ g.sibling = Top.sibling /\ g.moved = Top.moved
  BY <1>2, <1>20, <1>21 DEF Frame
<1>10. ASSUME NEW m \in Node, WasInterior(db, Top, m), Ready(db, frames[1], m)
       PROVE  page # Root /\ Elder(m, page)
  <2>1. m.kids \in Seq(Page) /\ Len(m.kids) = ORDER + 1 /\ Top.node.kids = SubSeq(m.kids, 1, Half + 1)
    BY <1>10 DEF WasInterior, Node
  <2>2. /\ Len(Top.node.kids) = Half + 1
        /\ \A i \in 1..(Half + 1) : Top.node.kids[i] = m.kids[i]
    <3>1. /\ Len(Top.node.kids) = Half + 1 - 1 + 1
          /\ \A i \in 1..(Half + 1 - 1 + 1) : Top.node.kids[i] = m.kids[1 + i - 1]
      BY <2>1, HalfBounds, SubSeqEntries
    <3>2. Half + 1 - 1 + 1 = Half + 1 /\ \A i \in 1..(Half + 1) : 1 + i - 1 = i
      BY HalfBounds
    <3> QED
      BY <3>1, <3>2
  <2>3. page = m.kids[Top.child] /\ Top.child \in 1..(Half + 1)
    BY <1>4, <2>2 DEF page
  <2>4. Top.child \in 1..(Len(m.kids) - 1) /\ Top.child \in 1..Len(m.kids)
    BY <2>1, <2>3, HalfBounds
  <2>5. m.kids[Top.child] # Root
    BY <1>10, <2>4 DEF Ready, RootOK
  <2> QED
    BY <2>3, <2>4, <2>5 DEF Elder
<1>11. page # Root
  <2>1. PICK m \in Node : WasInterior(db, frames[2], m) /\ Ready(db, frames[1], m)
    BY <1>5 DEF RootSplit
  <2> QED
    BY <1>2, <1>5, <1>10, <2>1
<1> HIDE DEF e, g
<1>12. /\ Len(frames') = Len(frames) /\ frames'[Len(frames)] = g
       /\ \A i \in 1..(Len(frames) - 1) : frames'[i] = frames[i]
  BY <1>1, <1>2, <1>9, TopIsSet
<1>13. /\ Pages(db) \subseteq Pages(e) /\ e.node[Root] = db.node[Root]
       /\ \A p \in Pages(db) : SameTree(e.node[p], db.node[p])
  <2>1. \A p \in Pages(db) : p \in Page
    BY DEF Pages
  <2> QED
    BY <1>7, <1>8, <1>11, <2>1, RootIsPage DEF Stores, SameTree
<1>14. CreatingRoot(e, g)
  <2>1. SameTree(e.node[Top.moved], g.node) /\ Top.moved \in Pages(e)
    BY <1>3, <1>9, <1>13 DEF SameTree
  <2> QED
    BY <1>3, <1>8, <1>9, <1>13, <2>1 DEF CreatingRoot
<1>15. \A m \in Node : WasInterior(db, Top, m) /\ Ready(db, frames[1], m) => Kept(db, e, m)
  BY <1>7, <1>8, <1>10, StoreKeeps
<1>16. frames[1].page # g.moved
  BY <1>1, <1>2, <1>5, <1>9 DEF RootSplit
<1>17. RootSplit(e, frames')
  <2>1. /\ SameTree(g.node, Top.node) /\ g.key = Top.key /\ g.sibling = Top.sibling
        /\ SameTree(e.node[Top.sibling], db.node[Top.sibling])
        /\ frames[1].page \in Pages(db) \ {g.moved} /\ frames[1].node \in Node
    BY <1>2, <1>5, <1>9, <1>13, <1>16 DEF SameTree
  <2>2. /\ frames'[Len(frames)] = g /\ Top = frames[Len(frames)] /\ Len(frames') = Len(frames)
        /\ Len(frames) # 1
    BY <1>2, <1>5, <1>12
  <2>3. /\ \A i \in 1..(Len(frames) - 1) : frames'[i] = frames[i]
        /\ Len(frames') = Len(frames)
    BY <1>12
  <2>4. \A m \in Node : RootSplit(db, frames) /\ WasInterior(db, Top, m) /\ Ready(db, frames[1], m)
                           => Kept(db, e, m)
    BY <1>15
  <2> QED
    BY ONLY <1>2, <1>5, <1>8, <1>13, <1>14, <2>1, <2>2, <2>3, <2>4, CreatingStep, Zenon
<1>18. db' = e /\ file' = db
  BY <1>1 DEF Store
<1> QED
  BY <1>3, <1>8, <1>17, <1>18 DEF SearchInv, Phase

LEMMA SearchOfCreateRoot == ASSUME IInv, SearchInv, create_root PROVE SearchInv'
<1> DEFINE c == create_addr(db)
           w == WriteNode(c, Top.page, Over(NewPage))
           e == [w EXCEPT !.torn = TRUE]
           g == [Top EXCEPT !.pc = "move", !.moved = NewPage, !.node.parent = Top.page]
<1>1. /\ frames # <<>> /\ Top.pc = "root" /\ db.nb_pages < MaxPages
      /\ db' = e /\ file' = c /\ SetTop(g) /\ lost' = lost
  BY DEF create_root, At, StoreTwo, NewPage, Over
<1>2. /\ ~lost /\ db \in Db /\ frames \in Seq(Frame) /\ Len(frames) \in Nat \ {0}
      /\ Top \in Frame /\ CallSound(db, Top) /\ Top = frames[Len(frames)]
      /\ Top.node.leaf = (Len(frames) = 1) /\ Wellformed(db)
      /\ LeafRootSplit(db, frames) \/ RootSplit(db, frames)
      /\ Top.sibling \in Pages(db) \ {Root} /\ CreatingRoot(db, Top)
      /\ Len(frames) = 2 => frames[1].page \in Pages(db) /\ frames[1].node \in Node
      /\ ~db.torn => TreeOK(db)
  BY <1>1, CreatingFacts
<1>3. Top.page = Root /\ TreeOK(db)
  BY <1>1, <1>2 DEF CreatingRoot
<1>4. /\ c \in Db /\ c.nb_pages = db.nb_pages + 1 /\ c.rows = db.rows
      /\ c.node = db.node /\ c.next_id = db.next_id /\ c.torn = db.torn
      /\ Pages(c) = Pages(db) /\ NewPage \in Page /\ db.node[NewPage] = Blank
  BY <1>1, <1>2, Creating DEF NewPage, Wellformed
<1>5. NewPage \notin Pages(db)
  BY <1>4 DEF Pages, Written
<1>6. Root \in Pages(db) /\ Root \in Pages(c) /\ Root \in 0..(c.nb_pages - 1)
  BY <1>3, <1>4, PagesAreNodes DEF TreeOK, RootOK
<1>7. NewPage \in Page \ {Root, Top.sibling}
  BY <1>2, <1>4, <1>5, <1>6
<1>8. Over(NewPage) \in Node
  BY <1>7, OverOne
<1>9. TreeOK(c)
  <2>1. Kept(db, c, db.node[Root])
    BY <1>4 DEF Kept, SameTree
  <2> QED
    BY <1>3, <1>4, <2>1, TreeKept
<1> HIDE DEF c
<1>10. /\ w \in Db /\ w.next_id = db.next_id /\ w.rows = db.rows
       /\ w.node[Root] = Over(NewPage)
       /\ \A p \in Page \ {Root} : w.node[p] = db.node[p]
       /\ Pages(w) = Pages(db)
  <2> DEFINE r == Over(NewPage)
  <2>1. w = WriteNode(c, Root, r) /\ r \in Node
    BY <1>3, <1>8
  <2> HIDE DEF w, r
  <2>2. /\ w \in Db /\ w.next_id = c.next_id /\ w.rows = c.rows /\ w.node[Root] = r
        /\ \A p \in Page \ {Root} : w.node[p] = c.node[p]
        /\ Pages(w) = Pages(c) \union {Root}
    BY <1>4, <1>6, <2>1, Writing
  <2> QED
    BY <1>4, <1>6, <2>2 DEF r
<1> HIDE DEF w
<1>11. /\ e \in Db /\ e.node = w.node /\ e.nb_pages = w.nb_pages /\ e.next_id = db.next_id
       /\ e.rows = db.rows /\ e.torn = TRUE /\ Pages(e) = Pages(db)
  <2>1. /\ e \in Db /\ e.node = w.node /\ e.nb_pages = w.nb_pages /\ e.next_id = db.next_id
        /\ e.rows = db.rows /\ e.torn = TRUE
    BY <1>10 DEF Db
  <2>2. Pages(e) = Pages(w)
    BY <2>1, SameKept
  <2> QED
    BY <1>10, <2>1, <2>2
<1> HIDE DEF e
<1>12. /\ g \in Frame /\ g.pc = "move" /\ g.moved = NewPage /\ g.page = Root
       /\ g.key = Top.key /\ g.sibling = Top.sibling /\ SameTree(g.node, Top.node)
       /\ g.node.parent = Root
  BY <1>2, <1>3, <1>4, RootIsPage DEF Frame, Node, Link, SameTree
<1> HIDE DEF g
<1>13. /\ Len(frames') = Len(frames) /\ frames'[Len(frames)] = g
       /\ \A i \in 1..(Len(frames) - 1) : frames'[i] = frames[i]
  BY <1>1, <1>2, <1>12, TopIsSet
<1>14. CreatingRoot(e, g)
  BY <1>7, <1>10, <1>11, <1>12 DEF CreatingRoot, Over
<1>15. \A p \in Pages(db) \ {Root} : e.node[p] = db.node[p]
  BY <1>10, <1>11 DEF Pages
<1>16. SameTree(e.node[Top.sibling], db.node[Top.sibling]) /\ \A n : Kept(db, e, n)
  BY <1>2, <1>11, <1>15 DEF Kept, SameTree
<1>17. /\ Len(frames) = 2 => frames[1].page \in Pages(db) \ {g.moved} /\ frames[1].node \in Node
       /\ g.pc # "up" /\ Pages(db) \subseteq Pages(e)
  BY <1>2, <1>5, <1>11, <1>12
<1>18. LeafRootSplit(e, frames') \/ RootSplit(e, frames')
  BY ONLY <1>2, <1>11, <1>12, <1>13, <1>14, <1>16, <1>17, CreatingStep
<1> QED
  BY <1>1, <1>9, <1>11, <1>18 DEF SearchInv, Phase

\* The three nodes whose new half goes into the root
LEMMA LeafHalfRises ==
  ASSUME IInv, SearchInv, frames # <<>>, Top.pc = "up", LeafSplit(db, frames),
         NEW m, m = WithChild(db.node[Root], Top.key, Top.sibling)
  PROVE  Len(frames) = 1 /\ ~db.torn /\ Ready(db, Top, m) /\ Complete(db, Top, m)
<1> DEFINE r == db.node[Root]
           all == AllRows(db)
           page == Top.page
           x == Pending(db, Top)
<1>1. /\ Wellformed(db) /\ db \in Db /\ Top \in Frame /\ CallSound(db, Top)
      /\ Top = frames[Len(frames)] /\ Top.node.leaf = (Len(frames) = 1)
      /\ (~db.torn => TreeOK(db))
  BY InProgressFacts
<1>2. /\ Len(frames) = 1 /\ Top = frames[1] /\ Top.node.leaf /\ Top.node \in Node
  BY <1>1 DEF LeafSplit, Frame
<1>3. /\ ~db.torn /\ page # Root /\ Top.sibling # page
      /\ Top.node.parent = Root /\ db.node[Top.sibling].parent = Root
      /\ \A i \in 1..Len(r.kids) : r.kids[i] # Top.sibling
  BY <1>2 DEF LeafSplit
<1>4. PICK n \in Node : /\ WasLeaf(db, Top, n)
                        /\ RootOK(WriteNode(db, page, n), r, all, all)
                        /\ LastLeaf(WriteNode(db, page, n), r, page)
  BY <1>2 DEF LeafSplit
<1> DEFINE e == WriteNode(db, page, n)
<1>5. RootOK(db, r, db.rows, all) /\ db.rows \subseteq all
  BY <1>1, <1>3 DEF TreeOK, AllRows
<1>6. Root \in Interiors(db) /\ page \in Leaves(db) /\ page \in Pages(db)
  BY <1>1, <1>2, <1>3 DEF CallSound, Root, NoPage, Leaves
<1>7. /\ r \in Node /\ r.leaf = FALSE /\ Len(r.kids) = Len(r.keys) + 1
  <2>1. Root \in Pages(db) /\ ~r.leaf
    BY <1>6 DEF Interiors
  <2> QED
    BY <1>1, <2>1, PageShapes
<1>8. Stores(db, e, page, n) /\ Stores(db, x, page, Top.node)
  BY <1>1, <1>2, <1>4, <1>6, WritingStores DEF Pending
<1>9. RootOK(db, m, db.rows, all) /\ RootOK(x, m, all, all)
  <2> HIDE DEF r, all, page, x, e
  <2>1. /\ RootOK(db, WithChild(r, Top.key, Top.sibling), db.rows, all)
        /\ RootOK(x, WithChild(r, Top.key, Top.sibling), all, all)
    <3>1. RootOK(e, r, all, all) /\ LastLeaf(e, r, page)
      BY <1>4 DEF e
    <3> QED
      BY <1>1, <1>2, <1>3, <1>4, <1>5, <1>6, <1>7, <1>8, <3>1, HalfAdded DEF page
  <2> QED
    BY <2>1 DEF r
<1> QED
  BY <1>2, <1>3, <1>9 DEF Ready, Complete

LEMMA LeafRootHalfRises ==
  ASSUME IInv, SearchInv, frames # <<>>, Top.pc = "up", LeafRootSplit(db, frames),
         NEW m, m = WithChild(db.node[Root], Top.key, Top.sibling)
  PROVE  Len(frames) = 1 /\ Len(m.keys) = 1 /\ Ready(db, Top, m) /\ Complete(db, Top, m)
<1> DEFINE all == AllRows(db)
           x == Pending(db, Top)
<1>1. /\ Wellformed(db) /\ db \in Db /\ Top \in Frame /\ CallSound(db, Top)
      /\ Top = frames[Len(frames)] /\ Top.node.leaf = (Len(frames) = 1)
  BY InProgressFacts
<1>2. /\ Len(frames) = 1 /\ Top = frames[1] /\ Top.node.leaf /\ Top.node \in Node
      /\ Top.key \in Key
  BY <1>1 DEF LeafRootSplit, Frame
<1>3. /\ CreatingRoot(db, Top) /\ db.node[Top.sibling].parent = Root
      /\ Top.sibling \in Pages(db) \ {Root}
  BY <1>2, SiblingOfSplit DEF LeafRootSplit
<1>4. PICK n \in Node : WasLeaf(db, Top, n) /\ Ascending(n.keys) /\ ToSet(n.keys) = all
  BY <1>2 DEF LeafRootSplit
<1>5. /\ db.node[Root] = Over(Top.moved) /\ Top.node.parent = Root /\ Top.page = Top.moved
      /\ Top.moved \in Page \ {Root, Top.sibling} /\ Top.moved \in Pages(db)
      /\ SameTree(db.node[Top.moved], Top.node)
  BY <1>1, <1>3 DEF CreatingRoot, Over
<1>6. /\ Root \in Pages(db) /\ Top.moved \in Leaves(db) /\ Top.sibling \in Page
      /\ db.rows \subseteq all
  <2>1. Root \in Pages(db)
    BY <1>1, <1>5 DEF CallSound, Interiors, Root, NoPage
  <2> QED
    BY <1>2, <1>3, <1>5, <2>1 DEF Leaves, SameTree, Pages, AllRows
<1>7. m = WithChild(Over(Top.moved), Top.key, Top.sibling)
  BY <1>5
<1>8. RootOK(db, m, db.rows, all) /\ RootOK(db, m, all, all)
  <2> HIDE DEF all
  <2>1. all \subseteq all
    OBVIOUS
  <2> QED
    BY <1>3, <1>4, <1>5, <1>6, <1>7, <2>1, LeafRootHalved
<1>9. /\ Over(Top.moved) \in Node /\ Len(Over(Top.moved).keys) = 0
      /\ Len(Over(Top.moved).kids) = 1 /\ Over(Top.moved).kids[1] = Top.moved
      /\ Over(Top.moved).leaf = FALSE
      /\ \A i \in 1..Len(Over(Top.moved).keys) : Over(Top.moved).keys[i] < Top.key
  <2>1. /\ Over(Top.moved) \in Node /\ Over(Top.moved).keys = <<>>
        /\ Len(Over(Top.moved).kids) = 1 /\ Over(Top.moved).kids[1] = Top.moved
        /\ Over(Top.moved).leaf = FALSE
    BY <1>5, OverOne
  <2>2. Len(Over(Top.moved).keys) = 0 /\ 1..Len(Over(Top.moved).keys) = {}
    BY <2>1
  <2> QED
    BY <2>1, <2>2
<1>10. Len(m.keys) = 1 /\ Elder(m, Top.moved)
  <2> DEFINE o == Over(Top.moved)
  <2>4. /\ o \in Node /\ Len(o.keys) = 0 /\ Len(o.kids) = 1 /\ o.kids[1] = Top.moved
        /\ \A i \in 1..Len(o.keys) : o.keys[i] < Top.key
        /\ m = WithChild(o, Top.key, Top.sibling)
    BY <1>7, <1>9
  <2> HIDE DEF o
  <2>5. Len(o.kids) = Len(o.keys) + 1
    BY <2>4
  <2>1. Extended(o.keys, m.keys, Top.key) /\ Extended(o.kids, m.kids, Top.sibling)
    BY ZenonT(60), <1>2, <1>6, <2>4, <2>5, WithChildLast
  <2>2. Len(m.keys) = 1 /\ Len(m.kids) = 2 /\ m.kids[1] = Top.moved
    BY <2>1, <2>4 DEF Extended
  <2>3. 1 \in 1..(Len(m.kids) - 1)
    BY <2>2
  <2> QED
    BY <2>2, <2>3 DEF Elder
<1>11. Kept(db, x, m)
  <2>1. Stores(db, x, Top.moved, Top.node)
    BY <1>1, <1>2, <1>5, WritingStores DEF Pending
  <2>2. SameTree(Top.node, db.node[Top.moved])
    BY <1>5 DEF SameTree
  <2> QED
    BY <1>10, <2>1, <2>2, StoreKeeps
<1>12. RootOK(x, m, all, all)
  BY <1>8, <1>11, RootOKKept
<1> QED
  BY <1>2, <1>5, <1>8, <1>10, <1>12 DEF Ready, Complete

LEMMA RootHalfRises ==
  ASSUME IInv, SearchInv, frames # <<>>, Top.pc = "up", RootSplit(db, frames),
         NEW m, m = WithChild(db.node[Root], Top.key, Top.sibling)
  PROVE  /\ Len(frames) = 2 /\ Len(m.keys) = 1
         /\ Ready(db, frames[1], m) /\ Complete(db, frames[1], m)
         /\ Top.page \notin {Root, frames[1].page} /\ SameTree(db.node[Top.page], Top.node)
<1> DEFINE all == AllRows(db)
           f == frames[1]
           x == Pending(db, f)
<1>1. /\ Wellformed(db) /\ db \in Db /\ Top \in Frame /\ CallSound(db, Top)
      /\ Top = frames[Len(frames)] /\ Top.node.leaf = (Len(frames) = 1)
      /\ \A i \in 1..Len(frames) : /\ frames[i] \in Frame /\ CallSound(db, frames[i])
                                   /\ (i < Len(frames) => frames[i].pc = "write")
  BY InProgressFacts
<1>2. /\ Len(frames) = 2 /\ Top = frames[2] /\ ~Top.node.leaf /\ Top.node \in Node
      /\ Top.key \in Key
  <2>1. Len(frames) = 2 /\ Top = frames[2] /\ Top.node \in Node /\ Top.key \in Key
    BY <1>1 DEF RootSplit, Frame
  <2>2. Len(frames) # 1
    BY <2>1
  <2> QED
    BY <1>1, <2>1, <2>2, Zenon
<1>3. f.page \in Pages(db) /\ f.node \in Node
  BY <1>1, <1>2 DEF CallSound, Frame
<1>4. /\ CreatingRoot(db, Top) /\ Top.sibling \in Pages(db) \ {Root}
      /\ f.page \notin {Root, Top.sibling, Top.moved}
  BY <1>2, SiblingOfSplit DEF RootSplit
<1>5. PICK n \in Node : WasInterior(db, Top, n) /\ Ready(db, f, n) /\ Complete(db, f, n)
  BY <1>2 DEF RootSplit
<1>6. /\ db.node[Root] = Over(Top.moved) /\ Top.node.parent = Root /\ Top.page = Top.moved
      /\ Top.moved \in Page \ {Root, Top.sibling} /\ Top.moved \in Pages(db)
      /\ SameTree(db.node[Top.moved], Top.node)
  BY <1>1, <1>4 DEF CreatingRoot, Over
<1>7. /\ Top.moved \in Below(db) /\ db.node[Top.moved] \in Node /\ Top.sibling \in Page
      /\ db.node[Top.sibling] \in Node /\ \A q \in Leaves(db) : db.node[q] \in Node
  BY <1>1, <1>2, <1>4, <1>6, PagesAreNodes DEF Below, Interiors, Leaves, SameTree
<1>8. m = WithChild(Over(Top.moved), Top.key, Top.sibling)
  BY <1>6
<1>9. RootOK(db, m, db.rows, all)
  <2>1. RootOK(db, n, db.rows, all)
    BY <1>5 DEF Ready
  <2> HIDE DEF all
  <2> QED
    BY <1>5, <1>6, <1>7, <1>8, <2>1, RootHalved
<1>10. /\ x \in Db /\ Pages(x) = Pages(db)
       /\ \A p \in Page \ {f.page} : x.node[p] = db.node[p]
       /\ x.node[f.page] = f.node
  <2>1. x \in Db /\ Stores(db, x, f.page, f.node)
    BY <1>1, <1>3, PagesAreNodes, WritingStores, Writing DEF Pending
  <2> QED
    BY <1>3, <2>1 DEF Stores
<1>11. /\ x.node[Top.moved] = db.node[Top.moved] /\ x.node[Top.sibling] = db.node[Top.sibling]
  BY <1>4, <1>6, <1>7, <1>10
<1>12. RootOK(x, m, all, all)
  <2>1. RootOK(x, n, all, all)
    BY <1>5 DEF Complete
  <2>2. WasInterior(x, Top, n)
    BY <1>5, <1>10, <1>11 DEF WasInterior, Interiors
  <2>3. /\ Top.moved \in Below(x) /\ x.node[Top.moved] \in Node /\ x.node[Top.sibling] \in Node
        /\ SameTree(x.node[Top.moved], Top.node)
    BY <1>6, <1>7, <1>10, <1>11 DEF Below, Interiors
  <2>4. \A q \in Leaves(x) : x.node[q] \in Node
    BY <1>10, PagesAreNodes DEF Leaves
  <2> HIDE DEF all, x
  <2> QED
    BY <1>6, <1>7, <1>8, <2>1, <2>2, <2>3, <2>4, RootHalved
<1>13. Len(m.keys) = 1
  <2> DEFINE o == Over(Top.moved)
  <2>1. /\ o \in Node /\ o.keys = <<>> /\ Len(o.kids) = Len(o.keys) + 1
        /\ m = WithChild(o, Top.key, Top.sibling)
    BY <1>6, <1>8, OverOne
  <2> HIDE DEF o
  <2>2. Len(m.keys) = Len(o.keys) + 1
    <3>1. Top.key \in Key /\ Top.sibling \in Page
      BY <1>2, <1>7
    <3>2. Len(WithChild(o, Top.key, Top.sibling).keys) = Len(o.keys) + 1
      BY ONLY <2>1, <3>1, WithChildNode
    <3> QED
      BY ONLY <2>1, <3>2
  <2> QED
    BY <2>1, <2>2
<1> QED
  BY <1>2, <1>4, <1>5, <1>6, <1>9, <1>12, <1>13 DEF Ready, Complete

LEMMA SameCall ==
  ASSUME NEW d, NEW f, NEW g, g.page = f.page, g.node = f.node, NEW n
  PROVE  Ready(d, f, n) = Ready(d, g, n) /\ Complete(d, f, n) = Complete(d, g, n)
  BY DEF Ready, Complete, Pending

\* A call of insert_internal waits for the one it makes.
LEMMA CallIsMade ==
  ASSUME frames \in Seq(Frame), frames # <<>>, NEW f \in Frame,
         frames' = Append([frames EXCEPT ![Len(frames)].pc = "write"], f)
  PROVE  /\ Len(frames') = Len(frames) + 1 /\ frames'[Len(frames) + 1] = f
         /\ \A i \in 1..Len(frames) : /\ frames'[i].page = frames[i].page
                                      /\ frames'[i].node = frames[i].node
<1> DEFINE m == Len(frames)
           g == [frames[m] EXCEPT !.pc = "write"]
           waiting == [frames EXCEPT ![m].pc = "write"]
<1>1. m \in Nat \ {0} /\ m = Len(frames) /\ frames[m] \in Frame
  BY EmptySeq
<1>2. waiting = [frames EXCEPT ![m] = g]
  OBVIOUS
<1>3. g \in Frame /\ g.page = frames[m].page /\ g.node = frames[m].node
  BY <1>1 DEF Frame
<1> HIDE DEF g, m
<1>4. /\ waiting \in Seq(Frame) /\ Len(waiting) = m /\ waiting[m] = g
      /\ \A i \in 1..(m - 1) : waiting[i] = frames[i]
  BY <1>1, <1>2, <1>3, ExceptSeq
<1>5. frames' = Append(waiting, f)
  BY <1>1
<1> HIDE DEF waiting
<1>6. /\ Len(frames') = m + 1 /\ frames'[m + 1] = f
      /\ \A i \in 1..m : frames'[i] = waiting[i]
  <2>1. waiting \in Seq(Frame) /\ f \in Frame /\ Len(waiting) = m /\ m \in Nat
    BY <1>1, <1>4
  <2> QED
    BY ONLY <1>5, <2>1, AppendProperties
<1>7. ASSUME NEW i \in 1..m
      PROVE  frames'[i].page = frames[i].page /\ frames'[i].node = frames[i].node
  <2>1. CASE i = m
    BY <1>3, <1>4, <1>6, <2>1
  <2>2. CASE i # m
    <3>1. i \in 1..(m - 1)
      BY <1>1, <2>2
    <3> QED
      BY <1>4, <1>6, <3>1
  <2> QED
    BY <2>1, <2>2
<1> QED
  BY <1>1, <1>6, <1>7

LEMMA SearchOfInsertInternal == ASSUME IInv, SearchInv, insert_internal PROVE SearchInv'
<1> DEFINE parent == Top.node.parent
           m == WithChild(db.node[parent], Top.key, Top.sibling)
           f == Call(parent, m)
<1>1. /\ frames # <<>> /\ Top.pc = "up"
      /\ frames' = Append([frames EXCEPT ![Len(frames)].pc = "write"], f)
      /\ UNCHANGED <<db, file, lost>>
  BY Zenon DEF insert_internal, At
<1>2. /\ ~lost /\ db \in Db /\ frames \in Seq(Frame) /\ Len(frames) \in Nat \ {0}
      /\ Top \in Frame /\ CallSound(db, Top) /\ Top = frames[Len(frames)]
      /\ \A d \in {db, file} : ~d.torn => TreeOK(d)
  BY <1>1, InProgressFacts
<1>3. LeafSplit(db, frames) \/ LeafRootSplit(db, frames) \/ RootSplit(db, frames)
  BY <1>1, PhaseOfCall
<1>4. parent = Root
  <2>1. LeafSplit(db, frames) => parent = Root
    BY <1>2 DEF LeafSplit
  <2>2. LeafRootSplit(db, frames) \/ RootSplit(db, frames) => CreatingRoot(db, Top)
    BY <1>2, SiblingOfSplit
  <2>3. CreatingRoot(db, Top) => parent = Root
    BY <1>1 DEF CreatingRoot
  <2> QED
    BY <1>3, <2>1, <2>2, <2>3
<1>5. m = WithChild(db.node[Root], Top.key, Top.sibling) /\ f = Call(Root, m)
  BY <1>4
<1>6. frames'[Len(frames')] \in Frame
  <2>1. IInv'
    BY InsertInternalStep
  <2>2. frames' \in Seq(Frame) /\ frames' # <<>>
    BY <1>1, <2>1 DEF IInv, Shapes
  <2>3. frames'[Len(frames')] \in Frame
    BY <2>2
  <2> QED
    BY <2>3
<1> HIDE DEF f, m, parent
<1>7. f \in Frame
  <2>1. Append([frames EXCEPT ![Len(frames)].pc = "write"], f)[Len(frames')] = f
    BY <1>1, <1>2
  <2> QED
    BY <1>1, <1>6, <2>1
<1>8. /\ Len(frames') = Len(frames) + 1 /\ frames'[Len(frames) + 1] = f
      /\ \A i \in 1..Len(frames) : /\ frames'[i].page = frames[i].page
                                   /\ frames'[i].node = frames[i].node
  BY <1>1, <1>2, <1>7, CallIsMade
<1>9. /\ f.page = Root /\ f.node = m
      /\ f.pc = IF Len(m.keys) >= ORDER THEN "split" ELSE "write"
  BY <1>5 DEF Call
<1>10. Len(m.keys) = 1 => f.pc = "write"
  BY <1>9, TableTreeAssumption
<1>11. ASSUME LeafSplit(db, frames) PROVE AddingChild(db, frames')
  <2>1. Len(frames) = 1 /\ ~db.torn /\ Ready(db, Top, m) /\ Complete(db, Top, m)
    BY <1>1, <1>5, <1>11, LeafHalfRises
  <2>2. Ready(db, frames'[1], m) /\ Complete(db, frames'[1], m)
    BY <1>2, <1>8, <2>1, SameCall
  <2> QED
    BY <1>8, <1>9, <2>1, <2>2 DEF AddingChild
<1>12. ASSUME LeafRootSplit(db, frames) PROVE AddingChild(db, frames')
  <2>1. Len(frames) = 1 /\ Len(m.keys) = 1 /\ Ready(db, Top, m) /\ Complete(db, Top, m)
    BY <1>1, <1>5, <1>12, LeafRootHalfRises
  <2>2. Ready(db, frames'[1], m) /\ Complete(db, frames'[1], m)
    BY <1>2, <1>8, <2>1, SameCall
  <2> QED
    BY <1>8, <1>9, <1>10, <2>1, <2>2 DEF AddingChild
<1>13. ASSUME RootSplit(db, frames) PROVE AddingHalf(db, frames')
  <2>1. /\ Len(frames) = 2 /\ Len(m.keys) = 1
        /\ Ready(db, frames[1], m) /\ Complete(db, frames[1], m)
        /\ Top.page \notin {Root, frames[1].page} /\ SameTree(db.node[Top.page], Top.node)
    BY <1>1, <1>5, <1>13, RootHalfRises
  <2>2. Ready(db, frames'[1], m) /\ Complete(db, frames'[1], m)
    BY <1>8, <2>1, SameCall
  <2>3. /\ frames'[1].page = frames[1].page /\ frames'[2].page = Top.page
        /\ frames'[2].node = Top.node /\ frames'[3] = f /\ Len(frames') = 3
    BY <1>2, <1>8, <2>1
  <2> QED
    BY <1>9, <1>10, <2>1, <2>2, <2>3 DEF AddingHalf
<1>14. AddingChild(db, frames') \/ AddingHalf(db, frames')
  BY <1>3, <1>11, <1>12, <1>13
<1> QED
  BY <1>1, <1>2, <1>14 DEF SearchInv, Phase

\* A node of a file without a torn tree is split: what its tree holds stays.
LEMMA SplitStores ==
  ASSUME IInv, SearchInv, At("split"), ~db.torn, NEW left \in Node, NEW right \in Node,
         Split(left, right)
  PROVE  LET g == frames'[Len(frames)] IN
         /\ db' \in Db /\ db'.rows = db.rows /\ db'.next_id = db.next_id
         /\ db'.torn = db.torn /\ TreeOK(db') /\ TreeOK(file')
         /\ \A n : Kept(db, db', n)
         /\ NewPage \in Page \ {Root} /\ NewPage \notin Pages(db)
         /\ Pages(db') = Pages(db) \union {NewPage} /\ db'.node[NewPage] = right
         /\ \A p \in Pages(db) : db'.node[p] = db.node[p]
         /\ Len(frames') = Len(frames)
         /\ \A i \in 1..(Len(frames) - 1) : frames'[i] = frames[i]
         /\ g.page = Top.page /\ g.node = left /\ g.key = Top.node.keys[Half + 1]
         /\ g.sibling = NewPage
         /\ g.pc = (IF left.parent = NoPage THEN "root" ELSE "up")
<1> DEFINE c == create_addr(db)
           e == WriteNode(c, NewPage, right)
           f == Halved(left)
<1>1. /\ frames # <<>> /\ Top.pc = "split"
      /\ db.nb_pages < MaxPages /\ db' = e /\ file' = c /\ SetTop(f)
  BY DEF At, Split, StoreTwo, NewPage
<1>2. /\ db \in Db /\ frames \in Seq(Frame) /\ Len(frames) \in Nat \ {0}
      /\ Top \in Frame /\ CallSound(db, Top) /\ Wellformed(db) /\ TreeOK(db)
  BY <1>1, InProgressFacts
<1>3. /\ c \in Db /\ c.nb_pages = db.nb_pages + 1 /\ c.rows = db.rows
      /\ c.node = db.node /\ c.next_id = db.next_id /\ c.torn = db.torn
      /\ Pages(c) = Pages(db) /\ NewPage \in Page /\ db.node[NewPage] = Blank
  BY <1>1, <1>2, Creating DEF NewPage, Wellformed
<1>4. NewPage \notin Pages(db) /\ NewPage \in 0..(c.nb_pages - 1) /\ NewPage # Root
  <2>1. NewPage \notin Pages(db)
    BY <1>3 DEF Pages, Written
  <2>2. Root \in Pages(db)
    BY <1>2 DEF TreeOK, RootOK
  <2>3. NewPage \in 0..(c.nb_pages - 1)
    BY <1>2, <1>3 DEF NewPage, Db
  <2> QED
    BY <2>1, <2>2, <2>3
<1> HIDE DEF c
<1>5. /\ e \in Db /\ e.next_id = db.next_id /\ e.torn = db.torn /\ e.rows = db.rows
      /\ e.node[NewPage] = right /\ \A p \in Page \ {NewPage} : e.node[p] = db.node[p]
      /\ Pages(e) = Pages(db) \union {NewPage}
  BY <1>3, <1>4, Writing
<1> HIDE DEF e
<1>6. \A p \in Pages(db) : e.node[p] = db.node[p]
  BY <1>4, <1>5 DEF Pages
<1>7. \A n : Kept(db, e, n) /\ Kept(db, c, n)
  BY <1>3, <1>5, <1>6 DEF Kept, SameTree
<1>8. TreeOK(e) /\ TreeOK(c)
  <2>1. e.node[Root] = db.node[Root] /\ c.node[Root] = db.node[Root]
    BY <1>3, <1>4, <1>5, RootIsPage
  <2> QED
    BY <1>2, <1>3, <1>5, <1>7, <2>1, TreeKept
<1>9. /\ f \in Frame /\ f.page = Top.page /\ f.node = left /\ f.key = Top.node.keys[Half + 1]
      /\ f.sibling = NewPage /\ f.pc = (IF left.parent = NoPage THEN "root" ELSE "up")
  <2>1. Top.node.keys[Half + 1] \in Key
    BY <1>1, <1>2, HalfBounds DEF Frame, Node, CallSound
  <2>2. NewPage \in Link
    BY <1>3 DEF Link
  <2> QED
    BY <1>2, <2>1, <2>2 DEF Halved, Frame
<1> HIDE DEF f
<1>10. /\ Len(frames') = Len(frames) /\ frames'[Len(frames)] = f
       /\ \A i \in 1..(Len(frames) - 1) : frames'[i] = frames[i]
  BY <1>1, <1>2, <1>9, TopIsSet
<1> QED
  BY <1>1, <1>3, <1>4, <1>5, <1>6, <1>7, <1>8, <1>9, <1>10

LEMMA SearchOfSplitInternal == ASSUME IInv, SearchInv, split_internal_node PROVE SearchInv'
<1> DEFINE n == Top.node
           left == LeftInternal(n)
           right == RightInternal(n)
           g == frames'[2]
<1>1. At("split") /\ frames # <<>> /\ Top.pc = "split" /\ ~n.leaf /\ Split(left, right) /\ lost' = lost
  BY DEF split_internal_node, At, Split, StoreTwo
<1>2. /\ ~lost /\ db \in Db /\ Top \in Frame /\ CallSound(db, Top) /\ Top = frames[Len(frames)]
      /\ n.leaf = (Len(frames) = 1)
      /\ \A i \in 1..Len(frames) : /\ frames[i] \in Frame /\ CallSound(db, frames[i])
                                   /\ (i < Len(frames) => frames[i].pc = "write")
  BY <1>1, InProgressFacts
<1>3. AddingChild(db, frames) /\ Len(frames) = 2 /\ Top = frames[2] /\ Top.page = Root /\ ~db.torn
  <2>1. ~AddingRow(db, frames)
    BY <1>1, <1>2 DEF AddingRow
  <2> QED
    BY <1>1, <1>2, <2>1, PhaseOfCall DEF AddingChild
<1>4. Ready(db, frames[1], n) /\ Complete(db, frames[1], n)
  BY <1>3 DEF AddingChild
<1>5. /\ n \in Node /\ Len(n.keys) = ORDER /\ Len(n.kids) = ORDER + 1 /\ n.parent = NoPage
      /\ frames[1].page \in Pages(db) \ {Root} /\ frames[1].node \in Node
  <2>1. n \in Node /\ Len(n.keys) = ORDER /\ Len(n.kids) = ORDER + 1
    BY <1>1, <1>2 DEF Frame, CallSound, NodeOK
  <2>2. frames[1].page \in Pages(db) /\ frames[1].node \in Node
    BY <1>2, <1>3 DEF CallSound, Frame
  <2> QED
    BY <1>4, <2>1, <2>2 DEF Ready, RootOK, Complete
<1>6. left \in Node /\ right \in Node
  BY <1>1, <1>5, HalvesOfInterior DEF HalfOf
<1>7. /\ left.leaf = FALSE /\ left.parent = NoPage /\ left.keys = SubSeq(n.keys, 1, Half)
      /\ left.kids = SubSeq(n.kids, 1, Half + 1)
      /\ right.leaf = FALSE /\ right.keys = SubSeq(n.keys, Half + 2, ORDER)
      /\ right.kids = SubSeq(n.kids, Half + 2, ORDER + 1)
  BY <1>5 DEF LeftInternal, RightInternal, Interior
<1> HIDE DEF left, right
<1>8. /\ db' \in Db /\ db'.rows = db.rows /\ db'.next_id = db.next_id
      /\ db'.torn = db.torn /\ TreeOK(db') /\ TreeOK(file')
      /\ \A m : Kept(db, db', m)
      /\ NewPage \in Page \ {Root} /\ NewPage \notin Pages(db)
      /\ Pages(db') = Pages(db) \union {NewPage} /\ db'.node[NewPage] = right
      /\ Len(frames') = 2 /\ frames'[1] = frames[1]
      /\ g.page = Root /\ g.node = left /\ g.key = n.keys[Half + 1]
      /\ g.sibling = NewPage /\ g.pc = "root"
  <2>1. 1 \in 1..(2 - 1)
    OBVIOUS
  <2> QED
    BY <1>1, <1>3, <1>6, <1>7, <2>1, SplitStores
<1> HIDE DEF g
<1>9. WasInterior(db', g, n)
  <2>1. NewPage \in Interiors(db') \ {Root}
    BY <1>7, <1>8 DEF Interiors
  <2> QED
    BY <1>1, <1>5, <1>7, <1>8, <2>1 DEF WasInterior
<1>10. Ready(db', frames[1], n) /\ Complete(db', frames[1], n)
  BY <1>2, <1>4, <1>5, <1>8, ReadyKept
<1>11. CreatingRoot(db', g)
  BY <1>3, <1>7, <1>8 DEF CreatingRoot
<1>12. RootSplit(db', frames')
  BY <1>5, <1>8, <1>9, <1>10, <1>11 DEF RootSplit, g
<1> QED
  BY <1>1, <1>2, <1>8, <1>12 DEF SearchInv, Phase

\* The leaf that an insert has filled: the last one, or the root.
LEMMA FullLeaf ==
  ASSUME IInv, SearchInv, At("split"), Top.node.leaf
  PROVE  /\ Len(frames) = 1 /\ Top = frames[1] /\ AddingRow(db, frames) /\ ~db.torn /\ TreeOK(db)
         /\ db \in Db /\ Wellformed(db) /\ ~lost /\ db.next_id >= 1
         /\ Top.node \in Node /\ Top.node.kids = <<>> /\ Len(Top.node.keys) = ORDER
         /\ Top.page \in Leaves(db) /\ Top.page \in Pages(db) /\ Root \in Pages(db)
         /\ Children(db, {})
<1>1. /\ ~lost /\ db \in Db /\ Top \in Frame /\ CallSound(db, Top) /\ Top = frames[Len(frames)]
      /\ Top.node.leaf = (Len(frames) = 1) /\ Wellformed(db) /\ Children(db, MissingOf(Top))
      /\ \A d \in {db, file} : ~d.torn => TreeOK(d)
  BY InProgressFacts DEF At
<1>2. Top.pc = "split" /\ Len(frames) = 1 /\ Top = frames[1]
  BY <1>1 DEF At
<1>3. AddingRow(db, frames) /\ ~db.torn
  <2>1. AddingRow(db, frames) \/ AddingChild(db, frames)
    BY <1>2, PhaseOfCall DEF At
  <2>2. Len(frames) # 2
    BY <1>2
  <2>3. ~AddingChild(db, frames)
    BY <2>2 DEF AddingChild
  <2> QED
    BY <2>1, <2>3 DEF AddingRow
<1>4. /\ Top.node \in Node /\ Len(Top.node.keys) = ORDER /\ Len(Top.node.kids) = 0
      /\ Top.page \in Pages(db) /\ db.node[Top.page].leaf /\ Top.key \in Key /\ Top.key < db.next_id
  BY <1>1, <1>2 DEF Frame, CallSound, NodeOK
<1>5. Top.node.kids = <<>> /\ Top.page \in Leaves(db) /\ db.next_id >= 1
  BY <1>1, <1>4 DEF Node, Leaves, Key, Db
<1>6. Children(db, {}) /\ TreeOK(db) /\ Root \in Pages(db)
  BY <1>1, <1>2, <1>3 DEF MissingOf, TreeOK, RootOK
<1> QED
  BY <1>1, <1>2, <1>3, <1>4, <1>5, <1>6

LEMMA RowsAreKeys ==
  ASSUME NEW d \in Db, d.next_id >= 1, NEW n \in Node, n.leaf,
         \A k \in Key : Holds(d, n, k, AllRows(d), AllRows(d))
  PROVE  ToSet(n.keys) = AllRows(d)
<1>1. AllRows(d) \subseteq Key
  BY DEF AllRows, NewRow, Db, Key
<1>2. \A k \in ToSet(n.keys) : k \in Key
  <2>1. n.keys \in Seq(Key)
    BY DEF Node
  <2>2. ASSUME NEW k \in ToSet(n.keys) PROVE k \in Key
    <3>1. PICK i \in 1..Len(n.keys) : n.keys[i] = k
      BY <2>1, InSet
    <3> QED
      BY <2>1, <3>1
  <2> QED
    BY <2>2
<1>3. \A k \in Key : k \in AllRows(d) <=> k \in ToSet(n.keys)
  BY DEF Holds, Answers
<1> QED
  BY <1>1, <1>2, <1>3

LEMMA SearchOfSplitLeaf == ASSUME IInv, SearchInv, split_leaf_node PROVE SearchInv'
<1> DEFINE n == Top.node
           left == LeftLeaf(n, NewPage)
           right == RightLeaf(n)
           g == frames'[1]
           r == db.node[Root]
           all == AllRows(db)
           page == Top.page
           x == Pending(db, Top)
           y == WriteNode(db', page, n)
<1>1. At("split") /\ n.leaf /\ Split(left, right) /\ lost' = lost /\ db.nb_pages < MaxPages
  BY DEF split_leaf_node, Split, StoreTwo, NewPage
<1>2. /\ Len(frames) = 1 /\ Top = frames[1] /\ AddingRow(db, frames) /\ ~db.torn /\ TreeOK(db)
      /\ db \in Db /\ Wellformed(db) /\ ~lost /\ db.next_id >= 1
      /\ n \in Node /\ n.kids = <<>> /\ Len(n.keys) = ORDER
      /\ page \in Leaves(db) /\ page \in Pages(db) /\ Root \in Pages(db)
      /\ Children(db, {})
  BY <1>1, FullLeaf
<1>3. /\ RootOK(x, x.node[Root], all, all)
      /\ page # Root => LastLeaf(x, x.node[Root], page)
  BY <1>1, <1>2 DEF AddingRow, At
<1>4. /\ x \in Db /\ Stores(db, x, page, n) /\ Pages(x) = Pages(db)
      /\ x.next_id = db.next_id /\ x.rows = db.rows
  <2>1. page \in 0..(db.nb_pages - 1) /\ x = WriteNode(db, page, n)
    BY <1>2, PagesAreNodes DEF Pending
  <2> HIDE DEF x, n, page
  <2>2. /\ x \in Db /\ Pages(x) = Pages(db) \union {page}
        /\ x.next_id = db.next_id /\ x.rows = db.rows /\ Stores(db, x, page, n)
    BY <1>2, <2>1, Writing DEF Stores
  <2> QED
    BY <1>2, <2>2
<1>5. left \in Node /\ right \in Node
  BY <1>1, <1>2, Creating, HalvesOfLeaf DEF HalfOf, Wellformed, NewPage
<1>6. /\ left.leaf = TRUE /\ left.parent = n.parent /\ left.keys = SubSeq(n.keys, 1, Half)
      /\ right.leaf = TRUE /\ right.parent = n.parent /\ right.keys = SubSeq(n.keys, Half + 1, ORDER)
      /\ left.kids = <<>>
  BY DEF LeftLeaf, RightLeaf, Leaf
<1> HIDE DEF left, right, x
<1>7. /\ db' \in Db /\ db'.rows = db.rows /\ db'.next_id = db.next_id
      /\ db'.torn = db.torn /\ TreeOK(db') /\ TreeOK(file')
      /\ \A m : Kept(db, db', m)
      /\ NewPage \in Page \ {Root} /\ NewPage \notin Pages(db)
      /\ Pages(db') = Pages(db) \union {NewPage} /\ db'.node[NewPage] = right
      /\ \A p \in Pages(db) : db'.node[p] = db.node[p]
      /\ Len(frames') = 1
      /\ g.page = page /\ g.node = left /\ g.key = n.keys[Half + 1]
      /\ g.sibling = NewPage /\ g.pc = (IF left.parent = NoPage THEN "root" ELSE "up")
  BY <1>1, <1>2, <1>5, SplitStores
<1> HIDE DEF g
<1>8. WasLeaf(db', g, n) /\ AllRows(db') = all
  <2>1. NewPage \in Leaves(db') \ {Root}
    BY <1>6, <1>7 DEF Leaves
  <2> QED
    BY <1>1, <1>2, <1>6, <1>7, <2>1 DEF WasLeaf, AllRows, NewRow
<1>9. CASE page # Root
  <2>1. x.node[Root] = r /\ db'.node[Root] = r /\ x.node[page] = n
    BY <1>2, <1>4, <1>7, <1>9, RootIsPage DEF Stores
  <2>2. LastLeaf(x, r, page) /\ n.parent = Root /\ RootOK(x, r, all, all)
    BY <1>3, <1>9, <2>1 DEF LastLeaf
  <2>3. g.pc = "up" /\ g.node.parent = Root /\ db'.node[g.sibling].parent = Root
    BY <1>6, <1>7, <2>2 DEF Root, NoPage
  <2>4. \A i \in 1..Len(r.kids) : r.kids[i] # NewPage
    <3>1. KidsIn(r, Pages(db) \union {})
      BY <1>2 DEF Children
    <3> QED
      BY <1>7, <3>1 DEF KidsIn
  <2>5. Kept(x, y, r)
    <3>1. Kept(Pending(db, Top), Pending(db', Top), r)
      BY <1>2, <1>7, PendingKept
    <3> QED
      BY <3>1 DEF x, Pending
  <2>6. RootOK(y, r, all, all) /\ LastLeaf(y, r, page)
    BY <2>2, <2>5, RootOKKept, LastLeafKept
  <2>7. LeafSplit(db', frames')
    <3>1. /\ g.page # Root /\ g.sibling # g.page
          /\ \A i \in 1..Len(db'.node[Root].kids) : db'.node[Root].kids[i] # g.sibling
      BY <1>2, <1>7, <1>9, <2>1, <2>4
    <3>2. /\ RootOK(WriteNode(db', g.page, n), db'.node[Root], AllRows(db'), AllRows(db'))
          /\ LastLeaf(WriteNode(db', g.page, n), db'.node[Root], g.page)
      BY <1>7, <1>8, <2>1, <2>6
    <3> HIDE DEF n
    <3> QED
      BY <1>2, <1>7, <1>8, <2>3, <3>1, <3>2 DEF LeafSplit, g
  <2> QED
    BY <1>1, <1>2, <1>7, <2>7 DEF SearchInv, Phase
<1>10. CASE page = Root
  <2>1. x.node[Root] = n
    BY <1>4, <1>10 DEF Stores
  <2>2. n.parent = NoPage /\ Ascending(n.keys) /\ \A k \in Key : Holds(x, n, k, all, all)
    BY <1>3, <2>1 DEF RootOK
  <2>3. AllRows(x) = all
    BY <1>4 DEF AllRows, NewRow
  <2>4. ToSet(n.keys) = all
    BY <1>1, <1>2, <1>4, <2>2, <2>3, RowsAreKeys
  <2>5. CreatingRoot(db', g) /\ g.pc # "up"
    BY <1>2, <1>6, <1>7, <1>10, <2>2 DEF CreatingRoot
  <2>6. LeafRootSplit(db', frames')
    BY <1>2, <1>7, <1>8, <2>2, <2>4, <2>5 DEF LeafRootSplit, g
  <2> QED
    BY <1>1, <1>2, <1>7, <2>6 DEF SearchInv, Phase
<1> QED
  BY <1>9, <1>10

\* The row of an insert in progress, or of the last one, once it is stored
LEMMA RowStored ==
  ASSUME NEW d, NEW e, e.rows = AllRows(d), e.next_id = d.next_id, NEW n,
         RootOK(d, n, AllRows(d), AllRows(d)), Kept(d, e, n)
  PROVE  RootOK(e, n, e.rows, e.rows) /\ RootOK(e, n, e.rows, AllRows(e))
<1>1. AllRows(e) = e.rows
  BY DEF AllRows, NewRow
<1>2. RootOK(e, n, AllRows(d), AllRows(d))
  BY RootOKKept
<1> QED
  BY <1>1, <1>2

LEMMA SearchOfInsert == ASSUME IInv, SearchInv, insert PROVE SearchInv'
<1> DEFINE key == db.next_id
           e == get_next_id(db)
           r == db.node[Root]
<1>1. /\ frames = <<>> /\ ~lost /\ db \in Db /\ Wellformed(db)
      /\ db' = e /\ file' = db /\ lost' = lost
  BY DEF insert, Store, IInv, Shapes, Wellformed
<1>2. PICK page \in Leaves(db) : /\ page = find_leaf(db, Root, key)
                                 /\ frames' = <<Call(page, WithRow(db.node[page], key))>>
  BY Zenon DEF insert
<1> DEFINE n == WithRow(db.node[page], key)
           f == Call(page, n)
           x == Pending(e, f)
<1>3. ~db.torn /\ RootOK(db, r, db.rows, db.rows)
  <2>1. Phase(db, frames)
    BY <1>1 DEF SearchInv
  <2>2. Len(frames) = 0
    BY <1>1
  <2>3. Idle(db, frames)
    BY <2>1, <2>2 DEF Phase, AddingRow, LeafSplit, LeafRootSplit, AddingChild, RootSplit,
                      AddingHalf, WritingHalf
  <2> QED
    BY <2>3 DEF Idle
<1>4. /\ e \in Db /\ e.node = db.node /\ e.nb_pages = db.nb_pages /\ e.torn = db.torn
      /\ e.rows = db.rows /\ e.next_id = key + 1 /\ key \in Nat
  BY <1>1 DEF get_next_id, Db
<1> HIDE DEF e
<1>5. Pages(e) = Pages(db) /\ \A m : Kept(db, e, m)
  BY <1>4, SameKept
<1>6. AllRows(e) = db.rows \union {key}
  <2>1. e.next_id - 1 = key
    BY <1>4
  <2> QED
    BY <1>4, <2>1 DEF AllRows, NewRow
<1>7. TreeOK(e) /\ TreeOK(db)
  <2>1. RootOK(db, r, db.rows, AllRows(db)) /\ RootOK(db, r, db.rows, AllRows(e))
    BY <1>3, <1>6, HoldsLess DEF AllRows
  <2>2. RootOK(e, r, e.rows, AllRows(e))
    BY <1>4, <1>5, <2>1, RootOKKept
  <2> QED
    BY <1>4, <2>1, <2>2 DEF TreeOK
<1>8. /\ page \in Pages(db) /\ db.node[page].leaf /\ db.node[page] \in Node
      /\ KeysBelow(db.node[page], key)
  BY <1>1, PageShapes DEF Leaves, Wellformed, NodesSound
<1>9. /\ n \in Node /\ n.leaf = db.node[page].leaf /\ n.parent = db.node[page].parent
      /\ n.kids = db.node[page].kids /\ Extended(db.node[page].keys, n.keys, key)
  BY <1>4, <1>8, WithRowNode, WithRowLast DEF Key
<1> HIDE DEF n
<1>10. f.page = page /\ f.node = n /\ f.pc \in {"split", "write"}
  BY DEF Call
<1> HIDE DEF f
<1>11. Stores(db, x, page, n)
  <2>1. Stores(e, x, page, n)
    BY <1>4, <1>5, <1>8, <1>9, <1>10, WritingStores DEF Pending
  <2> QED
    BY <1>4, <1>5, <2>1 DEF Stores
<1> HIDE DEF x
<1>12. /\ RootOK(x, x.node[Root], db.rows \union {key}, db.rows \union {key})
       /\ page # Root => LastLeaf(x, x.node[Root], page)
  <2>1. \A p \in Pages(db) : KeysBelow(db.node[p], key)
    BY <1>1 DEF Wellformed, NodesSound
  <2>2. key \in Key
    BY <1>4 DEF Key
  <2> HIDE DEF key
  <2> QED
    BY <1>1, <1>2, <1>3, <1>8, <1>9, <1>11, <2>1, <2>2, RowAdded
<1>13. frames' = <<f>>
  BY <1>2 DEF f, n
<1>14. Len(frames') = 1 /\ frames'[1] = f
  BY <1>13
<1>15. AddingRow(e, frames')
  BY <1>3, <1>4, <1>6, <1>10, <1>12, <1>14 DEF AddingRow, x
<1> QED
  BY <1>1, <1>7, <1>15 DEF SearchInv, Phase

\* The last write of a call
LEMMA CallStores ==
  ASSUME IInv, SearchInv, Return
  PROVE  /\ db' \in Db /\ db'.next_id = db.next_id /\ file' = db /\ lost' = lost
         /\ db'.torn = (db.torn /\ Top.page # Root)
         /\ Len(frames) > 1 => db'.rows = db.rows
         /\ Len(frames) = 1 => db'.rows = AllRows(db) /\ \A n : Kept(Pending(db, Top), db', n)
                               /\ db'.node = Pending(db, Top).node
         /\ Stores(db, db', Top.page, Top.node)
         /\ Top.page \in Pages(db) /\ Top.node \in Node
         /\ Len(frames') = Len(frames) - 1
         /\ \A i \in 1..(Len(frames) - 1) : frames'[i] = frames[i]
<1> DEFINE d == WriteNode(db, Top.page, Top.node)
           rows == IF Len(frames) = 1 THEN db.rows \union {db.next_id - 1} ELSE db.rows
           torn == db.torn /\ Top.page # Root
           e == [d EXCEPT !.torn = torn, !.rows = rows]
<1>1. frames # <<>> /\ Top.pc = "write"
  BY DEF Return, At
<1>2. /\ db \in Db /\ frames \in Seq(Frame) /\ Len(frames) \in Nat \ {0}
      /\ Top \in Frame /\ CallSound(db, Top)
  BY <1>1, InProgressFacts
<1>3. /\ Top.page \in Pages(db) /\ Top.node \in Node /\ Top.page \in 0..(db.nb_pages - 1)
      /\ Top.key \in Key /\ Top.key < db.next_id
  BY <1>1, <1>2, PagesAreNodes DEF CallSound, Frame
<1>4. /\ d \in Db /\ d.next_id = db.next_id /\ d.torn = db.torn /\ d.rows = db.rows
      /\ Stores(db, d, Top.page, Top.node)
  BY <1>2, <1>3, Writing DEF Stores
<1>5. db' = e /\ file' = db /\ lost' = lost /\ frames' = Front(frames)
  BY <1>4 DEF Return, Store
<1>6. d = Pending(db, Top)
  BY DEF Pending
<1> HIDE DEF d
<1>7. rows \in SUBSET Key /\ torn \in BOOLEAN
  BY <1>2, <1>3 DEF Db, Key
<1>8. /\ Len(frames) > 1 => rows = db.rows
      /\ Len(frames) = 1 => rows = AllRows(db)
  <2>1. Len(frames) > 1 => Len(frames) # 1
    BY <1>2
  <2> QED
    BY <2>1, Zenon DEF AllRows, NewRow
<1>9. torn = (db.torn /\ Top.page # Root)
  OBVIOUS
<1> HIDE DEF rows, torn
<1>10. /\ e \in Db /\ e.node = d.node /\ e.nb_pages = d.nb_pages /\ e.next_id = d.next_id
       /\ e.rows = rows /\ e.torn = torn
  BY <1>4, <1>7 DEF Db
<1> HIDE DEF e
<1>11. Pages(e) = Pages(d) /\ \A n : Kept(d, e, n)
  BY <1>10, SameKept
<1>12. Stores(db, e, Top.page, Top.node)
  BY <1>4, <1>10, <1>11 DEF Stores
<1>13. /\ Len(frames') = Len(frames) - 1
       /\ \A i \in 1..(Len(frames) - 1) : frames'[i] = frames[i]
  BY <1>2, <1>5, FrontEntries
<1> QED
  BY <1>3, <1>4, <1>5, <1>6, <1>8, <1>9, <1>10, <1>11, <1>12, <1>13

\* A write that leaves what is below the root n as it is
LEMMA RootReturns ==
  ASSUME IInv, SearchInv, Return, Len(frames) > 1, NEW n, db'.node[Root] = n,
         Kept(db, db', n), Ready(db, frames[1], n), Complete(db, frames[1], n)
  PROVE  /\ TreeOK(db') /\ Complete(db', frames'[1], n) /\ frames'[1] = frames[1]
         /\ frames'[1].pc = "write"
<1>1. /\ db' \in Db /\ db'.next_id = db.next_id /\ db'.rows = db.rows
      /\ \A i \in 1..(Len(frames) - 1) : frames'[i] = frames[i]
  BY CallStores
<1>2. /\ db \in Db /\ Len(frames) \in Nat \ {0}
      /\ \A i \in 1..Len(frames) : /\ frames[i] \in Frame /\ CallSound(db, frames[i])
                                   /\ (i < Len(frames) => frames[i].pc = "write")
  BY InProgressFacts DEF Return, At
<1>3. frames'[1] = frames[1] /\ frames[1].pc = "write" /\ frames[1].page \in Pages(db)
      /\ frames[1].node \in Node
  <2>1. 1 \in 1..(Len(frames) - 1) /\ 1 \in 1..Len(frames) /\ 1 < Len(frames)
    BY <1>2
  <2> QED
    BY <1>1, <1>2, <2>1 DEF CallSound, Frame
<1>4. Ready(db', frames[1], n) /\ Complete(db', frames[1], n)
  BY <1>1, <1>2, <1>3, ReadyKept
<1> QED
  BY <1>3, <1>4 DEF TreeOK, Ready

\* insert is next to write the leaf.
LEMMA RowIsNext ==
  ASSUME NEW d \in Db, ~d.torn, NEW fs, Len(fs) = 1, fs[1].pc = "write",
         fs[1].page \in Pages(d), fs[1].node \in Node, Complete(d, fs[1], d.node[Root])
  PROVE  AddingRow(d, fs)
<1>1. Stores(d, Pending(d, fs[1]), fs[1].page, fs[1].node)
  BY WritingStores DEF Pending
<1>2. Pending(d, fs[1]).node[Root] = d.node[Root]
  BY <1>1, RootIsPage DEF Complete, Stores
<1> QED
  BY <1>2 DEF AddingRow, Complete

LEMMA SearchOfReturn == ASSUME IInv, SearchInv, Return PROVE SearchInv'
<1> DEFINE r == db'.node[Root]
<1>1. /\ frames # <<>> /\ Top.pc = "write"
  BY DEF Return, At
<1>2. /\ ~lost /\ db \in Db /\ Len(frames) \in Nat \ {0} /\ Wellformed(db)
      /\ Top \in Frame /\ CallSound(db, Top) /\ Top = frames[Len(frames)]
      /\ Top.node.leaf = (Len(frames) = 1)
      /\ \A d \in {db, file} : ~d.torn => TreeOK(d)
  BY <1>1, InProgressFacts
<1>3. /\ db' \in Db /\ db'.next_id = db.next_id /\ file' = db /\ lost' = lost
      /\ db'.torn = (db.torn /\ Top.page # Root)
      /\ Len(frames) > 1 => db'.rows = db.rows
      /\ Len(frames) = 1 => db'.rows = AllRows(db) /\ \A n : Kept(Pending(db, Top), db', n)
                            /\ db'.node = Pending(db, Top).node
      /\ Stores(db, db', Top.page, Top.node)
      /\ Top.page \in Pages(db) /\ Top.node \in Node
      /\ Len(frames') = Len(frames) - 1
      /\ \A i \in 1..(Len(frames) - 1) : frames'[i] = frames[i]
  BY CallStores
<1>4. Pages(db') = Pages(db) /\ db'.node[Top.page] = Top.node
  BY <1>3 DEF Stores
<1>5. frames' \in Seq(Frame)
  BY ReturnStep DEF IInv, Shapes
<1>6. ASSUME AddingRow(db, frames) PROVE Idle(db', frames') /\ TreeOK(db')
  <2>1. Len(frames) = 1 /\ ~db.torn /\ Top = frames[1]
    BY <1>2, <1>6 DEF AddingRow
  <2>2. RootOK(Pending(db, Top), Pending(db, Top).node[Root], AllRows(db), AllRows(db))
    BY <1>6, <2>1 DEF AddingRow
  <2>3. RootOK(Pending(db, Top), r, AllRows(db), AllRows(db))
    BY <1>3, <2>1, <2>2
  <2>4. RootOK(db', r, db'.rows, db'.rows) /\ RootOK(db', r, db'.rows, AllRows(db'))
    <3>1. Len(frames) = 1 => /\ db'.rows = AllRows(db) /\ db'.next_id = db.next_id
                             /\ Kept(Pending(db, Top), db', r)
      BY <1>3
    <3>2. \A d, e, n : e.rows = AllRows(d) /\ e.next_id = d.next_id =>
                         (AllRows(e) = AllRows(d))
      BY DEF AllRows, NewRow
    <3>3. AllRows(db') = AllRows(db)
      BY <2>1, <3>1, <3>2
    <3>4. RootOK(db', r, AllRows(db), AllRows(db))
      BY <2>1, <2>3, <3>1, RootOKKept
    <3> QED
      BY <2>1, <3>1, <3>3, <3>4
  <2>5. frames' = <<>>
    BY <1>3, <1>5, <2>1
  <2> QED
    BY <1>3, <2>1, <2>4, <2>5 DEF Idle, TreeOK
<1>7. ASSUME AddingChild(db, frames) PROVE AddingRow(db', frames') /\ TreeOK(db') /\ ~db'.torn
  <2>1. /\ Len(frames) = 2 /\ Top = frames[2] /\ Top.page = Root
        /\ Ready(db, frames[1], Top.node) /\ Complete(db, frames[1], Top.node)
    BY <1>2, <1>7 DEF AddingChild
  <2>2. Kept(db, db', Top.node) /\ r = Top.node /\ ~db'.torn
    BY <1>3, <1>4, <2>1, StoreKeeps
  <2>3. /\ TreeOK(db') /\ Complete(db', frames'[1], r) /\ frames'[1] = frames[1]
        /\ frames'[1].pc = "write"
    BY <2>1, <2>2, RootReturns
  <2>4. Len(frames') = 1 /\ frames'[1] \in Frame /\ CallSound(db', frames'[1])
    <3>1. Len(frames') = 1 /\ 1 \in 1..Len(frames')
      BY <1>3, <2>1
    <3>2. IInv' /\ (lost' = lost)
      BY <1>3, ReturnStep
    <3>3. CallsSound'
      BY <1>2, <3>2 DEF IInv, Sound
    <3> QED
      BY <1>5, <3>1, <3>3 DEF CallsSound
  <2>5. frames'[1].page \in Pages(db') /\ frames'[1].node \in Node
    BY <2>3, <2>4 DEF CallSound, Frame
  <2> QED
    BY <1>3, <2>2, <2>3, <2>4, <2>5, RowIsNext
<1>8. ASSUME AddingHalf(db, frames) PROVE WritingHalf(db', frames') /\ TreeOK(db')
  <2>1. /\ Len(frames) = 3 /\ Top = frames[3] /\ Top.page = Root
        /\ frames[2].page \notin {Root, frames[1].page}
        /\ SameTree(db.node[frames[2].page], frames[2].node)
        /\ Ready(db, frames[1], Top.node) /\ Complete(db, frames[1], Top.node)
    BY <1>2, <1>8 DEF AddingHalf
  <2>2. Kept(db, db', Top.node) /\ r = Top.node /\ ~db'.torn
    BY <1>3, <1>4, <2>1, StoreKeeps
  <2>3. /\ TreeOK(db') /\ Complete(db', frames'[1], r) /\ frames'[1] = frames[1]
    BY <2>1, <2>2, RootReturns
  <2>4. /\ frames[2] \in Frame /\ frames[2].pc = "write" /\ CallSound(db, frames[2])
    <3>1. 2 \in 1..Len(frames) /\ 2 < Len(frames)
      BY <2>1
    <3> QED
      BY <1>1, <3>1, InProgressFacts
  <2>5. frames'[2] = frames[2] /\ Len(frames') = 2
    <3>1. 2 \in 1..(Len(frames) - 1)
      BY <2>1
    <3> QED
      BY <1>3, <2>1, <3>1
  <2>6. db'.node[frames[2].page] = db.node[frames[2].page]
    BY <1>3, <2>1, <2>4 DEF Stores, Frame
  <2> QED
    BY <2>1, <2>2, <2>3, <2>4, <2>5, <2>6 DEF WritingHalf
<1>9. ASSUME WritingHalf(db, frames) PROVE AddingRow(db', frames') /\ TreeOK(db') /\ ~db'.torn
  <2>1. /\ Len(frames) = 2 /\ Top = frames[2] /\ ~db.torn
        /\ Top.page \notin {Root, frames[1].page} /\ SameTree(db.node[Top.page], Top.node)
        /\ Complete(db, frames[1], db.node[Root])
    BY <1>2, <1>9 DEF WritingHalf
  <2>2. ~db.node[Top.page].leaf
    <3>1. Len(frames) # 1
      BY <2>1
    <3>2. db.node[Top.page].leaf = Top.node.leaf
      BY <1>1, <1>2 DEF CallSound
    <3> QED
      BY <1>2, <3>1, <3>2
  <2>3. r = db.node[Root]
    BY <1>3, <2>1, RootIsPage DEF Stores
  <2>4. Kept(db, db', r)
    <3>1. SameTree(Top.node, db.node[Top.page])
      BY <2>1 DEF SameTree
    <3> QED
      BY <1>3, <2>2, <3>1, StoreKeeps
  <2>5. Ready(db, frames[1], r)
    BY <1>2, <2>1, <2>3 DEF Ready, TreeOK
  <2>6. /\ TreeOK(db') /\ Complete(db', frames'[1], r) /\ frames'[1].pc = "write"
    BY <2>1, <2>3, <2>4, <2>5, RootReturns
  <2>7. Len(frames') = 1 /\ frames'[1] \in Frame /\ CallSound(db', frames'[1])
    <3>1. Len(frames') = 1 /\ 1 \in 1..Len(frames')
      BY <1>3, <2>1
    <3>2. IInv' /\ (lost' = lost)
      BY <1>3, ReturnStep
    <3>3. CallsSound'
      BY <1>2, <3>2 DEF IInv, Sound
    <3> QED
      BY <1>5, <3>1, <3>3 DEF CallsSound
  <2>8. frames'[1].page \in Pages(db') /\ frames'[1].node \in Node
    BY <2>6, <2>7 DEF CallSound, Frame
  <2>9. ~db'.torn
    BY <1>3, <2>1
  <2> QED
    BY <1>3, <2>6, <2>7, <2>8, <2>9, RowIsNext
<1>10. \/ AddingRow(db, frames) \/ AddingChild(db, frames)
       \/ AddingHalf(db, frames) \/ WritingHalf(db, frames)
  BY <1>1, PhaseOfCall
<1>11. Phase(db', frames') /\ TreeOK(db')
  BY <1>6, <1>7, <1>8, <1>9, <1>10 DEF Phase
<1> QED
  BY <1>2, <1>3, <1>11 DEF SearchInv

\* What a search finds is what the leaf it ends in holds.
LEMMA FoundHolds ==
  ASSUME NEW d, Wellformed(d), NEW key \in Key, Root \in Pages(d), NEW lower, NEW upper,
         Holds(d, d.node[Root], key, lower, upper), NEW rows, key \in rows <=> Found(d, key)
  PROVE  Holds(d, d.node[Root], key, rows, rows)
<1> DEFINE r == d.node[Root]
<1>1. CASE r.leaf
  <2> DEFINE held == {k \in {key} : k \in ToSet(r.keys)}
  <2>1. Holds(d, r, key, held, held)
    BY <1>1 DEF Holds, Answers
  <2> HIDE DEF held
  <2>2. key \in held <=> Found(d, key)
    BY <2>1, HoldsIsFound
  <2> QED
    BY <1>1, <2>2 DEF Holds, Answers, held
<1>2. CASE ~r.leaf
  <2>1. PICK leaf \in Leaves(d) : Leads(d, key, Child(r, key), leaf)
    BY <1>2 DEF Holds
  <2> DEFINE held == {k \in {key} : k \in ToSet(d.node[leaf].keys)}
  <2>2. Answers(d.node[leaf], key, held, held)
    BY DEF Answers
  <2>3. key \in held <=> key \in ToSet(d.node[leaf].keys)
    OBVIOUS
  <2> HIDE DEF held
  <2>4. Holds(d, r, key, held, held)
    BY <1>2, <2>1, <2>2 DEF Holds
  <2>5. key \in held <=> Found(d, key)
    BY <2>4, HoldsIsFound
  <2>6. Answers(d.node[leaf], key, rows, rows)
    BY <2>3, <2>5 DEF Answers
  <2> QED
    BY <1>2, <2>1, <2>6 DEF Holds
<1> QED
  BY <1>1, <1>2

LEMMA SearchOfCrash ==
  ASSUME IInv, SearchInv, NEW d, d \in {db, file}, Crash(d)
  PROVE  SearchInv'
<1> SUFFICES ASSUME ~lost' PROVE Idle(db', frames') /\ TreeOK(db')
  BY DEF SearchInv, Phase, Crash
<1> DEFINE rows == d.rows \union InProgress(d)
           r == d.node[Root]
<1>1. /\ ~lost /\ ~d.torn /\ Wellformed(d) /\ d \in Db
      /\ db' = [d EXCEPT !.rows = rows] /\ frames' = <<>>
  BY DEF Crash, IInv, Shapes, Wellformed
<1>2. RootOK(d, r, d.rows, AllRows(d))
  BY <1>1 DEF SearchInv, TreeOK
<1> HIDE DEF rows
<1>3. /\ db'.node = d.node /\ db'.nb_pages = d.nb_pages /\ db'.rows = rows
      /\ db'.next_id = d.next_id /\ db'.torn = d.torn
  BY <1>1 DEF Db
<1>4. ASSUME NEW key \in Key PROVE Holds(d, r, key, rows, rows)
  <2>1. Holds(d, r, key, d.rows, AllRows(d)) /\ Root \in Pages(d)
    BY <1>2 DEF RootOK
  <2>2. (key \in d.rows => Found(d, key)) /\ (Found(d, key) => key \in AllRows(d))
    BY <1>1, <2>1, HoldsIsFound
  <2>3. key \in rows <=> Found(d, key)
    <3>1. key \in InProgress(d) <=> key = d.next_id - 1 /\ Found(d, d.next_id - 1)
      BY DEF InProgress
    <3> QED
      BY <2>2, <3>1 DEF rows, AllRows, NewRow
  <2> QED
    BY <1>1, <2>1, <2>3, FoundHolds
<1>5. RootOK(d, r, rows, rows)
  BY <1>2, <1>4 DEF RootOK
<1>6. RootOK(db', r, rows, rows)
  <2>1. Kept(d, db', r)
    BY <1>3, SameKept
  <2> QED
    BY <1>5, <2>1, RootOKKept
<1>7. RootOK(db', r, rows, AllRows(db'))
  <2>1. rows \subseteq AllRows(db')
    BY <1>3 DEF AllRows
  <2> QED
    BY <1>6, <2>1, HoldsLess
<1> QED
  BY <1>1, <1>3, <1>6, <1>7 DEF Idle, TreeOK

LEMMA InitSearches == Init => SearchInv
<1> SUFFICES ASSUME Init PROVE Idle(db, frames) /\ TreeOK(db) /\ file = db
  BY DEF SearchInv, Phase, Init
<1> DEFINE r == db.node[Root]
<1>1. /\ r = Leaf(NoPage, <<>>, NoPage) /\ db.rows = {} /\ ~db.torn /\ frames = <<>> /\ file = db
      /\ db.nb_pages = 1
  BY RootIsPage DEF Init
<1>2. /\ r.leaf = TRUE /\ r.parent = NoPage /\ r.keys = <<>> /\ r.kids = <<>> /\ r # Blank
  <2>1. Leaf(NoPage, <<>>, NoPage) # Blank
    <3>1. Leaf(NoPage, <<>>, NoPage) \in Node
      BY DEF Leaf, Node, Link
    <3> QED
      BY <3>1, BlankIsNoNode
  <2> QED
    BY <1>1, <2>1 DEF Leaf
<1>3. Root \in Pages(db)
  BY <1>1, <1>2, RootIsPage DEF Pages, Written, Root
<1> HIDE DEF r
<1>4. Len(r.keys) = 0 /\ Len(r.kids) = 0 /\ ToSet(r.keys) = {}
  BY <1>2 DEF ToSet
<1>5. ASSUME NEW rows, NEW key \in Key PROVE Holds(db, r, key, {}, rows)
  BY <1>2, <1>4 DEF Holds, Answers
<1>6. Ascending(r.keys) /\ \A i \in 1..Len(r.kids) : r.kids[i] # Root
  BY <1>4 DEF Ascending
<1>7. \A rows : RootOK(db, r, {}, rows)
  BY <1>2, <1>3, <1>5, <1>6 DEF RootOK
<1> QED
  BY <1>1, <1>7 DEF Idle, TreeOK, r

LEMMA NextSearches == IInv /\ SearchInv /\ [Next]_vars => SearchInv'
<1> SUFFICES ASSUME IInv, SearchInv, [Next]_vars PROVE SearchInv'
  OBVIOUS
<1>1. CASE insert
  BY <1>1, SearchOfInsert
<1>2. CASE split_leaf_node
  BY <1>2, SearchOfSplitLeaf
<1>3. CASE split_internal_node
  BY <1>3, SearchOfSplitInternal
<1>4. CASE create_root
  BY <1>4, SearchOfCreateRoot
<1>5. CASE MoveNode
  BY <1>5, SearchOfMoveNode
<1>6. CASE UpdateSibling
  BY <1>6, SearchOfUpdateSibling
<1>7. CASE UpdateChild
  BY <1>7, SearchOfUpdateChild
<1>8. CASE insert_internal
  BY <1>8, SearchOfInsertInternal
<1>9. CASE Return
  BY <1>9, SearchOfReturn
<1>10. CASE Exit
  BY <1>10, SearchOfCrash DEF Exit
<1>11. CASE Kill
  BY <1>11, SearchOfCrash DEF Kill
<1>12. CASE UNCHANGED vars
  BY <1>12 DEF vars, SearchInv
<1> QED
  BY <1>1, <1>2, <1>3, <1>4, <1>5, <1>6, <1>7, <1>8, <1>9, <1>10, <1>11, <1>12 DEF Next, Step

LEMMA AlwaysSearches == Spec => [](IInv /\ SearchInv)
<1>1. Init => IInv /\ SearchInv
  BY InitSound, InitSearches
<1>2. IInv /\ SearchInv /\ [Next]_vars => (IInv /\ SearchInv)'
  BY NextKeeps, NextSearches
<1> QED
  BY <1>1, <1>2, PTL DEF Spec

LEMMA SearchFindsRows == IInv /\ SearchInv => EveryRowFound
<1> SUFFICES ASSUME IInv, SearchInv, NEW d \in {db, file}, ~lost, ~d.torn, NEW key \in d.rows
             PROVE  Found(d, key)
  BY DEF EveryRowFound
<1>1. Wellformed(d) /\ d \in Db /\ TreeOK(d)
  BY DEF IInv, Shapes, Wellformed, SearchInv
<1>2. key \in Key
  BY <1>1 DEF Db
<1>3. Root \in Pages(d) /\ Holds(d, d.node[Root], key, d.rows, AllRows(d))
  BY <1>1, <1>2 DEF TreeOK, RootOK
<1> QED
  BY <1>1, <1>2, <1>3, HoldsIsFound

-----------------------------------------------------------------------------
\* EveryRowFound: a search in the file, as the process or as the system sees it,
\* finds every row that was inserted, after every write of insert, create_root
\* and insert_internal, except while create_root moves the root.
THEOREM EveryRowIsFound == Spec => []EveryRowFound
  BY AlwaysSearches, SearchFindsRows, PTL

LEMMA SearchKnowsParent == IInv /\ SearchInv => NextLeafKnowsItsParent
<1> SUFFICES ASSUME IInv, SearchInv, frames = <<>>, ~lost
             PROVE  LET leaf == find_leaf(db, Root, db.next_id)
                        parent == db.node[leaf].parent IN
                    IF leaf = Root THEN parent = NoPage
                    ELSE Written(db, parent) /\ ~db.node[parent].leaf /\ find_leaf(db, parent, db.next_id) = leaf
  BY DEF NextLeafKnowsItsParent
<1> DEFINE key == db.next_id
           r == db.node[Root]
<1>1. Wellformed(db) /\ db \in Db /\ key \in Key
  BY DEF IInv, Shapes, Wellformed, Db, Key
<1>2. RootOK(db, r, db.rows, db.rows)
  <2>1. Phase(db, frames) /\ Len(frames) = 0
    BY DEF SearchInv
  <2>2. Idle(db, frames)
    BY <2>1 DEF Phase, AddingRow, LeafSplit, LeafRootSplit, AddingChild, RootSplit,
                AddingHalf, WritingHalf
  <2> QED
    BY <2>2 DEF Idle
<1>3. Root \in Pages(db) /\ r.parent = NoPage
  BY <1>2 DEF RootOK
<1>4. CASE r.leaf
  <2>1. find_leaf(db, Root, key) = Root
    BY <1>1, <1>3, <1>4, RootLeafIsFound DEF Leaves
  <2> QED
    BY <1>3, <2>1
<1>5. CASE ~r.leaf
  <2>1. Root \in Interiors(db)
    BY <1>3, <1>5 DEF Interiors
  <2>2. PICK leaf \in Leaves(db) : LastLeaf(db, r, leaf)
    BY <1>2, <1>5 DEF RootOK
  <2>3. leaf # Root /\ db.node[leaf].parent = Root
    BY <2>2 DEF LastLeaf
  <2>4. key >= db.node[leaf].keys[1]
    <3>1. leaf \in Pages(db) /\ db.node[leaf] \in Node /\ KeysBelow(db.node[leaf], key)
      BY <1>1, PageShapes DEF Leaves, Wellformed, NodesSound
    <3>2. 1 \in 1..Len(db.node[leaf].keys) /\ db.node[leaf].keys[1] \in Nat
      BY <2>2, <3>1 DEF LastLeaf, Node, Key
    <3> QED
      BY <1>1, <3>1, <3>2 DEF KeysBelow, Key
  <2>5. Leads(db, key, Child(r, key), leaf)
    BY <1>1, <2>2, <2>4 DEF LastLeaf
  <2>6. find_leaf(db, Root, key) = leaf
    BY <1>1, <2>1, <2>5, LeadsIsFound
  <2>7. Written(db, Root)
    BY <1>3 DEF Pages
  <2> QED
    BY <1>5, <2>3, <2>6, <2>7
<1> QED
  BY <1>4, <1>5

\* NextLeafKnowsItsParent: between two inserts the leaf that the next row goes
\* into has the root for parent, however deep it lies, or is the root, so its
\* split adds a page where searches find it, although the parents of other
\* leaves are stale.
THEOREM NextLeafKnowsParent == Spec => []NextLeafKnowsItsParent
  BY AlwaysSearches, SearchKnowsParent, PTL

-----------------------------------------------------------------------------
\* The file as the system sees it: one write behind, which is at most the id of
\* an insert that has just begun, or the last write of the one before.
Behind ==
  /\ \A d \in {db, file} : d.next_id <= MaxKey + 1 /\ \A k \in d.rows : k < d.next_id
  /\ frames = <<>> => /\ file.next_id = db.next_id
                      /\ file.rows \subseteq db.rows /\ db.rows \subseteq AllRows(file)
                      /\ InProgress(db) \subseteq db.rows /\ InProgress(file) \subseteq db.rows
  /\ frames # <<>> => /\ file.rows = db.rows
                      /\ \/ file.next_id = db.next_id
                         \/ file.next_id = NewRow(db) /\ InProgress(file) \subseteq file.rows

\* What a search finds depends on the pages alone.
LEMMA FoundOfNodes ==
  ASSUME NEW d, NEW e, d.node = e.node, d.nb_pages = e.nb_pages, NEW key
  PROVE  Found(d, key) <=> Found(e, key)
  BY DEF Found, find_leaf, Leaves, Pages, Written

LEMMA InProgressIsNew == ASSUME NEW d PROVE InProgress(d) \subseteq {NewRow(d)}
  BY DEF InProgress, NewRow

\* The steps inside an insert store pages, and no id or row.
OnlyPages == /\ db'.rows = db.rows /\ db'.next_id = db.next_id
             /\ \/ file' = file
                \/ file'.rows = db.rows /\ file'.next_id = db.next_id
             /\ frames # <<>> /\ frames' # <<>>

LEMMA SplitStoresPages == ASSUME IInv, NEW left, NEW right, frames # <<>>, Split(left, right) PROVE OnlyPages
<1>1. db \in Db /\ frames \in Seq(Frame)
  BY DEF IInv, Shapes
<1>2. frames' # <<>>
  <2>1. Len(frames') = Len(frames)
    BY <1>1 DEF Split, SetTop
  <2> QED
    BY <1>1, <2>1
<1> QED
  BY <1>1, <1>2 DEF Split, StoreTwo, create_addr, WriteNode, OnlyPages, Db

LEMMA StepStoresPages ==
  ASSUME IInv, Step, Return => Len(frames) # 1
  PROVE  OnlyPages
<1>1. db \in Db /\ frames \in Seq(Frame) /\ frames # <<>>
  BY DEF IInv, Shapes, Step, split_leaf_node, split_internal_node, create_root, MoveNode, UpdateSibling,
         UpdateChild, insert_internal, Return, At
<1>2. ASSUME NEW f, SetTop(f) PROVE frames' # <<>>
  <2>1. Len(frames') = Len(frames)
    BY <1>1, <1>2 DEF SetTop
  <2> QED
    BY <1>1, <2>1
<1>3. CASE split_leaf_node \/ split_internal_node
  BY <1>1, <1>3, SplitStoresPages DEF split_leaf_node, split_internal_node
<1>4. CASE create_root
  BY <1>1, <1>2, <1>4 DEF create_root, StoreTwo, create_addr, WriteNode, OnlyPages, Db
<1>5. CASE MoveNode
  BY <1>1, <1>2, <1>5 DEF MoveNode, Store, WriteNode, OnlyPages, Db
<1>6. CASE UpdateSibling
  BY <1>1, <1>2, <1>6 DEF UpdateSibling, Store, WriteNode, OnlyPages, Db
<1>7. CASE UpdateChild
  BY <1>1, <1>2, <1>7 DEF UpdateChild, Store, WriteNode, OnlyPages, Db
<1>8. CASE insert_internal
  <2> DEFINE s == [frames EXCEPT ![Len(frames)].pc = "write"]
  <2>1. \E c : frames' = Append(s, c)
    BY <1>8 DEF insert_internal
  <2>2. Len(s) = Len(frames)
    BY <1>1
  <2> HIDE DEF s
  <2>3. frames' # <<>>
    BY <2>1
  <2> QED
    BY <1>1, <1>8, <2>3 DEF insert_internal, OnlyPages
<1>9. CASE Return
  <2>1. Len(frames) # 1 /\ Len(frames) > 1
    BY <1>1, <1>9
  <2>2. frames' # <<>>
    BY <1>1, <1>9, <2>1, FrontEntries DEF Return
  <2>3. db'.rows = db.rows /\ db'.next_id = db.next_id /\ file' = db
    BY <1>1, <1>9, <2>1 DEF Return, Store, WriteNode, Db
  <2> QED
    BY <1>1, <2>2, <2>3 DEF OnlyPages
<1> QED
  BY <1>3, <1>4, <1>5, <1>6, <1>7, <1>8, <1>9 DEF Step

\* The last write of an insert stores its row.
LEMMA LastReturns ==
  ASSUME db \in Db, frames \in Seq(Frame), Return, Len(frames) = 1
  PROVE  /\ db'.rows = AllRows(db) /\ db'.next_id = db.next_id
         /\ file' = db /\ frames' = <<>>
<1>1. frames' \in Seq(Frame) /\ Len(frames') = 0
  <2>1. Front(frames) \in Seq(Frame) /\ Len(Front(frames)) = 0
    <3>1. frames # <<>>
      OBVIOUS
    <3> QED
      BY <3>1, FrontEntries
  <2> QED
    BY <2>1 DEF Return
<1> QED
  BY <1>1 DEF Return, Store, WriteNode, Db, AllRows, NewRow

\* A process that ends leaves one file, with the row of its insert or without.
LEMMA CrashStores ==
  ASSUME IInv, NEW d \in {db, file}, Crash(d)
  PROVE  /\ db'.rows = d.rows \union InProgress(d) /\ db'.next_id = d.next_id
         /\ file' = db' /\ frames' = <<>>
         /\ InProgress(db') = InProgress(d)
<1>1. d \in Db /\ db' = [d EXCEPT !.rows = d.rows \union InProgress(d)] /\ file' = db' /\ frames' = <<>>
  BY DEF IInv, Shapes, Crash
<1> DEFINE e == db'
           rows == d.rows \union InProgress(d)
<1>2. /\ e.node = d.node /\ e.nb_pages = d.nb_pages /\ e.next_id = d.next_id
      /\ e.rows = rows
  <2> HIDE DEF rows
  <2>1. e = [d EXCEPT !.rows = rows]
    BY <1>1 DEF rows
  <2> HIDE DEF e
  <2> QED
    BY ONLY <1>1, <2>1 DEF Db
<1> HIDE DEF e
<1>3. Found(e, e.next_id - 1) <=> Found(d, d.next_id - 1)
  <2>1. Found(e, d.next_id - 1) <=> Found(d, d.next_id - 1)
    BY ONLY <1>2, FoundOfNodes
  <2> QED
    BY ONLY <1>2, <2>1
<1>4. InProgress(e) = InProgress(d)
  BY ONLY <1>2, <1>3 DEF InProgress
<1> QED
  BY <1>1, <1>2, <1>4 DEF e

LEMMA InitBehind == Init => Behind
<1> SUFFICES ASSUME Init PROVE Behind
  OBVIOUS
<1>1. /\ db.rows = {} /\ db.next_id = 0 /\ file = db /\ frames = <<>> /\ db.nb_pages = 1
      /\ db.node = [p \in Page |-> IF p = Root THEN Leaf(NoPage, <<>>, NoPage) ELSE Blank]
  BY DEF Init
<1>2. ASSUME NEW key PROVE ~Found(db, key)
  <2>1. ASSUME NEW page \in Leaves(db) PROVE db.node[page].keys = <<>>
    <3>1. page \in Page /\ page \in 0..0
      BY <1>1, <2>1 DEF Leaves, Pages, Written
    <3> QED
      BY <1>1, <3>1 DEF Leaf, Root
  <2>2. ToSet(<<>>) = {}
    BY DEF ToSet
  <2> QED
    BY <2>1, <2>2 DEF Found
<1>3. InProgress(db) = {}
  BY <1>2 DEF InProgress
<1>4. 0 <= MaxKey + 1
  BY TableTreeAssumption
<1> QED
  BY <1>1, <1>3, <1>4 DEF Behind

LEMMA NextBehind == IInv /\ Behind /\ [Next]_vars => Behind'
<1> SUFFICES ASSUME IInv, Behind, [Next]_vars PROVE Behind'
  OBVIOUS
<1>1. db \in Db /\ file \in Db /\ frames \in Seq(Frame) /\ MaxKey \in Nat
  BY TableTreeAssumption DEF IInv, Shapes
<1>2. \A d \in {db, file} : /\ d.next_id \in Nat /\ d.rows \subseteq Nat
  BY <1>1 DEF Db, Key
<1>3. CASE insert
  <2>1. frames = <<>> /\ frames' # <<>> /\ file' = db /\ db' = get_next_id(db) /\ db.next_id <= MaxKey
    BY <1>3 DEF insert, Store
  <2>2. db'.rows = db.rows /\ db'.next_id = db.next_id + 1
    BY <1>1, <2>1 DEF get_next_id, Db
  <2>3. file'.next_id = NewRow(db')
    BY <1>2, <2>1, <2>2 DEF NewRow
  <2> QED
    BY <1>1, <1>2, <2>1, <2>2, <2>3 DEF Behind
<1>4. CASE Step /\ (Return => Len(frames) # 1)
  <2>1. OnlyPages
    BY <1>4, StepStoresPages
  <2>2. NewRow(db') = NewRow(db)
    BY <2>1 DEF OnlyPages, NewRow
  <2> QED
    BY <1>1, <1>2, <2>1, <2>2 DEF Behind, OnlyPages
<1>5. CASE Return /\ Len(frames) = 1
  <2>1. /\ db'.rows = AllRows(db) /\ db'.next_id = db.next_id /\ file' = db /\ frames' = <<>>
    BY <1>1, <1>5, LastReturns
  <2>2. NewRow(db') = NewRow(db) /\ NewRow(db) < db.next_id
    BY <1>2, <2>1 DEF NewRow
  <2>3. frames # <<>>
    BY <1>5
  <2>4. InProgress(db') \subseteq db'.rows /\ InProgress(file') \subseteq db'.rows
    BY <2>1, <2>2, InProgressIsNew DEF AllRows
  <2> QED
    BY <1>1, <1>2, <2>1, <2>2, <2>3, <2>4 DEF Behind, AllRows
<1>6. ASSUME NEW d \in {db, file}, Crash(d) PROVE Behind'
  <2>1. /\ db'.rows = d.rows \union InProgress(d) /\ db'.next_id = d.next_id
        /\ file' = db' /\ frames' = <<>> /\ InProgress(db') = InProgress(d)
    BY <1>6, CrashStores
  <2>2. \A k \in db'.rows : k < db'.next_id
    <3>1. NewRow(d) < d.next_id
      BY <1>2 DEF NewRow
    <3> QED
      BY <1>2, <2>1, <3>1, InProgressIsNew DEF Behind
  <2>3. d.next_id <= MaxKey + 1
    BY DEF Behind
  <2> QED
    BY <2>1, <2>2, <2>3 DEF Behind, AllRows
<1>7. CASE UNCHANGED vars
  BY <1>7 DEF vars, Behind, InProgress, NewRow, AllRows
<1> QED
  BY <1>3, <1>4, <1>5, <1>6, <1>7 DEF Next, Step, Exit, Kill

LEMMA AlwaysBehind == Spec => [](IInv /\ SearchInv /\ Behind)
<1>1. Init => IInv /\ SearchInv /\ Behind
  BY InitSound, InitSearches, InitBehind
<1>2. IInv /\ SearchInv /\ Behind /\ [Next]_vars => (IInv /\ SearchInv /\ Behind)'
  BY NextKeeps, NextSearches, NextBehind
<1> QED
  BY <1>1, <1>2, PTL DEF Spec

\* Between two inserts a search finds the rows that were stored and no other.
Exact == VisibleRows = db.rows

LEMMA SearchIsExact == IInv /\ SearchInv /\ Behind => Exact
<1> SUFFICES ASSUME IInv, SearchInv, Behind, frames = <<>>, ~lost
             PROVE  {k \in 0..MaxKey : Found(db, k)} = db.rows
  BY DEF Exact, VisibleRows
<1>1. Wellformed(db) /\ db \in Db /\ MaxKey \in Nat
  BY TableTreeAssumption DEF IInv, Shapes, Wellformed
<1>2. RootOK(db, db.node[Root], db.rows, db.rows)
  <2>1. Phase(db, frames) /\ Len(frames) = 0
    BY DEF SearchInv
  <2>2. Idle(db, frames)
    BY <2>1 DEF Phase, AddingRow, LeafSplit, LeafRootSplit, AddingChild, RootSplit,
                AddingHalf, WritingHalf
  <2> QED
    BY <2>2 DEF Idle
<1>3. ASSUME NEW k \in Key PROVE Found(db, k) <=> k \in db.rows
  <2>1. Root \in Pages(db) /\ Holds(db, db.node[Root], k, db.rows, db.rows)
    BY <1>2 DEF RootOK
  <2> QED
    BY <1>1, <2>1, HoldsIsFound
<1>4. db.rows \subseteq 0..MaxKey
  <2>1. db.next_id \in Nat /\ db.next_id <= MaxKey + 1 /\ db.rows \subseteq Nat
    BY <1>1 DEF Behind, Db, Key
  <2> QED
    BY <1>1, <2>1 DEF Behind
<1>5. 0..MaxKey \subseteq Key
  BY <1>1 DEF Key
<1> QED
  BY <1>3, <1>4, <1>5

\* A step of the tree is a step of the table.
TableStep == [AbstractTable!Next]_AbstractTable!vars

\* The state of the table after a step, in the terms of the tree
LEMMA StepOfTable ==
  ASSUME Exact, Exact',
         \/ /\ db'.rows = db.rows /\ db'.next_id = db.next_id /\ (frames' # <<>>) = (frames # <<>>)
         \/ /\ frames = <<>> /\ db.next_id <= MaxKey
            /\ db'.rows = db.rows /\ db'.next_id = db.next_id + 1 /\ frames' # <<>>
         \/ /\ frames # <<>>
            /\ db'.rows = AllRows(db) /\ db'.next_id = db.next_id /\ frames' = <<>>
         \/ /\ db'.rows \in {db.rows, db.rows \ {NewRow(db)}} \union
                            (IF frames # <<>> THEN {AllRows(db)} ELSE {})
            /\ db'.next_id \in {db.next_id} \union
                               (IF db'.rows \subseteq 0..(NewRow(db) - 1) THEN {NewRow(db)} ELSE {})
            /\ frames' = <<>>
  PROVE  TableStep
<1>1. VisibleRows = db.rows /\ VisibleRows' = db'.rows
  BY DEF Exact
<1> HIDE DEF VisibleRows
<1>2. CASE db'.rows = db.rows /\ db'.next_id = db.next_id /\ (frames' # <<>>) = (frames # <<>>)
  BY <1>1, <1>2 DEF TableStep, AbstractTable!vars
<1>3. CASE /\ frames = <<>> /\ db.next_id <= MaxKey
           /\ db'.rows = db.rows /\ db'.next_id = db.next_id + 1 /\ frames' # <<>>
  BY <1>1, <1>3 DEF TableStep, AbstractTable!Next, AbstractTable!TakeId
<1>4. CASE /\ frames # <<>>
           /\ db'.rows = AllRows(db) /\ db'.next_id = db.next_id /\ frames' = <<>>
  BY <1>1, <1>4 DEF TableStep, AbstractTable!Next, AbstractTable!Insert, AbstractTable!Last, AllRows, NewRow
<1>5. CASE /\ db'.rows \in {db.rows, db.rows \ {NewRow(db)}} \union
                           (IF frames # <<>> THEN {AllRows(db)} ELSE {})
           /\ db'.next_id \in {db.next_id} \union
                              (IF db'.rows \subseteq 0..(NewRow(db) - 1) THEN {NewRow(db)} ELSE {})
           /\ frames' = <<>>
  <2>1. AbstractTable!End
    BY <1>1, <1>5 DEF AbstractTable!End, AbstractTable!Last, AllRows, NewRow
  <2> QED
    BY <2>1 DEF TableStep, AbstractTable!Next
<1> QED
  BY <1>2, <1>3, <1>4, <1>5

LEMMA StepsImplementTable == IInv /\ Behind /\ Exact /\ Exact' /\ [Next]_vars => TableStep
<1> SUFFICES ASSUME IInv, Behind, Exact, Exact', [Next]_vars PROVE TableStep
  OBVIOUS
<1>1. db \in Db /\ file \in Db /\ frames \in Seq(Frame)
  BY DEF IInv, Shapes
<1>2. \A d \in {db, file} : /\ d.next_id \in Nat /\ d.rows \subseteq Nat
                            /\ \A k \in d.rows : k < d.next_id
  BY <1>1 DEF Db, Key, Behind
<1>3. CASE insert
  <2>1. frames = <<>> /\ frames' # <<>> /\ db' = get_next_id(db) /\ db.next_id <= MaxKey
    BY <1>3 DEF insert, Store
  <2>2. db'.rows = db.rows /\ db'.next_id = db.next_id + 1
    BY <1>1, <2>1 DEF get_next_id, Db
  <2> QED
    BY <2>1, <2>2, StepOfTable
<1>4. CASE Step /\ (Return => Len(frames) # 1)
  <2>1. OnlyPages
    BY <1>4, StepStoresPages
  <2> QED
    BY <2>1, StepOfTable DEF OnlyPages
<1>5. CASE Return /\ Len(frames) = 1
  <2>1. db'.rows = AllRows(db) /\ db'.next_id = db.next_id /\ frames' = <<>>
    BY <1>1, <1>5, LastReturns
  <2>2. frames # <<>>
    BY <1>5
  <2> QED
    BY <2>1, <2>2, StepOfTable
<1>6. CASE Exit
  <2>1. /\ db'.rows = db.rows \union InProgress(db) /\ db'.next_id = db.next_id /\ frames' = <<>>
    BY <1>6, CrashStores DEF Exit
  <2>2. InProgress(db) = {} \/ InProgress(db) = {NewRow(db)}
    BY InProgressIsNew
  <2>3. db'.rows = db.rows \/ (frames # <<>> /\ db'.rows = AllRows(db))
    BY <2>1, <2>2 DEF Behind, AllRows
  <2> QED
    BY <2>1, <2>3, StepOfTable
<1>7. CASE Kill
  <2>1. /\ db'.rows = file.rows \union InProgress(file) /\ db'.next_id = file.next_id /\ frames' = <<>>
    BY <1>7, CrashStores DEF Kill
  <2>2. InProgress(file) = {} \/ InProgress(file) = {NewRow(file)}
    BY InProgressIsNew
  <2>3. file.next_id = db.next_id => NewRow(file) = NewRow(db)
    BY DEF NewRow
  <2>4. CASE frames = <<>>
    <3>1. /\ file.next_id = db.next_id /\ file.rows \subseteq db.rows
          /\ db.rows \subseteq file.rows \union {NewRow(db)} /\ InProgress(file) \subseteq db.rows
      BY <2>3, <2>4 DEF Behind, AllRows
    <3>2. db'.rows = db.rows \/ db'.rows = db.rows \ {NewRow(db)}
      BY <2>1, <2>2, <3>1
    <3> QED
      BY <2>1, <3>1, <3>2, StepOfTable
  <2>5. CASE frames # <<>> /\ file.next_id = db.next_id
    <3>1. db'.rows = db.rows \/ db'.rows = AllRows(db)
      BY <2>1, <2>2, <2>3, <2>5 DEF Behind, AllRows
    <3> QED
      BY <2>1, <2>5, <3>1, StepOfTable
  <2>6. CASE frames # <<>> /\ file.next_id # db.next_id
    <3>1. /\ file.next_id = NewRow(db) /\ InProgress(file) \subseteq file.rows
          /\ file.rows = db.rows
      BY <2>6 DEF Behind
    <3>2. db'.rows = db.rows /\ db'.next_id = NewRow(db)
      BY <2>1, <3>1
    <3>3. db.rows \subseteq 0..(NewRow(db) - 1)
      BY <1>2, <3>1
    <3> QED
      BY <2>1, <3>2, <3>3, StepOfTable
  <2> QED
    BY <2>4, <2>5, <2>6
<1>8. CASE UNCHANGED vars
  BY <1>8, StepOfTable DEF vars
<1> QED
  BY <1>3, <1>4, <1>5, <1>6, <1>7, <1>8 DEF Next, Step

\* ImplementsTable: what searches find between two inserts is a table of rows
\* (Table): insert_row adds a whole row or none, also when the process ends
\* between two of its writes, and no id comes back once a row has had it.
THEOREM TreeIsATable == Spec => ImplementsTable
<1>1. Init /\ Exact => AbstractTable!Init
  BY DEF Init, Exact, AbstractTable!Init
<1>2. IInv /\ SearchInv /\ Behind => Exact
  BY SearchIsExact
<1>3. IInv /\ Behind /\ Exact /\ Exact' /\ [Next]_vars => [AbstractTable!Next]_AbstractTable!vars
  BY StepsImplementTable DEF TableStep
<1> QED
  BY <1>1, <1>2, <1>3, AlwaysBehind, PTL DEF Spec, ImplementsTable, AbstractTable!Spec
=============================================================================
