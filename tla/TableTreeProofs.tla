--------------------------- MODULE TableTreeProofs ---------------------------
(***************************************************************************)
(* Proofs about TableTree for every ORDER of the tree, any number of rows, *)
(* pages and ends of the process: every page is a node of the right shape, *)
(* an insert never reads a page that was not written, and no id is used    *)
(* twice.  Where rows are found is proved in TableTreeSearch.              *)
(***************************************************************************)
EXTENDS TableTree, SequenceLemmas

-----------------------------------------------------------------------------
\* The inductive invariant.  Addresses lead to pages that are written: parents to
\* interior nodes, which stay interior, and children to any node, except that
\* the new root lists the page its node is about to move to.

\* The records and sequences that the state is made of
Db == [next_id : Nat, nb_pages : 1..MaxPages, rows : SUBSET Key, torn : BOOLEAN,
       node : [Page -> Node \union {Blank}]]
Frame == [page : Page, node : Node, pc : {"split", "write", "root", "move", "sibling", "children", "up"},
          key : Key, sibling : Link, moved : Link, child : Nat]
Shapes == db \in Db /\ file \in Db /\ frames \in Seq(Frame)

\* Pages past the end are zeros, and the others hold no more than their keys.
NodesSound(d) == /\ \A p \in Page : p >= d.nb_pages => d.node[p] = Blank
                 /\ \A p \in Pages(d) : /\ NodeOK(d.node[p], ORDER - 1)
                                         /\ KeysBelow(d.node[p], d.next_id)

\* The parent of a node is none or an interior node.
Interiors(d) == {p \in Pages(d) : ~d.node[p].leaf}
Parents(d) == \A p \in Pages(d) : d.node[p].parent # NoPage => d.node[p].parent \in Interiors(d)

\* The children of a node are written, or in missing.
KidsIn(n, written) == \A i \in 1..Len(n.kids) : n.kids[i] \in written
Children(d, missing) == \A p \in Pages(d) : KidsIn(d.node[p], Pages(d) \union missing)
Missing == IF At("move") THEN {Top.moved} ELSE {}

\* A call holds a node of the kind its page has in the file, whose parent is an
\* interior node and whose children are written.
CallSound(d, f) ==
  /\ NodeOK(f.node, IF f.pc = "split" THEN ORDER ELSE ORDER - 1)
  /\ f.key < d.next_id /\ KeysBelow(f.node, d.next_id)
  /\ f.node.parent # NoPage => f.node.parent \in Interiors(d)
  /\ KidsIn(f.node, Pages(d))
  /\ f.pc = "split" => Len(f.node.keys) = ORDER
  /\ f.pc \in {"root", "move", "sibling", "children", "up"} => f.sibling \in Pages(d)
  /\ f.pc \in {"split", "root", "move", "sibling"} => f.child = 1
  /\ f.pc \in {"move", "sibling", "children", "up"} => f.node.parent # NoPage
  /\ f.pc = "move" => /\ f.moved \in 0..(d.nb_pages - 1) /\ d.node[f.moved] = Blank
                      /\ d.torn
  /\ f.pc \in {"sibling", "children"} => /\ f.moved \in Pages(d)
                                         /\ d.node[f.moved].leaf = f.node.leaf
  /\ IF f.pc \in {"move", "sibling"} THEN f.page \in Interiors(d)
     ELSE f.page \in Pages(d) /\ d.node[f.page].leaf = f.node.leaf
  /\ f.pc = "children" => /\ f.page = f.moved /\ ~f.node.leaf
                          /\ f.child \in 1..Len(f.node.kids)

\* Only the first call holds a leaf, and all but the last wait for their write.
CallsSound == \A i \in 1..Len(frames) :
                /\ CallSound(db, frames[i])
                /\ frames[i].node.leaf = (i = 1)
                /\ i < Len(frames) => frames[i].pc = "write"

\* After a crash inside create_root no insert starts, and the tree has no shape.
Sound == /\ lost => frames = <<>>
         /\ ~lost => /\ Parents(db) /\ Parents(file)
                     /\ Children(db, Missing)
                     /\ ~file.torn => Children(file, {})
                     /\ CallsSound

IInv == /\ Shapes
        /\ crashes \in 0..MaxCrashes /\ lost \in BOOLEAN
        /\ NodesSound(db) /\ NodesSound(file)
        /\ Sound

-----------------------------------------------------------------------------
\* Nodes

LEMMA BlankIsNoNode == ASSUME NEW n \in Node PROVE n # Blank
<1>1. "leaf" \in DOMAIN n
  BY DEF Node
<1>2. "leaf" \notin DOMAIN Blank
  BY DEF Blank
<1> QED
  BY <1>1, <1>2

\* The offset of a key is that of a cell, or the one after the last.
LEMMA OffsetRange ==
  ASSUME NEW n \in Node, NEW key \in Key
  PROVE  Offset(n, key) \in 0..Len(n.keys)
<1> DEFINE s == n.keys
           T == {c \in 0..Len(s) : c < Len(s) => key <= s[c + 1]}
<1>1. s \in Seq(Nat) /\ Len(s) \in Nat /\ key \in Nat
  BY DEF Node, Key
<1>2. T \in SUBSET Nat /\ Len(s) \in T
  BY <1>1
<1>3. PICK c \in T : \A y \in T : c <= y
  BY <1>2, LeastNumber
<1>4. ASSUME NEW i \in 1..c PROVE s[i] < key
  <2>1. i - 1 \in 0..Len(s) /\ i - 1 < Len(s) /\ i - 1 < c /\ (i - 1) + 1 = i /\ s[i] \in Nat
    <3>1. i \in Nat /\ c \in Nat /\ 1 <= i /\ i <= c /\ c <= Len(s)
      BY <1>1
    <3> HIDE DEF s, T
    <3>2. s[i] \in Nat
      BY ONLY <1>1, <3>1
    <3> QED
      BY ONLY <1>1, <3>1, <3>2
  <2>2. i - 1 \notin T
    BY <1>1, <1>3, <2>1
  <2> QED
    BY <1>1, <2>1, <2>2
<1>5. \E x \in 0..Len(n.keys) : /\ \A i \in 1..x : n.keys[i] < key
                                /\ x < Len(n.keys) => key <= n.keys[x + 1]
  BY <1>3, <1>4
<1> QED
  BY <1>5 DEF Offset

\* A row goes into a leaf, which gets one more key.
LEMMA WithRowNode ==
  ASSUME NEW n \in Node, NEW key \in Key
  PROVE  LET m == WithRow(n, key) IN
         /\ m \in Node
         /\ m.leaf = n.leaf /\ m.parent = n.parent /\ m.kids = n.kids
         /\ Len(m.keys) = Len(n.keys) + 1
         /\ \A bound \in Nat : key < bound /\ KeysBelow(n, bound) => KeysBelow(m, bound)
<1> DEFINE s == n.keys
           k == Offset(n, key) + 1
           t == InsertAt(s, k, key)
<1>1. s \in Seq(Key) /\ Len(s) \in Nat /\ k \in 1..(Len(s) + 1)
  BY OffsetRange DEF Node
<1> HIDE DEF k, s
<1>2. /\ t \in Seq(Key) /\ Len(t) = Len(s) + 1
      /\ \A j \in 1..(Len(s) + 1) : t[j] = IF j < k THEN s[j] ELSE IF j = k THEN key ELSE s[j - 1]
  BY <1>1, InsertAtEntries
<1>3. WithRow(n, key) = [n EXCEPT !.keys = t]
  BY DEF WithRow, k, s
<1> HIDE DEF t
<1>4. [n EXCEPT !.keys = t] \in Node /\ [n EXCEPT !.keys = t].keys = t
  BY <1>2 DEF Node
<1>5. ASSUME NEW bound \in Nat, key < bound, KeysBelow(n, bound), NEW i \in 1..Len(t)
      PROVE  t[i] < bound
  <2>1. \A j \in 1..Len(s) : s[j] \in Nat /\ s[j] < bound
    BY <1>1, <1>5 DEF KeysBelow, s, Key
  <2>2. t[i] = IF i < k THEN s[i] ELSE IF i = k THEN key ELSE s[i - 1]
    BY <1>2
  <2> QED
    BY <1>1, <1>2, <1>5, <2>1, <2>2
<1>6. \A bound \in Nat : key < bound /\ KeysBelow(n, bound) => KeysBelow([n EXCEPT !.keys = t], bound)
  BY <1>4, <1>5 DEF KeysBelow
<1> QED
  BY <1>2, <1>3, <1>4, <1>6 DEF Node, s

\* An interior node gets one more key and one more child.
LEMMA WithChildNode ==
  ASSUME NEW n \in Node, Len(n.kids) = Len(n.keys) + 1, NEW key \in Key, NEW page \in Page
  PROVE  LET m == WithChild(n, key, page) IN
         /\ m \in Node
         /\ m.leaf = n.leaf /\ m.parent = n.parent
         /\ Len(m.keys) = Len(n.keys) + 1 /\ Len(m.kids) = Len(n.kids) + 1
         /\ \A bound \in Nat : key < bound /\ KeysBelow(n, bound) => KeysBelow(m, bound)
         /\ \A W : page \in W /\ KidsIn(n, W) => KidsIn(m, W)
<1> DEFINE s == n.keys
           k == Offset(n, key) + 1
           l == Offset(n, key) + 2
           t == InsertAt(s, k, key)
           v == n.kids
           u == InsertAt(v, l, page)
           m == [n EXCEPT !.keys = t, !.kids = u]
<1>1. /\ s \in Seq(Key) /\ Len(s) \in Nat /\ k \in 1..(Len(s) + 1)
      /\ v \in Seq(Page) /\ Len(v) \in Nat /\ l \in 1..(Len(v) + 1)
  BY OffsetRange DEF Node
<1> HIDE DEF k, l, s, v
<1>2. /\ t \in Seq(Key) /\ Len(t) = Len(s) + 1
      /\ \A j \in 1..(Len(s) + 1) : t[j] = IF j < k THEN s[j] ELSE IF j = k THEN key ELSE s[j - 1]
  BY <1>1, InsertAtEntries
<1>3. /\ u \in Seq(Page) /\ Len(u) = Len(v) + 1
      /\ \A j \in 1..(Len(v) + 1) :
           u[j] = IF j < l THEN v[j] ELSE IF j = l THEN page ELSE v[j - 1]
  BY <1>1, InsertAtEntries
<1>4. WithChild(n, key, page) = m
  BY DEF WithChild, k, l, s, v
<1> HIDE DEF t, u
<1>5. /\ m \in Node /\ m.keys = t /\ m.kids = u
      /\ m.leaf = n.leaf /\ m.parent = n.parent
  BY <1>2, <1>3 DEF Node
<1>6. ASSUME NEW bound \in Nat, key < bound, KeysBelow(n, bound), NEW i \in 1..Len(t)
      PROVE  t[i] < bound
  <2>1. \A j \in 1..Len(s) : s[j] \in Nat /\ s[j] < bound
    BY SMTT(30), <1>1, <1>6 DEF KeysBelow, s, Key
  <2>2. t[i] = IF i < k THEN s[i] ELSE IF i = k THEN key ELSE s[i - 1]
    BY <1>2
  <2> QED
    BY <1>1, <1>2, <1>6, <2>1, <2>2
<1>7. ASSUME NEW W, page \in W, KidsIn(n, W), NEW i \in 1..Len(u)
      PROVE  u[i] \in W
  <2>1. u[i] = IF i < l THEN v[i] ELSE IF i = l THEN page ELSE v[i - 1]
    BY <1>3
  <2> QED
    BY <1>1, <1>3, <1>7, <2>1 DEF KidsIn, v
<1>8. \A bound \in Nat : key < bound /\ KeysBelow(n, bound) => KeysBelow(m, bound)
  BY <1>5, <1>6 DEF KeysBelow
<1>9. \A W : page \in W /\ KidsIn(n, W) => KidsIn(m, W)
  <2> HIDE DEF m
  <2> QED
    BY <1>5, <1>7 DEF KidsIn
<1> HIDE DEF m
<1> QED
  BY <1>2, <1>3, <1>4, <1>5, <1>8, <1>9 DEF s, v

\* A part of the keys or of the children of a node keeps their bounds.
LEMMA PartOfKeys ==
  ASSUME NEW n \in Node, NEW a \in Nat \ {0}, NEW b \in Nat, a <= b + 1, b <= Len(n.keys),
         NEW m \in Node, m.keys = SubSeq(n.keys, a, b)
  PROVE  /\ Len(m.keys) = b - a + 1
         /\ \A bound \in Nat : KeysBelow(n, bound) => KeysBelow(m, bound)
<1> DEFINE s == n.keys
<1>1. s \in Seq(Key) /\ Len(s) \in Nat
  BY DEF Node
<1> HIDE DEF s
<1>2. /\ Len(SubSeq(s, a, b)) = b - a + 1
      /\ \A j \in 1..(b - a + 1) : SubSeq(s, a, b)[j] = s[a + j - 1]
  BY <1>1, SubSeqEntries DEF s
<1>3. m.keys = SubSeq(s, a, b)
  BY DEF s
<1>4. ASSUME NEW bound \in Nat, KeysBelow(n, bound), NEW i \in 1..(b - a + 1)
      PROVE  m.keys[i] < bound
  <2>1. a + i - 1 \in 1..Len(s)
    BY <1>1 DEF s
  <2> QED
    BY <1>2, <1>3, <1>4, <2>1 DEF KeysBelow, s
<1> QED
  BY <1>2, <1>3, <1>4 DEF KeysBelow

LEMMA PartOfKids ==
  ASSUME NEW n \in Node, NEW a \in Nat \ {0}, NEW b \in Nat, a <= b + 1, b <= Len(n.kids),
         NEW m \in Node, m.kids = SubSeq(n.kids, a, b)
  PROVE  /\ Len(m.kids) = b - a + 1
         /\ \A W : KidsIn(n, W) => KidsIn(m, W)
<1> DEFINE s == n.kids
<1>1. s \in Seq(Page) /\ Len(s) \in Nat
  BY DEF Node
<1> HIDE DEF s
<1>2. /\ Len(SubSeq(s, a, b)) = b - a + 1
      /\ \A j \in 1..(b - a + 1) : SubSeq(s, a, b)[j] = s[a + j - 1]
  BY <1>1, SubSeqEntries DEF s
<1>3. m.kids = SubSeq(s, a, b)
  BY DEF s
<1>4. ASSUME NEW W, KidsIn(n, W), NEW i \in 1..(b - a + 1)
      PROVE  m.kids[i] \in W
  <2>1. a + i - 1 \in 1..Len(s)
    BY <1>1 DEF s
  <2> QED
    BY <1>2, <1>3, <1>4, <2>1 DEF KidsIn, s
<1> QED
  BY <1>2, <1>3, <1>4 DEF KidsIn

\* Both halves of a node of ORDER keys are nodes that need no split, with the
\* parent, keys and children of the one that was split.
HalfOf(m, n) == /\ m \in Node /\ NodeOK(m, ORDER - 1)
                /\ m.leaf = n.leaf /\ m.parent = n.parent
                /\ \A bound \in Nat : KeysBelow(n, bound) => KeysBelow(m, bound)
                /\ \A W : KidsIn(n, W) => KidsIn(m, W)

LEMMA HalfBounds == /\ Half \in Nat /\ 1 <= Half /\ Half + 2 <= ORDER + 1
                    /\ Half + 1 <= ORDER /\ ORDER \in Nat
  BY TableTreeAssumption DEF Half

LEMMA HalvesOfLeaf ==
  ASSUME NEW n \in Node, n.leaf, n.kids = <<>>, Len(n.keys) = ORDER, NEW page \in Page
  PROVE  HalfOf(LeftLeaf(n, page), n) /\ HalfOf(RightLeaf(n), n)
<1> DEFINE l == LeftLeaf(n, page)
           r == RightLeaf(n)
<1>1. n.keys \in Seq(Key) /\ n.parent \in Link
  BY DEF Node
<1>2. SubSeq(n.keys, 1, Half) \in Seq(Key) /\ SubSeq(n.keys, Half + 1, ORDER) \in Seq(Key)
  BY <1>1, HalfBounds, SubSeqEntries
<1>3. /\ l \in Node /\ l.leaf /\ l.parent = n.parent /\ l.kids = <<>>
      /\ l.keys = SubSeq(n.keys, 1, Half)
  BY <1>1, <1>2 DEF LeftLeaf, Leaf, Node, Link
<1>4. /\ r \in Node /\ r.leaf /\ r.parent = n.parent /\ r.kids = <<>>
      /\ r.keys = SubSeq(n.keys, Half + 1, ORDER)
  BY <1>1, <1>2 DEF RightLeaf, Leaf, Node, Link
<1> HIDE DEF l, r
<1>5. Len(l.keys) = Half /\ \A bound \in Nat : KeysBelow(n, bound) => KeysBelow(l, bound)
  BY <1>3, HalfBounds, PartOfKeys
<1>6. Len(r.keys) = ORDER - Half /\ \A bound \in Nat : KeysBelow(n, bound) => KeysBelow(r, bound)
  <2>1. /\ Half + 1 \in Nat \ {0} /\ ORDER \in Nat /\ Half + 1 <= ORDER + 1 /\ ORDER <= Len(n.keys)
        /\ ORDER - (Half + 1) + 1 = ORDER - Half
    BY HalfBounds
  <2> QED
    BY <1>4, <2>1, PartOfKeys
<1>7. \A W : KidsIn(l, W) /\ KidsIn(r, W)
  BY <1>3, <1>4 DEF KidsIn
<1>8. HalfOf(l, n)
  BY <1>3, <1>5, <1>7, HalfBounds DEF HalfOf, NodeOK
<1>9. HalfOf(r, n)
  BY <1>4, <1>6, <1>7, HalfBounds DEF HalfOf, NodeOK
<1> QED
  BY <1>8, <1>9 DEF l, r

LEMMA HalvesOfInterior ==
  ASSUME NEW n \in Node, ~n.leaf, Len(n.keys) = ORDER, Len(n.kids) = ORDER + 1
  PROVE  HalfOf(LeftInternal(n), n) /\ HalfOf(RightInternal(n), n)
<1> DEFINE l == LeftInternal(n)
           r == RightInternal(n)
           h == Half + 1
           k == Half + 2
           o == ORDER + 1
<1>1. n.keys \in Seq(Key) /\ n.kids \in Seq(Page) /\ n.parent \in Link
  BY DEF Node
<1>2. SubSeq(n.keys, 1, Half) \in Seq(Key) /\ SubSeq(n.keys, k, ORDER) \in Seq(Key)
  BY <1>1, HalfBounds, SubSeqEntries
<1>3. SubSeq(n.kids, 1, h) \in Seq(Page) /\ SubSeq(n.kids, k, o) \in Seq(Page)
  BY <1>1, HalfBounds, SubSeqEntries
<1>4. /\ l \in Node /\ l.leaf = FALSE /\ l.parent = n.parent
      /\ l.keys = SubSeq(n.keys, 1, Half) /\ l.kids = SubSeq(n.kids, 1, h)
  BY <1>1, <1>2, <1>3 DEF LeftInternal, Interior, Node, Link
<1>5. /\ r \in Node /\ r.leaf = FALSE /\ r.parent = n.parent
      /\ r.keys = SubSeq(n.keys, k, ORDER) /\ r.kids = SubSeq(n.kids, k, o)
  BY <1>1, <1>2, <1>3 DEF RightInternal, Interior, Node, Link
<1>6. /\ 1 \in Nat \ {0} /\ Half \in Nat /\ 1 <= Half + 1 /\ Half <= Len(n.keys)
      /\ h \in Nat /\ 1 <= h + 1 /\ h <= Len(n.kids)
  BY HalfBounds
<1>7. /\ k \in Nat \ {0} /\ ORDER \in Nat /\ k <= ORDER + 1 /\ ORDER <= Len(n.keys)
      /\ o \in Nat /\ k <= o + 1 /\ o <= Len(n.kids)
  BY HalfBounds
<1>8. /\ h - 1 + 1 = (Half - 1 + 1) + 1 /\ o - k + 1 = (ORDER - k + 1) + 1
      /\ Half - 1 + 1 <= ORDER - 1 /\ ORDER - k + 1 <= ORDER - 1
  BY HalfBounds
<1>9. n.leaf = FALSE
  BY DEF Node
<1> HIDE DEF l, r, h, k, o
<1>10. /\ Len(l.keys) = Half - 1 + 1
       /\ \A bound \in Nat : KeysBelow(n, bound) => KeysBelow(l, bound)
  <2>1. l \in Node /\ l.keys = SubSeq(n.keys, 1, Half)
    BY <1>4
  <2> QED
    BY <1>6, <2>1, PartOfKeys
<1>11. /\ Len(r.keys) = ORDER - k + 1
       /\ \A bound \in Nat : KeysBelow(n, bound) => KeysBelow(r, bound)
  <2>1. r \in Node /\ r.keys = SubSeq(n.keys, k, ORDER)
    BY <1>5
  <2> QED
    BY <1>7, <2>1, PartOfKeys
<1>12. Len(l.kids) = h - 1 + 1 /\ \A W : KidsIn(n, W) => KidsIn(l, W)
  <2>1. l \in Node /\ l.kids = SubSeq(n.kids, 1, h)
    BY <1>4
  <2> QED
    BY <1>6, <2>1, PartOfKids
<1>13. Len(r.kids) = o - k + 1 /\ \A W : KidsIn(n, W) => KidsIn(r, W)
  <2>1. r \in Node /\ r.kids = SubSeq(n.kids, k, o)
    BY <1>5
  <2> QED
    BY <1>7, <2>1, PartOfKids
<1>14. NodeOK(l, ORDER - 1) /\ NodeOK(r, ORDER - 1)
  BY <1>4, <1>5, <1>8, <1>10, <1>11, <1>12, <1>13 DEF NodeOK
<1>15. HalfOf(l, n)
  BY <1>4, <1>9, <1>10, <1>12, <1>14 DEF HalfOf
<1>16. HalfOf(r, n)
  BY <1>5, <1>9, <1>11, <1>13, <1>14 DEF HalfOf
<1> QED
  BY <1>15, <1>16 DEF l, r

-----------------------------------------------------------------------------
\* The file

LEMMA PagesAreNodes ==
  ASSUME NEW d \in Db, NEW p \in Pages(d)
  PROVE  p \in Page /\ p \in 0..(d.nb_pages - 1) /\ d.node[p] \in Node
  BY DEF Pages, Written, Db

\* create_addr changes no page.
LEMMA Creating ==
  ASSUME NEW d \in Db, d.nb_pages < MaxPages, NodesSound(d)
  PROVE  LET e == create_addr(d) IN
         /\ e \in Db /\ e.nb_pages = d.nb_pages + 1
         /\ e.node = d.node /\ e.next_id = d.next_id /\ e.torn = d.torn /\ e.rows = d.rows
         /\ Pages(e) = Pages(d) /\ Interiors(e) = Interiors(d)
         /\ NodesSound(e)
         /\ d.nb_pages \in Page /\ d.node[d.nb_pages] = Blank
<1> DEFINE e == create_addr(d)
<1>1. /\ e \in Db /\ e.nb_pages = d.nb_pages + 1
      /\ e.node = d.node /\ e.next_id = d.next_id /\ e.torn = d.torn /\ e.rows = d.rows
  BY TableTreeAssumption DEF create_addr, Db
<1>2. d.nb_pages \in Nat /\ MaxPages \in Nat
  BY TableTreeAssumption DEF Db
<1> HIDE DEF e
<1>3. d.nb_pages \in Page /\ d.node[d.nb_pages] = Blank
  BY <1>2 DEF Page, NodesSound
<1>4. Pages(e) = Pages(d)
  BY <1>1, <1>2, <1>3 DEF Pages, Written, Page
<1>5. Interiors(e) = Interiors(d)
  BY <1>1, <1>4 DEF Interiors
<1>6. \A p \in Page : p >= d.nb_pages + 1 => p >= d.nb_pages
  BY <1>2 DEF Page
<1>7. NodesSound(e)
  BY <1>1, <1>4, <1>6 DEF NodesSound
<1> QED
  BY <1>1, <1>3, <1>4, <1>5, <1>7 DEF e

\* write_node changes one page.
LEMMA Writing ==
  ASSUME NEW d \in Db, NEW page \in 0..(d.nb_pages - 1), NEW n \in Node
  PROVE  LET e == WriteNode(d, page, n) IN
         /\ e \in Db /\ e.nb_pages = d.nb_pages
         /\ e.next_id = d.next_id /\ e.torn = d.torn /\ e.rows = d.rows
         /\ page \in Page /\ e.node[page] = n
         /\ \A p \in Page \ {page} : e.node[p] = d.node[p]
         /\ Pages(e) = Pages(d) \union {page}
<1> DEFINE e == WriteNode(d, page, n)
<1>1. d.nb_pages \in 1..MaxPages /\ MaxPages \in Nat /\ d.node \in [Page -> Node \union {Blank}]
  BY TableTreeAssumption DEF Db
<1>2. page \in Page
  BY <1>1 DEF Page
<1>3. /\ e \in Db /\ e.nb_pages = d.nb_pages
      /\ e.next_id = d.next_id /\ e.torn = d.torn /\ e.rows = d.rows
      /\ e.node[page] = n
      /\ \A p \in Page \ {page} : e.node[p] = d.node[p]
  BY <1>1, <1>2 DEF WriteNode, Db
<1> HIDE DEF e
<1>4. n # Blank
  BY BlankIsNoNode
<1>5. Pages(e) = Pages(d) \union {page}
  BY <1>2, <1>3, <1>4 DEF Pages, Written
<1> QED
  BY <1>2, <1>3, <1>5 DEF e

\* What a write keeps: interior nodes stay interior if no leaf takes their place.
Fits(d, page, n) == /\ n \in Node /\ NodeOK(n, ORDER - 1) /\ KeysBelow(n, d.next_id)
                    /\ page \in Interiors(d) => ~n.leaf

LEMMA WriteKeeps ==
  ASSUME NEW d \in Db, NEW page \in 0..(d.nb_pages - 1), NEW n, Fits(d, page, n),
         Parents(d), NodesSound(d)
  PROVE  LET e == WriteNode(d, page, n) IN
         /\ Interiors(d) \subseteq Interiors(e)
         /\ ~n.leaf => page \in Interiors(e)
         /\ NodesSound(e)
         /\ (n.parent # NoPage => n.parent \in Interiors(e)) => Parents(e)
         /\ \A M, W : Children(d, M) /\ M \subseteq Pages(e) \union W /\ KidsIn(n, Pages(e) \union W)
                        => Children(e, W)
<1> DEFINE e == WriteNode(d, page, n)
<1>1. n \in Node
  BY DEF Fits
<1>2. /\ e \in Db /\ e.nb_pages = d.nb_pages /\ e.next_id = d.next_id
      /\ page \in Page /\ e.node[page] = n
      /\ \A p \in Page \ {page} : e.node[p] = d.node[p]
      /\ Pages(e) = Pages(d) \union {page}
  BY <1>1, Writing
<1> HIDE DEF e
<1>3. \A p \in Pages(d) : p \in Page
  BY DEF Pages
<1>4. Interiors(d) \subseteq Interiors(e)
  BY <1>2, <1>3 DEF Interiors, Fits
<1>5. ~n.leaf => page \in Interiors(e)
  BY <1>2 DEF Interiors
<1>6. NodesSound(e)
  <2>1. \A p \in Page : p >= e.nb_pages => e.node[p] = Blank
    <3> TAKE p \in Page
    <3> HAVE p >= e.nb_pages
    <3>1. p # page
      BY <1>2 DEF Db, Page
    <3> QED
      BY <1>2, <3>1 DEF NodesSound
  <2> QED
    BY <1>2, <1>3, <2>1 DEF NodesSound, Fits
<1>7. ASSUME n.parent # NoPage => n.parent \in Interiors(e)
      PROVE  Parents(e)
  BY <1>2, <1>3, <1>4, <1>7 DEF Parents
<1>8. ASSUME NEW M, NEW W, Children(d, M), M \subseteq Pages(e) \union W,
             KidsIn(n, Pages(e) \union W)
      PROVE  Children(e, W)
  <2> SUFFICES ASSUME NEW p \in Pages(e) PROVE KidsIn(e.node[p], Pages(e) \union W)
    BY DEF Children
  <2>1. CASE p = page
    BY <1>2, <1>8, <2>1
  <2>2. CASE p # page
    <3>1. p \in Pages(d) /\ e.node[p] = d.node[p]
      BY <1>2, <1>3, <2>2
    <3>2. KidsIn(d.node[p], Pages(d) \union M)
      BY <1>8, <3>1 DEF Children
    <3>3. Pages(d) \union M \subseteq Pages(e) \union W
      BY <1>2, <1>8
    <3> QED
      BY <3>1, <3>2, <3>3 DEF KidsIn
  <2> QED
    BY <2>1, <2>2
<1>9. \A M, W : Children(d, M) /\ M \subseteq Pages(e) \union W /\ KidsIn(n, Pages(e) \union W)
                  => Children(e, W)
  BY <1>8
<1> QED
  BY <1>4, <1>5, <1>6, <1>7, <1>9 DEF e

-----------------------------------------------------------------------------
\* The calls

\* A step that keeps nodes where they are and what they are.
Grows(d, e) == /\ Pages(d) \subseteq Pages(e) /\ Interiors(d) \subseteq Interiors(e)
               /\ \A p \in Pages(d) : e.node[p].leaf = d.node[p].leaf
               /\ e.next_id = d.next_id

LEMMA CallSurvives ==
  ASSUME NEW d \in Db, NEW e \in Db, NEW f \in Frame, f.pc = "write", CallSound(d, f), Grows(d, e)
  PROVE  CallSound(e, f)
<1>1. KidsIn(f.node, Pages(e))
  BY DEF CallSound, KidsIn, Grows
<1>2. f.page \in Pages(e) /\ e.node[f.page].leaf = f.node.leaf
  BY DEF CallSound, Grows
<1>3. f.node.parent # NoPage => f.node.parent \in Interiors(e)
  BY DEF CallSound, Grows
<1>4. /\ NodeOK(f.node, ORDER - 1)
      /\ f.key < e.next_id /\ KeysBelow(f.node, e.next_id)
  BY DEF CallSound, Grows
<1> QED
  BY <1>1, <1>2, <1>3, <1>4 DEF CallSound

MissingOf(f) == IF f.pc = "move" THEN {f.moved} ELSE {}

LEMMA TopCall ==
  ASSUME IInv, frames # <<>>
  PROVE  /\ ~lost /\ Parents(db) /\ Parents(file) /\ Children(db, MissingOf(Top))
         /\ Len(frames) \in Nat \ {0} /\ Top \in Frame
         /\ CallSound(db, Top) /\ Top.node.leaf = (Len(frames) = 1)
         /\ CallsSound
<1>1. Len(frames) \in Nat \ {0} /\ Len(frames) \in 1..Len(frames) /\ Top \in Frame
  BY DEF IInv, Shapes, Top
<1>2. ~lost
  BY DEF IInv, Sound
<1>3. CallsSound /\ Parents(db) /\ Parents(file) /\ Children(db, Missing)
  BY <1>2 DEF IInv, Sound
<1>4. Missing = MissingOf(Top)
  BY DEF Missing, At, MissingOf
<1> QED
  BY <1>1, <1>2, <1>3, <1>4 DEF CallsSound, Top

\* A step of the last call that leaves it in progress.
LEMMA TopStep ==
  ASSUME IInv, frames # <<>>, NEW f \in Frame, SetTop(f), UNCHANGED <<crashes, lost>>,
         db' \in Db, NodesSound(db)', Parents(db)', Children(db, MissingOf(f))',
         file' \in Db, NodesSound(file)', Parents(file)', (~file.torn => Children(file, {}))',
         CallSound(db, f)', f.node.leaf = Top.node.leaf,
         Len(frames) > 1 => Grows(db, db')
  PROVE  IInv'
<1> DEFINE n == Len(frames)
<1>1. n \in Nat \ {0} /\ frames \in Seq(Frame) /\ ~lost /\ CallsSound /\ Top.node.leaf = (n = 1)
  BY TopCall DEF IInv, Shapes
<1>2. frames' = [frames EXCEPT ![n] = f]
  BY DEF SetTop
<1> HIDE DEF n
<1>3. /\ frames' \in Seq(Frame) /\ Len(frames') = n /\ frames'[n] = f
      /\ \A i \in 1..(n - 1) : frames'[i] = frames[i]
  BY <1>1, <1>2, ExceptSeq DEF n
<1>4. Missing' = MissingOf(f)'
  BY <1>1, <1>3 DEF Missing, At, Top, MissingOf
<1>5. CallsSound'
  <2> SUFFICES ASSUME NEW i \in 1..n
               PROVE  /\ CallSound(db', frames'[i])
                      /\ frames'[i].node.leaf = (i = 1)
                      /\ i < n => frames'[i].pc = "write"
    BY <1>3 DEF CallsSound
  <2>1. CASE i = n
    BY <1>1, <1>3, <2>1
  <2>2. CASE i # n
    <3>1. i \in 1..(n - 1) /\ n > 1 /\ i \in 1..Len(frames) /\ i < Len(frames)
      BY <1>1, <2>2 DEF n
    <3>2. frames'[i] = frames[i] /\ frames[i] \in Frame
      BY <1>1, <1>3, <3>1
    <3>3. /\ CallSound(db, frames[i]) /\ frames[i].pc = "write"
          /\ frames[i].node.leaf = (i = 1)
      BY <1>1, <3>1 DEF CallsSound
    <3>4. Grows(db, db')
      BY <3>1 DEF n
    <3>5. CallSound(db', frames[i])
      BY <3>2, <3>3, <3>4, CallSurvives DEF IInv, Shapes
    <3> QED
      BY <3>2, <3>3, <3>5
  <2> QED
    BY <2>1, <2>2
<1>6. Sound'
  BY <1>1, <1>4, <1>5 DEF Sound
<1> QED
  BY <1>3, <1>6 DEF IInv, Shapes

LEMMA MoreWritten == ASSUME NEW n, NEW V, NEW W, KidsIn(n, V), V \subseteq W PROVE KidsIn(n, W)
  BY DEF KidsIn

\* What a change of rows or torn leaves alone.
LEMMA SameNodes ==
  ASSUME NEW d, NEW e, e.node = d.node, e.nb_pages = d.nb_pages, e.next_id = d.next_id
  PROVE  /\ Pages(e) = Pages(d) /\ Interiors(e) = Interiors(d)
         /\ Parents(d) => Parents(e)
         /\ NodesSound(d) => NodesSound(e)
         /\ \A M : Children(d, M) => Children(e, M)
<1>1. Pages(e) = Pages(d)
  BY DEF Pages, Written
<1>2. Interiors(e) = Interiors(d)
  BY <1>1 DEF Interiors
<1> QED
  BY <1>1, <1>2 DEF Parents, NodesSound, Children

-----------------------------------------------------------------------------
\* The steps: each of TableTree keeps the invariant.

\* A split stores the new half at a page that is past the end of the file.
LEMMA SplitStep ==
  ASSUME IInv, At("split"), NEW left, NEW right, HalfOf(left, Top.node), HalfOf(right, Top.node),
         Split(left, right)
  PROVE  IInv'
<1> DEFINE c == create_addr(db)
           e == WriteNode(c, NewPage, right)
           f == Halved(left)
<1>1. /\ frames # <<>> /\ Top.pc = "split" /\ Top \in Frame /\ CallSound(db, Top)
      /\ Parents(db) /\ Children(db, {}) /\ db \in Db /\ NodesSound(db)
  BY TopCall DEF At, MissingOf, IInv, Shapes
<1>2. /\ db.nb_pages < MaxPages /\ db' = e /\ file' = c /\ UNCHANGED <<crashes, lost>> /\ SetTop(f)
  BY DEF Split, StoreTwo, NewPage
<1>3. /\ c \in Db /\ c.nb_pages = db.nb_pages + 1
      /\ c.node = db.node /\ c.next_id = db.next_id /\ c.torn = db.torn
      /\ Pages(c) = Pages(db) /\ Interiors(c) = Interiors(db) /\ NodesSound(c)
      /\ NewPage \in Page /\ db.node[NewPage] = Blank
  BY <1>1, <1>2, Creating DEF NewPage
<1>4. Parents(c) /\ Children(c, {})
  BY <1>1, <1>3 DEF Parents, Children
<1>5. NewPage \notin Pages(db) /\ NewPage \in 0..(c.nb_pages - 1)
  BY <1>1, <1>3 DEF Pages, Written, NewPage, Db
<1> HIDE DEF c
<1>6. /\ right \in Node /\ left \in Node /\ NodeOK(right, ORDER - 1) /\ NodeOK(left, ORDER - 1)
      /\ left.leaf = Top.node.leaf /\ left.parent = Top.node.parent /\ right.parent = Top.node.parent
      /\ KeysBelow(right, db.next_id) /\ KeysBelow(left, db.next_id)
      /\ KidsIn(left, Pages(db)) /\ KidsIn(right, Pages(db))
  BY <1>1 DEF HalfOf, CallSound, Db
<1>7. Fits(c, NewPage, right)
  BY <1>3, <1>5, <1>6 DEF Fits, Interiors
<1>8. /\ e \in Db /\ e.next_id = db.next_id /\ e.torn = db.torn
      /\ \A p \in Page \ {NewPage} : e.node[p] = db.node[p]
      /\ Pages(e) = Pages(db) \union {NewPage}
  BY <1>3, <1>5, <1>6, Writing
<1>9. /\ Interiors(db) \subseteq Interiors(e) /\ NodesSound(e)
      /\ (right.parent # NoPage => right.parent \in Interiors(e)) => Parents(e)
      /\ \A M, W : Children(c, M) /\ M \subseteq Pages(e) \union W /\ KidsIn(right, Pages(e) \union W)
                     => Children(e, W)
  BY <1>3, <1>4, <1>5, <1>7, WriteKeeps
<1> HIDE DEF e
<1>10. Parents(e)
  BY <1>1, <1>6, <1>9 DEF CallSound
<1>11. KidsIn(right, Pages(e) \union {}) /\ KidsIn(left, Pages(e))
  BY <1>6, <1>8, MoreWritten
<1>12. Children(e, {})
  BY <1>4, <1>9, <1>11
<1>13. Grows(db, e)
  BY <1>5, <1>8, <1>9 DEF Grows, Pages
<1>14. /\ f \in Frame /\ f.pc \in {"root", "up"} /\ f.node = left /\ f.sibling = NewPage
       /\ f.pc = (IF left.parent = NoPage THEN "root" ELSE "up")
       /\ f.key = Top.node.keys[Half + 1] /\ f.page = Top.page /\ f.child = Top.child
  <2>1. Top.node.keys[Half + 1] \in Key
    BY <1>1, HalfBounds DEF Frame, Node, CallSound
  <2>2. NewPage \in Link
    BY <1>3 DEF Link
  <2> QED
    BY <1>1, <1>6, <2>1, <2>2 DEF Halved, Frame
<1> HIDE DEF f
<1>15. f.key < e.next_id
  BY <1>1, <1>8, <1>14, HalfBounds DEF CallSound, KeysBelow
<1>16. f.page \in Pages(e) /\ e.node[f.page].leaf = f.node.leaf
  BY <1>1, <1>6, <1>13, <1>14 DEF CallSound, Grows
<1>17. f.node.parent # NoPage => f.node.parent \in Interiors(e)
  BY <1>1, <1>6, <1>9, <1>14 DEF CallSound
<1>18. CallSound(e, f)
  BY <1>1, <1>6, <1>8, <1>11, <1>14, <1>15, <1>16, <1>17 DEF CallSound
<1>19. MissingOf(f) = {}
  BY <1>14 DEF MissingOf
<1> QED
  BY <1>1, <1>2, <1>3, <1>4, <1>6, <1>8, <1>9, <1>10, <1>12, <1>13, <1>14, <1>18, <1>19, TopStep

LEMMA SplitLeafStep == ASSUME IInv, split_leaf_node PROVE IInv'
<1>1. /\ At("split") /\ Top.node.leaf /\ NewPage < MaxPages
      /\ Split(LeftLeaf(Top.node, NewPage), RightLeaf(Top.node))
  BY DEF split_leaf_node, Split
<1>2. /\ Top \in Frame /\ CallSound(db, Top) /\ Top.pc = "split" /\ NodesSound(db) /\ db \in Db
  BY <1>1, TopCall DEF At, IInv, Shapes
<1>3. NewPage \in Page
  BY <1>1, <1>2, Creating DEF NewPage
<1>4. /\ Top.node \in Node /\ Len(Top.node.keys) = ORDER
      /\ Top.node.kids \in Seq(Page) /\ Len(Top.node.kids) = 0
  BY <1>1, <1>2 DEF Frame, CallSound, NodeOK, Node
<1>5. Top.node.kids = <<>>
  BY <1>4
<1>6. HalfOf(LeftLeaf(Top.node, NewPage), Top.node) /\ HalfOf(RightLeaf(Top.node), Top.node)
  BY <1>1, <1>3, <1>4, <1>5, HalvesOfLeaf
<1> QED
  BY <1>1, <1>6, SplitStep

LEMMA SplitInternalStep == ASSUME IInv, split_internal_node PROVE IInv'
<1>1. /\ At("split") /\ ~Top.node.leaf /\ NewPage < MaxPages
      /\ Split(LeftInternal(Top.node), RightInternal(Top.node))
  BY DEF split_internal_node, Split
<1>2. Top \in Frame /\ CallSound(db, Top) /\ Top.pc = "split"
  BY <1>1, TopCall DEF At
<1>3. Top.node \in Node /\ Len(Top.node.keys) = ORDER /\ Len(Top.node.kids) = ORDER + 1
  BY <1>1, <1>2 DEF Frame, CallSound, NodeOK
<1>4. HalfOf(LeftInternal(Top.node), Top.node) /\ HalfOf(RightInternal(Top.node), Top.node)
  BY <1>1, <1>3, HalvesOfInterior
<1> QED
  BY <1>1, <1>4, SplitStep

\* create_root turns the page of its node, a leaf only when no call waits, into
\* an interior node that lists the page the node moves to.
LEMMA CreateRootStep == ASSUME IInv, create_root PROVE IInv'
<1> DEFINE c == create_addr(db)
           r == Interior(NoPage, <<>>, <<NewPage>>)
           w == WriteNode(c, Top.page, r)
           e == [w EXCEPT !.torn = TRUE]
           f == [Top EXCEPT !.pc = "move", !.moved = NewPage, !.node.parent = Top.page]
<1>1. /\ frames # <<>> /\ Top.pc = "root" /\ Top \in Frame /\ CallSound(db, Top)
      /\ Top.node.leaf = (Len(frames) = 1) /\ Len(frames) \in Nat \ {0}
      /\ Parents(db) /\ Children(db, {}) /\ db \in Db /\ NodesSound(db)
  BY TopCall DEF create_root, At, MissingOf, IInv, Shapes
<1>2. /\ db.nb_pages < MaxPages /\ db' = e /\ file' = c /\ UNCHANGED <<crashes, lost>> /\ SetTop(f)
  BY DEF create_root, StoreTwo, NewPage
<1>3. /\ c \in Db /\ c.nb_pages = db.nb_pages + 1
      /\ c.node = db.node /\ c.next_id = db.next_id
      /\ Pages(c) = Pages(db) /\ Interiors(c) = Interiors(db) /\ NodesSound(c)
      /\ NewPage \in Page /\ db.node[NewPage] = Blank
  BY <1>1, <1>2, Creating DEF NewPage
<1>4. Parents(c) /\ Children(c, {})
  BY <1>1, <1>3 DEF Parents, Children
<1>5. NewPage \notin Pages(db) /\ NewPage \in 0..(c.nb_pages - 1)
  BY <1>1, <1>3 DEF Pages, Written, NewPage, Db
<1>6. Top.page \in Pages(db) /\ db.node[Top.page].leaf = Top.node.leaf /\ Top.page \in Page
  BY <1>1 DEF CallSound, Pages
<1>7. Top.page \in 0..(c.nb_pages - 1) /\ Top.page # NewPage
  BY <1>1, <1>3, <1>5, <1>6, PagesAreNodes DEF Db
<1>8. /\ r \in Node /\ r.leaf = FALSE /\ r.parent = NoPage /\ r.keys = <<>> /\ r.kids = <<NewPage>>
  BY <1>3 DEF Interior, Node, Link
<1>9. NodeOK(r, ORDER - 1) /\ KeysBelow(r, c.next_id)
  <2>1. Len(r.keys) = 0 /\ Len(r.kids) = 1 /\ 0 <= ORDER - 1
    BY <1>8, HalfBounds
  <2> HIDE DEF r
  <2> QED
    BY <1>8, <2>1 DEF NodeOK, KeysBelow
<1> HIDE DEF c, r
<1>10. Fits(c, Top.page, r)
  BY <1>8, <1>9 DEF Fits
<1>11. /\ w \in Db /\ w.next_id = db.next_id /\ w.nb_pages = c.nb_pages
       /\ w.node[Top.page] = r
       /\ \A p \in Page \ {Top.page} : w.node[p] = db.node[p]
       /\ Pages(w) = Pages(db) \union {Top.page}
  BY <1>3, <1>7, <1>8, Writing
<1>12. /\ Interiors(db) \subseteq Interiors(w) /\ Top.page \in Interiors(w) /\ NodesSound(w)
       /\ Parents(w)
       /\ \A M, W : Children(c, M) /\ M \subseteq Pages(w) \union W /\ KidsIn(r, Pages(w) \union W)
                      => Children(w, W)
  BY <1>3, <1>4, <1>7, <1>8, <1>10, WriteKeeps
<1> HIDE DEF w
<1>13. Children(w, {NewPage})
  <2>1. KidsIn(r, Pages(w) \union {NewPage})
    BY <1>8 DEF KidsIn
  <2> QED
    BY <1>4, <1>12, <2>1
<1>14. /\ e \in Db /\ e.node = w.node /\ e.nb_pages = w.nb_pages /\ e.next_id = w.next_id /\ e.torn = TRUE
  BY <1>11 DEF Db
<1> HIDE DEF e
<1>15. /\ Pages(e) = Pages(db) /\ Interiors(db) \subseteq Interiors(e) /\ Top.page \in Interiors(e)
       /\ NodesSound(e) /\ Parents(e) /\ Children(e, {NewPage})
  BY SMTT(30), <1>6, <1>11, <1>12, <1>13, <1>14, SameNodes
<1>16. /\ f \in Frame /\ f.pc = "move" /\ f.moved = NewPage /\ f.page = Top.page
       /\ f.key = Top.key /\ f.sibling = Top.sibling /\ f.child = Top.child
       /\ f.node \in Node /\ f.node.leaf = Top.node.leaf /\ f.node.parent = Top.page
       /\ f.node.keys = Top.node.keys /\ f.node.kids = Top.node.kids
  BY <1>1, <1>3 DEF Frame, Node, Link
<1> HIDE DEF f
<1>17. NodeOK(f.node, ORDER - 1)
  BY <1>1, <1>16 DEF CallSound, NodeOK
<1>18. f.key < e.next_id /\ KeysBelow(f.node, e.next_id) /\ KidsIn(f.node, Pages(e))
  BY <1>1, <1>11, <1>14, <1>15, <1>16 DEF CallSound, KeysBelow, KidsIn
<1>19. f.moved \in 0..(e.nb_pages - 1) /\ e.node[f.moved] = Blank
  BY <1>3, <1>5, <1>7, <1>11, <1>14, <1>16
<1>20. f.sibling \in Pages(e) /\ f.child = 1 /\ f.node.parent # NoPage
  BY <1>1, <1>6, <1>15, <1>16 DEF CallSound, Page, NoPage
<1>21. CallSound(e, f)
  BY <1>14, <1>15, <1>16, <1>17, <1>18, <1>19, <1>20 DEF CallSound
<1>22. ASSUME Len(frames) > 1 PROVE Grows(db, e)
  <2>1. ~Top.node.leaf
    <3>1. Len(frames) \in Nat
      BY TopCall, <1>1
    <3>2. Len(frames) # 1
      <4> DEFINE n == Len(frames)
      <4>1. n \in Nat /\ n > 1
        BY <1>22, <3>1
      <4> HIDE DEF n
      <4>2. n # 1
        BY <4>1
      <4> QED
        BY <4>2 DEF n
    <3> QED
      BY <1>1, <3>2, Zenon
  <2>2. ASSUME NEW p \in Pages(db) PROVE e.node[p].leaf = db.node[p].leaf
    <3>1. CASE p = Top.page
      <4>1. e.node[p].leaf = FALSE
        BY <1>8, <1>11, <1>14, <3>1
      <4>2. Top.node.leaf = FALSE
        BY <1>1, <2>1 DEF Frame, Node
      <4> QED
        BY <1>6, <3>1, <4>1, <4>2
    <3>2. CASE p # Top.page
      BY <1>11, <1>14, <3>2 DEF Pages
    <3> QED
      BY <3>1, <3>2
  <2> QED
    BY <1>11, <1>14, <1>15, <2>2 DEF Grows
<1>23. MissingOf(f) = {NewPage}
  BY <1>16 DEF MissingOf
<1> QED
  BY <1>1, <1>2, <1>3, <1>4, <1>14, <1>15, <1>16, <1>21, <1>22, <1>23, TopStep

\* The node arrives at a page of zeros, to which only the new root leads.
LEMMA MoveNodeStep == ASSUME IInv, MoveNode PROVE IInv'
<1> DEFINE e == WriteNode(db, Top.moved, Top.node)
           f == [Top EXCEPT !.pc = "sibling"]
<1>1. /\ frames # <<>> /\ Top.pc = "move" /\ Top \in Frame /\ CallSound(db, Top)
      /\ Parents(db) /\ Children(db, {Top.moved}) /\ db \in Db /\ NodesSound(db)
  BY TopCall DEF MoveNode, At, MissingOf, IInv, Shapes
<1>2. db' = e /\ file' = db /\ UNCHANGED <<crashes, lost>> /\ SetTop(f)
  BY DEF MoveNode, Store
<1>3. /\ Top.node \in Node /\ NodeOK(Top.node, ORDER - 1) /\ KeysBelow(Top.node, db.next_id)
      /\ Top.moved \in 0..(db.nb_pages - 1) /\ db.node[Top.moved] = Blank /\ db.torn
      /\ Top.page \in Interiors(db) /\ Top.sibling \in Pages(db)
      /\ KidsIn(Top.node, Pages(db))
      /\ Top.node.parent # NoPage => Top.node.parent \in Interiors(db)
  BY <1>1 DEF CallSound, Frame
<1>4. Top.moved \notin Pages(db)
  BY <1>3 DEF Pages, Written
<1>5. Fits(db, Top.moved, Top.node)
  BY <1>3, <1>4 DEF Fits, Interiors
<1>6. /\ e \in Db /\ e.next_id = db.next_id /\ e.node[Top.moved] = Top.node
      /\ \A p \in Page \ {Top.moved} : e.node[p] = db.node[p]
      /\ Pages(e) = Pages(db) \union {Top.moved}
  BY <1>1, <1>3, Writing
<1>7. /\ Interiors(db) \subseteq Interiors(e) /\ NodesSound(e)
      /\ (Top.node.parent # NoPage => Top.node.parent \in Interiors(e)) => Parents(e)
      /\ \A M, W : Children(db, M) /\ M \subseteq Pages(e) \union W /\ KidsIn(Top.node, Pages(e) \union W)
                     => Children(e, W)
  BY <1>1, <1>3, <1>5, WriteKeeps
<1> HIDE DEF e
<1>8. Parents(e)
  BY <1>3, <1>7
<1>9. KidsIn(Top.node, Pages(e) \union {}) /\ KidsIn(Top.node, Pages(e))
  BY <1>3, <1>6, MoreWritten
<1>10. Children(e, {})
  BY <1>1, <1>6, <1>7, <1>9
<1>11. Grows(db, e)
  BY <1>4, <1>6, <1>7 DEF Grows, Pages
<1>12. /\ f \in Frame /\ f.pc = "sibling" /\ f.node = Top.node /\ f.page = Top.page
       /\ f.moved = Top.moved /\ f.sibling = Top.sibling /\ f.key = Top.key /\ f.child = Top.child
  BY <1>1 DEF Frame
<1> HIDE DEF f
<1>13. CallSound(e, f)
  BY <1>1, <1>3, <1>6, <1>7, <1>9, <1>12 DEF CallSound
<1>14. MissingOf(f) = {}
  BY <1>12 DEF MissingOf
<1>15. ~db.torn => Children(db, {})
  BY <1>3
<1> QED
  BY <1>1, <1>2, <1>6, <1>7, <1>8, <1>10, <1>11, <1>12, <1>13, <1>14, <1>15, TopStep

\* A write that only tells a node its new parent.
LEMMA TellParent ==
  ASSUME NEW d \in Db, Parents(d), NodesSound(d), Children(d, {}),
         NEW page \in Pages(d), NEW parent \in Interiors(d)
  PROVE  LET e == WriteNode(d, page, [d.node[page] EXCEPT !.parent = parent]) IN
         /\ e \in Db /\ NodesSound(e) /\ Parents(e) /\ Children(e, {})
         /\ Grows(d, e) /\ e.torn = d.torn /\ Pages(e) = Pages(d)
<1> DEFINE n == [d.node[page] EXCEPT !.parent = parent]
           e == WriteNode(d, page, n)
<1>1. page \in Page /\ page \in 0..(d.nb_pages - 1) /\ d.node[page] \in Node /\ parent \in Page
  BY PagesAreNodes DEF Interiors, Pages
<1>2. /\ n \in Node /\ n.leaf = d.node[page].leaf /\ n.parent = parent
      /\ n.keys = d.node[page].keys /\ n.kids = d.node[page].kids
  BY <1>1 DEF Node, Link
<1> HIDE DEF n
<1>3. NodeOK(d.node[page], ORDER - 1) /\ KeysBelow(d.node[page], d.next_id)
  BY DEF NodesSound
<1>4. NodeOK(n, ORDER - 1) /\ KeysBelow(n, d.next_id)
  BY <1>2, <1>3 DEF NodeOK, KeysBelow
<1>5. Fits(d, page, n)
  BY <1>2, <1>4 DEF Fits, Interiors
<1>6. /\ e \in Db /\ e.next_id = d.next_id /\ e.torn = d.torn /\ e.node[page] = n
      /\ \A p \in Page \ {page} : e.node[p] = d.node[p]
      /\ Pages(e) = Pages(d) \union {page}
  BY <1>1, <1>2, Writing
<1>7. /\ Interiors(d) \subseteq Interiors(e) /\ NodesSound(e)
      /\ (n.parent # NoPage => n.parent \in Interiors(e)) => Parents(e)
      /\ \A M, W : Children(d, M) /\ M \subseteq Pages(e) \union W /\ KidsIn(n, Pages(e) \union W)
                     => Children(e, W)
  BY <1>1, <1>5, WriteKeeps
<1> HIDE DEF e
<1>8. Parents(e)
  BY <1>2, <1>7
<1>9. KidsIn(n, Pages(e) \union {})
  BY <1>2, <1>6 DEF Children, KidsIn
<1>10. Children(e, {})
  BY <1>7, <1>9
<1>11. Grows(d, e)
  BY <1>2, <1>6, <1>7 DEF Grows, Pages
<1> QED
  BY <1>6, <1>7, <1>8, <1>10, <1>11 DEF e, n

LEMMA UpdateSiblingStep == ASSUME IInv, UpdateSibling PROVE IInv'
<1> DEFINE e == WriteNode(db, Top.sibling, [db.node[Top.sibling] EXCEPT !.parent = Top.page])
           f == [Top EXCEPT !.pc = IF Top.node.leaf THEN "up" ELSE "children",
                            !.page = Top.moved]
<1>1. /\ frames # <<>> /\ Top.pc = "sibling" /\ Top \in Frame /\ CallSound(db, Top)
      /\ Parents(db) /\ Children(db, {}) /\ db \in Db /\ NodesSound(db)
  BY TopCall DEF UpdateSibling, At, MissingOf, IInv, Shapes
<1>2. db' = e /\ file' = db /\ UNCHANGED <<crashes, lost>> /\ SetTop(f)
  BY DEF UpdateSibling, Store
<1>3. /\ Top.node \in Node /\ NodeOK(Top.node, ORDER - 1) /\ KeysBelow(Top.node, db.next_id)
      /\ Top.key < db.next_id /\ Top.child = 1
      /\ Top.moved \in Pages(db) /\ db.node[Top.moved].leaf = Top.node.leaf
      /\ Top.page \in Interiors(db) /\ Top.sibling \in Pages(db)
      /\ KidsIn(Top.node, Pages(db))
      /\ Top.node.parent # NoPage => Top.node.parent \in Interiors(db)
  BY <1>1 DEF CallSound, Frame
<1>4. /\ e \in Db /\ NodesSound(e) /\ Parents(e) /\ Children(e, {})
      /\ Grows(db, e) /\ e.torn = db.torn /\ Pages(e) = Pages(db)
  BY <1>1, <1>3, TellParent
<1> HIDE DEF e
<1>5. Top.moved \in Page
  BY <1>3 DEF Pages
<1>6. /\ f \in Frame /\ f.node = Top.node /\ f.page = Top.moved
      /\ f.pc = (IF Top.node.leaf THEN "up" ELSE "children")
      /\ f.moved = Top.moved /\ f.sibling = Top.sibling /\ f.key = Top.key /\ f.child = Top.child
  BY <1>1, <1>5 DEF Frame
<1> HIDE DEF f
<1>7. f.pc \in {"up", "children"} /\ (f.pc = "children" => ~f.node.leaf)
  BY <1>6
<1>8. ~f.node.leaf => f.child \in 1..Len(f.node.kids)
  BY <1>3, <1>6 DEF NodeOK, Node
<1>9. /\ f.page \in Pages(e) /\ e.node[f.page].leaf = f.node.leaf
      /\ f.moved \in Pages(e) /\ e.node[f.moved].leaf = f.node.leaf
      /\ f.node.parent # NoPage => f.node.parent \in Interiors(e)
      /\ f.sibling \in Pages(e)
      /\ f.key < e.next_id /\ KeysBelow(f.node, e.next_id)
      /\ KidsIn(f.node, Pages(e))
  BY <1>3, <1>4, <1>6 DEF Grows
<1>10. f.node.parent # NoPage
  BY <1>1, <1>6 DEF CallSound
<1>11. CallSound(e, f)
  BY <1>3, <1>6, <1>7, <1>8, <1>9, <1>10 DEF CallSound
<1>12. MissingOf(f) = {}
  BY <1>7 DEF MissingOf
<1> QED
  BY <1>1, <1>2, <1>4, <1>6, <1>11, <1>12, TopStep

LEMMA UpdateChildStep == ASSUME IInv, UpdateChild PROVE IInv'
<1> DEFINE page == Top.node.kids[Top.child]
           e == WriteNode(db, page, [db.node[page] EXCEPT !.parent = Top.moved])
           pc == IF Top.child = Len(Top.node.kids) THEN "up" ELSE "children"
           f == [Top EXCEPT !.child = @ + 1, !.pc = pc]
<1>1. /\ frames # <<>> /\ Top.pc = "children" /\ Top \in Frame /\ CallSound(db, Top)
      /\ Parents(db) /\ Children(db, {}) /\ db \in Db /\ NodesSound(db)
  BY TopCall DEF UpdateChild, At, MissingOf, IInv, Shapes
<1>2. db' = e /\ file' = db /\ UNCHANGED <<crashes, lost>> /\ SetTop(f)
  BY DEF UpdateChild, Store
<1>3. /\ Top.node \in Node /\ NodeOK(Top.node, ORDER - 1) /\ KeysBelow(Top.node, db.next_id)
      /\ Top.key < db.next_id /\ Top.child \in 1..Len(Top.node.kids) /\ ~Top.node.leaf
      /\ Top.moved \in Pages(db) /\ db.node[Top.moved].leaf = Top.node.leaf
      /\ Top.page = Top.moved
      /\ KidsIn(Top.node, Pages(db))
      /\ Top.node.parent # NoPage /\ Top.node.parent \in Interiors(db)
  BY <1>1 DEF CallSound, Frame
<1>4. page \in Pages(db) /\ Top.moved \in Interiors(db)
  BY <1>3 DEF KidsIn, Interiors
<1> HIDE DEF page
<1>5. /\ e \in Db /\ NodesSound(e) /\ Parents(e) /\ Children(e, {})
      /\ Grows(db, e) /\ e.torn = db.torn /\ Pages(e) = Pages(db)
  BY <1>1, <1>4, TellParent
<1> HIDE DEF e
<1>6. /\ f \in Frame /\ f.node = Top.node /\ f.page = Top.page /\ f.pc = pc
      /\ f.moved = Top.moved /\ f.sibling = Top.sibling /\ f.key = Top.key /\ f.child = Top.child + 1
  <2>1. pc \in {"up", "children"} /\ Top.child \in Nat /\ Top.child + 1 \in Nat
    BY <1>1 DEF Frame
  <2> HIDE DEF pc
  <2> QED
    BY <1>1, <2>1 DEF Frame
<1> HIDE DEF f
<1>7. f.pc \in {"up", "children"} /\ (f.pc = "children" => f.child \in 1..Len(f.node.kids))
  BY <1>3, <1>6 DEF Node
<1>8. /\ f.page \in Pages(e) /\ e.node[f.page].leaf = f.node.leaf
      /\ f.moved \in Pages(e) /\ e.node[f.moved].leaf = f.node.leaf
      /\ f.node.parent # NoPage /\ f.node.parent \in Interiors(e)
      /\ f.key < e.next_id /\ KeysBelow(f.node, e.next_id)
      /\ KidsIn(f.node, Pages(e)) /\ f.page = f.moved /\ ~f.node.leaf
  BY <1>3, <1>5, <1>6 DEF Grows
<1>9. f.sibling \in Pages(e)
  BY <1>1, <1>5, <1>6 DEF CallSound
<1>10. CallSound(e, f)
  BY <1>3, <1>6, <1>7, <1>8, <1>9 DEF CallSound
<1>11. MissingOf(f) = {}
  BY <1>7 DEF MissingOf
<1> QED
  BY <1>1, <1>2, <1>5, <1>6, <1>10, <1>11, TopStep

\* A new call, of a node with one key more than it has in the file.
LEMMA NewCall ==
  ASSUME NEW d \in Db, NEW page \in Pages(d), NEW n \in Node,
         NodeOK(n, ORDER), n.leaf = d.node[page].leaf,
         0 < d.next_id, KeysBelow(n, d.next_id), KidsIn(n, Pages(d)),
         n.parent # NoPage => n.parent \in Interiors(d)
  PROVE  /\ Call(page, n) \in Frame /\ CallSound(d, Call(page, n))
         /\ Call(page, n).node = n /\ MissingOf(Call(page, n)) = {}
<1> DEFINE f == Call(page, n)
           pc == IF Len(n.keys) >= ORDER THEN "split" ELSE "write"
<1>1. page \in Page
  BY DEF Pages
<1>2. /\ f \in Frame /\ f.page = page /\ f.node = n /\ f.pc = pc /\ f.key = 0 /\ f.child = 1
  <2>1. pc \in {"split", "write"}
    OBVIOUS
  <2> HIDE DEF pc
  <2>2. f = [page |-> page, node |-> n, pc |-> pc, key |-> 0, sibling |-> NoPage,
             moved |-> NoPage, child |-> 1]
    BY DEF Call, pc
  <2> HIDE DEF f
  <2> QED
    BY <1>1, <2>1, <2>2 DEF Frame, Key, Link
<1>3. Len(n.keys) \in Nat /\ Len(n.keys) <= ORDER
  BY DEF NodeOK, Node
<1>4. /\ pc = "split" => Len(n.keys) = ORDER
      /\ NodeOK(n, IF pc = "split" THEN ORDER ELSE ORDER - 1)
  BY <1>3, HalfBounds DEF NodeOK
<1>5. pc \in {"split", "write"}
  OBVIOUS
<1> HIDE DEF f, pc
<1>6. CallSound(d, f)
  BY <1>2, <1>4, <1>5 DEF CallSound
<1>7. MissingOf(f) = {}
  BY <1>2, <1>5 DEF MissingOf
<1> QED
  BY <1>2, <1>6, <1>7 DEF f

\* The parent is an interior node, so the new page finds its place in it.
LEMMA InsertInternalStep == ASSUME IInv, insert_internal PROVE IInv'
<1> DEFINE parent == Top.node.parent
           n == WithChild(db.node[parent], Top.key, Top.sibling)
           g == [Top EXCEPT !.pc = "write"]
           f == Call(parent, n)
           m == Len(frames)
           waiting == [frames EXCEPT ![m].pc = "write"]
<1>1. /\ frames # <<>> /\ Top.pc = "up" /\ Top \in Frame /\ CallSound(db, Top)
      /\ Parents(db) /\ Children(db, {}) /\ db \in Db /\ NodesSound(db) /\ ~lost
      /\ CallsSound /\ frames \in Seq(Frame)
  BY TopCall DEF insert_internal, At, MissingOf, IInv, Shapes
<1>2. frames' = Append(waiting, f) /\ UNCHANGED <<db, file, crashes, lost>>
  BY DEF insert_internal
<1>3. /\ parent \in Interiors(db) /\ Top.sibling \in Pages(db) /\ Top.key < db.next_id
      /\ Top.key \in Key
  BY <1>1 DEF CallSound, Frame
<1> HIDE DEF parent
<1>4. /\ parent \in Pages(db) /\ ~db.node[parent].leaf /\ db.node[parent] \in Node
      /\ NodeOK(db.node[parent], ORDER - 1) /\ KeysBelow(db.node[parent], db.next_id)
      /\ KidsIn(db.node[parent], Pages(db))
      /\ db.node[parent].parent # NoPage => db.node[parent].parent \in Interiors(db)
  <2>1. parent \in Pages(db) /\ ~db.node[parent].leaf
    BY <1>3 DEF Interiors
  <2>2. KidsIn(db.node[parent], Pages(db) \union {})
    BY <1>1, <2>1 DEF Children
  <2> QED
    BY <1>1, <2>1, <2>2, PagesAreNodes, MoreWritten DEF NodesSound, Parents
<1>5. Len(db.node[parent].kids) = Len(db.node[parent].keys) + 1 /\ Top.sibling \in Page
  BY <1>3, <1>4 DEF NodeOK, Pages
<1>6. /\ n \in Node /\ n.leaf = db.node[parent].leaf /\ n.parent = db.node[parent].parent
      /\ Len(n.keys) = Len(db.node[parent].keys) + 1
      /\ Len(n.kids) = Len(db.node[parent].kids) + 1
      /\ KeysBelow(n, db.next_id) /\ KidsIn(n, Pages(db))
  <2>1. /\ n \in Node /\ n.leaf = db.node[parent].leaf /\ n.parent = db.node[parent].parent
        /\ Len(n.keys) = Len(db.node[parent].keys) + 1
        /\ Len(n.kids) = Len(db.node[parent].kids) + 1
        /\ \A bound \in Nat : Top.key < bound /\ KeysBelow(db.node[parent], bound) => KeysBelow(n, bound)
        /\ \A W : Top.sibling \in W /\ KidsIn(db.node[parent], W) => KidsIn(n, W)
    BY ZenonT(60), <1>3, <1>4, <1>5, WithChildNode
  <2>2. db.next_id \in Nat
    BY <1>1 DEF Db
  <2> HIDE DEF n
  <2> QED
    BY <1>3, <1>4, <2>1, <2>2
<1> HIDE DEF n
<1>7. NodeOK(n, ORDER)
  BY <1>4, <1>5, <1>6, HalfBounds DEF NodeOK, Node
<1>8. 0 < db.next_id
  BY <1>1, <1>3 DEF Key, Db
<1>9. f \in Frame /\ CallSound(db, f) /\ f.node = n /\ MissingOf(f) = {}
  BY <1>1, <1>4, <1>6, <1>7, <1>8, NewCall
<1> HIDE DEF f
<1>10. g \in Frame /\ CallSound(db, g) /\ g.pc = "write" /\ g.node.leaf = Top.node.leaf
  <2>1. /\ g \in Frame /\ g.pc = "write" /\ g.node = Top.node /\ g.key = Top.key /\ g.page = Top.page
    BY <1>1 DEF Frame
  <2> HIDE DEF g
  <2> QED
    BY <1>1, <2>1 DEF CallSound
<1>11. /\ m \in Nat \ {0} /\ frames[m] = Top
  BY <1>1 DEF Top
<1>12. waiting = [frames EXCEPT ![m] = g]
  BY <1>11
<1> HIDE DEF g, m
<1>13. /\ waiting \in Seq(Frame) /\ Len(waiting) = m /\ waiting[m] = g
       /\ \A i \in 1..(m - 1) : waiting[i] = frames[i]
  BY <1>1, <1>10, <1>11, <1>12, ExceptSeq DEF m
<1> HIDE DEF waiting
<1>14. /\ frames' \in Seq(Frame) /\ Len(frames') = m + 1 /\ frames'[m + 1] = f
       /\ \A i \in 1..m : frames'[i] = waiting[i]
  BY <1>2, <1>9, <1>11, <1>13, AppendProperties
<1>15. Missing' = {}
  BY <1>9, <1>11, <1>14 DEF Missing, At, Top, MissingOf
<1>16. CallsSound'
  <2> SUFFICES ASSUME NEW i \in 1..(m + 1)
               PROVE  /\ CallSound(db, frames'[i])
                      /\ frames'[i].node.leaf = (i = 1)
                      /\ i < m + 1 => frames'[i].pc = "write"
    BY <1>2, <1>14 DEF CallsSound
  <2>1. CASE i = m + 1
    <3>1. i # 1 /\ ~(i < m + 1)
      BY <1>11, <2>1
    <3>2. f.node.leaf = FALSE
      BY <1>4, <1>6, <1>9 DEF Node
    <3> QED
      BY <1>9, <1>14, <2>1, <3>1, <3>2
  <2>2. CASE i = m
    <3>1. Top.node.leaf = (m = 1)
      BY <1>1, TopCall DEF m
    <3> QED
      BY <1>10, <1>11, <1>13, <1>14, <2>2, <3>1
  <2>3. CASE i < m
    <3>1. i \in 1..(m - 1) /\ i \in 1..m /\ i \in 1..Len(frames) /\ i < Len(frames)
      BY <1>11, <2>3 DEF m
    <3>2. frames'[i] = frames[i]
      BY <1>13, <1>14, <3>1
    <3> QED
      BY <1>1, <3>1, <3>2 DEF CallsSound
  <2> QED
    BY <1>11, <2>1, <2>2, <2>3
<1>17. Sound'
  BY <1>1, <1>2, <1>15, <1>16 DEF IInv, Sound, Parents, Children, Pages, Interiors, Written, MissingOf
<1> QED
  BY <1>2, <1>14, <1>17 DEF IInv, Shapes, NodesSound, Pages, Written

\* The last write of a call replaces a node by one of its kind.
LEMMA ReturnStep == ASSUME IInv, Return PROVE IInv'
<1> DEFINE d == WriteNode(db, Top.page, Top.node)
           rows == IF Len(frames) = 1 THEN db.rows \union {db.next_id - 1} ELSE db.rows
           torn == db.torn /\ Top.page # Root
           e == [d EXCEPT !.torn = torn, !.rows = rows]
           m == Len(frames)
<1>1. /\ frames # <<>> /\ Top.pc = "write" /\ Top \in Frame /\ CallSound(db, Top)
      /\ Parents(db) /\ Children(db, {}) /\ db \in Db /\ NodesSound(db) /\ ~lost
      /\ CallsSound /\ frames \in Seq(Frame) /\ Parents(file) /\ m \in Nat \ {0}
  BY TopCall DEF Return, At, MissingOf, IInv, Shapes
<1>2. /\ Top.node \in Node /\ NodeOK(Top.node, ORDER - 1) /\ KeysBelow(Top.node, db.next_id)
      /\ Top.key \in Key /\ Top.key < db.next_id
      /\ Top.page \in Pages(db) /\ db.node[Top.page].leaf = Top.node.leaf
      /\ KidsIn(Top.node, Pages(db))
      /\ Top.node.parent # NoPage => Top.node.parent \in Interiors(db)
  BY <1>1 DEF CallSound, Frame
<1>3. Top.page \in 0..(db.nb_pages - 1)
  BY <1>1, <1>2, PagesAreNodes
<1>4. Fits(db, Top.page, Top.node)
  BY <1>2 DEF Fits, Interiors
<1>5. /\ d \in Db /\ d.next_id = db.next_id /\ d.nb_pages = db.nb_pages
      /\ d.torn = db.torn /\ d.rows = db.rows
      /\ d.node[Top.page] = Top.node
      /\ \A p \in Page \ {Top.page} : d.node[p] = db.node[p]
      /\ Pages(d) = Pages(db) \union {Top.page}
  BY <1>1, <1>2, <1>3, Writing
<1>6. /\ Interiors(db) \subseteq Interiors(d) /\ NodesSound(d)
      /\ (Top.node.parent # NoPage => Top.node.parent \in Interiors(d)) => Parents(d)
      /\ \A M, W : Children(db, M) /\ M \subseteq Pages(d) \union W /\ KidsIn(Top.node, Pages(d) \union W)
                     => Children(d, W)
  BY <1>1, <1>3, <1>4, WriteKeeps
<1>7. /\ db' = e /\ file' = db /\ UNCHANGED <<crashes, lost>> /\ frames' = Front(frames)
  BY <1>5 DEF Return, Store
<1> HIDE DEF d
<1>8. Parents(d) /\ Children(d, {})
  BY <1>1, <1>2, <1>5, <1>6, MoreWritten
<1>9. rows \in SUBSET Key /\ torn \in BOOLEAN
  BY <1>1, <1>2 DEF Db, Key
<1> HIDE DEF rows, torn
<1>10. e \in Db /\ e.node = d.node /\ e.nb_pages = d.nb_pages /\ e.next_id = d.next_id
  BY <1>5, <1>9 DEF Db
<1> HIDE DEF e
<1>11. /\ Pages(e) = Pages(d) /\ Interiors(e) = Interiors(d) /\ Parents(e) /\ NodesSound(e)
       /\ Children(e, {})
  BY <1>6, <1>8, <1>10, SameNodes
<1>12. Grows(db, e)
  BY <1>2, <1>5, <1>6, <1>10, <1>11 DEF Grows, Pages
<1>13. /\ frames' \in Seq(Frame) /\ Len(frames') = m - 1
       /\ \A i \in 1..(m - 1) : frames'[i] = frames[i]
  BY <1>1, <1>7, FrontEntries
<1>14. \A i \in 1..(m - 1) : /\ frames[i] \in Frame /\ frames[i].pc = "write"
                             /\ CallSound(db, frames[i]) /\ frames[i].node.leaf = (i = 1)
  BY <1>1 DEF CallsSound
<1>15. CallsSound'
  <2> HIDE DEF m
  <2> SUFFICES ASSUME NEW i \in 1..(m - 1)
               PROVE  /\ CallSound(e, frames'[i])
                      /\ frames'[i].node.leaf = (i = 1)
                      /\ frames'[i].pc = "write"
    BY <1>7, <1>13 DEF CallsSound
  <2>1. CallSound(e, frames[i])
    BY <1>1, <1>10, <1>12, <1>14, CallSurvives
  <2> QED
    BY <1>13, <1>14, <2>1
<1>16. Missing' = {}
  <2> HIDE DEF m
  <2>1. frames' # <<>> => m - 1 \in 1..(m - 1)
    BY <1>1, <1>13
  <2> QED
    BY <1>13, <1>14, <2>1 DEF Missing, At, Top
<1>17. Sound'
  BY <1>1, <1>7, <1>11, <1>15, <1>16 DEF Sound
<1> QED
  BY <1>1, <1>7, <1>10, <1>11, <1>13, <1>17 DEF IInv, Shapes

\* The id that get_next_id stores is above the key of the row.
LEMMA InsertStep == ASSUME IInv, insert PROVE IInv'
<1> DEFINE e == get_next_id(db)
<1>1. /\ frames = <<>> /\ ~lost /\ db \in Db /\ NodesSound(db)
      /\ db' = e /\ file' = db /\ UNCHANGED <<crashes, lost>>
  BY DEF insert, Store, IInv, Shapes
<1>2. PICK page \in Leaves(db) :
        frames' = <<Call(page, WithRow(db.node[page], db.next_id))>>
  BY DEF insert
<1> DEFINE n == WithRow(db.node[page], db.next_id)
           f == Call(page, n)
<1>3. Parents(db) /\ Children(db, {})
  <2>1. Missing = {}
    BY <1>1 DEF Missing, At
  <2> QED
    BY <1>1, <2>1 DEF IInv, Sound
<1>4. /\ e \in Db /\ e.node = db.node /\ e.nb_pages = db.nb_pages /\ e.torn = db.torn
      /\ e.next_id = db.next_id + 1 /\ db.next_id \in Nat
  BY <1>1 DEF get_next_id, Db
<1> HIDE DEF e
<1>5. Pages(e) = Pages(db) /\ Interiors(e) = Interiors(db)
  BY <1>4 DEF Pages, Written, Interiors
<1>6. Parents(e) /\ Children(e, {})
  BY <1>3, <1>4, <1>5 DEF Parents, Children
<1>7. \A k \in Node : KeysBelow(k, db.next_id) => KeysBelow(k, e.next_id)
  BY <1>4 DEF KeysBelow, Node, Key
<1>8. NodesSound(e)
  <2>1. \A p \in Pages(db) : db.node[p] \in Node
    BY <1>1, PagesAreNodes
  <2> QED
    BY <1>1, <1>4, <1>5, <1>7, <2>1 DEF NodesSound
<1>9. /\ page \in Pages(db) /\ db.node[page].leaf /\ db.node[page] \in Node
      /\ NodeOK(db.node[page], ORDER - 1) /\ KeysBelow(db.node[page], db.next_id)
      /\ KidsIn(db.node[page], Pages(db))
      /\ db.node[page].parent # NoPage => db.node[page].parent \in Interiors(db)
  <2>1. page \in Pages(db) /\ db.node[page].leaf
    BY DEF Leaves
  <2>2. KidsIn(db.node[page], Pages(db) \union {})
    BY <1>3, <2>1 DEF Children
  <2> QED
    BY <1>1, <1>3, <2>1, <2>2, PagesAreNodes, MoreWritten DEF NodesSound, Parents
<1>10. /\ n \in Node /\ n.leaf = db.node[page].leaf /\ n.parent = db.node[page].parent
       /\ n.kids = db.node[page].kids /\ Len(n.keys) = Len(db.node[page].keys) + 1
       /\ \A bound \in Nat : db.next_id < bound /\ KeysBelow(db.node[page], bound) => KeysBelow(n, bound)
  BY <1>4, <1>9, WithRowNode DEF Key
<1> HIDE DEF n
<1>11. KeysBelow(n, e.next_id) /\ 0 < e.next_id
  <2>1. KeysBelow(db.node[page], e.next_id)
    BY <1>7, <1>9
  <2>2. e.next_id \in Nat /\ db.next_id < e.next_id /\ 0 < e.next_id
    BY <1>4
  <2> QED
    BY <1>10, <2>1, <2>2
<1>12. NodeOK(n, ORDER) /\ KidsIn(n, Pages(e))
  BY <1>5, <1>9, <1>10, HalfBounds DEF NodeOK, Node, KidsIn
<1>13. f \in Frame /\ CallSound(e, f) /\ f.node = n /\ MissingOf(f) = {}
  BY ZenonT(60), <1>4, <1>5, <1>9, <1>10, <1>11, <1>12, NewCall
<1> HIDE DEF f
<1>14. frames' = <<f>>
  BY <1>2 DEF f, n
<1>15. frames' \in Seq(Frame) /\ Len(frames') = 1 /\ frames'[1] = f
  BY <1>13, <1>14
<1>16. Missing' = {}
  BY <1>13, <1>15 DEF Missing, At, Top, MissingOf
<1>17. f.node.leaf = TRUE
  BY <1>9, <1>10, <1>13 DEF Node
<1>18. CallsSound'
  <2> SUFFICES ASSUME NEW i \in 1..1
               PROVE  /\ CallSound(e, frames'[i])
                      /\ frames'[i].node.leaf = (i = 1)
                      /\ i < 1 => frames'[i].pc = "write"
    BY <1>1, <1>15 DEF CallsSound
  <2>1. i = 1 /\ ~(i < 1)
    OBVIOUS
  <2> QED
    BY <1>13, <1>15, <1>17, <2>1
<1>19. Sound'
  BY <1>1, <1>3, <1>6, <1>16, <1>18 DEF Sound
<1> QED
  BY <1>1, <1>4, <1>8, <1>15, <1>19 DEF IInv, Shapes

\* Whatever file the next process opens is one that a search can be in.
LEMMA CrashStep ==
  ASSUME IInv, NEW d \in Db, NodesSound(d), Crash(d),
         ~lost => Parents(d) /\ (~d.torn => Children(d, {}))
  PROVE  IInv'
<1> DEFINE rows == d.rows \union InProgress(d)
           e == [d EXCEPT !.rows = rows]
<1>1. /\ crashes \in Nat /\ crashes < MaxCrashes /\ crashes' = crashes + 1
      /\ db' = e /\ file' = e /\ frames' = <<>> /\ lost' = (lost \/ d.torn)
      /\ lost \in BOOLEAN /\ d.torn \in BOOLEAN
  BY DEF Crash, IInv, Db
<1>2. rows \in SUBSET Key
  <2>1. ASSUME Found(d, d.next_id - 1) PROVE d.next_id - 1 \in Key
    <3>1. PICK page \in Leaves(d) : d.next_id - 1 \in ToSet(d.node[page].keys)
      BY <2>1 DEF Found
    <3>2. d.node[page] \in Node
      BY PagesAreNodes DEF Leaves
    <3> QED
      BY <3>1, <3>2 DEF ToSet, Node
  <2> QED
    BY <2>1 DEF InProgress, Db
<1> HIDE DEF rows
<1>3. e \in Db /\ e.node = d.node /\ e.nb_pages = d.nb_pages /\ e.next_id = d.next_id /\ e.torn = d.torn
  BY <1>2 DEF Db
<1> HIDE DEF e
<1>4. /\ Parents(d) => Parents(e)
      /\ NodesSound(e) /\ Children(d, {}) => Children(e, {})
  BY <1>3, SameNodes
<1>5. NodesSound(e)
  BY <1>3, SameNodes
<1>6. crashes' \in 0..MaxCrashes
  BY <1>1, TableTreeAssumption
<1>7. Missing' = {}
  BY <1>1 DEF Missing, At
<1>8. CallsSound'
  BY <1>1 DEF CallsSound
<1>9. frames' \in Seq(Frame)
  BY <1>1
<1>10. Sound'
  BY <1>1, <1>3, <1>4, <1>5, <1>7, <1>8 DEF Sound
<1> QED
  BY <1>1, <1>3, <1>5, <1>6, <1>9, <1>10 DEF IInv, Shapes

LEMMA ExitStep == ASSUME IInv, Exit PROVE IInv'
<1>1. ~lost => Parents(db) /\ (~db.torn => Children(db, {}))
  <2> SUFFICES ASSUME ~lost PROVE Parents(db) /\ (~db.torn => Children(db, {}))
    OBVIOUS
  <2>1. CASE frames = <<>>
    BY <2>1 DEF IInv, Sound, Missing, At
  <2>2. CASE frames # <<>>
    BY <2>2, TopCall DEF MissingOf, CallSound
  <2> QED
    BY <2>1, <2>2
<1> QED
  BY <1>1, CrashStep DEF Exit, IInv, Shapes

LEMMA KillStep == ASSUME IInv, Kill PROVE IInv'
  BY CrashStep DEF Kill, IInv, Shapes, Sound

LEMMA InitSound == Init => IInv
<1> SUFFICES ASSUME Init PROVE IInv
  OBVIOUS
<1>1. /\ frames = <<>> /\ crashes = 0 /\ lost = FALSE /\ file = db
      /\ db.next_id = 0 /\ db.nb_pages = 1 /\ db.torn = FALSE
      /\ db.node = [p \in Page |-> IF p = Root THEN Leaf(NoPage, <<>>, NoPage) ELSE Blank]
  BY DEF Init
<1>2. MaxPages \in Nat \ {0} /\ Root \in Page /\ Root = 0 /\ MaxCrashes \in Nat
  BY TableTreeAssumption DEF Page, Root
<1>3. /\ Leaf(NoPage, <<>>, NoPage) \in Node
      /\ LET n == Leaf(NoPage, <<>>, NoPage) IN
         n.leaf /\ n.keys = <<>> /\ n.kids = <<>> /\ n.parent = NoPage
  BY DEF Leaf, Node, Link
<1>4. db \in Db
  BY <1>2, <1>3 DEF Init, Db, Key
<1>5. Pages(db) \subseteq {Root}
  BY <1>1 DEF Pages, Written
<1>6. \A p \in Pages(db) : db.node[p] = Leaf(NoPage, <<>>, NoPage)
  BY <1>1, <1>2, <1>5
<1>7. NodesSound(db)
  <2>3. \A p \in Page : p >= 1 => p # Root
    BY <1>2 DEF Page
  <2>1. NodeOK(Leaf(NoPage, <<>>, NoPage), ORDER - 1)
    BY <1>3, HalfBounds, TableTreeAssumption DEF NodeOK
  <2>2. KeysBelow(Leaf(NoPage, <<>>, NoPage), db.next_id)
    BY <1>3 DEF KeysBelow
  <2> QED
    BY <1>1, <1>6, <2>1, <2>2, <2>3 DEF NodesSound
<1>8. Parents(db)
  BY <1>3, <1>6 DEF Parents
<1>9. \A M : Children(db, M)
  BY <1>3, <1>6 DEF Children, KidsIn
<1>10. CallsSound /\ frames \in Seq(Frame)
  BY <1>1 DEF CallsSound
<1>11. Sound
  BY <1>1, <1>8, <1>9, <1>10 DEF Sound
<1>12. crashes \in 0..MaxCrashes /\ lost \in BOOLEAN
  <2>1. 0 \in 0..MaxCrashes
    BY <1>2
  <2> QED
    BY <1>1, <2>1
<1>13. Shapes /\ NodesSound(file)
  BY <1>1, <1>4, <1>7, <1>10 DEF Shapes
<1> QED
  BY <1>7, <1>11, <1>12, <1>13 DEF IInv

LEMMA NextKeeps == IInv /\ [Next]_vars => IInv'
<1> SUFFICES ASSUME IInv, [Next]_vars PROVE IInv'
  OBVIOUS
<1>1. CASE insert
  BY <1>1, InsertStep
<1>2. CASE split_leaf_node
  BY <1>2, SplitLeafStep
<1>3. CASE split_internal_node
  BY <1>3, SplitInternalStep
<1>4. CASE create_root
  BY <1>4, CreateRootStep
<1>5. CASE MoveNode
  BY <1>5, MoveNodeStep
<1>6. CASE UpdateSibling
  BY <1>6, UpdateSiblingStep
<1>7. CASE UpdateChild
  BY <1>7, UpdateChildStep
<1>8. CASE insert_internal
  BY <1>8, InsertInternalStep
<1>9. CASE Return
  BY <1>9, ReturnStep
<1>10. CASE Exit
  BY <1>10, ExitStep
<1>11. CASE Kill
  BY <1>11, KillStep
<1>12. CASE UNCHANGED vars
  <2>1. db' = db /\ file' = file /\ frames' = frames /\ crashes' = crashes /\ lost' = lost
    BY <1>12 DEF vars
  <2>2. Missing' = Missing
    BY <2>1 DEF Missing, At, Top
  <2>3. CallsSound' = CallsSound
    BY <2>1 DEF CallsSound
  <2>4. Sound'
    BY <2>1, <2>2, <2>3 DEF IInv, Sound
  <2> QED
    BY <2>1, <2>4 DEF IInv, Shapes
<1> QED
  BY <1>1, <1>2, <1>3, <1>4, <1>5, <1>6, <1>7, <1>8, <1>9, <1>10, <1>11, <1>12 DEF Next, Step

-----------------------------------------------------------------------------
\* The theorems

LEMMA AlwaysSound == Spec => []IInv
<1>1. Init => IInv
  BY InitSound
<1>2. IInv /\ [Next]_vars => IInv'
  BY NextKeeps
<1> QED
  BY <1>1, <1>2, PTL DEF Spec

LEMMA SoundIsTyped == IInv => TypeOK
<1> SUFFICES ASSUME IInv PROVE TypeOK
  OBVIOUS
<1>1. ASSUME NEW d \in Db, NodesSound(d) PROVE DbOK(d)
  <2>1. ASSUME NEW p \in Page PROVE d.node[p] = Blank \/ NodeOK(d.node[p], ORDER - 1)
    <3>1. p \in Pages(d) \/ d.node[p] = Blank
      BY <1>1 DEF Pages, Written, NodesSound, Db, Page
    <3> QED
      BY <1>1, <3>1 DEF NodesSound
  <2> QED
    BY <2>1 DEF DbOK, Db
<1>2. /\ db \in Db /\ file \in Db /\ NodesSound(db) /\ NodesSound(file)
      /\ frames \in Seq(Frame) /\ crashes \in 0..MaxCrashes /\ lost \in BOOLEAN
  BY DEF IInv, Shapes
<1>3. DbOK(db) /\ DbOK(file)
  BY <1>1, <1>2
<1>4. ASSUME NEW i \in 1..Len(frames) PROVE FrameOK(frames[i])
  <2>1. frames[i] \in Frame /\ frames # <<>>
    BY <1>2
  <2>2. CallSound(db, frames[i])
    BY <2>1, TopCall DEF CallsSound
  <2> QED
    BY <2>1, <2>2 DEF FrameOK, Frame, CallSound
<1> QED
  BY <1>2, <1>3, <1>4 DEF TypeOK

LEMMA SoundNeverDangles == IInv => NoDanglingRead
<1> SUFFICES ASSUME IInv, frames # <<>>
             PROVE  /\ Top.pc = "up" => Top.node.parent \in Pages(db)
                    /\ Top.pc = "sibling" => Top.sibling \in Pages(db)
                    /\ Top.pc = "children" => Top.node.kids[Top.child] \in Pages(db)
  BY DEF NoDanglingRead, Pages
<1>1. CallSound(db, Top)
  BY TopCall
<1>2. Top.pc = "up" => Top.node.parent \in Pages(db)
  BY <1>1 DEF CallSound, Interiors
<1>3. Top.pc = "sibling" => Top.sibling \in Pages(db)
  BY <1>1 DEF CallSound
<1>4. Top.pc = "children" => Top.node.kids[Top.child] \in Pages(db)
  BY <1>1 DEF CallSound, KidsIn
<1> QED
  BY <1>2, <1>3, <1>4

LEMMA SoundReusesNoId == IInv => IdsNeverReused
<1> SUFFICES ASSUME IInv PROVE IdsNeverReused
  OBVIOUS
<1>1. \A d \in {db, file} : \A p \in Pages(d) : KeysBelow(d.node[p], d.next_id)
  BY DEF IInv, NodesSound
<1>2. ASSUME NEW i \in 1..Len(frames) PROVE KeysBelow(frames[i].node, db.next_id)
  <2>1. frames # <<>>
    BY DEF IInv, Shapes
  <2> QED
    BY <2>1, TopCall DEF CallsSound, CallSound
<1> QED
  BY <1>1, <1>2 DEF IdsNeverReused

\* Every page, in the file or held by an insert in progress, is a node of the
\* right shape: a node that insert_in_arr_kv has filled to ORDER keys is always
\* split before it is stored, for every ORDER and any number of rows and crashes.
THEOREM TableTreeTypeCorrect == Spec => []TypeOK
  BY AlwaysSound, SoundIsTyped, PTL

\* insert, insert_internal and create_root never read a page that no write_node
\* has stored, although parent addresses go stale and processes end between any
\* two writes (after an end inside create_root no insert is modelled).
THEOREM ReadsNeverDangle == Spec => []NoDanglingRead
  BY AlwaysSound, SoundNeverDangles, PTL

\* get_next_id hands out no id that a page of the tree holds or will hold,
\* whatever writes the ends of the process have lost.
THEOREM IdsAreNeverReused == Spec => []IdsNeverReused
  BY AlwaysSound, SoundReusesNoId, PTL
=============================================================================
