--------------------------- MODULE IndexTreeProofs ---------------------------
(***************************************************************************)
(* Proofs about IndexTree for every ORDER of the tree, any values in any   *)
(* order, and any number of rows and pages: every search ends in a leaf    *)
(* and every write goes to a node, although parent addresses go stale;     *)
(* splits keep one tree that has the id of every row once; and find_all is *)
(* exact while no interior node has been split and no value repeats.       *)
(***************************************************************************)
EXTENDS IndexTree, SequenceLemmas

-----------------------------------------------------------------------------
\* The inductive invariant.  Pages have heights: a child lies below its node, and
\* so does a node below the one it names as its parent, which may be neither the
\* one that links it nor one above it in the tree.

\* The records and sequences that the state is made of
Link == Page \union {NoPage}
Node == [leaf : BOOLEAN, parent : Link, keys : Seq(Id), kids : Seq(Page)]
Frame == [page : Page, node : Node, pc : {"split", "write", "root", "up"},
          key : 0..MaxRows, sibling : Link]
Shapes == /\ rows \in Seq(Value) /\ Len(rows) <= MaxRows
          /\ node \in Seq(Node) /\ Len(node) \in 1..MaxPages
          /\ frames \in Seq(Frame) /\ deep \in BOOLEAN

\* The pages of the nodes nd, and the interior ones
Pages(nd) == 0..(Len(nd) - 1)
Interiors(nd) == {p \in Pages(nd) : ~nd[p + 1].leaf}

\* A node at height top of a tree of r rows, with children in pages and its parent
\* in interiors
NodeIn(pages, interiors, r, n, top, h) ==
  /\ \A i \in 1..Len(n.keys) : n.keys[i] \in 1..r
  /\ IF n.leaf THEN n.kids = <<>> ELSE Len(n.kids) = Len(n.keys) + 1
  /\ \A i \in 1..Len(n.kids) : n.kids[i] \in pages /\ h[n.kids[i]] < top
  /\ n.parent # NoPage => n.parent \in interiors /\ top < h[n.parent]

PagesIn(nd, r, h) ==
  \A p \in Pages(nd) : /\ NodeIn(Pages(nd), Interiors(nd), r, nd[p + 1], h[p], h)
                       /\ Len(nd[p + 1].keys) <= ORDER - 1

\* A call holds a node of the kind its page has, and the page it has split off is
\* not higher.
CallIn(nd, r, f, h) ==
  /\ f.page \in Pages(nd) /\ nd[f.page + 1].leaf = f.node.leaf
  /\ NodeIn(Pages(nd), Interiors(nd), r, f.node, h[f.page], h)
  /\ IF f.pc = "split" THEN Len(f.node.keys) = ORDER ELSE Len(f.node.keys) <= ORDER - 1
  /\ f.sibling \in Pages(nd) \union {NoPage}
  /\ f.pc \in {"root", "up"} => /\ f.key \in 1..r /\ f.sibling \in Pages(nd) \ {f.page}
                                /\ h[f.sibling] <= h[f.page]
  /\ f.pc = "root" => f.node.parent = NoPage
  /\ f.pc = "up" => f.node.parent # NoPage

\* All calls but the last wait for their write, and each is higher than the last.
CallsIn(nd, r, fs, h) ==
  \A i \in 1..Len(fs) : /\ CallIn(nd, r, fs[i], h)
                        /\ i < Len(fs) => fs[i].pc = "write"
                        /\ \A j \in 1..Len(fs) : i < j => h[fs[i].page] < h[fs[j].page]

IsHeight(h) == h \in [Page -> Nat] /\ \E n \in Nat : \A p \in Page : h[p] <= n
Leveled(nd, r, fs, h) == IsHeight(h) /\ PagesIn(nd, r, h) /\ CallsIn(nd, r, fs, h)
LevelInv == Shapes /\ \E h : Leveled(node, Len(rows), frames, h)

-----------------------------------------------------------------------------
\* Nodes

\* find_offset and the cell of the child to enter exist: the first for which a
\* test holds.
LEMMA OffsetCell ==
  ASSUME NEW n \in Node, NEW value
  PROVE  LET c == find_offset(n, value) IN
         /\ c \in 0..Len(n.keys) /\ \A i \in 1..c : ~(value <= rows[n.keys[i]])
         /\ c < Len(n.keys) => value <= rows[n.keys[c + 1]]
<1> DEFINE s == n.keys
           T == {c \in 0..Len(s) : c < Len(s) => value <= rows[s[c + 1]]}
<1>1. s \in Seq(Id) /\ Len(s) \in Nat
  BY DEF Node
<1>2. T \in SUBSET Nat /\ Len(s) \in T
  BY <1>1
<1>3. PICK c \in T : \A y \in T : c <= y
  BY <1>2, LeastNumber
<1>4. ASSUME NEW i \in 1..c PROVE ~(value <= rows[s[i]])
  <2>1. i - 1 \in 0..Len(s) /\ i - 1 < Len(s) /\ i - 1 < c /\ (i - 1) + 1 = i
    BY <1>1
  <2>2. i - 1 \notin T
    BY <1>1, <1>3, <2>1
  <2> QED
    BY <1>1, <2>1, <2>2
<1>5. \E x \in 0..Len(n.keys) : /\ \A i \in 1..x : ~(value <= rows[n.keys[i]])
                                /\ x < Len(n.keys) => value <= rows[n.keys[x + 1]]
  BY <1>3, <1>4
<1> HIDE DEF s, T
<1> QED
  BY <1>5 DEF find_offset, FirstCell

LEMMA ChildCell ==
  ASSUME NEW n \in Node, NEW value
  PROVE  LET c == StepCell(n, value) IN
         /\ c \in 0..Len(n.keys) /\ \A i \in 1..c : ~(value < rows[n.keys[i]])
         /\ c < Len(n.keys) => value < rows[n.keys[c + 1]]
<1> DEFINE s == n.keys
           T == {c \in 0..Len(s) : c < Len(s) => value < rows[s[c + 1]]}
<1>1. s \in Seq(Id) /\ Len(s) \in Nat
  BY DEF Node
<1>2. T \in SUBSET Nat /\ Len(s) \in T
  BY <1>1
<1>3. PICK c \in T : \A y \in T : c <= y
  BY <1>2, LeastNumber
<1>4. ASSUME NEW i \in 1..c PROVE ~(value < rows[s[i]])
  <2>1. i - 1 \in 0..Len(s) /\ i - 1 < Len(s) /\ i - 1 < c /\ (i - 1) + 1 = i
    BY <1>1
  <2>2. i - 1 \notin T
    BY <1>1, <1>3, <2>1
  <2> QED
    BY <1>1, <2>1, <2>2
<1>5. \E x \in 0..Len(n.keys) : /\ \A i \in 1..x : ~(value < rows[n.keys[i]])
                                /\ x < Len(n.keys) => value < rows[n.keys[x + 1]]
  BY <1>3, <1>4
<1> HIDE DEF s, T
<1> QED
  BY <1>5 DEF StepCell, FirstCell

LEMMA OffsetRange ==
  ASSUME NEW n \in Node, NEW value
  PROVE  find_offset(n, value) \in 0..Len(n.keys)
  BY OffsetCell

LEMMA StepRange ==
  ASSUME NEW n \in Node, NEW value
  PROVE  StepCell(n, value) \in 0..Len(n.keys)
  BY ChildCell

\* A node with one entry more, and an interior node with one child more
Grown(m, n) == m \in Node /\ m.leaf = n.leaf /\ m.parent = n.parent

LEMMA WithKeyNode ==
  ASSUME NEW n \in Node, NEW id \in Id, NEW value
  PROVE  /\ Grown(WithKey(n, id, value), n)
         /\ WithKey(n, id, value).kids = n.kids
         /\ \E k \in 1..(Len(n.keys) + 1) : WithKey(n, id, value).keys = InsertAt(n.keys, k, id)
<1> DEFINE k == find_offset(n, value) + 1
           keys == InsertAt(n.keys, k, id)
<1>1. n.keys \in Seq(Id) /\ Len(n.keys) \in Nat
  BY DEF Node
<1>2. k \in 1..(Len(n.keys) + 1)
  BY <1>1, OffsetRange
<1>3. WithKey(n, id, value) = [n EXCEPT !.keys = keys]
  BY DEF WithKey
<1> HIDE DEF k
<1>4. keys \in Seq(Id)
  BY <1>1, <1>2, InsertAtEntries
<1>5. keys = InsertAt(n.keys, k, id)
  OBVIOUS
<1> HIDE DEF keys
<1>6. /\ [n EXCEPT !.keys = keys] \in Node
      /\ [n EXCEPT !.keys = keys].keys = keys
      /\ [n EXCEPT !.keys = keys].leaf = n.leaf /\ [n EXCEPT !.keys = keys].parent = n.parent
      /\ [n EXCEPT !.keys = keys].kids = n.kids
  BY <1>4 DEF Node
<1> QED
  BY <1>2, <1>3, <1>5, <1>6 DEF Grown

LEMMA WithChildNode ==
  ASSUME NEW n \in Node, NEW id \in Id, NEW page \in Page, Len(n.kids) = Len(n.keys) + 1
  PROVE  /\ Grown(WithChild(n, id, page), n)
         /\ \E k \in 1..(Len(n.keys) + 1) : /\ WithChild(n, id, page).keys = InsertAt(n.keys, k, id)
                                            /\ WithChild(n, id, page).kids = InsertAt(n.kids, k + 1, page)
<1> DEFINE k == find_offset(n, rows[id]) + 1
           kids == InsertAt(n.kids, k + 1, page)
           keys == InsertAt(n.keys, k, id)
           m == WithKey(n, id, rows[id])
<1>1. n.keys \in Seq(Id) /\ n.kids \in Seq(Page) /\ Len(n.keys) \in Nat
  BY DEF Node
<1>2. k \in 1..(Len(n.keys) + 1)
  BY <1>1, OffsetRange
<1>3. m = [n EXCEPT !.keys = keys]
  BY DEF WithKey
<1>4. WithChild(n, id, page) = [m EXCEPT !.kids = InsertAt(@, k + 1, page)]
  <2>1. find_offset(n, rows[id]) \in Nat
    BY <1>1, OffsetRange
  <2>2. find_offset(n, rows[id]) + 2 = k + 1
    BY <2>1
  <2> HIDE DEF k
  <2> QED
    BY <2>2 DEF WithChild
<1> HIDE DEF k, m
<1>5. keys \in Seq(Id) /\ keys = InsertAt(n.keys, k, id)
  BY <1>1, <1>2, InsertAtEntries
<1>6. kids \in Seq(Page) /\ kids = InsertAt(n.kids, k + 1, page)
  <2>1. k + 1 \in 1..(Len(n.kids) + 1)
    BY <1>1, <1>2
  <2> QED
    BY <1>1, <2>1, InsertAtEntries
<1>7. m \in Node /\ m.keys = keys /\ m.kids = n.kids /\ m.leaf = n.leaf /\ m.parent = n.parent
  <2> HIDE DEF keys
  <2> QED
    BY <1>3, <1>5 DEF Node
<1>8. WithChild(n, id, page) = [m EXCEPT !.kids = kids]
  BY <1>4, <1>7
<1> HIDE DEF kids, keys
<1>9. /\ [m EXCEPT !.kids = kids] \in Node /\ [m EXCEPT !.kids = kids].keys = keys
      /\ [m EXCEPT !.kids = kids].kids = kids
      /\ [m EXCEPT !.kids = kids].leaf = n.leaf /\ [m EXCEPT !.kids = kids].parent = n.parent
  BY <1>6, <1>7 DEF Node
<1> QED
  BY <1>2, <1>5, <1>6, <1>8, <1>9 DEF Grown

LEMMA HalfBounds == /\ Half \in Nat /\ 1 <= Half /\ Half + 2 <= ORDER + 1
                    /\ ORDER \in Nat /\ ORDER >= 3
  BY IndexTreeAssumption DEF Half

\* What a split makes of a full node
LEMMA Halves ==
  ASSUME NEW n \in Node, Len(n.keys) = ORDER,
         IF n.leaf THEN n.kids = <<>> ELSE Len(n.kids) = ORDER + 1
  PROVE  /\ Grown(Left(n), n) /\ Grown(Right(n), n)
         /\ Left(n).keys = SubSeq(n.keys, 1, Half) /\ Right(n).keys = SubSeq(n.keys, Half + 2, ORDER)
         /\ n.leaf => Left(n).kids = <<>> /\ Right(n).kids = <<>>
         /\ ~n.leaf => /\ Left(n).kids = SubSeq(n.kids, 1, Half + 1)
                       /\ Right(n).kids = SubSeq(n.kids, Half + 2, ORDER + 1)
<1> DEFINE lk == SubSeq(n.keys, 1, Half)
           rk == SubSeq(n.keys, Half + 2, ORDER)
           lc == SubKids(n, 1, Half + 1)
           rc == SubKids(n, Half + 2, ORDER + 1)
<1>1. n.keys \in Seq(Id) /\ n.kids \in Seq(Page) /\ n.leaf \in BOOLEAN
  BY DEF Node
<1>2. lk \in Seq(Id) /\ rk \in Seq(Id)
  <2>1. /\ 1 \in Nat \ {0} /\ Half \in Nat /\ 1 <= Half + 1 /\ Half <= Len(n.keys)
        /\ Half + 2 \in Nat \ {0} /\ ORDER \in Nat /\ Half + 2 <= ORDER + 1 /\ ORDER <= Len(n.keys)
    BY HalfBounds
  <2> QED
    BY <1>1, <2>1, SubSeqEntries
<1>3. lc \in Seq(Page) /\ rc \in Seq(Page)
  <2>1. CASE n.leaf
    BY <2>1 DEF SubKids
  <2>2. CASE ~n.leaf
    <3>1. /\ 1 \in Nat \ {0} /\ Half + 1 \in Nat /\ 1 <= (Half + 1) + 1 /\ Half + 1 <= Len(n.kids)
          /\ Half + 2 \in Nat \ {0} /\ ORDER + 1 \in Nat /\ Half + 2 <= (ORDER + 1) + 1
          /\ ORDER + 1 <= Len(n.kids)
      BY <2>2, HalfBounds
    <3>2. /\ SubSeq(n.kids, 1, Half + 1) \in Seq(Page)
          /\ SubSeq(n.kids, Half + 2, ORDER + 1) \in Seq(Page)
      BY <1>1, <3>1, SubSeqEntries
    <3> QED
      BY <2>2, <3>2 DEF SubKids
  <2> QED
    BY <2>1, <2>2
<1>4. /\ Left(n) = [n EXCEPT !.keys = lk, !.kids = lc]
      /\ Right(n) = [n EXCEPT !.keys = rk, !.kids = rc]
  BY DEF Left, Right
<1>5. /\ n.leaf => lc = <<>> /\ rc = <<>>
      /\ ~n.leaf => /\ lc = SubSeq(n.kids, 1, Half + 1)
                    /\ rc = SubSeq(n.kids, Half + 2, ORDER + 1)
  BY DEF SubKids
<1>6. lk = SubSeq(n.keys, 1, Half) /\ rk = SubSeq(n.keys, Half + 2, ORDER)
  OBVIOUS
<1> HIDE DEF lk, rk, lc, rc
<1>7. /\ Left(n) \in Node /\ Left(n).keys = lk /\ Left(n).kids = lc
      /\ Left(n).leaf = n.leaf /\ Left(n).parent = n.parent
  BY <1>2, <1>3, <1>4 DEF Node
<1>8. /\ Right(n) \in Node /\ Right(n).keys = rk /\ Right(n).kids = rc
      /\ Right(n).leaf = n.leaf /\ Right(n).parent = n.parent
  BY <1>2, <1>3, <1>4 DEF Node
<1> QED
  BY <1>5, <1>6, <1>7, <1>8 DEF Grown

-----------------------------------------------------------------------------
\* The walk of find_bt_leaf goes down, so its recursive definition has a solution,
\* and every solution ends in a leaf.
Child(p, value) == At0(p).kids[StepCell(At0(p), value) + 1]
Walks(value, w) == w = [p \in Used |-> IF At0(p).leaf THEN p
                                       ELSE w[At0(p).kids[StepCell(At0(p), value) + 1]]]
Solves(value, w, S) == \A p \in S : w[p] = IF At0(p).leaf THEN p ELSE w[Child(p, value)]

LEMMA UsedPages ==
  ASSUME Shapes
  PROVE  /\ Used = Pages(node) /\ Used \subseteq Page /\ Root \in Used
         /\ \A p \in Used : At0(p) = node[p + 1] /\ At0(p) \in Node /\ p + 1 \in 1..Len(node)
         /\ NewPage = Len(node) /\ (NewPage < MaxPages => NewPage \in Page)
<1>1. node \in Seq(Node) /\ Len(node) \in 1..MaxPages /\ MaxPages \in Nat
  BY IndexTreeAssumption DEF Shapes
<1>2. ASSUME NEW p \in Used PROVE p \in Page /\ p + 1 \in 1..Len(node) /\ At0(p) \in Node
  BY <1>1, <1>2 DEF Used, Page, At0
<1> QED
  BY <1>1, <1>2 DEF Used, Pages, Root, At0, NewPage, Page

LEMMA ChildIsLower ==
  ASSUME Shapes, NEW h, NEW r, PagesIn(node, r, h), NEW value, NEW p \in Used, ~At0(p).leaf
  PROVE  Child(p, value) \in Used /\ h[Child(p, value)] < h[p]
<1>1. At0(p) = node[p + 1] /\ At0(p) \in Node /\ Used = Pages(node)
  BY UsedPages
<1> DEFINE n == At0(p)
           c == StepCell(n, value) + 1
<1>2. Len(n.kids) = Len(n.keys) + 1 /\ Len(n.keys) \in Nat
      /\ \A i \in 1..Len(n.kids) : n.kids[i] \in Pages(node) /\ h[n.kids[i]] < h[p]
  BY <1>1 DEF PagesIn, NodeIn, Node
<1>3. c \in 1..Len(n.kids)
  <2>1. StepCell(n, value) \in 0..Len(n.keys)
    BY <1>1, StepRange
  <2> HIDE DEF n
  <2> QED
    BY <1>2, <2>1
<1> QED
  BY <1>1, <1>2, <1>3 DEF Child

LEMMA WalkExists ==
  ASSUME Shapes, NEW h, IsHeight(h), NEW r, PagesIn(node, r, h), NEW value
  PROVE  \E w : Walks(value, w)
<1> DEFINE Low(n) == {p \in Used : h[p] < n}
           Fine(n) == \E w \in [Low(n) -> Used] : Solves(value, w, Low(n))
           T == {n \in Nat : ~Fine(n)}
<1>1. \A p \in Used : h[p] \in Nat
  BY UsedPages DEF IsHeight
<1>2. T = {}
  <2> SUFFICES ASSUME T # {} PROVE FALSE
    OBVIOUS
  <2>1. T \in SUBSET Nat
    OBVIOUS
  <2>2. PICK n \in T : \A m \in T : n <= m
    <3> HIDE DEF T
    <3> QED
      BY <2>1, LeastNumber
  <2>3. n \in Nat /\ ~Fine(n)
    OBVIOUS
  <2>4. CASE n = 0
    <3>1. Low(0) = {}
      BY <1>1
    <3>2. [p \in {} |-> p] \in [{} -> Used]
      OBVIOUS
    <3> HIDE DEF Low
    <3>3. Solves(value, [p \in {} |-> p], {})
      BY DEF Solves
    <3>4. Fine(0)
      BY <3>1, <3>2, <3>3
    <3> QED
      BY <2>3, <2>4, <3>4
  <2>5. CASE n # 0
    <3>1. n - 1 \in Nat /\ ~(n <= n - 1)
      BY ONLY <2>3, <2>5
    <3>2. n - 1 \notin T
      <4> HIDE DEF T
      <4> QED
        BY <2>2, <3>1
    <3>3. PICK w \in [Low(n - 1) -> Used] : Solves(value, w, Low(n - 1))
      BY <3>1, <3>2
    <3> DEFINE v == [p \in Low(n) |-> IF At0(p).leaf THEN p ELSE w[Child(p, value)]]
    <3>4. \A p \in Low(n) : p \in Used /\ (~At0(p).leaf => Child(p, value) \in Low(n - 1))
      <4> SUFFICES ASSUME NEW p \in Low(n), ~At0(p).leaf PROVE Child(p, value) \in Low(n - 1)
        OBVIOUS
      <4>1. p \in Used /\ h[p] < n
        OBVIOUS
      <4>2. Child(p, value) \in Used /\ h[Child(p, value)] < h[p]
        BY <4>1, ChildIsLower
      <4>3. h[Child(p, value)] < n - 1
        BY <1>1, <2>3, <4>1, <4>2
      <4> QED
        BY <4>2, <4>3
    <3>5. v \in [Low(n) -> Used]
      <4> HIDE DEF Low
      <4> QED
        BY <3>3, <3>4
    <3>6. \A p \in Low(n - 1) : p \in Low(n) /\ v[p] = w[p]
      <4> TAKE p \in Low(n - 1)
      <4>1. p \in Low(n)
        BY <1>1, <2>3
      <4>2. w[p] = IF At0(p).leaf THEN p ELSE w[Child(p, value)]
        BY <3>3 DEF Solves
      <4> HIDE DEF Low
      <4> QED
        BY <4>1, <4>2
    <3>7. Solves(value, v, Low(n))
      <4> HIDE DEF Low
      <4> QED
        BY <3>4, <3>6 DEF Solves
    <3>8. Fine(n)
      <4> HIDE DEF v, Low
      <4> QED
        BY <3>5, <3>7
    <3> QED
      BY <2>3, <3>8
  <2> QED
    BY <2>4, <2>5
<1>3. PICK n \in Nat : Low(n) = Used
  <2>1. PICK m \in Nat : \A p \in Page : h[p] <= m
    BY DEF IsHeight
  <2>2. \A p \in Used : h[p] < m + 1
    BY <1>1, <2>1, UsedPages
  <2> QED
    BY <2>2
<1>4. PICK w \in [Used -> Used] : Solves(value, w, Used)
  <2>1. Fine(n)
    BY <1>2
  <2> HIDE DEF Low
  <2> QED
    BY <1>3, <2>1
<1>5. w = [p \in Used |-> w[p]]
  OBVIOUS
<1>6. \A p \in Used : w[p] = IF At0(p).leaf THEN p ELSE w[At0(p).kids[StepCell(At0(p), value) + 1]]
  BY <1>4 DEF Solves, Child
<1>7. Walks(value, w)
  BY <1>5, <1>6, Zenon DEF Walks
<1> QED
  BY <1>7

LEMMA LeafIsFound ==
  ASSUME Shapes, NEW h, IsHeight(h), NEW r, PagesIn(node, r, h), NEW value
  PROVE  find_bt_leaf(value) \in Used /\ At0(find_bt_leaf(value)).leaf
<1> DEFINE w == CHOOSE f : Walks(value, f)
<1>1. Walks(value, w)
  BY WalkExists
<1>2. find_bt_leaf(value) = w[Root]
  BY DEF find_bt_leaf, Walks
<1> HIDE DEF w
<1> DEFINE Wrong == {n \in Nat : \E p \in Used : h[p] = n /\ ~(w[p] \in Used /\ At0(w[p]).leaf)}
<1>3. Wrong = {}
  <2> SUFFICES ASSUME Wrong # {} PROVE FALSE
    OBVIOUS
  <2>1. PICK n \in Wrong : \A m \in Wrong : n <= m
    <3>1. Wrong \in SUBSET Nat
      OBVIOUS
    <3> HIDE DEF Wrong
    <3> QED
      BY <3>1, LeastNumber
  <2>2. PICK p \in Used : h[p] = n /\ ~(w[p] \in Used /\ At0(w[p]).leaf)
    OBVIOUS
  <2>3. w[p] = IF At0(p).leaf THEN p ELSE w[Child(p, value)]
    BY <1>1 DEF Walks, Child
  <2>4. ~At0(p).leaf
    BY <2>2, <2>3
  <2>5. Child(p, value) \in Used /\ h[Child(p, value)] < h[p]
    BY <2>4, ChildIsLower
  <2>6. h[Child(p, value)] \in Nat /\ n \in Nat
    BY <2>5, UsedPages DEF IsHeight
  <2>7. h[Child(p, value)] \notin Wrong
    BY <2>1, <2>2, <2>5, <2>6
  <2>8. w[Child(p, value)] \in Used /\ At0(w[Child(p, value)]).leaf
    BY <2>5, <2>6, <2>7
  <2> QED
    BY <2>2, <2>3, <2>4, <2>8
<1>4. Root \in Used /\ h[Root] \in Nat
  BY UsedPages DEF IsHeight
<1>5. w[Root] \in Used /\ At0(w[Root]).leaf
  BY <1>3, <1>4
<1> QED
  BY <1>2, <1>5

-----------------------------------------------------------------------------
\* Nodes stay at their height when the tree grows.

LEMMA NodeKept ==
  ASSUME NEW pages, NEW interiors, NEW r \in Nat, NEW n, NEW top, NEW h,
         NodeIn(pages, interiors, r, n, top, h),
         NEW more, NEW inner, NEW s \in Nat, NEW high, NEW g,
         pages \subseteq more, interiors \subseteq inner, r <= s,
         \A p \in pages : h[p] < top => g[p] < high,
         \A p \in interiors : top < h[p] => high < g[p]
  PROVE  NodeIn(more, inner, s, n, high, g)
<1>1. 1..r \subseteq 1..s
  OBVIOUS
<1> QED
  BY <1>1 DEF NodeIn

\* The pages of nd keep their order and what is interior when the nodes become md.
Raised(nd, md, h, g) ==
  /\ Pages(nd) \subseteq Pages(md) /\ Interiors(nd) \subseteq Interiors(md)
  /\ \A p, q \in Pages(nd) : h[p] < h[q] => g[p] < g[q]

LEMMA NodeRaised ==
  ASSUME NEW nd, NEW md, NEW h, NEW g, Raised(nd, md, h, g), NEW r \in Nat, NEW s \in Nat, r <= s,
         NEW page \in Pages(nd), NEW n, NodeIn(Pages(nd), Interiors(nd), r, n, h[page], h)
  PROVE  NodeIn(Pages(md), Interiors(md), s, n, g[page], g)
<1>1. Interiors(nd) \subseteq Pages(nd)
  BY DEF Interiors
<1> QED
  BY <1>1, NodeKept DEF Raised

LEMMA NodeStays ==
  ASSUME NEW nd, NEW md, NEW h, NEW g, Raised(nd, md, h, g), NEW r \in Nat,
         NEW page \in Pages(nd), NEW n, NodeIn(Pages(nd), Interiors(nd), r, n, h[page], h)
  PROVE  NodeIn(Pages(md), Interiors(md), r, n, g[page], g)
<1>1. r <= r
  OBVIOUS
<1> QED
  BY <1>1, NodeRaised

\* A call that waits for its write is not touched by the one above it.
LEMMA CallRaised ==
  ASSUME NEW nd, NEW md, NEW h, NEW g, Raised(nd, md, h, g), NEW r \in Nat, NEW s \in Nat, r <= s,
         NEW f, CallIn(nd, r, f, h), f.pc = "write", md[f.page + 1].leaf = nd[f.page + 1].leaf
  PROVE  CallIn(md, s, f, g)
<1>1. f.page \in Pages(nd) /\ NodeIn(Pages(nd), Interiors(nd), r, f.node, h[f.page], h)
  BY DEF CallIn
<1>2. NodeIn(Pages(md), Interiors(md), s, f.node, g[f.page], g)
  BY <1>1, NodeRaised
<1> QED
  BY <1>1, <1>2 DEF CallIn, Raised

\* What a step makes of the stack of calls: a new last one
LastSet(fs, gs, f) == /\ gs \in Seq(Frame) /\ Len(gs) = Len(fs) /\ gs[Len(fs)] = f
                      /\ \A i \in 1..(Len(fs) - 1) : gs[i] = fs[i]

LEMMA TopFacts ==
  ASSUME Shapes, frames # <<>>
  PROVE  Len(frames) \in Nat \ {0} /\ Top = frames[Len(frames)] /\ Top \in Frame
<1>1. frames \in Seq(Frame) /\ Len(frames) \in Nat \ {0} /\ Len(frames) \in 1..Len(frames)
  BY DEF Shapes
<1>2. Top = frames[Len(frames)]
  BY DEF Top, Last
<1> QED
  BY <1>1, <1>2

LEMMA TopIsSet ==
  ASSUME Shapes, frames # <<>>, NEW f \in Frame, SetTop(f)
  PROVE  LastSet(frames, frames', f)
<1> DEFINE n == Len(frames)
           front == Front(frames)
<1>1. frames \in Seq(Frame) /\ n \in Nat \ {0} /\ Len(frames) > 0
  BY TopFacts DEF Shapes
<1>2. front \in Seq(Frame) /\ Len(front) = n - 1 /\ \A i \in 1..(n - 1) : front[i] = frames[i]
  BY <1>1, FrontEntries
<1>3. frames' = Append(front, f)
  BY DEF SetTop
<1>4. n = Len(frames)
  OBVIOUS
<1> HIDE DEF n, front
<1>5. frames' \in Seq(Frame) /\ Len(frames') = n /\ frames'[n] = f
  BY <1>1, <1>2, <1>3
<1>6. \A i \in 1..(n - 1) : frames'[i] = frames[i]
  BY <1>1, <1>2, <1>3
<1> QED
  BY <1>4, <1>5, <1>6 DEF LastSet

LEMMA FrontOfCalls ==
  ASSUME Shapes, frames # <<>>
  PROVE  /\ Front(frames) \in Seq(Frame) /\ Len(Front(frames)) = Len(frames) - 1
         /\ \A i \in 1..(Len(frames) - 1) : Front(frames)[i] = frames[i]
<1>1. frames \in Seq(Frame) /\ Len(frames) > 0
  BY TopFacts DEF Shapes
<1> QED
  BY <1>1, FrontEntries

\* The calls after a step that replaces the last one, on page
Waiting(nd, md, g, fs, page) ==
  \A i \in 1..(Len(fs) - 1) : /\ md[fs[i].page + 1].leaf = nd[fs[i].page + 1].leaf
                              /\ g[fs[i].page] < g[page]
LEMMA CallsKept ==
  ASSUME NEW nd, NEW md, NEW h, NEW g, Raised(nd, md, h, g), NEW r \in Nat, NEW s \in Nat, r <= s,
         NEW fs \in Seq(Frame), fs # <<>>, CallsIn(nd, r, fs, h), IsHeight(g), IsHeight(h),
         NEW f, NEW gs, LastSet(fs, gs, f), CallIn(md, s, f, g), f.page \in Page,
         Waiting(nd, md, g, fs, f.page)
  PROVE  CallsIn(md, s, gs, g)
<1> DEFINE n == Len(fs)
<1>1. n \in Nat \ {0} /\ Len(gs) = n
  BY DEF LastSet
<1> SUFFICES ASSUME NEW i \in 1..n
             PROVE  /\ CallIn(md, s, gs[i], g) /\ (i < n => gs[i].pc = "write")
                    /\ \A j \in 1..n : i < j => g[gs[i].page] < g[gs[j].page]
  BY <1>1 DEF CallsIn
<1>2. CASE i = n
  BY <1>1, <1>2 DEF LastSet
<1>3. CASE i # n
  <2>1. i \in 1..(n - 1) /\ gs[i] = fs[i]
    BY <1>1, <1>3 DEF LastSet
  <2>2. CallIn(nd, r, fs[i], h) /\ fs[i].pc = "write"
    BY <1>1, <2>1 DEF CallsIn
  <2>3. CallIn(md, s, fs[i], g)
    BY <2>1, <2>2, CallRaised DEF Waiting
  <2>4. ASSUME NEW j \in 1..n, i < j PROVE g[gs[i].page] < g[gs[j].page]
    <3>1. CASE j = n
      BY <2>1, <3>1 DEF LastSet, Waiting
    <3>2. CASE j # n
      <4>1. j \in 1..(n - 1) /\ gs[j] = fs[j]
        BY <1>1, <3>2 DEF LastSet
      <4>2. h[fs[i].page] < h[fs[j].page] /\ fs[j].page \in Pages(nd)
        BY <1>1, <2>4, <4>1 DEF CallsIn, CallIn
      <4> QED
        BY <2>1, <2>2, <4>1, <4>2 DEF Raised, CallIn
    <3> QED
      BY <3>1, <3>2
  <2> QED
    BY <2>1, <2>2, <2>3, <2>4
<1> QED
  BY <1>2, <1>3

\* A page that a step does not write, and the calls after a step without a new row
LEMMA PageStays ==
  ASSUME NEW nd, NEW md, NEW h, NEW g, Raised(nd, md, h, g), NEW r \in Nat, PagesIn(nd, r, h),
         NEW p \in Pages(nd), md[p + 1] = nd[p + 1]
  PROVE  /\ NodeIn(Pages(md), Interiors(md), r, md[p + 1], g[p], g)
         /\ Len(md[p + 1].keys) <= ORDER - 1
<1>1. NodeIn(Pages(nd), Interiors(nd), r, nd[p + 1], h[p], h) /\ Len(nd[p + 1].keys) <= ORDER - 1
  BY DEF PagesIn
<1>2. NodeIn(Pages(md), Interiors(md), r, nd[p + 1], g[p], g)
  BY <1>1, NodeStays
<1> QED
  BY <1>1, <1>2

LEMMA CallsStay ==
  ASSUME NEW nd, NEW md, NEW h, NEW g, Raised(nd, md, h, g), NEW r \in Nat,
         NEW fs \in Seq(Frame), fs # <<>>, CallsIn(nd, r, fs, h), IsHeight(g), IsHeight(h),
         NEW f, NEW gs, LastSet(fs, gs, f), CallIn(md, r, f, g), f.page \in Page,
         Waiting(nd, md, g, fs, f.page)
  PROVE  CallsIn(md, r, gs, g)
<1>1. r <= r
  OBVIOUS
<1> QED
  BY <1>1, CallsKept

-----------------------------------------------------------------------------
\* What the writes make of the nodes

Appended(nd, md, n) ==
  /\ md \in Seq(Node) /\ Len(md) = Len(nd) + 1 /\ Len(md) \in 1..MaxPages
  /\ Pages(md) = Pages(nd) \union {Len(nd)} /\ Len(nd) \notin Pages(nd) /\ Len(nd) \in Page
  /\ md[Len(nd) + 1] = n
  /\ \A p \in Pages(nd) : md[p + 1] = nd[p + 1]

LEMMA AppendPage ==
  ASSUME NEW nd \in Seq(Node), Len(nd) \in 1..MaxPages, Len(nd) < MaxPages, NEW n \in Node
  PROVE  Appended(nd, Append(nd, n), n)
<1> DEFINE k == Len(nd)
           md == Append(nd, n)
<1>1. k \in Nat /\ MaxPages \in Nat /\ k = Len(nd)
  BY IndexTreeAssumption
<1>2. md \in Seq(Node) /\ Len(md) = k + 1 /\ md[k + 1] = n /\ \A i \in 1..k : md[i] = nd[i]
  OBVIOUS
<1> HIDE DEF k, md
<1>3. \A p \in Pages(nd) : p + 1 \in 1..k
  BY <1>1 DEF Pages
<1>4. Pages(md) = Pages(nd) \union {k} /\ k \notin Pages(nd) /\ k \in Page /\ k + 1 \in 1..MaxPages
  BY <1>1, <1>2 DEF Pages, Page
<1> QED
  BY <1>1, <1>2, <1>3, <1>4 DEF Appended, md

Replaced(nd, md, page, n) ==
  /\ md \in Seq(Node) /\ Len(md) = Len(nd) /\ Pages(md) = Pages(nd)
  /\ \A p \in Pages(nd) : md[p + 1] = IF p = page THEN n ELSE nd[p + 1]

LEMMA ReplacePage ==
  ASSUME NEW nd \in Seq(Node), NEW page \in Pages(nd), NEW n \in Node
  PROVE  Replaced(nd, [nd EXCEPT ![page + 1] = n], page, n)
<1> DEFINE md == [nd EXCEPT ![page + 1] = n]
<1>1. Len(nd) \in Nat /\ \A p \in Pages(nd) : p + 1 \in 1..Len(nd) /\ p \in Int
  BY DEF Pages
<1>2. md \in Seq(Node) /\ Len(md) = Len(nd)
  BY <1>1
<1>3. \A i \in 1..Len(nd) : md[i] = IF i = page + 1 THEN n ELSE nd[i]
  BY <1>1
<1> HIDE DEF md
<1>4. \A p \in Pages(nd) : p + 1 = page + 1 <=> p = page
  BY <1>1
<1>5. \A p \in Pages(nd) : md[p + 1] = IF p = page THEN n ELSE nd[p + 1]
  BY <1>1, <1>3, <1>4
<1> QED
  BY <1>2, <1>5 DEF Replaced, Pages, md

\* A new page at the height of another
LEMMA NewHeight ==
  ASSUME NEW nd, NEW md, NEW n, Appended(nd, md, n), NEW h, IsHeight(h), NEW page \in Pages(nd),
         Pages(nd) \subseteq Page
  PROVE  \E g : /\ IsHeight(g) /\ Raised(nd, md, h, g)
                /\ g[Len(nd)] = h[page] /\ \A p \in Pages(nd) : g[p] = h[p]
<1> DEFINE new == Len(nd)
           g == [h EXCEPT ![new] = h[page]]
<1>1. new \in Page /\ new \notin Pages(nd) /\ Pages(nd) \subseteq Pages(md)
      /\ \A p \in Pages(nd) : md[p + 1] = nd[p + 1]
  BY DEF Appended
<1>2. Interiors(nd) \subseteq Interiors(md)
  BY <1>1 DEF Interiors
<1> HIDE DEF new
<1>3. g \in [Page -> Nat] /\ \A p \in Page : g[p] = IF p = new THEN h[page] ELSE h[p]
  BY <1>1 DEF IsHeight
<1> HIDE DEF g
<1>4. IsHeight(g)
  <2>1. PICK m \in Nat : \A p \in Page : h[p] <= m
    BY DEF IsHeight
  <2>2. \A p \in Page : g[p] <= m
    BY <1>3, <2>1
  <2> QED
    BY <1>3, <2>2 DEF IsHeight
<1>5. g[new] = h[page] /\ \A p \in Pages(nd) : g[p] = h[p]
  BY <1>1, <1>3
<1> QED
  BY <1>1, <1>2, <1>4, <1>5 DEF Raised, new

\* What a call in progress is
LEMMA CallFacts ==
  ASSUME Shapes, NEW h, Leveled(node, Len(rows), frames, h), frames # <<>>
  PROVE  /\ Top \in Frame /\ Top.page \in Pages(node) /\ Top.node \in Node /\ Top.page \in Page
         /\ CallIn(node, Len(rows), Top, h) /\ Top = frames[Len(frames)]
         /\ Len(rows) \in Nat /\ Len(rows) <= MaxRows /\ MaxRows \in Nat
         /\ Pages(node) \subseteq Page /\ Interiors(node) \subseteq Pages(node)
         /\ IsHeight(h) /\ PagesIn(node, Len(rows), h) /\ CallsIn(node, Len(rows), frames, h)
         /\ \A i \in 1..(Len(frames) - 1) : /\ frames[i].page \in Pages(node)
                                            /\ h[frames[i].page] < h[Top.page]
<1>1. Len(frames) \in Nat \ {0} /\ Top = frames[Len(frames)] /\ Top \in Frame /\ Len(frames) \in 1..Len(frames)
  BY TopFacts
<1>2. IsHeight(h) /\ PagesIn(node, Len(rows), h) /\ CallsIn(node, Len(rows), frames, h)
  BY DEF Leveled
<1>3. CallIn(node, Len(rows), Top, h)
  BY <1>1, <1>2 DEF CallsIn
<1>4. \A i \in 1..(Len(frames) - 1) : /\ frames[i].page \in Pages(node)
                                      /\ h[frames[i].page] < h[Top.page]
  <2> TAKE i \in 1..(Len(frames) - 1)
  <2>1. i \in 1..Len(frames) /\ i < Len(frames)
    BY <1>1
  <2> QED
    BY <1>1, <1>2, <2>1 DEF CallsIn, CallIn
<1>5. Pages(node) \subseteq Page /\ Interiors(node) \subseteq Pages(node)
  BY UsedPages DEF Interiors
<1>6. Top.page \in Pages(node) /\ Top.node \in Node /\ Top.page \in Page
  BY <1>1, <1>3 DEF CallIn, Frame
<1>7. Len(rows) \in Nat /\ Len(rows) <= MaxRows /\ MaxRows \in Nat
  BY IndexTreeAssumption DEF Shapes
<1> QED
  BY <1>1, <1>2, <1>3, <1>4, <1>5, <1>6, <1>7

\* The parts of a node at its height
LEMMA PartIn ==
  ASSUME NEW pages, NEW interiors, NEW r, NEW n, NEW top, NEW h, NodeIn(pages, interiors, r, n, top, h),
         NEW m, Grown(m, n), m.leaf => m.kids = <<>>, ~m.leaf => Len(m.kids) = Len(m.keys) + 1,
         \A i \in 1..Len(m.keys) : \E j \in 1..Len(n.keys) : m.keys[i] = n.keys[j],
         \A i \in 1..Len(m.kids) : \E j \in 1..Len(n.kids) : m.kids[i] = n.kids[j]
  PROVE  NodeIn(pages, interiors, r, m, top, h)
  BY DEF NodeIn, Grown

\* t is the n elements of s after the first a.
Part(t, s, a, n) == Len(t) = n /\ \A i \in 1..n : t[i] = s[a + i]

LEMMA SubSeqPart ==
  ASSUME NEW S, NEW s \in Seq(S), NEW a \in Nat, NEW b \in Nat, a <= b, b <= Len(s)
  PROVE  Part(SubSeq(s, a + 1, b), s, a, b - a)
<1> DEFINE t == SubSeq(s, a + 1, b)
<1>1. Len(t) = b - (a + 1) + 1 /\ \A i \in 1..(b - (a + 1) + 1) : t[i] = s[a + 1 + i - 1]
  <2>1. a + 1 \in Nat \ {0} /\ a + 1 <= b + 1
    OBVIOUS
  <2> QED
    BY <2>1, SubSeqEntries
<1>2. b - (a + 1) + 1 = b - a /\ \A i \in Int : a + 1 + i - 1 = a + i
  OBVIOUS
<1> HIDE DEF t
<1> QED
  BY <1>1, <1>2 DEF Part, t

LEMMA HalvesParts ==
  ASSUME NEW n \in Node, Len(n.keys) = ORDER,
         IF n.leaf THEN n.kids = <<>> ELSE Len(n.kids) = ORDER + 1
  PROVE  /\ Part(Left(n).keys, n.keys, 0, Half)
         /\ Part(Right(n).keys, n.keys, Half + 1, ORDER - (Half + 1))
         /\ ~n.leaf => /\ Part(Left(n).kids, n.kids, 0, Half + 1)
                       /\ Part(Right(n).kids, n.kids, Half + 1, ORDER + 1 - (Half + 1))
<1>1. n.keys \in Seq(Id) /\ n.kids \in Seq(Page) /\ n.leaf \in BOOLEAN
  BY DEF Node
<1>2. /\ Half \in Nat /\ Half + 1 \in Nat /\ Half <= ORDER /\ Half + 1 <= ORDER
      /\ ORDER \in Nat /\ ORDER + 1 \in Nat /\ Half + 1 <= ORDER + 1
      /\ 0 + 1 = 1 /\ (Half + 1) + 1 = Half + 2 /\ Half - 0 = Half /\ Half + 1 - 0 = Half + 1
      /\ 0 \in Nat /\ 0 <= Half /\ 0 <= Half + 1
  BY HalfBounds
<1>3. Part(SubSeq(n.keys, 0 + 1, Half), n.keys, 0, Half - 0)
  BY ONLY <1>1, <1>2, SubSeqPart, Len(n.keys) = ORDER
<1>4. Part(SubSeq(n.keys, (Half + 1) + 1, ORDER), n.keys, Half + 1, ORDER - (Half + 1))
  BY ONLY <1>1, <1>2, SubSeqPart, Len(n.keys) = ORDER
<1>5. ASSUME ~n.leaf
      PROVE  /\ Part(SubSeq(n.kids, 0 + 1, Half + 1), n.kids, 0, Half + 1 - 0)
             /\ Part(SubSeq(n.kids, (Half + 1) + 1, ORDER + 1), n.kids, Half + 1, ORDER + 1 - (Half + 1))
  <2>1. Len(n.kids) = ORDER + 1 /\ Half + 1 <= Len(n.kids) /\ ORDER + 1 <= Len(n.kids)
    BY <1>2, <1>5
  <2>2. Part(SubSeq(n.kids, 0 + 1, Half + 1), n.kids, 0, Half + 1 - 0)
    BY ONLY <1>1, <1>2, <2>1, SubSeqPart
  <2>3. Part(SubSeq(n.kids, (Half + 1) + 1, ORDER + 1), n.kids, Half + 1, ORDER + 1 - (Half + 1))
    BY ONLY <1>1, <1>2, <2>1, SubSeqPart
  <2> QED
    BY <2>2, <2>3
<1>6. /\ Left(n).keys = SubSeq(n.keys, 1, Half) /\ Right(n).keys = SubSeq(n.keys, Half + 2, ORDER)
      /\ ~n.leaf => /\ Left(n).kids = SubSeq(n.kids, 1, Half + 1)
                    /\ Right(n).kids = SubSeq(n.kids, Half + 2, ORDER + 1)
  BY Halves
<1> QED
  BY ONLY <1>2, <1>3, <1>4, <1>5, <1>6

\* Elements of a part are elements of the whole.
LEMMA PartOf ==
  ASSUME NEW s, NEW t, NEW a \in Nat, NEW n \in Nat, Part(t, s, a, n), Len(s) \in Nat, a + n <= Len(s)
  PROVE  \A i \in 1..Len(t) : a + i \in 1..Len(s) /\ t[i] = s[a + i]
<1> DEFINE len == Len(s)
<1>1. \A i \in 1..n : a + i \in 1..len
  <2> HIDE DEF len
  <2>1. len \in Nat /\ a + n <= len
    BY DEF len
  <2> QED
    BY ONLY <2>1, a \in Nat, n \in Nat
<1> QED
  BY <1>1 DEF Part

Within(t, s) == \A i \in 1..Len(t) : \E j \in 1..Len(s) : t[i] = s[j]
LEMMA PartIsWithin ==
  ASSUME NEW s, NEW t, NEW a \in Nat, NEW n \in Nat, NEW len \in Nat,
         Part(t, s, a, n) /\ Len(s) = len /\ a + n <= len
  PROVE  Within(t, s)
  BY PartOf DEF Within

LEMMA HalvesIn ==
  ASSUME NEW n \in Node, Len(n.keys) = ORDER, NEW pages, NEW interiors, NEW r, NEW top, NEW h,
         NodeIn(pages, interiors, r, n, top, h)
  PROVE  /\ Grown(Left(n), n) /\ Grown(Right(n), n)
         /\ NodeIn(pages, interiors, r, Left(n), top, h) /\ NodeIn(pages, interiors, r, Right(n), top, h)
         /\ Len(Left(n).keys) <= ORDER - 1 /\ Len(Right(n).keys) <= ORDER - 1
         /\ n.keys[Half + 1] \in 1..r
<1>1. IF n.leaf THEN n.kids = <<>> ELSE Len(n.kids) = ORDER + 1
  BY DEF NodeIn
<1>2. /\ Grown(Left(n), n) /\ Grown(Right(n), n)
      /\ n.leaf => Left(n).kids = <<>> /\ Right(n).kids = <<>>
  BY <1>1, Halves
<1>3. /\ Half \in Nat /\ Half + 1 \in Nat /\ 1 <= Half /\ Half + 2 <= ORDER + 1 /\ ORDER \in Nat
      /\ 0 + Half <= ORDER /\ Half <= ORDER - 1 /\ ORDER - (Half + 1) <= ORDER - 1
      /\ ORDER - (Half + 1) \in Nat /\ Half + 1 + (ORDER - (Half + 1)) <= ORDER
      /\ 0 + (Half + 1) <= ORDER + 1 /\ ORDER + 1 - (Half + 1) \in Nat
      /\ Half + 1 + (ORDER + 1 - (Half + 1)) <= ORDER + 1 /\ 0 \in Nat
      /\ ORDER + 1 - (Half + 1) = ORDER - (Half + 1) + 1
      /\ Half + 1 \in 1..ORDER
  BY HalfBounds
<1>4. /\ Part(Left(n).keys, n.keys, 0, Half)
      /\ Part(Right(n).keys, n.keys, Half + 1, ORDER - (Half + 1))
      /\ ~n.leaf => /\ Part(Left(n).kids, n.kids, 0, Half + 1)
                    /\ Part(Right(n).kids, n.kids, Half + 1, ORDER + 1 - (Half + 1))
  BY <1>1, HalvesParts
<1>5. Within(Left(n).keys, n.keys) /\ Within(Right(n).keys, n.keys)
  <2>1. Within(Left(n).keys, n.keys)
    BY ONLY <1>3, <1>4, PartIsWithin, Len(n.keys) = ORDER, Zenon
  <2>2. Within(Right(n).keys, n.keys)
    BY ONLY <1>3, <1>4, PartIsWithin, Len(n.keys) = ORDER, Zenon
  <2> QED
    BY ONLY <2>1, <2>2
<1>6. Within(Left(n).kids, n.kids) /\ Within(Right(n).kids, n.kids)
  <2>1. CASE n.leaf
    BY <1>2, <2>1 DEF Within
  <2>2. CASE ~n.leaf
    <3>1. Len(n.kids) = ORDER + 1 /\ ORDER + 1 \in Nat
      BY <1>1, <1>3, <2>2
    <3>2. Within(Left(n).kids, n.kids)
      BY ONLY <1>3, <1>4, <2>2, <3>1, PartIsWithin, Zenon
    <3>3. Within(Right(n).kids, n.kids)
      BY ONLY <1>3, <1>4, <2>2, <3>1, PartIsWithin, Zenon
    <3> QED
      BY ONLY <3>2, <3>3
  <2> QED
    BY <2>1, <2>2
<1>7. /\ Left(n).leaf = n.leaf /\ Right(n).leaf = n.leaf
      /\ Len(Left(n).keys) = Half /\ Len(Right(n).keys) = ORDER - (Half + 1)
      /\ ~n.leaf => /\ Len(Left(n).kids) = Half + 1
                    /\ Len(Right(n).kids) = ORDER + 1 - (Half + 1)
  BY <1>2, <1>4 DEF Grown, Part
<1>8. /\ ~n.leaf => Len(Left(n).kids) = Len(Left(n).keys) + 1
      /\ ~n.leaf => Len(Right(n).kids) = Len(Right(n).keys) + 1
      /\ Len(Left(n).keys) <= ORDER - 1 /\ Len(Right(n).keys) <= ORDER - 1
  BY ONLY <1>3, <1>7
<1>9. NodeIn(pages, interiors, r, Left(n), top, h)
  BY <1>2, <1>5, <1>6, <1>7, <1>8, PartIn DEF Within
<1>10. NodeIn(pages, interiors, r, Right(n), top, h)
  BY <1>2, <1>5, <1>6, <1>7, <1>8, PartIn DEF Within
<1>11. n.keys[Half + 1] \in 1..r
  BY <1>3 DEF NodeIn
<1> QED
  BY <1>2, <1>8, <1>9, <1>10, <1>11

-----------------------------------------------------------------------------
\* The steps keep heights.

LEMMA SplitLevels == ASSUME LevelInv, split_bt_node PROVE LevelInv'
<1> DEFINE r == Len(rows)
           n == Top.node
           f == [Top EXCEPT !.node = Left(@), !.pc = IF n.parent = NoPage THEN "root" ELSE "up",
                            !.key = n.keys[Half + 1], !.sibling = NewPage]
<1>1. Shapes /\ frames # <<>> /\ Top.pc = "split" /\ NewPage < MaxPages
      /\ node' = Append(node, Right(n)) /\ SetTop(f) /\ rows' = rows /\ deep' \in BOOLEAN
  BY DEF LevelInv, split_bt_node, At, Shapes, Node
<1>2. PICK h : Leveled(node, r, frames, h)
  BY DEF LevelInv
<1>3. /\ Top \in Frame /\ Top.page \in Pages(node) /\ n \in Node /\ Top.page \in Page
      /\ CallIn(node, r, Top, h) /\ r \in Nat /\ r <= MaxRows /\ MaxRows \in Nat
      /\ Pages(node) \subseteq Page
      /\ IsHeight(h) /\ PagesIn(node, r, h) /\ CallsIn(node, r, frames, h)
      /\ \A i \in 1..(Len(frames) - 1) : /\ frames[i].page \in Pages(node)
                                         /\ h[frames[i].page] < h[Top.page]
  BY <1>1, <1>2, CallFacts
<1>20. Len(rows') = r /\ r <= r
  BY <1>1, <1>3
<1> HIDE DEF r
<1>4. /\ NodeIn(Pages(node), Interiors(node), r, n, h[Top.page], h) /\ Len(n.keys) = ORDER
      /\ node[Top.page + 1].leaf = n.leaf
  BY <1>1, <1>3 DEF CallIn
<1>5. /\ Grown(Left(n), n) /\ Grown(Right(n), n)
      /\ NodeIn(Pages(node), Interiors(node), r, Left(n), h[Top.page], h)
      /\ NodeIn(Pages(node), Interiors(node), r, Right(n), h[Top.page], h)
      /\ Len(Left(n).keys) <= ORDER - 1 /\ Len(Right(n).keys) <= ORDER - 1
      /\ n.keys[Half + 1] \in 1..r
  BY <1>3, <1>4, HalvesIn
<1>6. Appended(node, node', Right(n)) /\ NewPage = Len(node)
  BY <1>1, <1>5, AppendPage DEF Shapes, Grown, NewPage
<1>7. PICK g : /\ IsHeight(g) /\ Raised(node, node', h, g)
               /\ g[Len(node)] = h[Top.page] /\ \A p \in Pages(node) : g[p] = h[p]
  BY <1>3, <1>6, NewHeight
<1>8. PagesIn(node', r, g)
  <2> SUFFICES ASSUME NEW p \in Pages(node')
               PROVE  /\ NodeIn(Pages(node'), Interiors(node'), r, node'[p + 1], g[p], g)
                      /\ Len(node'[p + 1].keys) <= ORDER - 1
    BY DEF PagesIn
  <2>1. CASE p \in Pages(node)
    <3>1. node'[p + 1] = node[p + 1]
      BY <1>6, <2>1 DEF Appended
    <3> QED
      BY <1>3, <1>7, <2>1, <3>1, PageStays
  <2>2. CASE p \notin Pages(node)
    <3>1. p = Len(node) /\ node'[p + 1] = Right(n)
      BY <1>6, <2>2 DEF Appended
    <3>2. NodeIn(Pages(node'), Interiors(node'), r, Right(n), g[Top.page], g)
      BY <1>3, <1>5, <1>7, NodeStays
    <3> QED
      BY <1>3, <1>5, <1>7, <3>1, <3>2
  <2> QED
    BY <2>1, <2>2
<1> HIDE DEF n
<1>9. /\ f \in Frame /\ f.page = Top.page /\ f.node = Left(n) /\ f.key = n.keys[Half + 1]
      /\ f.sibling = Len(node) /\ f.pc = IF n.parent = NoPage THEN "root" ELSE "up"
  <2>1. Left(n) \in Node /\ Len(node) \in Page /\ n.keys[Half + 1] \in 0..MaxRows
    BY <1>3, <1>5, <1>6 DEF Grown, Appended
  <2> QED
    BY <1>3, <1>6, <2>1 DEF Frame, Link, n
<1> HIDE DEF f
<1>10. CallIn(node', r, f, g)
  <2>1. NodeIn(Pages(node'), Interiors(node'), r, Left(n), g[Top.page], g)
    BY <1>3, <1>5, <1>7, NodeStays
  <2>2. /\ Top.page \in Pages(node') /\ Len(node) \in Pages(node') \ {Top.page}
        /\ node'[Top.page + 1] = node[Top.page + 1]
    BY <1>3, <1>6 DEF Appended
  <2>3. g[Len(node)] <= g[Top.page]
    <3>1. g[Len(node)] = g[Top.page] /\ g[Top.page] \in Nat
      BY <1>3, <1>7 DEF IsHeight
    <3> QED
      BY <3>1
  <2>4. Left(n).leaf = n.leaf /\ Left(n).parent = n.parent
    BY <1>5 DEF Grown
  <2>5. f.pc # "split" /\ (f.pc = "root" => n.parent = NoPage) /\ (f.pc = "up" => n.parent # NoPage)
    BY <1>9
  <2> QED
    BY <1>4, <1>5, <1>9, <2>1, <2>2, <2>3, <2>4, <2>5 DEF CallIn
<1>11. LastSet(frames, frames', f)
  BY <1>1, <1>9, TopIsSet
<1>12. CallsIn(node', r, frames', g)
  <2>1. Waiting(node, node', g, frames, f.page)
    BY <1>3, <1>6, <1>7, <1>9 DEF Appended, Waiting
  <2>2. /\ frames \in Seq(Frame) /\ frames # <<>> /\ f.page \in Page /\ r \in Nat
        /\ Raised(node, node', h, g) /\ IsHeight(g) /\ IsHeight(h) /\ CallsIn(node, r, frames, h)
    BY <1>1, <1>3, <1>7, <1>9 DEF Shapes
  <2> QED
    BY ONLY <1>10, <1>11, <2>1, <2>2, CallsStay
<1>13. Shapes'
  BY <1>1, <1>6, <1>11 DEF Shapes, Appended, LastSet
<1> QED
  BY <1>7, <1>8, <1>12, <1>13, <1>20 DEF LevelInv, Leveled

\* A new root is higher than all that was below it, the node that moves is not.
LEMMA RootHeight ==
  ASSUME NEW h, IsHeight(h), NEW page \in Page, NEW new \in Page, new # page
  PROVE  \E g : /\ IsHeight(g) /\ g[page] = 2 * h[page] + 1 /\ g[new] = 2 * h[page]
                /\ \A p \in Page \ {page, new} : g[p] = 2 * h[p]
<1> DEFINE g == [p \in Page |-> IF p = page THEN 2 * h[page] + 1
                                ELSE IF p = new THEN 2 * h[page] ELSE 2 * h[p]]
<1>1. \A p \in Page : h[p] \in Nat
  BY DEF IsHeight
<1>2. g \in [Page -> Nat]
  BY <1>1
<1>3. PICK m \in Nat : \A p \in Page : h[p] <= m
  BY DEF IsHeight
<1>4. \A p \in Page : g[p] <= 2 * m + 1
  BY <1>1, <1>3
<1>5. IsHeight(g)
  <2> HIDE DEF g
  <2> QED
    BY <1>2, <1>3, <1>4 DEF IsHeight
<1> QED
  BY <1>5

\* create_root_bt over the page, with the node of the call n and its sibling
RootMade(nd, md, page, n, sibling) ==
  LET new == Len(nd)
      moved == [n EXCEPT !.parent = page] IN
  /\ md \in Seq(Node) /\ Len(md) \in 1..MaxPages
  /\ Pages(md) = Pages(nd) \union {new} /\ new \notin Pages(nd) /\ new \in Page
  /\ moved \in Node /\ md[new + 1] = moved
  /\ \A p \in Pages(nd) :
       md[p + 1] = IF p = page THEN Interior(NoPage, <<>>, <<new>>)
                   ELSE [nd[p + 1] EXCEPT !.parent = IF p = sibling THEN page
                                                     ELSE IF p \in ToSet(n.kids) THEN new ELSE @]

LEMMA RootIsMade ==
  ASSUME LevelInv, create_root_bt, NEW h, Leveled(node, Len(rows), frames, h)
  PROVE  /\ RootMade(node, node', Top.page, Top.node, Top.sibling)
         /\ SetTop([Top EXCEPT !.node = [Top.node EXCEPT !.parent = Top.page], !.page = NewPage, !.pc = "up"])
<1> DEFINE new == Len(node)
           moved == [Top.node EXCEPT !.parent = Top.page]
           root == Interior(NoPage, <<>>, <<new>>)
           Parent(page) == IF page = Top.sibling THEN Top.page
                           ELSE IF page \in ToSet(moved.kids) THEN new
                           ELSE At0(page).parent
           nd == [i \in 1..new |-> IF i - 1 = Top.page THEN root
                                         ELSE [node[i] EXCEPT !.parent = Parent(i - 1)]]
<1>1. frames # <<>> /\ NewPage < MaxPages /\ Shapes
  BY DEF create_root_bt, At, LevelInv
<1>2. /\ node' = Append(nd, moved)
      /\ SetTop([Top EXCEPT !.node = moved, !.page = NewPage, !.pc = "up"])
  BY DEF create_root_bt, NewPage
<1>3. /\ Top.page \in Pages(node) /\ Top.page \in Page /\ Top.node \in Node /\ Pages(node) \subseteq Page
      /\ Top.sibling \in Link
  BY <1>1, CallFacts DEF Frame
<1>4. new \in Page /\ new \in Nat /\ new < MaxPages /\ new \in 1..MaxPages /\ node \in Seq(Node)
  BY <1>1, IndexTreeAssumption DEF Shapes, Page, NewPage
<1>5. moved \in Node /\ moved.kids = Top.node.kids /\ root \in Node
  <2>1. moved \in Node /\ moved.kids = Top.node.kids
    BY <1>3 DEF Node, Link
  <2>2. <<new>> \in Seq(Page) /\ <<>> \in Seq(Id)
    BY <1>4
  <2> QED
    BY <2>1, <2>2 DEF Interior, Node, Link
<1>6. \A p \in Pages(node) : p + 1 \in 1..new /\ (p + 1) - 1 = p
  BY <1>4 DEF Pages
<1>7. \A p \in Pages(node) : Parent(p) = IF p = Top.sibling THEN Top.page
                                         ELSE IF p \in ToSet(Top.node.kids) THEN new
                                         ELSE node[p + 1].parent
  BY <1>5 DEF At0
<1> HIDE DEF moved, root
<1>8. \A i \in 1..new : node[i] \in Node /\ i - 1 \in Pages(node) /\ (i - 1) + 1 = i
  BY <1>4 DEF Pages
<1>9. \A i \in 1..new : Parent(i - 1) \in Link
  <2> TAKE i \in 1..new
  <2>1. node[i].parent \in Link
    BY <1>8 DEF Node
  <2> HIDE DEF Parent
  <2> QED
    BY <1>3, <1>4, <1>7, <1>8, <2>1 DEF Link
<1> HIDE DEF Parent
<1>10. \A i \in 1..new : [node[i] EXCEPT !.parent = Parent(i - 1)] \in Node
  BY <1>8, <1>9 DEF Node
<1>11. nd \in Seq(Node) /\ Len(nd) = new /\ \A p \in Pages(node) :
         nd[p + 1] = IF p = Top.page THEN root ELSE [node[p + 1] EXCEPT !.parent = Parent(p)]
  <2> HIDE DEF new
  <2>1. \A i \in 1..new : (IF i - 1 = Top.page THEN root
                           ELSE [node[i] EXCEPT !.parent = Parent(i - 1)]) \in Node
    BY <1>5, <1>10
  <2>2. nd \in Seq(Node) /\ Len(nd) = new
    <3>1. nd \in [1..new -> Node]
      BY <2>1
    <3> HIDE DEF nd
    <3> QED
      BY <1>4, <3>1
  <2>3. \A p \in Pages(node) : nd[p + 1] = IF (p + 1) - 1 = Top.page THEN root
                                  ELSE [node[p + 1] EXCEPT !.parent = Parent((p + 1) - 1)]
    BY <1>6
  <2> QED
    BY <1>6, <2>2, <2>3
<1> HIDE DEF nd, new
<1>12. Appended(nd, Append(nd, moved), moved)
  BY <1>4, <1>5, <1>11, AppendPage
<1>13. Pages(nd) = Pages(node) /\ new = Len(node)
  BY <1>11 DEF Pages, new
<1>14. \A p \in Pages(node) :
         node'[p + 1] = IF p = Top.page THEN root
                        ELSE [node[p + 1] EXCEPT !.parent = IF p = Top.sibling THEN Top.page
                                                            ELSE IF p \in ToSet(Top.node.kids) THEN new
                                                            ELSE @]
  <2> TAKE p \in Pages(node)
  <2>1. node'[p + 1] = nd[p + 1]
    BY <1>2, <1>12, <1>13 DEF Appended
  <2> QED
    BY <1>7, <1>11, <2>1
<1>15. RootMade(node, node', Top.page, Top.node, Top.sibling)
  BY <1>2, <1>5, <1>11, <1>12, <1>13, <1>14 DEF RootMade, Appended, moved, root
<1> QED
  BY <1>2, <1>15 DEF moved

LEMMA CreateRootLevels == ASSUME LevelInv, create_root_bt PROVE LevelInv'
<1> DEFINE r == Len(rows)
           n == Top.node
           page == Top.page
           new == Len(node)
           moved == [n EXCEPT !.parent = page]
           root == Interior(NoPage, <<>>, <<new>>)
           f == [Top EXCEPT !.node = moved, !.page = NewPage, !.pc = "up"]
           sibling == Top.sibling
<1>1. Shapes /\ frames # <<>> /\ Top.pc = "root" /\ rows' = rows /\ deep' \in BOOLEAN
  BY DEF LevelInv, create_root_bt, At, Shapes
<1>2. PICK h : Leveled(node, r, frames, h)
  BY DEF LevelInv
<1>3. /\ Top \in Frame /\ page \in Pages(node) /\ n \in Node /\ page \in Page
      /\ CallIn(node, r, Top, h) /\ r \in Nat /\ Pages(node) \subseteq Page
      /\ Interiors(node) \subseteq Pages(node)
      /\ IsHeight(h) /\ PagesIn(node, r, h) /\ CallsIn(node, r, frames, h)
      /\ \A i \in 1..(Len(frames) - 1) : /\ frames[i].page \in Pages(node)
                                         /\ h[frames[i].page] < h[page]
  BY <1>1, <1>2, CallFacts
<1>4. RootMade(node, node', page, n, sibling) /\ SetTop(f)
  BY <1>2, RootIsMade
<1>5. /\ NodeIn(Pages(node), Interiors(node), r, n, h[page], h) /\ Len(n.keys) <= ORDER - 1
      /\ sibling \in Pages(node) \ {page} /\ h[sibling] <= h[page] /\ Top.key \in 1..r
  BY <1>1, <1>3 DEF CallIn
<1>6. /\ Pages(node') = Pages(node) \union {new} /\ new \notin Pages(node) /\ new \in Page
      /\ moved \in Node /\ node'[new + 1] = moved /\ node'[page + 1] = root
      /\ \A p \in Pages(node) \ {page} :
           node'[p + 1] = [node[p + 1] EXCEPT !.parent = IF p = sibling THEN page
                                                         ELSE IF p \in ToSet(n.kids) THEN new ELSE @]
  BY <1>3, <1>4 DEF RootMade
<1>7. PICK g : /\ IsHeight(g) /\ g[page] = 2 * h[page] + 1 /\ g[new] = 2 * h[page]
               /\ \A p \in Page \ {page, new} : g[p] = 2 * h[p]
  <2>1. IsHeight(h) /\ page \in Page /\ new \in Page /\ new # page
    BY <1>3, <1>6
  <2> HIDE DEF page, new
  <2> QED
    BY ONLY <2>1, RootHeight
<1>8. /\ moved.leaf = n.leaf /\ moved.keys = n.keys /\ moved.kids = n.kids /\ moved.parent = page
      /\ root.leaf = FALSE /\ root.keys = <<>> /\ root.kids = <<new>> /\ root.parent = NoPage
      /\ f \in Frame /\ f.page = new /\ f.node = moved /\ f.pc = "up" /\ f.key = Top.key
      /\ f.sibling = sibling
  BY <1>3, <1>6 DEF Node, Interior, Frame, NewPage
<1>9. \A p \in Pages(node) : node[p + 1] \in Node
  BY <1>1 DEF Shapes, Pages
<1> HIDE DEF n, page, new, moved, root, f, r, sibling
<1>10. \A p \in Pages(node) : h[p] \in Nat
  BY <1>3 DEF IsHeight
<1>11. \A p \in Pages(node) \ {page} :
         /\ node'[p + 1].leaf = node[p + 1].leaf /\ node'[p + 1].keys = node[p + 1].keys
         /\ node'[p + 1].kids = node[p + 1].kids
         /\ node'[p + 1].parent = IF p = sibling THEN page
                                  ELSE IF p \in ToSet(n.kids) THEN new ELSE node[p + 1].parent
  <2> TAKE p \in Pages(node) \ {page}
  <2> DEFINE link == IF p = sibling THEN page
                     ELSE IF p \in ToSet(n.kids) THEN new ELSE node[p + 1].parent
  <2>1. node'[p + 1] = [node[p + 1] EXCEPT !.parent = link] /\ node[p + 1] \in Node
    BY <1>6, <1>9
  <2> HIDE DEF link
  <2>2. node'[p + 1].parent = link
    BY <2>1 DEF Node
  <2> QED
    BY <2>1, <2>2 DEF Node, link
<1>12. Raised(node, node', h, g)
  <2>1. Interiors(node) \subseteq Interiors(node')
    BY <1>6, <1>8, <1>11 DEF Interiors
  <2>2. ASSUME NEW p \in Pages(node), NEW q \in Pages(node), h[p] < h[q] PROVE g[p] < g[q]
    <3>1. g[p] <= 2 * h[p] + 1 /\ 2 * h[q] <= g[q]
      BY <1>3, <1>6, <1>7, <1>10
    <3>2. 2 * h[p] + 1 < 2 * h[q]
      BY <1>10, <2>2
    <3>3. g[p] \in Nat /\ g[q] \in Nat
      BY <1>3, <1>7 DEF IsHeight
    <3> QED
      BY <1>10, <3>1, <3>2, <3>3
  <2> QED
    BY <1>6, <2>1, <2>2 DEF Raised
<1>13. /\ page \in Interiors(node') /\ g[new] < g[page]
       /\ \A p \in Pages(node) : h[p] < h[page] => g[p] < g[new]
       /\ \A p \in Pages(node) \ {page} : h[p] <= h[page] => g[p] < g[page] /\ g[p] <= g[new]
  <2>1. page \in Interiors(node')
    BY <1>3, <1>6, <1>8 DEF Interiors
  <2>2. \A p \in Pages(node) \ {page} : g[p] = 2 * h[p]
    BY <1>3, <1>6, <1>7
  <2> QED
    BY <1>3, <1>7, <1>10, <2>1, <2>2
<1>14. ToSet(n.kids) # {} => new \in Interiors(node')
  <2>1. ~n.leaf => new \in Interiors(node')
    BY <1>6, <1>8 DEF Interiors
  <2>2. n.leaf => n.kids = <<>>
    BY <1>5 DEF NodeIn
  <2> QED
    BY <2>1, <2>2 DEF ToSet
<1>15. \A p \in ToSet(n.kids) : p \in Pages(node) /\ h[p] < h[page]
  BY <1>5 DEF NodeIn, ToSet
<1>16. NodeIn(Pages(node'), Interiors(node'), r, moved, g[new], g)
  <2>1. \A i \in 1..Len(n.kids) : n.kids[i] \in Pages(node') /\ g[n.kids[i]] < g[new]
    <3> TAKE i \in 1..Len(n.kids)
    <3>1. n.kids[i] \in Pages(node) /\ h[n.kids[i]] < h[page]
      BY <1>5 DEF NodeIn
    <3> QED
      BY <1>6, <1>13, <3>1
  <2> QED
    BY <1>5, <1>8, <1>13, <2>1 DEF NodeIn
<1>17. PagesIn(node', r, g)
  <2> SUFFICES ASSUME NEW p \in Pages(node')
               PROVE  /\ NodeIn(Pages(node'), Interiors(node'), r, node'[p + 1], g[p], g)
                      /\ Len(node'[p + 1].keys) <= ORDER - 1
    BY DEF PagesIn
  <2>1. CASE p = new
    BY <1>5, <1>6, <1>8, <1>16, <2>1
  <2>2. CASE p = page
    <3>1. Len(root.keys) = 0 /\ Len(root.kids) = 1 /\ root.kids[1] = new /\ 0 <= ORDER - 1
      BY <1>8, IndexTreeAssumption
    <3>2. \A i \in 1..0 : FALSE
      OBVIOUS
    <3>3. NodeIn(Pages(node'), Interiors(node'), r, root, g[page], g)
      BY <1>6, <1>8, <1>13, <3>1, <3>2 DEF NodeIn
    <3> QED
      BY <1>6, <2>2, <3>1, <3>3
  <2>3. CASE p \in Pages(node) \ {page}
    <3>1. /\ NodeIn(Pages(node), Interiors(node), r, node[p + 1], h[p], h)
          /\ Len(node[p + 1].keys) <= ORDER - 1
      BY <1>3, <2>3 DEF PagesIn
    <3>2. NodeIn(Pages(node'), Interiors(node'), r, node[p + 1], g[p], g)
      BY <1>3, <1>12, <2>3, <3>1, NodeStays
    <3> DEFINE m == node'[p + 1]
    <3>3. m.leaf = node[p + 1].leaf /\ m.keys = node[p + 1].keys /\ m.kids = node[p + 1].kids
      BY <1>11, <2>3
    <3>4. m.parent # NoPage => m.parent \in Interiors(node') /\ g[p] < g[m.parent]
      <4>1. CASE p = sibling
        BY <1>5, <1>11, <1>13, <2>3, <4>1
      <4>2. CASE p # sibling /\ p \in ToSet(n.kids)
        BY <1>11, <1>13, <1>14, <1>15, <2>3, <4>2
      <4>3. CASE p # sibling /\ p \notin ToSet(n.kids)
        <5>1. m.parent = node[p + 1].parent
          BY <1>11, <2>3, <4>3
        <5> QED
          BY <3>2, <5>1 DEF NodeIn
      <4> QED
        BY <4>1, <4>2, <4>3
    <3> HIDE DEF m
    <3>5. NodeIn(Pages(node'), Interiors(node'), r, m, g[p], g)
      BY <3>2, <3>3, <3>4 DEF NodeIn
    <3> QED
      BY <3>1, <3>3, <3>5 DEF m
  <2> QED
    BY <1>6, <2>1, <2>2, <2>3
<1>18. CallIn(node', r, f, g)
  <2>1. new \in Pages(node') /\ sibling \in Pages(node') \ {new} /\ g[sibling] <= g[new]
    BY <1>5, <1>6, <1>13
  <2>2. moved.parent # NoPage
    BY <1>3, <1>8 DEF NoPage, Page
  <2> QED
    BY <1>5, <1>6, <1>8, <1>16, <2>1, <2>2 DEF CallIn
<1>19. LastSet(frames, frames', f)
  BY <1>1, <1>4, <1>8, TopIsSet
<1>20. CallsIn(node', r, frames', g)
  <2>1. Waiting(node, node', g, frames, f.page)
    <3> SUFFICES ASSUME NEW i \in 1..(Len(frames) - 1)
                 PROVE  /\ node'[frames[i].page + 1].leaf = node[frames[i].page + 1].leaf
                        /\ g[frames[i].page] < g[f.page]
      BY DEF Waiting
    <3>1. frames[i].page \in Pages(node) /\ h[frames[i].page] < h[page]
      BY <1>3
    <3>2. frames[i].page # page
      BY <1>3, <1>10, <3>1
    <3> QED
      BY <1>8, <1>11, <1>13, <3>1, <3>2
  <2>2. /\ frames \in Seq(Frame) /\ frames # <<>> /\ f.page \in Page /\ r \in Nat
        /\ Raised(node, node', h, g) /\ IsHeight(g) /\ IsHeight(h) /\ CallsIn(node, r, frames, h)
    BY <1>1, <1>3, <1>6, <1>7, <1>8, <1>12 DEF Shapes
  <2> QED
    BY ONLY <1>18, <1>19, <2>1, <2>2, CallsStay
<1>21. Shapes'
  BY <1>1, <1>4, <1>19 DEF Shapes, RootMade, LastSet
<1>22. Len(rows') = r
  BY <1>1 DEF r
<1> QED
  BY <1>7, <1>17, <1>20, <1>21, <1>22 DEF LevelInv, Leveled

\* A list with one element more
LEMMA Inserted ==
  ASSUME NEW S, NEW s \in Seq(S), NEW e \in S, NEW t, \E k \in 1..(Len(s) + 1) : t = InsertAt(s, k, e)
  PROVE  /\ Len(t) = Len(s) + 1
         /\ \A i \in 1..Len(t) : t[i] = e \/ \E j \in 1..Len(s) : t[i] = s[j]
<1>1. PICK k \in 1..(Len(s) + 1) : t = InsertAt(s, k, e)
  OBVIOUS
<1>2. /\ Len(InsertAt(s, k, e)) = Len(s) + 1
      /\ \A i \in 1..(Len(s) + 1) :
           InsertAt(s, k, e)[i] = IF i < k THEN s[i] ELSE IF i = k THEN e ELSE s[i - 1]
  BY InsertAtEntries
<1>3. Len(s) \in Nat /\ k \in Int
  OBVIOUS
<1>4. \A i \in 1..(Len(s) + 1) : /\ i < k => i \in 1..Len(s)
                                 /\ ~(i < k) /\ i # k => i - 1 \in 1..Len(s)
  BY <1>3
<1> QED
  BY <1>1, <1>2, <1>4

LEMMA NewCall ==
  ASSUME NEW page \in Page, NEW n \in Node, Len(n.keys) <= ORDER
  PROVE  /\ Call(page, n) \in Frame /\ Call(page, n).page = page /\ Call(page, n).node = n
         /\ Call(page, n).sibling = NoPage
         /\ IF Call(page, n).pc = "split" THEN Len(n.keys) = ORDER ELSE Len(n.keys) <= ORDER - 1
         /\ Call(page, n).pc \in {"split", "write"}
<1>1. Len(n.keys) \in Nat /\ ORDER \in Nat /\ 0 \in 0..MaxRows
  BY IndexTreeAssumption DEF Node
<1> QED
  BY <1>1 DEF Call, Frame, Link

\* The call for the parent
LEMMA InsertInternalLevels == ASSUME LevelInv, insert_internal_bt PROVE LevelInv'
<1> DEFINE r == Len(rows)
           k == Len(frames)
           parent == Top.node.parent
           n == At0(parent)
           m == WithChild(n, Top.key, Top.sibling)
           f == Call(parent, m)
           done == [Top EXCEPT !.pc = "write"]
<1>1. Shapes /\ frames # <<>> /\ Top.pc = "up" /\ rows' = rows /\ node' = node /\ deep' = deep
      /\ frames' = Append(Front(frames) \o <<done>>, f)
  BY DEF LevelInv, insert_internal_bt, At, Shapes
<1>2. PICK h : Leveled(node, r, frames, h)
  BY DEF LevelInv
<1>3. /\ Top \in Frame /\ Top.page \in Pages(node) /\ CallIn(node, r, Top, h) /\ r \in Nat
      /\ r <= MaxRows /\ MaxRows \in Nat
      /\ Pages(node) \subseteq Page /\ Interiors(node) \subseteq Pages(node)
      /\ IsHeight(h) /\ PagesIn(node, r, h) /\ CallsIn(node, r, frames, h)
      /\ \A i \in 1..(k - 1) : frames[i].page \in Pages(node) /\ h[frames[i].page] < h[Top.page]
      /\ Top = frames[k]
  BY <1>1, <1>2, CallFacts
<1>4. /\ parent \in Interiors(node) /\ h[Top.page] < h[parent] /\ Top.key \in 1..r
      /\ Top.sibling \in Pages(node) /\ h[Top.sibling] <= h[Top.page]
  BY <1>1, <1>3 DEF CallIn, NodeIn
<1>5. /\ n = node[parent + 1] /\ parent \in Pages(node) /\ parent \in Page
      /\ n \in Node /\ ~n.leaf /\ Len(n.keys) <= ORDER - 1
      /\ NodeIn(Pages(node), Interiors(node), r, n, h[parent], h)
  <2>1. parent \in Pages(node) /\ ~node[parent + 1].leaf /\ parent \in Page
    BY <1>3, <1>4 DEF Interiors
  <2>2. node[parent + 1] \in Node
    BY <1>1, <2>1 DEF Shapes, Pages
  <2> QED
    BY <1>3, <2>1, <2>2 DEF PagesIn, At0
<1>6. k \in Nat \ {0} /\ Front(frames) \in Seq(Frame) /\ Len(Front(frames)) = k - 1
      /\ \A i \in 1..(k - 1) : Front(frames)[i] = frames[i]
  BY <1>1, TopFacts, FrontOfCalls
<1>7. h[Top.page] \in Nat /\ h[parent] \in Nat /\ h[Top.sibling] \in Nat
      /\ \A i \in 1..(k - 1) : h[frames[i].page] \in Nat
  BY <1>3, <1>4, <1>5 DEF IsHeight
<1>8. /\ done \in Frame /\ done.page = Top.page /\ done.pc = "write" /\ done.node = Top.node
      /\ done.sibling = Top.sibling
  BY <1>3 DEF Frame
<1>9. /\ Grown(m, n) /\ \E a \in 1..(Len(n.keys) + 1) : m.keys = InsertAt(n.keys, a, Top.key)
      /\ \E a \in 1..(Len(n.kids) + 1) : m.kids = InsertAt(n.kids, a, Top.sibling)
  <2>1. Top.key \in Id /\ Top.sibling \in Page /\ Len(n.kids) = Len(n.keys) + 1
    <3>1. Top.key \in Id /\ Top.sibling \in Page
      BY <1>3, <1>4 DEF Id
    <3>2. ~n.leaf /\ NodeIn(Pages(node), Interiors(node), r, n, h[parent], h)
      BY <1>5
    <3> HIDE DEF n, parent, r
    <3>3. Len(n.kids) = Len(n.keys) + 1
      BY ONLY <3>2 DEF NodeIn
    <3> QED
      BY <3>1, <3>3
  <2>2. n \in Node
    BY <1>5
  <2> HIDE DEF n
  <2>3. /\ Grown(m, n)
        /\ \E a \in 1..(Len(n.keys) + 1) : /\ m.keys = InsertAt(n.keys, a, Top.key)
                                            /\ m.kids = InsertAt(n.kids, a + 1, Top.sibling)
    BY <2>1, <2>2, WithChildNode
  <2>4. Len(n.keys) \in Nat
    BY <2>2 DEF Node
  <2> HIDE DEF m
  <2>5. PICK a \in 1..(Len(n.keys) + 1) : /\ m.keys = InsertAt(n.keys, a, Top.key)
                                         /\ m.kids = InsertAt(n.kids, a + 1, Top.sibling)
    BY <2>3
  <2>6. a + 1 \in 1..(Len(n.kids) + 1)
    BY <2>1, <2>4
  <2> QED
    BY <2>3, <2>5, <2>6
<1> HIDE DEF r, k, parent, n, m, f, done
<1>10. /\ NodeIn(Pages(node), Interiors(node), r, m, h[parent], h)
       /\ Len(m.keys) = Len(n.keys) + 1 /\ Len(n.keys) \in Nat
  <2>1. n \in Node /\ n.keys \in Seq(Id) /\ n.kids \in Seq(Page) /\ Len(n.keys) \in Nat /\ Len(n.kids) \in Nat
    BY <1>5 DEF Node
  <2>2. Top.key \in Id /\ Top.sibling \in Page
    BY <1>3, <1>4 DEF Id
  <2>3. /\ Len(m.keys) = Len(n.keys) + 1
        /\ \A i \in 1..Len(m.keys) : m.keys[i] = Top.key \/ \E j \in 1..Len(n.keys) : m.keys[i] = n.keys[j]
    <3>1. /\ n.keys \in Seq(Id) /\ Top.key \in Id
          /\ \E a \in 1..(Len(n.keys) + 1) : m.keys = InsertAt(n.keys, a, Top.key)
      BY <1>9, <2>1, <2>2
    <3> QED
      BY ONLY SMTT(30), <3>1, Inserted
  <2>4. /\ Len(m.kids) = Len(n.kids) + 1
        /\ \A i \in 1..Len(m.kids) : m.kids[i] = Top.sibling \/ \E j \in 1..Len(n.kids) : m.kids[i] = n.kids[j]
    <3>1. /\ n.kids \in Seq(Page) /\ Top.sibling \in Page
          /\ \E a \in 1..(Len(n.kids) + 1) : m.kids = InsertAt(n.kids, a, Top.sibling)
      BY <1>9, <2>1, <2>2
    <3> QED
      BY ONLY <3>1, Inserted
  <2>5. \A i \in 1..Len(m.keys) : m.keys[i] \in 1..r
    <3>1. \A j \in 1..Len(n.keys) : n.keys[j] \in 1..r
      BY <1>5 DEF NodeIn
    <3> QED
      BY <1>4, <2>3, <3>1
  <2>6. \A i \in 1..Len(m.kids) : m.kids[i] \in Pages(node) /\ h[m.kids[i]] < h[parent]
    <3>1. \A j \in 1..Len(n.kids) : n.kids[j] \in Pages(node) /\ h[n.kids[j]] < h[parent]
      BY <1>5 DEF NodeIn
    <3>2. h[Top.sibling] < h[parent]
      BY <1>4, <1>7
    <3> QED
      BY <1>4, <2>4, <3>1, <3>2
  <2>7. /\ Len(n.kids) = Len(n.keys) + 1 /\ ~n.leaf
        /\ n.parent # NoPage => n.parent \in Interiors(node) /\ h[parent] < h[n.parent]
    BY <1>5 DEF NodeIn
  <2>8. m.leaf = n.leaf /\ m.parent = n.parent
    BY <1>9 DEF Grown
  <2> QED
    BY <2>1, <2>3, <2>4, <2>5, <2>6, <2>7, <2>8 DEF NodeIn
<1>11. /\ f \in Frame /\ f.page = parent /\ f.node = m /\ f.sibling = NoPage
       /\ IF f.pc = "split" THEN Len(m.keys) = ORDER ELSE Len(m.keys) <= ORDER - 1
       /\ f.pc \in {"split", "write"}
  <2>1. Len(m.keys) <= ORDER /\ m \in Node
    BY <1>5, <1>9, <1>10, IndexTreeAssumption DEF Grown
  <2> QED
    BY <1>5, <2>1, NewCall DEF f
<1>12. CallIn(node, r, f, h)
  <2>1. node[parent + 1].leaf = m.leaf
    BY <1>5, <1>9 DEF Grown
  <2> QED
    BY <1>5, <1>10, <1>11, <2>1 DEF CallIn
<1>13. CallIn(node, r, done, h)
  BY <1>1, <1>3, <1>8 DEF CallIn
<1>14. /\ frames' \in Seq(Frame) /\ Len(frames') = k + 1 /\ frames'[k + 1] = f /\ frames'[k] = done
       /\ \A i \in 1..(k - 1) : frames'[i] = frames[i]
  BY SMTT(30), <1>1, <1>6, <1>8, <1>11
<1>15. CallsIn(node, r, frames', h)
  <2> SUFFICES ASSUME NEW i \in 1..(k + 1)
               PROVE  /\ CallIn(node, r, frames'[i], h)
                      /\ i < k + 1 => frames'[i].pc = "write"
                      /\ \A j \in 1..(k + 1) : i < j => h[frames'[i].page] < h[frames'[j].page]
    BY <1>14 DEF CallsIn
  <2>1. CASE i = k + 1
    BY <1>6, <1>12, <1>14, <2>1
  <2>2. CASE i = k
    <3>1. \A j \in 1..(k + 1) : k < j => j = k + 1
      BY <1>6
    <3> QED
      BY <1>4, <1>6, <1>8, <1>11, <1>13, <1>14, <2>2, <3>1
  <2>3. CASE i \in 1..(k - 1)
    <3>1. /\ CallIn(node, r, frames[i], h) /\ frames[i].pc = "write"
          /\ \A j \in 1..k : i < j => h[frames[i].page] < h[frames[j].page]
      BY <1>3, <1>6, <2>3 DEF CallsIn, k
    <3>2. ASSUME NEW j \in 1..(k + 1), i < j PROVE h[frames'[i].page] < h[frames'[j].page]
      <4>1. CASE j = k + 1
        BY <1>3, <1>4, <1>7, <1>11, <1>14, <2>3, <4>1
      <4>2. CASE j = k
        BY <1>3, <1>8, <1>14, <2>3, <4>2
      <4>3. CASE j \in 1..(k - 1)
        BY <1>6, <1>14, <2>3, <3>1, <3>2, <4>3
      <4> QED
        BY <1>6, <4>1, <4>2, <4>3
    <3> QED
      BY <1>14, <2>3, <3>1, <3>2
  <2> QED
    BY <1>6, <2>1, <2>2, <2>3
<1>16. Shapes'
  BY <1>1, <1>14 DEF Shapes
<1> QED
  BY <1>1, <1>3, <1>15, <1>16 DEF LevelInv, Leveled, r

\* The write that ends a call
LEMMA ReturnLevels == ASSUME LevelInv, Return PROVE LevelInv'
<1> DEFINE r == Len(rows)
           k == Len(frames)
           n == Top.node
           page == Top.page
<1>1. Shapes /\ frames # <<>> /\ Top.pc = "write" /\ rows' = rows /\ deep' = deep
      /\ node' = [node EXCEPT ![page + 1] = n] /\ frames' = Front(frames)
  BY DEF LevelInv, Return, At, Shapes, WriteNode
<1>2. PICK h : Leveled(node, r, frames, h)
  BY DEF LevelInv
<1>3. /\ page \in Pages(node) /\ n \in Node /\ CallIn(node, r, Top, h) /\ r \in Nat
      /\ IsHeight(h) /\ PagesIn(node, r, h) /\ CallsIn(node, r, frames, h)
      /\ \A i \in 1..(k - 1) : frames[i].page \in Pages(node) /\ h[frames[i].page] < h[page]
  BY <1>1, <1>2, CallFacts
<1>4. Replaced(node, node', page, n)
  BY <1>1, <1>3, ReplacePage DEF Shapes
<1>5. /\ node[page + 1].leaf = n.leaf /\ Len(n.keys) <= ORDER - 1
      /\ NodeIn(Pages(node), Interiors(node), r, n, h[page], h)
  BY <1>1, <1>3 DEF CallIn
<1>6. /\ k \in Nat \ {0} /\ frames' \in Seq(Frame) /\ Len(frames') = k - 1
      /\ \A i \in 1..(k - 1) : frames'[i] = frames[i]
  BY <1>1, TopFacts, FrontOfCalls
<1>7. Len(rows') = r
  BY <1>1
<1> HIDE DEF r, k, n, page
<1>8. /\ Pages(node') = Pages(node)
      /\ \A p \in Pages(node) : node'[p + 1] = IF p = page THEN n ELSE node[p + 1]
  BY <1>4 DEF Replaced
<1>9. /\ \A p \in Pages(node) : node'[p + 1].leaf = node[p + 1].leaf
      /\ Interiors(node') = Interiors(node)
  BY <1>5, <1>8 DEF Interiors
<1>10. PagesIn(node', r, h)
  BY <1>3, <1>5, <1>8, <1>9 DEF PagesIn
<1>11. CallsIn(node', r, frames', h)
  <2>1. \A i \in 1..(k - 1) : i \in 1..k /\ i < k
    BY <1>6
  <2>2. Len(frames) = k
    BY DEF k
  <2>3. ASSUME NEW i \in 1..(k - 1)
        PROVE  /\ CallIn(node', r, frames[i], h) /\ frames[i].pc = "write"
               /\ \A j \in 1..(k - 1) : i < j => h[frames[i].page] < h[frames[j].page]
    <3>1. /\ CallIn(node, r, frames[i], h) /\ frames[i].pc = "write"
          /\ \A j \in 1..k : i < j => h[frames[i].page] < h[frames[j].page]
      BY <1>3, <2>1, <2>2 DEF CallsIn
    <3>2. CallIn(node', r, frames[i], h)
      BY <1>8, <1>9, <3>1 DEF CallIn
    <3> QED
      BY <2>1, <3>1, <3>2
  <2> QED
    BY <1>6, <2>3 DEF CallsIn
<1>12. Shapes'
  BY <1>1, <1>4, <1>6 DEF Shapes, Replaced
<1> QED
  BY <1>3, <1>7, <1>10, <1>11, <1>12 DEF LevelInv, Leveled

\* A new row, in the leaf that find_bt_leaf returns
LEMMA InsertLevels == ASSUME LevelInv, insert_bt PROVE LevelInv'
<1> DEFINE r == Len(rows)
           s == Len(rows) + 1
<1>1. PICK value \in Value : /\ rows' = Append(rows, value)
                             /\ frames' = <<Call(find_bt_leaf(value),
                                                 WithKey(At0(find_bt_leaf(value)), s, value))>>
  BY Zenon DEF insert_bt
<1> DEFINE page == find_bt_leaf(value)
           n == At0(page)
           m == WithKey(n, s, value)
           f == Call(page, m)
<1>2. Shapes /\ frames = <<>> /\ r < MaxRows /\ node' = node /\ deep' = deep /\ frames' = <<f>>
  BY <1>1 DEF LevelInv, insert_bt
<1>3. PICK h : Leveled(node, r, frames, h)
  BY DEF LevelInv
<1>4. /\ IsHeight(h) /\ PagesIn(node, r, h) /\ r \in Nat /\ MaxRows \in Nat /\ s = r + 1
      /\ s \in Id /\ s <= MaxRows
  BY <1>2, <1>3, IndexTreeAssumption DEF Leveled, Shapes, Id
<1>5. page \in Used /\ n.leaf
  BY <1>2, <1>4, LeafIsFound
<1>6. /\ page \in Pages(node) /\ page \in Page /\ n \in Node /\ n = node[page + 1]
      /\ Pages(node) \subseteq Page
  BY <1>2, <1>5, UsedPages
<1> HIDE DEF page, n
<1>7. Grown(m, n) /\ m.kids = n.kids /\ \E a \in 1..(Len(n.keys) + 1) : m.keys = InsertAt(n.keys, a, s)
  BY <1>4, <1>6, WithKeyNode
<1>8. Len(rows') = s /\ rows' \in Seq(Value)
  BY <1>1, <1>2 DEF Shapes
<1> HIDE DEF r, s, m
<1>9. NodeIn(Pages(node), Interiors(node), r, n, h[page], h) /\ Len(n.keys) <= ORDER - 1
  BY <1>4, <1>6 DEF PagesIn
<1>10. /\ Len(m.keys) = Len(n.keys) + 1
       /\ \A i \in 1..Len(m.keys) : m.keys[i] = s \/ \E j \in 1..Len(n.keys) : m.keys[i] = n.keys[j]
  <2>1. n.keys \in Seq(Id)
    BY <1>6 DEF Node
  <2>2. \E a \in 1..(Len(n.keys) + 1) : m.keys = InsertAt(n.keys, a, s)
    BY <1>7
  <2> QED
    BY ONLY SMTT(30), <1>4, <2>1, <2>2, Inserted
<1>11. NodeIn(Pages(node), Interiors(node), s, m, h[page], h)
  <2>1. \A i \in 1..Len(m.keys) : m.keys[i] \in 1..s
    <3>1. \A j \in 1..Len(n.keys) : n.keys[j] \in 1..s
      BY <1>4, <1>9 DEF NodeIn
    <3>2. s \in 1..s
      BY <1>4
    <3> QED
      BY <1>10, <3>1, <3>2
  <2> QED
    BY <1>5, <1>7, <1>9, <2>1 DEF NodeIn, Grown
<1>12. /\ f \in Frame /\ f.page = page /\ f.node = m /\ f.sibling = NoPage
       /\ IF f.pc = "split" THEN Len(m.keys) = ORDER ELSE Len(m.keys) <= ORDER - 1
       /\ f.pc \in {"split", "write"}
  <2>1. Len(m.keys) <= ORDER /\ m \in Node
    <3>1. Len(n.keys) \in Nat
      BY <1>6 DEF Node
    <3> QED
      BY <1>7, <1>9, <1>10, <3>1, IndexTreeAssumption DEF Grown
  <2> QED
    BY <1>6, <2>1, NewCall
<1> HIDE DEF f
<1>13. CallIn(node, s, f, h)
  BY <1>6, <1>7, <1>11, <1>12 DEF CallIn, Grown
<1>14. CallsIn(node, s, <<f>>, h)
  <2>1. Len(<<f>>) = 1 /\ <<f>>[1] = f /\ \A i \in 1..1 : i = 1
    OBVIOUS
  <2> QED
    BY <1>13, <2>1 DEF CallsIn
<1>15. PagesIn(node, s, h)
  <2>1. \A i \in 1..r : i \in 1..s
    BY <1>4
  <2> QED
    BY <1>4, <2>1 DEF PagesIn, NodeIn
<1>16. Shapes'
  BY <1>2, <1>4, <1>8, <1>12 DEF Shapes
<1> QED
  BY <1>2, <1>4, <1>8, <1>14, <1>15, <1>16 DEF LevelInv, Leveled

LEMMA InitLevels == Init => LevelInv
<1> SUFFICES ASSUME Init PROVE LevelInv
  OBVIOUS
<1> DEFINE n == Leaf(NoPage, <<>>)
           h == [p \in Page |-> 0]
<1>1. rows = <<>> /\ node = <<n>> /\ frames = <<>> /\ deep = FALSE
  BY DEF Init
<1>2. n \in Node /\ n.leaf /\ n.keys = <<>> /\ n.kids = <<>> /\ n.parent = NoPage
  <2>1. <<>> \in Seq(Id) /\ <<>> \in Seq(Page)
    OBVIOUS
  <2> QED
    BY <2>1 DEF Leaf, Node, Link
<1> HIDE DEF n
<1>3. Shapes
  <2>1. MaxPages \in Nat \ {0} /\ MaxRows \in Nat /\ 1 \in 1..MaxPages
    BY IndexTreeAssumption
  <2>2. <<n>> \in Seq(Node) /\ Len(<<n>>) = 1
    BY <1>2
  <2>3. <<>> \in Seq(Value) /\ <<>> \in Seq(Frame) /\ Len(<<>>) = 0 /\ 0 <= MaxRows
    BY <2>1
  <2> QED
    BY <1>1, <2>1, <2>2, <2>3 DEF Shapes
<1>4. IsHeight(h)
  BY DEF IsHeight
<1> HIDE DEF h
<1>5. PagesIn(node, 0, h)
  <2>1. Pages(node) = {0} /\ node[0 + 1] = n
    BY <1>1 DEF Pages
  <2>2. 0 <= ORDER - 1 /\ Len(n.keys) = 0 /\ Len(n.kids) = 0
    BY <1>2, IndexTreeAssumption
  <2>3. NodeIn(Pages(node), Interiors(node), 0, n, h[0], h)
    BY <1>2, <2>2 DEF NodeIn
  <2> QED
    BY <2>1, <2>2, <2>3 DEF PagesIn
<1>6. CallsIn(node, 0, frames, h) /\ Len(rows) = 0
  BY <1>1 DEF CallsIn
<1> QED
  BY <1>3, <1>4, <1>5, <1>6 DEF LevelInv, Leveled

LEMMA NextLevels == ASSUME LevelInv, [Next]_vars PROVE LevelInv'
<1>1. CASE insert_bt
  BY <1>1, InsertLevels
<1>2. CASE split_bt_node
  BY <1>2, SplitLevels
<1>3. CASE create_root_bt
  BY <1>3, CreateRootLevels
<1>4. CASE insert_internal_bt
  BY <1>4, InsertInternalLevels
<1>5. CASE Return
  BY <1>5, ReturnLevels
<1>6. CASE UNCHANGED vars
  BY <1>6 DEF vars, LevelInv, Shapes
<1> QED
  BY <1>1, <1>2, <1>3, <1>4, <1>5, <1>6 DEF Next

LEMMA AlwaysLeveled == Spec => []LevelInv
  BY InitLevels, NextLevels, PTL DEF Spec

\* Wherever the leaves of values and the stale parents lead, inserts read and
\* write only nodes of the tree that fit in their pages, and every parent address
\* is that of an interior node.
THEOREM IndexTreeTypeCorrect == Spec => []TypeOK
<1>1. ASSUME LevelInv PROVE TypeOK
  <2> DEFINE r == Len(rows)
  <2>1. PICK h : Leveled(node, r, frames, h)
    BY <1>1 DEF LevelInv
  <2>2. PagesIn(node, r, h) /\ CallsIn(node, r, frames, h)
    BY <2>1 DEF Leveled
  <2>3. Shapes
    BY <1>1 DEF LevelInv
  <2>4. Used = Pages(node) /\ \A p \in Used : At0(p) = node[p + 1]
    BY <2>3, UsedPages
  <2>5. DOMAIN rows = 1..r
    BY <2>3 DEF Shapes
  <2> HIDE DEF r
  <2>6. ASSUME NEW n, NEW top, NEW bound, NodeIn(Pages(node), Interiors(node), r, n, top, h), Len(n.keys) <= bound
        PROVE  NodeOK(n, bound)
    <3>1. ToSet(n.keys) \subseteq DOMAIN rows /\ ToSet(n.kids) \subseteq Used
      BY <2>4, <2>5, <2>6 DEF NodeIn, ToSet
    <3>2. ParentOK(n.parent)
      BY <2>4, <2>6 DEF NodeIn, ParentOK, Interiors
    <3>3. IF n.leaf THEN n.kids = <<>> ELSE Len(n.kids) = Len(n.keys) + 1
      BY <2>6 DEF NodeIn
    <3> QED
      BY <2>6, <3>1, <3>2, <3>3 DEF NodeOK
  <2>7. \A i \in 1..Len(node) : NodeOK(node[i], ORDER - 1)
    <3> TAKE i \in 1..Len(node)
    <3>1. i - 1 \in Pages(node) /\ (i - 1) + 1 = i
      BY <2>3 DEF Pages, Shapes
    <3>2. NodeIn(Pages(node), Interiors(node), r, node[i], h[i - 1], h) /\ Len(node[i].keys) <= ORDER - 1
      BY <2>2, <3>1 DEF PagesIn
    <3> QED
      BY <2>6, <3>2
  <2>8. ASSUME NEW i \in 1..Len(frames)
        PROVE  /\ NodeOK(frames[i].node, ORDER) /\ frames[i].page \in Used
               /\ frames[i].sibling \in Used \union {NoPage}
    <3>1. CallIn(node, r, frames[i], h)
      BY <2>2 DEF CallsIn
    <3>2. frames[i].node \in Node
      <4>1. frames[i] \in Frame
        BY <2>3 DEF Shapes
      <4> QED
        BY <4>1 DEF Frame
    <3>3. Len(frames[i].node.keys) \in Nat /\ ORDER \in Nat
      BY <3>2, IndexTreeAssumption DEF Node
    <3>4. /\ NodeIn(Pages(node), Interiors(node), r, frames[i].node, h[frames[i].page], h)
          /\ Len(frames[i].node.keys) <= ORDER
      BY <3>1, <3>3 DEF CallIn
    <3>5. NodeOK(frames[i].node, ORDER)
      BY <2>6, <3>4
    <3> QED
      BY <2>4, <3>1, <3>5 DEF CallIn
  <2>9. Len(rows) <= MaxRows /\ ToSet(rows) \subseteq Value /\ deep \in BOOLEAN /\ Len(node) \in 1..MaxPages
    BY <2>3 DEF Shapes, ToSet
  <2> QED
    BY <2>7, <2>8, <2>9 DEF TypeOK
<1> QED
  BY <1>1, AlwaysLeveled, PTL

-----------------------------------------------------------------------------
\* Nothing is lost or doubled.  L lists what each page holds, and under NoPage
\* what the call in progress has in hand: each element of U is in one list, once.

OnceIn(L, U) ==
  /\ \A p, q \in Link : \A i \in 1..Len(L[p]), j \in 1..Len(L[q]) :
       L[p][i] = L[q][j] => p = q /\ i = j
  /\ \A p \in Link : \A i \in 1..Len(L[p]) : L[p][i] \in U
  /\ \A u \in U : \E p \in Link : \E i \in 1..Len(L[p]) : L[p][i] = u

LEMMA NoPageIsNone == NoPage \in Link /\ NoPage \notin Page /\ Page \subseteq Link
  BY DEF Link, NoPage, Page

\* A new element, where there was nothing
LEMMA OnceAdd ==
  ASSUME NEW S, NEW L \in [Link -> Seq(S)], NEW U, OnceIn(L, U), NEW p0 \in Link, L[p0] = <<>>,
         NEW e \in S, e \notin U
  PROVE  /\ [L EXCEPT ![p0] = <<e>>] \in [Link -> Seq(S)]
         /\ OnceIn([L EXCEPT ![p0] = <<e>>], U \union {e})
<1> DEFINE M == [L EXCEPT ![p0] = <<e>>]
<1>1. Len(<<e>>) = 1 /\ <<e>>[1] = e /\ <<e>> \in Seq(S) /\ \A i \in 1..1 : i = 1
  OBVIOUS
<1>2. M \in [Link -> Seq(S)] /\ M[p0] = <<e>> /\ \A p \in Link \ {p0} : M[p] = L[p]
  BY <1>1
<1> HIDE DEF M
<1>3. \A i \in 1..Len(L[p0]) : FALSE
  OBVIOUS
<1>4. ASSUME NEW p \in Link, NEW i \in 1..Len(M[p])
      PROVE  IF p = p0 THEN i = 1 /\ M[p][i] = e ELSE i \in 1..Len(L[p]) /\ M[p][i] = L[p][i] /\ M[p][i] \in U
  BY <1>1, <1>2 DEF OnceIn
<1>5. ASSUME NEW p \in Link, NEW q \in Link, NEW i \in 1..Len(M[p]), NEW j \in 1..Len(M[q]), M[p][i] = M[q][j]
      PROVE  p = q /\ i = j
  <2>1. CASE p = p0
    BY <1>4, <1>5, <2>1
  <2>2. CASE p # p0
    BY SMTT(30), <1>4, <1>5, <2>2 DEF OnceIn
  <2> QED
    BY <2>1, <2>2
<1>6. ASSUME NEW u \in U \union {e} PROVE \E p \in Link : \E i \in 1..Len(M[p]) : M[p][i] = u
  <2>1. CASE u = e
    <3>1. 1 \in 1..Len(M[p0]) /\ M[p0][1] = u
      BY <1>1, <1>2, <2>1
    <3> QED
      BY <3>1
  <2>2. CASE u \in U
    <3>1. PICK p \in Link : \E i \in 1..Len(L[p]) : L[p][i] = u
      BY <2>2 DEF OnceIn
    <3>2. p # p0
      BY <1>3, <3>1
    <3> QED
      BY <1>2, <3>1, <3>2
  <2> QED
    BY <2>1, <2>2
<1>7. \A p \in Link : \A i \in 1..Len(M[p]) : M[p][i] \in U \union {e}
  BY <1>4
<1>8. OnceIn(M, U \union {e})
  BY <1>5, <1>6, <1>7 DEF OnceIn
<1> QED
  BY <1>2, <1>8 DEF M

\* The lists of two pages change places.
LEMMA OnceSwap ==
  ASSUME NEW S, NEW L \in [Link -> Seq(S)], NEW U, OnceIn(L, U), NEW a \in Link, NEW b \in Link, a # b
  PROVE  /\ [L EXCEPT ![a] = L[b], ![b] = L[a]] \in [Link -> Seq(S)]
         /\ OnceIn([L EXCEPT ![a] = L[b], ![b] = L[a]], U)
<1> DEFINE M == [L EXCEPT ![a] = L[b], ![b] = L[a]]
           from(p) == IF p = a THEN b ELSE IF p = b THEN a ELSE p
<1>1. M \in [Link -> Seq(S)] /\ \A p \in Link : from(p) \in Link /\ M[p] = L[from(p)]
  OBVIOUS
<1>2. \A p, q \in Link : from(p) = from(q) => p = q
  OBVIOUS
<1>3. \A p \in Link : from(from(p)) = p
  OBVIOUS
<1> HIDE DEF M, from
<1>4. OnceIn(M, U)
  <2>1. ASSUME NEW p \in Link, NEW q \in Link, NEW i \in 1..Len(M[p]), NEW j \in 1..Len(M[q]), M[p][i] = M[q][j]
        PROVE  p = q /\ i = j
    <3>1. /\ from(p) \in Link /\ from(q) \in Link /\ i \in 1..Len(L[from(p)]) /\ j \in 1..Len(L[from(q)])
          /\ L[from(p)][i] = L[from(q)][j]
      BY <1>1, <2>1
    <3>2. from(p) = from(q) /\ i = j
      BY <3>1 DEF OnceIn
    <3> QED
      BY <1>2, <3>2
  <2>2. \A p \in Link : \A i \in 1..Len(M[p]) : M[p][i] \in U
    BY <1>1 DEF OnceIn
  <2>3. ASSUME NEW u \in U PROVE \E p \in Link : \E i \in 1..Len(M[p]) : M[p][i] = u
    <3>1. PICK p \in Link : \E i \in 1..Len(L[p]) : L[p][i] = u
      BY DEF OnceIn
    <3>2. M[from(p)] = L[p] /\ from(p) \in Link
      BY <1>1, <1>3
    <3> QED
      BY <3>1, <3>2
  <2> QED
    BY <2>1, <2>2, <2>3 DEF OnceIn
<1> QED
  BY <1>1, <1>4 DEF M

\* The list in hand has one element, which goes into the list of a page.
LEMMA OncePut ==
  ASSUME NEW S, NEW L \in [Link -> Seq(S)], NEW U, OnceIn(L, U), NEW p0 \in Page,
         NEW e \in S, L[NoPage] = <<e>>, NEW k \in 1..(Len(L[p0]) + 1)
  PROVE  /\ [L EXCEPT ![NoPage] = <<>>, ![p0] = InsertAt(L[p0], k, e)] \in [Link -> Seq(S)]
         /\ OnceIn([L EXCEPT ![NoPage] = <<>>, ![p0] = InsertAt(L[p0], k, e)], U)
<1> DEFINE s == L[p0]
           n == Len(s)
           t == InsertAt(s, k, e)
           M == [L EXCEPT ![NoPage] = <<>>, ![p0] = t]
<1>1. p0 \in Link /\ NoPage \in Link /\ p0 # NoPage /\ s \in Seq(S) /\ n \in Nat /\ k \in 1..(n + 1)
  BY NoPageIsNone
<1>2. /\ t \in Seq(S) /\ Len(t) = n + 1
      /\ \A i \in 1..(n + 1) : t[i] = IF i < k THEN s[i] ELSE IF i = k THEN e ELSE s[i - 1]
  BY <1>1, InsertAtEntries
<1> HIDE DEF t
<1>3. /\ M \in [Link -> Seq(S)] /\ M[p0] = t /\ M[NoPage] = <<>> /\ \A p \in Link \ {p0, NoPage} : M[p] = L[p]
  <2>1. <<>> \in Seq(S)
    OBVIOUS
  <2>2. \A o \in Seq(S) : LET N == [L EXCEPT ![NoPage] = o, ![p0] = t] IN
          N \in [Link -> Seq(S)] /\ N[p0] = t /\ N[NoPage] = o /\ \A p \in Link \ {p0, NoPage} : N[p] = L[p]
    BY <1>1, <1>2
  <2> QED
    BY <2>1, <2>2
<1>4. M = [L EXCEPT ![NoPage] = <<>>, ![p0] = InsertAt(L[p0], k, e)]
  BY DEF t
<1> HIDE DEF M, n, s
<1>5. s = L[p0] /\ n = Len(s) /\ Len(L[NoPage]) = 1 /\ L[NoPage][1] = e /\ 1 \in 1..1
  BY DEF s, n
<1>6. \A i \in 1..(n + 1) : /\ i < k => i \in 1..n
                            /\ ~(i < k) /\ i # k => i - 1 \in 1..n
  BY <1>1
<1>7. \A j \in 1..n : j # 0 /\ IF j < k THEN j \in 1..(n + 1) /\ t[j] = s[j]
                               ELSE j + 1 \in 1..(n + 1) /\ t[j + 1] = s[j]
  <2> TAKE j \in 1..n
  <2>1. CASE j < k
    BY <1>1, <1>2, <2>1
  <2>2. CASE ~(j < k)
    <3>1. j + 1 \in 1..(n + 1) /\ ~(j + 1 < k) /\ j + 1 # k /\ (j + 1) - 1 = j
      BY <1>1, <2>2
    <3> QED
      BY <1>1, <1>2, <2>2, <3>1
  <2> QED
    BY <1>1, <2>1, <2>2
<1> DEFINE page(p, i) == IF p = p0 /\ i = k THEN NoPage ELSE p
           cell(p, i) == IF p = p0 THEN (IF i < k THEN i ELSE IF i = k THEN 1 ELSE i - 1) ELSE i
<1>8. ASSUME NEW p \in Link, NEW i \in 1..Len(M[p])
      PROVE  /\ p # NoPage /\ page(p, i) \in Link /\ cell(p, i) \in 1..Len(L[page(p, i)])
             /\ M[p][i] = L[page(p, i)][cell(p, i)]
  <2>1. p # NoPage
    BY <1>3
  <2>2. CASE p = p0
    BY <1>1, <1>2, <1>3, <1>5, <1>6, <2>2
  <2>3. CASE p # p0
    BY <1>3, <2>1, <2>3
  <2> QED
    BY <2>1, <2>2, <2>3
<1>9. ASSUME NEW p \in Link, NEW q \in Link, NEW i \in 1..Len(M[p]), NEW j \in 1..Len(M[q]),
             page(p, i) = page(q, j), cell(p, i) = cell(q, j)
      PROVE  p = q /\ i = j
  <2>1. p # NoPage /\ q # NoPage
    BY <1>8
  <2>2. p = q
    BY <1>9, <2>1
  <2>3. CASE p = p0
    BY <1>1, <1>2, <1>3, <1>9, <2>2, <2>3
  <2>4. CASE p # p0
    BY <1>9, <2>2, <2>4
  <2> QED
    BY <2>2, <2>3, <2>4
<1> HIDE DEF page, cell
<1>10. ASSUME NEW p \in Link, NEW q \in Link, NEW i \in 1..Len(M[p]), NEW j \in 1..Len(M[q]), M[p][i] = M[q][j]
       PROVE  p = q /\ i = j
  <2>1. /\ page(p, i) \in Link /\ cell(p, i) \in 1..Len(L[page(p, i)])
        /\ page(q, j) \in Link /\ cell(q, j) \in 1..Len(L[page(q, j)])
        /\ L[page(p, i)][cell(p, i)] = L[page(q, j)][cell(q, j)]
    BY <1>8, <1>10
  <2>2. page(p, i) = page(q, j) /\ cell(p, i) = cell(q, j)
    BY <2>1 DEF OnceIn
  <2> QED
    BY <1>9, <2>2
<1>11. ASSUME NEW p \in Link, NEW i \in 1..Len(M[p]) PROVE M[p][i] \in U
  <2>1. page(p, i) \in Link /\ cell(p, i) \in 1..Len(L[page(p, i)]) /\ M[p][i] = L[page(p, i)][cell(p, i)]
    BY <1>8
  <2> QED
    BY <2>1 DEF OnceIn
<1>12. ASSUME NEW u \in U PROVE \E p \in Link : \E i \in 1..Len(M[p]) : M[p][i] = u
  <2>1. PICK p \in Link : \E i \in 1..Len(L[p]) : L[p][i] = u
    BY DEF OnceIn
  <2>2. PICK i \in 1..Len(L[p]) : L[p][i] = u
    BY <2>1
  <2>3. CASE p = NoPage
    <3>1. u = e /\ k \in 1..Len(t) /\ t[k] = e
      BY <1>1, <1>2, <1>5, <2>2, <2>3
    <3> QED
      BY <1>1, <1>3, <3>1
  <2>4. CASE p = p0
    BY <1>1, <1>2, <1>3, <1>5, <1>7, <2>2, <2>4
  <2>5. CASE p # p0 /\ p # NoPage
    BY <1>3, <2>2, <2>5
  <2> QED
    BY <2>3, <2>4, <2>5
<1>13. OnceIn(M, U)
  BY <1>10, <1>11, <1>12 DEF OnceIn
<1> QED
  BY <1>3, <1>4, <1>13

\* The list of a page is cut in three: the page keeps the first part, a new page
\* gets the last, and the one between is in hand.
LEMMA OnceCut ==
  ASSUME NEW S, NEW L \in [Link -> Seq(S)], NEW U, OnceIn(L, U), NEW p0 \in Page, NEW new \in Page, p0 # new,
         L[NoPage] = <<>>, L[new] = <<>>, NEW a \in Nat, NEW d \in Nat, NEW n \in Nat, Len(L[p0]) = n, a + d <= n,
         NEW t \in Seq(S), NEW o \in Seq(S), NEW v \in Seq(S),
         Part(t, L[p0], 0, a), Part(o, L[p0], a, d), Part(v, L[p0], a + d, n - (a + d))
  PROVE  /\ [L EXCEPT ![p0] = t, ![NoPage] = o, ![new] = v] \in [Link -> Seq(S)]
         /\ OnceIn([L EXCEPT ![p0] = t, ![NoPage] = o, ![new] = v], U)
<1> DEFINE M == [L EXCEPT ![p0] = t, ![NoPage] = o, ![new] = v]
           s == L[p0]
<1>1. p0 \in Link /\ NoPage \in Link /\ new \in Link /\ p0 # NoPage /\ new # NoPage
  BY NoPageIsNone
<1>2. /\ M \in [Link -> Seq(S)] /\ M[p0] = t /\ M[NoPage] = o /\ M[new] = v
      /\ \A p \in Link \ {p0, NoPage, new} : M[p] = L[p]
  BY <1>1
<1> HIDE DEF M, s
<1>3. /\ Len(s) = n /\ Len(t) = a /\ Len(o) = d /\ Len(v) = n - (a + d) /\ s = L[p0]
      /\ \A i \in 1..a : t[i] = s[0 + i]
      /\ \A i \in 1..d : o[i] = s[a + i]
      /\ \A i \in 1..(n - (a + d)) : v[i] = s[a + d + i]
  BY DEF Part, s
<1> DEFINE page(p) == IF p \in {p0, NoPage, new} THEN p0 ELSE p
           cell(p, i) == IF p = NoPage THEN a + i ELSE IF p = new THEN a + d + i ELSE i
<1>4. ASSUME NEW p \in Link, NEW i \in 1..Len(M[p])
      PROVE  /\ page(p) \in Link /\ cell(p, i) \in 1..Len(L[page(p)])
             /\ M[p][i] = L[page(p)][cell(p, i)]
  <2>1. CASE p = p0
    <3>1. i \in 1..a /\ 0 + i = i /\ i \in 1..n
      BY <1>2, <1>3, <2>1
    <3> QED
      BY <1>1, <1>2, <1>3, <2>1, <3>1
  <2>2. CASE p = NoPage
    <3>1. i \in 1..d /\ a + i \in 1..n
      BY <1>2, <1>3, <2>2
    <3> QED
      BY <1>1, <1>2, <1>3, <2>2, <3>1
  <2>3. CASE p = new
    <3>1. i \in 1..(n - (a + d)) /\ a + d + i \in 1..n
      BY <1>2, <1>3, <2>3
    <3> QED
      BY <1>1, <1>2, <1>3, <2>3, <3>1
  <2>4. CASE p \notin {p0, NoPage, new}
    BY <1>2, <2>4
  <2> QED
    BY <2>1, <2>2, <2>3, <2>4
<1>5. ASSUME NEW p \in Link, NEW q \in Link, NEW i \in 1..Len(M[p]), NEW j \in 1..Len(M[q]),
             page(p) = page(q), cell(p, i) = cell(q, j)
      PROVE  p = q /\ i = j
  <2>1. CASE p \notin {p0, NoPage, new} \/ q \notin {p0, NoPage, new}
    BY <1>1, <1>5, <2>1
  <2>2. CASE p \in {p0, NoPage, new} /\ q \in {p0, NoPage, new}
    <3>1. /\ p = p0 => i \in 1..a /\ cell(p, i) = i
          /\ p = NoPage => i \in 1..d /\ cell(p, i) = a + i
          /\ p = new => i \in 1..(n - (a + d)) /\ cell(p, i) = a + d + i
      BY <1>1, <1>2, <1>3
    <3>2. /\ q = p0 => j \in 1..a /\ cell(q, j) = j
          /\ q = NoPage => j \in 1..d /\ cell(q, j) = a + j
          /\ q = new => j \in 1..(n - (a + d)) /\ cell(q, j) = a + d + j
      BY <1>1, <1>2, <1>3
    <3> HIDE DEF page, cell
    <3> QED
      BY SMTT(30), <1>5, <2>2, <3>1, <3>2
  <2> QED
    BY <2>1, <2>2
<1> HIDE DEF page, cell
<1>6. ASSUME NEW p \in Link, NEW q \in Link, NEW i \in 1..Len(M[p]), NEW j \in 1..Len(M[q]), M[p][i] = M[q][j]
      PROVE  p = q /\ i = j
  <2>1. /\ page(p) \in Link /\ cell(p, i) \in 1..Len(L[page(p)])
        /\ page(q) \in Link /\ cell(q, j) \in 1..Len(L[page(q)])
        /\ L[page(p)][cell(p, i)] = L[page(q)][cell(q, j)]
    BY <1>4, <1>6
  <2>2. page(p) = page(q) /\ cell(p, i) = cell(q, j)
    BY ONLY OnceIn(L, U), <2>1, ZenonT(60) DEF OnceIn
  <2> QED
    BY <1>5, <2>2
<1>7. ASSUME NEW p \in Link, NEW i \in 1..Len(M[p]) PROVE M[p][i] \in U
  <2>1. page(p) \in Link /\ cell(p, i) \in 1..Len(L[page(p)]) /\ M[p][i] = L[page(p)][cell(p, i)]
    BY <1>4
  <2> QED
    BY <2>1 DEF OnceIn
<1>8. ASSUME NEW u \in U PROVE \E p \in Link : \E i \in 1..Len(M[p]) : M[p][i] = u
  <2>1. PICK p \in Link : \E i \in 1..Len(L[p]) : L[p][i] = u
    BY DEF OnceIn
  <2>2. PICK i \in 1..Len(L[p]) : L[p][i] = u
    BY <2>1
  <2>3. CASE p = NoPage \/ p = new
    <3>1. Len(L[p]) = 0
      BY <2>3
    <3> QED
      BY <2>2, <3>1
  <2>4. CASE p = p0
    <3>1. i \in 1..n /\ s[i] = u
      BY <1>3, <2>2, <2>4
    <3>2. CASE i <= a
      <4>1. i \in 1..a /\ 0 + i = i
        BY <3>1, <3>2
      <4>2. i \in 1..Len(M[p0]) /\ M[p0][i] = s[i]
        BY <1>2, <1>3, <4>1
      <4> QED
        BY <1>1, <3>1, <4>2
    <3>3. CASE a < i /\ i <= a + d
      <4>1. i - a \in 1..d /\ a + (i - a) = i
        BY <3>1, <3>3
      <4>2. i - a \in 1..Len(M[NoPage]) /\ M[NoPage][i - a] = s[i]
        BY <1>2, <1>3, <4>1
      <4> QED
        BY <1>1, <3>1, <4>2
    <3>4. CASE a + d < i
      <4>1. i - (a + d) \in 1..(n - (a + d)) /\ a + d + (i - (a + d)) = i
        BY <3>1, <3>4
      <4>2. i - (a + d) \in 1..Len(M[new]) /\ M[new][i - (a + d)] = s[i]
        BY <1>2, <1>3, <4>1
      <4> QED
        BY <1>1, <3>1, <4>2
    <3> QED
      BY <3>1, <3>2, <3>3, <3>4
  <2>5. CASE p \notin {p0, NoPage, new}
    BY <1>2, <2>2, <2>5
  <2> QED
    BY <2>3, <2>4, <2>5
<1>9. OnceIn(M, U)
  BY <1>6, <1>7, <1>8 DEF OnceIn
<1> QED
  BY <1>2, <1>9 DEF M

-----------------------------------------------------------------------------
\* The second invariant.  K lists the entries that each page will hold once the
\* calls have stored their nodes, and C its children; the entry and the page that
\* a call has split off and not yet given to a parent are in hand.
InHand(fs, keys, kids) ==
  IF fs # <<>> /\ fs[Len(fs)].pc \in {"root", "up"}
  THEN keys = <<fs[Len(fs)].key>> /\ kids = <<fs[Len(fs)].sibling>>
  ELSE keys = <<>> /\ kids = <<>>
Contents(nd, fs, K, C) ==
  /\ K \in [Link -> Seq(Id)] /\ C \in [Link -> Seq(Page)]
  /\ \A p \in Page \ Pages(nd) : K[p] = <<>> /\ C[p] = <<>>
  /\ \A p \in Pages(nd) : (\A i \in 1..Len(fs) : fs[i].page # p) =>
                            K[p] = nd[p + 1].keys /\ C[p] = nd[p + 1].kids
  /\ \A i \in 1..Len(fs) : K[fs[i].page] = fs[i].node.keys /\ C[fs[i].page] = fs[i].node.kids
  /\ InHand(fs, K[NoPage], C[NoPage])
OnceInv == \E K, C : /\ Contents(node, frames, K, C)
                     /\ OnceIn(K, 1..Len(rows)) /\ OnceIn(C, Pages(node) \ {Root})

\* The calls in progress are at different pages.
LEMMA CallPages ==
  ASSUME LevelInv, frames # <<>>
  PROVE  /\ Top \in Frame /\ Top = frames[Len(frames)] /\ Len(frames) \in Nat \ {0}
         /\ Top.page \in Pages(node) /\ Top.page \in Page /\ Top.node \in Node
         /\ \A i \in 1..(Len(frames) - 1) : /\ frames[i].page \in Pages(node) /\ frames[i].page # Top.page
                                            /\ frames[i].pc = "write"
         /\ Pages(node) \subseteq Page
<1>1. Shapes
  BY DEF LevelInv
<1>2. PICK h : Leveled(node, Len(rows), frames, h)
  BY DEF LevelInv
<1>3. /\ Top \in Frame /\ Top.page \in Pages(node) /\ Top.page \in Page /\ Top.node \in Node
      /\ Pages(node) \subseteq Page /\ IsHeight(h) /\ CallsIn(node, Len(rows), frames, h)
      /\ \A i \in 1..(Len(frames) - 1) : /\ frames[i].page \in Pages(node)
                                         /\ h[frames[i].page] < h[Top.page]
  BY <1>1, <1>2, CallFacts
<1>4. Top = frames[Len(frames)] /\ Len(frames) \in Nat \ {0}
  BY <1>1, TopFacts
<1>5. ASSUME NEW i \in 1..(Len(frames) - 1) PROVE frames[i].page # Top.page /\ frames[i].pc = "write"
  <2>1. i \in 1..Len(frames) /\ i < Len(frames)
    BY <1>4
  <2>2. frames[i].pc = "write"
    BY <1>3, <2>1 DEF CallsIn
  <2>3. h[Top.page] \in Nat
    BY <1>3 DEF IsHeight
  <2> QED
    BY <1>3, <2>2, <2>3
<1> QED
  BY <1>3, <1>4, <1>5

\* A step at the page of the last of k calls, which may add a page, and leaves what
\* the other pages hold and the calls below it as they are
StepAt(page, k, nd, fs, K, C, md, gs, L, D) ==
  /\ k \in Nat \ {0} /\ Len(fs) = k /\ Len(gs) = k /\ \A i \in 1..(k - 1) : gs[i] = fs[i]
  /\ fs[k].page = page /\ \A i \in 1..(k - 1) : fs[i].page \in Pages(nd) \ {page}
  /\ Pages(nd) \subseteq Pages(md)
  /\ \A p \in Pages(nd) \ {page} : /\ md[p + 1].keys = nd[p + 1].keys /\ L[p] = K[p]
                                   /\ md[p + 1].kids = nd[p + 1].kids /\ D[p] = C[p]
  /\ L \in [Link -> Seq(Id)] /\ D \in [Link -> Seq(Page)]
  /\ \A p \in Page \ Pages(md) : L[p] = K[p] /\ D[p] = C[p]
  /\ \A p \in (Pages(md) \ Pages(nd)) \union {page} :
       p # gs[k].page => L[p] = md[p + 1].keys /\ D[p] = md[p + 1].kids
  /\ L[gs[k].page] = gs[k].node.keys /\ D[gs[k].page] = gs[k].node.kids
  /\ gs[k].page \notin Pages(nd) \ {page}
  /\ InHand(gs, L[NoPage], D[NoPage])

LEMMA ContentsKept ==
  ASSUME NEW page, NEW k, NEW nd, NEW fs, NEW K, NEW C, NEW md, NEW gs, NEW L, NEW D,
         Contents(nd, fs, K, C), StepAt(page, k, nd, fs, K, C, md, gs, L, D)
  PROVE  Contents(md, gs, L, D)
<1>1. /\ k \in Nat \ {0} /\ Len(fs) = k /\ Len(gs) = k /\ \A i \in 1..(k - 1) : gs[i] = fs[i]
      /\ fs[k].page = page /\ \A i \in 1..(k - 1) : fs[i].page \in Pages(nd) \ {page}
      /\ \A p \in Pages(nd) \ {page} : /\ md[p + 1].keys = nd[p + 1].keys /\ L[p] = K[p]
                                       /\ md[p + 1].kids = nd[p + 1].kids /\ D[p] = C[p]
  BY DEF StepAt
<1>2. \A p \in Page \ Pages(md) : L[p] = <<>> /\ D[p] = <<>>
  BY DEF Contents, StepAt
<1>3. ASSUME NEW p \in Pages(md), \A i \in 1..k : gs[i].page # p
      PROVE  L[p] = md[p + 1].keys /\ D[p] = md[p + 1].kids
  <2>1. p # gs[k].page
    BY <1>1, <1>3
  <2>2. CASE p \in Pages(nd) \ {page}
    <3>1. \A i \in 1..Len(fs) : fs[i].page # p
      <4> TAKE i \in 1..Len(fs)
      <4>1. CASE i = k
        BY <1>1, <2>2, <4>1
      <4>2. CASE i # k
        <5>1. i \in 1..(k - 1) /\ i \in 1..k
          BY <1>1, <4>2
        <5> QED
          BY <1>1, <1>3, <5>1
      <4> QED
        BY <4>1, <4>2
    <3>2. K[p] = nd[p + 1].keys /\ C[p] = nd[p + 1].kids
      BY <2>2, <3>1 DEF Contents
    <3> QED
      BY <1>1, <2>2, <3>2
  <2>3. CASE p \in (Pages(md) \ Pages(nd)) \union {page}
    BY <2>1, <2>3 DEF StepAt
  <2> QED
    BY <2>2, <2>3
<1>4. ASSUME NEW i \in 1..k PROVE L[gs[i].page] = gs[i].node.keys /\ D[gs[i].page] = gs[i].node.kids
  <2>1. CASE i = k
    BY <2>1 DEF StepAt
  <2>2. CASE i # k
    <3>1. i \in 1..(k - 1) /\ i \in 1..Len(fs)
      BY <1>1, <2>2
    <3>2. gs[i] = fs[i] /\ fs[i].page \in Pages(nd) \ {page}
      BY <1>1, <3>1
    <3>3. K[fs[i].page] = fs[i].node.keys /\ C[fs[i].page] = fs[i].node.kids
      BY <3>1 DEF Contents
    <3> QED
      BY <1>1, <3>2, <3>3
  <2> QED
    BY <2>1, <2>2
<1>5. L \in [Link -> Seq(Id)] /\ D \in [Link -> Seq(Page)] /\ InHand(gs, L[NoPage], D[NoPage])
  BY DEF StepAt
<1> QED
  BY <1>1, <1>2, <1>3, <1>4, <1>5 DEF Contents

\* What a split makes of the page, the nodes and the calls
LEMMA SplitMakes ==
  ASSUME LevelInv, split_bt_node
  PROVE  /\ Top.node \in Node /\ Len(Top.node.keys) = ORDER /\ Top.node.keys[Half + 1] \in Id
         /\ IF Top.node.leaf THEN Top.node.kids = <<>> ELSE Len(Top.node.kids) = ORDER + 1
         /\ Left(Top.node) \in Node /\ Right(Top.node) \in Node
         /\ Left(Top.node).leaf = Top.node.leaf /\ Right(Top.node).leaf = Top.node.leaf
         /\ Appended(node, node', Right(Top.node))
         /\ \E f \in Frame : /\ LastSet(frames, frames', f) /\ f.page = Top.page /\ f.node = Left(Top.node)
                             /\ f.key = Top.node.keys[Half + 1] /\ f.sibling = Len(node) /\ f.pc \in {"root", "up"}
                             /\ f.pc = IF Top.node.parent = NoPage THEN "root" ELSE "up"
<1> DEFINE r == Len(rows)
           n == Top.node
           f == [Top EXCEPT !.node = Left(@), !.pc = IF n.parent = NoPage THEN "root" ELSE "up",
                            !.key = n.keys[Half + 1], !.sibling = NewPage]
<1>1. /\ Shapes /\ frames # <<>> /\ Top.pc = "split" /\ NewPage < MaxPages
      /\ node' = Append(node, Right(n)) /\ SetTop(f)
  BY DEF LevelInv, split_bt_node, At
<1>2. PICK h : Leveled(node, r, frames, h)
  BY DEF LevelInv
<1>3. Top \in Frame /\ n \in Node /\ CallIn(node, r, Top, h) /\ r \in Nat /\ r <= MaxRows /\ MaxRows \in Nat
  BY <1>1, <1>2, CallFacts
<1> HIDE DEF r
<1>4. NodeIn(Pages(node), Interiors(node), r, n, h[Top.page], h) /\ Len(n.keys) = ORDER
  BY <1>1, <1>3 DEF CallIn
<1>5. IF n.leaf THEN n.kids = <<>> ELSE Len(n.kids) = ORDER + 1
  BY <1>4 DEF NodeIn
<1>6. Grown(Left(n), n) /\ Grown(Right(n), n) /\ n.keys[Half + 1] \in 1..r
  BY <1>3, <1>4, HalvesIn
<1>7. Appended(node, node', Right(n)) /\ NewPage = Len(node)
  BY <1>1, <1>6, AppendPage DEF Shapes, Grown, NewPage
<1>8. /\ f \in Frame /\ f.page = Top.page /\ f.node = Left(n) /\ f.key = n.keys[Half + 1]
      /\ f.sibling = Len(node) /\ f.pc \in {"root", "up"}
      /\ f.pc = IF Top.node.parent = NoPage THEN "root" ELSE "up"
  <2>1. Left(n) \in Node /\ Len(node) \in Page /\ n.keys[Half + 1] \in 0..MaxRows
    BY <1>3, <1>6, <1>7 DEF Grown, Appended
  <2> HIDE DEF n
  <2> QED
    BY <1>3, <1>7, <2>1 DEF Frame, Link, n
<1> HIDE DEF f
<1>9. LastSet(frames, frames', f)
  BY <1>1, <1>8, TopIsSet
<1>10. n.keys[Half + 1] \in Id
  BY <1>3, <1>6 DEF Id
<1> QED
  BY <1>3, <1>4, <1>5, <1>6, <1>7, <1>8, <1>9, <1>10 DEF Grown

LEMMA SplitOnce == ASSUME LevelInv, OnceInv, split_bt_node PROVE OnceInv'
<1> DEFINE n == Top.node
           page == Top.page
           new == Len(node)
           k == Len(frames)
           key == n.keys[Half + 1]
<1>1. PICK K, C : /\ Contents(node, frames, K, C)
                  /\ OnceIn(K, 1..Len(rows)) /\ OnceIn(C, Pages(node) \ {Root})
  BY DEF OnceInv
<1>2. PICK f \in Frame : /\ LastSet(frames, frames', f) /\ f.page = page /\ f.node = Left(n)
                         /\ f.key = key /\ f.sibling = new /\ f.pc \in {"root", "up"}
  BY SplitMakes
<1>3. /\ n \in Node /\ Len(n.keys) = ORDER /\ key \in Id
      /\ IF n.leaf THEN n.kids = <<>> ELSE Len(n.kids) = ORDER + 1
      /\ Left(n) \in Node /\ Right(n) \in Node /\ Left(n).leaf = n.leaf /\ Right(n).leaf = n.leaf
      /\ Appended(node, node', Right(n))
  BY SplitMakes
<1>4. frames # <<>> /\ Top.pc = "split" /\ rows' = rows
  BY DEF split_bt_node, At
<1>5. /\ Top = frames[k] /\ k \in Nat \ {0} /\ page \in Pages(node) /\ page \in Page
      /\ \A i \in 1..(k - 1) : frames[i].page \in Pages(node) /\ frames[i].page # page
      /\ Pages(node) \subseteq Page
  BY <1>4, CallPages
<1>6. /\ K \in [Link -> Seq(Id)] /\ C \in [Link -> Seq(Page)]
      /\ K[page] = n.keys /\ C[page] = n.kids /\ K[NoPage] = <<>> /\ C[NoPage] = <<>>
      /\ K[new] = <<>> /\ C[new] = <<>>
  <2>1. new \in Page \ Pages(node) /\ k \in 1..k
    BY <1>3, <1>5 DEF Appended
  <2> QED
    BY <1>1, <1>4, <1>5, <2>1 DEF Contents, InHand
<1>7. /\ new \in Page /\ new \notin Pages(node) /\ new # Root /\ page # new
      /\ Pages(node') = Pages(node) \union {new} /\ node'[new + 1] = Right(n)
      /\ \A p \in Pages(node) : node'[p + 1] = node[p + 1]
      /\ Len(frames') = k /\ frames'[k] = f /\ \A i \in 1..(k - 1) : frames'[i] = frames[i]
  <2>1. new \notin Pages(node) /\ Root \in Pages(node)
    BY <1>3, UsedPages DEF LevelInv, Appended
  <2> QED
    BY <1>2, <1>3, <1>5, <2>1 DEF Appended, LastSet
<1>8. /\ Half \in Nat /\ 1 \in Nat /\ ORDER \in Nat /\ Half + 1 <= ORDER /\ 0 \in Nat
      /\ ORDER - (Half + 1) = ORDER - Half - 1
  BY HalfBounds
<1>9. /\ Left(n).keys \in Seq(Id) /\ Right(n).keys \in Seq(Id) /\ <<key>> \in Seq(Id)
      /\ Left(n).kids \in Seq(Page) /\ Right(n).kids \in Seq(Page) /\ <<>> \in Seq(Page)
      /\ Len(n.kids) \in Nat /\ n.kids \in Seq(Page)
  BY <1>3 DEF Node
<1>10. /\ Part(Left(n).keys, n.keys, 0, Half) /\ Part(Right(n).keys, n.keys, Half + 1, ORDER - (Half + 1))
       /\ ~n.leaf => /\ Part(Left(n).kids, n.kids, 0, Half + 1)
                     /\ Part(Right(n).kids, n.kids, Half + 1, ORDER + 1 - (Half + 1))
  BY <1>3, HalvesParts
<1>11. Part(<<key>>, n.keys, Half, 1)
  <2>1. Len(<<key>>) = 1 /\ <<key>>[1] = key /\ \A i \in 1..1 : i = 1
    OBVIOUS
  <2> QED
    BY <2>1 DEF Part
<1>12. PICK a \in Nat : /\ a + 0 <= Len(n.kids) /\ Part(Left(n).kids, n.kids, 0, a) /\ Part(<<>>, n.kids, a, 0)
                        /\ Part(Right(n).kids, n.kids, a + 0, Len(n.kids) - (a + 0))
  <2>1. \A i \in 1..0 : FALSE
    OBVIOUS
  <2>2. \A a \in Nat : Part(<<>>, n.kids, a, 0)
    BY <2>1 DEF Part
  <2>3. CASE n.leaf
    <3>1. Left(n).kids = <<>> /\ Right(n).kids = <<>> /\ n.kids = <<>>
      BY <1>3, <2>3, Halves
    <3>2. Len(<<>>) = 0 /\ 0 + 0 = 0 /\ 0 - (0 + 0) = 0 /\ 0 + 0 <= 0
      OBVIOUS
    <3>3. /\ 0 + 0 <= Len(n.kids) /\ Part(Left(n).kids, n.kids, 0, 0) /\ Part(<<>>, n.kids, 0, 0)
          /\ Part(Right(n).kids, n.kids, 0 + 0, Len(n.kids) - (0 + 0))
      BY <2>2, <3>1, <3>2
    <3> QED
      BY <3>3
  <2>4. CASE ~n.leaf
    <3>1. Len(n.kids) = ORDER + 1 /\ Half + 1 \in Nat /\ (Half + 1) + 0 = Half + 1 /\ (Half + 1) + 0 <= ORDER + 1
      BY <1>3, <1>8, <2>4
    <3> DEFINE b == Half + 1
    <3>2. Part(Left(n).kids, n.kids, 0, b) /\ Part(Right(n).kids, n.kids, b, ORDER + 1 - b)
      BY <1>10, <2>4
    <3> HIDE DEF b
    <3>3. b \in Nat /\ b + 0 = b /\ b + 0 <= Len(n.kids) /\ Len(n.kids) - (b + 0) = ORDER + 1 - b
      BY <1>8, <3>1 DEF b
    <3>4. Part(<<>>, n.kids, b, 0)
      BY <2>2, <3>3
    <3>5. Part(Right(n).kids, n.kids, b + 0, Len(n.kids) - (b + 0))
      BY ONLY <3>2, <3>3
    <3> QED
      BY <3>2, <3>3, <3>4, <3>5
  <2> QED
    BY <2>3, <2>4
<1> DEFINE L == [K EXCEPT ![page] = Left(n).keys, ![NoPage] = <<key>>, ![new] = Right(n).keys]
           B == [C EXCEPT ![page] = Left(n).kids, ![NoPage] = <<>>, ![new] = Right(n).kids]
           D == [B EXCEPT ![NoPage] = <<new>>]
<1>13. NoPage \in Link /\ NoPage \notin Page /\ Page \subseteq Link
  BY NoPageIsNone
<1> HIDE DEF n, page, new, key, k
<1>14. L \in [Link -> Seq(Id)] /\ OnceIn(L, 1..Len(rows))
  <2>1. Half + 1 <= ORDER /\ Len(K[page]) = ORDER
    BY <1>3, <1>6, <1>8
  <2>2. /\ Part(Left(n).keys, K[page], 0, Half) /\ Part(<<key>>, K[page], Half, 1)
        /\ Part(Right(n).keys, K[page], Half + 1, ORDER - (Half + 1))
    BY <1>6, <1>10, <1>11
  <2> QED
    BY ONLY <1>1, <1>5, <1>6, <1>7, <1>8, <1>9, <2>1, <2>2, OnceCut
<1>15. B \in [Link -> Seq(Page)] /\ OnceIn(B, Pages(node) \ {Root})
  <2> DEFINE m == Len(n.kids)
  <2>1. m \in Nat /\ Len(C[page]) = m /\ a + 0 <= m /\ a \in Nat
    BY <1>6, <1>9, <1>12
  <2>2. /\ Part(Left(n).kids, C[page], 0, a) /\ Part(<<>>, C[page], a, 0)
        /\ Part(Right(n).kids, C[page], a + 0, m - (a + 0))
    BY <1>6, <1>12
  <2> HIDE DEF m
  <2> QED
    BY ONLY <1>1, <1>5, <1>6, <1>7, <1>8, <1>9, <2>1, <2>2, OnceCut
<1>16. D \in [Link -> Seq(Page)] /\ OnceIn(D, Pages(node') \ {Root})
  <2>1. B[NoPage] = <<>>
    BY <1>6, <1>7, <1>13
  <2>2. new \notin Pages(node) \ {Root} /\ (Pages(node) \ {Root}) \union {new} = Pages(node') \ {Root}
    BY <1>7
  <2> HIDE DEF B
  <2>3. D \in [Link -> Seq(Page)] /\ OnceIn(D, (Pages(node) \ {Root}) \union {new})
    BY ONLY <1>7, <1>13, <1>15, <2>1, <2>2, OnceAdd
  <2> QED
    BY <2>2, <2>3
<1>17. /\ L[page] = Left(n).keys /\ L[new] = Right(n).keys /\ L[NoPage] = <<key>>
       /\ D[page] = Left(n).kids /\ D[new] = Right(n).kids /\ D[NoPage] = <<new>>
       /\ \A p \in Page \ {page, new} : L[p] = K[p] /\ D[p] = C[p]
  BY <1>5, <1>6, <1>7, <1>9, <1>13
<1> HIDE DEF L, B, D
<1>18. Contents(node', frames', L, D)
  <2>1. frames'[k] = f /\ Len(frames) = k /\ frames[k].page = page
    BY <1>5, <1>7 DEF k, page
  <2>2. InHand(frames', L[NoPage], D[NoPage])
    BY <1>2, <1>5, <1>7, <1>17 DEF InHand
  <2>3. StepAt(page, k, node, frames, K, C, node', frames', L, D)
    BY <1>2, <1>5, <1>7, <1>14, <1>16, <1>17, <2>1, <2>2 DEF StepAt
  <2> QED
    BY <1>1, <2>3, ContentsKept
<1> QED
  BY <1>4, <1>14, <1>16, <1>18 DEF OnceInv

LEMMA CreateRootOnce == ASSUME LevelInv, OnceInv, create_root_bt PROVE OnceInv'
<1> DEFINE n == Top.node
           page == Top.page
           new == Len(node)
           k == Len(frames)
           moved == [n EXCEPT !.parent = page]
           root == Interior(NoPage, <<>>, <<new>>)
           f == [Top EXCEPT !.node = moved, !.page = NewPage, !.pc = "up"]
<1>1. PICK K, C : /\ Contents(node, frames, K, C)
                  /\ OnceIn(K, 1..Len(rows)) /\ OnceIn(C, Pages(node) \ {Root})
  BY DEF OnceInv
<1>2. frames # <<>> /\ Top.pc = "root" /\ rows' = rows /\ Shapes
  BY DEF create_root_bt, At, LevelInv
<1>3. RootMade(node, node', page, n, Top.sibling) /\ SetTop(f)
  BY RootIsMade DEF LevelInv
<1>4. /\ Top = frames[k] /\ k \in Nat \ {0} /\ page \in Pages(node) /\ page \in Page
      /\ \A i \in 1..(k - 1) : frames[i].page \in Pages(node) /\ frames[i].page # page
      /\ Pages(node) \subseteq Page /\ Top \in Frame /\ n \in Node
  BY <1>2, CallPages
<1>5. /\ Pages(node') = Pages(node) \union {new} /\ new \notin Pages(node) /\ new \in Page
      /\ moved \in Node /\ node'[new + 1] = moved /\ node'[page + 1] = root
      /\ \A p \in Pages(node) \ {page} :
           node'[p + 1] = [node[p + 1] EXCEPT !.parent = IF p = Top.sibling THEN page
                                                         ELSE IF p \in ToSet(n.kids) THEN new ELSE @]
  BY <1>3, <1>4 DEF RootMade
<1>6. /\ moved.keys = n.keys /\ moved.kids = n.kids /\ root.keys = <<>> /\ root.kids = <<new>>
      /\ f \in Frame /\ f.page = new /\ f.node = moved /\ f.pc = "up" /\ f.key = Top.key
      /\ f.sibling = Top.sibling
  BY <1>4, <1>5 DEF Node, Interior, Frame, NewPage
<1>7. \A p \in Pages(node) \ {page} : node'[p + 1].keys = node[p + 1].keys /\ node'[p + 1].kids = node[p + 1].kids
  <2> TAKE p \in Pages(node) \ {page}
  <2>1. node[p + 1] \in Node
    BY <1>2 DEF Shapes, Pages
  <2> DEFINE x == IF p = Top.sibling THEN page ELSE IF p \in ToSet(n.kids) THEN new ELSE node[p + 1].parent
             m == node'[p + 1]
             o == node[p + 1]
  <2>2. m = [o EXCEPT !.parent = x]
    BY <1>5
  <2> HIDE DEF x, m, o, n, page, new, moved, root, f, k
  <2>3. m.keys = o.keys /\ m.kids = o.kids
    <3>1. o \in Node
      BY ONLY <2>1 DEF o
    <3> QED
      BY ONLY <2>2, <3>1 DEF Node
  <2> QED
    BY ONLY <2>3 DEF m, o
<1>8. LastSet(frames, frames', f)
  BY <1>2, <1>3, <1>6, TopIsSet
<1>9. Len(frames') = k /\ frames'[k] = f /\ \A i \in 1..(k - 1) : frames'[i] = frames[i]
  BY <1>8 DEF LastSet
<1>10. /\ K \in [Link -> Seq(Id)] /\ C \in [Link -> Seq(Page)]
       /\ K[page] = n.keys /\ C[page] = n.kids /\ K[new] = <<>> /\ C[new] = <<>>
       /\ K[NoPage] = <<Top.key>> /\ C[NoPage] = <<Top.sibling>>
  <2>1. k \in 1..k /\ new \in Page \ Pages(node)
    BY <1>4, <1>5
  <2> QED
    BY <1>1, <1>2, <1>4, <2>1 DEF Contents, InHand
<1>11. NoPage \notin Page /\ Page \subseteq Link /\ new # Root /\ page # new /\ Root \in Pages(node)
  BY <1>2, <1>4, <1>5, NoPageIsNone, UsedPages
<1> DEFINE L == [K EXCEPT ![page] = K[new], ![new] = K[page]]
           B == [C EXCEPT ![page] = C[new], ![new] = C[page]]
           D == [B EXCEPT ![page] = <<new>>]
<1> HIDE DEF n, page, new, k, moved, root, f
<1>12. page \in Link /\ new \in Link
  BY <1>4, <1>5, <1>11
<1>13. L \in [Link -> Seq(Id)] /\ OnceIn(L, 1..Len(rows))
  BY ONLY <1>1, <1>10, <1>11, <1>12, OnceSwap
<1>14. B \in [Link -> Seq(Page)] /\ OnceIn(B, Pages(node) \ {Root})
  BY ONLY <1>1, <1>10, <1>11, <1>12, OnceSwap
<1>15. D \in [Link -> Seq(Page)] /\ OnceIn(D, Pages(node') \ {Root})
  <2>1. B[page] = <<>>
    BY <1>10, <1>11, <1>12
  <2>2. new \notin Pages(node) \ {Root} /\ (Pages(node) \ {Root}) \union {new} = Pages(node') \ {Root}
    BY <1>5, <1>11
  <2> HIDE DEF B
  <2>3. D \in [Link -> Seq(Page)] /\ OnceIn(D, (Pages(node) \ {Root}) \union {new})
    BY ONLY <1>5, <1>12, <1>14, <2>1, <2>2, OnceAdd
  <2> QED
    BY <2>2, <2>3
<1>16. /\ L[page] = <<>> /\ L[new] = n.keys /\ L[NoPage] = K[NoPage]
       /\ D[page] = <<new>> /\ D[new] = n.kids /\ D[NoPage] = C[NoPage]
       /\ \A p \in Page \ {page, new} : L[p] = K[p] /\ D[p] = C[p]
  <2>1. NoPage \in Link /\ NoPage # page /\ NoPage # new /\ page # new
    BY <1>4, <1>5, <1>11, NoPageIsNone
  <2> QED
    BY <1>10, <1>11, <1>12, <2>1
<1> HIDE DEF L, B, D
<1>17. InHand(frames', L[NoPage], D[NoPage])
  BY <1>4, <1>6, <1>9, <1>10, <1>16 DEF InHand
<1>18. Contents(node', frames', L, D)
  <2>1. frames'[k] = f /\ Len(frames) = k /\ frames[k].page = page
    BY <1>4, <1>9 DEF k, page
  <2>2. /\ k \in Nat \ {0} /\ Len(frames) = k /\ Len(frames') = k
        /\ \A i \in 1..(k - 1) : frames'[i] = frames[i]
        /\ frames[k].page = page /\ \A i \in 1..(k - 1) : frames[i].page \in Pages(node) \ {page}
    BY <1>4, <1>9, <2>1
  <2>3. Pages(node) \subseteq Pages(node') /\ Pages(node') \ Pages(node) = {new}
    BY <1>5
  <2>4. \A p \in Pages(node) \ {page} : /\ node'[p + 1].keys = node[p + 1].keys /\ L[p] = K[p]
                                         /\ node'[p + 1].kids = node[p + 1].kids /\ D[p] = C[p]
    <3>1. \A p \in Pages(node) \ {page} : p \in Page \ {page, new}
      BY <1>4, <1>5
    <3> QED
      BY <1>7, <1>16, <3>1
  <2>5. \A p \in Page \ Pages(node') : L[p] = K[p] /\ D[p] = C[p]
    <3>1. \A p \in Page \ Pages(node') : p \in Page \ {page, new}
      BY <1>4, <1>5
    <3> QED
      BY <1>16, <3>1
  <2>6. frames'[k].page = new /\ new \notin Pages(node) \ {page}
    BY <1>5, <1>6, <1>9
  <2>7. \A p \in (Pages(node') \ Pages(node)) \union {page} :
          p # frames'[k].page => L[p] = node'[p + 1].keys /\ D[p] = node'[p + 1].kids
    <3>1. L[page] = node'[page + 1].keys /\ D[page] = node'[page + 1].kids
      BY <1>5, <1>6, <1>16
    <3> QED
      BY <2>3, <2>6, <3>1
  <2>8. L[frames'[k].page] = frames'[k].node.keys /\ D[frames'[k].page] = frames'[k].node.kids
    BY <1>6, <1>9, <1>16, <2>6
  <2>9. StepAt(page, k, node, frames, K, C, node', frames', L, D)
    BY ONLY <1>13, <1>15, <1>17, <2>2, <2>3, <2>4, <2>5, <2>6, <2>7, <2>8 DEF StepAt
  <2> QED
    BY <1>1, <2>9, ContentsKept
<1> QED
  BY <1>2, <1>13, <1>15, <1>18 DEF OnceInv

\* What the call for the parent adds
LEMMA InternalMakes ==
  ASSUME LevelInv, insert_internal_bt, NEW parent, parent = Top.node.parent, NEW n, n = node[parent + 1]
  PROVE  /\ parent \in Pages(node) /\ parent \in Page /\ n \in Node
         /\ \A i \in 1..Len(frames) : frames[i].page # parent
         /\ Top.key \in Id /\ Top.sibling \in Page /\ Len(n.kids) = Len(n.keys) + 1 /\ Len(n.keys) \in Nat
         /\ Call(parent, WithChild(n, Top.key, Top.sibling)) \in Frame
         /\ Call(parent, WithChild(n, Top.key, Top.sibling)).pc \in {"split", "write"}
         /\ Call(parent, WithChild(n, Top.key, Top.sibling)).page = parent
         /\ Call(parent, WithChild(n, Top.key, Top.sibling)).node = WithChild(n, Top.key, Top.sibling)
<1> DEFINE r == Len(rows)
           k == Len(frames)
           m == WithChild(n, Top.key, Top.sibling)
<1>1. Shapes /\ frames # <<>> /\ Top.pc = "up"
  BY DEF LevelInv, insert_internal_bt, At
<1>2. PICK h : Leveled(node, r, frames, h)
  BY DEF LevelInv
<1>3. /\ Top \in Frame /\ Top.page \in Pages(node) /\ Top.page \in Page /\ CallIn(node, r, Top, h) /\ r \in Nat
      /\ r <= MaxRows /\ MaxRows \in Nat
      /\ Pages(node) \subseteq Page /\ Interiors(node) \subseteq Pages(node)
      /\ IsHeight(h) /\ PagesIn(node, r, h)
      /\ \A i \in 1..(k - 1) : frames[i].page \in Pages(node) /\ h[frames[i].page] < h[Top.page]
      /\ Top = frames[k]
  BY <1>1, <1>2, CallFacts
<1>4. k \in Nat \ {0}
  BY <1>1, TopFacts
<1> HIDE DEF r, k
<1>5. /\ parent \in Interiors(node) /\ h[Top.page] < h[parent] /\ Top.key \in 1..r
      /\ Top.sibling \in Pages(node)
  BY <1>1, <1>3 DEF CallIn, NodeIn
<1>6. parent \in Pages(node) /\ parent \in Page /\ ~n.leaf /\ n \in Node
  <2>1. parent \in Pages(node) /\ ~n.leaf /\ parent \in Page
    BY <1>3, <1>5 DEF Interiors
  <2> QED
    BY <1>1, <2>1 DEF Shapes, Pages
<1>7. Len(n.keys) <= ORDER - 1 /\ Len(n.kids) = Len(n.keys) + 1 /\ Len(n.keys) \in Nat
  <2>1. NodeIn(Pages(node), Interiors(node), r, n, h[parent], h) /\ Len(n.keys) <= ORDER - 1
    BY <1>3, <1>6 DEF PagesIn
  <2>2. ~n.leaf /\ n \in Node
    BY <1>6
  <2>3. Len(n.keys) \in Nat
    BY ONLY <2>2 DEF Node
  <2>4. Len(n.kids) = Len(n.keys) + 1
    BY ONLY <2>1, <2>2 DEF NodeIn
  <2> QED
    BY <2>1, <2>3, <2>4
<1>8. Top.key \in Id /\ Top.sibling \in Page
  BY <1>3, <1>5 DEF Id
<1>9. ASSUME NEW i \in 1..k PROVE frames[i].page # parent
  <2>1. h[Top.page] \in Nat /\ h[parent] \in Nat
    BY <1>3, <1>6 DEF IsHeight
  <2>2. CASE i = k
    BY <1>3, <1>5, <2>1, <2>2
  <2>3. CASE i # k
    <3>1. i \in 1..(k - 1)
      BY <1>4, <2>3
    <3> QED
      BY <1>3, <1>5, <2>1, <3>1
  <2> QED
    BY <2>2, <2>3
<1>10. m \in Node /\ Len(m.keys) <= ORDER
  <2>1. /\ Grown(m, n) /\ \E a \in 1..(Len(n.keys) + 1) : m.keys = InsertAt(n.keys, a, Top.key)
    BY <1>6, <1>7, <1>8, WithChildNode
  <2> HIDE DEF m
  <2>2. n.keys \in Seq(Id)
    BY <1>6 DEF Node
  <2>3. Len(m.keys) = Len(n.keys) + 1
    <3>1. \E a \in 1..(Len(n.keys) + 1) : m.keys = InsertAt(n.keys, a, Top.key)
      BY <2>1
    <3> QED
      BY ONLY <1>8, <2>2, <3>1, Inserted
  <2> QED
    BY <1>7, <2>1, <2>3, IndexTreeAssumption DEF Grown
<1>11. k = Len(frames)
  BY DEF k
<1> HIDE DEF m
<1>12. Call(parent, m) \in Frame /\ Call(parent, m).page = parent /\ Call(parent, m).node = m
       /\ Call(parent, m).pc \in {"split", "write"}
  BY <1>6, <1>10, NewCall
<1> QED
  BY <1>6, <1>7, <1>8, <1>9, <1>11, <1>12 DEF m

LEMMA InsertInternalOnce == ASSUME LevelInv, OnceInv, insert_internal_bt PROVE OnceInv'
<1> DEFINE parent == Top.node.parent
           n == node[parent + 1]
           key == Top.key
           sibling == Top.sibling
           m == WithChild(n, key, sibling)
           f == Call(parent, m)
           done == [Top EXCEPT !.pc = "write"]
           k == Len(frames)
<1>1. PICK K, C : /\ Contents(node, frames, K, C)
                  /\ OnceIn(K, 1..Len(rows)) /\ OnceIn(C, Pages(node) \ {Root})
  BY DEF OnceInv
<1>2. /\ frames # <<>> /\ Top.pc = "up" /\ rows' = rows /\ node' = node /\ Shapes
      /\ frames' = Append(Front(frames) \o <<done>>, f)
  BY DEF insert_internal_bt, At, LevelInv, At0
<1>3. /\ parent \in Pages(node) /\ parent \in Page /\ n \in Node
      /\ \A i \in 1..k : frames[i].page # parent
      /\ key \in Id /\ sibling \in Page /\ Len(n.kids) = Len(n.keys) + 1 /\ Len(n.keys) \in Nat
      /\ f \in Frame /\ f.pc \in {"split", "write"} /\ f.page = parent /\ f.node = m
  BY InternalMakes
<1>4. /\ Top = frames[k] /\ k \in Nat \ {0} /\ Top \in Frame /\ Pages(node) \subseteq Page
  BY <1>2, CallPages
<1>5. /\ done \in Frame /\ done.page = Top.page /\ done.node = Top.node
  BY <1>4 DEF Frame
<1>6. Front(frames) \in Seq(Frame) /\ Len(Front(frames)) = k - 1
      /\ \A i \in 1..(k - 1) : Front(frames)[i] = frames[i]
  BY <1>2, FrontOfCalls
<1>7. PICK a \in 1..(Len(n.keys) + 1) : /\ m.keys = InsertAt(n.keys, a, key)
                                        /\ m.kids = InsertAt(n.kids, a + 1, sibling)
  <2> HIDE DEF n, key, sibling
  <2> QED
    BY <1>3, WithChildNode
<1> HIDE DEF parent, n, key, sibling, m, f, done, k
<1>8. /\ Len(frames') = k + 1 /\ frames'[k + 1] = f /\ frames'[k] = done
      /\ \A i \in 1..(k - 1) : frames'[i] = frames[i]
  <2> DEFINE front == Front(frames)
             e == front \o <<done>>
  <2>1. front \in Seq(Frame) /\ Len(front) = k - 1 /\ \A i \in 1..(k - 1) : front[i] = frames[i]
    BY <1>6
  <2>2. frames' = Append(e, f)
    BY <1>2
  <2> HIDE DEF front
  <2>3. e \in Seq(Frame) /\ Len(e) = k /\ e[k] = done /\ \A i \in 1..(k - 1) : e[i] = front[i]
    BY <1>4, <1>5, <2>1
  <2> HIDE DEF e
  <2> QED
    BY <1>3, <1>4, <2>1, <2>2, <2>3
<1>9. /\ K \in [Link -> Seq(Id)] /\ C \in [Link -> Seq(Page)]
      /\ K[parent] = n.keys /\ C[parent] = n.kids /\ K[NoPage] = <<key>> /\ C[NoPage] = <<sibling>>
  <2>1. Len(frames) = k /\ n = node[parent + 1] /\ key = Top.key /\ sibling = Top.sibling
    BY DEF k, n, key, sibling
  <2> QED
    BY <1>1, <1>2, <1>3, <1>4, <2>1 DEF Contents, InHand
<1>10. NoPage \in Link /\ NoPage \notin Page /\ Page \subseteq Link
  BY NoPageIsNone
<1> DEFINE L == [K EXCEPT ![NoPage] = <<>>, ![parent] = InsertAt(K[parent], a, key)]
           D == [C EXCEPT ![NoPage] = <<>>, ![parent] = InsertAt(C[parent], a + 1, sibling)]
<1>11. L \in [Link -> Seq(Id)] /\ OnceIn(L, 1..Len(rows))
  <2>1. a \in 1..(Len(K[parent]) + 1)
    BY <1>9
  <2> QED
    BY ONLY <1>1, <1>3, <1>9, <2>1, OncePut
<1>12. D \in [Link -> Seq(Page)] /\ OnceIn(D, Pages(node) \ {Root})
  <2> DEFINE b == a + 1
  <2>1. b \in 1..(Len(C[parent]) + 1)
    BY <1>3, <1>9
  <2>2. D = [C EXCEPT ![NoPage] = <<>>, ![parent] = InsertAt(C[parent], b, sibling)]
    OBVIOUS
  <2> HIDE DEF b, D
  <2> QED
    BY ONLY <1>1, <1>3, <1>9, <2>1, <2>2, OncePut
<1>13. /\ L[parent] = m.keys /\ D[parent] = m.kids /\ L[NoPage] = <<>> /\ D[NoPage] = <<>>
       /\ \A p \in Page \ {parent} : L[p] = K[p] /\ D[p] = C[p]
  <2>1. parent \in Link /\ parent # NoPage
    BY <1>3, <1>10
  <2> QED
    BY <1>7, <1>9, <1>10, <2>1
<1> HIDE DEF L, D
<1>14. \A i \in 1..k : frames'[i].page = frames[i].page /\ frames'[i].node = frames[i].node
  <2> TAKE i \in 1..k
  <2>1. CASE i = k
    BY <1>4, <1>5, <1>8, <2>1
  <2>2. CASE i # k
    BY <1>4, <1>8, <2>2
  <2> QED
    BY <2>1, <2>2
<1>15. ASSUME NEW i \in 1..(k + 1)
       PROVE  L[frames'[i].page] = frames'[i].node.keys /\ D[frames'[i].page] = frames'[i].node.kids
  <2>1. CASE i = k + 1
    BY <1>3, <1>8, <1>13, <2>1
  <2>2. CASE i # k + 1
    <3>1. i \in 1..k
      BY <1>4, <2>2
    <3>2. K[frames[i].page] = frames[i].node.keys /\ C[frames[i].page] = frames[i].node.kids
      BY <1>1, <3>1 DEF Contents, k
    <3>3. frames[i].page \in Page \ {parent}
      <4>1. frames[i] \in Frame
        BY <1>2, <3>1 DEF Shapes, k
      <4> QED
        BY <1>3, <3>1, <4>1 DEF Frame
    <3> QED
      BY <1>13, <1>14, <3>1, <3>2, <3>3
  <2> QED
    BY <2>1, <2>2
<1>16. ASSUME NEW p \in Pages(node), \A i \in 1..(k + 1) : frames'[i].page # p
       PROVE  L[p] = node[p + 1].keys /\ D[p] = node[p + 1].kids
  <2>1. p # parent /\ \A i \in 1..k : frames[i].page # p
    <3>1. k + 1 \in 1..(k + 1) /\ \A i \in 1..k : i \in 1..(k + 1)
      BY <1>4
    <3> QED
      BY <1>3, <1>8, <1>14, <1>16, <3>1
  <2>2. K[p] = node[p + 1].keys /\ C[p] = node[p + 1].kids
    BY <1>1, <2>1 DEF Contents, k
  <2> QED
    BY <1>4, <1>13, <2>1, <2>2
<1>17. \A p \in Page \ Pages(node) : L[p] = <<>> /\ D[p] = <<>>
  BY <1>1, <1>3, <1>13 DEF Contents
<1>18. InHand(frames', L[NoPage], D[NoPage])
  BY <1>3, <1>8, <1>13 DEF InHand
<1>19. Contents(node', frames', L, D)
  BY <1>2, <1>8, <1>11, <1>12, <1>15, <1>16, <1>17, <1>18 DEF Contents
<1> QED
  BY <1>2, <1>11, <1>12, <1>19 DEF OnceInv

LEMMA ReturnOnce == ASSUME LevelInv, OnceInv, Return PROVE OnceInv'
<1> DEFINE n == Top.node
           page == Top.page
           k == Len(frames)
<1>1. PICK K, C : /\ Contents(node, frames, K, C)
                  /\ OnceIn(K, 1..Len(rows)) /\ OnceIn(C, Pages(node) \ {Root})
  BY DEF OnceInv
<1>2. /\ frames # <<>> /\ Top.pc = "write" /\ rows' = rows /\ Shapes
      /\ node' = [node EXCEPT ![page + 1] = n] /\ frames' = Front(frames)
  BY DEF Return, At, LevelInv, WriteNode
<1>3. /\ Top = frames[k] /\ k \in Nat \ {0} /\ page \in Pages(node) /\ n \in Node
      /\ \A i \in 1..(k - 1) : frames[i].page # page /\ frames[i].pc = "write"
  BY <1>2, CallPages
<1>4. Replaced(node, node', page, n)
  BY <1>2, <1>3, ReplacePage DEF Shapes
<1>5. Len(frames') = k - 1 /\ \A i \in 1..(k - 1) : frames'[i] = frames[i]
  BY <1>2, FrontOfCalls
<1>6. k = Len(frames)
  OBVIOUS
<1> HIDE DEF n, page, k
<1>7. /\ Pages(node') = Pages(node)
      /\ \A p \in Pages(node) : node'[p + 1] = IF p = page THEN n ELSE node[p + 1]
  BY <1>4 DEF Replaced
<1>8. K[page] = n.keys /\ C[page] = n.kids /\ K[NoPage] = <<>> /\ C[NoPage] = <<>>
  <2>1. k \in 1..k /\ page = Top.page /\ n = Top.node
    BY <1>3 DEF page, n
  <2> QED
    BY <1>1, <1>2, <1>3, <1>6, <2>1 DEF Contents, InHand
<1>9. \A i \in 1..(k - 1) : i \in 1..k
  BY <1>3
<1>10. InHand(frames', K[NoPage], C[NoPage])
  <2>1. frames' # <<>> => k - 1 \in 1..(k - 1)
    <3>1. CASE k = 1
      BY <1>2, <1>5, <3>1, FrontOfCalls
    <3>2. CASE k # 1
      BY <1>3, <3>2
    <3> QED
      BY <3>1, <3>2
  <2> QED
    BY <1>3, <1>5, <1>8, <2>1 DEF InHand
<1>11. ASSUME NEW p \in Pages(node), \A i \in 1..(k - 1) : frames'[i].page # p
       PROVE  K[p] = node'[p + 1].keys /\ C[p] = node'[p + 1].kids
  <2>1. CASE p = page
    BY <1>7, <1>8, <2>1
  <2>2. CASE p # page
    <3>1. \A i \in 1..k : frames[i].page # p
      <4> TAKE i \in 1..k
      <4>1. CASE i = k
        BY <1>3, <2>2, <4>1 DEF page
      <4>2. CASE i # k
        <5>1. i \in 1..(k - 1)
          BY <1>3, <4>2
        <5> QED
          BY <1>5, <1>11, <5>1
      <4> QED
        BY <4>1, <4>2
    <3>2. K[p] = node[p + 1].keys /\ C[p] = node[p + 1].kids
      BY <1>1, <1>6, <3>1 DEF Contents
    <3> QED
      BY <1>7, <2>2, <3>2
  <2> QED
    BY <2>1, <2>2
<1>12. \A i \in 1..(k - 1) : K[frames'[i].page] = frames'[i].node.keys /\ C[frames'[i].page] = frames'[i].node.kids
  BY <1>1, <1>5, <1>6, <1>9 DEF Contents
<1>13. Contents(node', frames', K, C)
  BY <1>1, <1>5, <1>7, <1>10, <1>11, <1>12 DEF Contents
<1> QED
  BY <1>1, <1>2, <1>7, <1>13 DEF OnceInv

LEMMA InsertOnce == ASSUME LevelInv, OnceInv, insert_bt PROVE OnceInv'
<1> DEFINE s == Len(rows) + 1
<1>1. PICK value \in Value : /\ rows' = Append(rows, value)
                             /\ frames' = <<Call(find_bt_leaf(value),
                                                 WithKey(At0(find_bt_leaf(value)), s, value))>>
  BY Zenon DEF insert_bt
<1> DEFINE page == find_bt_leaf(value)
           n == At0(page)
           m == WithKey(n, s, value)
           f == Call(page, m)
<1>2. Shapes /\ frames = <<>> /\ Len(rows) < MaxRows /\ node' = node /\ frames' = <<f>>
  BY <1>1 DEF LevelInv, insert_bt
<1>3. PICK h : Leveled(node, Len(rows), frames, h)
  BY DEF LevelInv
<1>4. /\ IsHeight(h) /\ PagesIn(node, Len(rows), h) /\ Len(rows) \in Nat /\ s \in Id
      /\ 1..s = (1..Len(rows)) \union {s} /\ s \notin 1..Len(rows)
  BY <1>2, <1>3, IndexTreeAssumption DEF Leveled, Shapes, Id
<1>5. page \in Used
  BY <1>2, <1>4, LeafIsFound
<1>6. /\ page \in Pages(node) /\ page \in Page /\ n \in Node /\ n = node[page + 1]
      /\ Pages(node) \subseteq Page
  BY <1>2, <1>5, UsedPages
<1>7. PICK K, C : /\ Contents(node, frames, K, C)
                  /\ OnceIn(K, 1..Len(rows)) /\ OnceIn(C, Pages(node) \ {Root})
  BY DEF OnceInv
<1>8. Len(rows') = s
  BY <1>1, <1>2 DEF Shapes
<1> HIDE DEF page, n
<1>9. Grown(m, n) /\ m.kids = n.kids /\ \E a \in 1..(Len(n.keys) + 1) : m.keys = InsertAt(n.keys, a, s)
  BY <1>4, <1>6, WithKeyNode
<1> HIDE DEF s, m
<1>10. PICK a \in 1..(Len(n.keys) + 1) : m.keys = InsertAt(n.keys, a, s)
  BY <1>9
<1>11. /\ K \in [Link -> Seq(Id)] /\ C \in [Link -> Seq(Page)]
       /\ K[NoPage] = <<>> /\ C[NoPage] = <<>>
       /\ \A p \in Pages(node) : K[p] = node[p + 1].keys /\ C[p] = node[p + 1].kids
       /\ \A p \in Page \ Pages(node) : K[p] = <<>> /\ C[p] = <<>>
  <2>1. Len(frames) = 0 /\ \A i \in 1..0 : FALSE
    BY <1>2
  <2> QED
    BY <1>2, <1>7, <2>1 DEF Contents, InHand
<1>12. NoPage \in Link /\ NoPage \notin Page /\ Page \subseteq Link
  BY NoPageIsNone
<1> DEFINE B == [K EXCEPT ![NoPage] = <<s>>]
           L == [B EXCEPT ![NoPage] = <<>>, ![page] = InsertAt(B[page], a, s)]
<1>13. B \in [Link -> Seq(Id)] /\ OnceIn(B, 1..s)
  <2>1. B \in [Link -> Seq(Id)] /\ OnceIn(B, (1..Len(rows)) \union {s})
    BY ONLY <1>4, <1>7, <1>11, <1>12, OnceAdd
  <2> QED
    BY <1>4, <2>1
<1>14. B[NoPage] = <<s>> /\ \A p \in Page : B[p] = K[p]
  BY <1>11, <1>12
<1> HIDE DEF B
<1>15. L \in [Link -> Seq(Id)] /\ OnceIn(L, 1..s)
  <2>1. a \in 1..(Len(B[page]) + 1)
    BY <1>6, <1>11, <1>14
  <2> QED
    BY ONLY <1>4, <1>6, <1>13, <1>14, <2>1, OncePut
<1>16. L[page] = m.keys /\ L[NoPage] = <<>> /\ \A p \in Page \ {page} : L[p] = K[p]
  <2>1. page \in Link /\ page # NoPage /\ B[page] = n.keys
    BY <1>6, <1>11, <1>12, <1>14
  <2> QED
    BY <1>10, <1>12, <1>13, <1>14, <2>1
<1> HIDE DEF L
<1>17. f.page = page /\ f.node = m /\ f.pc \in {"split", "write"}
  BY DEF Call
<1> HIDE DEF f
<1>18. Len(frames') = 1 /\ frames'[1] = f /\ \A i \in 1..1 : i = 1
  BY <1>2
<1>19. Contents(node', frames', L, C)
  <2>1. InHand(frames', L[NoPage], C[NoPage])
    BY <1>11, <1>16, <1>17, <1>18 DEF InHand
  <2>2. C[page] = m.kids
    BY <1>6, <1>9, <1>11
  <2>3. \A p \in Pages(node) : f.page # p => L[p] = node[p + 1].keys /\ C[p] = node[p + 1].kids
    BY <1>6, <1>11, <1>16, <1>17
  <2> QED
    BY <1>2, <1>6, <1>11, <1>15, <1>16, <1>17, <1>18, <2>1, <2>2, <2>3 DEF Contents
<1> QED
  BY <1>2, <1>7, <1>8, <1>15, <1>19 DEF OnceInv

LEMMA InitOnce == Init => OnceInv
<1> SUFFICES ASSUME Init PROVE OnceInv
  OBVIOUS
<1> DEFINE K == [p \in Link |-> <<>>]
<1>1. rows = <<>> /\ node = <<Leaf(NoPage, <<>>)>> /\ frames = <<>>
  BY DEF Init
<1>2. Len(rows) = 0 /\ Len(frames) = 0 /\ Pages(node) = {0} /\ node[0 + 1] = Leaf(NoPage, <<>>)
  BY <1>1 DEF Pages
<1>3. node[0 + 1].keys = <<>> /\ node[0 + 1].kids = <<>> /\ \A i \in 1..0 : FALSE
  BY <1>2 DEF Leaf
<1>4. K \in [Link -> Seq(Id)] /\ K \in [Link -> Seq(Page)] /\ \A p \in Link : K[p] = <<>> /\ Len(K[p]) = 0
  OBVIOUS
<1> HIDE DEF K
<1>5. OnceIn(K, {})
  BY <1>3, <1>4 DEF OnceIn
<1>6. 1..Len(rows) = {} /\ Pages(node) \ {Root} = {}
  BY <1>2 DEF Root
<1>7. Contents(node, frames, K, K)
  <2>1. InHand(frames, K[NoPage], K[NoPage])
    BY <1>1, <1>4, NoPageIsNone DEF InHand
  <2>2. 0 \in Page
    BY IndexTreeAssumption DEF Page
  <2> QED
    BY <1>1, <1>2, <1>3, <1>4, <2>1, <2>2, NoPageIsNone DEF Contents
<1> QED
  BY <1>5, <1>6, <1>7 DEF OnceInv

LEMMA NextOnce == ASSUME LevelInv, OnceInv, [Next]_vars PROVE OnceInv'
<1>1. CASE insert_bt
  BY <1>1, InsertOnce
<1>2. CASE split_bt_node
  BY <1>2, SplitOnce
<1>3. CASE create_root_bt
  BY <1>3, CreateRootOnce
<1>4. CASE insert_internal_bt
  BY <1>4, InsertInternalOnce
<1>5. CASE Return
  BY <1>5, ReturnOnce
<1>6. CASE UNCHANGED vars
  BY <1>6 DEF vars, OnceInv
<1> QED
  BY <1>1, <1>2, <1>3, <1>4, <1>5, <1>6 DEF Next

LEMMA AlwaysOnce == Spec => [](LevelInv /\ OnceInv)
<1>1. Init => LevelInv /\ OnceInv
  BY InitLevels, InitOnce
<1>2. LevelInv /\ OnceInv /\ [Next]_vars => (LevelInv /\ OnceInv)'
  BY NextLevels, NextOnce
<1> QED
  BY <1>1, <1>2, PTL DEF Spec

-----------------------------------------------------------------------------
\* What the invariants say between two inserts

\* A value that a list of lists has once is in one cell of it.
CellsIn(P, b, L, x) == {c \in P \X (1..b) : IsAt(x, L[c[1]], c[2])}
LEMMA OneCell ==
  ASSUME NEW P, P \subseteq Link, NEW b, NEW L, NEW U, OnceIn(L, U),
         \A p \in Link \ P : Len(L[p]) = 0, \A p \in P : Len(L[p]) \in 0..b, b \in Nat, NEW x
  PROVE  Cardinality(CellsIn(P, b, L, x)) = IF x \in U THEN 1 ELSE 0
<1> DEFINE Cells == CellsIn(P, b, L, x)
<1>1. ASSUME NEW c \in Cells
      PROVE  /\ c[1] \in P /\ c[1] \in Link /\ c[2] \in 1..Len(L[c[1]]) /\ L[c[1]][c[2]] = x
             /\ c = <<c[1], c[2]>> /\ x \in U
  <2>1. c[1] \in P /\ c[2] \in 1..b /\ c = <<c[1], c[2]>> /\ c[2] <= Len(L[c[1]]) /\ L[c[1]][c[2]] = x
    BY DEF CellsIn, IsAt
  <2>2. c[2] \in 1..Len(L[c[1]]) /\ c[1] \in Link
    BY <2>1
  <2> QED
    BY <2>1, <2>2 DEF OnceIn
<1>2. CASE x \in U
  <2>1. PICK p \in Link : \E i \in 1..Len(L[p]) : L[p][i] = x
    BY <1>2 DEF OnceIn
  <2>2. PICK i \in 1..Len(L[p]) : L[p][i] = x
    BY <2>1
  <2>3. p \in P /\ i \in 1..b /\ i <= Len(L[p])
    BY <2>2
  <2>4. <<p, i>> \in Cells
    BY <2>2, <2>3 DEF CellsIn, IsAt
  <2>5. ASSUME NEW c \in Cells PROVE c = <<p, i>>
    <3>1. c[1] = p /\ c[2] = i
      BY <1>1, <2>2 DEF OnceIn
    <3> QED
      BY <1>1, <3>1
  <2> HIDE DEF Cells
  <2>6. Cells = {<<p, i>>}
    BY <2>4, <2>5
  <2> QED
    BY <1>2, <2>6, FS_Singleton DEF Cells
<1>3. CASE x \notin U
  <2>1. Cells = {}
    BY <1>1, <1>3
  <2> QED
    BY <1>3, <2>1, FS_EmptySet
<1> QED
  BY <1>2, <1>3

\* Every page is below the root, since the highest that was not would be the child of
\* a higher one.
LEMMA AllReached ==
  ASSUME NEW P, P \subseteq Page, NEW L, OnceIn(L, P \ {Root}), \A p \in Link \ P : Len(L[p]) = 0,
         NEW h, IsHeight(h), \A p \in P : \A i \in 1..Len(L[p]) : h[L[p][i]] < h[p],
         NEW S \in SUBSET P, Root \in S, \A p \in S : \A i \in 1..Len(L[p]) : L[p][i] \in S
  PROVE  S = P
<1> SUFFICES ASSUME P \ S # {} PROVE FALSE
  OBVIOUS
<1>1. PICK m \in Nat : \A p \in Page : h[p] <= m
  BY DEF IsHeight
<1>2. \A p \in P : h[p] \in Nat /\ h[p] <= m
  BY <1>1 DEF IsHeight
<1> DEFINE T == {m - h[p] : p \in P \ S}
<1>3. T \in SUBSET Nat /\ T # {}
  BY <1>2
<1>4. PICK t \in T : \A u \in T : t <= u
  <2> HIDE DEF T
  <2> QED
    BY <1>3, LeastNumber
<1>5. PICK p \in P \ S : t = m - h[p]
  OBVIOUS
<1>6. p \in P \ {Root}
  BY <1>5
<1>7. PICK q \in Link : \E i \in 1..Len(L[q]) : L[q][i] = p
  BY <1>6 DEF OnceIn
<1>8. PICK i \in 1..Len(L[q]) : L[q][i] = p
  BY <1>7
<1>9. q \in P
  <2>1. CASE q \in Link \ P
    <3>1. Len(L[q]) = 0
      BY <2>1
    <3> QED
      BY <1>8, <3>1
  <2> QED
    BY <2>1
<1>10. h[p] < h[q] /\ q \notin S
  BY <1>5, <1>8, <1>9
<1>11. m - h[q] \in T
  BY <1>9, <1>10
<1>12. m - h[p] <= m - h[q]
  BY <1>4, <1>5, <1>11
<1> QED
  BY <1>2, <1>5, <1>9, <1>10, <1>12

\* The id of every row is in the index once and every page hangs on the tree once,
\* whatever values repeat and wherever a split sends the entry and the page it cuts
\* off.
THEOREM EntriesAreConserved == Spec => []EntriesConserved
<1>1. ASSUME LevelInv, OnceInv PROVE EntriesConserved
  <2> SUFFICES ASSUME frames = <<>>
               PROVE  /\ \A id \in DOMAIN rows : Cardinality(EntryCells(id)) = 1
                      /\ \A page \in Used : Cardinality(LinkCells(page)) = IF page = Root THEN 0 ELSE 1
                      /\ \A S \in SUBSET Used : /\ Root \in S
                                                /\ \A p \in S : ToSet(At0(p).kids) \subseteq S
                                                => S = Used
    BY DEF EntriesConserved, Idle
  <2> DEFINE r == Len(rows)
  <2>1. Shapes
    BY <1>1 DEF LevelInv
  <2>2. PICK h : IsHeight(h) /\ PagesIn(node, r, h)
    BY <1>1 DEF LevelInv, Leveled
  <2>3. PICK K, C : /\ Contents(node, frames, K, C) /\ OnceIn(K, 1..r) /\ OnceIn(C, Pages(node) \ {Root})
    BY <1>1 DEF OnceInv
  <2>4. /\ Used = Pages(node) /\ Used \subseteq Page /\ Used \subseteq Link
        /\ \A p \in Used : At0(p) = node[p + 1] /\ At0(p) \in Node
    BY <2>1, UsedPages, NoPageIsNone
  <2>5. DOMAIN rows = 1..r
    BY <2>1 DEF Shapes
  <2> HIDE DEF r
  <2>6. /\ \A p \in Used : K[p] = At0(p).keys /\ C[p] = At0(p).kids
        /\ \A p \in Link \ Used : K[p] = <<>> /\ C[p] = <<>>
    <3>1. Len(frames) = 0 /\ \A i \in 1..0 : FALSE
      OBVIOUS
    <3>2. K[NoPage] = <<>> /\ C[NoPage] = <<>>
      BY <2>3 DEF Contents, InHand
    <3>3. \A p \in Used : K[p] = node[p + 1].keys /\ C[p] = node[p + 1].kids
      BY <2>3, <2>4, <3>1 DEF Contents
    <3>4. \A p \in Page \ Used : K[p] = <<>> /\ C[p] = <<>>
      BY <2>3, <2>4 DEF Contents
    <3> QED
      BY <3>2, <3>3, <3>4 DEF At0, Link
  <2>7. ORDER \in Nat /\ \A p \in Used : Len(At0(p).keys) \in 0..ORDER /\ Len(At0(p).kids) \in 0..ORDER
    <3> SUFFICES ASSUME NEW p \in Used PROVE Len(At0(p).keys) \in 0..ORDER /\ Len(At0(p).kids) \in 0..ORDER
      BY IndexTreeAssumption
    <3>1. Len(At0(p).keys) <= ORDER - 1 /\ NodeIn(Pages(node), Interiors(node), r, At0(p), h[p], h)
      BY <2>2, <2>4 DEF PagesIn
    <3>2. Len(At0(p).keys) \in Nat /\ Len(At0(p).kids) \in Nat /\ (At0(p).kids = <<>> => Len(At0(p).kids) = 0)
      BY <2>4 DEF Node
    <3>3. Len(At0(p).kids) = 0 \/ Len(At0(p).kids) = Len(At0(p).keys) + 1
      BY <3>1, <3>2 DEF NodeIn
    <3> QED
      BY <3>1, <3>2, <3>3, IndexTreeAssumption
  <2>8. \A p \in Link \ Used : Len(K[p]) = 0 /\ Len(C[p]) = 0
    BY <2>6
  <2>9. ASSUME NEW id \in DOMAIN rows PROVE Cardinality(EntryCells(id)) = 1
    <3>1. EntryCells(id) = CellsIn(Used, ORDER, K, id)
      BY <2>6 DEF EntryCells, CellsIn
    <3>2. /\ Used \subseteq Link /\ ORDER \in Nat /\ \A p \in Used : Len(K[p]) \in 0..ORDER
          /\ \A p \in Link \ Used : Len(K[p]) = 0
      BY <2>4, <2>6, <2>7, <2>8
    <3> DEFINE ids == 1..r
    <3>3. OnceIn(K, ids) /\ id \in ids
      BY <2>3, <2>5
    <3> HIDE DEF ids
    <3>4. Cardinality(CellsIn(Used, ORDER, K, id)) = IF id \in ids THEN 1 ELSE 0
      BY ONLY <3>2, <3>3, OneCell
    <3> QED
      BY <3>1, <3>3, <3>4
  <2>10. ASSUME NEW page \in Used PROVE Cardinality(LinkCells(page)) = IF page = Root THEN 0 ELSE 1
    <3>1. LinkCells(page) = CellsIn(Used, ORDER, C, page)
      BY <2>6 DEF LinkCells, CellsIn
    <3>2. /\ Used \subseteq Link /\ ORDER \in Nat /\ \A p \in Used : Len(C[p]) \in 0..ORDER
          /\ \A p \in Link \ Used : Len(C[p]) = 0
      BY <2>4, <2>6, <2>7, <2>8
    <3>3. Cardinality(CellsIn(Used, ORDER, C, page)) = IF page \in Pages(node) \ {Root} THEN 1 ELSE 0
      BY ONLY <2>3, <3>2, OneCell
    <3> QED
      BY <2>4, <3>1, <3>3
  <2>11. ASSUME NEW S \in SUBSET Used, Root \in S, \A p \in S : ToSet(At0(p).kids) \subseteq S PROVE S = Used
    <3>1. \A p \in Used : \A i \in 1..Len(C[p]) : h[C[p][i]] < h[p]
      <4> TAKE p \in Used
      <4>1. NodeIn(Pages(node), Interiors(node), r, At0(p), h[p], h)
        BY <2>2, <2>4 DEF PagesIn
      <4> QED
        BY <2>6, <4>1 DEF NodeIn
    <3>2. \A p \in S : \A i \in 1..Len(C[p]) : C[p][i] \in S
      BY <2>6, <2>11 DEF ToSet
    <3>3. OnceIn(C, Used \ {Root}) /\ \A p \in Link \ Used : Len(C[p]) = 0
      BY <2>3, <2>4, <2>8
    <3> QED
      BY ONLY <2>2, <2>4, <2>11, <3>1, <3>2, <3>3, AllReached
  <2> QED
    BY <2>9, <2>10, <2>11
<1> QED
  BY <1>1, AlwaysOnce, PTL

-----------------------------------------------------------------------------
\* While no interior node has been split, the tree is flat: leaves under a root.

\* Among values that ascend there is one such cell.
ValuesIn(rs, n) == n \in Node /\ \A i \in 1..Len(n.keys) : n.keys[i] \in 1..Len(rs) /\ rs[n.keys[i]] \in Int
LEMMA OffsetIs ==
  ASSUME NEW n, ValuesIn(rows, n), NEW value \in Int, NEW c \in 0..Len(n.keys),
         \A i \in 1..c : rows[n.keys[i]] < value, c < Len(n.keys) => value <= rows[n.keys[c + 1]]
  PROVE  find_offset(n, value) = c
<1> DEFINE d == find_offset(n, value)
           k == Len(n.keys)
           Value_(i) == rows[n.keys[i]]
<1>1. d \in 0..k /\ (\A i \in 1..d : ~(value <= Value_(i))) /\ (d < k => value <= Value_(d + 1))
  BY OffsetCell DEF ValuesIn
<1>2. k \in Nat /\ \A i \in 1..k : Value_(i) \in Int
  BY DEF ValuesIn, Node
<1>3. c \in 0..k /\ (\A i \in 1..c : Value_(i) < value) /\ (c < k => value <= Value_(c + 1))
  OBVIOUS
<1> HIDE DEF d, k, Value_
<1>4. CASE d < c
  <2>1. d + 1 \in 1..c /\ d + 1 \in 1..k /\ d < k
    BY <1>1, <1>2, <1>3, <1>4
  <2> QED
    BY <1>1, <1>2, <1>3, <2>1
<1>5. CASE c < d
  <2>1. c + 1 \in 1..d /\ c < k
    BY <1>1, <1>2, <1>3, <1>5
  <2> QED
    BY <1>1, <1>2, <1>3, <2>1
<1> QED
  BY <1>1, <1>2, <1>3, <1>4, <1>5 DEF d

\* R and D: the keys and kids the root has once the insert in progress has linked
\* the leaf it split off; a root that is a leaf is its own only leaf.
Settled(fs) == fs = <<>> \/ (Len(fs) = 1 /\ fs[1].pc \in {"split", "write"})
Linked(nd, fs, R, D) ==
  LET root == nd[Root + 1] IN
  \/ /\ Settled(fs)
     /\ IF root.leaf THEN R = <<>> /\ D = <<Root>> ELSE R = root.keys /\ D = root.kids
  \/ /\ Len(fs) = 1 /\ fs[1].pc = "root" /\ root.leaf
     /\ fs[1].page = Root /\ R = <<fs[1].key>> /\ D = <<Root, fs[1].sibling>>
  \/ /\ Len(fs) = 1 /\ fs[1].pc = "up" /\ ~root.leaf
     /\ \E c \in 1..(Len(root.keys) + 1) : /\ R = InsertAt(root.keys, c, fs[1].key)
                                          /\ D = InsertAt(root.kids, c + 1, fs[1].sibling)
  \/ /\ Len(fs) = 2 /\ fs[2].pc \in {"split", "write"} /\ ~root.leaf /\ fs[2].page = Root
     /\ fs[2].node.parent = NoPage /\ R = fs[2].node.keys /\ D = fs[2].node.kids

\* Every page but the root's is one of the leaves D, and the leaves know their parent.
Parent(nd) == IF nd[Root + 1].leaf THEN NoPage ELSE Root
Below(nd, fs, D) ==
  /\ \A i, j \in 1..Len(D) : D[i] = D[j] => i = j
  /\ \A p \in Pages(nd) : p = Root \/ \E i \in 1..Len(D) : D[i] = p
  /\ \A i \in 1..Len(D) : D[i] \in Pages(nd) /\ nd[D[i] + 1].leaf /\ nd[D[i] + 1].parent = Parent(nd)
  /\ nd[Root + 1].parent = NoPage
  /\ fs # <<>> => /\ fs[1].node.leaf /\ fs[1].node.parent = Parent(nd)
                  /\ \E i \in 1..Len(D) : D[i] = fs[1].page

\* The ids in a leaf, those in memory where an insert is
Ids(nd, fs) == [p \in Page |-> IF fs # <<>> /\ fs[1].page = p THEN fs[1].node.keys ELSE nd[p + 1].keys]

\* The values rs of the rows ascend, in each leaf and from one to the next.
Rising(rs, s) == \A i, j \in 1..Len(s) : i < j => rs[s[i]] < rs[s[j]]
Ordered(rs, R, D, K) ==
  /\ Rising(rs, R)
  /\ \A i \in 1..Len(D) : Rising(rs, K[D[i]])
  /\ \A i \in 1..Len(R) : /\ \A j \in 1..Len(K[D[i]]) : rs[K[D[i]][j]] < rs[R[i]]
                          /\ \A j \in 1..Len(K[D[i + 1]]) : rs[R[i]] < rs[K[D[i + 1]][j]]
  /\ Len(D) > 1 => \A i \in 1..Len(D) : Len(K[D[i]]) > 0

Flat(rs, nd, fs, R, D) == /\ R \in Seq(1..Len(rs)) /\ D \in Seq(Page) /\ Len(D) = Len(R) + 1
                          /\ Linked(nd, fs, R, D) /\ Below(nd, fs, D)
                          /\ Ordered(rs, R, D, Ids(nd, fs))
FlatInv == deep \/ ~IsInjective(rows) \/ \E R, D : Flat(rows, node, frames, R, D)

\* Between two inserts
FlatTree(R, D, K) ==
  /\ Root \in Used /\ At0(Root).parent = NoPage
  /\ IF At0(Root).leaf THEN Len(R) = 0 /\ D[1] = Root ELSE R = At0(Root).keys /\ D = At0(Root).kids
  /\ Len(R) \in Nat /\ Len(D) = Len(R) + 1 /\ Len(D) <= ORDER
  /\ \A i \in 1..Len(D) : /\ D[i] \in Used /\ At0(D[i]).leaf /\ K[D[i]] = At0(D[i]).keys
                          /\ At0(D[i]).parent = IF At0(Root).leaf THEN NoPage ELSE Root
  /\ \A p \in Used : p = Root \/ \E i \in 1..Len(D) : D[i] = p
  /\ \A p \in Used : ValuesIn(rows, At0(p)) /\ Len(At0(p).keys) \in 0..(ORDER - 1)
  /\ Ordered(rows, R, D, K)

LEMMA FlatIsTree ==
  ASSUME LevelInv, frames = <<>>, NEW R, NEW D, Flat(rows, node, frames, R, D)
  PROVE  FlatTree(R, D, Ids(node, frames))
<1> DEFINE K == Ids(node, frames)
<1>1. /\ Used = Pages(node) /\ Used \subseteq Page /\ Root \in Used
      /\ \A p \in Used : At0(p) = node[p + 1] /\ At0(p) \in Node
  BY UsedPages DEF LevelInv
<1>2. PICK h : PagesIn(node, Len(rows), h)
  BY DEF LevelInv, Leveled
<1>3. \A p \in Used : K[p] = At0(p).keys
  BY <1>1 DEF Ids
<1>4. Settled(frames) /\ ~(Len(frames) = 1) /\ ~(Len(frames) = 2)
  BY DEF Settled
<1>5. IF At0(Root).leaf THEN R = <<>> /\ D = <<Root>> ELSE R = At0(Root).keys /\ D = At0(Root).kids
  BY <1>1, <1>4 DEF Flat, Linked
<1>6. ASSUME NEW p \in Used
      PROVE  /\ ValuesIn(rows, At0(p)) /\ Len(At0(p).keys) \in 0..(ORDER - 1)
             /\ ~At0(p).leaf => Len(At0(p).kids) <= ORDER
  <2>1. /\ NodeIn(Pages(node), Interiors(node), Len(rows), At0(p), h[p], h)
        /\ Len(At0(p).keys) <= ORDER - 1 /\ At0(p) \in Node
    BY <1>1, <1>2 DEF PagesIn
  <2>2. Len(At0(p).keys) \in Nat /\ ORDER \in Nat /\ \A i \in 1..Len(At0(p).keys) : At0(p).keys[i] \in 1..Len(rows)
    BY <2>1, IndexTreeAssumption DEF NodeIn, Node
  <2>3. \A i \in 1..Len(rows) : rows[i] \in Int
    <3>1. rows \in Seq(Value) /\ Value \subseteq Int
      BY IndexTreeAssumption DEF LevelInv, Shapes
    <3> TAKE i \in 1..Len(rows)
    <3>2. rows[i] \in Value
      BY <3>1
    <3> QED
      BY <3>1, <3>2
  <2> QED
    BY <2>1, <2>2, <2>3 DEF ValuesIn, NodeIn
<1>7. /\ Len(R) \in Nat /\ Len(D) = Len(R) + 1 /\ Len(D) <= ORDER
      /\ At0(Root).leaf => Len(R) = 0 /\ D[1] = Root
  <2>1. Len(R) \in Nat /\ Len(D) = Len(R) + 1
    BY DEF Flat
  <2>2. ORDER \in Nat /\ ORDER >= 3
    BY IndexTreeAssumption
  <2> QED
    BY <1>1, <1>5, <1>6, <2>1, <2>2
<1>8. /\ \A i \in 1..Len(D) : /\ D[i] \in Used /\ At0(D[i]).leaf
                              /\ At0(D[i]).parent = IF At0(Root).leaf THEN NoPage ELSE Root
      /\ \A p \in Used : p = Root \/ \E i \in 1..Len(D) : D[i] = p
      /\ At0(Root).parent = NoPage /\ Ordered(rows, R, D, K)
  BY <1>1 DEF Flat, Below, Parent
<1> HIDE DEF K
<1>9. FlatTree(R, D, K)
  BY <1>1, <1>3, <1>5, <1>6, <1>7, <1>8 DEF FlatTree
<1> QED
  BY <1>9 DEF K

\* find_offset in a leaf that has the value, past a leaf of smaller ones, and in the root
LEMMA OffsetOfOwn ==
  ASSUME NEW R, NEW D, NEW K, FlatTree(R, D, K), NEW i \in 1..Len(D), NEW j \in 1..Len(At0(D[i]).keys)
  PROVE  find_offset(At0(D[i]), rows[At0(D[i]).keys[j]]) = j - 1
<1> DEFINE n == At0(D[i])
<1>1. ValuesIn(rows, n) /\ Len(n.keys) \in Nat /\ Rising(rows, n.keys)
  BY DEF FlatTree, Ordered
<1> HIDE DEF n
<1>2. rows[n.keys[j]] \in Int /\ j \in 1..Len(n.keys)
  BY <1>1 DEF ValuesIn, n
<1>3. j - 1 \in 0..Len(n.keys) /\ (j - 1) + 1 = j
  BY <1>1, <1>2
<1>4. \A x \in 1..(j - 1) : rows[n.keys[x]] < rows[n.keys[j]]
  BY <1>1, <1>2 DEF Rising
<1> DEFINE c == j - 1
<1>5. c \in 0..Len(n.keys) /\ (\A x \in 1..c : rows[n.keys[x]] < rows[n.keys[j]])
      /\ rows[n.keys[j]] <= rows[n.keys[c + 1]]
  BY <1>2, <1>3, <1>4
<1> HIDE DEF c
<1>6. find_offset(n, rows[n.keys[j]]) = c
  BY <1>1, <1>2, <1>5, OffsetIs
<1> QED
  BY <1>6 DEF c, n

LEMMA OffsetPast ==
  ASSUME NEW n, ValuesIn(rows, n), NEW value \in Int, \A j \in 1..Len(n.keys) : rows[n.keys[j]] < value
  PROVE  find_offset(n, value) = Len(n.keys)
<1>1. Len(n.keys) \in Nat
  BY DEF ValuesIn, Node
<1> DEFINE c == Len(n.keys)
<1>2. c \in 0..Len(n.keys) /\ ~(c < Len(n.keys)) /\ \A x \in 1..c : rows[n.keys[x]] < value
  BY <1>1
<1> HIDE DEF c
<1>3. find_offset(n, value) = c
  BY <1>2, OffsetIs
<1> QED
  BY <1>3 DEF c

LEMMA OffsetInRoot ==
  ASSUME NEW R, NEW D, NEW K, FlatTree(R, D, K), ~At0(Root).leaf, NEW i \in 1..Len(D), NEW value \in Int,
         i > 1 => rows[R[i - 1]] < value, i <= Len(R) => value <= rows[R[i]]
  PROVE  find_offset(At0(Root), value) = i - 1
<1> DEFINE n == At0(Root)
           c == i - 1
<1>1. /\ ValuesIn(rows, n) /\ R = n.keys /\ Rising(rows, R) /\ Len(R) \in Nat /\ Len(D) = Len(R) + 1
  BY DEF FlatTree, Ordered
<1> HIDE DEF n
<1>2. c \in 0..Len(R) /\ c + 1 = i /\ (c < Len(R) => i <= Len(R))
  BY <1>1
<1>3. \A x \in 1..c : rows[R[x]] < value
  <2> TAKE x \in 1..c
  <2>1. c \in 1..Len(R) /\ x \in 1..Len(R) /\ i > 1 /\ c = i - 1 /\ rows[R[x]] \in Int /\ rows[R[c]] \in Int
    BY <1>1, <1>2 DEF ValuesIn
  <2>2. x = c \/ rows[R[x]] < rows[R[c]]
    BY <1>1, <2>1 DEF Rising
  <2> QED
    BY <2>1, <2>2
<1> HIDE DEF c
<1>4. find_offset(n, value) = c
  BY <1>1, <1>2, <1>3, OffsetIs
<1> QED
  BY <1>4 DEF c, n

\* find_bt: the root's own entry of a value, or that of the leaf left of it
Own(p, value) ==
  LET n == At0(p)
      cell == find_offset(n, value) IN
  IF cell < Len(n.keys) /\ rows[n.keys[cell + 1]] = value THEN <<p, cell>> ELSE NoCursor
Finds(value, f) ==
  f = [p \in Used |->
         LET n == At0(p)
             cell == find_offset(n, value)
             below == IF n.leaf THEN NoCursor ELSE f[n.kids[cell + 1]] IN
         IF below # NoCursor THEN below
         ELSE IF cell < Len(n.keys) /\ rows[n.keys[cell + 1]] = value THEN <<p, cell>>
         ELSE NoCursor]

LEMMA FlatFind ==
  ASSUME NEW R, NEW D, NEW K, FlatTree(R, D, K), NEW value
  PROVE  LET leaf == At0(Root).kids[find_offset(At0(Root), value) + 1] IN
         find_bt(value) = IF At0(Root).leaf \/ Own(leaf, value) = NoCursor THEN Own(Root, value)
                          ELSE Own(leaf, value)
<1> DEFINE Kid(p) == At0(p).kids[find_offset(At0(p), value) + 1]
           Found(p) == IF At0(p).leaf \/ Own(Kid(p), value) = NoCursor THEN Own(p, value)
                       ELSE Own(Kid(p), value)
           w == [p \in Used |-> Found(p)]
           f == CHOOSE g : Finds(value, g)
<1>1. ASSUME NEW p \in Used, ~At0(p).leaf PROVE p = Root /\ Kid(p) \in Used /\ At0(Kid(p)).leaf
  <2>1. p = Root
    BY <1>1 DEF FlatTree
  <2>2. /\ At0(Root) \in Node /\ Len(D) = Len(R) + 1 /\ R = At0(Root).keys /\ D = At0(Root).kids
        /\ Len(R) \in Nat /\ \A i \in 1..Len(D) : D[i] \in Used /\ At0(D[i]).leaf
    BY <1>1, <2>1 DEF FlatTree, ValuesIn
  <2>3. find_offset(At0(Root), value) \in 0..Len(R)
    BY <2>2, OffsetRange
  <2>4. find_offset(At0(Root), value) + 1 \in 1..Len(D)
    BY <2>2, <2>3
  <2> QED
    BY <2>1, <2>2, <2>4
<1>2. \A p \in Used : ~At0(p).leaf => w[Kid(p)] = Own(Kid(p), value)
  BY <1>1
<1>3. \A p \in Used : w[p] = LET below == IF At0(p).leaf THEN NoCursor ELSE w[Kid(p)] IN
                             IF below # NoCursor THEN below ELSE Own(p, value)
  BY <1>2
<1>4. Finds(value, w)
  <2>1. w = [p \in Used |-> w[p]]
    OBVIOUS
  <2> HIDE DEF w
  <2> QED
    BY <1>3, <2>1, Zenon DEF Finds, Own
<1>5. Finds(value, f)
  BY <1>4
<1>6. find_bt(value) = f[Root]
  BY DEF find_bt, Finds
<1> HIDE DEF f
<1>7. \A p \in Used : f[p] = LET below == IF At0(p).leaf THEN NoCursor ELSE f[Kid(p)] IN
                             IF below # NoCursor THEN below ELSE Own(p, value)
  BY <1>5, Zenon DEF Finds, Own
<1>8. Root \in Used
  BY DEF FlatTree
<1>9. CASE At0(Root).leaf
  BY <1>6, <1>7, <1>8, <1>9
<1>10. CASE ~At0(Root).leaf
  <2>1. Kid(Root) \in Used /\ At0(Kid(Root)).leaf
    BY <1>1, <1>8, <1>10
  <2>2. f[Kid(Root)] = Own(Kid(Root), value)
    BY <1>7, <2>1
  <2> QED
    BY <1>6, <1>7, <1>8, <1>10, <2>2
<1> QED
  BY <1>9, <1>10

\* The entry of the only row with a value is found.
Valid(cursor) == \E p \in Used : \E c \in 0..(Len(At0(p).keys) - 1) : cursor = <<p, c>>
IsRow(id, p, j) == p \in Used /\ j \in 1..Len(At0(p).keys) /\ At0(p).keys[j] = id
LEMMA FlatFound ==
  ASSUME NEW R, NEW D, NEW K, FlatTree(R, D, K), NEW id, NEW p, NEW j, IsRow(id, p, j)
  PROVE  find_bt(rows[id]) = <<p, j - 1>>
<1> DEFINE value == rows[id]
           leaf == At0(Root).kids[find_offset(At0(Root), value) + 1]
<1>1. find_bt(value) = IF At0(Root).leaf \/ Own(leaf, value) = NoCursor THEN Own(Root, value) ELSE Own(leaf, value)
  BY FlatFind
<1>2. /\ p \in Used /\ ValuesIn(rows, At0(p)) /\ j \in 1..Len(At0(p).keys) /\ At0(p).keys[j] = id
      /\ value \in Int /\ Len(At0(p).keys) \in Nat
  BY DEF IsRow, FlatTree, ValuesIn
<1>3. j - 1 < Len(At0(p).keys) /\ (j - 1) + 1 = j
  BY <1>2
<1>4. find_offset(At0(p), value) = j - 1 => Own(p, value) = <<p, j - 1>>
  BY <1>2, <1>3 DEF Own
<1> HIDE DEF leaf
<1>5. /\ Len(R) \in Nat /\ Len(D) = Len(R) + 1 /\ Rising(rows, R)
      /\ p = Root \/ \E i \in 1..Len(D) : D[i] = p
      /\ At0(Root).leaf => Len(R) = 0 /\ D[1] = Root
      /\ ~At0(Root).leaf => R = At0(Root).keys /\ D = At0(Root).kids
  BY <1>2 DEF FlatTree, Ordered
<1>6. ASSUME NEW i \in 1..Len(D), p = D[i] PROVE Own(p, value) = <<p, j - 1>>
  BY <1>2, <1>4, <1>6, OffsetOfOwn
<1>7. CASE At0(Root).leaf
  BY <1>1, <1>5, <1>6, <1>7
<1>8. ASSUME ~At0(Root).leaf, NEW i \in 1..Len(D), p = D[i] PROVE find_bt(value) = <<p, j - 1>>
  <2>1. /\ i > 1 => i - 1 \in 1..Len(R) /\ (i - 1) + 1 = i
        /\ i <= Len(R) => i \in 1..Len(R)
    BY <1>5, <1>8
  <2>2. /\ K[D[i]] = At0(p).keys
        /\ i > 1 => rows[R[i - 1]] < value
        /\ i <= Len(R) => value < rows[R[i]]
    <3>1. K[D[i]] = At0(p).keys /\ Ordered(rows, R, D, K) /\ j \in 1..Len(K[D[i]]) /\ K[D[i]][j] = id
      BY <1>2, <1>8 DEF FlatTree
    <3>2. ASSUME i > 1 PROVE rows[R[i - 1]] < value
      <4> DEFINE x == i - 1
      <4>1. x \in 1..Len(R) /\ x + 1 = i
        BY <2>1, <3>2
      <4> HIDE DEF x
      <4>2. rows[R[x]] < rows[K[D[x + 1]][j]]
        BY <3>1, <4>1 DEF Ordered
      <4> QED
        BY <3>1, <4>1, <4>2 DEF x
    <3>3. ASSUME i <= Len(R) PROVE value < rows[R[i]]
      BY <2>1, <3>1, <3>3 DEF Ordered
    <3> QED
      BY <3>1, <3>2, <3>3
  <2>3. i <= Len(R) => rows[R[i]] \in Int
    BY <1>5, <1>8, <2>1 DEF FlatTree, ValuesIn
  <2>4. i <= Len(R) => value <= rows[R[i]]
    BY <1>2, <2>2, <2>3
  <2>5. find_offset(At0(Root), value) = i - 1
    BY <1>2, <1>8, <2>2, <2>4, OffsetInRoot
  <2>6. leaf = p
    BY <1>5, <1>8, <2>5 DEF leaf
  <2>7. <<p, j - 1>> # NoCursor
    BY <1>2 DEF NoCursor, Used, NoPage
  <2> QED
    BY <1>1, <1>6, <1>8, <2>6, <2>7
<1>9. ASSUME ~At0(Root).leaf, p = Root PROVE find_bt(value) = <<p, j - 1>>
  <2>1. R = At0(p).keys /\ D = At0(p).kids /\ j \in 1..Len(R) /\ j \in 1..Len(D) /\ R[j] = id
        /\ (j > 1 => j - 1 \in 1..Len(R))
    BY <1>2, <1>5, <1>9
  <2>2. j > 1 => rows[R[j - 1]] < value
    BY <2>1, <1>5 DEF Rising
  <2>3. find_offset(At0(Root), value) = j - 1
    BY <1>2, <1>9, <2>1, <2>2, OffsetInRoot
  <2>4. leaf = D[j]
    BY <1>3, <1>9, <2>1, <2>3 DEF leaf
  <2>5. ValuesIn(rows, At0(leaf)) /\ \A x \in 1..Len(At0(leaf).keys) : rows[At0(leaf).keys[x]] < value
    BY <2>1, <2>4 DEF FlatTree, Ordered
  <2>6. find_offset(At0(leaf), value) = Len(At0(leaf).keys) /\ Len(At0(leaf).keys) \in Nat
    <3>1. find_offset(At0(leaf), value) = Len(At0(leaf).keys)
      BY <1>2, <2>5, OffsetPast
    <3>2. At0(leaf) \in Node
      BY <2>5 DEF ValuesIn
    <3> QED
      BY <3>1, <3>2 DEF Node
  <2>7. Own(leaf, value) = NoCursor
    BY <2>6 DEF Own
  <2> QED
    BY <1>1, <1>4, <1>9, <2>3, <2>7
<1> QED
  BY <1>5, <1>7, <1>8, <1>9

\* cursor_next_bt: down to the first entry of a leaf, or up to the root
Downs(f) == f = [p \in Used |-> IF At0(p).leaf THEN <<p, 0>> ELSE f[At0(p).kids[1]]]
Ups(f) == f = [at \in Used \X (0..ORDER) |->
                 LET n == At0(at[1]) IN
                 IF at[2] < Len(n.keys) THEN at
                 ELSE IF n.parent = NoPage THEN NoCursor
                 ELSE f[<<n.parent, CellOf(At0(n.parent), at[1])>>]]
Here(at) == IF at[2] < Len(At0(at[1]).keys) THEN at ELSE NoCursor

LEMMA CellRange ==
  ASSUME NEW n \in Node, Len(n.kids) <= ORDER, NEW page
  PROVE  CellOf(n, page) \in 0..ORDER
<1> DEFINE cells == {i \in 1..Len(n.kids) : n.kids[i] = page}
<1>1. Len(n.kids) \in Nat /\ ORDER \in Nat
  BY IndexTreeAssumption DEF Node
<1>2. CASE cells = {}
  BY <1>1, <1>2 DEF CellOf
<1>3. CASE cells # {}
  <2>1. cells \in SUBSET Nat
    BY <1>1
  <2>2. \E i \in cells : \A j \in cells : i <= j
    <3> HIDE DEF cells
    <3> QED
      BY <1>3, <2>1, LeastNumber
  <2> DEFINE i == CHOOSE i \in cells : \A j \in cells : i <= j
  <2>3. i \in cells
    BY <2>2
  <2>4. CellOf(n, page) = i - 1
    BY <1>3 DEF CellOf
  <2> HIDE DEF i
  <2>5. i \in 1..Len(n.kids)
    BY <2>3
  <2> QED
    BY <1>1, <2>4, <2>5
<1> QED
  BY <1>2, <1>3

LEMMA FlatUp ==
  ASSUME NEW R, NEW D, NEW K, FlatTree(R, D, K), NEW p \in Used, NEW c \in 0..(Len(At0(p).keys) - 1), At0(p).leaf
  PROVE  LET next == cursor_next_bt(<<p, c>>) IN
         \/ next = NoCursor
         \/ next # <<p, c>> /\ Valid(next)
<1> DEFINE Cells == Used \X (0..ORDER)
           Up(at) == <<At0(at[1]).parent, CellOf(At0(At0(at[1]).parent), at[1])>>
           w == [at \in Cells |-> IF at[2] < Len(At0(at[1]).keys) THEN at
                                  ELSE IF At0(at[1]).parent = NoPage THEN NoCursor
                                  ELSE Here(Up(at))]
           f == CHOOSE g : Ups(g)
<1>1. ASSUME NEW at \in Cells, At0(at[1]).parent # NoPage
      PROVE  Up(at) \in Cells /\ Up(at)[1] = Root /\ At0(Root).parent = NoPage
  <2>1. at[1] \in Used /\ Root \in Used /\ At0(Root).parent = NoPage
    BY DEF FlatTree
  <2>2. PICK i \in 1..Len(D) : D[i] = at[1]
    BY <1>1, <2>1 DEF FlatTree
  <2>3. ~At0(Root).leaf /\ At0(at[1]).parent = Root
    BY <1>1, <2>2 DEF FlatTree
  <2>4. At0(Root) \in Node /\ Len(At0(Root).kids) <= ORDER
    BY <2>1, <2>3 DEF FlatTree, ValuesIn
  <2>5. CellOf(At0(Root), at[1]) \in 0..ORDER
    BY <2>4, CellRange
  <2> QED
    BY <2>1, <2>3, <2>5
<1>2. \A at \in Cells : w[at] = IF at[2] < Len(At0(at[1]).keys) THEN at
                                ELSE IF At0(at[1]).parent = NoPage THEN NoCursor
                                ELSE w[Up(at)]
  <2> TAKE at \in Cells
  <2>1. CASE At0(at[1]).parent = NoPage
    BY <2>1
  <2>2. CASE At0(at[1]).parent # NoPage
    <3> DEFINE up == Up(at)
    <3>1. up \in Cells /\ up[1] = Root /\ At0(Root).parent = NoPage
      BY <1>1, <2>2
    <3> HIDE DEF up
    <3>2. w[up] = Here(up)
      BY <3>1 DEF Here
    <3> QED
      BY <2>2, <3>2 DEF up
  <2> QED
    BY <2>1, <2>2
<1>3. Ups(w)
  <2>1. w = [at \in Cells |-> w[at]]
    OBVIOUS
  <2> HIDE DEF w
  <2> QED
    BY <1>2, <2>1, Zenon DEF Ups
<1>4. Ups(f)
  BY <1>3
<1>5. cursor_next_bt(<<p, c>>) = f[<<p, c + 1>>]
  BY DEF cursor_next_bt, Ups
<1> HIDE DEF f
<1>6. \A at \in Cells : f[at] = IF at[2] < Len(At0(at[1]).keys) THEN at
                                ELSE IF At0(at[1]).parent = NoPage THEN NoCursor
                                ELSE f[Up(at)]
  BY <1>4, Zenon DEF Ups
<1>7. Len(At0(p).keys) \in 0..(ORDER - 1) /\ ORDER \in Nat
  BY IndexTreeAssumption DEF FlatTree
<1>8. <<p, c + 1>> \in Cells /\ c \in Nat /\ c + 1 # c /\ <<p, c + 1>>[1] = p /\ <<p, c + 1>>[2] = c + 1
  BY <1>7
<1>9. CASE c + 1 < Len(At0(p).keys)
  <2>1. f[<<p, c + 1>>] = <<p, c + 1>>
    BY <1>6, <1>8, <1>9
  <2>2. c + 1 \in 0..(Len(At0(p).keys) - 1)
    BY <1>7, <1>8, <1>9
  <2> QED
    BY <1>5, <1>8, <2>1, <2>2 DEF Valid
<1>10. CASE ~(c + 1 < Len(At0(p).keys)) /\ At0(p).parent # NoPage
  <2> DEFINE at == <<p, c + 1>>
             up == Up(at)
  <2>1. up \in Cells /\ up[1] = Root /\ At0(Root).parent = NoPage /\ f[at] = f[up]
    BY <1>1, <1>6, <1>8, <1>10
  <2> HIDE DEF up
  <2>2. f[up] = Here(up)
    BY <1>6, <2>1 DEF Here
  <2>3. p # Root
    BY <1>10 DEF FlatTree
  <2>4. up = <<Root, up[2]>> /\ up[2] \in Nat
    BY <2>1
  <2>5. CASE up[2] < Len(At0(Root).keys)
    <3>1. Root \in Used /\ up[2] \in 0..(Len(At0(Root).keys) - 1)
      BY <2>4, <2>5 DEF FlatTree
    <3> QED
      BY <1>5, <2>1, <2>2, <2>3, <2>4, <2>5, <3>1 DEF Here, Valid
  <2>6. CASE ~(up[2] < Len(At0(Root).keys))
    BY <1>5, <2>1, <2>2, <2>6 DEF Here
  <2> QED
    BY <2>5, <2>6
<1>11. CASE ~(c + 1 < Len(At0(p).keys)) /\ At0(p).parent = NoPage
  BY <1>5, <1>6, <1>8, <1>11
<1> QED
  BY <1>9, <1>10, <1>11

LEMMA FlatDown ==
  ASSUME NEW R, NEW D, NEW K, FlatTree(R, D, K), NEW p \in Used, NEW c \in 0..(Len(At0(p).keys) - 1), ~At0(p).leaf
  PROVE  LET next == cursor_next_bt(<<p, c>>) IN next # <<p, c>> /\ Valid(next)
<1> DEFINE w == [q \in Used |-> <<IF At0(q).leaf THEN q ELSE At0(q).kids[1], 0>>]
           f == CHOOSE g : Downs(g)
<1>1. ASSUME NEW q \in Used, ~At0(q).leaf
      PROVE  /\ q = Root /\ D = At0(q).kids /\ R = At0(q).keys /\ Len(R) \in Nat /\ Len(D) = Len(R) + 1
             /\ \A i \in 1..Len(D) : D[i] \in Used /\ At0(D[i]).leaf
  BY <1>1 DEF FlatTree
<1>2. \A q \in Used : ~At0(q).leaf => At0(q).kids[1] \in Used /\ At0(At0(q).kids[1]).leaf
  <2> SUFFICES ASSUME NEW q \in Used, ~At0(q).leaf PROVE At0(q).kids[1] \in Used /\ At0(At0(q).kids[1]).leaf
    OBVIOUS
  <2>1. 1 \in 1..Len(D) /\ D = At0(q).kids
    BY <1>1
  <2> QED
    BY <1>1, <2>1
<1>3. \A q \in Used : w[q] = IF At0(q).leaf THEN <<q, 0>> ELSE w[At0(q).kids[1]]
  BY <1>2
<1>4. Downs(w)
  <2>1. w = [q \in Used |-> w[q]]
    OBVIOUS
  <2> HIDE DEF w
  <2> QED
    BY <1>3, <2>1, Zenon DEF Downs
<1>5. Downs(f)
  BY <1>4
<1>6. cursor_next_bt(<<p, c>>) = f[At0(p).kids[c + 2]]
  BY DEF cursor_next_bt, Downs
<1> HIDE DEF f
<1>7. c + 2 \in 1..Len(D) /\ p = Root /\ D = At0(p).kids /\ c \in Nat /\ Len(D) > 1
  <2>1. R = At0(p).keys /\ Len(R) \in Nat /\ Len(D) = Len(R) + 1 /\ p = Root /\ D = At0(p).kids
    BY <1>1
  <2> QED
    BY <2>1
<1> DEFINE leaf == D[c + 2]
<1>8. leaf \in Used /\ At0(leaf).leaf /\ Len(K[leaf]) > 0 /\ K[leaf] = At0(leaf).keys
  BY <1>7 DEF FlatTree, Ordered
<1>9. f[leaf] = <<leaf, 0>> /\ At0(p).kids[c + 2] = leaf
  BY <1>5, <1>7, <1>8 DEF Downs
<1> HIDE DEF leaf
<1>10. leaf # p /\ Len(At0(leaf).keys) \in Nat
  BY <1>8 DEF FlatTree
<1>11. 0 \in 0..(Len(At0(leaf).keys) - 1)
  BY <1>8, <1>10
<1> QED
  BY <1>6, <1>8, <1>9, <1>10, <1>11 DEF Valid

\* find_all: the entry of the value, because the next one has another value
Cursors(value, f) ==
  f = [n \in 0..Len(rows) |->
         IF n = 0 THEN <<find_bt(value)>>
         ELSE LET before == f[n - 1]
                  next == cursor_next_bt(Last(before)) IN
              IF next = NoCursor \/ rows[Entry(next)] # value THEN before
              ELSE Append(before, next)]

LEMMA OneFound ==
  ASSUME NEW value, Len(rows) \in Nat, NEW cursor, cursor = find_bt(value),
         cursor_next_bt(cursor) = NoCursor \/ rows[Entry(cursor_next_bt(cursor))] # value
  PROVE  find_all(value) = <<Entry(cursor)>>
<1> DEFINE k == Len(rows)
           w == [n \in 0..k |-> <<cursor>>]
           f == CHOOSE g : Cursors(value, g)
           After(before) == LET next == cursor_next_bt(Last(before)) IN
                            IF next = NoCursor \/ rows[Entry(next)] # value THEN before
                            ELSE Append(before, next)
<1>1. After(<<cursor>>) = <<cursor>>
  <2>1. Last(<<cursor>>) = cursor
    BY DEF Last
  <2> QED
    BY <2>1
<1>2. \A n \in 0..k : w[n] = IF n = 0 THEN <<find_bt(value)>> ELSE After(w[n - 1])
  <2> TAKE n \in 0..k
  <2>1. n # 0 => n - 1 \in 0..k
    OBVIOUS
  <2> HIDE DEF After
  <2> QED
    BY <1>1, <2>1
<1>3. Cursors(value, w)
  <2>1. w = [n \in 0..k |-> w[n]]
    OBVIOUS
  <2> HIDE DEF w
  <2> QED
    BY <1>2, <2>1, Zenon DEF Cursors
<1>4. Cursors(value, f)
  BY <1>3
<1>5. find_all(value) = [i \in DOMAIN f[k] |-> Entry(f[k][i])]
  BY DEF find_all, Cursors
<1> HIDE DEF f
<1>6. \A n \in 0..k : f[n] = IF n = 0 THEN <<find_bt(value)>> ELSE After(f[n - 1])
  BY <1>4, Zenon DEF Cursors
<1> HIDE DEF After
<1> DEFINE Wrong == {n \in 0..k : f[n] # <<cursor>>}
<1>7. Wrong = {}
  <2> SUFFICES ASSUME Wrong # {} PROVE FALSE
    OBVIOUS
  <2>1. PICK n \in Wrong : \A m \in Wrong : n <= m
    <3>1. Wrong \in SUBSET Nat
      OBVIOUS
    <3> HIDE DEF Wrong
    <3> QED
      BY <3>1, LeastNumber
  <2>2. n \in 0..k /\ f[n] # <<cursor>>
    OBVIOUS
  <2>3. n # 0
    BY <1>6, <2>2
  <2>4. n - 1 \in 0..k /\ ~(n <= n - 1)
    BY <2>2, <2>3
  <2>5. f[n - 1] = <<cursor>>
    BY <2>1, <2>4
  <2> QED
    BY <1>1, <1>6, <2>2, <2>3, <2>5
<1>8. f[k] = <<cursor>>
  BY <1>7
<1> QED
  BY <1>5, <1>8

LEMMA FlatExact ==
  ASSUME LevelInv, OnceInv, FlatInv, Idle, ~deep, IsInjective(rows), NEW value \in ToSet(rows)
  PROVE  Exact(value)
<1> DEFINE r == Len(rows)
<1>1. frames = <<>> /\ rows \in Seq(Value) /\ r \in Nat /\ DOMAIN rows = 1..r
  BY DEF Idle, LevelInv, Shapes
<1>2. PICK R, D : Flat(rows, node, frames, R, D)
  BY DEF FlatInv
<1>3. PICK K : FlatTree(R, D, K)
  BY <1>1, <1>2, FlatIsTree
<1>4. PICK id \in 1..r : rows[id] = value
  BY <1>1 DEF ToSet
<1>5. PICK L : OnceIn(L, 1..r) /\ \A p \in Link : L[p] = IF p \in Used THEN At0(p).keys ELSE <<>>
  <2>1. PICK L, C : Contents(node, frames, L, C) /\ OnceIn(L, 1..r)
    BY DEF OnceInv
  <2>2. Len(frames) = 0 /\ \A i \in 1..0 : FALSE
    BY <1>1
  <2>3. /\ Used = Pages(node) /\ Used \subseteq Page /\ \A p \in Used : At0(p) = node[p + 1]
    BY UsedPages DEF LevelInv
  <2>4. L[NoPage] = <<>>
    BY <1>1, <2>1 DEF Contents, InHand
  <2>5. \A p \in Used : L[p] = At0(p).keys
    BY <2>1, <2>2, <2>3 DEF Contents
  <2>6. \A p \in Page \ Used : L[p] = <<>>
    BY <2>1, <2>3 DEF Contents
  <2>7. Link = Page \union {NoPage} /\ NoPage \notin Page
    BY NoPageIsNone DEF Link
  <2> HIDE DEF r
  <2>8. \A p \in Link : L[p] = IF p \in Used THEN At0(p).keys ELSE <<>>
    BY <2>3, <2>4, <2>5, <2>6, <2>7
  <2> QED
    BY <2>1, <2>8
<1> HIDE DEF r
<1>6. Used \subseteq Link /\ \A p \in Used : L[p] = At0(p).keys
  BY <1>5, UsedPages, NoPageIsNone DEF LevelInv
<1>7. PICK p, j : IsRow(id, p, j)
  <2>1. PICK p \in Link : \E j \in 1..Len(L[p]) : L[p][j] = id
    BY <1>5 DEF OnceIn
  <2>2. PICK j \in 1..Len(L[p]) : L[p][j] = id
    BY <2>1
  <2>3. p \in Used
    <3>1. ASSUME p \notin Used PROVE FALSE
      <4>1. Len(L[p]) = 0
        BY <1>5, <3>1
      <4> QED
        BY <2>2, <4>1
    <3> QED
      BY <3>1
  <2> QED
    BY <1>6, <2>2, <2>3 DEF IsRow
<1>8. \A q, i : IsRow(id, q, i) => q = p /\ i = j
  BY <1>5, <1>6, <1>7 DEF OnceIn, IsRow
<1> DEFINE cursor == <<p, j - 1>>
           next == cursor_next_bt(cursor)
<1>9. find_bt(value) = cursor
  BY <1>3, <1>4, <1>7, FlatFound
<1>10. /\ p \in Used /\ j \in 1..Len(At0(p).keys) /\ At0(p).keys[j] = id
       /\ Len(At0(p).keys) \in Nat /\ \A q \in Used : \A i \in 1..Len(At0(q).keys) : At0(q).keys[i] \in 1..r
  BY <1>3, <1>7 DEF IsRow, FlatTree, ValuesIn, r
<1>11. j - 1 \in 0..(Len(At0(p).keys) - 1) /\ (j - 1) + 1 = j
  BY <1>10
<1>12. next = NoCursor \/ (next # cursor /\ Valid(next))
  <2>1. CASE At0(p).leaf
    BY <1>3, <1>10, <1>11, <2>1, FlatUp
  <2>2. CASE ~At0(p).leaf
    BY <1>3, <1>10, <1>11, <2>2, FlatDown
  <2> QED
    BY <2>1, <2>2
<1>13. Entry(cursor) = id
  BY <1>10, <1>11 DEF Entry
<1> HIDE DEF next
<1>14. next = NoCursor \/ rows[Entry(next)] # value
  <2> SUFFICES ASSUME next # NoCursor PROVE rows[Entry(next)] # value
    OBVIOUS
  <2>1. PICK q \in Used : \E c \in 0..(Len(At0(q).keys) - 1) : next = <<q, c>>
    BY <1>12 DEF Valid
  <2>2. PICK c \in 0..(Len(At0(q).keys) - 1) : next = <<q, c>>
    BY <2>1
  <2>3. Len(At0(q).keys) \in Nat
    BY <1>3 DEF FlatTree
  <2>4. c + 1 \in 1..Len(At0(q).keys) /\ c = (c + 1) - 1
    BY <2>2, <2>3
  <2>5. Entry(next) = At0(q).keys[c + 1]
    BY <2>2 DEF Entry
  <2>6. Entry(next) \in 1..r /\ Entry(next) # id
    <3>1. Entry(next) = id => IsRow(id, q, c + 1)
      BY <2>4, <2>5 DEF IsRow
    <3>2. q = p /\ c + 1 = j => next = cursor
      BY <2>2, <2>4
    <3> QED
      BY <1>8, <1>10, <1>12, <2>4, <2>5, <3>1, <3>2
  <2> QED
    BY <1>1, <1>4, <2>6 DEF IsInjective
<1>15. find_all(value) = <<id>>
  <2>1. r = Len(rows)
    BY DEF r
  <2> HIDE DEF cursor
  <2>2. find_all(value) = <<Entry(cursor)>>
    BY <1>1, <1>9, <1>14, <2>1, OneFound DEF next
  <2> QED
    BY <1>13, <2>2
<1>16. WithValue(value) = {id}
  <2>1. r = Len(rows)
    BY DEF r
  <2> QED
    BY <1>1, <1>4, <2>1 DEF WithValue, IsInjective
<1>17. find_bt(value) # NoCursor
  BY <1>9, <1>10 DEF NoCursor, NoPage, Used
<1>18. ToSet(<<id>>) = {id} /\ Len(<<id>>) = 1 /\ Cardinality({id}) = 1
  BY FS_Singleton DEF ToSet
<1> QED
  BY <1>15, <1>16, <1>17, <1>18 DEF Exact

-----------------------------------------------------------------------------
\* The tree stays flat.

LEMMA KeysOf ==
  ASSUME NEW T, NEW s \in Seq(T), NEW S, \A i \in 1..Len(s) : s[i] \in S
  PROVE  s \in Seq(S)
<1>1. Len(s) \in Nat /\ s \in [1..Len(s) -> S]
  OBVIOUS
<1> QED
  BY <1>1

LEMMA EntryIn ==
  ASSUME NEW S, NEW s \in Seq(S)
  PROVE  Len(s) \in Nat /\ \A i \in 1..Len(s) : s[i] \in S
  OBVIOUS

LEMMA RisingInsert ==
  ASSUME NEW rs, NEW S, \A x \in S : rs[x] \in Int, NEW s \in Seq(S), NEW e \in S, NEW k \in 1..(Len(s) + 1),
         Rising(rs, s), \A i \in 1..Len(s) : IF i < k THEN rs[s[i]] < rs[e] ELSE rs[e] < rs[s[i]]
  PROVE  Rising(rs, InsertAt(s, k, e))
<1> DEFINE t == InsertAt(s, k, e)
           n == Len(s)
<1>0. t \in Seq(S) /\ Inserts(t, s, k, e)
  BY ONLY s \in Seq(S), k \in 1..(Len(s) + 1), e \in S, InsertAtMakes, Zenon
<1> HIDE DEF t
<1>1. /\ Len(t) = n + 1 /\ n \in Nat
      /\ \A j \in 1..(n + 1) : t[j] = IF j < k THEN s[j] ELSE IF j = k THEN e ELSE s[j - 1]
  BY ONLY <1>0, s \in Seq(S) DEF Inserts
<1> SUFFICES ASSUME NEW i \in 1..(n + 1), NEW j \in 1..(n + 1), i < j PROVE rs[t[i]] < rs[t[j]]
  BY <1>1 DEF Rising, t
<1>2. k \in 1..(n + 1) /\ n = Len(s)
  OBVIOUS
<1> HIDE DEF n
<1>3. CASE j < k
  <2>1. i \in 1..n /\ j \in 1..n /\ t[i] = s[i] /\ t[j] = s[j]
    BY <1>1, <1>2, <1>3
  <2> QED
    BY <1>2, <2>1 DEF Rising
<1>4. CASE j = k
  <2>1. i \in 1..n /\ i < k /\ t[i] = s[i] /\ t[j] = e
    BY <1>1, <1>2, <1>4
  <2> QED
    BY <1>2, <2>1
<1>5. CASE k < j
  <2> DEFINE b == j - 1
  <2>1. b \in 1..n /\ t[j] = s[b] /\ ~(b < k) /\ rs[s[b]] \in Int
    BY <1>1, <1>2, <1>5
  <2> HIDE DEF b
  <2>2. rs[e] < rs[s[b]]
    BY <1>2, <2>1
  <2>3. CASE i = k
    BY <1>1, <2>1, <2>2, <2>3
  <2>4. CASE i < k
    <3>1. i \in 1..n /\ t[i] = s[i] /\ rs[s[i]] \in Int /\ rs[e] \in Int
      BY <1>1, <1>2, <2>4
    <3>2. rs[s[i]] < rs[e]
      BY <1>2, <2>4, <3>1
    <3> QED
      BY <2>1, <2>2, <3>1, <3>2
  <2>5. CASE k < i
    <3> DEFINE a == i - 1
    <3>1. a \in 1..n /\ t[i] = s[a] /\ a < b
      BY <1>1, <1>2, <2>5 DEF b
    <3> HIDE DEF a
    <3> QED
      BY <1>2, <2>1, <3>1 DEF Rising
  <2> QED
    BY <1>1, <1>2, <2>3, <2>4, <2>5
<1> QED
  BY <1>1, <1>2, <1>3, <1>4, <1>5

\* A leaf may move to another page.
LEMMA OrderedMoved ==
  ASSUME NEW rs, NEW R, NEW D, NEW K, Ordered(rs, R, D, K), Len(R) \in Nat, Len(D) = Len(R) + 1,
         NEW B, NEW L, Len(B) = Len(D), \A i \in 1..Len(D) : L[B[i]] = K[D[i]]
  PROVE  Ordered(rs, R, B, L)
<1>1. \A i \in 1..Len(R) : i \in 1..Len(D) /\ i + 1 \in 1..Len(D)
  OBVIOUS
<1> QED
  BY <1>1 DEF Ordered

\* The value of a new row goes into the leaf between whose neighbours it lies.
LEMMA OrderedPut ==
  ASSUME NEW rs, NEW r \in Nat, \A x \in 1..r : rs[x] \in Int,
         NEW R \in Seq(1..r), NEW D, NEW K, Ordered(rs, R, D, K), Len(D) = Len(R) + 1,
         \A i \in 1..Len(D) : K[D[i]] \in Seq(1..r), \A i, j \in 1..Len(D) : D[i] = D[j] => i = j,
         NEW i0 \in 1..Len(D), NEW L, \A i \in 1..Len(D) : i # i0 => L[D[i]] = K[D[i]],
         NEW id \in 1..r, NEW k \in 1..(Len(K[D[i0]]) + 1), L[D[i0]] = InsertAt(K[D[i0]], k, id),
         \A i \in 1..Len(K[D[i0]]) : IF i < k THEN rs[K[D[i0]][i]] < rs[id] ELSE rs[id] < rs[K[D[i0]][i]],
         i0 > 1 => rs[R[i0 - 1]] < rs[id], i0 <= Len(R) => rs[id] < rs[R[i0]]
  PROVE  Ordered(rs, R, D, L)
<1> DEFINE p == D[i0]
<1>1. K[p] \in Seq(1..r) /\ Rising(rs, K[p]) /\ L[p] = InsertAt(K[p], k, id) /\ Len(K[p]) \in Nat
      /\ k \in 1..(Len(K[p]) + 1)
  BY DEF Ordered
<1>2. Rising(rs, L[p])
  BY ONLY <1>1, RisingInsert, \A x \in 1..r : rs[x] \in Int, id \in 1..r,
     \A i \in 1..Len(K[p]) : IF i < k THEN rs[K[p][i]] < rs[id] ELSE rs[id] < rs[K[p][i]]
<1>3. /\ Len(L[p]) = Len(K[p]) + 1
      /\ \A j \in 1..Len(L[p]) : L[p][j] = id \/ \E i \in 1..Len(K[p]) : L[p][j] = K[p][i]
  <2>1. id \in 1..r /\ \E x \in 1..(Len(K[p]) + 1) : L[p] = InsertAt(K[p], x, id)
    BY <1>1
  <2> DEFINE s == K[p]
             t == L[p]
             S == 1..r
  <2>2. s \in Seq(S) /\ id \in S /\ \E x \in 1..(Len(s) + 1) : t = InsertAt(s, x, id)
    BY <1>1, <2>1
  <2> HIDE DEF s, t, S
  <2>3. Len(t) = Len(s) + 1 /\ \A i \in 1..Len(t) : t[i] = id \/ \E j \in 1..Len(s) : t[i] = s[j]
    BY ONLY <2>2, Inserted
  <2> QED
    BY <2>3 DEF s, t
<1>4. /\ \A i \in 1..Len(D) : i = i0 \/ L[D[i]] = K[D[i]]
      /\ \A i \in 1..Len(R) : i \in 1..Len(D) /\ i + 1 \in 1..Len(D)
      /\ i0 \in Nat
  OBVIOUS
<1>5. /\ \A i \in 1..Len(R) : /\ \A j \in 1..Len(K[D[i]]) : rs[K[D[i]][j]] < rs[R[i]]
                              /\ \A j \in 1..Len(K[D[i + 1]]) : rs[R[i]] < rs[K[D[i + 1]][j]]
      /\ Len(D) > 1 => \A i \in 1..Len(D) : Len(K[D[i]]) > 0
      /\ Rising(rs, R) /\ \A i \in 1..Len(D) : Rising(rs, K[D[i]])
  BY DEF Ordered
<1>6. ASSUME NEW i \in 1..Len(R), NEW j \in 1..Len(L[D[i]]) PROVE rs[L[D[i]][j]] < rs[R[i]]
  <2>1. CASE i = i0
    <3>1. \A x \in 1..Len(K[p]) : rs[K[p][x]] < rs[R[i]]
      BY <1>5, <2>1
    <3>2. rs[id] < rs[R[i]] /\ D[i] = p /\ j \in 1..Len(L[p])
      BY <1>6, <2>1
    <3> HIDE DEF p
    <3> QED
      BY <1>3, <3>1, <3>2
  <2>2. CASE i # i0
    BY <1>4, <1>5, <1>6, <2>2
  <2> QED
    BY <2>1, <2>2
<1>7. ASSUME NEW i \in 1..Len(R), NEW j \in 1..Len(L[D[i + 1]]) PROVE rs[R[i]] < rs[L[D[i + 1]][j]]
  <2>1. CASE i + 1 = i0
    <3>1. \A x \in 1..Len(K[p]) : rs[R[i]] < rs[K[p][x]]
      BY <1>5, <2>1
    <3>2. i0 > 1 /\ i0 - 1 = i
      BY <2>1
    <3>3. rs[R[i]] < rs[id] /\ D[i + 1] = p /\ j \in 1..Len(L[p])
      BY <1>7, <2>1, <3>2
    <3> HIDE DEF p
    <3> QED
      BY <1>3, <3>1, <3>3
  <2>2. CASE i + 1 # i0
    <3>1. i + 1 \in 1..Len(D) /\ L[D[i + 1]] = K[D[i + 1]]
      BY <1>4, <2>2
    <3> QED
      BY <1>5, <1>7, <3>1
  <2> QED
    BY <2>1, <2>2
<1>8. \A i \in 1..Len(D) : Rising(rs, L[D[i]])
  BY <1>2, <1>4, <1>5
<1>9. Len(D) > 1 => \A i \in 1..Len(D) : Len(L[D[i]]) > 0
  <2> SUFFICES ASSUME Len(D) > 1, NEW i \in 1..Len(D) PROVE Len(L[D[i]]) > 0
    OBVIOUS
  <2>1. CASE i = i0
    BY <1>1, <1>3, <2>1
  <2>2. CASE i # i0
    BY <1>4, <1>5, <2>2
  <2> QED
    BY <2>1, <2>2
<1> QED
  BY <1>5, <1>6, <1>7, <1>8, <1>9 DEF Ordered

\* A leaf that is split: the entry in the middle lies between its halves.
Cut(s, a, b, half) ==
  /\ half \in Nat /\ 1 <= half /\ half + 2 <= Len(s) /\ Len(a) = half /\ Len(b) = Len(s) - (half + 1)
  /\ \A j \in 1..half : a[j] = s[j]
  /\ \A j \in 1..(Len(s) - (half + 1)) : b[j] = s[j + (half + 1)]
LEMMA OrderedCut ==
  ASSUME NEW rs, NEW r \in Nat, \A x \in 1..r : rs[x] \in Int,
         NEW R \in Seq(1..r), NEW P, NEW D \in Seq(P), NEW K, Ordered(rs, R, D, K), Len(D) = Len(R) + 1,
         \A i \in 1..Len(D) : K[D[i]] \in Seq(1..r), \A i, j \in 1..Len(D) : D[i] = D[j] => i = j,
         NEW c \in 1..Len(D), NEW half, NEW new \in P, NEW L, Cut(K[D[c]], L[D[c]], L[new], half),
         \A i \in 1..Len(D) : i # c => L[D[i]] = K[D[i]]
  PROVE  Ordered(rs, InsertAt(R, c, K[D[c]][half + 1]), InsertAt(D, c + 1, new), L)
<1> DEFINE s == K[D[c]]
           a == L[D[c]]
           b == L[new]
           mid == s[half + 1]
           Q == InsertAt(R, c, mid)
           B == InsertAt(D, c + 1, new)
           n == Len(R)
           m == Len(s)
<1>1. s \in Seq(1..r) /\ Rising(rs, s) /\ n \in Nat /\ m \in Nat /\ Len(D) = n + 1 /\ c \in 1..(n + 1)
  BY DEF Ordered
<1>2. /\ half \in Nat /\ 1 <= half /\ half + 2 <= m /\ Len(a) = half /\ Len(b) = m - (half + 1)
      /\ \A j \in 1..half : a[j] = s[j]
      /\ \A j \in 1..(m - (half + 1)) : b[j] = s[j + (half + 1)]
  BY DEF Cut
<1>3. /\ \A i \in 1..n : /\ \A j \in 1..Len(K[D[i]]) : rs[K[D[i]][j]] < rs[R[i]]
                         /\ \A j \in 1..Len(K[D[i + 1]]) : rs[R[i]] < rs[K[D[i + 1]][j]]
      /\ Len(D) > 1 => \A i \in 1..Len(D) : Len(K[D[i]]) > 0
      /\ Rising(rs, R) /\ \A i \in 1..Len(D) : Rising(rs, K[D[i]])
  <2>1. \A i \in 1..n : /\ \A j \in 1..Len(K[D[i]]) : rs[K[D[i]][j]] < rs[R[i]]
                        /\ \A j \in 1..Len(K[D[i + 1]]) : rs[R[i]] < rs[K[D[i + 1]][j]]
    BY ONLY Ordered(rs, R, D, K) DEF Ordered
  <2>2. Len(D) > 1 => \A i \in 1..Len(D) : Len(K[D[i]]) > 0
    BY ONLY Ordered(rs, R, D, K) DEF Ordered
  <2>3. Rising(rs, R)
    BY ONLY Ordered(rs, R, D, K) DEF Ordered
  <2>4. \A i \in 1..Len(D) : Rising(rs, K[D[i]])
    BY ONLY Ordered(rs, R, D, K) DEF Ordered
  <2> QED
    BY ONLY <2>1, <2>2, <2>3, <2>4
<1>4. mid \in 1..r /\ half + 1 \in 1..m
  <2>1. half + 1 \in 1..m
    <3> HIDE DEF m
    <3> QED
      BY ONLY <1>1, <1>2
  <2> DEFINE S == 1..r
  <2>2. s \in Seq(S) /\ half + 1 \in 1..Len(s)
    BY <1>1, <2>1
  <2> HIDE DEF s, S
  <2>3. s[half + 1] \in S
    BY ONLY <2>2, EntryIn
  <2> QED
    BY <2>1, <2>3 DEF S
<1>5. /\ Len(Q) = n + 1 /\ \A j \in 1..(n + 1) : Q[j] = IF j < c THEN R[j] ELSE IF j = c THEN mid ELSE R[j - 1]
  <2>1. c \in 1..(Len(R) + 1) /\ mid \in 1..r /\ n = Len(R) /\ Q = InsertAt(R, c, mid) /\ R \in Seq(1..r)
    BY <1>1, <1>4
  <2> DEFINE S == 1..r
  <2>2. c \in 1..(Len(R) + 1) /\ mid \in S /\ R \in Seq(S)
    BY <2>1
  <2> HIDE DEF Q, n, mid, S
  <2>3. Inserts(InsertAt(R, c, mid), R, c, mid)
    BY ONLY <2>2, InsertAtMakes, Zenon
  <2> QED
    BY ONLY <2>1, <2>3 DEF Inserts
<1>6. /\ Len(B) = n + 2
      /\ \A j \in 1..(n + 2) : B[j] = IF j < c + 1 THEN D[j] ELSE IF j = c + 1 THEN new ELSE D[j - 1]
  <2>1. c + 1 \in 1..(Len(D) + 1) /\ Len(D) + 1 = n + 2
    BY <1>1
  <2>2. D \in Seq(P) /\ new \in P /\ B = InsertAt(D, c + 1, new)
    OBVIOUS
  <2> DEFINE d == c + 1
             l == Len(D)
  <2>3. l + 1 = n + 2 /\ d \in 1..(Len(D) + 1) /\ l = Len(D) /\ B = InsertAt(D, d, new)
    BY <2>1, <2>2
  <2> HIDE DEF B, d, l
  <2>4. Inserts(InsertAt(D, d, new), D, d, new)
    <3>1. D \in Seq(P) /\ new \in P /\ d \in 1..(Len(D) + 1)
      BY ONLY <2>2, <2>3
    <3> QED
      BY ONLY <3>1, InsertAtMakes, Zenon
  <2>5. d = c + 1
    BY DEF d
  <2>6. /\ Len(B) = Len(D) + 1
        /\ \A j \in 1..(Len(D) + 1) : B[j] = IF j < d THEN D[j] ELSE IF j = d THEN new ELSE D[j - 1]
    BY ONLY <2>2, <2>3, <2>4 DEF Inserts
  <2> QED
    BY ONLY <2>1, <2>5, <2>6
<1>7. \A i \in 1..n : IF i < c THEN rs[R[i]] < rs[mid] ELSE rs[mid] < rs[R[i]]
  <2> TAKE i \in 1..n
  <2>1. rs[R[i]] \in Int /\ rs[mid] \in Int
    <3>1. R[i] \in 1..r
      BY ONLY R \in Seq(1..r), i \in 1..n
    <3> QED
      BY ONLY <1>4, <3>1, \A x \in 1..r : rs[x] \in Int
  <2>2. CASE i < c
    <3> DEFINE d == c - 1
    <3>1. d \in 1..n /\ d + 1 = c /\ (i = d \/ i < d) /\ rs[R[d]] \in Int
      <4>1. d \in 1..n /\ d + 1 = c /\ (i = d \/ i < d)
        BY <1>1, <2>2
      <4> HIDE DEF d
      <4>2. R[d] \in 1..r
        BY <4>1
      <4> QED
        BY <4>1, <4>2
    <3> HIDE DEF d
    <3>2. rs[R[d]] < rs[mid]
      BY <1>3, <1>4, <3>1
    <3>3. i = d \/ rs[R[i]] < rs[R[d]]
      BY ONLY <1>3, <3>1, i \in 1..n DEF Rising
    <3> QED
      BY ONLY <2>1, <2>2, <3>1, <3>2, <3>3
  <2>3. CASE ~(i < c)
    <3>1. c \in 1..n /\ (i = c \/ c < i) /\ rs[R[c]] \in Int
      BY <1>1, <2>3
    <3>2. rs[mid] < rs[R[c]]
      BY <1>3, <1>4, <3>1
    <3>3. i = c \/ rs[R[c]] < rs[R[i]]
      BY ONLY <1>3, <3>1, i \in 1..n DEF Rising
    <3> QED
      BY ONLY <2>1, <2>3, <3>1, <3>2, <3>3
  <2> QED
    BY <2>2, <2>3
<1>8. Rising(rs, Q)
  <2>1. c \in 1..(Len(R) + 1) /\ \A i \in 1..Len(R) : IF i < c THEN rs[R[i]] < rs[mid] ELSE rs[mid] < rs[R[i]]
    BY <1>1, <1>7
  <2> HIDE DEF mid
  <2>2. Rising(rs, R) /\ mid \in 1..r
    BY <1>3, <1>4
  <2> QED
    BY ONLY <2>1, <2>2, RisingInsert, R \in Seq(1..r), \A x \in 1..r : rs[x] \in Int, Zenon
<1> HIDE DEF Q, B
\* the halves
<1>9. /\ Rising(rs, a) /\ \A j \in 1..Len(a) : rs[a[j]] < rs[mid] /\ \E i \in 1..m : a[j] = s[i]
  <2>1. \A j \in 1..half : j \in 1..m /\ j < half + 1
    <3> HIDE DEF m
    <3> QED
      BY ONLY <1>1, <1>2
  <2>2. \A j \in 1..half : rs[s[j]] < rs[mid]
    BY <1>1, <1>4, <2>1 DEF Rising
  <2>3. Rising(rs, a)
    BY <1>1, <1>2, <2>1 DEF Rising
  <2> QED
    BY <1>2, <2>1, <2>2, <2>3
<1>10. /\ Rising(rs, b) /\ \A j \in 1..Len(b) : rs[mid] < rs[b[j]] /\ \E i \in 1..m : b[j] = s[i]
  <2> DEFINE k == m - (half + 1)
  <2>1. /\ \A j \in 1..k : j + (half + 1) \in 1..m /\ half + 1 < j + (half + 1)
        /\ k \in Nat /\ Len(b) = k
    BY <1>1, <1>2
  <2>2. \A j \in 1..k : rs[mid] < rs[s[j + (half + 1)]]
    BY <1>1, <1>4, <2>1 DEF Rising
  <2>3. \A j \in 1..k : b[j] = s[j + (half + 1)]
    BY <1>2
  <2> HIDE DEF k
  <2>4. Rising(rs, b)
    <3> SUFFICES ASSUME NEW i \in 1..k, NEW j \in 1..k, i < j PROVE rs[b[i]] < rs[b[j]]
      BY <2>1 DEF Rising
    <3>1. i + (half + 1) < j + (half + 1)
      BY <1>2, <2>1
    <3> QED
      BY <1>1, <2>1, <2>3, <3>1 DEF Rising
  <2> QED
    BY <2>1, <2>2, <2>3, <2>4
<1> HIDE DEF s, a, b, mid
<1>11. ASSUME NEW i \in 1..(n + 1) PROVE \A j \in 1..Len(L[B[i]]) : rs[L[B[i]][j]] < rs[Q[i]]
  <2>1. CASE i < c
    <3>1. i \in 1..n /\ i \in 1..Len(D) /\ i # c /\ B[i] = D[i] /\ Q[i] = R[i]
      BY <1>1, <1>5, <1>6, <1>11, <2>1
    <3> QED
      BY <1>3, <3>1
  <2>2. CASE i = c
    <3>1. L[B[i]] = a /\ Q[i] = mid
      BY <1>1, <1>5, <1>6, <1>11, <2>2 DEF a
    <3> QED
      BY <1>9, <3>1
  <2>3. CASE i = c + 1
    <3>1. c \in 1..n /\ L[B[i]] = b /\ Q[i] = R[c]
      BY <1>1, <1>5, <1>6, <1>11, <2>3 DEF b
    <3>2. \A j \in 1..m : rs[s[j]] < rs[R[c]]
      BY <1>3, <3>1 DEF s
    <3> QED
      BY <1>10, <3>1, <3>2
  <2>4. CASE i > c + 1
    <3> DEFINE d == i - 1
    <3>1. d \in 1..n /\ d \in 1..Len(D) /\ d # c /\ B[i] = D[d] /\ Q[i] = R[d]
      BY <1>1, <1>5, <1>6, <1>11, <2>4
    <3> HIDE DEF d
    <3> QED
      BY <1>3, <3>1
  <2> QED
    BY <1>1, <1>11, <2>1, <2>2, <2>3, <2>4
<1>12. ASSUME NEW i \in 1..(n + 1) PROVE \A j \in 1..Len(L[B[i + 1]]) : rs[Q[i]] < rs[L[B[i + 1]][j]]
  <2>1. CASE i + 1 < c
    <3>0. i \in 1..n /\ i + 1 \in 1..Len(D) /\ i + 1 # c /\ i < c /\ i + 1 < c + 1 /\ i + 1 \in 1..(n + 2)
      BY ONLY <1>1, <1>12, <2>1
    <3>1. B[i + 1] = D[i + 1] /\ Q[i] = R[i]
      BY ONLY <1>5, <1>6, <1>12, <3>0
    <3>2. L[D[i + 1]] = K[D[i + 1]]
      BY <3>0
    <3> QED
      BY ONLY <1>3, <3>0, <3>1, <3>2
  <2>2. CASE i + 1 = c
    <3>0. i \in 1..n /\ i < c /\ i + 1 < c + 1 /\ i + 1 \in 1..(n + 2)
      BY ONLY <1>1, <1>12, <2>2
    <3>1. i \in 1..n /\ L[B[i + 1]] = a /\ Q[i] = R[i]
      BY ONLY <1>5, <1>6, <1>12, <2>2, <3>0 DEF a
    <3>2. \A j \in 1..m : rs[R[i]] < rs[s[j]]
      BY <1>3, <2>2, <3>1 DEF s
    <3> QED
      BY <1>9, <3>1, <3>2
  <2>3. CASE i = c
    <3>1. L[B[i + 1]] = b /\ Q[i] = mid
      BY <1>1, <1>5, <1>6, <1>12, <2>3 DEF b
    <3> QED
      BY <1>10, <3>1
  <2>4. CASE i > c
    <3> DEFINE d == i - 1
    <3>1. d \in 1..n /\ i \in 1..Len(D) /\ i # c /\ d + 1 = i /\ B[i + 1] = D[i] /\ Q[i] = R[d]
      <4>1. d \in 1..n /\ i \in 1..Len(D) /\ i # c /\ d + 1 = i /\ i + 1 \in 1..(n + 2) /\ ~(i + 1 < c + 1)
            /\ i + 1 # c + 1 /\ (i + 1) - 1 = i /\ ~(i < c)
        BY <1>1, <1>12, <2>4
      <4> QED
        BY <1>5, <1>6, <1>12, <4>1
    <3> HIDE DEF d
    <3>2. L[D[i]] = K[D[d + 1]]
      BY <3>1
    <3> QED
      BY <1>3, <3>1, <3>2
  <2> QED
    BY <1>1, <1>12, <2>1, <2>2, <2>3, <2>4
<1>13. ASSUME NEW i \in 1..(n + 2) PROVE Rising(rs, L[B[i]]) /\ Len(L[B[i]]) > 0
  <2>0. Len(a) > 0 /\ Len(b) > 0
    BY <1>1, <1>2
  <2>1. CASE i = c
    BY <1>1, <1>6, <1>9, <2>0, <2>1 DEF a
  <2>2. CASE i = c + 1
    BY <1>1, <1>6, <1>10, <2>0, <2>2 DEF b
  <2>3. CASE i < c
    <3>1. i \in 1..Len(D) /\ i # c /\ B[i] = D[i] /\ Len(D) > 1
      BY <1>1, <1>6, <1>13, <2>3
    <3> QED
      BY <1>3, <3>1
  <2>4. CASE i > c + 1
    <3> DEFINE d == i - 1
    <3>1. d \in 1..Len(D) /\ d # c /\ B[i] = D[d] /\ Len(D) > 1
      BY <1>1, <1>6, <1>13, <2>4
    <3> HIDE DEF d
    <3> QED
      BY <1>3, <3>1
  <2> QED
    BY <1>1, <1>13, <2>1, <2>2, <2>3, <2>4
<1>14. Ordered(rs, Q, B, L)
  BY <1>5, <1>6, <1>8, <1>11, <1>12, <1>13 DEF Ordered
<1> QED
  BY <1>14 DEF Q, B, mid, s

LEMMA FlatFacts ==
  ASSUME LevelInv, NEW R, NEW D, Flat(rows, node, frames, R, D)
  PROVE  /\ Len(rows) \in Nat /\ \A x \in 1..Len(rows) : rows[x] \in Int
         /\ R \in Seq(1..Len(rows)) /\ D \in Seq(Page) /\ Len(R) \in Nat /\ Len(D) = Len(R) + 1
         /\ \A i \in 1..Len(D) : /\ D[i] \in Pages(node)
                                 /\ Ids(node, frames)[D[i]] \in Seq(1..Len(rows))
                                 /\ \A j \in 1..Len(Ids(node, frames)[D[i]]) :
                                      Ids(node, frames)[D[i]][j] \in 1..Len(rows)
         /\ \A i \in 1..Len(R) : R[i] \in 1..Len(rows)
         /\ \A i, j \in 1..Len(D) : D[i] = D[j] => i = j
         /\ Pages(node) \subseteq Page /\ Root \in Pages(node) /\ \A p \in Pages(node) : node[p + 1] \in Node
         /\ Linked(node, frames, R, D) /\ Below(node, frames, D) /\ Ordered(rows, R, D, Ids(node, frames))
<1> DEFINE r == Len(rows)
           K == Ids(node, frames)
<1>1. Shapes /\ r \in Nat /\ rows \in Seq(Value) /\ Value \subseteq Int
  BY IndexTreeAssumption DEF LevelInv, Shapes
<1>2. \A x \in 1..r : rows[x] \in Int
  <2> TAKE x \in 1..r
  <2>1. rows[x] \in Value
    BY <1>1
  <2> QED
    BY <1>1, <2>1
<1>3. Pages(node) \subseteq Page /\ Root \in Pages(node) /\ \A p \in Pages(node) : node[p + 1] \in Node
  BY <1>1, UsedPages
<1>4. PICK h : Leveled(node, r, frames, h)
  BY DEF LevelInv
<1>5. R \in Seq(1..r) /\ D \in Seq(Page) /\ Len(R) \in Nat /\ Len(D) = Len(R) + 1
      /\ Linked(node, frames, R, D) /\ Below(node, frames, D) /\ Ordered(rows, R, D, K)
  BY DEF Flat
<1> HIDE DEF r
<1>6. ASSUME NEW p \in Pages(node) PROVE K[p] \in Seq(1..r)
  <2>1. CASE frames # <<>> /\ frames[1].page = p
    <3>1. 1 \in 1..Len(frames) /\ frames[1] \in Frame
      BY <1>1, <2>1 DEF Shapes
    <3> DEFINE s == frames[1].node.keys
    <3>2. NodeIn(Pages(node), Interiors(node), r, frames[1].node, h[frames[1].page], h)
      BY <1>4, <3>1 DEF Leveled, CallsIn, CallIn
    <3>3. s \in Seq(Id) /\ \A i \in 1..Len(s) : s[i] \in 1..r
      BY <3>1, <3>2 DEF Frame, Node, NodeIn
    <3> HIDE DEF s
    <3>4. s \in Seq(1..r)
      BY ONLY <3>3, KeysOf
    <3> QED
      BY <1>3, <2>1, <3>4 DEF Ids, s
  <2>2. CASE ~(frames # <<>> /\ frames[1].page = p)
    <3> DEFINE s == node[p + 1].keys
    <3>1. NodeIn(Pages(node), Interiors(node), r, node[p + 1], h[p], h)
      BY <1>4 DEF Leveled, PagesIn
    <3>2. s \in Seq(Id) /\ \A i \in 1..Len(s) : s[i] \in 1..r
      BY <1>3, <3>1 DEF Node, NodeIn
    <3> HIDE DEF s
    <3>3. s \in Seq(1..r)
      BY ONLY <3>2, KeysOf
    <3> QED
      BY <1>3, <2>2, <3>3 DEF Ids, s
  <2> QED
    BY <2>1, <2>2
<1> HIDE DEF K
<1>7. \A i, j \in 1..Len(D) : D[i] = D[j] => i = j
  BY <1>5 DEF Below
<1>8. \A i \in 1..Len(D) : D[i] \in Pages(node) /\ K[D[i]] \in Seq(1..r)
  BY <1>5, <1>6 DEF Below
<1> DEFINE S == 1..r
<1>9. R \in Seq(S) /\ \A i \in 1..Len(D) : K[D[i]] \in Seq(S)
  BY <1>5, <1>8
<1> HIDE DEF S
<1>10. \A i \in 1..Len(R) : R[i] \in S
  BY ONLY <1>9, EntryIn
<1>11. \A i \in 1..Len(D) : \A j \in 1..Len(K[D[i]]) : K[D[i]][j] \in S
  BY ONLY <1>9, EntryIn
<1> QED
  BY <1>1, <1>2, <1>3, <1>5, <1>7, <1>8, <1>10, <1>11 DEF K, r, S

LEMMA InitFlat == Init => FlatInv
<1> SUFFICES ASSUME Init PROVE Flat(rows, node, frames, <<>>, <<Root>>)
  BY DEF FlatInv
<1>1. rows = <<>> /\ node = <<Leaf(NoPage, <<>>)>> /\ frames = <<>>
  BY DEF Init
<1>2. /\ Len(rows) = 0 /\ Pages(node) = {Root} /\ node[Root + 1] = Leaf(NoPage, <<>>) /\ Root \in Page
      /\ Len(<<Root>>) = 1 /\ Len(<<>>) = 0
  BY <1>1, IndexTreeAssumption DEF Pages, Root, Page
<1>3. node[Root + 1].leaf /\ node[Root + 1].parent = NoPage /\ node[Root + 1].keys = <<>>
  BY <1>2 DEF Leaf
<1>4. Linked(node, frames, <<>>, <<Root>>)
  BY <1>1, <1>3 DEF Linked, Settled
<1>5. Below(node, frames, <<Root>>)
  BY <1>1, <1>2, <1>3 DEF Below, Parent
<1>6. Ids(node, frames)[Root] = <<>>
  BY <1>1, <1>2, <1>3 DEF Ids
<1>7. Ordered(rows, <<>>, <<Root>>, Ids(node, frames))
  BY <1>2, <1>6 DEF Ordered, Rising
<1> QED
  BY <1>2, <1>4, <1>5, <1>7 DEF Flat

\* The leaf find_bt_leaf ends in
LEMMA FlatLeaf ==
  ASSUME LevelInv, NEW R, NEW D, NEW K, FlatTree(R, D, K), NEW value
  PROVE  find_bt_leaf(value) = IF At0(Root).leaf THEN Root ELSE D[StepCell(At0(Root), value) + 1]
<1> DEFINE f == CHOOSE w : Walks(value, w)
           Kid(p) == At0(p).kids[StepCell(At0(p), value) + 1]
<1>1. Walks(value, f)
  <2>1. PICK h : IsHeight(h) /\ PagesIn(node, Len(rows), h)
    BY DEF LevelInv, Leveled
  <2> QED
    BY <2>1, WalkExists DEF LevelInv
<1>2. find_bt_leaf(value) = f[Root]
  BY DEF find_bt_leaf, Walks
<1> HIDE DEF f
<1>3. \A p \in Used : f[p] = IF At0(p).leaf THEN p ELSE f[Kid(p)]
  BY <1>1 DEF Walks
<1>4. Root \in Used
  BY DEF FlatTree
<1>5. CASE ~At0(Root).leaf
  <2>1. /\ At0(Root) \in Node /\ Len(D) = Len(R) + 1 /\ R = At0(Root).keys /\ D = At0(Root).kids
        /\ Len(R) \in Nat /\ \A i \in 1..Len(D) : D[i] \in Used /\ At0(D[i]).leaf
    BY <1>4, <1>5 DEF FlatTree, ValuesIn
  <2>2. StepCell(At0(Root), value) \in 0..Len(R)
    BY <2>1, StepRange
  <2>3. StepCell(At0(Root), value) + 1 \in 1..Len(D)
    BY <2>1, <2>2
  <2> QED
    BY <1>2, <1>3, <1>4, <1>5, <2>1, <2>3
<1> QED
  BY <1>2, <1>3, <1>4, <1>5

LEMMA InsertFlat ==
  ASSUME LevelInv, FlatInv, ~deep, IsInjective(rows'), insert_bt
  PROVE  \E R, D : Flat(rows', node', frames', R, D)
<1> DEFINE r == Len(rows)
           s == r + 1
           rs == rows'
<1>1. PICK value \in Value : /\ rows' = Append(rows, value)
                             /\ frames' = <<Call(find_bt_leaf(value),
                                                 WithKey(At0(find_bt_leaf(value)), s, value))>>
  BY Zenon DEF insert_bt
<1> DEFINE page == find_bt_leaf(value)
           n == At0(page)
           m == WithKey(n, s, value)
           f == Call(page, m)
<1>2. Shapes /\ frames = <<>> /\ r < MaxRows /\ node' = node /\ frames' = <<f>>
  BY <1>1 DEF LevelInv, insert_bt
<1>3. r \in Nat /\ s \in Id /\ rows \in Seq(Value) /\ value \in Int /\ Len(rs) = s
      /\ (\A x \in 1..r : rs[x] = rows[x]) /\ rs[s] = value /\ DOMAIN rs = 1..s /\ DOMAIN rows = 1..r
  BY <1>1, <1>2, IndexTreeAssumption DEF Shapes, Id
<1>4. IsInjective(rows) /\ \A x \in 1..r : rows[x] # value
  <2>1. \A x, y \in 1..s : rs[x] = rs[y] => x = y
    BY <1>3 DEF IsInjective
  <2> QED
    BY <1>3, <2>1 DEF IsInjective
<1>5. PICK R, D : Flat(rows, node, frames, R, D)
  BY <1>4 DEF FlatInv
<1> DEFINE K == Ids(node, frames)
           L == Ids(node', frames')
<1>6. FlatTree(R, D, K)
  BY <1>2, <1>5, FlatIsTree
<1>7. /\ \A x \in 1..r : rows[x] \in Int
      /\ R \in Seq(1..r) /\ D \in Seq(Page) /\ Len(R) \in Nat /\ Len(D) = Len(R) + 1
      /\ \A i \in 1..Len(D) : /\ D[i] \in Pages(node) /\ K[D[i]] \in Seq(1..r)
                              /\ \A j \in 1..Len(K[D[i]]) : K[D[i]][j] \in 1..r
      /\ \A i \in 1..Len(R) : R[i] \in 1..r
      /\ \A i, j \in 1..Len(D) : D[i] = D[j] => i = j
      /\ Pages(node) \subseteq Page
      /\ Linked(node, frames, R, D) /\ Below(node, frames, D) /\ Ordered(rows, R, D, K)
  BY <1>5, FlatFacts
<1>8. /\ Used = Pages(node) /\ \A p \in Used : At0(p) = node[p + 1] /\ At0(p) \in Node
  BY <1>2, UsedPages
<1> HIDE DEF r
\* the leaf, and its neighbours in the root
<1>9. PICK i0 \in 1..Len(D) : /\ page = D[i0]
                              /\ i0 > 1 => rows[R[i0 - 1]] < value
                              /\ i0 <= Len(R) => value < rows[R[i0]]
  <2>1. page = IF At0(Root).leaf THEN Root ELSE D[StepCell(At0(Root), value) + 1]
    BY <1>6, FlatLeaf
  <2> HIDE DEF page
  <2>2. CASE At0(Root).leaf
    <3>1. Len(R) = 0 /\ D[1] = Root
      BY <1>6, <2>2 DEF FlatTree
    <3>2. 1 \in 1..Len(D) /\ page = D[1] /\ ~(1 > 1) /\ ~(1 <= Len(R))
      BY <1>7, <2>1, <2>2, <3>1
    <3> QED
      BY <3>2
  <2>3. CASE ~At0(Root).leaf
    <3> DEFINE c == StepCell(At0(Root), value)
    <3>1. At0(Root) \in Node /\ R = At0(Root).keys
      BY <1>6, <2>3 DEF FlatTree, ValuesIn
    <3>2. c \in 0..Len(R) /\ (\A i \in 1..c : ~(value < rows[R[i]])) /\ (c < Len(R) => value < rows[R[c + 1]])
      BY <3>1, ChildCell
    <3>3. page = D[c + 1]
      BY <2>1, <2>3
    <3> HIDE DEF c
    <3>4. c + 1 \in 1..Len(D) /\ (c + 1) - 1 = c /\ (c + 1 > 1 => c \in 1..c /\ c \in 1..Len(R))
          /\ (c + 1 <= Len(R) => c < Len(R))
      BY <1>7, <3>2
    <3>5. c + 1 > 1 => rows[R[c]] < value
      <4> SUFFICES ASSUME c + 1 > 1 PROVE rows[R[c]] < value
        OBVIOUS
      <4>1. R[c] \in 1..r /\ ~(value < rows[R[c]])
        BY <1>7, <3>2, <3>4
      <4> QED
        BY <1>3, <1>4, <1>7, <4>1
    <3> QED
      BY <3>2, <3>3, <3>4, <3>5
  <2> QED
    BY <2>2, <2>3
<1>10. /\ page \in Pages(node) /\ page \in Page /\ n \in Node /\ n = node[page + 1] /\ n.leaf
       /\ n.parent = Parent(node) /\ K[page] = n.keys
  <2>1. page \in Pages(node) /\ node[page + 1].leaf /\ node[page + 1].parent = Parent(node)
    BY <1>7, <1>9 DEF Below
  <2> HIDE DEF page
  <2>2. K[page] = node[page + 1].keys
    BY <1>2, <1>7, <2>1 DEF Ids
  <2> QED
    BY <1>7, <1>8, <2>1, <2>2
<1> HIDE DEF page, n
\* where the entry goes
<1> DEFINE k == find_offset(n, value) + 1
<1>11. /\ Grown(m, n) /\ m.kids = n.kids /\ m.keys = InsertAt(n.keys, k, s)
       /\ k \in 1..(Len(n.keys) + 1)
       /\ \A i \in 1..Len(n.keys) : IF i < k THEN rows[n.keys[i]] < value ELSE value < rows[n.keys[i]]
  <2>1. n.keys \in Seq(1..r) /\ Rising(rows, n.keys) /\ \A i \in 1..Len(n.keys) : n.keys[i] \in 1..r
    BY <1>7, <1>9, <1>10 DEF Ordered
  <2> DEFINE c == find_offset(n, value)
             len == Len(n.keys)
  <2>2. c \in 0..len /\ (\A i \in 1..c : ~(value <= rows[n.keys[i]])) /\ (c < len => value <= rows[n.keys[c + 1]])
    BY <1>10, OffsetCell
  <2>3. m = [n EXCEPT !.keys = InsertAt(n.keys, k, s)]
    BY DEF WithKey
  <2>4. Grown(m, n) /\ m.kids = n.kids
    BY <1>3, <1>10, WithKeyNode
  <2>5. m.keys = InsertAt(n.keys, k, s)
    BY <1>10, <2>3 DEF Node
  <2> HIDE DEF c
  <2>6. len \in Nat /\ k \in 1..(len + 1) /\ k = c + 1
    BY <2>1, <2>2 DEF c
  <2> HIDE DEF k, m
  <2>7. ASSUME NEW i \in 1..len PROVE IF i < k THEN rows[n.keys[i]] < value ELSE value < rows[n.keys[i]]
    <3>1. n.keys[i] \in 1..r /\ rows[n.keys[i]] \in Int /\ rows[n.keys[i]] # value
      BY <1>4, <1>7, <2>1
    <3>2. CASE i < k
      <4>1. i \in 1..c
        BY <2>2, <2>6, <3>2
      <4> QED
        BY <1>3, <2>2, <3>1, <3>2, <4>1
    <3>3. CASE ~(i < k)
      <4>1. k \in 1..len /\ c < len /\ (i = k \/ k < i)
        BY ONLY <2>2, <2>6, <2>7, <3>3
      <4>0. n.keys[k] \in 1..r
        BY <2>1, <4>1
      <4>2. value <= rows[n.keys[k]] /\ rows[n.keys[k]] \in Int
        BY <1>7, <2>2, <2>6, <4>0, <4>1
      <4>3. i = k \/ rows[n.keys[k]] < rows[n.keys[i]]
        BY <2>1, <4>1 DEF Rising
      <4> QED
        BY <1>3, <3>1, <3>3, <4>2, <4>3
    <3> QED
      BY <3>2, <3>3
  <2> QED
    BY <2>4, <2>5, <2>6, <2>7
<1> HIDE DEF m, k
<1>12. f.page = page /\ f.node = m /\ f.pc \in {"split", "write"}
  BY DEF Call
<1> HIDE DEF f
<1>13. Len(frames') = 1 /\ frames'[1] = f /\ frames' # <<>>
  BY <1>2
<1>14. L[page] = m.keys /\ \A p \in Page \ {page} : L[p] = K[p]
  BY <1>2, <1>10, <1>12, <1>13 DEF Ids
<1>15. Linked(node', frames', R, D)
  <2>1. ~(Len(frames) = 1) /\ ~(Len(frames) = 2)
    BY <1>2
  <2> QED
    BY <1>2, <1>7, <1>12, <1>13, <2>1 DEF Linked, Settled
<1>16. Below(node', frames', D)
  <2>1. m.leaf /\ m.parent = Parent(node)
    BY <1>10, <1>11 DEF Grown
  <2> QED
    BY <1>2, <1>7, <1>9, <1>12, <1>13, <2>1 DEF Below, Parent
<1>17. R \in Seq(1..s) /\ \A i \in 1..Len(R) : R[i] \in 1..r /\ rs[R[i]] = rows[R[i]]
  <2>1. \A i \in 1..Len(R) : R[i] \in 1..r
    BY ONLY <1>7
  <2>2. \A x \in 1..r : x \in 1..s
    BY <1>3
  <2>3. \A i \in 1..Len(R) : R[i] \in 1..s
    BY <2>1, <2>2
  <2> DEFINE S == 1..r
             T == 1..s
  <2>4. R \in Seq(S) /\ \A i \in 1..Len(R) : R[i] \in T
    BY <1>7, <2>3
  <2> HIDE DEF S, T
  <2>5. R \in Seq(T)
    BY ONLY <2>4, KeysOf
  <2> QED
    BY <1>3, <2>1, <2>5 DEF T
<1> HIDE DEF K, L
<1>18. Ordered(rs, R, D, L)
  <2> HIDE DEF rs
  <2>1. \A x \in 1..s : rs[x] \in Int
    <3> TAKE x \in 1..s
    <3>1. x \in 1..r \/ x = s
      BY <1>3
    <3> QED
      BY <1>3, <1>7, <3>1
  <2>2. \A i \in 1..Len(D) : /\ K[D[i]] \in Seq(1..s)
                             /\ \A j \in 1..Len(K[D[i]]) : K[D[i]][j] \in 1..r /\ rs[K[D[i]][j]] = rows[K[D[i]][j]]
    <3> TAKE i \in 1..Len(D)
    <3> DEFINE t == K[D[i]]
               S == 1..r
               T == 1..s
    <3>1. t \in Seq(S) /\ S \subseteq T
      BY <1>3, <1>7
    <3>2. \A j \in 1..Len(t) : t[j] \in S
      BY <1>7
    <3> HIDE DEF t, S, T
    <3>3. t \in Seq(T)
      BY ONLY <3>1, <3>2, KeysOf
    <3>4. \A j \in 1..Len(t) : t[j] \in 1..r
      BY <3>2 DEF S
    <3>5. \A j \in 1..Len(t) : rs[t[j]] = rows[t[j]]
      BY <1>3, <3>4 DEF rs
    <3> QED
      BY <3>3, <3>4, <3>5 DEF t, T
  <2>3. Ordered(rs, R, D, K)
    <3>1. \A i \in 1..Len(R) : i \in 1..Len(D) /\ i + 1 \in 1..Len(D)
      BY <1>7
    <3>2. Rising(rs, R)
      BY <1>7, <1>17 DEF Ordered, Rising
    <3>3. \A i \in 1..Len(D) : Rising(rs, K[D[i]])
      <4> TAKE i \in 1..Len(D)
      <4>1. Rising(rows, K[D[i]])
        BY <1>7 DEF Ordered
      <4> QED
        BY <2>2, <4>1 DEF Rising
    <3>4. ASSUME NEW i \in 1..Len(R)
          PROVE  /\ \A j \in 1..Len(K[D[i]]) : rs[K[D[i]][j]] < rs[R[i]]
                 /\ \A j \in 1..Len(K[D[i + 1]]) : rs[R[i]] < rs[K[D[i + 1]][j]]
      <4>1. /\ \A j \in 1..Len(K[D[i]]) : rows[K[D[i]][j]] < rows[R[i]]
            /\ \A j \in 1..Len(K[D[i + 1]]) : rows[R[i]] < rows[K[D[i + 1]][j]]
        BY <1>7 DEF Ordered
      <4> QED
        BY <1>17, <2>2, <3>1, <4>1
    <3>5. Len(D) > 1 => \A i \in 1..Len(D) : Len(K[D[i]]) > 0
      BY <1>7 DEF Ordered
    <3> QED
      BY ONLY <3>2, <3>3, <3>4, <3>5 DEF Ordered
  <2>4. /\ \A i \in 1..Len(D) : i # i0 => L[D[i]] = K[D[i]]
        /\ L[D[i0]] = InsertAt(K[D[i0]], k, s) /\ k \in 1..(Len(K[D[i0]]) + 1) /\ s \in 1..s
    <3>1. \A i \in 1..Len(D) : i # i0 => D[i] \in Page \ {page}
      BY <1>7, <1>9
    <3> QED
      BY <1>3, <1>9, <1>10, <1>11, <1>14, <3>1
  <2>5. \A i \in 1..Len(K[D[i0]]) : IF i < k THEN rs[K[D[i0]][i]] < rs[s] ELSE rs[s] < rs[K[D[i0]][i]]
    <3> TAKE i \in 1..Len(K[D[i0]])
    <3>1. K[D[i0]] = n.keys /\ rs[n.keys[i]] = rows[n.keys[i]]
      BY <1>9, <1>10, <2>2
    <3>2. rs[s] = value
      BY <1>3 DEF rs
    <3> QED
      BY <1>11, <3>1, <3>2
  <2>6. /\ i0 > 1 => rs[R[i0 - 1]] < rs[s]
        /\ i0 <= Len(R) => rs[s] < rs[R[i0]]
    <3>1. (i0 > 1 => i0 - 1 \in 1..Len(R)) /\ (i0 <= Len(R) => i0 \in 1..Len(R)) /\ rs[s] = value
      BY <1>3, <1>7 DEF rs
    <3> QED
      BY <1>9, <1>17, <3>1 DEF rs
  <2>7. s \in Nat
    BY <1>3
  <2> HIDE DEF s
  <2> QED
    BY ONLY <1>7, <1>9, <1>17, <2>1, <2>2, <2>3, <2>4, <2>5, <2>6, <2>7, OrderedPut
<1>19. Flat(rows', node', frames', R, D)
  BY <1>3, <1>7, <1>15, <1>16, <1>17, <1>18 DEF Flat, L
<1> QED
  BY <1>19

\* The calls of an insert in a flat tree: the one at the leaf, and that of the root
LEMMA FlatCall ==
  ASSUME LevelInv, frames # <<>>, NEW R, NEW D, Flat(rows, node, frames, R, D)
  PROVE  /\ Len(frames) \in {1, 2} /\ Top = frames[Len(frames)] /\ Top \in Frame
         /\ Top.node \in Node /\ Top.page \in Page /\ Top.page \in Pages(node)
         /\ frames[1].node.leaf /\ frames[1].node.parent = Parent(node)
         /\ \E c \in 1..Len(D) : D[c] = frames[1].page
         /\ Len(frames) = 1 => /\ Ids(node, frames)[Top.page] = Top.node.keys
                               /\ Top.pc = "up" => ~node[Root + 1].leaf
         /\ Len(frames) = 2 => /\ ~Top.node.leaf /\ Top.page = Root /\ Top.pc \in {"split", "write"}
                               /\ ~node[Root + 1].leaf /\ Top.node.parent = NoPage
                               /\ R = Top.node.keys /\ D = Top.node.kids
<1>1. /\ Top \in Frame /\ Top = frames[Len(frames)] /\ Len(frames) \in Nat \ {0}
      /\ Top.page \in Pages(node) /\ Top.page \in Page /\ Top.node \in Node
  BY CallPages
<1>2. Linked(node, frames, R, D) /\ Below(node, frames, D)
  BY DEF Flat
<1>3. Len(frames) \in {1, 2}
  BY <1>2 DEF Linked, Settled
<1>4. node[Top.page + 1].leaf = Top.node.leaf
  <2>1. PICK h : Leveled(node, Len(rows), frames, h)
    BY DEF LevelInv
  <2>2. CallIn(node, Len(rows), Top, h)
    BY <2>1, CallFacts DEF LevelInv
  <2> QED
    BY <2>2 DEF CallIn
<1>5. Len(frames) = 1 => /\ Ids(node, frames)[Top.page] = Top.node.keys
                         /\ Top.pc = "up" => ~node[Root + 1].leaf
  <2>1. Len(frames) = 1 => Ids(node, frames)[Top.page] = Top.node.keys
    BY <1>1 DEF Ids
  <2>2. Len(frames) = 1 /\ Top.pc = "up" => ~node[Root + 1].leaf
    BY <1>1, <1>2 DEF Linked, Settled
  <2> QED
    BY <2>1, <2>2
<1>6. Len(frames) = 2 => /\ ~Top.node.leaf /\ Top.page = Root /\ Top.pc \in {"split", "write"}
                         /\ ~node[Root + 1].leaf /\ Top.node.parent = NoPage
                         /\ R = Top.node.keys /\ D = Top.node.kids
  BY <1>1, <1>2, <1>4 DEF Linked, Settled
<1>7. /\ frames[1].node.leaf /\ frames[1].node.parent = Parent(node)
      /\ \E c \in 1..Len(D) : D[c] = frames[1].page
  BY <1>2 DEF Below
<1> QED
  BY <1>1, <1>3, <1>5, <1>6, <1>7

\* A list of different elements with one element more
Apart(s) == \A i, j \in 1..Len(s) : s[i] = s[j] => i = j
Wider(t, s, e) == /\ Len(t) = Len(s) + 1
                  /\ \A i \in 1..Len(t) : t[i] = e \/ \E j \in 1..Len(s) : t[i] = s[j]
                  /\ \A j \in 1..Len(s) : \E i \in 1..Len(t) : t[i] = s[j]
                  /\ \E i \in 1..Len(t) : t[i] = e
LEMMA InsertApart ==
  ASSUME NEW S, NEW s \in Seq(S), NEW e \in S, NEW k \in 1..(Len(s) + 1),
         Apart(s), \A i \in 1..Len(s) : s[i] # e
  PROVE  /\ InsertAt(s, k, e) \in Seq(S) /\ Apart(InsertAt(s, k, e))
         /\ Wider(InsertAt(s, k, e), s, e)
<1> DEFINE t == InsertAt(s, k, e)
           n == Len(s)
<1>0. t \in Seq(S) /\ Inserts(t, s, k, e)
  BY ONLY s \in Seq(S), e \in S, k \in 1..(Len(s) + 1), InsertAtMakes, Zenon
<1>1. /\ t \in Seq(S) /\ Len(t) = n + 1 /\ n \in Nat /\ n = Len(s) /\ k \in 1..(n + 1)
      /\ \A j \in 1..(n + 1) : t[j] = IF j < k THEN s[j] ELSE IF j = k THEN e ELSE s[j - 1]
  <2> HIDE DEF t
  <2> QED
    BY ONLY <1>0, s \in Seq(S), k \in 1..(Len(s) + 1) DEF Inserts
<1> HIDE DEF t, n
<1> DEFINE From(i) == IF i < k THEN i ELSE i - 1
<1>2. \A i \in 1..(n + 1) : i # k => From(i) \in 1..n /\ t[i] = s[From(i)]
  BY <1>1
<1>3. \A i, j \in 1..(n + 1) : i # k /\ j # k /\ From(i) = From(j) => i = j
  BY <1>1
<1>4. t[k] = e
  BY <1>1
<1>5. \A i, j \in 1..(n + 1) : t[i] = t[j] => i = j
  <2> HIDE DEF From
  <2> TAKE i, j \in 1..(n + 1)
  <2>1. CASE i = k /\ j = k
    BY <2>1
  <2>2. CASE i = k /\ j # k
    BY <1>1, <1>2, <1>4, <2>2
  <2>3. CASE i # k /\ j = k
    BY <1>1, <1>2, <1>4, <2>3
  <2>4. CASE i # k /\ j # k
    BY <1>1, <1>2, <1>3, <2>4 DEF Apart
  <2> QED
    BY <2>1, <2>2, <2>3, <2>4
<1>6. \A j \in 1..n : \E i \in 1..(n + 1) : t[i] = s[j]
  <2> TAKE j \in 1..n
  <2>1. CASE j < k
    <3>1. j \in 1..(n + 1) /\ t[j] = s[j]
      BY <1>1, <2>1
    <3> QED
      BY <3>1
  <2>2. CASE ~(j < k)
    <3> DEFINE i == j + 1
    <3>1. i \in 1..(n + 1) /\ ~(i < k) /\ i # k /\ i - 1 = j
      BY <1>1, <2>2
    <3>2. t[i] = s[j]
      BY <1>1, <3>1
    <3> QED
      BY <3>1, <3>2
  <2> QED
    BY <2>1, <2>2
<1>7. \A i \in 1..(n + 1) : t[i] = e \/ \E j \in 1..n : t[i] = s[j]
  <2> HIDE DEF From
  <2> QED
    BY <1>2, <1>4
<1> QED
  BY <1>1, <1>4, <1>5, <1>6, <1>7 DEF t, Apart, Wider

LEMMA InsertLast ==
  ASSUME NEW S, NEW s \in Seq(S), NEW e \in S, NEW k \in 1..(Len(s) + 1)
  PROVE  k = Len(s) + 1 => InsertAt(s, k, e) = Append(s, e)
<1> DEFINE t == InsertAt(s, k, e)
<1>1. t \in Seq(S) /\ Inserts(t, s, k, e)
  BY ONLY s \in Seq(S), e \in S, k \in 1..(Len(s) + 1), InsertAtMakes, Zenon
<1> HIDE DEF t
<1>2. k = Len(s) + 1 => \A j \in 1..(Len(s) + 1) : t[j] = Append(s, e)[j]
  BY <1>1 DEF Inserts
<1>3. k = Len(s) + 1 => t = Append(s, e)
  BY <1>1, <1>2 DEF Inserts
<1> QED
  BY <1>3 DEF t

LEMMA InsertFirst ==
  ASSUME NEW S, NEW a \in S, NEW e \in S
  PROVE  InsertAt(<<>>, 1, e) = <<e>> /\ InsertAt(<<a>>, 2, e) = <<a, e>>
<1>1. \A s \in Seq(S) : \A k \in 1..(Len(s) + 1) : k = Len(s) + 1 => InsertAt(s, k, e) = Append(s, e)
  BY InsertLast
<1>2. /\ <<>> \in Seq(S) /\ 1 \in 1..(Len(<<>>) + 1) /\ 1 = Len(<<>>) + 1
      /\ <<a>> \in Seq(S) /\ 2 \in 1..(Len(<<a>>) + 1) /\ 2 = Len(<<a>>) + 1
  OBVIOUS
<1>3. InsertAt(<<>>, 1, e) = Append(<<>>, e) /\ InsertAt(<<a>>, 2, e) = Append(<<a>>, e)
  BY <1>1, <1>2
<1> QED
  BY <1>3

LEMMA HalfRoom == Half \in Nat /\ 1 <= Half /\ Half + 2 <= ORDER
  BY IndexTreeAssumption DEF Half

LEMMA SplitFlat ==
  ASSUME LevelInv, FlatInv, ~deep', IsInjective(rows), split_bt_node
  PROVE  \E R, D : Flat(rows', node', frames', R, D)
<1> DEFINE r == Len(rows)
           n == Top.node
           page == Top.page
           new == Len(node)
           mid == n.keys[Half + 1]
<1>1. /\ frames # <<>> /\ Top.pc = "split" /\ rows' = rows /\ ~deep /\ n.leaf
  BY DEF split_bt_node, At
<1>2. PICK R, D : Flat(rows, node, frames, R, D)
  BY <1>1 DEF FlatInv
<1> DEFINE K == Ids(node, frames)
           L == Ids(node', frames')
<1>3. /\ Len(frames) = 1 /\ Top = frames[1] /\ n \in Node /\ page \in Page /\ page \in Pages(node)
      /\ n.parent = Parent(node) /\ K[page] = n.keys /\ \E c \in 1..Len(D) : D[c] = page
  BY <1>1, <1>2, FlatCall
<1>4. /\ \A x \in 1..r : rows[x] \in Int
      /\ r \in Nat /\ R \in Seq(1..r) /\ D \in Seq(Page) /\ Len(R) \in Nat /\ Len(D) = Len(R) + 1
      /\ \A i \in 1..Len(D) : D[i] \in Pages(node) /\ K[D[i]] \in Seq(1..r)
      /\ \A i, j \in 1..Len(D) : D[i] = D[j] => i = j
      /\ Pages(node) \subseteq Page /\ Root \in Pages(node)
      /\ Linked(node, frames, R, D) /\ Below(node, frames, D) /\ Ordered(rows, R, D, K)
  BY <1>2, FlatFacts
<1>5. PICK c \in 1..Len(D) : D[c] = page
  BY <1>3
<1>6. PICK f \in Frame : /\ LastSet(frames, frames', f) /\ f.page = page /\ f.node = Left(n)
                         /\ f.key = mid /\ f.sibling = new
                         /\ f.pc = IF n.parent = NoPage THEN "root" ELSE "up"
  BY SplitMakes
<1>7. /\ Len(n.keys) = ORDER /\ n.kids = <<>> /\ Appended(node, node', Right(n))
      /\ Left(n).leaf = n.leaf /\ Right(n).leaf = n.leaf
  BY <1>1, SplitMakes
<1>8. /\ Left(n).parent = n.parent /\ Right(n).parent = n.parent
      /\ Part(Left(n).keys, n.keys, 0, Half) /\ Part(Right(n).keys, n.keys, Half + 1, ORDER - (Half + 1))
  BY <1>1, <1>3, <1>7, Halves, HalvesParts DEF Grown
<1>9. /\ new \in Page /\ new \notin Pages(node) /\ Pages(node') = Pages(node) \union {new}
      /\ node'[new + 1] = Right(n) /\ (\A p \in Pages(node) : node'[p + 1] = node[p + 1])
      /\ Len(frames') = 1 /\ frames' # <<>> /\ frames'[1] = f
  <2>1. Len(frames') = 1 /\ frames'[1] = f
    BY <1>3, <1>6 DEF LastSet
  <2>2. Appended(node, node', Right(n))
    BY <1>7
  <2> DEFINE a == Right(n)
  <2> HIDE DEF n, a
  <2>3. /\ Len(node) \in Page /\ Len(node) \notin Pages(node)
        /\ Pages(node') = Pages(node) \union {Len(node)}
        /\ node'[Len(node) + 1] = Right(n) /\ (\A p \in Pages(node) : node'[p + 1] = node[p + 1])
    BY ONLY <2>2 DEF Appended
  <2>4. frames' # <<>>
    BY <2>1
  <2> QED
    BY ONLY <2>1, <2>3, <2>4 DEF new
<1> HIDE DEF r, n, page, new, mid
<1>10. L[page] = Left(n).keys /\ L[new] = Right(n).keys /\ \A p \in Pages(node) : p # page => L[p] = K[p]
  <2>1. new # page
    BY <1>3, <1>9
  <2>2. L[page] = Left(n).keys /\ L[new] = Right(n).keys
    BY <1>3, <1>6, <1>9, <2>1 DEF Ids
  <2>3. ASSUME NEW p \in Pages(node), p # page PROVE L[p] = K[p]
    <3>1. p \in Page /\ frames[1].page = page
      BY <1>3, <1>4, <2>3 DEF page
    <3> QED
      BY <1>1, <1>6, <1>9, <2>3, <3>1 DEF Ids
  <2> QED
    BY <2>2, <2>3
<1> DEFINE Q == InsertAt(R, c, mid)
           B == InsertAt(D, c + 1, new)
<1>11. Cut(K[D[c]], L[D[c]], L[new], Half)
  <2> DEFINE s == n.keys
             a == Left(n).keys
             b == Right(n).keys
  <2>1. /\ K[D[c]] = s /\ L[D[c]] = a /\ L[new] = b /\ Len(s) = ORDER
        /\ Part(a, s, 0, Half) /\ Part(b, s, Half + 1, ORDER - (Half + 1))
    BY <1>3, <1>5, <1>7, <1>8, <1>10
  <2> HIDE DEF s, a, b
  <2>2. /\ Half \in Nat /\ 1 <= Half /\ Half + 2 <= Len(s) /\ Len(a) = Half
        /\ Len(b) = Len(s) - (Half + 1)
    BY <2>1, HalfRoom DEF Part
  <2>3. \A j \in 1..Half : a[j] = s[j]
    <3>1. \A j \in 1..Half : a[j] = s[0 + j] /\ 0 + j = j
      BY <2>1, <2>2 DEF Part
    <3> QED
      BY <3>1
  <2>4. \A j \in 1..(Len(s) - (Half + 1)) : b[j] = s[j + (Half + 1)]
    <3>1. \A j \in 1..(Len(s) - (Half + 1)) : b[j] = s[(Half + 1) + j] /\ (Half + 1) + j = j + (Half + 1)
      BY <2>1, <2>2 DEF Part
    <3> QED
      BY <3>1
  <2>5. Cut(s, a, b, Half)
    BY <2>2, <2>3, <2>4 DEF Cut
  <2> QED
    BY <2>1, <2>5
<1> HIDE DEF K, L
<1>12. Ordered(rows, Q, B, L)
  <2>1. \A i \in 1..Len(D) : i # c => L[D[i]] = K[D[i]]
    BY <1>4, <1>5, <1>10
  <2>2. K[D[c]][Half + 1] = mid
    BY <1>3, <1>5 DEF mid
  <2>3. Ordered(rows, InsertAt(R, c, K[D[c]][Half + 1]), InsertAt(D, c + 1, new), L)
    BY ONLY <1>4, <1>9, <1>11, <2>1, OrderedCut
  <2> QED
    BY <2>2, <2>3
<1>13. Q \in Seq(1..r) /\ Len(Q) = Len(R) + 1
  <2> DEFINE S == 1..r
  <2>1. R \in Seq(S) /\ c \in 1..(Len(R) + 1)
    BY <1>4
  <2>2. mid \in S
    <3>1. n.keys \in Seq(S) /\ Half + 1 \in 1..Len(n.keys)
      <4>1. n.keys = K[D[c]] /\ Half + 1 \in 1..ORDER
        BY <1>3, <1>5, HalfRoom, IndexTreeAssumption
      <4> QED
        BY <1>4, <1>7, <4>1
    <3> HIDE DEF S
    <3> QED
      BY <3>1 DEF mid
  <2> HIDE DEF S
  <2>3. Q \in Seq(S) /\ Len(Q) = Len(R) + 1
    BY ONLY <2>1, <2>2, InsertAtEntries
  <2> QED
    BY <2>3 DEF S
<1>14. /\ B \in Seq(Page) /\ Len(B) = Len(D) + 1 /\ \A i, j \in 1..Len(B) : B[i] = B[j] => i = j
       /\ \A i \in 1..Len(B) : B[i] = new \/ \E j \in 1..Len(D) : B[i] = D[j]
       /\ \A j \in 1..Len(D) : \E i \in 1..Len(B) : B[i] = D[j]
       /\ \E i \in 1..Len(B) : B[i] = new
  <2> DEFINE d == c + 1
  <2>1. d \in 1..(Len(D) + 1) /\ \A i \in 1..Len(D) : D[i] # new
    BY <1>4, <1>9
  <2> HIDE DEF d
  <2>2. InsertAt(D, d, new) \in Seq(Page) /\ Apart(InsertAt(D, d, new)) /\ Wider(InsertAt(D, d, new), D, new)
    <3>1. Apart(D)
      BY ONLY <1>4 DEF Apart
    <3> QED
      BY ONLY <1>4, <1>9, <2>1, <3>1, InsertApart
  <2> QED
    BY <2>2 DEF d, Apart, Wider
<1>15. Parent(node') = Parent(node) /\ node'[Root + 1] = node[Root + 1]
  BY <1>4, <1>9 DEF Parent
<1>16. Linked(node', frames', Q, B)
  <2>1. Settled(frames)
    BY <1>1, <1>3, <1>4 DEF Linked
  <2>2. IF node[Root + 1].leaf THEN R = <<>> /\ D = <<Root>> ELSE R = node[Root + 1].keys /\ D = node[Root + 1].kids
    BY <1>1, <1>3, <1>4 DEF Linked
  <2>3. CASE node[Root + 1].leaf
    <3>1. c = 1 /\ page = Root /\ f.pc = "root"
      BY <1>3, <1>4, <1>5, <1>6, <2>2, <2>3 DEF Parent
    <3>2. InsertAt(<<>>, 1, mid) = <<mid>>
      BY InsertFirst
    <3>3. InsertAt(<<Root>>, 2, new) = <<Root, new>>
      <4>1. Root \in Page /\ new \in Page
        BY <1>4, <1>9
      <4> QED
        BY ONLY <4>1, InsertFirst
    <3>4. Q = <<mid>> /\ B = <<Root, new>>
      BY <2>2, <2>3, <3>1, <3>2, <3>3
    <3> QED
      BY <1>6, <1>9, <1>15, <2>3, <3>1, <3>4 DEF Linked
  <2>4. CASE ~node[Root + 1].leaf
    <3>1. f.pc = "up"
      BY <1>3, <1>6, <2>4 DEF Parent, NoPage, Root
    <3>2. c \in 1..(Len(node[Root + 1].keys) + 1) /\ R = node[Root + 1].keys /\ D = node[Root + 1].kids
      BY <1>4, <2>2, <2>4
    <3> QED
      BY <1>6, <1>9, <1>15, <2>4, <3>1, <3>2 DEF Linked
  <2> QED
    BY <2>3, <2>4
<1> HIDE DEF Q, B
<1>17. Below(node', frames', B)
  <2>1. ASSUME NEW i \in 1..Len(B)
        PROVE  B[i] \in Pages(node') /\ node'[B[i] + 1].leaf /\ node'[B[i] + 1].parent = Parent(node')
    <3>1. CASE B[i] = new
      <4>1. Right(n).leaf /\ Right(n).parent = Parent(node')
        BY ONLY <1>1, <1>3, <1>7, <1>8, <1>15
      <4>2. B[i] \in Pages(node') /\ node'[B[i] + 1] = Right(n)
        BY ONLY <1>9, <3>1
      <4> QED
        BY ONLY <4>1, <4>2
    <3>2. CASE B[i] # new
      <4>1. PICK j \in 1..Len(D) : B[i] = D[j]
        BY <1>14, <3>2
      <4>2. D[j] \in Pages(node) /\ node[D[j] + 1].leaf /\ node[D[j] + 1].parent = Parent(node)
        BY <1>4 DEF Below
      <4>3. D[j] \in Pages(node') /\ node'[D[j] + 1] = node[D[j] + 1]
        BY ONLY <1>9, <4>2
      <4> QED
        BY ONLY <1>15, <4>1, <4>2, <4>3
    <3> QED
      BY <3>1, <3>2
  <2>2. ASSUME NEW p \in Pages(node') PROVE p = Root \/ \E i \in 1..Len(B) : B[i] = p
    <3>1. CASE p = new
      BY <1>14, <3>1
    <3>2. CASE p # new
      <4>1. p = Root \/ \E j \in 1..Len(D) : D[j] = p
        BY <1>4, <1>9, <3>2 DEF Below
      <4> QED
        BY <1>14, <4>1
    <3> QED
      BY <3>1, <3>2
  <2>3. node'[Root + 1].parent = NoPage
    BY <1>4, <1>15 DEF Below
  <2>4. /\ frames'[1].node.leaf /\ frames'[1].node.parent = Parent(node')
        /\ \E i \in 1..Len(B) : B[i] = frames'[1].page
    <3>1. Left(n).leaf /\ Left(n).parent = Parent(node')
      BY ONLY <1>1, <1>3, <1>7, <1>8, <1>15
    <3>2. \E i \in 1..Len(B) : B[i] = page
      BY ONLY <1>5, <1>14
    <3> QED
      BY ONLY <1>6, <1>9, <3>1, <3>2
  <2> QED
    BY <1>14, <2>1, <2>2, <2>3, <2>4 DEF Below
<1>18. Len(B) = Len(Q) + 1
  BY <1>4, <1>13, <1>14
<1>19. Flat(rows', node', frames', Q, B)
  BY <1>1, <1>12, <1>13, <1>14, <1>16, <1>17, <1>18 DEF Flat, L, r
<1> QED
  BY <1>19

LEMMA CreateRootFlat ==
  ASSUME LevelInv, FlatInv, ~deep, IsInjective(rows), create_root_bt
  PROVE  \E R, D : Flat(rows', node', frames', R, D)
<1> DEFINE r == Len(rows)
           n == Top.node
           key == Top.key
           sibling == Top.sibling
           new == Len(node)
           moved == [n EXCEPT !.parent = Root]
           root == Interior(NoPage, <<>>, <<new>>)
           f == [Top EXCEPT !.node = [n EXCEPT !.parent = Top.page], !.page = NewPage, !.pc = "up"]
<1>1. frames # <<>> /\ Top.pc = "root" /\ rows' = rows /\ Shapes
  BY DEF create_root_bt, At, LevelInv
<1>2. PICK R, D : Flat(rows, node, frames, R, D)
  BY DEF FlatInv
<1> DEFINE K == Ids(node, frames)
           L == Ids(node', frames')
<1>3. /\ Len(frames) = 1 /\ Top = frames[1] /\ Top \in Frame /\ n \in Node /\ n.leaf /\ K[Top.page] = n.keys
  BY <1>1, <1>2, FlatCall
<1>4. /\ R \in Seq(1..r) /\ Len(R) \in Nat /\ Len(D) = Len(R) + 1
      /\ \A i \in 1..Len(D) : D[i] \in Pages(node)
      /\ \A i, j \in 1..Len(D) : D[i] = D[j] => i = j
      /\ Pages(node) \subseteq Page /\ Root \in Pages(node) /\ \A p \in Pages(node) : node[p + 1] \in Node
      /\ Linked(node, frames, R, D) /\ Below(node, frames, D) /\ Ordered(rows, R, D, K)
  BY <1>2, FlatFacts
<1>5. node[Root + 1].leaf /\ Top.page = Root /\ R = <<key>> /\ D = <<Root, sibling>>
  BY <1>1, <1>3, <1>4 DEF Linked, Settled
<1>6. /\ Len(D) = 2 /\ Len(R) = 1 /\ sibling \in Pages(node) /\ sibling # Root
      /\ node[sibling + 1].leaf
  <2>1. Len(D) = 2 /\ D[1] = Root /\ D[2] = sibling /\ Len(R) = 1
    BY <1>5
  <2> HIDE DEF sibling
  <2>2. 1 \in 1..Len(D) /\ 2 \in 1..Len(D) /\ 1 # 2
    BY <2>1
  <2> QED
    BY <1>4, <2>1, <2>2 DEF Below
<1>7. RootMade(node, node', Root, n, sibling) /\ SetTop(f)
  <2>1. PICK h : Leveled(node, Len(rows), frames, h)
    BY DEF LevelInv
  <2> QED
    BY <1>5, <2>1, RootIsMade
<1>8. /\ f \in Frame /\ f.page = new /\ f.node = moved /\ f.pc = "up" /\ f.key = key /\ f.sibling = sibling
      /\ new \in Page /\ new \notin Pages(node) /\ Pages(node') = Pages(node) \union {new}
      /\ moved \in Node /\ moved.keys = n.keys /\ moved.leaf /\ moved.parent = Root
      /\ node'[new + 1] = moved /\ node'[Root + 1] = root
  BY <1>3, <1>4, <1>5, <1>7 DEF RootMade, Node, Frame, NewPage
<1>9. node'[sibling + 1].keys = node[sibling + 1].keys /\ node'[sibling + 1].leaf /\ node'[sibling + 1].parent = Root
  <2>1. node'[sibling + 1] = [node[sibling + 1] EXCEPT !.parent = Root]
    BY <1>6, <1>7 DEF RootMade
  <2>2. node[sibling + 1] \in Node
    BY <1>4, <1>6
  <2> QED
    BY <1>6, <2>1, <2>2 DEF Node
<1>10. root.keys = <<>> /\ root.kids = <<new>> /\ ~root.leaf /\ root.parent = NoPage
  BY DEF Interior
<1> HIDE DEF f
<1>11. Len(frames') = 1 /\ frames' # <<>> /\ frames'[1] = f
  <2>1. LastSet(frames, frames', f)
    BY <1>1, <1>7, <1>8, TopIsSet
  <2>2. Len(frames') = 1 /\ frames'[1] = f
    BY <1>3, <2>1 DEF LastSet
  <2> QED
    BY <2>2
<1> DEFINE B == <<new, sibling>>
<1>12. /\ B \in Seq(Page) /\ Len(B) = 2 /\ B[1] = new /\ B[2] = sibling /\ new # sibling
  BY <1>4, <1>6, <1>8
<1>13. D[1] = Root /\ D[2] = sibling
  BY <1>5
<1> HIDE DEF n, key, sibling, new, moved, root, B, r
<1>14. L[new] = K[Root] /\ L[sibling] = K[sibling]
  <2>1. L[new] = moved.keys
    BY <1>8, <1>11 DEF Ids
  <2>2. L[sibling] = node'[sibling + 1].keys
    BY <1>4, <1>6, <1>8, <1>11, <1>12 DEF Ids
  <2>3. K[sibling] = node[sibling + 1].keys
    BY <1>3, <1>4, <1>5, <1>6 DEF Ids
  <2>4. K[Root] = n.keys
    BY <1>3, <1>5
  <2> QED
    BY <1>8, <1>9, <2>1, <2>2, <2>3, <2>4
<1> HIDE DEF K, L
<1>15. Ordered(rows, R, B, L)
  <2>1. \A i \in 1..Len(D) : L[B[i]] = K[D[i]]
    <3> TAKE i \in 1..Len(D)
    <3>1. i = 1 \/ i = 2
      BY <1>6
    <3> QED
      BY <1>12, <1>13, <1>14, <3>1
  <2>2. Len(B) = Len(D)
    BY <1>6, <1>12
  <2> QED
    BY ONLY <1>4, <2>1, <2>2, OrderedMoved
<1>16. Linked(node', frames', R, B)
  <2>1. InsertAt(<<>>, 1, key) = <<key>>
    BY InsertFirst
  <2>2. InsertAt(<<new>>, 2, sibling) = <<new, sibling>>
    <3>1. new \in Page /\ sibling \in Page
      BY <1>4, <1>6, <1>8
    <3> QED
      BY ONLY <3>1, InsertFirst
  <2>3. 1 \in 1..(Len(root.keys) + 1) /\ R = InsertAt(root.keys, 1, key) /\ B = InsertAt(root.kids, 1 + 1, sibling)
    BY <1>5, <1>10, <2>1, <2>2 DEF B
  <2> QED
    BY <1>8, <1>10, <1>11, <2>3 DEF Linked
<1>17. Below(node', frames', B)
  <2>1. Parent(node') = Root
    BY <1>8, <1>10 DEF Parent
  <2>2. \A i \in 1..Len(B) : i = 1 \/ i = 2
    BY <1>12
  <2>3. \A i, j \in 1..Len(B) : B[i] = B[j] => i = j
    BY <1>12, <2>2
  <2>4. \A i \in 1..Len(B) : B[i] \in Pages(node') /\ node'[B[i] + 1].leaf /\ node'[B[i] + 1].parent = Root
    <3> TAKE i \in 1..Len(B)
    <3>1. CASE i = 1
      BY <1>8, <1>12, <3>1
    <3>2. CASE i = 2
      BY <1>6, <1>8, <1>9, <1>12, <3>2
    <3> QED
      BY <2>2, <3>1, <3>2
  <2>5. 1 \in 1..Len(B) /\ 2 \in 1..Len(B)
    BY <1>12
  <2>6. ASSUME NEW p \in Pages(node') PROVE p = Root \/ \E i \in 1..Len(B) : B[i] = p
    <3>1. CASE p = new
      BY <1>12, <2>5, <3>1
    <3>2. CASE p # new
      <4>1. p = Root \/ \E i \in 1..Len(D) : D[i] = p
        BY <1>4, <1>8, <3>2 DEF Below
      <4>2. \A i \in 1..Len(D) : i = 1 \/ i = 2
        BY <1>6
      <4>3. p = Root \/ p = sibling
        BY <1>13, <4>1, <4>2
      <4> QED
        BY <1>12, <2>5, <4>3
    <3> QED
      BY <3>1, <3>2
  <2>7. node'[Root + 1].parent = NoPage
    BY <1>8, <1>10
  <2>8. /\ frames'[1].node.leaf /\ frames'[1].node.parent = Root
        /\ \E i \in 1..Len(B) : B[i] = frames'[1].page
    BY <1>8, <1>11, <1>12, <2>5
  <2> QED
    BY <2>1, <2>3, <2>4, <2>6, <2>7, <2>8 DEF Below
<1>18. Len(B) = Len(R) + 1
  BY <1>6, <1>12
<1>19. Flat(rows', node', frames', R, B)
  BY <1>1, <1>4, <1>12, <1>15, <1>16, <1>17, <1>18 DEF Flat, L, r
<1> QED
  BY <1>19

\* Where insert_internal_bt puts the entry and the page
LEMMA WithChildAt ==
  ASSUME NEW n \in Node, NEW id, NEW page
  PROVE  LET c == find_offset(n, rows[id]) + 1
             m == WithChild(n, id, page)
         IN  m.keys = InsertAt(n.keys, c, id) /\ m.kids = InsertAt(n.kids, c + 1, page)
<1> DEFINE d == find_offset(n, rows[id])
           keys == InsertAt(n.keys, d + 1, id)
           kids == InsertAt(n.kids, d + 2, page)
<1>1. d \in Nat
  <2>1. Len(n.keys) \in Nat /\ d \in 0..Len(n.keys)
    BY OffsetRange DEF Node
  <2> QED
    BY <2>1
<1>2. WithChild(n, id, page) = [[n EXCEPT !.keys = keys] EXCEPT !.kids = kids]
  <2>1. [n EXCEPT !.keys = keys].kids = n.kids
    BY DEF Node
  <2> QED
    BY <2>1 DEF WithChild, WithKey
<1> HIDE DEF keys, kids, d
<1>3. [[n EXCEPT !.keys = keys] EXCEPT !.kids = kids].keys = keys
      /\ [[n EXCEPT !.keys = keys] EXCEPT !.kids = kids].kids = kids
  BY DEF Node
<1>4. (d + 1) + 1 = d + 2
  BY <1>1
<1> QED
  BY <1>2, <1>3, <1>4 DEF keys, kids, d

LEMMA InternalFlat ==
  ASSUME LevelInv, FlatInv, ~deep, IsInjective(rows), insert_internal_bt
  PROVE  \E R, D : Flat(rows', node', frames', R, D)
<1> DEFINE r == Len(rows)
           n == node[Root + 1]
           key == Top.key
           sibling == Top.sibling
           m == WithChild(n, key, sibling)
           f == Call(Root, m)
           done == [Top EXCEPT !.pc = "write"]
<1>1. frames # <<>> /\ Top.pc = "up" /\ rows' = rows /\ node' = node /\ Shapes
  BY DEF insert_internal_bt, At, LevelInv
<1>2. PICK R, D : Flat(rows, node, frames, R, D)
  BY DEF FlatInv
<1>3. /\ Len(frames) = 1 /\ Top = frames[1] /\ Top \in Frame /\ ~n.leaf /\ Top.node.parent = Root
  <2>1. Len(frames) = 1 /\ Top = frames[1] /\ Top \in Frame /\ ~n.leaf /\ Top.node.parent = Parent(node)
    BY <1>1, <1>2, FlatCall
  <2> QED
    BY <2>1 DEF Parent
<1>4. /\ r \in Nat /\ \A x \in 1..r : rows[x] \in Int
      /\ R \in Seq(1..r) /\ D \in Seq(Page) /\ Len(R) \in Nat /\ Len(D) = Len(R) + 1
      /\ \A i \in 1..Len(R) : R[i] \in 1..r
      /\ \A i \in 1..Len(D) : D[i] \in Pages(node)
      /\ Pages(node) \subseteq Page /\ Root \in Pages(node) /\ \A p \in Pages(node) : node[p + 1] \in Node
      /\ Linked(node, frames, R, D) /\ Below(node, frames, D) /\ Ordered(rows, R, D, Ids(node, frames))
  BY <1>2, FlatFacts
<1>5. PICK c \in 1..(Len(n.keys) + 1) : R = InsertAt(n.keys, c, key) /\ D = InsertAt(n.kids, c + 1, sibling)
  BY <1>1, <1>3, <1>4 DEF Linked, Settled
<1>6. /\ n \in Node /\ key \in Id /\ f \in Frame
      /\ f.pc \in {"split", "write"} /\ f.page = Root /\ f.node = m
      /\ Len(n.kids) = Len(n.keys) + 1 /\ sibling \in Page
  BY <1>3, InternalMakes
<1>7. Grown(m, n)
  BY <1>6, WithChildNode
<1>8. n.parent = NoPage
  BY <1>4 DEF Below
<1>9. done.page = Top.page /\ done.node = Top.node /\ done.pc = "write" /\ done \in Frame
  BY <1>3 DEF Frame
<1>10. /\ n.keys \in Seq(Id) /\ Len(n.keys) \in Nat /\ Len(R) = Len(n.keys) + 1
       /\ \A j \in 1..(Len(n.keys) + 1) :
            R[j] = IF j < c THEN n.keys[j] ELSE IF j = c THEN key ELSE n.keys[j - 1]
  <2> DEFINE s == n.keys
  <2>1. s \in Seq(Id) /\ key \in Id /\ c \in 1..(Len(s) + 1) /\ R = InsertAt(s, c, key)
    BY <1>5, <1>6 DEF Node
  <2> HIDE DEF s, key
  <2>2. Inserts(R, s, c, key)
    BY ONLY <2>1, InsertAtMakes, Zenon
  <2>3. Len(s) \in Nat
    BY ONLY <2>1
  <2>4. s \in Seq(Id) /\ Len(s) \in Nat /\ Inserts(R, s, c, key)
    BY ONLY <2>1, <2>2, <2>3
  <2> QED
    BY ONLY <2>4 DEF Inserts, s
<1> DEFINE t == n.keys
           l == Len(t)
<1>11. t \in Seq(Id) /\ l \in Nat /\ Len(R) = l + 1 /\ l = Len(t)
       /\ \A j \in 1..(l + 1) : R[j] = IF j < c THEN t[j] ELSE IF j = c THEN key ELSE t[j - 1]
  BY <1>10
<1>12. c \in 1..(l + 1)
  BY <1>5
<1> HIDE DEF r, m, f, done, key, sibling, t, l
\* the place of the entry is the one at which the leaf was split
<1>13. \A i \in 1..l : t[i] \in 1..r /\ (IF i < c THEN rows[t[i]] < rows[key] ELSE rows[key] < rows[t[i]])
  <2>1. Rising(rows, R)
    BY <1>4 DEF Ordered
  <2> TAKE i \in 1..l
  <2>2. c \in 1..Len(R) /\ R[c] = key
    BY <1>11, <1>12
  <2>3. CASE i < c
    <3>1. i \in 1..Len(R) /\ R[i] = t[i]
      BY <1>11, <1>12, <2>3
    <3> QED
      BY <1>4, <2>1, <2>2, <2>3, <3>1 DEF Rising
  <2>4. CASE ~(i < c)
    <3> DEFINE j == i + 1
    <3>1. j \in 1..Len(R) /\ R[j] = t[i] /\ c < j
      BY <1>11, <1>12, <2>4
    <3> HIDE DEF j
    <3> QED
      BY <1>4, <2>1, <2>2, <2>4, <3>1 DEF Rising
  <2> QED
    BY <2>3, <2>4
<1>14. find_offset(n, rows[key]) + 1 = c
  <2> DEFINE d == c - 1
  <2>1. key \in 1..r /\ rows[key] \in Int
    BY <1>4, <1>11, <1>12
  <2>2. d \in 0..l /\ d + 1 = c /\ (\A i \in 1..d : i \in 1..l /\ i < c) /\ (d < l => c \in 1..l /\ ~(c < c))
    BY <1>11, <1>12
  <2>3. ValuesIn(rows, n)
    BY <1>4, <1>6, <1>13 DEF ValuesIn, t, l, r
  <2>8. d < l => rows[t[d + 1]] \in Int
    BY ONLY <1>4, <1>13, <2>2
  <2> HIDE DEF d
  <2>4. (\A i \in 1..d : rows[t[i]] < rows[key]) /\ (d < l => rows[key] < rows[t[d + 1]])
    BY ONLY <1>13, <2>2
  <2>5. d < l => rows[key] <= rows[t[d + 1]]
    BY ONLY <2>1, <2>4, <2>8
  <2>6. find_offset(n, rows[key]) = d
    BY <2>1, <2>2, <2>3, <2>4, <2>5, OffsetIs DEF t, l
  <2> QED
    BY <2>2, <2>6
<1>15. m.keys = R /\ m.kids = D
  <2> HIDE DEF n
  <2> DEFINE a == find_offset(n, rows[key]) + 1
  <2>1. WithChild(n, key, sibling).keys = InsertAt(n.keys, a, key)
        /\ WithChild(n, key, sibling).kids = InsertAt(n.kids, a + 1, sibling)
    BY <1>6, WithChildAt
  <2> HIDE DEF a
  <2>2. a = c
    BY <1>14 DEF a
  <2> QED
    BY <1>5, <2>1, <2>2 DEF m
<1>16. Len(frames') = 2 /\ frames'[1] = done /\ frames'[2] = f
  <2> DEFINE front == Front(frames)
  <2>1. frames' = Append(front \o <<done>>, f)
    BY <1>3 DEF insert_internal_bt, f, m, done, At0, key, sibling
  <2>2. front \in Seq(Frame) /\ Len(front) = 0
    BY <1>1, <1>3, FrontOfCalls
  <2> HIDE DEF front
  <2>3. front \o <<done>> = <<done>>
    BY <1>9, <2>2
  <2> QED
    BY <1>6, <1>9, <2>1, <2>3
<1>17. frames # <<>> /\ frames' # <<>> /\ frames'[1].page = frames[1].page /\ frames'[1].node = frames[1].node
  <2>1. frames # <<>> /\ frames' # <<>>
    BY ONLY <1>1, <1>16
  <2>2. frames'[1].page = frames[1].page /\ frames'[1].node = frames[1].node
    BY ONLY <1>3, <1>9, <1>16
  <2> QED
    BY <2>1, <2>2
<1>18. Ids(node', frames') = Ids(node, frames)
  BY <1>1, <1>17 DEF Ids
<1>19. Linked(node', frames', R, D)
  <2>1. m.parent = NoPage
    BY <1>7, <1>8 DEF Grown
  <2> QED
    BY <1>1, <1>3, <1>6, <1>15, <1>16, <2>1 DEF Linked
<1>20. Below(node', frames', D)
  BY <1>1, <1>4, <1>17 DEF Below
<1>21. Flat(rows', node', frames', R, D)
  BY <1>1, <1>4, <1>18, <1>19, <1>20 DEF Flat, r
<1> QED
  BY <1>21

LEMMA ReturnFlat ==
  ASSUME LevelInv, FlatInv, ~deep, IsInjective(rows), Return
  PROVE  \E R, D : Flat(rows', node', frames', R, D)
<1> DEFINE r == Len(rows)
           n == Top.node
           page == Top.page
           root == node[Root + 1]
<1>1. /\ frames # <<>> /\ Top.pc = "write" /\ rows' = rows /\ Shapes
      /\ node' = [node EXCEPT ![page + 1] = n] /\ frames' = Front(frames)
  BY DEF Return, At, LevelInv, WriteNode
<1>2. PICK R, D : Flat(rows, node, frames, R, D)
  BY DEF FlatInv
<1> DEFINE K == Ids(node, frames)
           L == Ids(node', frames')
<1>3. /\ Len(frames) \in {1, 2} /\ Top = frames[Len(frames)] /\ n \in Node /\ page \in Page /\ page \in Pages(node)
      /\ frames[1].node.leaf /\ frames[1].node.parent = Parent(node)
      /\ \E c \in 1..Len(D) : D[c] = frames[1].page
      /\ Len(frames) = 1 => K[page] = n.keys
      /\ Len(frames) = 2 => /\ ~n.leaf /\ page = Root /\ ~root.leaf /\ n.parent = NoPage
                            /\ R = n.keys /\ D = n.kids
  BY <1>1, <1>2, FlatCall
<1>4. /\ R \in Seq(1..r) /\ D \in Seq(Page) /\ Len(R) \in Nat /\ Len(D) = Len(R) + 1
      /\ \A i \in 1..Len(D) : D[i] \in Pages(node)
      /\ \A i, j \in 1..Len(D) : D[i] = D[j] => i = j
      /\ Pages(node) \subseteq Page /\ Root \in Pages(node)
      /\ Linked(node, frames, R, D) /\ Below(node, frames, D) /\ Ordered(rows, R, D, K)
  BY <1>2, FlatFacts
<1>5. /\ Pages(node') = Pages(node)
      /\ \A p \in Pages(node) : node'[p + 1] = IF p = page THEN n ELSE node[p + 1]
  <2>1. Replaced(node, node', page, n)
    BY <1>1, <1>3, ReplacePage DEF Shapes
  <2> HIDE DEF page, n
  <2> QED
    BY <2>1 DEF Replaced
<1>6. \A i \in 1..Len(D) : D[i] \in Pages(node) /\ node[D[i] + 1].leaf /\ node[D[i] + 1].parent = Parent(node)
  BY <1>4 DEF Below
<1>7. \A p \in Pages(node) : p = Root \/ \E i \in 1..Len(D) : D[i] = p
  BY <1>4 DEF Below
<1>8. Len(frames') = Len(frames) - 1 /\ \A i \in 1..(Len(frames) - 1) : frames'[i] = frames[i]
  BY <1>1, FrontOfCalls
<1> HIDE DEF r, n, page, root
\* the leaf is written
<1>9. ASSUME Len(frames) = 1
      PROVE  Linked(node', frames', R, D) /\ Below(node', frames', D) /\ \A i \in 1..Len(D) : L[D[i]] = K[D[i]]
  <2>1. frames' = <<>> /\ page = frames[1].page /\ n = frames[1].node
    <3>1. frames' = <<>>
      BY <1>1, <1>9, FrontOfCalls
    <3> QED
      BY <1>3, <1>9, <3>1 DEF page, n
  <2>2. n.leaf /\ n.parent = Parent(node) /\ K[page] = n.keys
    BY <1>3, <1>9, <2>1
  <2>3. PICK c \in 1..Len(D) : D[c] = page
    BY <1>3, <2>1
  <2>4. node[page + 1].leaf
    BY <1>6, <2>3
  <2>5. IF root.leaf THEN R = <<>> /\ D = <<Root>> ELSE R = root.keys /\ D = root.kids
    BY <1>1, <1>3, <1>4, <1>9 DEF Linked, Settled, root
  <2>6. /\ root.leaf => page = Root /\ node'[Root + 1] = n
        /\ ~root.leaf => page # Root /\ node'[Root + 1] = root
    <3>1. CASE root.leaf
      <4>1. Len(D) = 1 /\ D[1] = Root
        BY <2>5, <3>1
      <4>2. page = Root
        BY <2>3, <4>1
      <4> QED
        BY <1>4, <1>5, <3>1, <4>2
    <3>2. CASE ~root.leaf
      <4>1. page # Root
        BY <2>4, <3>2 DEF root
      <4> QED
        BY <1>4, <1>5, <3>2, <4>1 DEF root
    <3> QED
      BY <3>1, <3>2
  <2>7. Parent(node') = Parent(node)
    BY <2>2, <2>6 DEF Parent, root
  <2>8. Linked(node', frames', R, D)
    BY <2>1, <2>2, <2>5, <2>6 DEF Linked, Settled
  <2>9. Below(node', frames', D)
    <3>1. \A i \in 1..Len(D) : D[i] \in Pages(node') /\ node'[D[i] + 1].leaf
                               /\ node'[D[i] + 1].parent = Parent(node')
      <4> TAKE i \in 1..Len(D)
      <4>1. CASE D[i] = page
        BY ONLY <1>3, <1>5, <2>2, <2>7, <4>1
      <4>2. CASE D[i] # page
        BY ONLY <1>5, <1>6, <2>7, <4>2
      <4> QED
        BY <4>1, <4>2
    <3>2. node'[Root + 1].parent = NoPage
      <4>1. root.parent = NoPage
        BY <1>4 DEF Below, root
      <4> QED
        BY <2>2, <2>6, <4>1 DEF Parent, root
    <3> QED
      BY <1>4, <1>5, <1>7, <2>1, <3>1, <3>2 DEF Below
  <2>10. ASSUME NEW i \in 1..Len(D) PROVE L[D[i]] = K[D[i]]
    <3>1. D[i] \in Pages(node) /\ D[i] \in Page
      BY <1>4
    <3>2. L[D[i]] = node'[D[i] + 1].keys
      BY <2>1, <3>1 DEF Ids
    <3>3. CASE D[i] = page
      BY <1>5, <2>2, <3>1, <3>2, <3>3
    <3>4. CASE D[i] # page
      <4>1. K[D[i]] = node[D[i] + 1].keys
        BY <2>1, <3>1, <3>4 DEF Ids
      <4> QED
        BY <1>5, <3>1, <3>2, <3>4, <4>1
    <3> QED
      BY <3>3, <3>4
  <2> QED
    BY <2>8, <2>9, <2>10
\* the root is written
<1>10. ASSUME Len(frames) = 2
       PROVE  Linked(node', frames', R, D) /\ Below(node', frames', D) /\ \A i \in 1..Len(D) : L[D[i]] = K[D[i]]
  <2>1. /\ Top = frames[2] /\ ~n.leaf /\ page = Root /\ ~root.leaf /\ n.parent = NoPage
        /\ R = n.keys /\ D = n.kids
    BY <1>3, <1>10
  <2>2. /\ Len(frames') = 1 /\ frames' # <<>> /\ frames'[1] = frames[1] /\ frames[1].pc = "write"
    <3>1. 1 \in 1..(Len(frames) - 1) /\ Len(frames') = 1
      BY <1>8, <1>10
    <3>2. frames[1].pc = "write"
      BY <1>1, <3>1, CallPages
    <3>3. frames'[1] = frames[1]
      BY <1>8, <3>1
    <3>4. frames' # <<>>
      BY <3>1
    <3> QED
      BY <3>1, <3>2, <3>3, <3>4
  <2>3. node'[Root + 1] = n /\ \A p \in Pages(node) : p # Root => node'[p + 1] = node[p + 1]
    BY <1>4, <1>5, <2>1
  <2>4. \A i \in 1..Len(D) : D[i] # Root
    BY <1>6, <2>1 DEF root
  <2>5. Parent(node') = Parent(node)
    BY <2>1, <2>3 DEF Parent, root
  <2>6. Linked(node', frames', R, D)
    BY <2>1, <2>2, <2>3 DEF Linked, Settled
  <2>7. Below(node', frames', D)
    <3>1. \A i \in 1..Len(D) : D[i] \in Pages(node') /\ node'[D[i] + 1].leaf
                               /\ node'[D[i] + 1].parent = Parent(node')
      BY ONLY <1>5, <1>6, <2>3, <2>4, <2>5
    <3>2. node'[Root + 1].parent = NoPage
      BY <2>1, <2>3
    <3>3. /\ frames'[1].node.leaf /\ frames'[1].node.parent = Parent(node')
          /\ \E i \in 1..Len(D) : D[i] = frames'[1].page
      BY <1>3, <2>2, <2>5
    <3> QED
      BY <1>4, <1>5, <1>7, <3>1, <3>2, <3>3 DEF Below
  <2>8. ASSUME NEW i \in 1..Len(D) PROVE L[D[i]] = K[D[i]]
    <3>1. D[i] \in Pages(node) /\ D[i] \in Page /\ node'[D[i] + 1] = node[D[i] + 1]
      BY <1>4, <2>3, <2>4
    <3> QED
      BY <1>1, <2>2, <3>1 DEF Ids
  <2> QED
    BY <2>6, <2>7, <2>8
<1> HIDE DEF K, L
<1>11. Linked(node', frames', R, D) /\ Below(node', frames', D) /\ \A i \in 1..Len(D) : L[D[i]] = K[D[i]]
  BY <1>3, <1>9, <1>10
<1>12. Ordered(rows, R, D, L)
  BY ONLY <1>4, <1>11, OrderedMoved
<1>13. Flat(rows', node', frames', R, D)
  BY <1>1, <1>4, <1>11, <1>12 DEF Flat, L, r
<1> QED
  BY <1>13

LEMMA NextFlat == ASSUME LevelInv, FlatInv, [Next]_vars PROVE FlatInv'
<1>1. CASE deep' \/ ~IsInjective(rows')
  BY <1>1 DEF FlatInv
<1>2. CASE ~deep' /\ IsInjective(rows')
  <2> SUFFICES \E R, D : Flat(rows', node', frames', R, D)
    BY DEF FlatInv
  <2>1. CASE insert_bt
    BY <1>2, <2>1, InsertFlat DEF insert_bt
  <2>2. CASE split_bt_node
    BY <1>2, <2>2, SplitFlat DEF split_bt_node
  <2>3. CASE create_root_bt
    BY <1>2, <2>3, CreateRootFlat DEF create_root_bt
  <2>4. CASE insert_internal_bt
    BY <1>2, <2>4, InternalFlat DEF insert_internal_bt
  <2>5. CASE Return
    BY <1>2, <2>5, ReturnFlat DEF Return
  <2>6. CASE UNCHANGED vars
    BY <1>2, <2>6 DEF vars, FlatInv
  <2> QED
    BY <2>1, <2>2, <2>3, <2>4, <2>5, <2>6 DEF Next
<1> QED
  BY <1>1, <1>2

LEMMA AlwaysFlat == Spec => [](LevelInv /\ OnceInv /\ FlatInv)
<1>1. Init => FlatInv
  BY InitFlat
<1>2. LevelInv /\ FlatInv /\ [Next]_vars => FlatInv'
  BY NextFlat
<1> QED
  BY <1>1, <1>2, AlwaysOnce, PTL DEF Spec

\* FindAllExact for every tree: while no interior node has been split and no value
\* repeats, find_all answers a value that a row has with this row, once, whatever
\* the order the values arrived in and wherever the splits of leaves fell.
THEOREM FindAllIsExact == Spec => []FindAllExact
<1>1. LevelInv /\ OnceInv /\ FlatInv => FindAllExact
  <2> SUFFICES ASSUME LevelInv, OnceInv, FlatInv, Idle, ~deep, IsInjective(rows), NEW value \in ToSet(rows)
               PROVE  Exact(value)
    BY DEF FindAllExact
  <2> QED
    BY FlatExact
<1> QED
  BY <1>1, AlwaysFlat, PTL
=============================================================================
