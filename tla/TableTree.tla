------------------------------ MODULE TableTree ------------------------------
(***************************************************************************)
(* The tree of a table (server-side/schema/cursor.c) and the rows inserted *)
(* into it (insert_row of db_ops.c).  A row is its key, the id get_next_id *)
(* takes from the row of the table in TABLES, so keys only ascend.         *)
(*                                                                         *)
(* An insert is modelled write by write: it holds its nodes in memory      *)
(* while insert, create_root and the recursive insert_internal store one   *)
(* page after the other, and the process may end between any two writes,   *)
(* through sigintHandler and exit(0) or killed.  A page is what read_node  *)
(* returns (NodeCache), a new page the next one of the file: the server    *)
(* frees none (PageStore).                                                 *)
(***************************************************************************)
EXTENDS Integers, Sequences, FiniteSets, SequencesExt

CONSTANTS ORDER,        \* of the tree: a node of ORDER keys is split
          MaxKey,       \* bound on the ids handed out
          MaxPages,     \* bound on the pages of the file
          MaxCrashes    \* bound on the ends of the process

ASSUME TableTreeAssumption == /\ ORDER \in Nat /\ ORDER >= 3
                              /\ MaxKey \in Nat /\ MaxPages \in Nat \ {0}
                              /\ MaxCrashes \in Nat

Root == 0                       \* the page of the root never changes
NoPage == -1                    \* (Page)-1
Page == 0..(MaxPages - 1)
Link == Page \union {NoPage}
Key == Nat

\* A node as read_node returns it: next is child_addrs[0] of a leaf, kids the
\* child_addrs of an interior node.
Node == [leaf : BOOLEAN, parent : Link, keys : Seq(Key), kids : Seq(Page), next : Link]
Leaf(parent, keys, next) ==
  [leaf |-> TRUE, parent |-> parent, keys |-> keys, kids |-> <<>>, next |-> next]
Interior(parent, keys, kids) ==
  [leaf |-> FALSE, parent |-> parent, keys |-> keys, kids |-> kids, next |-> NoPage]
Blank == [blank |-> TRUE]       \* a page of zeros: read_node returns NULL

VARIABLES db,           \* the file as the process sees it, and rows, torn:
                        \*   rows: auxiliary, the ids of the rows stored: insert has
                        \*         returned, or the process ended and they are found
                        \*   torn: auxiliary, create_root has replaced the root and
                        \*         the new root does not list both halves yet
          file,         \* the file as the system has it: one write behind (PageStore)
          frames,       \* the calls of insert, insert_internal in progress
          crashes,      \* how many processes have ended
          lost          \* auxiliary: one ended with the tree torn

vars == <<db, file, frames, crashes, lost>>

-----------------------------------------------------------------------------
\* Writes.  Each hands the previous one to the system.
WriteNode(d, page, node) == [d EXCEPT !.node[page] = node]

\* create_addr on a file without free pages saves the header first.
create_addr(d) == [d EXCEPT !.nb_pages = @ + 1]
NewPage == db.nb_pages

\* get_next_id stores the id after the one it returns.
get_next_id(d) == [d EXCEPT !.next_id = @ + 1]

Written(d, page) == page \in 0..(d.nb_pages - 1) /\ d.node[page] # Blank
Pages(d) == {p \in Page : Written(d, p)}
Leaves(d) == {p \in Pages(d) : d.node[p].leaf}

-----------------------------------------------------------------------------
\* The offset of a key in a node, from 0: after every smaller one
Offset(node, key) ==
  CHOOSE c \in 0..Len(node.keys) :
    /\ \A i \in 1..c : node.keys[i] < key
    /\ c < Len(node.keys) => key <= node.keys[c + 1]

\* The cell of the child to enter for a key, from 0: after every key that is
\* not greater
Cell(node, key) ==
  CHOOSE c \in 0..Len(node.keys) :
    /\ \A i \in 1..c : node.keys[i] <= key
    /\ c < Len(node.keys) => key < node.keys[c + 1]

\* The leaf the key belongs to, NoPage when the walk meets a page of zeros
find_leaf(d, root, key) ==
  LET walk[p \in Page] ==
        IF ~Written(d, p) THEN NoPage
        ELSE IF d.node[p].leaf THEN p
        ELSE walk[d.node[p].kids[Cell(d.node[p], key) + 1]]
  IN  walk[root]

\* The search of select_where and get_row
Found(d, key) == \E page \in Leaves(d) : /\ page = find_leaf(d, Root, key)
                                          /\ key \in ToSet(d.node[page].keys)

\* The row goes into a leaf, the page of a split-off node into its parent.
WithRow(node, key) == [node EXCEPT !.keys = InsertAt(@, Offset(node, key) + 1, key)]

\* Mutant: the page is linked before the key's offset, as if it held the
\* smaller half.
WithChildBefore(node, key, page) ==
  [node EXCEPT !.keys = InsertAt(@, Offset(node, key) + 1, key),
               !.kids = InsertAt(@, Offset(node, key) + 1, page)]

WithChild(node, key, page) ==
  [node EXCEPT !.keys = InsertAt(@, Offset(node, key) + 1, key),
               !.kids = InsertAt(@, Offset(node, key) + 2, page)]

\* Mutant: a node is split when it holds more than ORDER keys.
CallSplitLate(page, node) ==
  [page |-> page, node |-> node,
   pc |-> IF Len(node.keys) > ORDER THEN "split" ELSE "write",
   key |-> 0, sibling |-> NoPage, moved |-> NoPage, child |-> 1]

\* A call: the page and the node it holds in memory, what it does next, and
\* after its split the key and page for the parent.
Call(page, node) ==
  [page |-> page, node |-> node,
   pc |-> IF Len(node.keys) >= ORDER THEN "split" ELSE "write",
   key |-> 0, sibling |-> NoPage, moved |-> NoPage, child |-> 1]

Top == frames[Len(frames)]
SetTop(f) == frames' = [frames EXCEPT ![Len(frames)] = f]
At(pc) == frames # <<>> /\ Top.pc = pc

\* One or two writes of the process; the system is one behind.
Store(d) == db' = d /\ file' = db /\ UNCHANGED <<crashes, lost>>
StoreTwo(d1, d2) == db' = d2 /\ file' = d1 /\ UNCHANGED <<crashes, lost>>

-----------------------------------------------------------------------------
\* Mutant: the id of the next row is not stored before the row.
InsertBeforeId ==
  /\ frames = <<>> /\ ~lost
  /\ db.next_id <= MaxKey
  /\ \E page \in Leaves(db) :
       /\ page = find_leaf(db, Root, db.next_id)
       /\ frames' = <<Call(page, WithRow(db.node[page], db.next_id))>>
  /\ Store(db)

\* insert_row: get_next_id, then insert finds the leaf and puts the row into its
\* node.
insert ==
  /\ frames = <<>> /\ ~lost
  /\ db.next_id <= MaxKey
  /\ \E page \in Leaves(db) :
       /\ page = find_leaf(db, Root, db.next_id)
       /\ frames' = <<Call(page, WithRow(db.node[page], db.next_id))>>
  /\ Store(get_next_id(db))

Half == ORDER \div 2

\* Mutant: the row in the middle goes into neither leaf, as the key in the
\* middle of an interior node does.
RightLeafLikeInternal(n) == Leaf(n.parent, SubSeq(n.keys, Half + 2, ORDER), NoPage)

\* The two leaves of a split one: the new one has the upper half of the rows,
\* and the old one links to it.
RightLeaf(n) == Leaf(n.parent, SubSeq(n.keys, Half + 1, ORDER), NoPage)

\* Mutant: the old leaf keeps its link, past the new one.
LeftLeafUnlinked(n, new_page) == Leaf(n.parent, SubSeq(n.keys, 1, Half), n.next)

LeftLeaf(n, new_page) == Leaf(n.parent, SubSeq(n.keys, 1, Half), new_page)

\* The two halves of an interior node: the key in the middle is in neither.
RightInternal(n) == Interior(n.parent, SubSeq(n.keys, Half + 2, ORDER),
                                       SubSeq(n.kids, Half + 2, ORDER + 1))

\* Mutant: the old node keeps the first child of the new one.
LeftInternalSharing(n) == Interior(n.parent, SubSeq(n.keys, 1, Half + 1), SubSeq(n.kids, 1, Half + 2))

LeftInternal(n) == Interior(n.parent, SubSeq(n.keys, 1, Half), SubSeq(n.kids, 1, Half + 1))

\* The new half is stored at a new page, the old one stays in memory and its
\* parent is next, or a root to create.
Halved(left) == [Top EXCEPT !.node = left,
                            !.pc = IF left.parent = NoPage THEN "root" ELSE "up",
                            !.key = Top.node.keys[Half + 1],
                            !.sibling = NewPage]

\* Mutant: the new half is not stored.
SplitNotStored(left, right) == /\ NewPage < MaxPages
                               /\ Store(create_addr(db))
                               /\ SetTop(Halved(left))

Split(left, right) ==
  /\ NewPage < MaxPages
  /\ StoreTwo(create_addr(db), WriteNode(create_addr(db), NewPage, right))
  /\ SetTop(Halved(left))

split_leaf_node ==
  /\ At("split") /\ Top.node.leaf
  /\ Split(LeftLeaf(Top.node, NewPage), RightLeaf(Top.node))

split_internal_node ==
  /\ At("split") /\ ~Top.node.leaf
  /\ Split(LeftInternal(Top.node), RightInternal(Top.node))

\* create_root: an empty root over the page its node will move to ...
create_root ==
  /\ At("root") /\ NewPage < MaxPages
  /\ StoreTwo(create_addr(db),
              [WriteNode(create_addr(db), Top.page, Interior(NoPage, <<>>, <<NewPage>>))
                 EXCEPT !.torn = TRUE])
  /\ SetTop([Top EXCEPT !.pc = "move", !.moved = NewPage, !.node.parent = Top.page])

\* ... the node at that page ...
MoveNode ==
  /\ At("move")
  /\ Store(WriteNode(db, Top.moved, Top.node))
  /\ SetTop([Top EXCEPT !.pc = "sibling"])

\* Mutant: the sibling does not learn its parent.
SiblingOrphaned ==
  /\ At("sibling") /\ Written(db, Top.sibling)
  /\ Store(db)
  /\ SetTop([Top EXCEPT !.pc = IF Top.node.leaf THEN "up" ELSE "children",
                        !.page = Top.moved])

\* ... its sibling, which learns its parent ...
UpdateSibling ==
  /\ At("sibling") /\ Written(db, Top.sibling)
  /\ Store(WriteNode(db, Top.sibling, [db.node[Top.sibling] EXCEPT !.parent = Top.page]))
  /\ SetTop([Top EXCEPT !.pc = IF Top.node.leaf THEN "up" ELSE "children",
                        !.page = Top.moved])

\* ... and the children of the node that moved, not those of its sibling.
UpdateChild ==
  /\ At("children") /\ Written(db, Top.node.kids[Top.child])
  /\ LET page == Top.node.kids[Top.child] IN
       Store(WriteNode(db, page, [db.node[page] EXCEPT !.parent = Top.moved]))
  /\ SetTop([Top EXCEPT !.child = @ + 1,
                        !.pc = IF Top.child = Len(Top.node.kids) THEN "up" ELSE "children"])

\* insert_internal of the split-off page into the node of the parent
insert_internal ==
  /\ At("up") /\ Written(db, Top.node.parent)
  /\ LET parent == Top.node.parent
         node == WithChild(db.node[parent], Top.key, Top.sibling) IN
       frames' = Append([frames EXCEPT ![Len(frames)].pc = "write"], Call(parent, node))
  /\ UNCHANGED <<db, file, crashes, lost>>

\* The write_node that ends insert and insert_internal.  The new root is whole
\* once the call that adds the second half to it has written it.
Return ==
  /\ At("write")
  /\ LET d == WriteNode(db, Top.page, Top.node) IN
       Store([d EXCEPT !.torn = @ /\ Top.page # Root,
                       !.rows = IF Len(frames) = 1 THEN @ \union {db.next_id - 1} ELSE @])
  /\ frames' = Front(frames)

\* The process ends and the next one opens the file, where the row of an
\* insert in progress may be.
InProgress(d) == IF Found(d, d.next_id - 1) THEN {d.next_id - 1} ELSE {}
Crash(d) == /\ crashes < MaxCrashes /\ crashes' = crashes + 1
            /\ db' = [d EXCEPT !.rows = @ \union InProgress(d)]
            /\ file' = db'
            /\ frames' = <<>>
            /\ lost' = (lost \/ d.torn)

Exit == Crash(db)
Kill == Crash(file)

\* create_table has stored an empty leaf at the root and 0 as the next id.
Init ==
  /\ db = [next_id |-> 0, nb_pages |-> 1, rows |-> {}, torn |-> FALSE,
           node |-> [p \in Page |-> IF p = Root THEN Leaf(NoPage, <<>>, NoPage) ELSE Blank]]
  /\ file = db
  /\ frames = <<>>
  /\ crashes = 0
  /\ lost = FALSE

Step == \/ split_leaf_node \/ split_internal_node
        \/ create_root \/ MoveNode \/ UpdateSibling \/ UpdateChild
        \/ insert_internal \/ Return

Next == insert \/ Step \/ Exit \/ Kill

Spec == Init /\ [][Next]_vars

-----------------------------------------------------------------------------
\* The walk of select_all: from the leftmost leaf (create_at_start) along the
\* chain of leaves (cursor_next)
Scan(d) ==
  LET first[p \in Page] == IF d.node[p].leaf THEN p ELSE first[d.node[p].kids[1]]
      rest[p \in Page] == IF d.node[p].next = NoPage THEN d.node[p].keys
                          ELSE d.node[p].keys \o rest[d.node[p].next]
  IN  rest[first[Root]]

\* TYPE: every page, in the file or held by a call, is a node whose keys fit
\* and whose children are one more than its keys.
NodeOK(n, bound) == /\ n \in Node
                    /\ Len(n.keys) <= bound
                    /\ Len(n.kids) = IF n.leaf THEN 0 ELSE Len(n.keys) + 1
DbOK(d) == /\ d.next_id \in Nat /\ d.nb_pages \in 1..MaxPages
           /\ d.rows \subseteq Key /\ d.torn \in BOOLEAN
           /\ \A p \in Page : d.node[p] = Blank \/ NodeOK(d.node[p], ORDER - 1)
FrameOK(f) == /\ f.page \in Page /\ f.key \in Key
              /\ f.sibling \in Link /\ f.moved \in Link
              /\ NodeOK(f.node, IF f.pc = "split" THEN ORDER ELSE ORDER - 1)
TypeOK == /\ DbOK(db) /\ DbOK(file)
          /\ crashes \in 0..MaxCrashes /\ lost \in BOOLEAN
          /\ \A i \in 1..Len(frames) : FrameOK(frames[i])

\* A search finds every row, after every write and so after a process ended
\* between any two, except while create_root moves the root: parent addresses
\* that went stale when an interior node was split (split_internal_node updates
\* no child, create_root half of them) never send a row to a wrong leaf.
EveryRowFound == \A d \in {db, file} :
                   ~lost /\ ~d.torn => \A key \in d.rows : Found(d, key)

\* The leaf of the next id, the only one that ever splits, has for parent an
\* interior node whose last subtree ends in that leaf, so its split goes into a
\* node where the new leaf is found, although other leaves have stale parents.
NextLeafKnowsItsParent ==
  frames = <<>> /\ ~lost =>
    LET leaf == find_leaf(db, Root, db.next_id)
        parent == db.node[leaf].parent IN
    IF leaf = Root THEN parent = NoPage
    ELSE Written(db, parent) /\ ~db.node[parent].leaf /\ find_leaf(db, parent, db.next_id) = leaf

\* The pages a walk from the root meets, as often as the tree links them
Links(d) ==
  LET below[p \in Page] == IF d.node[p].leaf THEN <<p>>
                           ELSE <<p>> \o FlattenSeq([i \in 1..Len(d.node[p].kids) |-> below[d.node[p].kids[i]]])
  IN  below[Root]

\* The tree is one: a page is linked by one cell of one parent, between any two
\* writes of a split that moves children from a page to another.
OneParent == \A d \in {db, file} : ~lost /\ ~d.torn => IsInjective(Links(d))

\* The read_node calls inside an insert never meet a page that was not written.
NoDanglingRead ==
  frames # <<>> =>
    /\ Top.pc = "up" => Written(db, Top.node.parent)
    /\ Top.pc = "sibling" => Written(db, Top.sibling)
    /\ Top.pc = "children" => Written(db, Top.node.kids[Top.child])

\* No page, in the file or in memory, holds an id that is still to be handed
\* out: the id is stored before the row, so it is not reused after a crash.
KeysBelow(n, bound) == \A i \in 1..Len(n.keys) : n.keys[i] < bound
IdsNeverReused ==
  /\ \A d \in {db, file} : \A p \in Pages(d) : KeysBelow(d.node[p], d.next_id)
  /\ \A i \in 1..Len(frames) : KeysBelow(frames[i].node, db.next_id)

\* db_ops.h, select_all: "Selects all rows from a table".  A scan lists the rows
\* in ascending order, each once, and all of them if no process ended.  One that
\* ends when a split has stored the parent and not yet the old leaf, with its link,
\* cuts the scan off there for good: it lists the first rows, and never has a hole.
ScanIsPrefix ==
  frames = <<>> /\ ~lost =>
    /\ IsSorted(Scan(db), <)
    /\ ToSet(Scan(db)) = {row \in db.rows : \E listed \in ToSet(Scan(db)) : row <= listed}
    /\ crashes = 0 => ToSet(Scan(db)) = db.rows

\* The tree implements a table of rows: what a search finds between two inserts
\* changes by whole inserts, also when the process ends inside one.  A crash
\* inside create_root is the exception and ends the mapping.
VisibleRows == IF frames = <<>> /\ ~lost THEN {k \in 0..MaxKey : Found(db, k)} ELSE db.rows
AbstractTable == INSTANCE Table WITH rows <- VisibleRows, next_id <- db.next_id,
                                     pending <- frames # <<>>
ImplementsTable == AbstractTable!Spec

\* fileSpecification.md: an interrupted transaction is rolled back with the
\* journal; so whatever the process was doing, the rows stored before it ended
\* are found.
RowsSurviveCrash == frames = <<>> => \A key \in db.rows : Found(db, key)
=============================================================================
