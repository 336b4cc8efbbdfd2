------------------------------ MODULE IndexTree ------------------------------
(***************************************************************************)
(* The tree of an index (server-side/schema/cursor_bt.c): a B-tree of row  *)
(* ids, ordered by the value each row has in the indexed column, which     *)
(* get_n_record reads from the table.  Values repeat and arrive in any     *)
(* order.                                                                  *)
(*                                                                         *)
(* An insert is modelled write by write, because insert_bt and the         *)
(* recursive insert_internal_bt hold nodes in memory while the calls above *)
(* them change the same pages, and store them last.  A page is what        *)
(* read_node returns (NodeCache).                                          *)
(***************************************************************************)
EXTENDS Integers, Sequences, FiniteSets, SequencesExt

CONSTANTS ORDER,        \* of the tree: a node of ORDER keys is split
          Value,        \* the values of the column, integers
          Arrives(_, _),\* whether a value may come after the rows before it
          MaxRows,      \* bound on the rows
          MaxPages      \* bound on the pages of the tree

ASSUME IndexTreeAssumption == /\ ORDER \in Nat /\ ORDER >= 3
                              /\ Value \subseteq Int
                              /\ MaxRows \in Nat /\ MaxPages \in Nat \ {0}

Root == 0
NoPage == -1                    \* (Page)-1
Page == 0..(MaxPages - 1)
Id == 1..MaxRows

\* An entry is the id of a row.  A leaf has no kids.
Leaf(parent, keys) == [leaf |-> TRUE, parent |-> parent, keys |-> keys, kids |-> <<>>]
Interior(parent, keys, kids) ==
  [leaf |-> FALSE, parent |-> parent, keys |-> keys, kids |-> kids]

VARIABLES rows,         \* the value of each row in the table
          node,         \* the nodes of the pages in use
          frames,       \* the calls of insert_bt, insert_internal_bt in progress
          deep          \* auxiliary: an interior node was split

vars == <<rows, node, frames, deep>>

NewPage == Len(node)
At0(page) == node[page + 1]
WriteNode(page, n) == [node EXCEPT ![page + 1] = n]
Used == 0..(Len(node) - 1)

-----------------------------------------------------------------------------
\* find_offset: the first cell whose value is not smaller
FirstCell(keys, Test(_)) ==
  CHOOSE c \in 0..Len(keys) : /\ \A i \in 1..c : ~Test(keys[i])
                              /\ c < Len(keys) => Test(keys[c + 1])
find_offset(n, value) == LET NotSmaller(k) == value <= rows[k] IN FirstCell(n.keys, NotSmaller)

\* The child of an interior node to enter for a value: after the equal ones
StepCell(n, value) == LET Greater(k) == value < rows[k] IN FirstCell(n.keys, Greater)

find_bt_leaf(value) ==
  LET walk[p \in Used] == IF At0(p).leaf THEN p
                          ELSE walk[At0(p).kids[StepCell(At0(p), value) + 1]]
  IN  walk[Root]

\* insert_in_arr_kv, insert_in_arr_Page
WithKey(n, id, value) == [n EXCEPT !.keys = InsertAt(@, find_offset(n, value) + 1, id)]

\* Mutant: the page is linked before the entry.
WithChildBefore(n, id, page) ==
  [WithKey(n, id, rows[id]) EXCEPT !.kids = InsertAt(@, find_offset(n, rows[id]) + 1, page)]

WithChild(n, id, page) ==
  [WithKey(n, id, rows[id]) EXCEPT !.kids = InsertAt(@, find_offset(n, rows[id]) + 2, page)]

\* Mutant: a node is split when it holds more than ORDER entries.
CallSplitLate(page, n) ==
  [page |-> page, node |-> n,
   pc |-> IF Len(n.keys) > ORDER THEN "split" ELSE "write",
   key |-> 0, sibling |-> NoPage]

\* A call: the page and the node it holds in memory, what it does next, and
\* after its split the entry and page for the parent.
Call(page, n) ==
  [page |-> page, node |-> n,
   pc |-> IF Len(n.keys) = ORDER THEN "split" ELSE "write",
   key |-> 0, sibling |-> NoPage]

Top == Last(frames)
SetTop(f) == frames' = Append(Front(frames), f)
At(pc) == frames # <<>> /\ Top.pc = pc

-----------------------------------------------------------------------------
\* advanced_insert_row has stored the row and inserts its id into the index.
insert_bt ==
  /\ frames = <<>> /\ Len(rows) < MaxRows
  /\ \E value \in Value :
       LET page == find_bt_leaf(value) IN
       /\ Arrives(rows, value)
       /\ rows' = Append(rows, value)
       /\ frames' = <<Call(page, WithKey(At0(page), Len(rows) + 1, value))>>
  /\ UNCHANGED <<node, deep>>

Half == ORDER \div 2

\* The halves of a node: the entry in the middle is in neither.
SubKids(n, from, to) == IF n.leaf THEN <<>> ELSE SubSeq(n.kids, from, to)
Right(n) == [n EXCEPT !.keys = SubSeq(@, Half + 2, ORDER), !.kids = SubKids(n, Half + 2, ORDER + 1)]

\* Mutant: the entry in the middle also stays in the old node, as in the leaves
\* of the trees of tables.
LeftWithMiddle(n) == [n EXCEPT !.keys = SubSeq(@, 1, Half + 1), !.kids = SubKids(n, 1, Half + 2)]

Left(n) == [n EXCEPT !.keys = SubSeq(@, 1, Half), !.kids = SubKids(n, 1, Half + 1)]

\* split_bt_node: the new node is stored, the old one is cut in memory.
split_bt_node ==
  /\ At("split") /\ NewPage < MaxPages
  /\ node' = Append(node, Right(Top.node))
  /\ SetTop([Top EXCEPT !.node = Left(@),
                        !.pc = IF Top.node.parent = NoPage THEN "root" ELSE "up",
                        !.key = Top.node.keys[Half + 1],
                        !.sibling = NewPage])
  /\ deep' = (deep \/ ~Top.node.leaf)
  /\ UNCHANGED rows

\* create_root_bt: an empty root over the page the node moves to; the sibling
\* and the children of the node that moved learn their parents, not the children
\* of the sibling.
create_root_bt ==
  /\ At("root") /\ NewPage < MaxPages
  /\ LET moved == [Top.node EXCEPT !.parent = Top.page]
         root == Interior(NoPage, <<>>, <<NewPage>>)
         Parent(page) == IF page = Top.sibling THEN Top.page
                         ELSE IF page \in ToSet(moved.kids) THEN NewPage
                         ELSE At0(page).parent IN
       /\ node' = Append([i \in 1..Len(node) |->
                            IF i - 1 = Top.page THEN root
                            ELSE [node[i] EXCEPT !.parent = Parent(i - 1)]], moved)
       /\ SetTop([Top EXCEPT !.node = moved, !.page = NewPage, !.pc = "up"])
  /\ UNCHANGED <<rows, deep>>

\* insert_internal_bt of the split-off page into the node of the parent
insert_internal_bt ==
  /\ At("up")
  /\ LET parent == Top.node.parent IN
       frames' = Append(Front(frames) \o <<[Top EXCEPT !.pc = "write"]>>,
                        Call(parent, WithChild(At0(parent), Top.key, Top.sibling)))
  /\ UNCHANGED <<rows, node, deep>>

\* The write_node that ends insert_bt and insert_internal_bt
Return ==
  /\ At("write")
  /\ node' = WriteNode(Top.page, Top.node)
  /\ frames' = Front(frames)
  /\ UNCHANGED <<rows, deep>>

Init == /\ rows = <<>>
        /\ node = <<Leaf(NoPage, <<>>)>>
        /\ frames = <<>>
        /\ deep = FALSE

Next == \/ insert_bt \/ split_bt_node \/ create_root_bt
        \/ insert_internal_bt \/ Return

Spec == Init /\ [][Next]_vars

-----------------------------------------------------------------------------
\* A cursor is a page and a cell from 0, NoCursor the NULL of find_bt.
NoCursor == <<NoPage, 0>>
Entry(cursor) == At0(cursor[1]).keys[cursor[2] + 1]

\* find_bt: the leftmost entry of the value on the path
find_bt(value) ==
  LET find[p \in Used] ==
        LET n == At0(p)
            cell == find_offset(n, value)
            below == IF n.leaf THEN NoCursor ELSE find[n.kids[cell + 1]] IN
        IF below # NoCursor THEN below
        ELSE IF cell < Len(n.keys) /\ rows[n.keys[cell + 1]] = value THEN <<p, cell>>
        ELSE NoCursor
  IN  find[Root]

\* cursor_next_bt: the entry after the one at the cursor, through the parents a
\* node names; a parent that does not list the page is entered at its first cell.
CellOf(parent, page) ==
  LET cells == {i \in 1..Len(parent.kids) : parent.kids[i] = page} IN
  IF cells = {} THEN 0 ELSE (CHOOSE i \in cells : \A j \in cells : i <= j) - 1
cursor_next_bt(cursor) ==
  LET down[p \in Used] == IF At0(p).leaf THEN <<p, 0>> ELSE down[At0(p).kids[1]]
      up[at \in Used \X (0..ORDER)] ==
        LET n == At0(at[1]) IN
        IF at[2] < Len(n.keys) THEN at
        ELSE IF n.parent = NoPage THEN NoCursor
        ELSE up[<<n.parent, CellOf(At0(n.parent), at[1])>>]
      here == At0(cursor[1])
  IN  IF here.leaf THEN up[<<cursor[1], cursor[2] + 1>>] ELSE down[here.kids[cursor[2] + 2]]

\* find_all: the entries from the first of the value on while the value is the
\* same, at most one more than there are rows.
find_all(value) ==
  LET cursors[n \in 0..Len(rows)] ==
        IF n = 0 THEN <<find_bt(value)>>
        ELSE LET before == cursors[n - 1]
                 next == cursor_next_bt(Last(before)) IN
             IF next = NoCursor \/ rows[Entry(next)] # value THEN before
             ELSE Append(before, next)
      all == cursors[Len(rows)]
  IN  [i \in DOMAIN all |-> Entry(all[i])]

\* TYPE: every node, in the file or held by a call, fits in its page and has one
\* child more than entries, and every parent address is that of an interior node.
ParentOK(page) == page = NoPage \/ (page \in Used /\ ~At0(page).leaf)
NodeOK(n, bound) ==
  /\ ToSet(n.keys) \subseteq DOMAIN rows /\ Len(n.keys) <= bound
  /\ IF n.leaf THEN n.kids = <<>> ELSE Len(n.kids) = Len(n.keys) + 1
  /\ ToSet(n.kids) \subseteq Used /\ ParentOK(n.parent)
TypeOK ==
  /\ Len(rows) <= MaxRows /\ ToSet(rows) \subseteq Value /\ deep \in BOOLEAN
  /\ Len(node) \in 1..MaxPages
  /\ \A i \in 1..Len(node) : NodeOK(node[i], ORDER - 1)
  /\ \A i \in 1..Len(frames) : /\ NodeOK(frames[i].node, ORDER) /\ frames[i].page \in Used
                              /\ frames[i].sibling \in Used \union {NoPage}

Idle == frames = <<>>

\* The cells, page and place, that hold the id of a row, and those that link a page
IsAt(x, list, i) == i <= Len(list) /\ list[i] = x
EntryCells(id) == {c \in Used \X (1..ORDER) : IsAt(id, At0(c[1]).keys, c[2])}
LinkCells(page) == {c \in Used \X (1..ORDER) : IsAt(page, At0(c[1]).kids, c[2])}

\* Splits neither lose nor duplicate an entry or a page, wherever stale parent
\* addresses send it: between two inserts the id of every row is in one cell, and
\* the pages are one tree, each linked once and reached from the root.
EntriesConserved ==
  Idle => /\ \A id \in DOMAIN rows : Cardinality(EntryCells(id)) = 1
          /\ \A page \in Used : Cardinality(LinkCells(page)) = IF page = Root THEN 0 ELSE 1
          /\ \A S \in SUBSET Used : Root \in S /\ (\A p \in S : ToSet(At0(p).kids) \subseteq S) => S = Used

\* The answer of find_all to a value that rows have: these rows, each once
WithValue(value) == {i \in 1..Len(rows) : rows[i] = value}
Exact(value) == /\ find_bt(value) # NoCursor
                /\ ToSet(find_all(value)) = WithValue(value)
                /\ Len(find_all(value)) = Cardinality(WithValue(value))

\* While no interior node has been split and no value repeats, find_all answers
\* exactly, whatever the order the values arrived in.
FindAllExact == Idle /\ ~deep /\ IsInjective(rows) =>
                  \A value \in ToSet(rows) : Exact(value)

\* db_ops.h, select_where: "Selects all rows from a table where the given column
\* is equal to the given value".
SelectsWhereEqual == Idle => \A value \in ToSet(rows) : Exact(value)
=============================================================================
