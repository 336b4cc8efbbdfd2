---------------------------- MODULE CatalogProofs ----------------------------
(***************************************************************************)
(* Proofs about Catalog, for all names, and every bound on columns, pages, *)
(* rows and ends of the process.                                           *)
(*                                                                         *)
(* The inductive invariant says of the database as the process sees it and *)
(* of the file that both are Consistent, and of the stores that are still  *)
(* to be made which operation they are the rest of, and what it has done   *)
(* so far.  While initialize_tables runs the database is one of the 26     *)
(* that its stores make (InitDb).  After that, the stores are the rest of  *)
(* an advanced_insert_row (Inserting), of a create_table (Creating), or of *)
(* one that will crash before it reaches the columns (Doomed).             *)
(*                                                                         *)
(* First come the lemmas about single stores: what holds of every database *)
(* a process may find, that a store keeps it if the operation has done     *)
(* before what it should, and that all the databases initialize_tables     *)
(* makes but the first are consistent.                                     *)
(***************************************************************************)
EXTENDS Catalog, SequenceLemmas, FiniteSetTheorems

USE DEF TABLES, COLUMNS, TABLES_NAMES, COLUMNS_TIDX, COLUMNS_NAMES

\* The definitions of Catalog for any database
IdsIn(d, page) == d.tree[page] \ Zeros
ColumnsIn(d, table) == {c \in IdsIn(d, COLUMNS_TIDX) : d.columns[c].table = table}
IndexesIn(d, table) == {d.columns[c].root : c \in ColumnsIn(d, table)}
Unfound(d, t) == {id \in IdsIn(d, d.tables[t].root) :
                    \E root \in IndexesIn(d, t) : id \notin d.tree[root]}
UnindexedIn(d) ==
  UNION {{<<t, id>> : id \in Unfound(d, t)} : t \in DOMAIN d.tables \ {TABLES, COLUMNS}}
RowsFor(d, t) == {c \in DOMAIN d.columns : d.columns[c].table = t}
WholeTable(d, t) ==
  /\ t \in d.tree[TABLES_NAMES]
  /\ {d.columns[c].offset : c \in RowsFor(d, t)} = 0..(d.tables[t].nb_cols - 1)
  /\ Cardinality(RowsFor(d, t)) = d.tables[t].nb_cols
  /\ \A c \in RowsFor(d, t) : d.tree[d.columns[c].root] # Zeros
  /\ ColumnsIn(d, t) = RowsFor(d, t) \/ (ColumnsIn(d, t) = {} /\ d.tree[COLUMNS_NAMES] = Zeros)

-----------------------------------------------------------------------------
Tree == {Zeros} \union SUBSET Nat
TableRows == [name : Name \union {"TABLES", "COLUMNS"}, root : Page, next_id : Nat, nb_cols : Nat]
ColumnRows == [table : Int, offset : Nat, root : Page]

Shape(d) == d = [nb_pages |-> d.nb_pages, tree |-> d.tree, tables |-> d.tables, columns |-> d.columns]

Typed(d) == /\ d.nb_pages \in 2..MaxPages
            /\ d.tree \in [Page -> Tree]
            /\ d.tables \in [IdsIn(d, TABLES) -> TableRows]
            /\ d.columns \in [IdsIn(d, COLUMNS) -> ColumnRows]
            /\ IsFiniteSet(DOMAIN d.tables) /\ IsFiniteSet(DOMAIN d.columns)
            /\ \A p \in Page : p >= d.nb_pages => d.tree[p] = Zeros

\* The columns of the catalog, by their ids
InitialColumn(c) == CASE c = 0 -> ColumnsRow(TABLES, 0, TABLES_NAMES)
                      [] c = 1 -> ColumnsRow(COLUMNS, 0, COLUMNS_TIDX)
                      [] c = 2 -> ColumnsRow(COLUMNS, 1, COLUMNS_NAMES)

\* The pages of the catalog
Fixed == 0..4

\* Every table has a page of its own, and only the two of the catalog one of
\* its pages: a table created in half a catalog may have the id of COLUMNS.
TableRoots(d) ==
  /\ \A t \in DOMAIN d.tables :
       /\ d.tables[t].root < d.nb_pages
       /\ d.tables[t].root = TABLES <=> t = TABLES
       /\ d.tables[t].root \in Fixed => t = d.tables[t].root /\ t \in {TABLES, COLUMNS}
  /\ DOMAIN d.tables # {} => TABLES \in DOMAIN d.tables /\ d.nb_pages >= 5
  /\ \A t, u \in DOMAIN d.tables : d.tables[t].root = d.tables[u].root => t = u

\* So has every column, and its table is there.
ColumnRoots(d) ==
  /\ DOMAIN d.columns # {} => COLUMNS \in DOMAIN d.tables /\ d.tables[COLUMNS].root = COLUMNS
  /\ \A c \in DOMAIN d.columns :
       /\ d.columns[c].table \in DOMAIN d.tables
       /\ d.columns[c].root < d.nb_pages
       /\ c \in 0..2 => d.columns[c] = InitialColumn(c)
       /\ c \notin 0..2 => /\ d.columns[c].table \notin {TABLES, COLUMNS}
                           /\ d.columns[c].root \notin Fixed
  /\ \A c, e \in DOMAIN d.columns : d.columns[c].root = d.columns[e].root => c = e
  /\ \A c \in DOMAIN d.columns, t \in DOMAIN d.tables : d.columns[c].root # d.tables[t].root

NextIds(d) == \A t \in DOMAIN d.tables : \A id \in IdsIn(d, d.tables[t].root) :
                id < d.tables[t].next_id

Entries(d) ==
  /\ IdsIn(d, TABLES_NAMES) \subseteq DOMAIN d.tables
  /\ IdsIn(d, COLUMNS_TIDX) \union IdsIn(d, COLUMNS_NAMES) \subseteq DOMAIN d.columns
  /\ \A c \in DOMAIN d.columns \ (0..2) :
       IdsIn(d, d.columns[c].root) \subseteq IdsIn(d, d.tables[d.columns[c].table].root)

\* Tables have columns once the first one of the catalog is in its index; before
\* that create_table gets no further than the row of the table.
Searchable(d) == TABLES \in IdsIn(d, COLUMNS_TIDX)
Search(d) ==
  /\ Searchable(d) => {0, 1, 2} \subseteq DOMAIN d.columns /\ d.tree[TABLES_NAMES] # Zeros
  /\ 2 \in IdsIn(d, COLUMNS_TIDX) => 1 \in IdsIn(d, COLUMNS_TIDX)
  /\ ~Searchable(d) => /\ DOMAIN d.columns \subseteq 0..2
                       /\ IdsIn(d, COLUMNS_TIDX) = {}
                       /\ \A p \in Page : p > 4 => d.tree[p] = Zeros

Whole(d) == \A t \in DOMAIN d.tables \ {TABLES, COLUMNS} :
              d.tree[d.tables[t].root] # Zeros => WholeTable(d, t)

\* What holds of every database that a process may find
Consistent(d) == /\ Shape(d) /\ Typed(d) /\ TableRoots(d) /\ ColumnRoots(d)
                 /\ NextIds(d) /\ Entries(d) /\ Search(d) /\ Whole(d)

\* At most n rows are missing in an index.
Lost(d, n) == IsFiniteSet(UnindexedIn(d)) /\ Cardinality(UnindexedIn(d)) <= n

-----------------------------------------------------------------------------
\* What a store changes.
LEMMA HeaderStored ==
  ASSUME NEW d, Shape(d), NEW e, e = Stored(d, create_addr)
  PROVE  /\ Shape(e) /\ e.nb_pages = d.nb_pages + 1 /\ e.tree = d.tree
         /\ e.tables = d.tables /\ e.columns = d.columns
<1>1. e = [nb_pages |-> d.nb_pages + 1, tree |-> d.tree, tables |-> d.tables, columns |-> d.columns]
  BY DEF Shape, Stored, create_addr
<1> QED
  BY ONLY <1>1 DEF Shape

LEMMA NodeStored ==
  ASSUME NEW d, Shape(d), NEW p, NEW ids, NEW e, e = Stored(d, write_node(p, ids))
  PROVE  /\ Shape(e) /\ e.nb_pages = d.nb_pages /\ e.tree = [d.tree EXCEPT ![p] = ids]
         /\ e.tables = d.tables /\ e.columns = d.columns
<1>1. e = [nb_pages |-> d.nb_pages, tree |-> [d.tree EXCEPT ![p] = ids],
           tables |-> d.tables, columns |-> d.columns]
  BY DEF Shape, Stored, write_node
<1> QED
  BY ONLY <1>1 DEF Shape

LEMMA NextIdStored ==
  ASSUME NEW d, Shape(d), NEW t, NEW e, e = Stored(d, get_next_id(t))
  PROVE  /\ Shape(e) /\ e.nb_pages = d.nb_pages /\ e.tree = d.tree
         /\ e.tables = [d.tables EXCEPT ![t].next_id = @ + 1] /\ e.columns = d.columns
<1>1. e = [nb_pages |-> d.nb_pages, tree |-> d.tree,
           tables |-> [d.tables EXCEPT ![t].next_id = @ + 1], columns |-> d.columns]
  BY DEF Shape, Stored, get_next_id
<1> QED
  BY ONLY <1>1 DEF Shape

LEMMA RowStored ==
  ASSUME NEW d, Shape(d), NEW p, NEW id, NEW row
  PROVE  Stored(d, insert(p, id, row)) =
           [nb_pages |-> d.nb_pages, tree |-> [d.tree EXCEPT ![p] = @ \union {id}],
            tables |-> IF p = TABLES THEN WithRow(d.tables, id, row) ELSE d.tables,
            columns |-> IF p = COLUMNS THEN WithRow(d.columns, id, row) ELSE d.columns]
  BY DEF Shape, Stored, insert

LEMMA EntryStored ==
  ASSUME NEW d, Shape(d), NEW p, NEW id
  PROVE  Stored(d, insert_bt(p, id)) =
           [nb_pages |-> d.nb_pages, tree |-> [d.tree EXCEPT ![p] = @ \union {id}],
            tables |-> d.tables, columns |-> d.columns]
  BY DEF Shape, Stored, insert_bt

-----------------------------------------------------------------------------
\* Facts about any consistent database
LEMMA FixedPages == /\ Fixed \subseteq Page /\ Page \subseteq Nat
                    /\ \A p \in Page : p + 1 <= MaxPages
  BY CatalogAssumption DEF Fixed, Page

LEMMA TreeIds ==
  ASSUME NEW d, d.tree \in [Page -> Tree], NEW p \in Page
  PROVE  /\ IdsIn(d, p) \in SUBSET Nat
         /\ d.tree[p] = Zeros => IdsIn(d, p) = {}
         /\ d.tree[p] # Zeros => IdsIn(d, p) = d.tree[p]
         /\ d.tree[p] # Zeros => d.tree[p] \in SUBSET Nat
<1>1. d.tree[p] = Zeros \/ d.tree[p] \in SUBSET Nat
  BY DEF Tree
<1>2. -1 \notin Nat
  OBVIOUS
<1> QED
  BY <1>1, <1>2 DEF IdsIn, Zeros

\* The rows as the invariant has them
LEMMA RowTypes ==
  ASSUME NEW d, Consistent(d)
  PROVE  /\ DOMAIN d.tables = IdsIn(d, TABLES) /\ DOMAIN d.columns = IdsIn(d, COLUMNS)
         /\ DOMAIN d.tables \in SUBSET Nat /\ DOMAIN d.columns \in SUBSET Nat
         /\ \A t \in DOMAIN d.tables : d.tables[t] \in TableRows /\ d.tables[t].root \in Page
         /\ \A c \in DOMAIN d.columns : d.columns[c] \in ColumnRows /\ d.columns[c].root \in Page
         /\ d.nb_pages \in Nat
<1>1. Typed(d) /\ 0 \in Page /\ 1 \in Page
  BY FixedPages DEF Consistent, Fixed
<1>2. IdsIn(d, 0) \in SUBSET Nat /\ IdsIn(d, 1) \in SUBSET Nat
  BY <1>1, TreeIds DEF Typed
<1> QED
  BY <1>1, <1>2, CatalogAssumption DEF Typed, TableRows, ColumnRows

\* The columns found are there.
LEMMA ColumnsThere ==
  ASSUME NEW d, Consistent(d), NEW t
  PROVE  ColumnsIn(d, t) \subseteq DOMAIN d.columns /\ ColumnsIn(d, t) \subseteq RowsFor(d, t)
  BY DEF Consistent, Entries, ColumnsIn, RowsFor

\* The indexes of a whole table are there.
LEMMA WholeIndexes ==
  ASSUME NEW d, Consistent(d), NEW t, WholeTable(d, t)
  PROVE  \A root \in IndexesIn(d, t) : d.tree[root] # Zeros
  BY ColumnsThere DEF WholeTable, IndexesIn

\* The indexes of a table of a user are not those of the catalog.
LEMMA UserIndexes ==
  ASSUME NEW d, Consistent(d), NEW t \in DOMAIN d.tables \ {TABLES, COLUMNS}
  PROVE  /\ RowsFor(d, t) \intersect (0..2) = {}
         /\ \A c \in RowsFor(d, t) : d.columns[c].root \in Page /\ d.columns[c].root \notin Fixed
         /\ \A root \in IndexesIn(d, t) :
              /\ root \in Page /\ root \notin Fixed
              /\ \A u \in DOMAIN d.tables : d.tables[u].root # root
         /\ d.tables[t].root \in Page /\ d.tables[t].root \notin Fixed
<1>1. \A c \in RowsFor(d, t) : c \in DOMAIN d.columns /\ d.columns[c].table = t
  BY DEF RowsFor
<1>2. \A c \in 0..2 : InitialColumn(c).table \in {0, 1}
  BY DEF InitialColumn, ColumnsRow
<1>3. \A c \in RowsFor(d, t) : c \notin 0..2
  BY <1>1, <1>2 DEF Consistent, ColumnRoots
<1>4. \A c \in RowsFor(d, t) : d.columns[c].root \in Page /\ d.columns[c].root \notin Fixed
  BY <1>1, <1>3, RowTypes DEF Consistent, ColumnRoots
<1>5. \A c \in RowsFor(d, t) : \A u \in DOMAIN d.tables : d.tables[u].root # d.columns[c].root
  BY <1>1 DEF Consistent, ColumnRoots
<1>6. d.tables[t].root \in Page /\ d.tables[t].root \notin Fixed
  BY RowTypes DEF Consistent, TableRoots
<1>7. \A c \in ColumnsIn(d, t) : c \in RowsFor(d, t)
  BY ColumnsThere
<1> QED
  BY <1>3, <1>4, <1>5, <1>6, <1>7 DEF IndexesIn

\* What a table has in its indexes depends on its columns and on their trees.
SameColumns(d, e, t) ==
  /\ ColumnsIn(e, t) = ColumnsIn(d, t) /\ ColumnsIn(d, t) \subseteq RowsFor(d, t)
  /\ RowsFor(e, t) = RowsFor(d, t)
  /\ \A c \in RowsFor(d, t) : /\ e.columns[c] = d.columns[c]
                              /\ e.tree[d.columns[c].root] = d.tree[d.columns[c].root]
LEMMA SameTable ==
  ASSUME NEW d, NEW e, NEW t, SameColumns(d, e, t)
  PROVE  /\ IndexesIn(e, t) = IndexesIn(d, t)
         /\ (/\ WholeTable(d, t) /\ e.tables[t].nb_cols = d.tables[t].nb_cols
             /\ t \in e.tree[TABLES_NAMES]
             /\ d.tree[COLUMNS_NAMES] = Zeros => e.tree[COLUMNS_NAMES] = Zeros) => WholeTable(e, t)
         /\ IdsIn(e, e.tables[t].root) = IdsIn(d, d.tables[t].root) => Unfound(e, t) = Unfound(d, t)
<1>1. \A c \in ColumnsIn(d, t) : e.columns[c] = d.columns[c]
  BY DEF SameColumns
<1>2. IndexesIn(e, t) = IndexesIn(d, t)
  BY <1>1 DEF IndexesIn, SameColumns
<1>3. {e.columns[c].offset : c \in RowsFor(e, t)} = {d.columns[c].offset : c \in RowsFor(d, t)}
  BY DEF SameColumns
<1>4. ASSUME WholeTable(d, t), e.tables[t].nb_cols = d.tables[t].nb_cols, t \in e.tree[TABLES_NAMES],
             d.tree[COLUMNS_NAMES] = Zeros => e.tree[COLUMNS_NAMES] = Zeros
      PROVE  WholeTable(e, t)
  <2>1. \A c \in RowsFor(e, t) : e.tree[e.columns[c].root] # Zeros
    BY <1>4 DEF WholeTable, SameColumns
  <2> QED
    BY <1>3, <1>4, <2>1 DEF WholeTable, SameColumns
<1>5. ASSUME IdsIn(e, e.tables[t].root) = IdsIn(d, d.tables[t].root)
      PROVE  Unfound(e, t) = Unfound(d, t)
  <2>1. \A root \in IndexesIn(d, t) : e.tree[root] = d.tree[root]
    BY DEF IndexesIn, SameColumns
  <2> QED
    BY <1>2, <1>5, <2>1 DEF Unfound
<1> QED
  BY <1>2, <1>4, <1>5

\* No more rows are lost than there are unfound in the tables of users.
LEMMA LessLost ==
  ASSUME NEW d, NEW e, NEW n \in Nat, Lost(d, n),
         \A t \in DOMAIN e.tables \ {TABLES, COLUMNS} :
           \/ Unfound(e, t) = {}
           \/ t \in DOMAIN d.tables /\ Unfound(e, t) = Unfound(d, t)
  PROVE  Lost(e, n) /\ UnindexedIn(e) \subseteq UnindexedIn(d)
<1>1. UnindexedIn(e) \subseteq UnindexedIn(d)
  BY DEF UnindexedIn
<1>2. IsFiniteSet(UnindexedIn(e)) /\ Cardinality(UnindexedIn(e)) <= Cardinality(UnindexedIn(d))
  BY <1>1, FS_Subset DEF Lost
<1>3. Cardinality(UnindexedIn(e)) \in Nat /\ Cardinality(UnindexedIn(d)) \in Nat
  BY <1>2, FS_CardinalityType DEF Lost
<1> QED
  BY <1>1, <1>2, <1>3 DEF Lost

-----------------------------------------------------------------------------
\* Each store keeps the database consistent if the operation has done before what
\* it should, and none but the row of a user loses anything.

\* create_addr
LEMMA HeaderConsistent ==
  ASSUME NEW d, Consistent(d), d.nb_pages < MaxPages, NEW e, e = Stored(d, create_addr)
  PROVE  Consistent(e) /\ \A n \in Nat : Lost(d, n) => Lost(e, n)
<1>1. /\ Shape(e) /\ e.nb_pages = d.nb_pages + 1 /\ e.tree = d.tree
      /\ e.tables = d.tables /\ e.columns = d.columns
  BY HeaderStored DEF Consistent
<1>2. d.nb_pages \in Nat /\ d.nb_pages >= 2 /\ MaxPages \in Nat
  BY RowTypes, CatalogAssumption DEF Consistent, Typed
<1>3. /\ \A p : IdsIn(e, p) = IdsIn(d, p)
      /\ \A t : ColumnsIn(e, t) = ColumnsIn(d, t)
      /\ \A t : Unfound(e, t) = Unfound(d, t) /\ (WholeTable(e, t) <=> WholeTable(d, t))
  BY <1>1 DEF IdsIn, ColumnsIn, IndexesIn, Unfound, WholeTable, RowsFor
<1>4. Typed(e)
  BY <1>1, <1>2, <1>3, FixedPages DEF Consistent, Typed
<1>5. TableRoots(e) /\ ColumnRoots(e)
  <2>1. \A t \in DOMAIN d.tables : d.tables[t].root \in Nat
    BY RowTypes, FixedPages
  <2>2. \A c \in DOMAIN d.columns : d.columns[c].root \in Nat
    BY RowTypes, FixedPages
  <2> QED
    BY <1>1, <1>2, <2>1, <2>2 DEF Consistent, TableRoots, ColumnRoots
<1>6. NextIds(e) /\ Entries(e) /\ Search(e) /\ Whole(e)
  BY <1>1, <1>3 DEF Consistent, NextIds, Entries, Search, Searchable, Whole
<1>7. \A n \in Nat : Lost(d, n) => Lost(e, n)
  BY <1>1, <1>3, LessLost
<1> QED
  BY <1>1, <1>4, <1>5, <1>6, <1>7 DEF Consistent

\* get_next_id of a table that is there
LEMMA NextIdConsistent ==
  ASSUME NEW d, Consistent(d), NEW t \in DOMAIN d.tables, NEW e, e = Stored(d, get_next_id(t))
  PROVE  /\ Consistent(e) /\ \A n \in Nat : Lost(d, n) => Lost(e, n)
         /\ UnindexedIn(e) = UnindexedIn(d)
         /\ DOMAIN e.tables = DOMAIN d.tables
         /\ \A u \in DOMAIN d.tables :
              e.tables[u] = [d.tables[u] EXCEPT !.next_id = IF u = t THEN @ + 1 ELSE @]
<1>1. /\ Shape(e) /\ e.nb_pages = d.nb_pages /\ e.tree = d.tree
      /\ e.tables = [d.tables EXCEPT ![t].next_id = @ + 1] /\ e.columns = d.columns
  BY NextIdStored DEF Consistent
<1>2. Typed(d) /\ \A u \in DOMAIN d.tables : d.tables[u] \in TableRows
  BY RowTypes DEF Consistent
<1>3. /\ DOMAIN e.tables = DOMAIN d.tables
      /\ \A u \in DOMAIN d.tables :
           /\ e.tables[u] = [d.tables[u] EXCEPT !.next_id = IF u = t THEN @ + 1 ELSE @]
           /\ e.tables[u] \in TableRows
           /\ e.tables[u].root = d.tables[u].root /\ e.tables[u].nb_cols = d.tables[u].nb_cols
           /\ e.tables[u].next_id = IF u = t THEN d.tables[u].next_id + 1 ELSE d.tables[u].next_id
           /\ d.tables[u].next_id \in Nat
  BY <1>1, <1>2 DEF TableRows
<1>4. /\ \A p : IdsIn(e, p) = IdsIn(d, p)
      /\ \A u : ColumnsIn(e, u) = ColumnsIn(d, u)
      /\ \A u : IndexesIn(e, u) = IndexesIn(d, u) /\ RowsFor(e, u) = RowsFor(d, u)
  BY <1>1 DEF IdsIn, ColumnsIn, IndexesIn, RowsFor
<1>5. \A u \in DOMAIN d.tables : Unfound(e, u) = Unfound(d, u) /\ (WholeTable(e, u) <=> WholeTable(d, u))
  BY <1>1, <1>3, <1>4 DEF Unfound, WholeTable
<1>6. Typed(e)
  BY <1>1, <1>2, <1>3, <1>4 DEF Typed
<1>7. TableRoots(e) /\ ColumnRoots(e)
  BY <1>1, <1>3 DEF Consistent, TableRoots, ColumnRoots
<1>8. NextIds(e)
  <2>1. \A p \in Page : IdsIn(d, p) \in SUBSET Nat
    BY <1>2, TreeIds DEF Typed
  <2>2. \A u \in DOMAIN d.tables : d.tables[u].root \in Page
    BY RowTypes
  <2>3. \A u \in DOMAIN d.tables : \A id \in IdsIn(d, d.tables[u].root) : id \in Nat /\ id < d.tables[u].next_id
    BY <2>1, <2>2 DEF Consistent, NextIds
  <2>4. ASSUME NEW u \in DOMAIN d.tables, NEW id \in IdsIn(e, e.tables[u].root)
        PROVE  id < e.tables[u].next_id
    <3> DEFINE n == d.tables[u].next_id
    <3>1. id \in Nat /\ id < n /\ n \in Nat /\ (e.tables[u].next_id = n \/ e.tables[u].next_id = n + 1)
      BY <1>3, <1>4, <2>3
    <3> HIDE DEF n
    <3> QED
      BY <3>1
  <2> QED
    BY <1>3, <2>4 DEF NextIds
<1>9. Entries(e) /\ Search(e) /\ Whole(e)
  <2>1. \A c \in DOMAIN d.columns : d.columns[c].table \in DOMAIN d.tables
    BY DEF Consistent, ColumnRoots
  <2>2. Entries(e)
    BY <1>1, <1>3, <1>4, <2>1 DEF Consistent, Entries
  <2>3. Search(e)
    BY <1>1, <1>4 DEF Consistent, Search, Searchable
  <2>4. Whole(e)
    BY <1>1, <1>3, <1>5 DEF Consistent, Whole
  <2> QED
    BY <2>2, <2>3, <2>4
<1>10. \A n \in Nat : Lost(d, n) => Lost(e, n)
  BY <1>3, <1>5, LessLost
<1>11. UnindexedIn(e) = UnindexedIn(d)
  BY <1>3, <1>5 DEF UnindexedIn
<1> QED
  BY <1>1, <1>3, <1>6, <1>7, <1>8, <1>9, <1>10, <1>11 DEF Consistent

\* write_node of an empty tree at a page that was created for it.  For the root of a
\* table everything else must be there.
LEMMA NodeConsistent ==
  ASSUME NEW d, Consistent(d), Searchable(d), NEW p \in Page \ Fixed, p < d.nb_pages,
         d.tree[p] = Zeros, NEW e, e = Stored(d, write_node(p, {})),
         \A t \in DOMAIN d.tables \ {TABLES, COLUMNS} : d.tables[t].root = p => WholeTable(d, t)
  PROVE  Consistent(e) /\ \A n \in Nat : Lost(d, n) => Lost(e, n)
<1>1. /\ Shape(e) /\ e.nb_pages = d.nb_pages /\ e.tree = [d.tree EXCEPT ![p] = {}]
      /\ e.tables = d.tables /\ e.columns = d.columns
  <2>1. Shape(d)
    BY DEF Consistent
  <2>2. \A ids : e = Stored(d, write_node(p, ids)) =>
          /\ Shape(e) /\ e.nb_pages = d.nb_pages /\ e.tree = [d.tree EXCEPT ![p] = ids]
          /\ e.tables = d.tables /\ e.columns = d.columns
    BY <2>1, NodeStored
  <2> QED
    BY <2>2
<1>2. Typed(d) /\ d.nb_pages \in Nat /\ p \in Nat
  BY RowTypes, FixedPages DEF Consistent
<1>3. \A q \in Page : IdsIn(e, q) = IdsIn(d, q)
  BY <1>1, <1>2 DEF IdsIn, Typed
<1>4. /\ \A q \in Page : q # p => e.tree[q] = d.tree[q]
      /\ e.tree[p] = {} /\ {} # Zeros
      /\ 0 \in Page /\ 1 \in Page /\ 2 \in Page /\ 3 \in Page /\ 4 \in Page
      /\ p # 0 /\ p # 1 /\ p # 2 /\ p # 3 /\ p # 4
  BY <1>1, <1>2, FixedPages DEF Typed, Zeros, Fixed
<1>5. \A t : ColumnsIn(e, t) = ColumnsIn(d, t) /\ IndexesIn(e, t) = IndexesIn(d, t)
  BY <1>1, <1>3, <1>4 DEF ColumnsIn, IndexesIn
<1>6. Typed(e)
  BY <1>1, <1>2, <1>3, <1>4 DEF Typed, Tree
<1>7. TableRoots(e) /\ ColumnRoots(e)
  BY <1>1 DEF Consistent, TableRoots, ColumnRoots
<1>8. NextIds(e) /\ Entries(e) /\ Search(e)
  <2>1. /\ \A t \in DOMAIN d.tables : d.tables[t].root \in Page
        /\ \A c \in DOMAIN d.columns : d.columns[c].table \in DOMAIN d.tables /\ d.columns[c].root \in Page
    BY RowTypes DEF Consistent, ColumnRoots
  <2>2. NextIds(e)
    BY <1>1, <1>3, <2>1 DEF Consistent, NextIds
  <2>3. Entries(e)
    BY <1>1, <1>3, <1>4, <2>1 DEF Consistent, Entries
  <2>4. Search(e)
    BY <1>1, <1>3, <1>4 DEF Consistent, Search, Searchable
  <2> QED
    BY <2>2, <2>3, <2>4
<1>9. ASSUME NEW t \in DOMAIN d.tables \ {TABLES, COLUMNS}
      PROVE  /\ Unfound(e, t) = Unfound(d, t)
             /\ WholeTable(d, t) => WholeTable(e, t)
  <2>1. \A root \in IndexesIn(d, t) : root \in Page /\ (d.tree[root] # Zeros => e.tree[root] = d.tree[root])
    BY <1>4, UserIndexes
  <2>2. \A root \in IndexesIn(d, t) : d.tree[root] = Zeros => root = p \/ e.tree[root] = Zeros
    BY <1>4, UserIndexes
  <2>3. d.tables[t].root \in Page
    BY RowTypes
  <2>4. \A id \in IdsIn(d, d.tables[t].root) : id \in Nat
    BY <1>2, <2>3, TreeIds DEF Typed
  <2>5. \A id \in IdsIn(d, d.tables[t].root), root \in IndexesIn(d, t) :
          id \in e.tree[root] <=> id \in d.tree[root]
    BY <1>4, <2>1, <2>2, <2>4 DEF Zeros
  <2>6. Unfound(e, t) = Unfound(d, t)
    BY <1>1, <1>3, <1>5, <2>3, <2>5 DEF Unfound
  <2>7. WholeTable(d, t) => WholeTable(e, t)
    <3>1. \A c \in RowsFor(d, t) : d.tree[d.columns[c].root] # Zeros => e.tree[d.columns[c].root] # Zeros
      BY <1>4, UserIndexes
    <3>2. RowsFor(e, t) = RowsFor(d, t)
      BY <1>1 DEF RowsFor
    <3> QED
      BY <1>1, <1>4, <1>5, <3>1, <3>2 DEF WholeTable
  <2> QED
    BY <2>6, <2>7
<1>10. Whole(e)
  <2>1. \A t \in DOMAIN d.tables : d.tables[t].root \in Page
    BY RowTypes
  <2> QED
    BY <1>1, <1>4, <1>9, <2>1 DEF Consistent, Whole
<1>11. \A n \in Nat : Lost(d, n) => Lost(e, n)
  BY <1>1, <1>9, LessLost
<1> QED
  BY <1>1, <1>6, <1>7, <1>8, <1>10, <1>11 DEF Consistent

\* An id is added to a tree that is there.
Adds(d, e, p, id) == e.tree = [d.tree EXCEPT ![p] = @ \union {id}]
TreesTyped(d) == d.tree \in [Page -> Tree]
Grown(d, e, p, id) ==
  /\ e.tree \in [Page -> Tree]
  /\ e.tree[p] = d.tree[p] \union {id}
  /\ IdsIn(e, p) = IdsIn(d, p) \union {id}
  /\ \A q \in Page : q # p => e.tree[q] = d.tree[q] /\ IdsIn(e, q) = IdsIn(d, q)
  /\ \A q \in Page : e.tree[q] = Zeros <=> d.tree[q] = Zeros
  /\ \A q \in Page : IdsIn(d, q) \subseteq IdsIn(e, q) /\ d.tree[q] \subseteq e.tree[q]

LEMMA IdAdded ==
  ASSUME NEW d, TreesTyped(d), NEW p \in Page, d.tree[p] # Zeros, NEW id \in Nat,
         NEW e, Adds(d, e, p, id)
  PROVE  Grown(d, e, p, id)
<1> USE DEF Adds, TreesTyped
<1>1. d.tree[p] \in SUBSET Nat /\ -1 \notin Nat
  BY TreeIds
<1>2. e.tree[p] = d.tree[p] \union {id} /\ \A q \in Page : q # p => e.tree[q] = d.tree[q]
  OBVIOUS
<1>3. e.tree[p] \in SUBSET Nat /\ e.tree[p] # Zeros
  BY <1>1, <1>2 DEF Zeros
<1>4. e.tree \in [Page -> Tree]
  <2>1. e.tree[p] \in Tree
    BY <1>3 DEF Tree
  <2> QED
    BY <1>2, <2>1
<1>5. IdsIn(e, p) = IdsIn(d, p) \union {id}
  BY <1>1, <1>2 DEF IdsIn, Zeros
<1>6. \A q \in Page : q # p => IdsIn(e, q) = IdsIn(d, q)
  BY <1>2 DEF IdsIn
<1> QED
  BY <1>2, <1>3, <1>4, <1>5, <1>6 DEF Grown

\* The row of a new table: its id and its root are not those of another, and the
\* root is zeros still.
LEMMA TableRowConsistent ==
  ASSUME NEW d, Consistent(d), TABLES \in DOMAIN d.tables,
         NEW id \in Nat \ DOMAIN d.tables, id < d.tables[TABLES].next_id,
         NEW row \in TableRows, row.root \notin Fixed, row.root < d.nb_pages,
         d.tree[row.root] = Zeros,
         \A t \in DOMAIN d.tables : d.tables[t].root # row.root,
         \A c \in DOMAIN d.columns : d.columns[c].root # row.root /\ d.columns[c].table # id,
         NEW e, e = Stored(d, insert(TABLES, id, row))
  PROVE  /\ Consistent(e) /\ \A n \in Nat : Lost(d, n) => Lost(e, n)
         /\ DOMAIN e.tables = DOMAIN d.tables \union {id} /\ e.tables[id] = row
         /\ \A t \in DOMAIN d.tables : e.tables[t] = d.tables[t]
<1>1. /\ Shape(e) /\ e.nb_pages = d.nb_pages
      /\ e.tree = [d.tree EXCEPT ![TABLES] = @ \union {id}]
      /\ e.tables = WithRow(d.tables, id, row) /\ e.columns = d.columns
  <2>1. Shape(d)
    BY DEF Consistent
  <2>2. e = [nb_pages |-> d.nb_pages, tree |-> [d.tree EXCEPT ![TABLES] = @ \union {id}],
             tables |-> IF TABLES = TABLES THEN WithRow(d.tables, id, row) ELSE d.tables,
             columns |-> IF TABLES = COLUMNS THEN WithRow(d.columns, id, row) ELSE d.columns]
    BY <2>1, RowStored
  <2> QED
    BY ONLY <2>2 DEF Shape
<1>2. /\ DOMAIN e.tables = DOMAIN d.tables \union {id} /\ e.tables[id] = row
      /\ \A t \in DOMAIN d.tables : e.tables[t] = d.tables[t]
  BY <1>1 DEF WithRow
<1>3. Typed(d) /\ d.nb_pages \in Nat /\ DOMAIN d.tables = IdsIn(d, TABLES) /\ row.root \in Page
  BY RowTypes DEF Consistent, TableRows
<1>4. 0 \in Page /\ 1 \in Page /\ 2 \in Page /\ 3 \in Page /\ 4 \in Page
  BY FixedPages DEF Fixed
<1>5. d.tree[TABLES] # Zeros
  BY <1>3, <1>4, TreeIds DEF Typed
<1>6. /\ e.tree \in [Page -> Tree]
      /\ IdsIn(e, TABLES) = IdsIn(d, TABLES) \union {id}
      /\ \A q \in Page : q # TABLES => e.tree[q] = d.tree[q] /\ IdsIn(e, q) = IdsIn(d, q)
      /\ \A q \in Page : e.tree[q] = Zeros <=> d.tree[q] = Zeros
      /\ id \notin IdsIn(d, TABLES)
  BY <1>1, <1>3, <1>4, <1>5, IdAdded DEF Typed, TreesTyped, Adds, Grown
<1>7. \A t : ColumnsIn(e, t) = ColumnsIn(d, t) /\ IndexesIn(e, t) = IndexesIn(d, t)
  BY <1>1, <1>4, <1>6 DEF ColumnsIn, IndexesIn
<1>8. id # TABLES /\ row.root # TABLES /\ \A t \in DOMAIN d.tables : t # id
  BY DEF Fixed
<1>9. Typed(e)
  <2>1. e.tables \in [IdsIn(e, TABLES) -> TableRows]
    <3>1. e.tables = [i \in DOMAIN d.tables \union {id} |-> IF i = id THEN row ELSE d.tables[i]]
      BY <1>1 DEF WithRow
    <3>2. \A i \in DOMAIN d.tables : d.tables[i] \in TableRows
      BY RowTypes
    <3>3. DOMAIN d.tables \union {id} = IdsIn(e, TABLES)
      BY <1>3, <1>6
    <3> QED
      BY <3>1, <3>2, <3>3
  <2>2. IsFiniteSet(DOMAIN e.tables)
    BY <1>2, <1>3, FS_AddElement DEF Typed
  <2>3. \A p \in Page : p >= e.nb_pages => e.tree[p] = Zeros
    BY <1>1, <1>3, <1>6 DEF Typed
  <2> QED
    BY <1>1, <1>3, <1>4, <1>6, <2>1, <2>2, <2>3 DEF Typed
<1>10. TableRoots(e)
  <2>1. ASSUME NEW t \in DOMAIN e.tables
        PROVE  /\ e.tables[t].root < e.nb_pages
               /\ e.tables[t].root = TABLES <=> t = TABLES
               /\ e.tables[t].root \in Fixed => t = e.tables[t].root /\ t \in {TABLES, COLUMNS}
    <3>1. CASE t = id
      BY <1>1, <1>2, <1>8, <3>1
    <3>2. CASE t \in DOMAIN d.tables
      BY <1>1, <1>2, <3>2 DEF Consistent, TableRoots
    <3> QED
      BY <1>2, <3>1, <3>2
  <2>2. \A t, u \in DOMAIN e.tables : e.tables[t].root = e.tables[u].root => t = u
    BY <1>2 DEF Consistent, TableRoots
  <2>3. TABLES \in DOMAIN e.tables /\ e.nb_pages >= 5
    BY <1>1, <1>2 DEF Consistent, TableRoots
  <2> QED
    BY <2>1, <2>2, <2>3 DEF TableRoots
<1>11. ColumnRoots(e)
  BY <1>1, <1>2 DEF Consistent, ColumnRoots
<1>12. NextIds(e)
  <2>1. ASSUME NEW t \in DOMAIN e.tables, NEW i \in IdsIn(e, e.tables[t].root)
        PROVE  i < e.tables[t].next_id
    <3>1. CASE t = id
      <4>1. IdsIn(e, row.root) = {}
        BY <1>3, <1>6, <1>8, TreeIds DEF Typed
      <4> QED
        BY <1>2, <3>1, <4>1
    <3>2. CASE t = TABLES
      <4>1. d.tables[TABLES].root = TABLES
        BY DEF Consistent, TableRoots
      <4>2. i \in IdsIn(d, TABLES) \/ i = id
        BY <1>2, <1>6, <3>2, <4>1
      <4> QED
        BY <1>2, <3>2, <4>1, <4>2 DEF Consistent, NextIds
    <3>3. CASE t \in DOMAIN d.tables \ {TABLES}
      <4>1. d.tables[t].root # TABLES /\ d.tables[t].root \in Page
        BY <3>3, RowTypes DEF Consistent, TableRoots
      <4> QED
        BY <1>2, <1>6, <3>3, <4>1 DEF Consistent, NextIds
    <3> QED
      BY <1>2, <3>1, <3>2, <3>3
  <2> QED
    BY <2>1 DEF NextIds
<1>13. Entries(e)
  <2>1. ASSUME NEW c \in DOMAIN e.columns \ (0..2)
        PROVE  IdsIn(e, e.columns[c].root) \subseteq IdsIn(e, e.tables[e.columns[c].table].root)
    <3> DEFINE t == d.columns[c].table
    <3>1. /\ t \in DOMAIN d.tables /\ t \notin {TABLES, COLUMNS}
          /\ d.columns[c].root \in Page /\ d.columns[c].root \notin Fixed
          /\ IdsIn(d, d.columns[c].root) \subseteq IdsIn(d, d.tables[t].root)
      BY <1>1, RowTypes DEF Consistent, ColumnRoots, Entries
    <3>2. d.tables[t].root \in Page /\ d.tables[t].root # TABLES
      BY <3>1, RowTypes DEF Consistent, TableRoots
    <3> HIDE DEF t
    <3>3. d.columns[c].root # TABLES
      BY <3>1 DEF Fixed
    <3>4. IdsIn(e, d.columns[c].root) \subseteq IdsIn(e, d.tables[t].root)
      BY <1>6, <3>1, <3>2, <3>3
    <3>5. e.tables[t].root = d.tables[t].root
      BY <1>2, <3>1
    <3> QED
      BY <1>1, <3>4, <3>5 DEF t
  <2>2. /\ IdsIn(e, TABLES_NAMES) \subseteq DOMAIN e.tables
        /\ IdsIn(e, COLUMNS_TIDX) \union IdsIn(e, COLUMNS_NAMES) \subseteq DOMAIN e.columns
    BY <1>1, <1>2, <1>4, <1>6 DEF Consistent, Entries
  <2> QED
    BY <2>1, <2>2 DEF Entries
<1>14. Search(e)
  BY <1>1, <1>4, <1>6 DEF Consistent, Search, Searchable
<1>15. ASSUME NEW t \in DOMAIN d.tables \ {TABLES, COLUMNS}
       PROVE  /\ Unfound(e, t) = Unfound(d, t)
              /\ WholeTable(d, t) => WholeTable(e, t)
  <2>2. d.tables[t].root \in Page /\ d.tables[t].root # TABLES
    BY UserIndexes DEF Fixed
  <2>3. IdsIn(e, e.tables[t].root) = IdsIn(d, d.tables[t].root)
    BY <1>2, <1>6, <2>2
  <2>4. \A c \in RowsFor(d, t) : e.tree[d.columns[c].root] = d.tree[d.columns[c].root]
    BY <1>6, UserIndexes DEF Fixed
  <2>5. /\ WholeTable(d, t) => t \in e.tree[TABLES_NAMES]
        /\ e.tree[COLUMNS_NAMES] = d.tree[COLUMNS_NAMES]
    BY <1>4, <1>6 DEF WholeTable
  <2>6. e.tables[t] = d.tables[t]
    BY <1>2
  <2>7. SameColumns(d, e, t)
    BY <1>1, <1>7, <2>4, ColumnsThere DEF SameColumns, RowsFor
  <2> QED
    BY <2>3, <2>5, <2>6, <2>7, SameTable
<1>16. Whole(e)
  <2>1. ASSUME NEW t \in DOMAIN e.tables \ {TABLES, COLUMNS}, e.tree[e.tables[t].root] # Zeros
        PROVE  WholeTable(e, t)
    <3>1. CASE t = id
      BY <1>2, <1>3, <1>6, <2>1, <3>1
    <3>2. CASE t \in DOMAIN d.tables
      <4>1. d.tables[t].root \in Page
        BY <3>2, RowTypes
      <4> QED
        BY <1>2, <1>6, <1>15, <2>1, <3>2, <4>1 DEF Consistent, Whole
    <3> QED
      BY <1>2, <3>1, <3>2
  <2> QED
    BY <2>1 DEF Whole
<1>17. \A n \in Nat : Lost(d, n) => Lost(e, n)
  <2>1. Unfound(e, id) = {}
    <3>1. IdsIn(e, row.root) = {}
      BY <1>3, <1>6, <1>8, TreeIds DEF Typed
    <3> QED
      BY <1>2, <3>1 DEF Unfound
  <2> QED
    BY <1>2, <1>15, <2>1, LessLost
<1> QED
  BY <1>1, <1>2, <1>9, <1>10, <1>11, <1>12, <1>13, <1>14, <1>16, <1>17 DEF Consistent

\* The row of a new column of a table whose root is zeros.
LEMMA ColumnRowConsistent ==
  ASSUME NEW d, Consistent(d), Searchable(d),
         NEW id \in Nat, id \notin DOMAIN d.columns, id < d.tables[COLUMNS].next_id,
         NEW row \in ColumnRows, row.table \in DOMAIN d.tables \ {TABLES, COLUMNS},
         d.tree[d.tables[row.table].root] = Zeros, row.root \notin Fixed, row.root < d.nb_pages, IdsIn(d, row.root) = {},
         \A t \in DOMAIN d.tables : d.tables[t].root # row.root,
         \A c \in DOMAIN d.columns : d.columns[c].root # row.root,
         NEW e, e = Stored(d, insert(COLUMNS, id, row))
  PROVE  /\ Consistent(e) /\ \A n \in Nat : Lost(d, n) => Lost(e, n)
         /\ DOMAIN e.columns = DOMAIN d.columns \union {id} /\ e.columns[id] = row
         /\ \A c \in DOMAIN d.columns : e.columns[c] = d.columns[c]
<1>1. /\ Shape(e) /\ e.nb_pages = d.nb_pages
      /\ e.tree = [d.tree EXCEPT ![COLUMNS] = @ \union {id}]
      /\ e.tables = d.tables /\ e.columns = WithRow(d.columns, id, row)
  <2>1. Shape(d)
    BY DEF Consistent
  <2>2. e = [nb_pages |-> d.nb_pages, tree |-> [d.tree EXCEPT ![COLUMNS] = @ \union {id}],
             tables |-> IF COLUMNS = TABLES THEN WithRow(d.tables, id, row) ELSE d.tables,
             columns |-> IF COLUMNS = COLUMNS THEN WithRow(d.columns, id, row) ELSE d.columns]
    BY <2>1, RowStored
  <2> QED
    BY ONLY <2>2 DEF Shape
<1>2. /\ DOMAIN e.columns = DOMAIN d.columns \union {id} /\ e.columns[id] = row
      /\ \A c \in DOMAIN d.columns : e.columns[c] = d.columns[c]
  BY <1>1 DEF WithRow
<1>3. Typed(d) /\ d.nb_pages \in Nat /\ DOMAIN d.columns = IdsIn(d, COLUMNS) /\ row.root \in Page
  BY RowTypes DEF Consistent, ColumnRows
<1>4. 0 \in Page /\ 1 \in Page /\ 2 \in Page /\ 3 \in Page /\ 4 \in Page
  BY FixedPages DEF Fixed
<1>5. 0 \in DOMAIN d.columns /\ 1 \in DOMAIN d.columns /\ 2 \in DOMAIN d.columns
  BY DEF Consistent, Search
<1>6. d.tree[COLUMNS] # Zeros
  BY <1>3, <1>4, <1>5, TreeIds DEF Typed
<1>7. /\ e.tree \in [Page -> Tree]
      /\ IdsIn(e, COLUMNS) = IdsIn(d, COLUMNS) \union {id}
      /\ \A q \in Page : q # COLUMNS => e.tree[q] = d.tree[q] /\ IdsIn(e, q) = IdsIn(d, q)
      /\ \A q \in Page : e.tree[q] = Zeros <=> d.tree[q] = Zeros
  BY <1>1, <1>3, <1>4, <1>6, IdAdded DEF Typed, TreesTyped, Adds, Grown
<1>8. id \notin 0..2 /\ row.root # COLUMNS
  <2>1. \A i \in 0..2 : i = 0 \/ i = 1 \/ i = 2
    OBVIOUS
  <2> QED
    BY <1>5, <2>1 DEF Fixed
<1>9. IdsIn(d, COLUMNS_TIDX) \union IdsIn(d, COLUMNS_NAMES) \subseteq DOMAIN d.columns
  BY DEF Consistent, Entries
<1>10. \A t : ColumnsIn(e, t) = ColumnsIn(d, t) /\ IndexesIn(e, t) = IndexesIn(d, t)
  <2>1. IdsIn(e, COLUMNS_TIDX) = IdsIn(d, COLUMNS_TIDX)
    BY <1>4, <1>7
  <2>2. \A c \in IdsIn(d, COLUMNS_TIDX) : e.columns[c] = d.columns[c]
    BY <1>2, <1>9
  <2>3. \A t : ColumnsIn(e, t) = ColumnsIn(d, t)
    BY <2>1, <2>2 DEF ColumnsIn
  <2>4. \A t : \A c \in ColumnsIn(d, t) : e.columns[c] = d.columns[c]
    BY <2>2 DEF ColumnsIn
  <2> QED
    BY <2>3, <2>4 DEF IndexesIn
<1>11. Typed(e)
  <2>1. e.columns \in [IdsIn(e, COLUMNS) -> ColumnRows]
    <3>1. e.columns = [i \in DOMAIN d.columns \union {id} |-> IF i = id THEN row ELSE d.columns[i]]
      BY <1>1 DEF WithRow
    <3>2. \A i \in DOMAIN d.columns : d.columns[i] \in ColumnRows
      BY RowTypes
    <3>3. DOMAIN d.columns \union {id} = IdsIn(e, COLUMNS)
      BY <1>3, <1>7
    <3> QED
      BY <3>1, <3>2, <3>3
  <2>2. IsFiniteSet(DOMAIN e.columns)
    BY <1>2, <1>3, FS_AddElement DEF Typed
  <2>3. \A p \in Page : p >= e.nb_pages => e.tree[p] = Zeros
    BY <1>1, <1>3, <1>7 DEF Typed
  <2> QED
    BY <1>1, <1>3, <1>4, <1>7, <2>1, <2>2, <2>3 DEF Typed
<1>12. TableRoots(e)
  BY <1>1 DEF Consistent, TableRoots
<1>13. ColumnRoots(e)
  <2>1. COLUMNS \in DOMAIN d.tables /\ d.tables[COLUMNS].root = COLUMNS
    BY <1>5 DEF Consistent, ColumnRoots
  <2>2. ASSUME NEW c \in DOMAIN e.columns
        PROVE  /\ e.columns[c].table \in DOMAIN d.tables
               /\ e.columns[c].root < e.nb_pages
               /\ c \in 0..2 => e.columns[c] = InitialColumn(c)
               /\ c \notin 0..2 => /\ e.columns[c].table \notin {TABLES, COLUMNS}
                                   /\ e.columns[c].root \notin Fixed
    <3>1. CASE c = id
      BY <1>1, <1>2, <1>8, <3>1
    <3>2. CASE c \in DOMAIN d.columns
      BY <1>1, <1>2, <3>2 DEF Consistent, ColumnRoots
    <3> QED
      BY <1>2, <3>1, <3>2
  <2>3. \A a, b \in DOMAIN e.columns : e.columns[a].root = e.columns[b].root => a = b
    BY <1>2 DEF Consistent, ColumnRoots
  <2>4. \A c \in DOMAIN e.columns, t \in DOMAIN d.tables : e.columns[c].root # d.tables[t].root
    BY <1>2 DEF Consistent, ColumnRoots
  <2> QED
    BY <1>1, <2>1, <2>2, <2>3, <2>4 DEF ColumnRoots
<1>14. NextIds(e)
  <2>1. ASSUME NEW t \in DOMAIN d.tables, NEW i \in IdsIn(e, d.tables[t].root)
        PROVE  i < d.tables[t].next_id
    <3>1. d.tables[t].root \in Page
      BY RowTypes
    <3>2. CASE d.tables[t].root = COLUMNS
      <4>1. t = COLUMNS
        BY <3>2 DEF Consistent, TableRoots, Fixed
      <4>2. i \in IdsIn(d, COLUMNS) \/ i = id
        BY <1>7, <3>2
      <4> QED
        BY <3>2, <4>1, <4>2 DEF Consistent, NextIds
    <3>3. CASE d.tables[t].root # COLUMNS
      BY <1>7, <3>1, <3>3 DEF Consistent, NextIds
    <3> QED
      BY <3>2, <3>3
  <2> QED
    BY <1>1, <2>1 DEF NextIds
<1>15. Entries(e)
  <2>1. ASSUME NEW c \in DOMAIN e.columns \ (0..2)
        PROVE  IdsIn(e, e.columns[c].root) \subseteq IdsIn(e, d.tables[e.columns[c].table].root)
    <3>1. CASE c = id
      BY <1>2, <1>3, <1>7, <1>8, <3>1
    <3>2. CASE c \in DOMAIN d.columns
      <4> DEFINE t == d.columns[c].table
      <4>1. /\ t \in DOMAIN d.tables /\ t \notin {TABLES, COLUMNS}
            /\ d.columns[c].root \in Page /\ d.columns[c].root \notin Fixed
            /\ IdsIn(d, d.columns[c].root) \subseteq IdsIn(d, d.tables[t].root)
        BY <3>2, RowTypes DEF Consistent, ColumnRoots, Entries
      <4>2. d.tables[t].root \in Page /\ d.tables[t].root # COLUMNS
        BY <4>1, UserIndexes DEF Fixed
      <4> HIDE DEF t
      <4>3. d.columns[c].root # COLUMNS
        BY <4>1 DEF Fixed
      <4>4. IdsIn(e, d.columns[c].root) \subseteq IdsIn(e, d.tables[t].root)
        BY <1>7, <4>1, <4>2, <4>3
      <4> QED
        BY <1>2, <3>2, <4>4 DEF t
    <3> QED
      BY <1>2, <3>1, <3>2
  <2>2. /\ IdsIn(e, TABLES_NAMES) \subseteq DOMAIN e.tables
        /\ IdsIn(e, COLUMNS_TIDX) \union IdsIn(e, COLUMNS_NAMES) \subseteq DOMAIN e.columns
    BY <1>1, <1>2, <1>4, <1>7 DEF Consistent, Entries
  <2> QED
    BY <1>1, <2>1, <2>2 DEF Entries
<1>16. Search(e)
  BY <1>2, <1>4, <1>7 DEF Consistent, Search, Searchable
<1>17. ASSUME NEW t \in DOMAIN d.tables \ {TABLES, COLUMNS}
       PROVE  Unfound(e, t) = Unfound(d, t)
  <2>1. \A root \in IndexesIn(d, t) : e.tree[root] = d.tree[root]
    BY <1>7, UserIndexes DEF Fixed
  <2>2. d.tables[t].root \in Page /\ d.tables[t].root # COLUMNS
    BY UserIndexes DEF Fixed
  <2>3. IdsIn(e, e.tables[t].root) = IdsIn(d, d.tables[t].root)
    BY <1>1, <1>7, <2>2
  <2> QED
    BY <1>10, <2>1, <2>3 DEF Unfound
<1>18. Whole(e)
  <2>1. ASSUME NEW t \in DOMAIN d.tables \ {TABLES, COLUMNS}, e.tree[d.tables[t].root] # Zeros
        PROVE  WholeTable(e, t)
    <3>1. d.tree[d.tables[t].root] # Zeros
      BY <1>7, <2>1, RowTypes
    <3>2. WholeTable(d, t) /\ row.table # t
      BY <3>1 DEF Consistent, Whole
    <3>3. RowsFor(e, t) = RowsFor(d, t)
      BY <1>2, <3>2 DEF RowsFor
    <3>4. \A c \in RowsFor(d, t) : e.columns[c] = d.columns[c]
      BY <1>2 DEF RowsFor
    <3>5. \A c \in RowsFor(d, t) : e.tree[d.columns[c].root] = d.tree[d.columns[c].root]
      BY <1>7, UserIndexes DEF Fixed
    <3>6. SameColumns(d, e, t)
      BY <1>10, <3>3, <3>4, <3>5, ColumnsThere DEF SameColumns
    <3>7. t \in e.tree[TABLES_NAMES] /\ e.tree[COLUMNS_NAMES] = d.tree[COLUMNS_NAMES]
      BY <1>4, <1>7, <3>2 DEF WholeTable
    <3> QED
      BY <1>1, <3>2, <3>6, <3>7, SameTable
  <2> QED
    BY <1>1, <2>1 DEF Whole
<1>19. \A n \in Nat : Lost(d, n) => Lost(e, n)
  BY <1>1, <1>17, LessLost
<1> QED
  BY <1>1, <1>2, <1>11, <1>12, <1>13, <1>14, <1>15, <1>16, <1>18, <1>19 DEF Consistent

\* An entry of an index of the catalog.  A column is entered in COLUMNS_TIDX while the
\* root of its table is zeros.
LEMMA CatalogEntryConsistent ==
  ASSUME NEW d, Consistent(d), Searchable(d),
         NEW p, p \in {TABLES_NAMES, COLUMNS_TIDX, COLUMNS_NAMES}, d.tree[p] # Zeros,
         NEW id \in Nat,
         p = TABLES_NAMES => id \in DOMAIN d.tables,
         p # TABLES_NAMES => id \in DOMAIN d.columns,
         p = COLUMNS_TIDX => /\ id \notin 0..2
                             /\ d.tree[d.tables[d.columns[id].table].root] = Zeros,
         NEW e, e = Stored(d, insert_bt(p, id))
  PROVE  Consistent(e) /\ \A n \in Nat : Lost(d, n) => Lost(e, n)
<1>1. /\ Shape(e) /\ e.nb_pages = d.nb_pages /\ e.tree = [d.tree EXCEPT ![p] = @ \union {id}]
      /\ e.tables = d.tables /\ e.columns = d.columns
  <2>1. Shape(d)
    BY DEF Consistent
  <2>2. Stored(d, insert_bt(p, id)) =
          [nb_pages |-> d.nb_pages, tree |-> [d.tree EXCEPT ![p] = @ \union {id}],
           tables |-> d.tables, columns |-> d.columns]
    BY ONLY <2>1, EntryStored
  <2>3. e = [nb_pages |-> d.nb_pages, tree |-> [d.tree EXCEPT ![p] = @ \union {id}],
             tables |-> d.tables, columns |-> d.columns]
    BY <2>2
  <2> QED
    BY ONLY <2>3 DEF Shape
<1>2. Typed(d) /\ d.nb_pages \in Nat
  BY RowTypes DEF Consistent
<1>3. 0 \in Page /\ 1 \in Page /\ 2 \in Page /\ 3 \in Page /\ 4 \in Page /\ p \in Page
  BY FixedPages DEF Fixed
<1>4. /\ e.tree \in [Page -> Tree]
      /\ IdsIn(e, p) = IdsIn(d, p) \union {id}
      /\ e.tree[p] = d.tree[p] \union {id}
      /\ \A q \in Page : q # p => e.tree[q] = d.tree[q] /\ IdsIn(e, q) = IdsIn(d, q)
      /\ \A q \in Page : e.tree[q] = Zeros <=> d.tree[q] = Zeros
      /\ \A q \in Page : IdsIn(d, q) \subseteq IdsIn(e, q) /\ d.tree[q] \subseteq e.tree[q]
  <2>1. TreesTyped(d) /\ p \in Page /\ d.tree[p] # Zeros /\ Adds(d, e, p, id)
    BY <1>1, <1>2, <1>3 DEF Typed, TreesTyped, Adds
  <2>2. Grown(d, e, p, id)
    BY ONLY <2>1, IdAdded
  <2> QED
    BY ONLY <2>2 DEF Grown
<1>5. p # TABLES /\ p # COLUMNS /\ p \in Fixed
  BY DEF Fixed
<1>6. \A t \in DOMAIN d.tables : d.tables[t].root \in Page /\ d.tables[t].root # p
  BY RowTypes DEF Consistent, TableRoots, Fixed
<1>7. \A c \in DOMAIN d.columns \ (0..2) :
        /\ d.columns[c].root \in Page /\ d.columns[c].root # p
        /\ d.columns[c].table \in DOMAIN d.tables
  BY <1>5, RowTypes DEF Consistent, ColumnRoots
<1>8. Typed(e)
  BY <1>1, <1>2, <1>3, <1>4, <1>5 DEF Typed
<1>9. TableRoots(e) /\ ColumnRoots(e)
  BY <1>1 DEF Consistent, TableRoots, ColumnRoots
<1>10. NextIds(e)
  BY <1>1, <1>4, <1>6 DEF Consistent, NextIds
<1>11. Entries(e)
  <2>1. \A c \in DOMAIN d.columns \ (0..2) :
          IdsIn(e, d.columns[c].root) \subseteq IdsIn(e, d.tables[d.columns[c].table].root)
    BY <1>4, <1>6, <1>7 DEF Consistent, Entries
  <2>2. IdsIn(e, TABLES_NAMES) \subseteq DOMAIN d.tables
    BY <1>3, <1>4 DEF Consistent, Entries
  <2>3. IdsIn(e, COLUMNS_TIDX) \union IdsIn(e, COLUMNS_NAMES) \subseteq DOMAIN d.columns
    BY <1>3, <1>4 DEF Consistent, Entries
  <2> QED
    BY <1>1, <2>1, <2>2, <2>3 DEF Entries
<1>12. Search(e)
  <2>1. Searchable(e)
    BY <1>3, <1>4 DEF Searchable
  <2>2. e.tree[TABLES_NAMES] # Zeros
    BY <1>3, <1>4 DEF Consistent, Search
  <2>3. 2 \in IdsIn(e, COLUMNS_TIDX) => 1 \in IdsIn(e, COLUMNS_TIDX)
    <3>1. 2 \in IdsIn(e, COLUMNS_TIDX) => 2 \in IdsIn(d, COLUMNS_TIDX)
      BY <1>3, <1>4
    <3> QED
      BY <1>3, <1>4, <3>1 DEF Consistent, Search
  <2> QED
    BY <1>1, <2>1, <2>2, <2>3 DEF Consistent, Search
<1>13. ASSUME NEW t \in DOMAIN d.tables \ {TABLES, COLUMNS}, d.tree[d.tables[t].root] # Zeros
       PROVE  ColumnsIn(e, t) = ColumnsIn(d, t)
  <2>1. CASE p = COLUMNS_TIDX
    <3>1. d.columns[id].table # t
      BY <1>13, <2>1
    <3>2. IdsIn(e, COLUMNS_TIDX) = IdsIn(d, COLUMNS_TIDX) \union {id}
      BY <1>4, <2>1
    <3> QED
      BY <1>1, <3>1, <3>2 DEF ColumnsIn
  <2>2. CASE p # COLUMNS_TIDX
    BY <1>1, <1>3, <1>4, <2>2 DEF ColumnsIn
  <2> QED
    BY <2>1, <2>2
<1>14. ASSUME NEW t \in DOMAIN d.tables \ {TABLES, COLUMNS}, d.tree[d.tables[t].root] # Zeros
       PROVE  /\ Unfound(e, t) = Unfound(d, t)
              /\ WholeTable(d, t) => WholeTable(e, t)
  <2>1. \A c \in RowsFor(d, t) : e.tree[d.columns[c].root] = d.tree[d.columns[c].root]
    BY <1>4, <1>5, UserIndexes
  <2>2. IdsIn(e, e.tables[t].root) = IdsIn(d, d.tables[t].root)
    BY <1>1, <1>4, <1>6
  <2>3. /\ WholeTable(d, t) => t \in e.tree[TABLES_NAMES]
        /\ d.tree[COLUMNS_NAMES] = Zeros => e.tree[COLUMNS_NAMES] = Zeros
    BY <1>3, <1>4 DEF WholeTable
  <2>4. SameColumns(d, e, t)
    <3>1. ColumnsIn(e, t) = ColumnsIn(d, t)
      BY <1>13, <1>14
    <3>2. e.columns = d.columns /\ RowsFor(e, t) = RowsFor(d, t)
      BY <1>1 DEF RowsFor
    <3> QED
      BY <2>1, <3>1, <3>2, ColumnsThere DEF SameColumns
  <2> QED
    BY <1>1, <2>2, <2>3, <2>4, SameTable
<1>15. Whole(e)
  BY <1>1, <1>4, <1>6, <1>14 DEF Consistent, Whole
<1>16. \A n \in Nat : Lost(d, n) => Lost(e, n)
  <2>1. ASSUME NEW t \in DOMAIN d.tables \ {TABLES, COLUMNS}, d.tree[d.tables[t].root] = Zeros
        PROVE  Unfound(e, t) = {}
    <3>1. IdsIn(e, e.tables[t].root) = {}
      BY <1>1, <1>2, <1>4, <1>6, <2>1, TreeIds DEF Typed
    <3> QED
      BY <3>1 DEF Unfound
  <2> QED
    BY <1>1, <1>14, <2>1, LessLost
<1> QED
  BY <1>1, <1>8, <1>9, <1>10, <1>11, <1>12, <1>15, <1>16 DEF Consistent

\* A row of a user is added, or the id of one to an index of its table.
LEMMA UserStoreConsistent ==
  ASSUME NEW d, Consistent(d), NEW t \in DOMAIN d.tables \ {TABLES, COLUMNS},
         d.tree[d.tables[t].root] # Zeros,
         NEW id \in Nat, id < d.tables[t].next_id,
         NEW p, p = d.tables[t].root \/ (p \in IndexesIn(d, t) /\ id \in d.tree[d.tables[t].root]),
         NEW e, Shape(e), e.nb_pages = d.nb_pages, e.tree = [d.tree EXCEPT ![p] = @ \union {id}],
         e.tables = d.tables, e.columns = d.columns
  PROVE  /\ Consistent(e)
         /\ \A u : IndexesIn(e, u) = IndexesIn(d, u)
         /\ UnindexedIn(e) \subseteq UnindexedIn(d) \union {<<t, id>>}
         /\ p # d.tables[t].root => UnindexedIn(e) \subseteq UnindexedIn(d)
         /\ \A q \in Page : d.tree[q] \subseteq e.tree[q] /\ (e.tree[q] = Zeros <=> d.tree[q] = Zeros)
         /\ id \in e.tree[p]
<1>1. Typed(d) /\ d.nb_pages \in Nat /\ WholeTable(d, t) /\ Searchable(d)
  <2>1. d.tables[t].root \in Page /\ d.tables[t].root \notin Fixed
    BY UserIndexes
  <2>2. d.tables[t].root > 4
    <3>1. d.tables[t].root \in Nat
      BY <2>1, FixedPages
    <3> QED
      BY <2>1, <3>1 DEF Fixed
  <2> QED
    BY <2>1, <2>2, RowTypes DEF Consistent, Whole, Search
<1>2. 0 \in Page /\ 1 \in Page /\ 2 \in Page /\ 3 \in Page /\ 4 \in Page
      /\ p \in Page /\ p \notin Fixed /\ d.tree[p] # Zeros
  BY <1>1, FixedPages, UserIndexes, WholeIndexes DEF Fixed
<1>3. /\ e.tree \in [Page -> Tree]
      /\ IdsIn(e, p) = IdsIn(d, p) \union {id}
      /\ e.tree[p] = d.tree[p] \union {id}
      /\ \A q \in Page : q # p => e.tree[q] = d.tree[q] /\ IdsIn(e, q) = IdsIn(d, q)
      /\ \A q \in Page : e.tree[q] = Zeros <=> d.tree[q] = Zeros
      /\ \A q \in Page : IdsIn(d, q) \subseteq IdsIn(e, q) /\ d.tree[q] \subseteq e.tree[q]
  <2>1. TreesTyped(d) /\ p \in Page /\ d.tree[p] # Zeros /\ Adds(d, e, p, id)
    BY <1>1, <1>2 DEF Typed, TreesTyped, Adds
  <2>2. Grown(d, e, p, id)
    BY ONLY <2>1, IdAdded
  <2> QED
    BY ONLY <2>2 DEF Grown
<1>4. /\ p # 0 /\ p # 1 /\ p # 2 /\ p # 3 /\ p # 4
      /\ d.tables[t].root \in Page /\ d.tables[t].root \notin Fixed
      /\ p < d.nb_pages
  <2>1. p < d.nb_pages
    BY <1>1, <1>2, FixedPages DEF Typed
  <2> QED
    BY <1>2, <2>1, UserIndexes DEF Fixed
<1>5. \A u : ColumnsIn(e, u) = ColumnsIn(d, u) /\ IndexesIn(e, u) = IndexesIn(d, u)
  BY <1>1, <1>2, <1>3, <1>4 DEF ColumnsIn, IndexesIn
<1>6. Typed(e)
  <2>1. IdsIn(e, TABLES) = IdsIn(d, TABLES) /\ IdsIn(e, COLUMNS) = IdsIn(d, COLUMNS)
    BY <1>2, <1>3, <1>4
  <2>2. \A q \in Page : q >= e.nb_pages => e.tree[q] = Zeros
    BY <1>1, <1>3 DEF Typed
  <2> QED
    BY <1>1, <1>3, <2>1, <2>2 DEF Typed
<1>7. TableRoots(e) /\ ColumnRoots(e)
  BY DEF Consistent, TableRoots, ColumnRoots
<1>8. NextIds(e)
  <2>1. ASSUME NEW u \in DOMAIN d.tables, NEW i \in IdsIn(e, d.tables[u].root)
        PROVE  i < d.tables[u].next_id
    <3>1. d.tables[u].root \in Page
      BY RowTypes
    <3>2. CASE d.tables[u].root = p
      <4>1. u = t
        BY <3>2, UserIndexes DEF Consistent, TableRoots
      <4>2. i \in IdsIn(d, p) \/ i = id
        BY <1>3, <3>2
      <4> QED
        BY <3>2, <4>1, <4>2 DEF Consistent, NextIds
    <3>3. CASE d.tables[u].root # p
      BY <1>3, <3>1, <3>3 DEF Consistent, NextIds
    <3> QED
      BY <3>2, <3>3
  <2> QED
    BY <2>1 DEF NextIds
<1>9. Entries(e)
  <2>1. ASSUME NEW c \in DOMAIN d.columns \ (0..2)
        PROVE  IdsIn(e, d.columns[c].root) \subseteq IdsIn(e, d.tables[d.columns[c].table].root)
    <3> DEFINE u == d.columns[c].table
    <3>1. /\ u \in DOMAIN d.tables /\ d.columns[c].root \in Page /\ d.tables[u].root \in Page
          /\ IdsIn(d, d.columns[c].root) \subseteq IdsIn(d, d.tables[u].root)
      BY RowTypes DEF Consistent, ColumnRoots, Entries
    <3>2. CASE d.columns[c].root = p
      <4>1. p # d.tables[t].root /\ p \in IndexesIn(d, t) /\ id \in d.tree[d.tables[t].root]
        BY <3>2 DEF Consistent, ColumnRoots
      <4>2. u = t
        <5>1. PICK b \in ColumnsIn(d, t) : d.columns[b].root = p
          BY <4>1 DEF IndexesIn
        <5>2. b \in DOMAIN d.columns /\ d.columns[b].table = t
          BY <5>1, ColumnsThere DEF ColumnsIn
        <5>3. b = c
          BY <3>2, <5>1, <5>2 DEF Consistent, ColumnRoots
        <5> QED
          BY <5>2, <5>3
      <4>3. id \in IdsIn(d, d.tables[u].root)
        BY <1>1, <3>1, <4>1, <4>2, TreeIds DEF Typed
      <4> HIDE DEF u
      <4>4. IdsIn(e, d.columns[c].root) \subseteq IdsIn(e, d.tables[u].root)
        BY <1>3, <3>1, <3>2, <4>3
      <4> QED
        BY <4>4 DEF u
    <3>3. CASE d.columns[c].root # p
      <4> HIDE DEF u
      <4>4. IdsIn(e, d.columns[c].root) \subseteq IdsIn(e, d.tables[u].root)
        BY <1>3, <3>1, <3>3
      <4> QED
        BY <4>4 DEF u
    <3> QED
      BY <3>2, <3>3
  <2>2. /\ IdsIn(e, TABLES_NAMES) \subseteq DOMAIN e.tables
        /\ IdsIn(e, COLUMNS_TIDX) \union IdsIn(e, COLUMNS_NAMES) \subseteq DOMAIN e.columns
    BY <1>2, <1>3, <1>4 DEF Consistent, Entries
  <2> QED
    BY <2>1, <2>2 DEF Entries
<1>10. Search(e)
  BY <1>1, <1>2, <1>3, <1>4 DEF Consistent, Search, Searchable
<1>11. Whole(e)
  <2>1. ASSUME NEW u \in DOMAIN d.tables \ {TABLES, COLUMNS}, e.tree[d.tables[u].root] # Zeros
        PROVE  WholeTable(e, u)
    <3>1. WholeTable(d, u)
      BY <1>3, <2>1, RowTypes DEF Consistent, Whole
    <3>2. \A c \in RowsFor(d, u) : e.tree[d.columns[c].root] # Zeros
      BY <1>3, <3>1, UserIndexes DEF WholeTable
    <3>3. RowsFor(e, u) = RowsFor(d, u)
      BY DEF RowsFor
    <3>4. e.tree[TABLES_NAMES] = d.tree[TABLES_NAMES] /\ e.tree[COLUMNS_NAMES] = d.tree[COLUMNS_NAMES]
      BY <1>2, <1>3, <1>4
    <3> QED
      BY <1>5, <3>1, <3>2, <3>3, <3>4 DEF WholeTable
  <2> QED
    BY <2>1 DEF Whole
<1>12. ASSUME NEW u \in DOMAIN d.tables \ {TABLES, COLUMNS}, NEW i \in Unfound(e, u)
       PROVE  \/ i \in Unfound(d, u)
              \/ p = d.tables[t].root /\ u = t /\ i = id
  <2>1. /\ i \in IdsIn(e, d.tables[u].root) /\ d.tables[u].root \in Page
        /\ \E root \in IndexesIn(d, u) : i \notin d.tree[root]
    BY <1>3, <1>5, UserIndexes DEF Unfound
  <2>2. CASE i \in IdsIn(d, d.tables[u].root)
    BY <2>1, <2>2 DEF Unfound
  <2>3. CASE i \notin IdsIn(d, d.tables[u].root)
    <3>1. d.tables[u].root = p /\ i = id
      BY <1>3, <2>1, <2>3
    <3>2. u = t /\ p = d.tables[t].root
      BY <3>1, UserIndexes DEF Consistent, TableRoots
    <3> QED
      BY <3>1, <3>2
  <2> QED
    BY <2>2, <2>3
<1>13. /\ UnindexedIn(e) \subseteq UnindexedIn(d) \union {<<t, id>>}
       /\ p # d.tables[t].root => UnindexedIn(e) \subseteq UnindexedIn(d)
  BY <1>12 DEF UnindexedIn
<1> QED
  BY <1>3, <1>5, <1>6, <1>7, <1>8, <1>9, <1>10, <1>11, <1>13 DEF Consistent

-----------------------------------------------------------------------------
\* initialize_tables
Stores == [at : {"header", "crash"}]
          \union [at : {"node"}, page : Page, ids : SUBSET Nat]
          \union [at : {"next_id"}, table : Nat]
          \union [at : {"row"}, page : Page, id : Int, row : TableRows \union ColumnRows \union {UserRow}]
          \union [at : {"entry"}, page : Page, id : Int]

LEMMA StoreTypes ==
  /\ create_addr \in Stores /\ Crashes \in Stores
  /\ \A p \in Page, ids \in SUBSET Nat : write_node(p, ids) \in Stores
  /\ \A t \in Nat : get_next_id(t) \in Stores
  /\ \A p \in Page, id \in Int : insert_bt(p, id) \in Stores
  /\ \A p \in Page, id \in Int : \A row \in TableRows \union ColumnRows \union {UserRow} :
       insert(p, id, row) \in Stores
<1>1. create_addr \in Stores /\ Crashes \in Stores
  BY DEF Stores, create_addr, Crashes
<1>2. \A p \in Page, ids \in SUBSET Nat : write_node(p, ids) \in Stores
  BY DEF Stores, write_node
<1>3. \A t \in Nat : get_next_id(t) \in Stores
  BY DEF Stores, get_next_id
<1>4. \A p \in Page, id \in Int : insert_bt(p, id) \in Stores
  BY DEF Stores, insert_bt
<1>5. \A p \in Page, id \in Int : \A row \in TableRows \union ColumnRows \union {UserRow} :
        insert(p, id, row) \in Stores
  BY DEF Stores, insert
<1> QED
  BY <1>1, <1>2, <1>3, <1>4, <1>5

FirstRow == TablesRow("TABLES", TABLES, 1, 1)
SecondRow == TablesRow("COLUMNS", COLUMNS, 0, 2)

LEMMA InitialStores ==
  LET s == initialize_tables IN
  /\ s \in Seq(Stores) /\ Len(s) = 25
  /\ \A i \in 1..4 : s[i] = create_addr
  /\ s[5] = write_node(TABLES, {}) /\ s[6] = insert(TABLES, 0, FirstRow)
  /\ s[7] = write_node(TABLES_NAMES, {0}) /\ s[8] = get_next_id(TABLES)
  /\ s[9] = insert(TABLES, 1, SecondRow) /\ s[10] = write_node(COLUMNS, {})
  /\ s[11] = insert_bt(TABLES_NAMES, 1)
  /\ \A c \in 0..2 : /\ s[12 + 2 * c] = get_next_id(COLUMNS)
                     /\ s[13 + 2 * c] = insert(COLUMNS, c, InitialColumn(c))
  /\ s[18] = write_node(COLUMNS_TIDX, {})
  /\ \A c \in 0..2 : s[19 + c] = insert_bt(COLUMNS_TIDX, c)
  /\ s[22] = write_node(COLUMNS_NAMES, {})
  /\ \A c \in 0..2 : s[23 + c] = insert_bt(COLUMNS_NAMES, c)
<1> DEFINE a == [i \in 1..4 |-> create_addr]
           b == <<write_node(TABLES, {}), insert(TABLES, 0, FirstRow)>>
           c == <<write_node(TABLES_NAMES, {0})>>
           d == <<get_next_id(TABLES), insert(TABLES, 1, SecondRow),
                  write_node(COLUMNS, {}), insert_bt(TABLES_NAMES, 1)>>
           r(i) == <<get_next_id(COLUMNS), insert(COLUMNS, i, InitialColumn(i))>>
           x(p) == <<write_node(p, {})>> \o [i \in 1..3 |-> insert_bt(p, i - 1)]
<1>1. initialize_tables = a \o b \o c \o d \o r(0) \o r(1) \o r(2) \o x(COLUMNS_TIDX) \o x(COLUMNS_NAMES)
  <2>1. InitialRow(0) = r(0) /\ InitialRow(1) = r(1) /\ InitialRow(2) = r(2)
    BY DEF InitialRow, InitialColumn
  <2> QED
    BY <2>1 DEF initialize_tables, InitialIndex, FirstRow, SecondRow
<1>2. 0 \in Page /\ 1 \in Page /\ 2 \in Page /\ 3 \in Page /\ 4 \in Page
  BY FixedPages DEF Fixed
<1>3. /\ FirstRow \in TableRows /\ SecondRow \in TableRows
      /\ InitialColumn(0) \in ColumnRows /\ InitialColumn(1) \in ColumnRows /\ InitialColumn(2) \in ColumnRows
  BY <1>2 DEF FirstRow, SecondRow, TablesRow, TableRows, InitialColumn, ColumnsRow, ColumnRows
<1>4. a \in Seq(Stores) /\ Len(a) = 4 /\ \A i \in 1..4 : a[i] = create_addr
  BY StoreTypes
<1>5. b \in Seq(Stores) /\ Len(b) = 2 /\ c \in Seq(Stores) /\ Len(c) = 1
      /\ d \in Seq(Stores) /\ Len(d) = 4
  BY <1>2, <1>3, StoreTypes
<1>6. /\ r(0) \in Seq(Stores) /\ r(1) \in Seq(Stores) /\ r(2) \in Seq(Stores)
      /\ Len(r(0)) = 2 /\ Len(r(1)) = 2 /\ Len(r(2)) = 2
  BY <1>2, <1>3, StoreTypes
<1>7. ASSUME NEW p \in Page
      PROVE  /\ x(p) \in Seq(Stores) /\ Len(x(p)) = 4
             /\ x(p)[1] = write_node(p, {})
             /\ \A i \in 0..2 : x(p)[i + 2] = insert_bt(p, i)
  <2> DEFINE y == [i \in 1..3 |-> insert_bt(p, i - 1)]
             z == <<write_node(p, {})>>
  <2>1. y \in Seq(Stores) /\ Len(y) = 3 /\ \A i \in 0..2 : y[i + 1] = insert_bt(p, i)
    BY StoreTypes
  <2>2. z \in Seq(Stores) /\ Len(z) = 1 /\ z[1] = write_node(p, {})
    BY StoreTypes
  <2> HIDE DEF y, z
  <2>3. /\ z \o y \in Seq(Stores) /\ Len(z \o y) = 1 + 3
        /\ \A i \in 1..1 : (z \o y)[i] = z[i]
        /\ \A i \in 1..3 : (z \o y)[1 + i] = y[i]
    <3>1. ListOf(Stores, z, 1) /\ ListOf(Stores, y, 3)
      BY <2>1, <2>2 DEF ListOf
    <3>2. Followed(Stores, z, y, 1, 3)
      BY ONLY <3>1, ConcatEntries
    <3> QED
      BY ONLY <3>2 DEF Followed
  <2>4. \A i \in 0..2 : i + 1 \in 1..3 /\ 1 + (i + 1) = i + 2
    OBVIOUS
  <2>5. (z \o y)[1] = z[1] /\ \A i \in 0..2 : (z \o y)[i + 2] = y[i + 1]
    BY <2>3, <2>4
  <2> QED
    BY <2>1, <2>2, <2>3, <2>5 DEF y, z
<1>8. /\ b[1] = write_node(TABLES, {}) /\ b[2] = insert(TABLES, 0, FirstRow)
      /\ c[1] = write_node(TABLES_NAMES, {0})
      /\ d[1] = get_next_id(TABLES) /\ d[2] = insert(TABLES, 1, SecondRow)
      /\ d[3] = write_node(COLUMNS, {}) /\ d[4] = insert_bt(TABLES_NAMES, 1)
      /\ \A i \in 0..2 : r(i)[1] = get_next_id(COLUMNS) /\ r(i)[2] = insert(COLUMNS, i, InitialColumn(i))
  OBVIOUS
<1> DEFINE r0 == r(0)
           r1 == r(1)
           r2 == r(2)
           x3 == x(COLUMNS_TIDX)
           x4 == x(COLUMNS_NAMES)
           s1 == a \o b
           s2 == s1 \o c
           s3 == s2 \o d
           s4 == s3 \o r0
           s5 == s4 \o r1
           s6 == s5 \o r2
           s7 == s6 \o x3
           s8 == s7 \o x4
<1>9. /\ x3 \in Seq(Stores) /\ Len(x3) = 4 /\ x3[1] = write_node(COLUMNS_TIDX, {})
      /\ \A i \in 0..2 : x3[i + 2] = insert_bt(COLUMNS_TIDX, i)
      /\ x4 \in Seq(Stores) /\ Len(x4) = 4 /\ x4[1] = write_node(COLUMNS_NAMES, {})
      /\ \A i \in 0..2 : x4[i + 2] = insert_bt(COLUMNS_NAMES, i)
  BY <1>2, <1>7
<1>10. /\ r0 \in Seq(Stores) /\ r1 \in Seq(Stores) /\ r2 \in Seq(Stores)
       /\ Len(r0) = 2 /\ Len(r1) = 2 /\ Len(r2) = 2
       /\ r0[1] = get_next_id(COLUMNS) /\ r0[2] = insert(COLUMNS, 0, InitialColumn(0))
       /\ r1[1] = get_next_id(COLUMNS) /\ r1[2] = insert(COLUMNS, 1, InitialColumn(1))
       /\ r2[1] = get_next_id(COLUMNS) /\ r2[2] = insert(COLUMNS, 2, InitialColumn(2))
  BY <1>6, <1>8
<1>11. initialize_tables = s8
  BY <1>1
<1> HIDE DEF a, b, c, d, r, x, r0, r1, r2, x3, x4, s1, s2, s3, s4, s5, s6, s7, s8
<1>12. /\ s1 \in Seq(Stores) /\ Len(s1) = 6
       /\ \A i \in 1..4 : s1[i] = a[i]
       /\ s1[5] = b[1] /\ s1[6] = b[2]
  <2>1. ListOf(Stores, a, 4) /\ ListOf(Stores, b, 2)
    BY <1>4, <1>5 DEF ListOf
  <2>2. Followed(Stores, a, b, 4, 2)
    BY ONLY <2>1, ConcatEntries
  <2> QED
    BY ONLY <2>2 DEF s1, Followed
<1>13. /\ s2 \in Seq(Stores) /\ Len(s2) = 7
       /\ \A i \in 1..6 : s2[i] = s1[i]
       /\ s2[7] = c[1]
  <2>1. ListOf(Stores, s1, 6) /\ ListOf(Stores, c, 1)
    BY <1>5, <1>12 DEF ListOf
  <2>2. Followed(Stores, s1, c, 6, 1)
    BY ONLY <2>1, ConcatEntries
  <2> QED
    BY ONLY <2>2 DEF s2, Followed
<1>14. /\ s3 \in Seq(Stores) /\ Len(s3) = 11
       /\ \A i \in 1..7 : s3[i] = s2[i]
       /\ s3[8] = d[1] /\ s3[9] = d[2] /\ s3[10] = d[3] /\ s3[11] = d[4]
  <2>1. ListOf(Stores, s2, 7) /\ ListOf(Stores, d, 4)
    BY <1>5, <1>13 DEF ListOf
  <2>2. Followed(Stores, s2, d, 7, 4)
    BY ONLY <2>1, ConcatEntries
  <2>3. /\ s3 \in Seq(Stores) /\ Len(s3) = 11
        /\ \A i \in 1..7 : s3[i] = s2[i]
        /\ \A i \in 8..11 : s3[i] = d[i - 7]
    <3>1. /\ s3 \in Seq(Stores) /\ Len(s3) = 7 + 4
          /\ \A i \in 1..7 : s3[i] = s2[i]
          /\ \A i \in (7 + 1)..(7 + 4) : s3[i] = d[i - 7]
      BY ONLY <2>2 DEF s3, Followed
    <3>2. 7 + 1 = 8 /\ 7 + 4 = 11
      OBVIOUS
    <3> QED
      BY ONLY <3>1, <3>2
  <2>4. s3[8] = d[1] /\ s3[9] = d[2] /\ s3[10] = d[3] /\ s3[11] = d[4]
    BY ONLY <2>3
  <2> QED
    BY ONLY <2>3, <2>4
<1>15. /\ s4 \in Seq(Stores) /\ Len(s4) = 13
       /\ \A i \in 1..11 : s4[i] = s3[i]
       /\ s4[12] = r0[1] /\ s4[13] = r0[2]
  <2>1. ListOf(Stores, s3, 11) /\ ListOf(Stores, r0, 2)
    BY <1>10, <1>14 DEF ListOf
  <2>2. Followed(Stores, s3, r0, 11, 2)
    BY ONLY <2>1, ConcatEntries
  <2>3. /\ s4 \in Seq(Stores) /\ Len(s4) = 13
        /\ \A i \in 1..11 : s4[i] = s3[i]
        /\ \A i \in 12..13 : s4[i] = r0[i - 11]
    <3>1. /\ s4 \in Seq(Stores) /\ Len(s4) = 11 + 2
          /\ \A i \in 1..11 : s4[i] = s3[i]
          /\ \A i \in (11 + 1)..(11 + 2) : s4[i] = r0[i - 11]
      BY ONLY <2>2 DEF s4, Followed
    <3>2. 11 + 1 = 12 /\ 11 + 2 = 13
      OBVIOUS
    <3> QED
      BY ONLY <3>1, <3>2
  <2>4. s4[12] = r0[1] /\ s4[13] = r0[2]
    BY ONLY <2>3
  <2> QED
    BY ONLY <2>3, <2>4
<1>16. /\ s5 \in Seq(Stores) /\ Len(s5) = 15
       /\ \A i \in 1..13 : s5[i] = s4[i]
       /\ s5[14] = r1[1] /\ s5[15] = r1[2]
  <2>1. ListOf(Stores, s4, 13) /\ ListOf(Stores, r1, 2)
    BY <1>10, <1>15 DEF ListOf
  <2>2. Followed(Stores, s4, r1, 13, 2)
    BY ONLY <2>1, ConcatEntries
  <2>3. /\ s5 \in Seq(Stores) /\ Len(s5) = 15
        /\ \A i \in 1..13 : s5[i] = s4[i]
        /\ \A i \in 14..15 : s5[i] = r1[i - 13]
    <3>1. /\ s5 \in Seq(Stores) /\ Len(s5) = 13 + 2
          /\ \A i \in 1..13 : s5[i] = s4[i]
          /\ \A i \in (13 + 1)..(13 + 2) : s5[i] = r1[i - 13]
      BY ONLY <2>2 DEF s5, Followed
    <3>2. 13 + 1 = 14 /\ 13 + 2 = 15
      OBVIOUS
    <3> QED
      BY ONLY <3>1, <3>2
  <2>4. s5[14] = r1[1] /\ s5[15] = r1[2]
    BY ONLY <2>3
  <2> QED
    BY ONLY <2>3, <2>4
<1>17. /\ s6 \in Seq(Stores) /\ Len(s6) = 17
       /\ \A i \in 1..15 : s6[i] = s5[i]
       /\ s6[16] = r2[1] /\ s6[17] = r2[2]
  <2>1. ListOf(Stores, s5, 15) /\ ListOf(Stores, r2, 2)
    BY <1>10, <1>16 DEF ListOf
  <2>2. Followed(Stores, s5, r2, 15, 2)
    BY ONLY <2>1, ConcatEntries
  <2>3. /\ s6 \in Seq(Stores) /\ Len(s6) = 17
        /\ \A i \in 1..15 : s6[i] = s5[i]
        /\ \A i \in 16..17 : s6[i] = r2[i - 15]
    <3>1. /\ s6 \in Seq(Stores) /\ Len(s6) = 15 + 2
          /\ \A i \in 1..15 : s6[i] = s5[i]
          /\ \A i \in (15 + 1)..(15 + 2) : s6[i] = r2[i - 15]
      BY ONLY <2>2 DEF s6, Followed
    <3>2. 15 + 1 = 16 /\ 15 + 2 = 17
      OBVIOUS
    <3> QED
      BY ONLY <3>1, <3>2
  <2>4. s6[16] = r2[1] /\ s6[17] = r2[2]
    BY ONLY <2>3
  <2> QED
    BY ONLY <2>3, <2>4
<1>18. /\ s7 \in Seq(Stores) /\ Len(s7) = 21
       /\ \A i \in 1..17 : s7[i] = s6[i]
       /\ s7[18] = x3[1]
       /\ \A i \in 0..2 : s7[19 + i] = x3[i + 2]
  <2>1. ListOf(Stores, s6, 17) /\ ListOf(Stores, x3, 4)
    BY <1>9, <1>17 DEF ListOf
  <2>2. Followed(Stores, s6, x3, 17, 4)
    BY ONLY <2>1, ConcatEntries
  <2>3. /\ s7 \in Seq(Stores) /\ Len(s7) = 21
        /\ \A i \in 1..17 : s7[i] = s6[i]
        /\ \A i \in 18..21 : s7[i] = x3[i - 17]
    <3>1. /\ s7 \in Seq(Stores) /\ Len(s7) = 17 + 4
          /\ \A i \in 1..17 : s7[i] = s6[i]
          /\ \A i \in (17 + 1)..(17 + 4) : s7[i] = x3[i - 17]
      BY ONLY <2>2 DEF s7, Followed
    <3>2. 17 + 1 = 18 /\ 17 + 4 = 21
      OBVIOUS
    <3> QED
      BY ONLY <3>1, <3>2
  <2>4. s7[18] = x3[1]
    BY ONLY <2>3
  <2>5. \A i \in 0..2 : s7[19 + i] = x3[i + 2]
    <3>1. \A i \in 0..2 : 19 + i \in 18..21 /\ (19 + i) - 17 = i + 2
      OBVIOUS
    <3> QED
      BY ONLY <2>3, <3>1
  <2> QED
    BY ONLY <2>3, <2>4, <2>5
<1>19. /\ s8 \in Seq(Stores) /\ Len(s8) = 25
       /\ \A i \in 1..21 : s8[i] = s7[i]
       /\ s8[22] = x4[1]
       /\ \A i \in 0..2 : s8[23 + i] = x4[i + 2]
  <2>1. ListOf(Stores, s7, 21) /\ ListOf(Stores, x4, 4)
    BY <1>9, <1>18 DEF ListOf
  <2>2. Followed(Stores, s7, x4, 21, 4)
    BY ONLY <2>1, ConcatEntries
  <2>3. /\ s8 \in Seq(Stores) /\ Len(s8) = 25
        /\ \A i \in 1..21 : s8[i] = s7[i]
        /\ \A i \in 22..25 : s8[i] = x4[i - 21]
    <3>1. /\ s8 \in Seq(Stores) /\ Len(s8) = 21 + 4
          /\ \A i \in 1..21 : s8[i] = s7[i]
          /\ \A i \in (21 + 1)..(21 + 4) : s8[i] = x4[i - 21]
      BY ONLY <2>2 DEF s8, Followed
    <3>2. 21 + 1 = 22 /\ 21 + 4 = 25
      OBVIOUS
    <3> QED
      BY ONLY <3>1, <3>2
  <2>4. s8[22] = x4[1]
    BY ONLY <2>3
  <2>5. \A i \in 0..2 : s8[23 + i] = x4[i + 2]
    <3>1. \A i \in 0..2 : 23 + i \in 22..25 /\ (23 + i) - 21 = i + 2
      OBVIOUS
    <3> QED
      BY ONLY <2>3, <3>1
  <2> QED
    BY ONLY <2>3, <2>4, <2>5
<1>20. /\ \A i \in 1..4 : s8[i] = create_addr
       /\ s8[5] = b[1] /\ s8[6] = b[2] /\ s8[7] = c[1]
       /\ s8[8] = d[1] /\ s8[9] = d[2] /\ s8[10] = d[3] /\ s8[11] = d[4]
       /\ s8[12] = r0[1] /\ s8[13] = r0[2] /\ s8[14] = r1[1] /\ s8[15] = r1[2]
       /\ s8[16] = r2[1] /\ s8[17] = r2[2] /\ s8[18] = x3[1]
       /\ \A i \in 0..2 : s8[19 + i] = x3[i + 2]
  <2>1. \A i \in 1..17 : s8[i] = s6[i]
    <3>1. \A i \in 1..17 : i \in 1..21
      OBVIOUS
    <3> QED
      BY <1>18, <1>19, <3>1, Zenon
  <2>2. \A i \in 1..13 : s8[i] = s4[i]
    BY SMTT(30), <1>16, <1>17, <2>1
  <2>3. \A i \in 1..7 : s8[i] = s2[i]
    BY <1>14, <1>15, <2>2
  <2>4. \A i \in 1..4 : s8[i] = create_addr
    BY <1>4, <1>12, <1>13, <2>3
  <2>5. s8[5] = b[1] /\ s8[6] = b[2] /\ s8[7] = c[1]
    BY <1>12, <1>13, <2>3
  <2>6. s8[8] = d[1] /\ s8[9] = d[2] /\ s8[10] = d[3] /\ s8[11] = d[4]
    BY <1>14, <1>15, <2>2
  <2>7. s8[12] = r0[1] /\ s8[13] = r0[2]
    BY <1>15, <2>2
  <2>8. s8[14] = r1[1] /\ s8[15] = r1[2]
    BY <1>16, <1>17, <2>1
  <2>9. s8[16] = r2[1] /\ s8[17] = r2[2]
    BY <1>17, <2>1
  <2>10. s8[18] = x3[1] /\ \A i \in 0..2 : s8[19 + i] = x3[i + 2]
    <3>1. \A i \in 0..2 : 19 + i \in 1..21
      OBVIOUS
    <3>2. 18 \in 1..21
      OBVIOUS
    <3>3. s8[18] = s7[18] /\ \A i \in 0..2 : s8[19 + i] = s7[19 + i]
      BY ONLY <1>19, <3>1, <3>2
    <3> QED
      BY ONLY <1>18, <3>3
  <2> QED
    BY <2>4, <2>5, <2>6, <2>7, <2>8, <2>9, <2>10
<1>21. \A i \in 0..2 : /\ s8[12 + 2 * i] = get_next_id(COLUMNS)
                       /\ s8[13 + 2 * i] = insert(COLUMNS, i, InitialColumn(i))
  <2>1. \A i \in 0..2 : i = 0 \/ i = 1 \/ i = 2
    OBVIOUS
  <2> QED
    BY <1>10, <1>20, <2>1
<1> QED
  BY <1>8, <1>9, <1>11, <1>19, <1>20, <1>21

\* What the first k stores of initialize_tables make
MadeAt(p) == CASE p = TABLES        -> 5
               [] p = COLUMNS       -> 10
               [] p = TABLES_NAMES  -> 7
               [] p = COLUMNS_TIDX  -> 18
               [] p = COLUMNS_NAMES -> 22
               [] OTHER             -> 26
First(n) == IF n < 1 THEN {} ELSE IF n < 2 THEN {0} ELSE IF n < 3 THEN {0, 1} ELSE {0, 1, 2}
HowMany(p, k) ==
  CASE p = TABLES        -> IF k < 6 THEN 0 ELSE IF k < 9 THEN 1 ELSE 2
    [] p = COLUMNS       -> IF k < 13 THEN 0 ELSE IF k < 15 THEN 1 ELSE IF k < 17 THEN 2 ELSE 3
    [] p = TABLES_NAMES  -> IF k < 11 THEN 1 ELSE 2
    [] p = COLUMNS_TIDX  -> IF k < 19 THEN 0 ELSE IF k < 20 THEN 1 ELSE IF k < 21 THEN 2 ELSE 3
    [] p = COLUMNS_NAMES -> IF k < 23 THEN 0 ELSE IF k < 24 THEN 1 ELSE IF k < 25 THEN 2 ELSE 3
    [] OTHER             -> 0
TreeAt(p, k) == IF k < MadeAt(p) THEN Zeros ELSE First(HowMany(p, k))
NextColumn(k) == IF k < 12 THEN 0 ELSE IF k < 14 THEN 1 ELSE IF k < 16 THEN 2 ELSE 3
TableAt(t, k) == IF t = TABLES THEN TablesRow("TABLES", TABLES, IF k < 8 THEN 1 ELSE 2, 1)
                 ELSE TablesRow("COLUMNS", COLUMNS, NextColumn(k), 2)
InitDb(d, k) ==
  /\ Shape(d) /\ d.nb_pages = IF k < 4 THEN k + 1 ELSE 5
  /\ d.tree = [p \in Page |-> TreeAt(p, k)]
  /\ d.tables = [t \in First(HowMany(TABLES, k)) |-> TableAt(t, k)]
  /\ d.columns = [c \in First(HowMany(COLUMNS, k)) |-> InitialColumn(c)]

\* The tree that a store of initialize_tables changes
Written(k) == CASE k = 4 -> TABLES [] k = 5 -> TABLES [] k = 6 -> TABLES_NAMES [] k = 8 -> TABLES
                [] k = 9 -> COLUMNS [] k = 10 -> TABLES_NAMES [] k = 12 -> COLUMNS
                [] k = 14 -> COLUMNS [] k = 16 -> COLUMNS [] k \in 17..20 -> COLUMNS_TIDX
                [] k \in 21..24 -> COLUMNS_NAMES [] OTHER -> -1

LEMMA TreesKept ==
  ASSUME NEW k \in 0..24, NEW p \in Page, p # Written(k)
  PROVE  TreeAt(p, k + 1) = TreeAt(p, k)
<1>1. p \in Nat /\ k \in Nat
  BY FixedPages
<1>2. CASE p = TABLES
  BY <1>1, <1>2 DEF TreeAt, MadeAt, HowMany, Written
<1>3. CASE p = COLUMNS
  BY <1>1, <1>3 DEF TreeAt, MadeAt, HowMany, Written
<1>4. CASE p = TABLES_NAMES
  BY <1>1, <1>4 DEF TreeAt, MadeAt, HowMany, Written
<1>5. CASE p = COLUMNS_TIDX
  BY <1>1, <1>5 DEF TreeAt, MadeAt, HowMany, Written
<1>6. CASE p = COLUMNS_NAMES
  BY <1>1, <1>6 DEF TreeAt, MadeAt, HowMany, Written
<1>7. CASE p \notin {TABLES, COLUMNS, TABLES_NAMES, COLUMNS_TIDX, COLUMNS_NAMES}
  BY <1>1, <1>7 DEF TreeAt, MadeAt, HowMany
<1> QED
  BY <1>2, <1>3, <1>4, <1>5, <1>6, <1>7

\* The tree a store writes, when it makes what it should of it
LEMMA TreeWritten ==
  ASSUME NEW k \in 0..24, NEW d, InitDb(d, k), NEW x, x = TreeAt(Written(k), k + 1)
  PROVE  [d.tree EXCEPT ![Written(k)] = x] = [p \in Page |-> TreeAt(p, k + 1)]
  BY TreesKept DEF InitDb

LEMMA FirstIds ==
  /\ First(0) = {} /\ First(0) \union {0} = First(1) /\ First(1) \union {1} = First(2)
  /\ First(2) \union {2} = First(3) /\ First(1) = {0}
  BY DEF First

\* What every store of initialize_tables writes in its tree
LEMMA TreesAt ==
  /\ TreeAt(0, 5) = {} /\ TreeAt(2, 7) = {0} /\ TreeAt(1, 10) = {}
  /\ TreeAt(3, 18) = {} /\ TreeAt(4, 22) = {}
  /\ TreeAt(0, 6) = TreeAt(0, 5) \union {0} /\ TreeAt(0, 9) = TreeAt(0, 8) \union {1}
  /\ TreeAt(2, 11) = TreeAt(2, 10) \union {1}
  /\ \A c \in 0..2 : /\ TreeAt(1, 13 + 2 * c) = TreeAt(1, 12 + 2 * c) \union {c}
                     /\ TreeAt(3, 19 + c) = TreeAt(3, 18 + c) \union {c}
                     /\ TreeAt(4, 23 + c) = TreeAt(4, 22 + c) \union {c}
<1>1. /\ TreeAt(0, 5) = {} /\ TreeAt(2, 7) = {0} /\ TreeAt(1, 10) = {}
      /\ TreeAt(3, 18) = {} /\ TreeAt(4, 22) = {}
  BY DEF TreeAt, MadeAt, HowMany, First
<1>2. TreeAt(0, 6) = TreeAt(0, 5) \union {0} /\ TreeAt(0, 9) = TreeAt(0, 8) \union {1}
  BY DEF TreeAt, MadeAt, HowMany, First
<1>3. TreeAt(2, 11) = TreeAt(2, 10) \union {1}
  BY DEF TreeAt, MadeAt, HowMany, First
<1>4. /\ TreeAt(1, 13) = TreeAt(1, 12) \union {0} /\ TreeAt(1, 15) = TreeAt(1, 14) \union {1}
      /\ TreeAt(1, 17) = TreeAt(1, 16) \union {2}
  BY DEF TreeAt, MadeAt, HowMany, First
<1>5. /\ TreeAt(3, 19) = TreeAt(3, 18) \union {0} /\ TreeAt(3, 20) = TreeAt(3, 19) \union {1}
      /\ TreeAt(3, 21) = TreeAt(3, 20) \union {2}
  BY DEF TreeAt, MadeAt, HowMany, First
<1>6. /\ TreeAt(4, 23) = TreeAt(4, 22) \union {0} /\ TreeAt(4, 24) = TreeAt(4, 23) \union {1}
      /\ TreeAt(4, 25) = TreeAt(4, 24) \union {2}
  BY DEF TreeAt, MadeAt, HowMany, First
<1>7. \A c \in 0..2 : c = 0 \/ c = 1 \/ c = 2
  OBVIOUS
<1> QED
  BY <1>1, <1>2, <1>3, <1>4, <1>5, <1>6, <1>7

\* A store of initialize_tables makes the next database of the next.
LEMMA InitialStep ==
  ASSUME NEW k \in 0..24, NEW d, InitDb(d, k), NEW e, e = Stored(d, initialize_tables[k + 1])
  PROVE  InitDb(e, k + 1)
<1>1. Shape(d)
  BY DEF InitDb
<1>2. 0 \in Page /\ 1 \in Page /\ 2 \in Page /\ 3 \in Page /\ 4 \in Page
  BY FixedPages DEF Fixed
<1>3. CASE k \in 0..3
  <2>1. e = Stored(d, create_addr)
    <3>1. k + 1 \in 1..4
      BY <1>3
    <3>2. \A i \in 1..4 : initialize_tables[i] = create_addr
      BY InitialStores
    <3> QED
      BY <3>1, <3>2
  <2>2. /\ Shape(e) /\ e.nb_pages = d.nb_pages + 1 /\ e.tree = d.tree
        /\ e.tables = d.tables /\ e.columns = d.columns
    BY ONLY <1>1, <2>1, HeaderStored
  <2>3. \A p \in Page : TreeAt(p, k + 1) = TreeAt(p, k)
    BY <1>3, TreesKept, FixedPages DEF Written
  <2> QED
    BY <1>3, <2>2, <2>3 DEF InitDb, HowMany, First
<1>4. ASSUME k \in {4, 6, 9, 17, 21},
             e = Stored(d, write_node(Written(k), TreeAt(Written(k), k + 1)))
      PROVE  InitDb(e, k + 1)
  <2> DEFINE p == Written(k)
             x == TreeAt(p, k + 1)
  <2>1. x = TreeAt(Written(k), k + 1) /\ e = Stored(d, write_node(p, x))
    BY <1>4
  <2>2. [d.tree EXCEPT ![p] = x] = [q \in Page |-> TreeAt(q, k + 1)]
    BY TreeWritten
  <2> HIDE DEF p, x
  <2>3. /\ Shape(e) /\ e.nb_pages = d.nb_pages /\ e.tree = [d.tree EXCEPT ![p] = x]
        /\ e.tables = d.tables /\ e.columns = d.columns
    BY ONLY <1>1, <2>1, NodeStored
  <2>4. /\ HowMany(TABLES, k + 1) = HowMany(TABLES, k) /\ HowMany(COLUMNS, k + 1) = HowMany(COLUMNS, k)
        /\ \A t : TableAt(t, k + 1) = TableAt(t, k)
        /\ ~(k + 1 < 4) /\ ~(k < 4)
    BY <1>4 DEF HowMany, TableAt, NextColumn
  <2> QED
    BY <2>2, <2>3, <2>4 DEF InitDb
<1>5. ASSUME k \in {10} \union (18..20) \union (22..24), NEW id,
             TreeAt(Written(k), k + 1) = TreeAt(Written(k), k) \union {id},
             e = Stored(d, insert_bt(Written(k), id))
      PROVE  InitDb(e, k + 1)
  <2> DEFINE p == Written(k)
  <2>1. e = [nb_pages |-> d.nb_pages, tree |-> [d.tree EXCEPT ![p] = @ \union {id}],
             tables |-> d.tables, columns |-> d.columns]
    BY <1>1, <1>5, EntryStored
  <2>2. p \in Page
    BY <1>2, <1>5 DEF Written
  <2>3. d.tree[p] \union {id} = TreeAt(p, k + 1)
    BY <1>5, <2>2 DEF InitDb
  <2>4. [d.tree EXCEPT ![p] = @ \union {id}] = [q \in Page |-> TreeAt(q, k + 1)]
    <3>1. [d.tree EXCEPT ![p] = d.tree[p] \union {id}] = [q \in Page |-> TreeAt(q, k + 1)]
      BY <2>3, TreeWritten
    <3> QED
      BY <3>1
  <2>5. /\ HowMany(TABLES, k + 1) = HowMany(TABLES, k) /\ HowMany(COLUMNS, k + 1) = HowMany(COLUMNS, k)
        /\ \A t : TableAt(t, k + 1) = TableAt(t, k)
        /\ ~(k + 1 < 4) /\ ~(k < 4)
    BY <1>5 DEF HowMany, TableAt, NextColumn
  <2>6. Shape(e)
    BY ONLY <2>1 DEF Shape
  <2> HIDE DEF p
  <2> QED
    BY <2>1, <2>4, <2>5, <2>6 DEF InitDb
<1>6. ASSUME k \in {7, 11, 13, 15}, NEW t, t = (IF k = 7 THEN TABLES ELSE COLUMNS),
             e = Stored(d, get_next_id(t))
      PROVE  InitDb(e, k + 1)
  <2>1. /\ Shape(e) /\ e.nb_pages = d.nb_pages /\ e.tree = d.tree
        /\ e.tables = [d.tables EXCEPT ![t].next_id = @ + 1] /\ e.columns = d.columns
    <3>1. e = Stored(d, get_next_id(t))
      BY <1>6
    <3> QED
      BY ONLY <1>1, <3>1, NextIdStored
  <2>2. \A p \in Page : TreeAt(p, k + 1) = TreeAt(p, k)
    BY <1>6, TreesKept, FixedPages DEF Written
  <2>3. /\ HowMany(TABLES, k + 1) = HowMany(TABLES, k) /\ HowMany(COLUMNS, k + 1) = HowMany(COLUMNS, k)
        /\ ~(k + 1 < 4) /\ ~(k < 4)
    BY <1>6 DEF HowMany
  <2>4. /\ t \in First(HowMany(TABLES, k))
        /\ \A u \in First(HowMany(TABLES, k)) : u \in {0, 1}
    BY <1>6 DEF HowMany, First
  <2>5. \A u \in {0, 1} : u # t => TableAt(u, k + 1) = TableAt(u, k)
    BY <1>6 DEF TableAt, NextColumn
  <2>6. [TableAt(t, k) EXCEPT !.next_id = @ + 1] = TableAt(t, k + 1)
    BY <1>6 DEF TableAt, NextColumn, TablesRow
  <2>7. e.tables = [u \in First(HowMany(TABLES, k)) |-> TableAt(u, k + 1)]
    BY <2>1, <2>4, <2>5, <2>6 DEF InitDb
  <2> QED
    BY <2>1, <2>2, <2>3, <2>7 DEF InitDb
<1>7. ASSUME NEW id, (k = 5 /\ id = 0) \/ (k = 8 /\ id = 1),
             e = Stored(d, insert(TABLES, id, TableAt(id, k)))
      PROVE  InitDb(e, k + 1)
  <2> DEFINE row == TableAt(id, k)
  <2>1. e = [nb_pages |-> d.nb_pages, tree |-> [d.tree EXCEPT ![TABLES] = @ \union {id}],
             tables |-> IF TABLES = TABLES THEN WithRow(d.tables, id, row) ELSE d.tables,
             columns |-> IF TABLES = COLUMNS THEN WithRow(d.columns, id, row) ELSE d.columns]
    BY <1>1, <1>7, RowStored
  <2>2. TABLES \in Page /\ Written(k) = TABLES /\ k \in {5, 8}
    BY <1>2, <1>7 DEF Written
  <2>3. d.tree[TABLES] \union {id} = TreeAt(TABLES, k + 1)
    <3>1. d.tree[TABLES] = TreeAt(TABLES, k)
      BY <2>2 DEF InitDb
    <3> QED
      BY <1>7, <3>1, TreesAt
  <2>4. [d.tree EXCEPT ![TABLES] = @ \union {id}] = [q \in Page |-> TreeAt(q, k + 1)]
    <3>1. [d.tree EXCEPT ![TABLES] = d.tree[TABLES] \union {id}] = [q \in Page |-> TreeAt(q, k + 1)]
      BY <2>2, <2>3, TreeWritten
    <3> QED
      BY <3>1
  <2>5. /\ First(HowMany(TABLES, k + 1)) = First(HowMany(TABLES, k)) \union {id}
        /\ HowMany(COLUMNS, k + 1) = HowMany(COLUMNS, k) /\ id \notin First(HowMany(TABLES, k))
        /\ \A t : TableAt(t, k + 1) = TableAt(t, k)
        /\ ~(k + 1 < 4) /\ ~(k < 4)
    BY <1>7 DEF HowMany, First, TableAt, NextColumn
  <2>6. Shape(e)
    BY ONLY <2>1 DEF Shape
  <2>7. WithRow(d.tables, id, row) = [t \in First(HowMany(TABLES, k + 1)) |-> TableAt(t, k + 1)]
    BY <2>5 DEF WithRow, InitDb
  <2> QED
    BY <2>1, <2>4, <2>5, <2>6, <2>7 DEF InitDb
<1>8. ASSUME NEW c \in 0..2, k = 12 + 2 * c, e = Stored(d, insert(COLUMNS, c, InitialColumn(c)))
      PROVE  InitDb(e, k + 1)
  <2> DEFINE row == InitialColumn(c)
  <2>1. e = [nb_pages |-> d.nb_pages, tree |-> [d.tree EXCEPT ![COLUMNS] = @ \union {c}],
             tables |-> IF COLUMNS = TABLES THEN WithRow(d.tables, c, row) ELSE d.tables,
             columns |-> IF COLUMNS = COLUMNS THEN WithRow(d.columns, c, row) ELSE d.columns]
    <3>1. e = Stored(d, insert(COLUMNS, c, row))
      BY <1>8
    <3> HIDE DEF row
    <3>2. Stored(d, insert(COLUMNS, c, row)) =
            [nb_pages |-> d.nb_pages, tree |-> [d.tree EXCEPT ![COLUMNS] = @ \union {c}],
             tables |-> IF COLUMNS = TABLES THEN WithRow(d.tables, c, row) ELSE d.tables,
             columns |-> IF COLUMNS = COLUMNS THEN WithRow(d.columns, c, row) ELSE d.columns]
      BY ONLY <1>1, RowStored
    <3> QED
      BY <3>1, <3>2
  <2>2. COLUMNS \in Page /\ Written(k) = COLUMNS /\ k \in {12, 14, 16}
    BY <1>2, <1>8 DEF Written
  <2>3. d.tree[COLUMNS] \union {c} = TreeAt(COLUMNS, k + 1)
    <3>1. d.tree[COLUMNS] = TreeAt(COLUMNS, k)
      BY <2>2 DEF InitDb
    <3> QED
      BY <1>8, <3>1, TreesAt
  <2>4. [d.tree EXCEPT ![COLUMNS] = @ \union {c}] = [q \in Page |-> TreeAt(q, k + 1)]
    <3>1. [d.tree EXCEPT ![COLUMNS] = d.tree[COLUMNS] \union {c}] = [q \in Page |-> TreeAt(q, k + 1)]
      BY <2>2, <2>3, TreeWritten
    <3> QED
      BY <3>1
  <2>5. /\ First(HowMany(COLUMNS, k + 1)) = First(HowMany(COLUMNS, k)) \union {c}
        /\ HowMany(TABLES, k + 1) = HowMany(TABLES, k) /\ c \notin First(HowMany(COLUMNS, k))
        /\ \A t : TableAt(t, k + 1) = TableAt(t, k)
        /\ ~(k + 1 < 4) /\ ~(k < 4)
    BY <1>8 DEF HowMany, First, TableAt, NextColumn
  <2>6. Shape(e)
    BY ONLY <2>1 DEF Shape
  <2>7. WithRow(d.columns, c, row) = [i \in First(HowMany(COLUMNS, k + 1)) |-> InitialColumn(i)]
    BY <2>5 DEF WithRow, InitDb
  <2> QED
    BY <2>1, <2>4, <2>5, <2>6, <2>7 DEF InitDb
\* Which store of initialize_tables is which
<1> DEFINE s == initialize_tables[k + 1]
<1>9. CASE k \in {4, 6, 9, 17, 21}
  <2>1. s = write_node(Written(k), TreeAt(Written(k), k + 1))
    <3>1. /\ initialize_tables[5] = write_node(TABLES, {})
          /\ initialize_tables[7] = write_node(TABLES_NAMES, {0})
          /\ initialize_tables[10] = write_node(COLUMNS, {})
          /\ initialize_tables[18] = write_node(COLUMNS_TIDX, {})
          /\ initialize_tables[22] = write_node(COLUMNS_NAMES, {})
      BY InitialStores
    <3>2. /\ Written(4) = TABLES /\ Written(6) = TABLES_NAMES /\ Written(9) = COLUMNS
          /\ Written(17) = COLUMNS_TIDX /\ Written(21) = COLUMNS_NAMES
      BY DEF Written
    <3>3. /\ TreeAt(0, 5) = {} /\ TreeAt(2, 7) = {0} /\ TreeAt(1, 10) = {}
          /\ TreeAt(3, 18) = {} /\ TreeAt(4, 22) = {}
      BY TreesAt
    <3>4. CASE k = 4
      BY <3>1, <3>2, <3>3, <3>4
    <3>5. CASE k = 6
      BY <3>1, <3>2, <3>3, <3>5
    <3>6. CASE k = 9
      BY <3>1, <3>2, <3>3, <3>6
    <3>7. CASE k = 17
      BY <3>1, <3>2, <3>3, <3>7
    <3>8. CASE k = 21
      BY <3>1, <3>2, <3>3, <3>8
    <3> QED
      BY <1>9, <3>4, <3>5, <3>6, <3>7, <3>8
  <2> QED
    BY <1>4, <1>9, <2>1
<1>10. CASE k = 10
  BY SMTT(30), <1>5, <1>10, InitialStores, TreesAt DEF Written
<1>11. CASE k \in 18..20
  <2>1. PICK c \in 0..2 : k = 18 + c
    <3>1. k - 18 \in 0..2 /\ k = 18 + (k - 18)
      BY <1>11
    <3> QED
      BY <3>1
  <2>2. s = insert_bt(COLUMNS_TIDX, c) /\ TreeAt(3, k + 1) = TreeAt(3, k) \union {c} /\ Written(k) = 3
    <3>1. k + 1 = 19 + c
      BY <2>1
    <3> QED
      BY SMTT(30), <1>11, <2>1, <3>1, InitialStores, TreesAt DEF Written
  <2> QED
    BY <1>5, <1>11, <2>2
<1>12. CASE k \in 22..24
  <2>1. PICK c \in 0..2 : k = 22 + c
    <3>1. k - 22 \in 0..2 /\ k = 22 + (k - 22)
      BY <1>12
    <3> QED
      BY <3>1
  <2>2. s = insert_bt(COLUMNS_NAMES, c) /\ TreeAt(4, k + 1) = TreeAt(4, k) \union {c} /\ Written(k) = 4
    <3>1. k + 1 = 23 + c
      BY <2>1
    <3> QED
      BY SMTT(30), <1>12, <2>1, <3>1, InitialStores, TreesAt DEF Written
  <2> QED
    BY <1>5, <1>12, <2>2
<1>13. CASE k \in {7, 11, 13, 15}
  <2>1. s = get_next_id(IF k = 7 THEN TABLES ELSE COLUMNS)
    <3>1. /\ initialize_tables[12 + 2 * 0] = get_next_id(COLUMNS)
          /\ initialize_tables[12 + 2 * 1] = get_next_id(COLUMNS)
          /\ initialize_tables[12 + 2 * 2] = get_next_id(COLUMNS)
          /\ initialize_tables[8] = get_next_id(TABLES)
      BY InitialStores
    <3> QED
      BY <1>13, <3>1
  <2> QED
    BY <1>6, <1>13, <2>1
<1>14. CASE k \in {5, 8}
  <2>1. /\ FirstRow = TableAt(0, 5) /\ SecondRow = TableAt(1, 8)
        /\ initialize_tables[6] = insert(TABLES, 0, FirstRow)
        /\ initialize_tables[9] = insert(TABLES, 1, SecondRow)
    BY InitialStores DEF FirstRow, SecondRow, TableAt, NextColumn
  <2>2. CASE k = 5
    <3>1. e = Stored(d, insert(TABLES, 0, TableAt(0, k)))
      BY <2>1, <2>2
    <3> QED
      BY <1>7, <2>2, <3>1
  <2>3. CASE k = 8
    <3>1. e = Stored(d, insert(TABLES, 1, TableAt(1, k)))
      BY <2>1, <2>3
    <3> QED
      BY <1>7, <2>3, <3>1
  <2> QED
    BY <1>14, <2>2, <2>3
<1>15. CASE k \in {12, 14, 16}
  <2>1. PICK c \in 0..2 : k = 12 + 2 * c
    <3>1. \/ k = 12 + 2 * 0 \/ k = 12 + 2 * 1 \/ k = 12 + 2 * 2
      BY <1>15
    <3> QED
      BY <3>1
  <2>2. s = insert(COLUMNS, c, InitialColumn(c))
    <3>1. k + 1 = 13 + 2 * c
      BY <2>1
    <3> QED
      BY <3>1, InitialStores
  <2> QED
    BY <1>8, <2>1, <2>2
<1> QED
  <2>1. \/ k \in 0..3 \/ k \in {4, 6, 9, 17, 21} \/ k = 10 \/ k \in 18..20 \/ k \in 22..24
        \/ k \in {7, 11, 13, 15} \/ k \in {5, 8} \/ k \in {12, 14, 16}
    OBVIOUS
  <2> QED
    BY <1>3, <1>9, <1>10, <1>11, <1>12, <1>13, <1>14, <1>15, <2>1

\* The database before the first store
LEMMA InitialDb ==
  ASSUME NEW d, d = [nb_pages |-> 1, tree |-> [p \in Page |-> Zeros], tables |-> <<>>, columns |-> <<>>]
  PROVE  InitDb(d, 0)
<1>1. \A f : <<>> = [i \in {} |-> f]
  OBVIOUS
<1>2. Shape(d) /\ d.nb_pages = 1 /\ d.tree = [p \in Page |-> Zeros] /\ d.tables = <<>> /\ d.columns = <<>>
  BY DEF Shape
<1>3. \A p \in Page : TreeAt(p, 0) = Zeros
  BY DEF TreeAt, MadeAt
<1>4. First(HowMany(TABLES, 0)) = {} /\ First(HowMany(COLUMNS, 0)) = {}
  BY DEF HowMany, First
<1>5. <<>> = [t \in {} |-> TableAt(t, 0)] /\ <<>> = [c \in {} |-> InitialColumn(c)]
  OBVIOUS
<1> QED
  BY <1>2, <1>3, <1>4, <1>5 DEF InitDb

\* Every database of initialize_tables but the first is consistent.
LEMMA InitialConsistent ==
  ASSUME NEW k \in 1..25, NEW d, InitDb(d, k)
  PROVE  Consistent(d) /\ UnindexedIn(d) = {}
<1>1. 0 \in Page /\ 1 \in Page /\ 2 \in Page /\ 3 \in Page /\ 4 \in Page
  BY FixedPages DEF Fixed
<1>2. /\ Shape(d) /\ d.nb_pages = IF k < 4 THEN k + 1 ELSE 5
      /\ \A p \in Page : d.tree[p] = TreeAt(p, k)
      /\ d.tables = [t \in First(HowMany(TABLES, k)) |-> TableAt(t, k)]
      /\ d.columns = [c \in First(HowMany(COLUMNS, k)) |-> InitialColumn(c)]
  BY DEF InitDb
<1>3. \A i : First(i) \in SUBSET (0..2) /\ First(i) \in SUBSET Nat /\ Zeros # First(i) /\ -1 \notin First(i)
  <2> TAKE i
  <2>1. First(i) = {} \/ First(i) = {0} \/ First(i) = {0, 1} \/ First(i) = {0, 1, 2}
    BY DEF First
  <2> QED
    BY <2>1 DEF Zeros
<1>4. \A p \in Page : /\ TreeAt(p, k) \in Tree /\ (TreeAt(p, k) = Zeros <=> k < MadeAt(p))
                      /\ IdsIn(d, p) = IF k < MadeAt(p) THEN {} ELSE First(HowMany(p, k))
  BY <1>2, <1>3 DEF IdsIn, TreeAt, Tree, Zeros
<1>5. /\ IdsIn(d, 0) = First(HowMany(0, k)) /\ IdsIn(d, 1) = First(HowMany(1, k))
      /\ IdsIn(d, 2) = IF k < 7 THEN {} ELSE First(HowMany(2, k))
      /\ IdsIn(d, 3) = First(HowMany(3, k)) /\ IdsIn(d, 4) = First(HowMany(4, k))
  BY <1>1, <1>4 DEF MadeAt, HowMany, First
<1>6. /\ DOMAIN d.tables = First(HowMany(0, k)) /\ DOMAIN d.columns = First(HowMany(1, k))
      /\ \A t \in DOMAIN d.tables : d.tables[t] = TableAt(t, k)
      /\ \A c \in DOMAIN d.columns : d.columns[c] = InitialColumn(c)
  BY <1>2
<1>7. DOMAIN d.tables \subseteq {0, 1}
  BY <1>6 DEF HowMany, First
<1>8. /\ \A t \in {0, 1} : TableAt(t, k) \in TableRows /\ TableAt(t, k).root = t
      /\ \A c \in 0..2 : InitialColumn(c) \in ColumnRows /\ InitialColumn(c).root = c + 2
  BY <1>1 DEF TableAt, TablesRow, TableRows, NextColumn, InitialColumn, ColumnsRow, ColumnRows
<1>9. Typed(d)
  <2>1. d.tree \in [Page -> Tree]
    BY <1>4 DEF InitDb
  <2>2. d.tables \in [IdsIn(d, TABLES) -> TableRows] /\ d.columns \in [IdsIn(d, COLUMNS) -> ColumnRows]
    BY <1>2, <1>3, <1>5, <1>6, <1>7, <1>8
  <2>3. IsFiniteSet(DOMAIN d.tables) /\ IsFiniteSet(DOMAIN d.columns)
    <3>1. IsFiniteSet(0..2)
      <4>1. PICK n \in Int : n = 2
        OBVIOUS
      <4>2. IsFiniteSet(0..n)
        BY FS_Interval
      <4> QED
        BY <4>1, <4>2
    <3> QED
      BY <1>3, <1>6, <3>1, FS_Subset
  <2>4. d.nb_pages \in 2..MaxPages
    BY <1>2, CatalogAssumption
  <2>5. \A p \in Page : p >= d.nb_pages => d.tree[p] = Zeros
    BY <1>2, FixedPages DEF TreeAt, MadeAt
  <2> QED
    BY <2>1, <2>2, <2>3, <2>4, <2>5 DEF Typed
<1>10. TableRoots(d)
  <2>1. \A t \in DOMAIN d.tables : d.tables[t].root = t /\ k >= 6
    BY <1>6, <1>7, <1>8 DEF HowMany, First
  <2>2. DOMAIN d.tables # {} => TABLES \in DOMAIN d.tables
    BY <1>6 DEF HowMany, First
  <2> QED
    BY <1>2, <1>7, <2>1, <2>2 DEF TableRoots
<1>11. ColumnRoots(d)
  <2>1. \A c \in DOMAIN d.columns : c \in 0..2 /\ d.columns[c].root = c + 2 /\ k >= 13
    <3>1. \A c \in DOMAIN d.columns : k >= 13
      BY <1>6 DEF HowMany, First
    <3> QED
      BY <1>3, <1>6, <1>8, <3>1
  <2>2. \A t \in DOMAIN d.tables : d.tables[t].root = t
    BY <1>6, <1>7, <1>8
  <2>3. k >= 13 => DOMAIN d.tables = {0, 1}
    BY <1>6 DEF HowMany, First
  <2>4. \A c \in 0..2 : InitialColumn(c).table \in {0, 1}
    BY DEF InitialColumn, ColumnsRow
  <2> QED
    BY <1>2, <1>6, <1>7, <2>1, <2>2, <2>3, <2>4 DEF ColumnRoots
<1>12. NextIds(d)
  <2>1. \A t \in DOMAIN d.tables : d.tables[t].root = t
    BY <1>6, <1>7, <1>8
  <2>2. 0 \in DOMAIN d.tables => \A id \in IdsIn(d, 0) : id < d.tables[0].next_id
    BY <1>5, <1>6 DEF HowMany, First, TableAt, TablesRow
  <2>3. 1 \in DOMAIN d.tables => \A id \in IdsIn(d, 1) : id < d.tables[1].next_id
    BY <1>5, <1>6 DEF HowMany, First, TableAt, TablesRow, NextColumn
  <2> QED
    BY <1>7, <2>1, <2>2, <2>3 DEF NextIds
<1>13. Entries(d)
  <2>1. IdsIn(d, 2) \subseteq IdsIn(d, 0)
    BY <1>5 DEF HowMany, First
  <2>2. IdsIn(d, 3) \subseteq IdsIn(d, 1) /\ IdsIn(d, 4) \subseteq IdsIn(d, 1)
    BY <1>5 DEF HowMany, First
  <2> QED
    BY <1>3, <1>5, <1>6, <2>1, <2>2 DEF Entries
<1>14. Search(d)
  <2>1. Searchable(d) => {0, 1, 2} \subseteq DOMAIN d.columns /\ d.tree[TABLES_NAMES] # Zeros
    <3>1. Searchable(d) => k >= 19
      BY <1>5 DEF Searchable, HowMany, First
    <3> QED
      BY <1>1, <1>2, <1>4, <1>6, <3>1 DEF HowMany, First, MadeAt
  <2>2. 2 \in IdsIn(d, COLUMNS_TIDX) => 1 \in IdsIn(d, COLUMNS_TIDX)
    BY <1>5 DEF HowMany, First
  <2>3. ~Searchable(d) => IdsIn(d, COLUMNS_TIDX) = {}
    BY <1>5 DEF Searchable, HowMany, First
  <2>4. \A p \in Page : p > 4 => d.tree[p] = Zeros
    BY <1>2, FixedPages DEF TreeAt, MadeAt
  <2> QED
    BY <1>3, <1>6, <2>1, <2>2, <2>3, <2>4 DEF Search
<1>15. Whole(d) /\ UnindexedIn(d) = {}
  BY <1>7 DEF Whole, UnindexedIn
<1> QED
  BY <1>2, <1>9, <1>10, <1>11, <1>12, <1>13, <1>14, <1>15 DEF Consistent

-----------------------------------------------------------------------------
\* What is left of a sequence of stores after the first.
LEMMA RestOfStores ==
  ASSUME NEW w, w \in Seq(Stores), w # <<>>
  PROVE  /\ Len(w) \in Nat /\ Len(w) >= 1 /\ Head(w) = w[1]
         /\ Tail(w) \in Seq(Stores) /\ Len(Tail(w)) = Len(w) - 1
         /\ \A i \in 1..(Len(w) - 1) : Tail(w)[i] = w[i + 1]
<1>1. Len(w) \in Nat /\ Len(w) >= 1 /\ Head(w) = w[1]
  BY EmptySeq
<1>2. Tail(w) \in Seq(Stores) /\ Len(Tail(w)) = Len(w) - 1
      /\ \A i \in 1..(Len(w) - 1) : Tail(w)[i] = w[i + 1]
  BY HeadTailProperties
<1> QED
  BY <1>1, <1>2

\* A row more may be missing when another process has ended.
LEMMA LostMore ==
  ASSUME NEW d, NEW n \in Nat, Lost(d, n)
  PROVE  Lost(d, n + 1)
  BY FS_CardinalityType DEF Lost

-----------------------------------------------------------------------------
\* advanced_insert_row of a row with id k in table t: w are the stores to make in
\* database d, of which s come before those to the indexes, and n processes have
\* ended.  The row itself may be missing in an index until the last store.
Inserting(d, w, n, t, k, s) ==
  /\ t \in DOMAIN d.tables \ {TABLES, COLUMNS} /\ d.tree[d.tables[t].root] # Zeros
  /\ s \in 0..2 /\ s <= Len(w) /\ k \in Nat
  /\ s = 2 => w[1] = get_next_id(t) /\ k = d.tables[t].next_id
  /\ s < 2 => k < d.tables[t].next_id
  /\ s > 0 => w[s] = insert(d.tables[t].root, k, UserRow)
  /\ s = 0 => k \in d.tree[d.tables[t].root]
  /\ \A i \in (s + 1)..Len(w) : \E root \in IndexesIn(d, t) : w[i] = insert_bt(root, k)
  /\ \A root \in IndexesIn(d, t) :
       k \in d.tree[root] \/ \E i \in (s + 1)..Len(w) : w[i] = insert_bt(root, k)
  /\ IsFiniteSet(UnindexedIn(d)) /\ Cardinality(UnindexedIn(d) \ {<<t, k>>}) <= n

\* The table to insert in has no root: its next id is stored and no row.
RootMissing(d, w, n) ==
  /\ \E t \in DOMAIN d.tables \ {TABLES, COLUMNS} : w = <<get_next_id(t)>>
  /\ Lost(d, n)

\* The row in progress is one more that may be missing, and none when there is
\* nothing left to store.
LEMMA InsertingLost ==
  ASSUME NEW d, NEW w, w \in Seq(Stores), NEW n \in Nat, NEW t, NEW k, NEW s, Inserting(d, w, n, t, k, s)
  PROVE  Lost(d, n + 1) /\ (w = <<>> => Lost(d, n))
<1> DEFINE U == UnindexedIn(d)
<1>1. IsFiniteSet(U) /\ Cardinality(U \ {<<t, k>>}) <= n
  BY DEF Inserting
<1>2. /\ Cardinality(U \ {<<t, k>>}) = IF <<t, k>> \in U THEN Cardinality(U) - 1 ELSE Cardinality(U)
      /\ Cardinality(U) \in Nat
  BY <1>1, FS_RemoveElement, FS_CardinalityType
<1>3. Lost(d, n + 1) /\ (<<t, k>> \notin U => Lost(d, n))
  <2> HIDE DEF U
  <2>1. Cardinality(U) <= n + 1 /\ (<<t, k>> \notin U => Cardinality(U) <= n)
    BY <1>1, <1>2
  <2> QED
    BY <1>1, <2>1 DEF U, Lost
<1>4. ASSUME w = <<>>
      PROVE  <<t, k>> \notin U
  <2>1. Len(w) = 0 /\ s = 0
    BY <1>4 DEF Inserting
  <2>2. \A root \in IndexesIn(d, t) : k \in d.tree[root]
    BY <2>1 DEF Inserting
  <2>3. k \notin Unfound(d, t)
    BY <2>2 DEF Unfound
  <2> QED
    BY <2>3 DEF UnindexedIn
<1> QED
  BY <1>3, <1>4

LEMMA InsertingStep ==
  ASSUME NEW d, Consistent(d), NEW w, w \in Seq(Stores), w # <<>>, NEW n \in Nat,
         NEW t, NEW k, NEW s, Inserting(d, w, n, t, k, s), NEW e, e = Stored(d, w[1])
  PROVE  Consistent(e) /\ \E j \in 0..2 : Inserting(e, Tail(w), n, t, k, j)
<1> DEFINE v == Tail(w)
           r == IF s = 0 THEN 0 ELSE s - 1
           root == d.tables[t].root
<1>1. /\ Len(w) \in Nat /\ Len(w) >= 1 /\ v \in Seq(Stores) /\ Len(v) = Len(w) - 1
      /\ \A i \in 1..(Len(w) - 1) : v[i] = w[i + 1]
  BY RestOfStores
<1>2. Shape(d)
  BY DEF Consistent
<1> HIDE DEF v
<1>3. /\ t \in DOMAIN d.tables \ {TABLES, COLUMNS} /\ root \in Page /\ root \notin Fixed
      /\ d.tables[t].next_id \in Nat /\ d.tree[root] # Zeros /\ k \in Nat /\ s \in 0..2
      /\ \A q \in IndexesIn(d, t) : q \in Page /\ q # root
  BY UserIndexes, RowTypes DEF Inserting, TableRows
\* The stores to the indexes that are left
<1>4. /\ \A i \in (s + 1)..Len(w) : \E q \in IndexesIn(d, t) : w[i] = insert_bt(q, k)
      /\ \A q \in IndexesIn(d, t) :
           k \in d.tree[q] \/ \E i \in (s + 1)..Len(w) : w[i] = insert_bt(q, k)
      /\ IsFiniteSet(UnindexedIn(d)) /\ Cardinality(UnindexedIn(d) \ {<<t, k>>}) <= n
      /\ s <= Len(w)
  BY DEF Inserting
<1>5. \A i \in (r + 1)..Len(v) : \E q \in IndexesIn(d, t) : v[i] = insert_bt(q, k)
  <2> TAKE i \in (r + 1)..Len(v)
  <2>1. i \in 1..(Len(w) - 1) /\ i + 1 \in (s + 1)..Len(w)
    BY <1>1, <1>3
  <2> QED
    BY <1>1, <1>4, <2>1
<1>6. ASSUME NEW q \in IndexesIn(d, t), s > 0
      PROVE  k \in d.tree[q] \/ \E i \in (r + 1)..Len(v) : v[i] = insert_bt(q, k)
  <2>1. CASE k \in d.tree[q]
    BY <2>1
  <2>2. CASE k \notin d.tree[q]
    <3>1. PICK i \in (s + 1)..Len(w) : w[i] = insert_bt(q, k)
      BY <1>4, <2>2
    <3>2. i - 1 \in (r + 1)..Len(v) /\ i - 1 \in 1..(Len(w) - 1) /\ (i - 1) + 1 = i
      BY <1>1, <1>3, <1>6
    <3>3. v[i - 1] = w[i]
      BY <1>1, <3>2
    <3> QED
      BY <3>1, <3>2, <3>3
  <2> QED
    BY <2>1, <2>2
\* The three stores
<1>7. CASE s = 2
  <2>1. e = Stored(d, get_next_id(t)) /\ k = d.tables[t].next_id
        /\ w[2] = insert(root, k, UserRow)
    BY <1>7 DEF Inserting
  <2>2. Consistent(e) /\ UnindexedIn(e) = UnindexedIn(d)
    <3>1. e = Stored(d, get_next_id(t)) /\ t \in DOMAIN d.tables
      BY <1>3, <2>1
    <3> QED
      BY <3>1, NextIdConsistent
  <2>3. /\ Shape(e) /\ e.nb_pages = d.nb_pages /\ e.tree = d.tree
        /\ e.tables = [d.tables EXCEPT ![t].next_id = @ + 1] /\ e.columns = d.columns
    <3>1. e = Stored(d, get_next_id(t))
      BY <2>1
    <3> QED
      BY ONLY SMTT(30), <1>2, <3>1, NextIdStored
  <2>4. e.tables[t].root = root /\ e.tables[t].next_id = k + 1
    <3>1. d.tables[t] \in TableRows /\ t \in DOMAIN d.tables
      BY <1>3, RowTypes
    <3> QED
      BY <2>1, <2>3, <3>1 DEF TableRows
  <2>5. IndexesIn(e, t) = IndexesIn(d, t)
    BY <2>3 DEF IndexesIn, ColumnsIn, IdsIn
  <2>6. v[1] = insert(root, k, UserRow)
    BY <1>1, <1>4, <1>7, <2>1
  <2>7. Inserting(e, v, n, t, k, 1)
    <3> HIDE DEF root
    <3>1. 1 <= Len(v) /\ r = 1 /\ k < k + 1
      BY <1>1, <1>3, <1>4, <1>7
    <3> QED
      BY <1>3, <1>4, <1>5, <1>6, <1>7, <2>2, <2>3, <2>4, <2>5, <2>6, <3>1 DEF Inserting
  <2> QED
    BY <2>2, <2>7 DEF v
<1>8. ASSUME s \in 0..1, NEW p, p = root \/ (s = 0 /\ p \in IndexesIn(d, t)),
             Shape(e), e.nb_pages = d.nb_pages, e.tree = [d.tree EXCEPT ![p] = @ \union {k}],
             e.tables = d.tables, e.columns = d.columns
      PROVE  /\ Consistent(e)
             /\ \A u : IndexesIn(e, u) = IndexesIn(d, u)
             /\ UnindexedIn(e) \subseteq UnindexedIn(d) \union {<<t, k>>}
             /\ \A q \in Page : d.tree[q] \subseteq e.tree[q] /\ (e.tree[q] = Zeros <=> d.tree[q] = Zeros)
             /\ k \in e.tree[p]
  <2>1. k < d.tables[t].next_id /\ (s = 0 => k \in d.tree[root])
    BY <1>8 DEF Inserting
  <2>2. p = d.tables[t].root \/ (p \in IndexesIn(d, t) /\ k \in d.tree[d.tables[t].root])
    BY <1>8, <2>1
  <2>3. /\ Consistent(d) /\ t \in DOMAIN d.tables \ {TABLES, COLUMNS}
        /\ d.tree[d.tables[t].root] # Zeros /\ k \in Nat /\ k < d.tables[t].next_id
        /\ Shape(e) /\ e.nb_pages = d.nb_pages /\ e.tree = [d.tree EXCEPT ![p] = @ \union {k}]
        /\ e.tables = d.tables /\ e.columns = d.columns
    BY <1>3, <1>8, <2>1
  <2>4. Consistent(e)
    BY ONLY <2>2, <2>3, UserStoreConsistent
  <2>5. \A u : IndexesIn(e, u) = IndexesIn(d, u)
    BY ONLY <2>2, <2>3, UserStoreConsistent
  <2>6. UnindexedIn(e) \subseteq UnindexedIn(d) \union {<<t, k>>}
    BY ONLY <2>2, <2>3, UserStoreConsistent
  <2>7. k \in e.tree[p]
    BY ONLY ZenonT(60), <2>2, <2>3, UserStoreConsistent
  <2>8. ASSUME NEW q \in Page
        PROVE  d.tree[q] \subseteq e.tree[q] /\ (e.tree[q] = Zeros <=> d.tree[q] = Zeros)
    <3>1. e.tree[q] = Zeros => d.tree[q] = Zeros
      <4>1. k \in e.tree[p] /\ k # -1 /\ d.tree \in [Page -> Tree]
        BY <2>3, <2>7 DEF Consistent, Typed
      <4>2. CASE q = p
        BY <4>1, <4>2 DEF Zeros
      <4>3. CASE q # p
        BY <2>3, <4>1, <4>3
      <4> QED
        BY <4>2, <4>3
    <3>3. d.tree[q] = Zeros => e.tree[q] = Zeros
      BY ONLY <2>2, <2>3, <2>8, UserStoreConsistent
    <3>2. d.tree[q] \subseteq e.tree[q]
      BY ONLY <2>2, <2>3, <2>8, UserStoreConsistent
    <3> QED
      BY <3>1, <3>2, <3>3
  <2> QED
    BY <2>4, <2>5, <2>6, <2>7, <2>8
<1>9. ASSUME UnindexedIn(e) \subseteq UnindexedIn(d) \union {<<t, k>>}
      PROVE  IsFiniteSet(UnindexedIn(e)) /\ Cardinality(UnindexedIn(e) \ {<<t, k>>}) <= n
  <2> DEFINE U == UnindexedIn(d) \ {<<t, k>>}
             V == UnindexedIn(e) \ {<<t, k>>}
  <2>1. IsFiniteSet(U)
    BY <1>4, FS_Subset
  <2>2. V \subseteq U
    BY <1>9
  <2>3. IsFiniteSet(V) /\ Cardinality(V) <= Cardinality(U)
    BY <2>1, <2>2, FS_Subset
  <2>4. IsFiniteSet(UnindexedIn(e))
    <3>1. IsFiniteSet(UnindexedIn(d) \union {<<t, k>>})
      BY <1>4, FS_AddElement
    <3> QED
      BY <1>9, <3>1, FS_Subset
  <2>5. Cardinality(U) \in Nat /\ Cardinality(V) \in Nat
    BY <2>1, <2>3, FS_CardinalityType
  <2> QED
    BY <1>4, <2>3, <2>4, <2>5
<1>10. CASE s = 1
  <2>1. w[1] = insert(root, k, UserRow) /\ root # TABLES /\ root # COLUMNS
        /\ k < d.tables[t].next_id
    BY <1>3, <1>10 DEF Inserting, Fixed
  <2>2. e = [nb_pages |-> d.nb_pages, tree |-> [d.tree EXCEPT ![root] = @ \union {k}],
             tables |-> d.tables, columns |-> d.columns]
    <3> HIDE DEF root
    <3>1. Stored(d, insert(root, k, UserRow)) =
            [nb_pages |-> d.nb_pages, tree |-> [d.tree EXCEPT ![root] = @ \union {k}],
             tables |-> IF root = TABLES THEN WithRow(d.tables, k, UserRow) ELSE d.tables,
             columns |-> IF root = COLUMNS THEN WithRow(d.columns, k, UserRow) ELSE d.columns]
      BY ONLY <1>2, RowStored
    <3> QED
      BY <2>1, <3>1
  <2>3. Shape(e) /\ e.nb_pages = d.nb_pages /\ e.tree = [d.tree EXCEPT ![root] = @ \union {k}]
        /\ e.tables = d.tables /\ e.columns = d.columns
    BY ONLY <2>2 DEF Shape
  <2>4. /\ Consistent(e)
        /\ \A u : IndexesIn(e, u) = IndexesIn(d, u)
        /\ UnindexedIn(e) \subseteq UnindexedIn(d) \union {<<t, k>>}
        /\ \A q \in Page : d.tree[q] \subseteq e.tree[q] /\ (e.tree[q] = Zeros <=> d.tree[q] = Zeros)
        /\ k \in e.tree[root]
    <3>1. s \in 0..1 /\ (root = root \/ (s = 0 /\ root \in IndexesIn(d, t)))
      BY <1>10
    <3> HIDE DEF root
    <3> QED
      BY <1>8, <2>3, <3>1
  <2>5. Inserting(e, v, n, t, k, 0)
    <3>1. IsFiniteSet(UnindexedIn(e)) /\ Cardinality(UnindexedIn(e) \ {<<t, k>>}) <= n
      BY <1>9, <2>4
    <3>2. \A q \in IndexesIn(e, t) :
            k \in e.tree[q] \/ \E i \in (0 + 1)..Len(v) : v[i] = insert_bt(q, k)
      BY <1>3, <1>6, <1>10, <2>4
    <3>3. \A i \in (0 + 1)..Len(v) : \E q \in IndexesIn(e, t) : v[i] = insert_bt(q, k)
      BY <1>5, <1>10, <2>4
    <3>4. e.tables[t].root = root /\ e.tables[t] = d.tables[t] /\ 0 <= Len(v) /\ e.tree[root] # Zeros
          /\ t \in DOMAIN e.tables \ {TABLES, COLUMNS}
      BY <1>1, <1>3, <2>3, <2>4
    <3>5. k \in Nat /\ k < e.tables[t].next_id /\ k \in e.tree[root]
      BY <1>3, <2>1, <2>4, <3>4
    <3> HIDE DEF root
    <3>6. Len(v) \in Nat
      BY <1>1
    <3> QED
      BY ONLY <3>1, <3>2, <3>3, <3>4, <3>5, <3>6 DEF Inserting
  <2> QED
    BY <2>4, <2>5 DEF v
<1>11. CASE s = 0
  <2>1. PICK p \in IndexesIn(d, t) : w[1] = insert_bt(p, k)
    BY <1>1, <1>4, <1>11
  <2>2. e = [nb_pages |-> d.nb_pages, tree |-> [d.tree EXCEPT ![p] = @ \union {k}],
             tables |-> d.tables, columns |-> d.columns]
    <3>1. Stored(d, insert_bt(p, k)) =
            [nb_pages |-> d.nb_pages, tree |-> [d.tree EXCEPT ![p] = @ \union {k}],
             tables |-> d.tables, columns |-> d.columns]
      BY ONLY <1>2, EntryStored
    <3> QED
      BY <2>1, <3>1
  <2>3. Shape(e) /\ e.nb_pages = d.nb_pages /\ e.tree = [d.tree EXCEPT ![p] = @ \union {k}]
        /\ e.tables = d.tables /\ e.columns = d.columns
    BY ONLY <2>2 DEF Shape
  <2>4. /\ Consistent(e)
        /\ \A u : IndexesIn(e, u) = IndexesIn(d, u)
        /\ UnindexedIn(e) \subseteq UnindexedIn(d) \union {<<t, k>>}
        /\ \A q \in Page : d.tree[q] \subseteq e.tree[q] /\ (e.tree[q] = Zeros <=> d.tree[q] = Zeros)
        /\ k \in e.tree[p]
    BY <1>8, <1>11, <2>3
  <2>5. Inserting(e, v, n, t, k, 0)
    <3>1. IsFiniteSet(UnindexedIn(e)) /\ Cardinality(UnindexedIn(e) \ {<<t, k>>}) <= n
      BY <1>9, <2>4
    <3>2. ASSUME NEW q \in IndexesIn(d, t)
          PROVE  k \in e.tree[q] \/ \E i \in (0 + 1)..Len(v) : v[i] = insert_bt(q, k)
      <4>1. CASE k \in d.tree[q]
        BY <1>3, <2>4, <4>1
      <4>2. CASE k \notin d.tree[q]
        <5>1. PICK i \in 1..Len(w) : w[i] = insert_bt(q, k)
          BY <1>4, <1>11, <4>2
        <5>2. CASE i = 1
          <6>1. insert_bt(q, k) = insert_bt(p, k)
            BY <2>1, <5>1, <5>2
          <6>2. q = p
            BY <6>1 DEF insert_bt
          <6> QED
            BY <2>4, <6>2
        <5>3. CASE i # 1
          <6>1. i - 1 \in 1..Len(v) /\ i - 1 \in 1..(Len(w) - 1) /\ (i - 1) + 1 = i
            BY <1>1, <5>3
          <6>2. v[i - 1] = w[i]
            BY <1>1, <6>1
          <6> QED
            BY <5>1, <6>1, <6>2
        <5> QED
          BY <5>2, <5>3
      <4> QED
        BY <4>1, <4>2
    <3>3. \A i \in (0 + 1)..Len(v) : \E q \in IndexesIn(e, t) : v[i] = insert_bt(q, k)
      BY <1>5, <1>11, <2>4
    <3>4. e.tables[t].root = root /\ e.tables[t] = d.tables[t] /\ 0 <= Len(v) /\ e.tree[root] # Zeros
          /\ t \in DOMAIN e.tables \ {TABLES, COLUMNS} /\ k \in e.tree[root] /\ k < d.tables[t].next_id
      <4>1. k \in d.tree[root] /\ k < d.tables[t].next_id
        BY <1>11 DEF Inserting
      <4> QED
        BY <1>1, <1>3, <2>3, <2>4, <4>1
    <3> HIDE DEF root
    <3> QED
      BY <1>3, <2>4, <3>1, <3>2, <3>3, <3>4 DEF Inserting
  <2> QED
    BY <2>4, <2>5 DEF v
<1> QED
  BY <1>3, <1>7, <1>10, <1>11

-----------------------------------------------------------------------------
\* The definitions of Catalog are those for the database of the process.
LEMMA OfDb ==
  /\ \A p : Ids(p) = IdsIn(db, p)
  /\ \A t : ColumnsOf(t) = ColumnsIn(db, t) /\ Indexes(t) = IndexesIn(db, t)
  /\ Unindexed = UnindexedIn(db)
  BY DEF Ids, IdsIn, ColumnsOf, ColumnsIn, Indexes, IndexesIn, Unindexed, UnindexedIn, Unfound

LEMMA IndexesFinite ==
  ASSUME NEW d, Consistent(d), NEW t
  PROVE  IsFiniteSet(IndexesIn(d, t)) /\ IndexesIn(d, t) \subseteq Page
<1>1. IndexesIn(d, t) \subseteq Page
  BY ColumnsThere, RowTypes DEF IndexesIn
<1>2. IsFiniteSet(Page)
  <2>1. PICK m \in Int : m = MaxPages - 1
    BY CatalogAssumption
  <2>2. IsFiniteSet(0..m)
    BY FS_Interval
  <2> QED
    BY <2>1, <2>2 DEF Page
<1> QED
  BY <1>1, <1>2, FS_Subset

\* advanced_insert_row begins.
LEMMA InsertStarts ==
  ASSUME Consistent(db), NEW n \in Nat, Lost(db, n), NEW t \in DOMAIN db.tables,
         advanced_insert_row(t)
  PROVE  /\ todo' \in Seq(Stores)
         /\ \/ RootMissing(db, todo', n)
            \/ \E k, s : Inserting(db, todo', n, t, k, s)
<1> DEFINE root == db.tables[t].root
           k == db.tables[t].next_id
<1>1. /\ t \in DOMAIN db.tables \ {TABLES, COLUMNS} /\ ColumnsIn(db, t) # {} /\ NewId(t) = k
      /\ k \in Nat /\ t \in Nat /\ root \in Page
  BY OfDb, RowTypes DEF advanced_insert_row, NewId, TableRows
<1>2. PICK q \in SetToSeqs(IndexesIn(db, t)) :
        todo' = IF db.tree[root] = Zeros THEN <<get_next_id(t)>> ELSE WithEntries(t, k, UserRow, q)
  BY <1>1, OfDb DEF advanced_insert_row
<1>3. CASE db.tree[root] = Zeros
  <2>1. todo' = <<get_next_id(t)>> /\ get_next_id(t) \in Stores
    BY <1>1, <1>2, <1>3, StoreTypes
  <2> QED
    BY <1>1, <2>1 DEF RootMissing
<1>4. CASE db.tree[root] # Zeros
  <2>1. WholeTable(db, t)
    BY <1>1, <1>4 DEF Consistent, Whole
  <2>2. /\ q \in Seq(IndexesIn(db, t)) /\ \A x \in IndexesIn(db, t) : \E i \in 1..Len(q) : q[i] = x
    BY <1>2, IndexesFinite, SetToSeqsEntries
  <2>3. q # <<>>
    <3>1. IndexesIn(db, t) # {}
      BY <1>1 DEF IndexesIn
    <3> QED
      BY <2>2, <3>1
  <2> DEFINE a == <<get_next_id(t), insert(root, k, UserRow)>>
             b == [i \in 1..Len(q) |-> insert_bt(q[i], k)]
  <2>4. todo' = a \o b
    <3>1. \A i \in 1..Len(q) : db.tree[q[i]] # Zeros
      BY <2>1, <2>2, WholeIndexes
    <3>2. IntoIndexes(k, q) = b
      <4>1. Reached(q) = 1..Len(q)
        <5>1. \A i \in 1..Len(q) : \A j \in 1..i : j \in 1..Len(q)
          BY <2>2
        <5> QED
          BY <3>1, <5>1 DEF Reached
      <4> QED
        BY <2>3, <4>1 DEF IntoIndexes
    <3>3. insert_row(t, k, UserRow) = a
      BY <1>1 DEF insert_row
    <3>4. todo' = insert_row(t, k, UserRow) \o IntoIndexes(k, q)
      BY <1>2, <1>4 DEF WithEntries
    <3> QED
      BY <3>2, <3>3, <3>4
  <2>5. Len(q) \in Nat /\ \A i \in 1..Len(q) : q[i] \in IndexesIn(db, t) /\ q[i] \in Page
    BY <2>2, IndexesFinite
  <2>6. /\ a \in Seq(Stores) /\ Len(a) = 2 /\ a[1] = get_next_id(t) /\ a[2] = insert(root, k, UserRow)
    BY <1>1, StoreTypes
  <2>7. b \in Seq(Stores) /\ Len(b) = Len(q) /\ \A i \in 1..Len(q) : b[i] = insert_bt(q[i], k)
    <3>1. \A i \in 1..Len(q) : insert_bt(q[i], k) \in Stores
      BY <1>1, <2>5, StoreTypes
    <3> QED
      BY <2>5, <3>1
  <2> DEFINE m == Len(q)
             w == a \o b
  <2> HIDE DEF a, b, m
  <2>8. /\ w \in Seq(Stores) /\ Len(w) = 2 + m
        /\ \A i \in 1..2 : w[i] = a[i]
        /\ \A i \in 3..(2 + m) : w[i] = b[i - 2]
    <3>1. ListOf(Stores, a, 2) /\ ListOf(Stores, b, m)
      BY <2>5, <2>6, <2>7 DEF ListOf, m
    <3>2. Followed(Stores, a, b, 2, m)
      BY ONLY <3>1, ConcatEntries
    <3>3. 2 + 1 = 3
      OBVIOUS
    <3> QED
      BY ONLY <3>2, <3>3 DEF Followed
  <2> HIDE DEF w
  <2>9. m \in Nat /\ m = Len(q)
    BY <2>5 DEF m
  <2>10. w[1] = get_next_id(t) /\ w[2] = insert(root, k, UserRow) /\ 2 <= Len(w)
    BY <2>6, <2>8, <2>9
  <2>11. \A i \in 3..Len(w) : \E x \in IndexesIn(db, t) : w[i] = insert_bt(x, k)
    <3> TAKE i \in 3..Len(w)
    <3>1. i - 2 \in 1..m /\ w[i] = b[i - 2]
      BY <2>8, <2>9
    <3> QED
      BY <2>5, <2>7, <2>9, <3>1
  <2>12. \A x \in IndexesIn(db, t) : \E i \in 3..Len(w) : w[i] = insert_bt(x, k)
    <3> TAKE x \in IndexesIn(db, t)
    <3>1. PICK i \in 1..m : q[i] = x
      BY <2>2, <2>9
    <3>2. i + 2 \in 3..Len(w) /\ i + 2 \in 3..(2 + m) /\ (i + 2) - 2 = i
      BY <2>8, <2>9
    <3>3. w[i + 2] = insert_bt(x, k)
      BY <2>7, <2>8, <2>9, <3>1, <3>2
    <3> QED
      BY <3>2, <3>3
  <2>13. IsFiniteSet(UnindexedIn(db)) /\ Cardinality(UnindexedIn(db) \ {<<t, k>>}) <= n
    <3> DEFINE U == UnindexedIn(db)
    <3>1. IsFiniteSet(U) /\ Cardinality(U) <= n
      BY DEF Lost
    <3>2. Cardinality(U \ {<<t, k>>}) <= Cardinality(U) /\ IsFiniteSet(U \ {<<t, k>>})
      BY <3>1, FS_Subset
    <3>3. Cardinality(U) \in Nat /\ Cardinality(U \ {<<t, k>>}) \in Nat
      BY <3>1, <3>2, FS_CardinalityType
    <3> QED
      BY <3>1, <3>2, <3>3
  <2>14. Inserting(db, w, n, t, k, 2)
    <3> USE DEF root
    <3> QED
      BY <1>1, <1>4, <2>10, <2>11, <2>12, <2>13 DEF Inserting
  <2> QED
    BY <2>4, <2>8, <2>14 DEF w
<1> QED
  BY <1>3, <1>4

-----------------------------------------------------------------------------
\* create_table.  A plan is the table it makes: the id and the name, the page of
\* the root, how many columns, the id of the first one, and what its row is
\* entered in, the indexes of COLUMNS in some order up to one that is zeros.  -1
\* is for no index at all, where the process will crash.
Ents == {<<-1>>, <<>>, <<3>>, <<3, 4>>, <<4, 3>>}
Plans == [id : Nat, name : Name, root : Page, n : Nat \ {0}, first : Nat, ents : Ents]

NewRow(p) == TablesRow(p.name, p.root, 0, p.n)
NewColumn(p, l) == ColumnsRow(p.id, l - 1, p.root + l)

\* The stores of a plan: four of the table, then those of every column, then one
HeadCell(p, m) == CASE m = 1 -> create_addr
                    [] m = 2 -> get_next_id(TABLES)
                    [] m = 3 -> insert(TABLES, p.id, NewRow(p))
                    [] m = 4 -> insert_bt(TABLES_NAMES, p.id)
Cell(p, l, m) == CASE m = 1 -> create_addr
                   [] m = 2 -> write_node(p.root + l, {})
                   [] m = 3 -> get_next_id(COLUMNS)
                   [] m = 4 -> insert(COLUMNS, p.first + l - 1, NewColumn(p, l))
                   [] m > 4 -> IF p.ents[m - 4] = -1 THEN Crashes
                               ELSE insert_bt(p.ents[m - 4], p.first + l - 1)
Width(p) == 4 + Len(p.ents)
At(p, l, m) == 4 + (l - 1) * Width(p) + m
Final(p) == 5 + p.n * Width(p)

\* w is what is left of a plan from store k on.
Left(w, p, k) ==
  /\ w \in Seq(Stores) /\ k \in 1..Final(p) /\ Len(w) = Final(p) - k + 1
  /\ \A i \in 1..4 : i >= k => w[i - k + 1] = HeadCell(p, i)
  /\ \A l \in 1..p.n, m \in 1..Width(p) : At(p, l, m) >= k => w[At(p, l, m) - k + 1] = Cell(p, l, m)
  /\ w[Final(p) - k + 1] = write_node(p.root, {})

\* What a table has at store m of its own, and what a catalog has for its columns
HeadMade(d, p, m) ==
  /\ p.root + p.n < MaxPages /\ p.root > 4 /\ p.id > 0
  /\ d.nb_pages = IF m = 1 THEN p.root ELSE p.root + 1
  /\ TABLES \in DOMAIN d.tables
  /\ d.tables[TABLES].next_id = IF m < 3 THEN p.id ELSE p.id + 1
  /\ IF m < 4 THEN p.id \notin DOMAIN d.tables
              ELSE p.id \in DOMAIN d.tables /\ d.tables[p.id] = NewRow(p)
  /\ \A t \in DOMAIN d.tables \ {p.id} : d.tables[t].root < p.root
  /\ \A c \in DOMAIN d.columns : d.columns[c].root < p.root /\ d.columns[c].table # p.id
  /\ d.tree[p.root] = Zeros
Ready(d, p) ==
  /\ p.root + p.n < MaxPages /\ p.root > 4 /\ p.id > 1 /\ p.first > 2
  /\ Searchable(d) /\ COLUMNS \in DOMAIN d.tables
  /\ \A i \in 1..Len(p.ents) : p.ents[i] = COLUMNS_NAMES => d.tree[COLUMNS_NAMES] # Zeros
  /\ p.ents = <<>> => d.tree[COLUMNS_NAMES] = Zeros

\* The table is there, and the first k columns have rows, indexes, and entries, or
\* none has an entry.
TableMade(d, p) == /\ p.id \in DOMAIN d.tables /\ d.tables[p.id] = NewRow(p)
                   /\ p.id \in d.tree[TABLES_NAMES] /\ d.tree[p.root] = Zeros
                   /\ \A t \in DOMAIN d.tables \ {p.id} : d.tables[t].root < p.root
RowsMade(d, p, k) ==
  /\ \A i \in 1..k : p.first + i - 1 \in DOMAIN d.columns /\ d.columns[p.first + i - 1] = NewColumn(p, i)
  /\ \A c \in DOMAIN d.columns :
       \/ c < p.first /\ d.columns[c].table # p.id /\ d.columns[c].root < p.root
       \/ \E i \in 1..k : c = p.first + i - 1
IndexesMade(d, p, k) == \A i \in 1..k : d.tree[p.root + i] = {}
Entered(d, p, k) ==
  IF p.ents = <<>> THEN \A c \in IdsIn(d, COLUMNS_TIDX) : c < p.first
                   ELSE \A i \in 1..k : p.first + i - 1 \in d.tree[COLUMNS_TIDX]

\* At store m of column l
ColumnsMade(d, p, l, m) ==
  /\ TableMade(d, p) /\ Entered(d, p, l - 1)
  /\ RowsMade(d, p, IF m > 4 THEN l ELSE l - 1) /\ IndexesMade(d, p, IF m > 2 THEN l ELSE l - 1)
  /\ d.nb_pages = p.root + l + (IF m = 1 THEN 0 ELSE 1)
  /\ m = 2 => d.tree[p.root + l] = Zeros
  /\ d.tables[COLUMNS].next_id = p.first + l - 1 + (IF m > 3 THEN 1 ELSE 0)
  /\ \A i \in 1..Len(p.ents) : i < m - 4 /\ p.ents[i] = COLUMNS_TIDX =>
       p.first + l - 1 \in d.tree[COLUMNS_TIDX]

Creating(d, w, n) ==
  /\ Lost(d, n)
  /\ \E p \in Plans :
       /\ Ready(d, p)
       /\ \/ \E m \in 1..4 : Left(w, p, m) /\ HeadMade(d, p, m) /\ d.tables[COLUMNS].next_id = p.first
          \/ \E l \in 1..p.n, m \in 1..Width(p) : Left(w, p, At(p, l, m)) /\ ColumnsMade(d, p, l, m)
          \/ Left(w, p, Final(p)) /\ ColumnsMade(d, p, p.n + 1, 1)

\* The process will crash where find_all finds no column of TABLES, after the row
\* of the table, or before it when TABLES itself has no row.
Doomed(d, w, n) ==
  /\ Lost(d, n)
  /\ \/ w # <<>> /\ w[1] = Crashes
     \/ /\ Len(w) > 1 /\ w[1] = create_addr /\ w[2] = Crashes
        /\ d.nb_pages < MaxPages
     \/ \E p \in Plans, m \in 1..3 :
          /\ HeadMade(d, p, m) /\ Len(w) > 4 - m /\ w[4 - m + 1] = Crashes
          /\ \A k \in m..3 : w[k - m + 1] = HeadCell(p, k)

-----------------------------------------------------------------------------
LEMMA PlanTypes ==
  ASSUME NEW p, p \in Plans
  PROVE  /\ p.id \in Nat /\ p.root \in Nat /\ p.root \in Page /\ p.n \in Nat /\ p.n >= 1
         /\ p.first \in Nat /\ p.name \in Name
         /\ Len(p.ents) \in {0, 1, 2} /\ Width(p) \in {4, 5, 6}
         /\ Len(p.ents) = 0 => p.ents # <<-1>>
         /\ \A i \in 1..Len(p.ents) : p.ents[i] \in {-1, 3, 4}
         /\ p.ents = <<-1>> \/ p.ents = <<>> \/ \E i \in 1..Len(p.ents) : p.ents[i] = 3
<1>1. p.ents \in {<<-1>>, <<>>, <<3>>, <<3, 4>>, <<4, 3>>}
  BY DEF Plans, Ents
<1>2. p.id \in Nat /\ p.root \in Page /\ p.n \in Nat \ {0} /\ p.first \in Nat /\ p.name \in Name
  BY DEF Plans
<1>3. /\ Len(p.ents) \in {0, 1, 2} /\ \A i \in 1..Len(p.ents) : p.ents[i] \in {-1, 3, 4}
      /\ Len(p.ents) = 0 => p.ents # <<-1>>
      /\ p.ents = <<-1>> \/ p.ents = <<>> \/ \E i \in 1..Len(p.ents) : p.ents[i] = 3
  BY <1>1
<1>4. Width(p) \in {4, 5, 6}
  <2> DEFINE k == Len(p.ents)
  <2>1. k \in {0, 1, 2} /\ Width(p) = 4 + k
    BY <1>3 DEF Width
  <2> HIDE DEF k
  <2> QED
    BY <2>1
<1>5. p.root \in Nat /\ p.n \in Nat /\ p.n >= 1
  <2>1. p.root \in Nat
    BY <1>2, FixedPages
  <2>2. \A n \in Nat \ {0} : n \in Nat /\ n >= 1
    OBVIOUS
  <2>3. p.n \in Nat /\ p.n >= 1
    BY ONLY <1>2, <2>2
  <2> QED
    BY <2>1, <2>3
<1> QED
  BY ONLY <1>2, <1>3, <1>4, <1>5

LEMMA Places ==
  ASSUME NEW p, p \in Plans
  PROVE  /\ Final(p) \in Nat /\ Final(p) > 4 /\ At(p, 1, 1) = 5 /\ At(p, p.n + 1, 1) = Final(p)
         /\ \A l \in 1..p.n, m \in 1..Width(p) : At(p, l, m) \in 5..(Final(p) - 1)
         /\ \A l \in 1..p.n, m \in 1..Width(p) : At(p, l, m) + 1 = At(p, l, m + 1)
         /\ \A l \in 1..p.n : At(p, l, Width(p)) + 1 = At(p, l + 1, 1)
<1>1. p.n \in Nat /\ p.n >= 1
  BY PlanTypes
<1> DEFINE n == p.n
<1>2. CASE Width(p) = 5
  <2> HIDE DEF n
  <2>1. /\ Final(p) = 5 + n * 5 /\ \A l, m : At(p, l, m) = 4 + (l - 1) * 5 + m
    BY <1>2 DEF At, Final, n
  <2> QED
    BY <1>1, <1>2, <2>1 DEF n
<1>3. CASE Width(p) = 6
  <2> HIDE DEF n
  <2>1. /\ Final(p) = 5 + n * 6 /\ \A l, m : At(p, l, m) = 4 + (l - 1) * 6 + m
    BY <1>3 DEF At, Final, n
  <2> QED
    BY <1>1, <1>3, <2>1 DEF n
<1>4. CASE Width(p) = 4
  <2> HIDE DEF n
  <2>1. /\ Final(p) = 5 + n * 4 /\ \A l, m : At(p, l, m) = 4 + (l - 1) * 4 + m
    BY <1>4 DEF At, Final, n
  <2> QED
    BY <1>1, <1>4, <2>1 DEF n
<1> QED
  BY <1>2, <1>3, <1>4, PlanTypes

\* The next store of a plan, and the rest.
LEMMA LeftHead ==
  ASSUME NEW p, p \in Plans, NEW w, NEW k, Left(w, p, k)
  PROVE  /\ w # <<>> /\ w \in Seq(Stores)
         /\ k \in 1..4 => w[1] = HeadCell(p, k)
         /\ \A l \in 1..p.n, m \in 1..Width(p) : k = At(p, l, m) => w[1] = Cell(p, l, m)
         /\ k = Final(p) => w[1] = write_node(p.root, {}) /\ Len(w) = 1
<1>1. Final(p) \in Nat /\ k \in 1..Final(p) /\ \A i \in Nat : i - i + 1 = 1
  BY Places DEF Left
<1>2. w # <<>> /\ w \in Seq(Stores)
  <2>1. Len(w) >= 1 /\ w \in Seq(Stores)
    BY <1>1 DEF Left
  <2> QED
    BY <2>1
<1>3. k \in 1..4 => w[1] = HeadCell(p, k)
  <2>1. k \in 1..4 => k >= k /\ w[k - k + 1] = HeadCell(p, k)
    BY DEF Left
  <2> QED
    BY <1>1, <2>1
<1>4. ASSUME NEW l \in 1..p.n, NEW m \in 1..Width(p), k = At(p, l, m)
      PROVE  w[1] = Cell(p, l, m)
  <2>1. At(p, l, m) >= k => w[At(p, l, m) - k + 1] = Cell(p, l, m)
    BY DEF Left
  <2> QED
    BY <1>1, <1>4, <2>1
<1>5. k = Final(p) => w[1] = write_node(p.root, {}) /\ Len(w) = 1
  <2>1. w[Final(p) - k + 1] = write_node(p.root, {}) /\ Len(w) = Final(p) - k + 1
    BY DEF Left
  <2> QED
    BY <1>1, <2>1
<1> QED
  BY <1>2, <1>3, <1>4, <1>5

LEMMA LeftRest ==
  ASSUME NEW p, p \in Plans, NEW w, NEW k, Left(w, p, k)
  PROVE  /\ k < Final(p) => Left(Tail(w), p, k + 1)
         /\ k = Final(p) => Tail(w) = <<>>
<1>1. Final(p) \in Nat /\ k \in 1..Final(p) /\ w # <<>> /\ w \in Seq(Stores) /\ Len(w) = Final(p) - k + 1
  BY Places, LeftHead DEF Left
<1>2. /\ Tail(w) \in Seq(Stores) /\ Len(Tail(w)) = Len(w) - 1
      /\ \A i \in 1..(Len(w) - 1) : Tail(w)[i] = w[i + 1]
  BY <1>1, RestOfStores
<1> DEFINE v == Tail(w)
           f == Final(p)
<1> HIDE DEF v, f
<1>3. ASSUME NEW i \in Int, i > k, i <= f
      PROVE  v[i - (k + 1) + 1] = w[i - k + 1]
  <2>1. i - k \in 1..(Len(w) - 1) /\ i - (k + 1) + 1 = i - k
    BY <1>1, <1>3 DEF f
  <2> QED
    BY <1>2, <2>1 DEF v
<1>4. ASSUME k < f
      PROVE  Left(v, p, k + 1)
  <2>1. v \in Seq(Stores) /\ k + 1 \in 1..Final(p) /\ Len(v) = Final(p) - (k + 1) + 1
    BY <1>1, <1>2, <1>4 DEF v, f
  <2>2. ASSUME NEW i \in 1..4, i >= k + 1
        PROVE  v[i - (k + 1) + 1] = HeadCell(p, i)
    <3>1. i > k /\ i <= f /\ i >= k
      BY <1>1, <2>2, Places DEF f
    <3>2. w[i - k + 1] = HeadCell(p, i)
      BY <3>1 DEF Left
    <3> QED
      BY <1>3, <3>1, <3>2
  <2>3. ASSUME NEW l \in 1..p.n, NEW m \in 1..Width(p), At(p, l, m) >= k + 1
        PROVE  v[At(p, l, m) - (k + 1) + 1] = Cell(p, l, m)
    <3>1. At(p, l, m) \in 5..(f - 1)
      BY Places DEF f
    <3>2. At(p, l, m) > k /\ At(p, l, m) <= f /\ At(p, l, m) >= k /\ At(p, l, m) \in Int
      BY <1>1, <2>3, <3>1 DEF f
    <3>3. w[At(p, l, m) - k + 1] = Cell(p, l, m)
      BY <3>2 DEF Left
    <3> QED
      BY <1>3, <3>2, <3>3
  <2>4. v[Final(p) - (k + 1) + 1] = write_node(p.root, {})
    <3>1. f > k /\ f <= f /\ f \in Int
      BY <1>1, <1>4 DEF f
    <3>2. w[f - k + 1] = write_node(p.root, {})
      BY DEF Left, f
    <3>3. v[f - (k + 1) + 1] = write_node(p.root, {})
      BY <1>3, <3>1, <3>2
    <3> QED
      BY <3>3 DEF f
  <2> QED
    BY <2>1, <2>2, <2>3, <2>4 DEF Left
<1>5. ASSUME k = f
      PROVE  v = <<>>
  <2>1. Len(w) = f - k + 1 /\ f \in Nat
    BY <1>1 DEF f
  <2>2. Len(w) = 1
    BY <1>5, <2>1
  <2>3. Len(v) = 0 /\ v \in Seq(Stores)
    BY <1>2, <2>2 DEF v
  <2> QED
    BY <2>3
<1> QED
  BY <1>4, <1>5 DEF v, f

\* The first three stores of create_table: a page, the next id, the row.
LEMMA HeadStep ==
  ASSUME NEW d, Consistent(d), NEW p, p \in Plans, NEW m, m \in 1..3, HeadMade(d, p, m),
         NEW e, e = Stored(d, HeadCell(p, m))
  PROVE  /\ Consistent(e) /\ \A n \in Nat : Lost(d, n) => Lost(e, n)
         /\ HeadMade(e, p, m + 1)
         /\ \A q \in Page : q # TABLES => e.tree[q] = d.tree[q]
         /\ COLUMNS \in DOMAIN d.tables => /\ COLUMNS \in DOMAIN e.tables
                                           /\ e.tables[COLUMNS].next_id = d.tables[COLUMNS].next_id
<1>1. /\ p.id \in Nat /\ p.root \in Nat /\ p.root \in Page /\ p.n \in Nat /\ p.n >= 1 /\ p.name \in Name
      /\ Shape(d) /\ MaxPages \in Nat /\ Typed(d)
  BY PlanTypes, CatalogAssumption DEF Consistent
<1>2. /\ p.root + p.n < MaxPages /\ p.root > 4 /\ p.id > 0
      /\ d.nb_pages = IF m = 1 THEN p.root ELSE p.root + 1
      /\ TABLES \in DOMAIN d.tables
      /\ d.tables[TABLES].next_id = IF m < 3 THEN p.id ELSE p.id + 1
      /\ p.id \notin DOMAIN d.tables
      /\ \A t \in DOMAIN d.tables \ {p.id} : d.tables[t].root < p.root
      /\ \A c \in DOMAIN d.columns : d.columns[c].root < p.root /\ d.columns[c].table # p.id
      /\ d.tree[p.root] = Zeros
  BY DEF HeadMade
<1>3. CASE m = 1
  <2>1. e = Stored(d, create_addr)
    BY <1>3 DEF HeadCell
  <2>2. d.nb_pages < MaxPages
    BY <1>1, <1>2, <1>3
  <2>3. Consistent(e) /\ \A n \in Nat : Lost(d, n) => Lost(e, n)
    BY <2>1, <2>2, HeaderConsistent
  <2>4. /\ Shape(e) /\ e.nb_pages = d.nb_pages + 1 /\ e.tree = d.tree
        /\ e.tables = d.tables /\ e.columns = d.columns
    BY ONLY <1>1, <2>1, HeaderStored
  <2>5. HeadMade(e, p, 2)
    BY <1>2, <1>3, <2>4 DEF HeadMade
  <2> QED
    BY <1>3, <2>3, <2>4, <2>5
<1>4. CASE m = 2
  <2>1. e = Stored(d, get_next_id(TABLES)) /\ TABLES \in DOMAIN d.tables
    BY <1>2, <1>4 DEF HeadCell
  <2>2. Consistent(e) /\ \A n \in Nat : Lost(d, n) => Lost(e, n)
    BY <2>1, NextIdConsistent
  <2>3. /\ Shape(e) /\ e.nb_pages = d.nb_pages /\ e.tree = d.tree
        /\ e.tables = [d.tables EXCEPT ![TABLES].next_id = @ + 1] /\ e.columns = d.columns
    BY ONLY <1>1, <2>1, NextIdStored
  <2>4. /\ DOMAIN e.tables = DOMAIN d.tables /\ e.tables[TABLES].next_id = p.id + 1
        /\ e.tables[TABLES].root = d.tables[TABLES].root
        /\ \A t \in DOMAIN d.tables : t # TABLES => e.tables[t] = d.tables[t]
    <3>1. d.tables[TABLES] \in TableRows
      BY <2>1, RowTypes
    <3> QED
      BY <1>2, <1>4, <2>1, <2>3, <3>1 DEF TableRows
  <2>5. \A t \in DOMAIN e.tables \ {p.id} : e.tables[t].root < p.root
    BY <1>2, <2>4
  <2>6. HeadMade(e, p, 3)
    BY <1>2, <1>4, <2>3, <2>4, <2>5 DEF HeadMade
  <2> QED
    BY <1>4, <2>2, <2>3, <2>4, <2>6
<1>5. CASE m = 3
  <2> DEFINE row == NewRow(p)
  <2>1. e = Stored(d, insert(TABLES, p.id, row))
    BY <1>5 DEF HeadCell
  <2>2. /\ row \in TableRows /\ row.root = p.root
    BY <1>1 DEF NewRow, TablesRow, TableRows
  <2>3. /\ row.root \notin Fixed /\ row.root < d.nb_pages /\ d.tree[row.root] = Zeros
        /\ p.id \in Nat \ DOMAIN d.tables /\ p.id < d.tables[TABLES].next_id
    BY <1>1, <1>2, <1>5, <2>2 DEF Fixed
  <2>4. \A t \in DOMAIN d.tables : d.tables[t].root # row.root
    <3>1. \A t \in DOMAIN d.tables : t # p.id /\ d.tables[t].root < p.root /\ d.tables[t].root \in Nat
      BY <1>2, RowTypes, FixedPages
    <3> QED
      BY <1>1, <2>2, <3>1
  <2>5. \A c \in DOMAIN d.columns : d.columns[c].root # row.root /\ d.columns[c].table # p.id
    <3>1. \A c \in DOMAIN d.columns : d.columns[c].root \in Nat
      BY RowTypes, FixedPages
    <3> QED
      BY <1>1, <1>2, <2>2, <3>1
  <2> HIDE DEF row
  <2>6. /\ Consistent(e) /\ \A n \in Nat : Lost(d, n) => Lost(e, n)
        /\ DOMAIN e.tables = DOMAIN d.tables \union {p.id} /\ e.tables[p.id] = row
        /\ \A t \in DOMAIN d.tables : e.tables[t] = d.tables[t]
    BY <1>2, <2>1, <2>2, <2>3, <2>4, <2>5, TableRowConsistent
  <2>7. e.nb_pages = d.nb_pages /\ e.tree = [d.tree EXCEPT ![TABLES] = @ \union {p.id}]
        /\ e.columns = d.columns
    <3>1. Stored(d, insert(TABLES, p.id, row)) =
            [nb_pages |-> d.nb_pages, tree |-> [d.tree EXCEPT ![TABLES] = @ \union {p.id}],
             tables |-> IF TABLES = TABLES THEN WithRow(d.tables, p.id, row) ELSE d.tables,
             columns |-> IF TABLES = COLUMNS THEN WithRow(d.columns, p.id, row) ELSE d.columns]
      BY ONLY <1>1, RowStored
    <3> QED
      BY <2>1, <3>1
  <2>8. \A q \in Page : q # TABLES => e.tree[q] = d.tree[q]
    BY <1>1, <2>7 DEF Typed
  <2>9. HeadMade(e, p, 4)
    BY <1>1, <1>2, <1>5, <2>6, <2>7, <2>8 DEF HeadMade, row
  <2> QED
    BY <1>5, <2>6, <2>8, <2>9
<1> QED
  BY <1>3, <1>4, <1>5

\* A store that leaves COLUMNS_NAMES written or not, and every column found, leaves
\* a catalog ready.
LEMMA StaysReady ==
  ASSUME NEW d, NEW p, p \in Plans, Ready(d, p), NEW e,
         IdsIn(d, COLUMNS_TIDX) \subseteq IdsIn(e, COLUMNS_TIDX),
         DOMAIN d.tables \subseteq DOMAIN e.tables,
         d.tree[COLUMNS_NAMES] = Zeros <=> e.tree[COLUMNS_NAMES] = Zeros
  PROVE  Ready(e, p)
  BY DEF Ready, Searchable

\* An entry of an index of the catalog is added.
LEMMA EntryAdded ==
  ASSUME NEW d, Consistent(d), NEW p, p \in {TABLES_NAMES, COLUMNS_TIDX, COLUMNS_NAMES},
         d.tree[p] # Zeros, NEW id, id \in Nat, NEW e, e = Stored(d, insert_bt(p, id))
  PROVE  /\ e.nb_pages = d.nb_pages /\ e.tables = d.tables /\ e.columns = d.columns
         /\ e.tree[p] = d.tree[p] \union {id} /\ IdsIn(e, p) = IdsIn(d, p) \union {id}
         /\ \A q \in Page : q # p => e.tree[q] = d.tree[q] /\ IdsIn(e, q) = IdsIn(d, q)
         /\ \A q \in Page : e.tree[q] = Zeros <=> d.tree[q] = Zeros
<1>1. Shape(d) /\ Typed(d) /\ p \in Page
  BY FixedPages DEF Consistent, Fixed
<1>2. Stored(d, insert_bt(p, id)) =
        [nb_pages |-> d.nb_pages, tree |-> [d.tree EXCEPT ![p] = @ \union {id}],
         tables |-> d.tables, columns |-> d.columns]
  BY ONLY <1>1, EntryStored
<1>3. e.nb_pages = d.nb_pages /\ e.tables = d.tables /\ e.columns = d.columns
      /\ e.tree = [d.tree EXCEPT ![p] = @ \union {id}]
  BY <1>2
<1>4. TreesTyped(d) /\ p \in Page /\ d.tree[p] # Zeros /\ Adds(d, e, p, id) /\ id \in Nat
  BY <1>1, <1>3 DEF Typed, TreesTyped, Adds
<1>5. Grown(d, e, p, id)
  BY ONLY <1>4, IdAdded
<1> QED
  BY ONLY <1>3, <1>5 DEF Grown

\* The fourth store of create_table: the name.
LEMMA NameStep ==
  ASSUME NEW d, Consistent(d), NEW p, p \in Plans, HeadMade(d, p, 4), Ready(d, p),
         d.tables[COLUMNS].next_id = p.first, NEW e, e = Stored(d, HeadCell(p, 4))
  PROVE  /\ Consistent(e) /\ \A n \in Nat : Lost(d, n) => Lost(e, n)
         /\ ColumnsMade(e, p, 1, 1) /\ Ready(e, p)
<1>1. /\ p.id \in Nat /\ p.root \in Nat /\ p.root \in Page /\ p.n \in Nat /\ p.n >= 1 /\ p.first \in Nat
      /\ Searchable(d) /\ d.tree[TABLES_NAMES] # Zeros /\ COLUMNS \in DOMAIN d.tables /\ p.root > 4
  BY PlanTypes DEF Consistent, Search, Ready
<1>2. /\ d.nb_pages = p.root + 1
      /\ p.id \in DOMAIN d.tables /\ d.tables[p.id] = NewRow(p)
      /\ \A t \in DOMAIN d.tables \ {p.id} : d.tables[t].root < p.root
      /\ \A c \in DOMAIN d.columns : d.columns[c].root < p.root /\ d.columns[c].table # p.id
      /\ d.tree[p.root] = Zeros
  BY DEF HeadMade
<1>3. e = Stored(d, insert_bt(TABLES_NAMES, p.id))
  BY DEF HeadCell
<1>4. Consistent(e) /\ \A n \in Nat : Lost(d, n) => Lost(e, n)
  <2>1. TABLES_NAMES \in {TABLES_NAMES, COLUMNS_TIDX, COLUMNS_NAMES}
    OBVIOUS
  <2>2. /\ TABLES_NAMES = TABLES_NAMES => p.id \in DOMAIN d.tables
        /\ TABLES_NAMES # TABLES_NAMES => p.id \in DOMAIN d.columns
        /\ TABLES_NAMES = COLUMNS_TIDX =>
             p.id \notin 0..2 /\ d.tree[d.tables[d.columns[p.id].table].root] = Zeros
    BY <1>2
  <2> QED
    BY <1>1, <1>3, <2>1, <2>2, CatalogEntryConsistent
<1>5. /\ e.nb_pages = d.nb_pages /\ e.tables = d.tables /\ e.columns = d.columns
      /\ e.tree[TABLES_NAMES] = d.tree[TABLES_NAMES] \union {p.id}
      /\ \A q \in Page : q # TABLES_NAMES => e.tree[q] = d.tree[q] /\ IdsIn(e, q) = IdsIn(d, q)
      /\ \A q \in Page : e.tree[q] = Zeros <=> d.tree[q] = Zeros
  BY <1>1, <1>3, EntryAdded
<1>6. 0 \in Page /\ 1 \in Page /\ 2 \in Page /\ 3 \in Page /\ 4 \in Page
  BY FixedPages DEF Fixed
<1>7. Ready(e, p)
  BY <1>5, <1>6, StaysReady
<1>8. TableMade(e, p)
  BY <1>1, <1>2, <1>5 DEF TableMade
<1>9. RowsMade(e, p, 0)
  <2>1. \A c \in DOMAIN d.columns : c < p.first
    <3>1. DOMAIN d.columns = IdsIn(d, COLUMNS)
      BY RowTypes
    <3>2. DOMAIN d.columns # {} => d.tables[COLUMNS].root = COLUMNS
      BY DEF Consistent, ColumnRoots
    <3> QED
      BY <1>1, <3>1, <3>2 DEF Consistent, NextIds
  <2> QED
    BY <1>2, <1>5, <2>1 DEF RowsMade
<1>10. ColumnsMade(e, p, 1, 1)
  <2>1. Entered(e, p, 0) /\ IndexesMade(e, p, 0)
    <3>1. \A c \in IdsIn(e, COLUMNS_TIDX) : c \in DOMAIN e.columns
      BY <1>4 DEF Consistent, Entries
    <3>2. \A c \in DOMAIN e.columns : c < p.first
      BY <1>9 DEF RowsMade
    <3> QED
      BY <3>1, <3>2 DEF Entered, IndexesMade
  <2>2. 1 - 1 = 0 /\ p.first + 1 - 1 + 0 = p.first /\ p.root + 1 + 0 = p.root + 1
    BY <1>1
  <2>3. \A i \in 1..Len(p.ents) : ~(i < 1 - 4)
    BY PlanTypes
  <2> QED
    BY <1>2, <1>5, <1>8, <1>9, <2>1, <2>2, <2>3 DEF ColumnsMade
<1> QED
  BY <1>4, <1>7, <1>10

\* The stores of a column: its page, its index, the next id, its row, its entries.
LEMMA ColumnPlan ==
  ASSUME NEW d, Consistent(d), NEW p, p \in Plans, Ready(d, p), NEW l, l \in 1..p.n,
         NEW m, m \in 1..Width(p), ColumnsMade(d, p, l, m)
  PROVE  /\ Shape(d) /\ Typed(d) /\ MaxPages \in Nat
         /\ p.id \in Nat /\ p.root \in Nat /\ p.root \in Page /\ p.n \in Nat /\ p.first \in Nat
         /\ l \in Nat /\ l >= 1 /\ m \in Nat /\ m >= 1
         /\ p.root > 4 /\ p.id > 1 /\ p.first > 2 /\ p.root + l < MaxPages /\ p.root + l \in Page
         /\ p.root + l \notin Fixed
         /\ d.nb_pages = p.root + l + (IF m = 1 THEN 0 ELSE 1)
         /\ p.id \in DOMAIN d.tables /\ d.tables[p.id].root = p.root /\ d.tree[p.root] = Zeros
         /\ COLUMNS \in DOMAIN d.tables /\ Searchable(d)
         /\ \A t \in DOMAIN d.tables : d.tables[t].root <= p.root /\ d.tables[t].root \in Nat
<1>1. /\ Shape(d) /\ Typed(d) /\ MaxPages \in Nat
      /\ p.id \in Nat /\ p.root \in Nat /\ p.root \in Page /\ p.n \in Nat /\ p.first \in Nat
      /\ Width(p) \in {4, 5, 6}
  BY PlanTypes, CatalogAssumption DEF Consistent
<1>2. l \in Nat /\ l >= 1 /\ m \in Nat /\ m >= 1 /\ l <= p.n
  BY <1>1
<1>3. /\ p.root > 4 /\ p.id > 1 /\ p.first > 2 /\ p.root + p.n < MaxPages
      /\ COLUMNS \in DOMAIN d.tables /\ Searchable(d)
  BY DEF Ready
<1>4. p.root + l < MaxPages /\ p.root + l \in Page /\ p.root + l \notin Fixed
  BY <1>1, <1>2, <1>3 DEF Page, Fixed
<1>5. /\ p.id \in DOMAIN d.tables /\ d.tables[p.id].root = p.root /\ d.tree[p.root] = Zeros
      /\ \A t \in DOMAIN d.tables \ {p.id} : d.tables[t].root < p.root
      /\ d.nb_pages = p.root + l + (IF m = 1 THEN 0 ELSE 1)
  BY DEF ColumnsMade, TableMade, NewRow, TablesRow
<1>6. \A t \in DOMAIN d.tables : d.tables[t].root <= p.root /\ d.tables[t].root \in Nat
  <2>1. \A t \in DOMAIN d.tables : d.tables[t].root \in Nat
    BY RowTypes, FixedPages
  <2> QED
    BY <1>1, <1>5, <2>1
<1> QED
  BY <1>1, <1>2, <1>3, <1>4, <1>5, <1>6

LEMMA ColumnPageStep ==
  ASSUME NEW d, Consistent(d), NEW p, p \in Plans, Ready(d, p), NEW l, l \in 1..p.n,
         ColumnsMade(d, p, l, 1), NEW e, e = Stored(d, create_addr)
  PROVE  /\ Consistent(e) /\ \A n \in Nat : Lost(d, n) => Lost(e, n)
         /\ ColumnsMade(e, p, l, 2) /\ Ready(e, p)
<1>1. 1 \in 1..Width(p)
  BY PlanTypes
<1>2. /\ Shape(d) /\ Typed(d) /\ p.root \in Nat /\ l \in Nat /\ p.root + l < MaxPages
      /\ p.root + l \in Page /\ d.nb_pages = p.root + l /\ MaxPages \in Nat
  BY <1>1, ColumnPlan
<1>3. Consistent(e) /\ \A n \in Nat : Lost(d, n) => Lost(e, n)
  BY <1>2, HeaderConsistent
<1>4. /\ Shape(e) /\ e.nb_pages = d.nb_pages + 1 /\ e.tree = d.tree
      /\ e.tables = d.tables /\ e.columns = d.columns
  <2>1. e = Stored(d, create_addr)
    OBVIOUS
  <2> QED
    BY ONLY <1>2, <2>1, HeaderStored
<1>5. Ready(e, p)
  BY <1>4, StaysReady DEF IdsIn
<1>6. d.tree[p.root + l] = Zeros
  BY <1>2 DEF Typed
<1>7. ColumnsMade(e, p, l, 2)
  <2>1. TableMade(e, p) /\ Entered(e, p, l - 1) /\ RowsMade(e, p, l - 1) /\ IndexesMade(e, p, l - 1)
    BY <1>4 DEF ColumnsMade, TableMade, Entered, RowsMade, IndexesMade, IdsIn
  <2>2. e.nb_pages = p.root + l + 1 /\ e.tables[COLUMNS].next_id = p.first + l - 1 + 0
    BY <1>2, <1>4 DEF ColumnsMade
  <2>3. \A i \in 1..Len(p.ents) : ~(i < 2 - 4)
    BY PlanTypes
  <2> QED
    BY <1>4, <1>6, <2>1, <2>2, <2>3 DEF ColumnsMade
<1> QED
  BY <1>3, <1>5, <1>7

LEMMA ColumnIndexStep ==
  ASSUME NEW d, Consistent(d), NEW p, p \in Plans, Ready(d, p), NEW l, l \in 1..p.n,
         ColumnsMade(d, p, l, 2), NEW e, e = Stored(d, write_node(p.root + l, {}))
  PROVE  /\ Consistent(e) /\ \A n \in Nat : Lost(d, n) => Lost(e, n)
         /\ ColumnsMade(e, p, l, 3) /\ Ready(e, p)
<1> DEFINE q == p.root + l
<1>1. 2 \in 1..Width(p)
  BY PlanTypes
<1>2. /\ Shape(d) /\ Typed(d) /\ p.root \in Nat /\ p.root \in Page /\ l \in Nat /\ l >= 1
      /\ q \in Page /\ q \notin Fixed /\ d.nb_pages = q + 1 /\ q \in Nat
      /\ Searchable(d) /\ p.root < q /\ p.root > 4 /\ p.id \in DOMAIN d.tables
      /\ \A t \in DOMAIN d.tables : d.tables[t].root <= p.root /\ d.tables[t].root \in Nat
  BY <1>1, ColumnPlan
<1>3. d.tree[q] = Zeros
  BY DEF ColumnsMade
<1>4. e = Stored(d, write_node(q, {}))
  OBVIOUS
<1> HIDE DEF q
<1>5. Consistent(e) /\ \A n \in Nat : Lost(d, n) => Lost(e, n)
  <2>1. \A t \in DOMAIN d.tables : d.tables[t].root # q
    BY <1>2
  <2>2. q \in Page \ Fixed /\ q < d.nb_pages
    BY <1>2
  <2> QED
    BY <1>2, <1>3, <1>4, <2>1, <2>2, NodeConsistent
<1>6. /\ Shape(e) /\ e.nb_pages = d.nb_pages /\ e.tree = [d.tree EXCEPT ![q] = {}]
      /\ e.tables = d.tables /\ e.columns = d.columns
  <2>1. \A ids : e = Stored(d, write_node(q, ids)) =>
          /\ Shape(e) /\ e.nb_pages = d.nb_pages /\ e.tree = [d.tree EXCEPT ![q] = ids]
          /\ e.tables = d.tables /\ e.columns = d.columns
    BY SMTT(30), <1>2, NodeStored
  <2> QED
    BY <1>4, <2>1
<1>7. e.tree[q] = {} /\ \A x \in Page : x # q => e.tree[x] = d.tree[x]
  BY <1>2, <1>6 DEF Typed
<1>8. /\ 0 \in Page /\ 1 \in Page /\ 2 \in Page /\ 3 \in Page /\ 4 \in Page
      /\ q # 0 /\ q # 1 /\ q # 2 /\ q # 3 /\ q # 4 /\ q # p.root
  BY <1>2, FixedPages DEF Fixed
<1>9. Ready(e, p)
  <2>1. IdsIn(e, COLUMNS_TIDX) = IdsIn(d, COLUMNS_TIDX)
    BY <1>7, <1>8 DEF IdsIn
  <2> QED
    BY <1>6, <1>7, <1>8, <2>1, StaysReady
<1>10. ColumnsMade(e, p, l, 3)
  <2>1. TableMade(e, p)
    <3>1. e.tree[2] = d.tree[2] /\ e.tree[p.root] = d.tree[p.root]
      BY <1>2, <1>7, <1>8
    <3> QED
      BY <1>6, <3>1 DEF ColumnsMade, TableMade
  <2>5. Entered(e, p, l - 1)
    <3>1. e.tree[3] = d.tree[3]
      BY <1>7, <1>8
    <3> QED
      BY <3>1 DEF ColumnsMade, Entered, IdsIn
  <2>6. RowsMade(e, p, l - 1)
    <3>1. RowsMade(d, p, l - 1)
      BY DEF ColumnsMade
    <3> QED
      BY <1>6, <3>1 DEF RowsMade
  <2>2. IndexesMade(e, p, l)
    <3>1. ASSUME NEW i \in 1..l
          PROVE  e.tree[p.root + i] = {}
      <4>1. CASE i = l
        BY <1>7, <4>1 DEF q
      <4>2. CASE i # l
        <5>1. i \in 1..(l - 1) /\ p.root + i \in Page /\ p.root + i # q
          <6>1. i \in Nat /\ i < l
            BY <1>2, <4>2
          <6>2. q \in Nat /\ q < MaxPages /\ MaxPages \in Nat
            BY <1>2, CatalogAssumption DEF Page
          <6>3. p.root + i < q /\ p.root + i \in Nat
            BY <1>2, <6>1 DEF q
          <6>4. p.root + i \in Page /\ p.root + i # q
            BY <6>2, <6>3 DEF Page
          <6> QED
            BY <1>2, <6>1, <6>4
        <5>2. d.tree[p.root + i] = {}
          BY <5>1 DEF ColumnsMade, IndexesMade
        <5> QED
          BY <1>7, <5>1, <5>2
      <4> QED
        BY <4>1, <4>2
    <3> QED
      BY <3>1 DEF IndexesMade
  <2>3. e.nb_pages = p.root + l + 1 /\ e.tables[COLUMNS].next_id = p.first + l - 1 + 0
    BY <1>6 DEF ColumnsMade
  <2>4. \A i \in 1..Len(p.ents) : ~(i < 3 - 4)
    BY PlanTypes
  <2> QED
    BY <2>1, <2>2, <2>3, <2>4, <2>5, <2>6 DEF ColumnsMade
<1> QED
  BY <1>5, <1>9, <1>10

LEMMA ColumnIdStep ==
  ASSUME NEW d, Consistent(d), NEW p, p \in Plans, Ready(d, p), NEW l, l \in 1..p.n,
         ColumnsMade(d, p, l, 3), NEW e, e = Stored(d, get_next_id(COLUMNS))
  PROVE  /\ Consistent(e) /\ \A n \in Nat : Lost(d, n) => Lost(e, n)
         /\ ColumnsMade(e, p, l, 4) /\ Ready(e, p)
<1>1. 3 \in 1..Width(p)
  BY PlanTypes
<1>2. /\ Shape(d) /\ Typed(d) /\ p.id > 1 /\ p.id \in Nat /\ p.first \in Nat /\ l \in Nat
      /\ COLUMNS \in DOMAIN d.tables
  BY <1>1, ColumnPlan
<1>3. /\ Consistent(e) /\ \A n \in Nat : Lost(d, n) => Lost(e, n)
      /\ DOMAIN e.tables = DOMAIN d.tables
  BY <1>2, NextIdConsistent
<1>4. /\ Shape(e) /\ e.nb_pages = d.nb_pages /\ e.tree = d.tree
      /\ e.tables = [d.tables EXCEPT ![COLUMNS].next_id = @ + 1] /\ e.columns = d.columns
  <2>1. e = Stored(d, get_next_id(COLUMNS))
    OBVIOUS
  <2> QED
    BY ONLY <1>2, <2>1, NextIdStored
<1>5. /\ \A t \in DOMAIN d.tables : t # COLUMNS => e.tables[t] = d.tables[t]
      /\ e.tables[COLUMNS].root = d.tables[COLUMNS].root
      /\ e.tables[COLUMNS].next_id = d.tables[COLUMNS].next_id + 1
  <2>1. d.tables[COLUMNS] \in TableRows
    BY <1>2, RowTypes
  <2> QED
    BY <1>2, <1>4, <2>1 DEF TableRows
<1>6. Ready(e, p)
  BY <1>3, <1>4, StaysReady DEF IdsIn
<1>7. TableMade(e, p)
  <2>1. TableMade(d, p) /\ p.id # COLUMNS
    BY <1>2 DEF ColumnsMade
  <2>2. \A t \in DOMAIN e.tables \ {p.id} : e.tables[t].root < p.root
    BY <1>3, <1>5, <2>1 DEF TableMade
  <2> QED
    BY <1>3, <1>4, <1>5, <2>1, <2>2 DEF TableMade
<1>8. /\ Entered(e, p, l - 1) /\ RowsMade(e, p, l - 1) /\ IndexesMade(e, p, l)
      /\ e.nb_pages = p.root + l + 1
  <2>1. /\ Entered(d, p, l - 1) /\ RowsMade(d, p, l - 1) /\ IndexesMade(d, p, l)
        /\ d.nb_pages = p.root + l + 1
    BY DEF ColumnsMade
  <2> QED
    BY <1>4, <2>1 DEF Entered, RowsMade, IndexesMade, IdsIn
<1>9. e.tables[COLUMNS].next_id = p.first + l - 1 + 1
  <2>1. d.tables[COLUMNS].next_id = p.first + l - 1 + 0 /\ p.first + l - 1 + 0 = p.first + l - 1
    BY <1>2 DEF ColumnsMade
  <2> QED
    BY <1>5, <2>1
<1>10. \A i \in 1..Len(p.ents) : ~(i < 4 - 4)
  BY PlanTypes
<1>11. ColumnsMade(e, p, l, 4)
  BY <1>7, <1>8, <1>9, <1>10 DEF ColumnsMade
<1> QED
  BY <1>3, <1>6, <1>11

LEMMA ColumnRowStep ==
  ASSUME NEW d, Consistent(d), NEW p, p \in Plans, Ready(d, p), NEW l, l \in 1..p.n,
         ColumnsMade(d, p, l, 4),
         NEW e, e = Stored(d, insert(COLUMNS, p.first + l - 1, NewColumn(p, l)))
  PROVE  /\ Consistent(e) /\ \A n \in Nat : Lost(d, n) => Lost(e, n)
         /\ ColumnsMade(e, p, l, 5) /\ Ready(e, p)
<1> DEFINE id == p.first + l - 1
           row == NewColumn(p, l)
<1>1. 4 \in 1..Width(p)
  BY PlanTypes
<1>2. /\ Shape(d) /\ Typed(d) /\ p.id > 1 /\ p.id \in Nat /\ p.first \in Nat /\ l \in Nat /\ l >= 1
      /\ p.root \in Nat /\ p.root + l \in Page /\ p.root + l \notin Fixed
      /\ COLUMNS \in DOMAIN d.tables /\ Searchable(d) /\ p.id \in DOMAIN d.tables
      /\ d.nb_pages = p.root + l + 1 /\ MaxPages \in Nat
      /\ \A t \in DOMAIN d.tables : d.tables[t].root <= p.root /\ d.tables[t].root \in Nat
  BY <1>1, ColumnPlan
<1>3. /\ RowsMade(d, p, l - 1) /\ IndexesMade(d, p, l) /\ Entered(d, p, l - 1) /\ TableMade(d, p)
      /\ d.tables[COLUMNS].next_id = id + 1
  BY DEF ColumnsMade
<1>4. /\ row \in ColumnRows /\ row.table = p.id /\ row.root = p.root + l /\ id \in Nat
  BY <1>2 DEF NewColumn, ColumnsRow, ColumnRows
<1>5. \A c \in DOMAIN d.columns : c # id /\ d.columns[c].root # p.root + l
  <2>1. ASSUME NEW c \in DOMAIN d.columns, c < p.first, d.columns[c].root < p.root
        PROVE  c # id /\ d.columns[c].root # p.root + l
    <3>1. c \in Nat /\ d.columns[c].root \in Nat
      BY RowTypes, FixedPages
    <3> QED
      BY <1>2, <2>1, <3>1
  <2>2. ASSUME NEW i \in 1..(l - 1), p.first + i - 1 \in DOMAIN d.columns
        PROVE  p.first + i - 1 # id /\ d.columns[p.first + i - 1].root # p.root + l
    <3>1. d.columns[p.first + i - 1].root = p.root + i
      <4>1. d.columns[p.first + i - 1] = NewColumn(p, i)
        BY <1>3 DEF RowsMade
      <4> QED
        BY <4>1 DEF NewColumn, ColumnsRow
    <3>2. i \in Nat /\ i < l
      BY <1>2
    <3> QED
      BY <1>2, <3>1, <3>2
  <2> QED
    BY <1>3, <2>1, <2>2 DEF RowsMade
<1>6. IdsIn(d, p.root + l) = {}
  <2>1. l \in 1..l
    BY <1>2
  <2>2. d.tree[p.root + l] = {}
    BY <1>3, <2>1 DEF IndexesMade
  <2> QED
    BY <2>2 DEF IdsIn
<1>7. e = Stored(d, insert(COLUMNS, id, row))
  OBVIOUS
<1> HIDE DEF id, row
<1>8. /\ Consistent(e) /\ \A n \in Nat : Lost(d, n) => Lost(e, n)
      /\ DOMAIN e.columns = DOMAIN d.columns \union {id} /\ e.columns[id] = row
      /\ \A c \in DOMAIN d.columns : e.columns[c] = d.columns[c]
  <2>1. id \notin DOMAIN d.columns /\ id < d.tables[COLUMNS].next_id
    BY <1>3, <1>4, <1>5
  <2>2. row.table \in DOMAIN d.tables \ {TABLES, COLUMNS} /\ d.tree[d.tables[row.table].root] = Zeros
    BY <1>2, <1>3, <1>4 DEF TableMade, NewRow, TablesRow
  <2>3. row.root \notin Fixed /\ row.root < d.nb_pages /\ IdsIn(d, row.root) = {}
    BY <1>2, <1>4, <1>6
  <2>4. \A t \in DOMAIN d.tables : d.tables[t].root # row.root
    BY <1>2, <1>4
  <2>5. \A c \in DOMAIN d.columns : d.columns[c].root # row.root
    BY <1>4, <1>5
  <2> QED
    BY <1>2, <1>4, <1>7, <2>1, <2>2, <2>3, <2>4, <2>5, ColumnRowConsistent
<1>9. e.nb_pages = d.nb_pages /\ e.tree = [d.tree EXCEPT ![COLUMNS] = @ \union {id}]
      /\ e.tables = d.tables
  <2>1. Stored(d, insert(COLUMNS, id, row)) =
          [nb_pages |-> d.nb_pages, tree |-> [d.tree EXCEPT ![COLUMNS] = @ \union {id}],
           tables |-> IF COLUMNS = TABLES THEN WithRow(d.tables, id, row) ELSE d.tables,
           columns |-> IF COLUMNS = COLUMNS THEN WithRow(d.columns, id, row) ELSE d.columns]
    BY ONLY <1>2, RowStored
  <2> QED
    BY ONLY <1>7, <2>1
<1>10. \A q \in Page : q # COLUMNS => e.tree[q] = d.tree[q]
  BY <1>2, <1>9 DEF Typed
<1>11. 2 \in Page /\ 3 \in Page /\ 4 \in Page /\ p.root \in Page /\ p.root > 4
  <2>1. 2 \in Page /\ 3 \in Page /\ 4 \in Page
    BY FixedPages DEF Fixed
  <2>2. p.root \in Page
    BY PlanTypes
  <2>3. p.root > 4
    BY DEF Ready
  <2> QED
    BY <2>1, <2>2, <2>3
<1>12. e.tree[2] = d.tree[2] /\ e.tree[3] = d.tree[3] /\ e.tree[4] = d.tree[4]
       /\ e.tree[p.root] = d.tree[p.root]
  BY <1>2, <1>10, <1>11
<1>13. Ready(e, p)
  BY <1>9, <1>12, StaysReady DEF IdsIn
<1>14. TableMade(e, p) /\ Entered(e, p, l - 1)
  BY <1>3, <1>9, <1>12 DEF TableMade, Entered, IdsIn
<1>15. IndexesMade(e, p, l)
  <2> SUFFICES ASSUME NEW i \in 1..l
               PROVE  e.tree[p.root + i] = {}
    BY DEF IndexesMade
  <2>1. p.root + i \in Page /\ p.root + i # COLUMNS
    <3>1. i \in Nat /\ i <= l /\ p.root + l < MaxPages /\ p.root > 4
      BY <1>2, <1>11, ColumnPlan, <1>1
    <3> QED
      BY <1>2, <3>1 DEF Page
  <2> QED
    BY <1>3, <1>10, <2>1 DEF IndexesMade
<1>16. RowsMade(e, p, l)
  <2>1. ASSUME NEW i \in 1..l
        PROVE  p.first + i - 1 \in DOMAIN e.columns /\ e.columns[p.first + i - 1] = NewColumn(p, i)
    <3>1. CASE i = l
      BY <1>8, <3>1 DEF id, row
    <3>2. CASE i # l
      <4>1. i \in 1..(l - 1)
        BY <1>2, <3>2
      <4> QED
        BY <1>3, <1>8, <4>1 DEF RowsMade
    <3> QED
      BY <3>1, <3>2
  <2>2. ASSUME NEW c \in DOMAIN e.columns
        PROVE  \/ c < p.first /\ e.columns[c].table # p.id /\ e.columns[c].root < p.root
               \/ \E i \in 1..l : c = p.first + i - 1
    <3>1. CASE c = id
      <4>1. l \in 1..l
        BY <1>2
      <4> QED
        BY <3>1, <4>1 DEF id
    <3>2. CASE c # id
      <4>1. c \in DOMAIN d.columns /\ e.columns[c] = d.columns[c]
        BY <1>8, <3>2
      <4>2. \A i \in 1..(l - 1) : i \in 1..l
        BY <1>2
      <4> QED
        BY <1>3, <4>1, <4>2 DEF RowsMade
    <3> QED
      BY <3>1, <3>2
  <2> QED
    BY <2>1, <2>2 DEF RowsMade
<1>17. ColumnsMade(e, p, l, 5)
  <2>1. e.nb_pages = p.root + l + 1 /\ e.tables[COLUMNS].next_id = p.first + l - 1 + 1
    BY <1>2, <1>3, <1>9 DEF id
  <2>2. \A i \in 1..Len(p.ents) : ~(i < 5 - 4)
    BY PlanTypes
  <2> QED
    BY <1>14, <1>15, <1>16, <2>1, <2>2 DEF ColumnsMade
<1> QED
  BY <1>8, <1>13, <1>17

\* An entry of the row of a column, in either index of COLUMNS
LEMMA ColumnEntryStep ==
  ASSUME NEW d, Consistent(d), NEW p, p \in Plans, Ready(d, p), NEW l, l \in 1..p.n,
         NEW m, m \in 5..Width(p), ColumnsMade(d, p, l, m), p.ents[m - 4] # -1,
         NEW e, e = Stored(d, insert_bt(p.ents[m - 4], p.first + l - 1))
  PROVE  /\ Consistent(e) /\ \A n \in Nat : Lost(d, n) => Lost(e, n)
         /\ ColumnsMade(e, p, l, m + 1) /\ Ready(e, p)
<1> DEFINE id == p.first + l - 1
           q == p.ents[m - 4]
<1>1. m \in 1..Width(p) /\ m \in Nat /\ m > 4 /\ m - 4 \in 1..Len(p.ents)
  BY PlanTypes DEF Width
<1>2. /\ Shape(d) /\ Typed(d) /\ p.id > 1 /\ p.id \in Nat /\ p.first \in Nat /\ l \in Nat /\ l >= 1
      /\ p.root \in Nat /\ p.root \in Page /\ p.root > 4 /\ p.first > 2
      /\ Searchable(d) /\ p.id \in DOMAIN d.tables /\ d.tables[p.id].root = p.root
      /\ d.tree[p.root] = Zeros /\ d.nb_pages = p.root + l + 1 /\ p.root + l \in Page
  BY SMTT(30), <1>1, ColumnPlan
<1>3. /\ RowsMade(d, p, l) /\ IndexesMade(d, p, l) /\ Entered(d, p, l - 1) /\ TableMade(d, p)
      /\ d.tables[COLUMNS].next_id = p.first + l - 1 + 1
      /\ \A i \in 1..Len(p.ents) : i < m - 4 /\ p.ents[i] = COLUMNS_TIDX => id \in d.tree[COLUMNS_TIDX]
  BY <1>1 DEF ColumnsMade
<1>4. q \in {3, 4}
  BY <1>1, PlanTypes
<1>5. id \in DOMAIN d.columns /\ d.columns[id] = NewColumn(p, l) /\ id \in Nat /\ id \notin 0..2
  <2>1. l \in 1..l
    BY <1>2
  <2> QED
    BY SMTT(30), <1>2, <1>3, <2>1 DEF RowsMade
<1>6. d.columns[id].table = p.id
  BY <1>5 DEF NewColumn, ColumnsRow
<1>7. d.tree[q] # Zeros
  <2>1. CASE q = 3
    BY <1>2, <2>1 DEF Searchable, IdsIn, Zeros
  <2>2. CASE q = 4
    BY <1>1, <2>2 DEF Ready
  <2> QED
    BY <1>4, <2>1, <2>2
<1>8. e = Stored(d, insert_bt(q, id))
  OBVIOUS
<1>9. /\ q \in {TABLES_NAMES, COLUMNS_TIDX, COLUMNS_NAMES} /\ q # TABLES_NAMES
      /\ q \in Page /\ 2 \in Page /\ 3 \in Page /\ 4 \in Page
  <2>1. 2 \in Page /\ 3 \in Page /\ 4 \in Page
    BY FixedPages DEF Fixed
  <2> QED
    BY <1>4, <2>1
<1> HIDE DEF id, q
<1>10. Consistent(e) /\ \A n \in Nat : Lost(d, n) => Lost(e, n)
  <2>1. d.tree[d.tables[d.columns[id].table].root] = Zeros
    BY <1>2, <1>6
  <2> QED
    BY <1>2, <1>5, <1>7, <1>8, <1>9, <2>1, CatalogEntryConsistent
<1>11. /\ e.nb_pages = d.nb_pages /\ e.tables = d.tables /\ e.columns = d.columns
       /\ e.tree[q] = d.tree[q] \union {id} /\ IdsIn(e, q) = IdsIn(d, q) \union {id}
       /\ \A x \in Page : x # q => e.tree[x] = d.tree[x] /\ IdsIn(e, x) = IdsIn(d, x)
       /\ \A x \in Page : e.tree[x] = Zeros <=> d.tree[x] = Zeros
  BY <1>5, <1>7, <1>8, <1>9, EntryAdded
<1>12. /\ d.tree[3] \subseteq e.tree[3] /\ IdsIn(d, 3) \subseteq IdsIn(e, 3)
       /\ e.tree[4] = Zeros <=> d.tree[4] = Zeros
       /\ e.tree[2] = d.tree[2]
  BY <1>4, <1>9, <1>11
<1>13. Ready(e, p)
  BY <1>11, <1>12, StaysReady
<1>14. TableMade(e, p)
  <2>1. e.tree[p.root] = Zeros
    BY <1>2, <1>11
  <2> QED
    BY <1>3, <1>11, <1>12, <2>1 DEF TableMade
<1>15. Entered(e, p, l - 1) /\ RowsMade(e, p, l)
  <2>1. p.ents # <<>>
    BY <1>1
  <2>2. Entered(e, p, l - 1)
    BY <1>3, <1>12, <2>1 DEF Entered
  <2>3. RowsMade(e, p, l)
    BY ZenonT(60), <1>3, <1>11 DEF RowsMade
  <2> QED
    BY <2>2, <2>3
<1>16. IndexesMade(e, p, l)
  <2> SUFFICES ASSUME NEW i \in 1..l
               PROVE  e.tree[p.root + i] = {}
    BY DEF IndexesMade
  <2>1. p.root + i \in Page /\ p.root + i # q
    <3>1. i \in Nat /\ i <= l /\ p.root + l < MaxPages /\ MaxPages \in Nat
      BY <1>2, CatalogAssumption DEF Page
    <3> QED
      BY <1>2, <1>4, <3>1 DEF Page
  <2> QED
    BY <1>3, <1>11, <2>1 DEF IndexesMade
<1>17. \A i \in 1..Len(p.ents) : i < m + 1 - 4 /\ p.ents[i] = COLUMNS_TIDX => id \in e.tree[COLUMNS_TIDX]
  <2> SUFFICES ASSUME NEW i \in 1..Len(p.ents), i < m + 1 - 4, p.ents[i] = COLUMNS_TIDX
               PROVE  id \in e.tree[COLUMNS_TIDX]
    OBVIOUS
  <2>1. CASE i = m - 4
    BY <1>11, <2>1 DEF q
  <2>2. CASE i # m - 4
    <3>1. i < m - 4
      <4>1. Len(p.ents) \in Nat
        BY PlanTypes
      <4> QED
        BY <1>1, <2>2, <4>1
    <3> QED
      BY <1>3, <1>12, <3>1
  <2> QED
    BY <2>1, <2>2
<1>18. ColumnsMade(e, p, l, m + 1)
  <2>1. m + 1 > 4 /\ m + 1 # 1 /\ m + 1 # 2 /\ m + 1 > 2 /\ m + 1 > 3
    BY <1>1
  <2>2. e.nb_pages = p.root + l + 1 /\ e.tables[COLUMNS].next_id = p.first + l - 1 + 1
    BY <1>2, <1>3, <1>11
  <2> QED
    BY <1>14, <1>15, <1>16, <1>17, <2>1, <2>2 DEF ColumnsMade, id
<1> QED
  BY <1>10, <1>13, <1>18

\* After its last entry a column is made.
LEMMA ColumnDone ==
  ASSUME NEW d, NEW p, p \in Plans, NEW l, l \in 1..p.n,
         ColumnsMade(d, p, l, Width(p) + 1), p.ents # <<-1>>
  PROVE  ColumnsMade(d, p, l + 1, 1)
<1> DEFINE after == Width(p) + 1
<1>1. /\ Width(p) \in {4, 5, 6} /\ Width(p) = 4 + Len(p.ents) /\ Len(p.ents) \in {0, 1, 2}
      /\ p.first \in Nat /\ p.root \in Nat /\ l \in Nat /\ l >= 1
  <2>1. p.n \in Nat
    BY PlanTypes
  <2> QED
    BY <2>1, PlanTypes DEF Width
<1>2. after > 4 /\ after # 1 /\ after # 2 /\ after > 2 /\ after > 3 /\ after - 4 = Len(p.ents) + 1
  BY <1>1
<1>3. /\ TableMade(d, p) /\ Entered(d, p, l - 1) /\ RowsMade(d, p, l) /\ IndexesMade(d, p, l)
      /\ d.nb_pages = p.root + l + 1 /\ d.tables[COLUMNS].next_id = p.first + l - 1 + 1
      /\ \A i \in 1..Len(p.ents) : i < after - 4 /\ p.ents[i] = COLUMNS_TIDX =>
           p.first + l - 1 \in d.tree[COLUMNS_TIDX]
  BY <1>2 DEF ColumnsMade
<1> HIDE DEF after
<1>4. ASSUME p.ents # <<>>
      PROVE  p.first + l - 1 \in d.tree[COLUMNS_TIDX]
  <2>1. PICK i \in 1..Len(p.ents) : p.ents[i] = 3
    BY <1>4, PlanTypes
  <2>2. i < after - 4
    BY <1>1, <1>2
  <2> QED
    BY <1>3, <2>1, <2>2
<1>5. Entered(d, p, l)
  <2>1. CASE p.ents = <<>>
    BY <1>3, <2>1 DEF Entered
  <2>2. CASE p.ents # <<>>
    <3>1. \A i \in 1..l : i = l \/ i \in 1..(l - 1)
      BY <1>1
    <3> QED
      BY <1>3, <1>4, <2>2, <3>1 DEF Entered
  <2> QED
    BY <2>1, <2>2
<1>6. /\ (l + 1) - 1 = l /\ p.root + l + 1 = p.root + (l + 1) + 0
      /\ p.first + l - 1 + 1 = p.first + (l + 1) - 1 + 0
  <2>1. \A r, f, k \in Nat : (k + 1) - 1 = k /\ r + k + 1 = r + (k + 1) + 0 /\ f + k - 1 + 1 = f + (k + 1) - 1 + 0
    OBVIOUS
  <2> QED
    BY <1>1, <2>1
<1>7. \A i \in 1..Len(p.ents) : ~(i < 1 - 4)
  BY <1>1
<1>8. /\ Entered(d, p, (l + 1) - 1) /\ RowsMade(d, p, (l + 1) - 1) /\ IndexesMade(d, p, (l + 1) - 1)
      /\ TableMade(d, p) /\ d.nb_pages = p.root + (l + 1) + 0
      /\ d.tables[COLUMNS].next_id = p.first + (l + 1) - 1 + 0
  BY <1>3, <1>5, <1>6
<1>9. \A k : k = l + 1 => ColumnsMade(d, p, k, 1)
  BY ONLY <1>7, <1>8 DEF ColumnsMade
<1> QED
  BY <1>9

\* When all its columns are made, so is the table.
LEMMA AllColumnsMade ==
  ASSUME NEW d, Consistent(d), NEW p, p \in Plans, Ready(d, p), ColumnsMade(d, p, p.n + 1, 1)
  PROVE  WholeTable(d, p.id)
<1> DEFINE n == p.n
           f == p.first
           id == p.id
<1>1. n \in Nat /\ n >= 1 /\ f \in Nat /\ p.root \in Nat
  BY PlanTypes
<1>2. /\ id \in DOMAIN d.tables /\ d.tables[id].nb_cols = n /\ id \in d.tree[TABLES_NAMES]
  BY DEF ColumnsMade, TableMade, NewRow, TablesRow
<1>3. RowsMade(d, p, n) /\ IndexesMade(d, p, n) /\ Entered(d, p, n)
  <2>1. (n + 1) - 1 = n
    BY <1>1
  <2> QED
    BY <2>1 DEF ColumnsMade
<1>4. \A i \in 1..n : /\ f + i - 1 \in DOMAIN d.columns /\ d.columns[f + i - 1] = NewColumn(p, i)
                      /\ d.tree[p.root + i] = {}
  BY <1>3 DEF RowsMade, IndexesMade
<1>5. \A c \in DOMAIN d.columns : d.columns[c].table # id \/ \E i \in 1..n : c = f + i - 1
  BY <1>3 DEF RowsMade
<1>6. \A i \in 1..n : /\ NewColumn(p, i).table = id /\ NewColumn(p, i).offset = i - 1
                      /\ NewColumn(p, i).root = p.root + i
  BY DEF NewColumn, ColumnsRow
<1>7. IF p.ents = <<>> THEN \A c \in IdsIn(d, COLUMNS_TIDX) : c < f
                       ELSE \A i \in 1..n : f + i - 1 \in d.tree[COLUMNS_TIDX]
  BY <1>3 DEF Entered
<1> HIDE DEF n, f, id
<1>8. RowsFor(d, id) = {f + i - 1 : i \in 1..n}
  <2>1. \A c \in RowsFor(d, id) : c \in {f + i - 1 : i \in 1..n}
    BY <1>5 DEF RowsFor
  <2>2. \A i \in 1..n : f + i - 1 \in RowsFor(d, id)
    BY <1>4, <1>6 DEF RowsFor
  <2> QED
    BY <2>1, <2>2
<1>9. {d.columns[c].offset : c \in RowsFor(d, id)} = 0..(n - 1)
  <2>1. ASSUME NEW i \in 1..n
        PROVE  d.columns[f + i - 1].offset \in 0..(n - 1)
    <3>1. d.columns[f + i - 1].offset = i - 1
      BY <1>4, <1>6
    <3>2. i - 1 \in 0..(n - 1)
      BY <1>1
    <3> QED
      BY <3>1, <3>2
  <2>2. ASSUME NEW k \in 0..(n - 1)
        PROVE  \E c \in RowsFor(d, id) : d.columns[c].offset = k
    <3>1. k + 1 \in 1..n /\ (k + 1) - 1 = k
      BY <1>1
    <3>2. f + (k + 1) - 1 \in RowsFor(d, id)
      BY <1>8, <3>1
    <3>3. d.columns[f + (k + 1) - 1].offset = k
      BY <1>4, <1>6, <3>1
    <3> QED
      BY <3>2, <3>3
  <2> QED
    BY <1>8, <2>1, <2>2
<1>10. Cardinality(RowsFor(d, id)) = n
  <2>1. RowsFor(d, id) = f..(f + n - 1)
    <3>1. \A i \in 1..n : f + i - 1 \in f..(f + n - 1)
      BY <1>1
    <3>2. \A c \in f..(f + n - 1) : c - f + 1 \in 1..n /\ f + (c - f + 1) - 1 = c
      BY <1>1
    <3> QED
      BY <1>8, <3>1, <3>2
  <2>2. f \in Int /\ f + n - 1 \in Int /\ f <= f + n - 1 /\ (f + n - 1) - f + 1 = n
    BY <1>1
  <2> QED
    BY <2>1, <2>2, FS_Interval
<1>11. \A c \in RowsFor(d, id) : d.tree[d.columns[c].root] # Zeros
  <2>1. \A i \in 1..n : d.tree[d.columns[f + i - 1].root] # Zeros
    BY <1>4, <1>6 DEF Zeros
  <2> QED
    BY <1>8, <2>1
<1>12. ASSUME p.ents # <<>>
       PROVE  ColumnsIn(d, id) = RowsFor(d, id)
  <2>1. ASSUME NEW i \in 1..n
        PROVE  f + i - 1 \in ColumnsIn(d, id)
    <3>1. f + i - 1 # -1
      BY <1>1
    <3>2. f + i - 1 \in IdsIn(d, COLUMNS_TIDX)
      BY <1>7, <1>12, <3>1 DEF IdsIn, Zeros
    <3>3. d.columns[f + i - 1].table = id
      BY <1>4, <1>6
    <3> QED
      BY <3>2, <3>3 DEF ColumnsIn
  <2> QED
    BY <1>8, <2>1, ColumnsThere
<1>13. ASSUME p.ents = <<>>
       PROVE  ColumnsIn(d, id) = {} /\ d.tree[COLUMNS_NAMES] = Zeros
  <2>1. \A i \in 1..n : ~(f + i - 1 < f)
    BY <1>1
  <2>2. \A c \in ColumnsIn(d, id) : c < f /\ c \in RowsFor(d, id)
    BY <1>7, <1>13, ColumnsThere DEF ColumnsIn
  <2>3. ColumnsIn(d, id) = {}
    BY <1>8, <2>1, <2>2
  <2> QED
    BY <1>13, <2>3 DEF Ready
<1> QED
  BY <1>2, <1>9, <1>10, <1>11, <1>12, <1>13 DEF WholeTable, id

LEMMA RootStep ==
  ASSUME NEW d, Consistent(d), NEW p, p \in Plans, Ready(d, p), ColumnsMade(d, p, p.n + 1, 1),
         NEW e, e = Stored(d, write_node(p.root, {}))
  PROVE  Consistent(e) /\ \A n \in Nat : Lost(d, n) => Lost(e, n)
<1>1. WholeTable(d, p.id)
  BY AllColumnsMade
<1>2. /\ p.id \in DOMAIN d.tables /\ d.tables[p.id].root = p.root /\ d.tree[p.root] = Zeros
  BY DEF ColumnsMade, TableMade, NewRow, TablesRow
<1>3. p.root \in Page /\ p.root \notin Fixed /\ Searchable(d)
  <2>1. p.root > 4 /\ Searchable(d)
    BY DEF Ready
  <2> QED
    BY <2>1, PlanTypes DEF Fixed
<1>4. p.root < d.nb_pages /\ \A t \in DOMAIN d.tables : d.tables[t].root = p.root => t = p.id
  BY <1>2 DEF Consistent, TableRoots
<1> QED
  BY <1>1, <1>2, <1>3, <1>4, NodeConsistent

\* Any store of a column
LEMMA ColumnStep ==
  ASSUME NEW d, Consistent(d), NEW p, p \in Plans, Ready(d, p), NEW l, l \in 1..p.n,
         NEW m, m \in 1..Width(p), ColumnsMade(d, p, l, m), Cell(p, l, m) # Crashes,
         NEW e, e = Stored(d, Cell(p, l, m))
  PROVE  /\ Consistent(e) /\ \A n \in Nat : Lost(d, n) => Lost(e, n)
         /\ ColumnsMade(e, p, l, m + 1) /\ Ready(e, p)
         /\ m = Width(p) => ColumnsMade(e, p, l + 1, 1)
<1>1. /\ m \in Nat /\ Width(p) >= 4 /\ Width(p) \in Nat /\ Width(p) - 4 = Len(p.ents)
      /\ Len(p.ents) \in Nat
  BY PlanTypes DEF Width
<1>8. Len(<<-1>>) = 1 /\ <<-1>>[Len(<<-1>>)] = -1
  OBVIOUS
<1>2. CASE m = 1
  <2>1. Cell(p, l, m) = create_addr /\ m # Width(p) /\ m + 1 = 2
    BY <1>1, <1>2 DEF Cell
  <2> QED
    BY <1>2, <2>1, ColumnPageStep
<1>3. CASE m = 2
  <2>1. Cell(p, l, m) = write_node(p.root + l, {}) /\ m # Width(p) /\ m + 1 = 3
    BY <1>1, <1>3 DEF Cell
  <2> QED
    BY <1>3, <2>1, ColumnIndexStep
<1>4. CASE m = 3
  <2>1. Cell(p, l, m) = get_next_id(COLUMNS) /\ m # Width(p) /\ m + 1 = 4
    BY <1>1, <1>4 DEF Cell
  <2> QED
    BY <1>4, <2>1, ColumnIdStep
<1>5. CASE m = 4
  <2>1. Cell(p, l, m) = insert(COLUMNS, p.first + l - 1, NewColumn(p, l)) /\ m + 1 = 5
    BY <1>1, <1>5 DEF Cell
  <2>2. /\ Consistent(e) /\ \A n \in Nat : Lost(d, n) => Lost(e, n)
        /\ ColumnsMade(e, p, l, m + 1) /\ Ready(e, p)
    BY <1>5, <2>1, ColumnRowStep
  <2>3. ASSUME m = Width(p)
        PROVE  ColumnsMade(e, p, l + 1, 1)
    <3>1. Len(p.ents) = 0
      BY <1>1, <1>5, <2>3
    <3>2. p.ents # <<-1>>
      BY <3>1, PlanTypes
    <3> QED
      BY <2>2, <2>3, <3>2, ColumnDone
  <2> QED
    BY <2>2, <2>3
<1>6. CASE m > 4
  <2>1. m \in 5..Width(p)
    BY <1>1, <1>6
  <2>2. Cell(p, l, m) = IF p.ents[m - 4] = -1 THEN Crashes ELSE insert_bt(p.ents[m - 4], p.first + l - 1)
    BY <1>6, <2>1 DEF Cell
  <2>3. p.ents[m - 4] # -1 /\ e = Stored(d, insert_bt(p.ents[m - 4], p.first + l - 1))
    BY <2>2
  <2>4. /\ Consistent(e) /\ \A n \in Nat : Lost(d, n) => Lost(e, n)
        /\ ColumnsMade(e, p, l, m + 1) /\ Ready(e, p)
    BY <2>1, <2>3, ColumnEntryStep
  <2>5. ASSUME m = Width(p)
        PROVE  ColumnsMade(e, p, l + 1, 1)
    <3>1. ColumnsMade(e, p, l, Width(p) + 1) /\ p.ents[Len(p.ents)] # -1
      BY <1>1, <2>3, <2>4, <2>5
    <3>2. p.ents # <<-1>>
      BY <1>8, <3>1
    <3> QED
      BY <3>1, <3>2, ColumnDone
  <2> QED
    BY <2>4, <2>5
<1>7. m = 1 \/ m = 2 \/ m = 3 \/ m = 4 \/ m > 4
  BY <1>1
<1> QED
  BY <1>2, <1>3, <1>4, <1>5, <1>6, <1>7

\* The three ways of Creating
AtHead(d, w, p, m) == Left(w, p, m) /\ HeadMade(d, p, m) /\ d.tables[COLUMNS].next_id = p.first
AtColumn(d, w, p, l, m) == Left(w, p, At(p, l, m)) /\ ColumnsMade(d, p, l, m)
AtRoot(d, w, p) == Left(w, p, Final(p)) /\ ColumnsMade(d, p, p.n + 1, 1)
CreatingAs(d, w, p) == /\ Ready(d, p)
                       /\ \/ \E m \in 1..4 : AtHead(d, w, p, m)
                          \/ \E l \in 1..p.n, m \in 1..Width(p) : AtColumn(d, w, p, l, m)
                          \/ AtRoot(d, w, p)

LEMMA HeadCreating ==
  ASSUME NEW d, Consistent(d), NEW p, p \in Plans, Ready(d, p), NEW w, NEW m, m \in 1..4,
         AtHead(d, w, p, m), NEW e, e = Stored(d, w[1])
  PROVE  /\ Consistent(e) /\ \A n \in Nat : Lost(d, n) => Lost(e, n)
         /\ CreatingAs(e, Tail(w), p)
<1>1. Left(w, p, m) /\ HeadMade(d, p, m) /\ d.tables[COLUMNS].next_id = p.first
  BY DEF AtHead
<1>2. w[1] = HeadCell(p, m)
  BY <1>1, LeftHead
<1>3. Left(Tail(w), p, m + 1) /\ At(p, 1, 1) = 5
  <2>1. m < Final(p) /\ At(p, 1, 1) = 5
    BY Places
  <2> QED
    BY <1>1, <2>1, LeftRest
<1>4. CASE m \in 1..3
  <2>1. /\ Consistent(e) /\ \A n \in Nat : Lost(d, n) => Lost(e, n)
        /\ HeadMade(e, p, m + 1)
        /\ \A q \in Page : q # TABLES => e.tree[q] = d.tree[q]
        /\ COLUMNS \in DOMAIN d.tables => /\ COLUMNS \in DOMAIN e.tables
                                          /\ e.tables[COLUMNS].next_id = d.tables[COLUMNS].next_id
    BY <1>1, <1>2, <1>4, HeadStep
  <2>2. 3 \in Page /\ 4 \in Page
    BY FixedPages DEF Fixed
  <2>3. e.tree[3] = d.tree[3] /\ e.tree[4] = d.tree[4]
    BY <2>1, <2>2
  <2>4. Ready(e, p) /\ COLUMNS \in DOMAIN d.tables
    BY <2>1, <2>3 DEF Ready, Searchable, IdsIn
  <2>5. AtHead(e, Tail(w), p, m + 1) /\ m + 1 \in 1..4
    BY <1>1, <1>3, <1>4, <2>1, <2>4 DEF AtHead
  <2> QED
    BY <2>1, <2>4, <2>5 DEF CreatingAs
<1>5. CASE m = 4
  <2>1. e = Stored(d, HeadCell(p, 4)) /\ HeadMade(d, p, 4)
    BY <1>1, <1>2, <1>5
  <2>2. /\ Consistent(e) /\ \A n \in Nat : Lost(d, n) => Lost(e, n)
        /\ ColumnsMade(e, p, 1, 1) /\ Ready(e, p)
    BY <1>1, <2>1, NameStep
  <2>3. Left(Tail(w), p, At(p, 1, 1))
    BY <1>3, <1>5
  <2>4. AtColumn(e, Tail(w), p, 1, 1) /\ 1 \in 1..p.n /\ 1 \in 1..Width(p)
    BY <2>2, <2>3, PlanTypes DEF AtColumn
  <2> QED
    BY <2>2, <2>4 DEF CreatingAs
<1> QED
  BY <1>4, <1>5

LEMMA ColumnCreating ==
  ASSUME NEW d, Consistent(d), NEW p, p \in Plans, Ready(d, p), NEW w,
         \E l \in 1..p.n, m \in 1..Width(p) : AtColumn(d, w, p, l, m),
         w[1] # Crashes, NEW e, e = Stored(d, w[1])
  PROVE  /\ Consistent(e) /\ \A n \in Nat : Lost(d, n) => Lost(e, n)
         /\ CreatingAs(e, Tail(w), p)
<1>0. PICK l \in 1..p.n, m \in 1..Width(p) : AtColumn(d, w, p, l, m)
  OBVIOUS
<1>1. Left(w, p, At(p, l, m)) /\ ColumnsMade(d, p, l, m)
  BY <1>0 DEF AtColumn
<1>2. w[1] = Cell(p, l, m)
  BY <1>1, LeftHead
<1>3. /\ At(p, l, m) < Final(p) /\ At(p, l, m) + 1 = At(p, l, m + 1)
      /\ At(p, l, Width(p)) + 1 = At(p, l + 1, 1) /\ At(p, p.n + 1, 1) = Final(p)
  <2>1. At(p, l, m) \in 5..(Final(p) - 1) /\ Final(p) \in Nat
    BY Places
  <2> QED
    BY <2>1, Places
<1>4. Left(Tail(w), p, At(p, l, m + 1))
  BY <1>1, <1>3, LeftRest
<1>5. /\ Consistent(e) /\ \A n \in Nat : Lost(d, n) => Lost(e, n)
      /\ ColumnsMade(e, p, l, m + 1) /\ Ready(e, p)
      /\ m = Width(p) => ColumnsMade(e, p, l + 1, 1)
  BY <1>1, <1>2, ColumnStep
<1>6. p.n \in Nat /\ Width(p) \in Nat /\ p.n >= 1 /\ Width(p) >= 1
  BY PlanTypes
<1>7. CASE m # Width(p)
  <2>1. m + 1 \in 1..Width(p) /\ AtColumn(e, Tail(w), p, l, m + 1)
    BY <1>4, <1>5, <1>6, <1>7 DEF AtColumn
  <2> QED
    BY <1>5, <2>1 DEF CreatingAs
<1>8. CASE m = Width(p) /\ l # p.n
  <2>1. l + 1 \in 1..p.n /\ 1 \in 1..Width(p)
    BY <1>6, <1>8
  <2>2. AtColumn(e, Tail(w), p, l + 1, 1)
    BY <1>3, <1>4, <1>5, <1>8 DEF AtColumn
  <2> QED
    BY <1>5, <2>1, <2>2 DEF CreatingAs
<1>9. CASE m = Width(p) /\ l = p.n
  <2>1. AtRoot(e, Tail(w), p)
    BY <1>3, <1>4, <1>5, <1>9 DEF AtRoot
  <2> QED
    BY <1>5, <2>1 DEF CreatingAs
<1> QED
  BY <1>7, <1>8, <1>9

\* A store of create_table, while it finds what it looks for
LEMMA CreatingStep ==
  ASSUME NEW d, Consistent(d), NEW n \in Nat, NEW w, Creating(d, w, n), w[1] # Crashes,
         NEW e, e = Stored(d, w[1])
  PROVE  /\ Consistent(e) /\ Lost(e, n)
         /\ Tail(w) = <<>> \/ Creating(e, Tail(w), n)
<1>1. Lost(d, n) /\ \E p \in Plans : CreatingAs(d, w, p)
  BY DEF Creating, CreatingAs, AtHead, AtColumn, AtRoot
<1>2. PICK p \in Plans : CreatingAs(d, w, p)
  BY <1>1
<1>3. ASSUME Consistent(e), \A k \in Nat : Lost(d, k) => Lost(e, k), CreatingAs(e, Tail(w), p)
      PROVE  Consistent(e) /\ Lost(e, n) /\ Creating(e, Tail(w), n)
  BY <1>1, <1>3 DEF Creating, CreatingAs, AtHead, AtColumn, AtRoot
<1>4. CASE \E m \in 1..4 : AtHead(d, w, p, m)
  <2>1. PICK m \in 1..4 : AtHead(d, w, p, m)
    BY <1>4
  <2>2. Ready(d, p)
    BY <1>2 DEF CreatingAs
  <2>3. Consistent(e) /\ (\A k \in Nat : Lost(d, k) => Lost(e, k)) /\ CreatingAs(e, Tail(w), p)
    BY <2>1, <2>2, HeadCreating
  <2> QED
    BY <1>3, <2>3
<1>5. CASE \E l \in 1..p.n, m \in 1..Width(p) : AtColumn(d, w, p, l, m)
  <2>1. Ready(d, p)
    BY <1>2 DEF CreatingAs
  <2>2. Consistent(e) /\ (\A k \in Nat : Lost(d, k) => Lost(e, k)) /\ CreatingAs(e, Tail(w), p)
    BY <1>5, <2>1, ColumnCreating
  <2> QED
    BY <1>3, <2>2
<1>6. CASE AtRoot(d, w, p)
  <2>1. Left(w, p, Final(p)) /\ ColumnsMade(d, p, p.n + 1, 1) /\ Ready(d, p)
    BY <1>2, <1>6 DEF AtRoot, CreatingAs
  <2>2. w[1] = write_node(p.root, {}) /\ Tail(w) = <<>>
    BY <2>1, LeftHead, LeftRest
  <2>3. Consistent(e) /\ \A k \in Nat : Lost(d, k) => Lost(e, k)
    BY <2>1, <2>2, RootStep
  <2> QED
    BY <1>1, <2>2, <2>3
<1> QED
  BY <1>2, <1>4, <1>5, <1>6 DEF CreatingAs

LEMMA DoomedStep ==
  ASSUME NEW d, Consistent(d), NEW n \in Nat, NEW w, w \in Seq(Stores), w # <<>>,
         Doomed(d, w, n), w[1] # Crashes, NEW e, e = Stored(d, w[1])
  PROVE  Consistent(e) /\ Doomed(e, Tail(w), n)
<1> DEFINE v == Tail(w)
<1>1. /\ Len(w) \in Nat /\ Len(w) >= 1 /\ v \in Seq(Stores) /\ Len(v) = Len(w) - 1
      /\ \A i \in 1..(Len(w) - 1) : v[i] = w[i + 1]
  BY RestOfStores
<1> HIDE DEF v
<1>2. Len(w) > 1 /\ w[2] = Crashes => v # <<>> /\ v[1] = Crashes
  <2>1. Len(w) > 1 => 1 \in 1..(Len(w) - 1) /\ Len(v) > 0 /\ 1 + 1 = 2
    BY <1>1
  <2> QED
    BY <1>1, <2>1
<1>3. CASE Len(w) > 1 /\ w[1] = create_addr /\ w[2] = Crashes /\ d.nb_pages < MaxPages
  <2>1. Consistent(e) /\ Lost(e, n)
    BY <1>3, HeaderConsistent DEF Doomed
  <2> QED
    BY <1>2, <1>3, <2>1 DEF Doomed, v
<1>4. ASSUME NEW p \in Plans, NEW m \in 1..3, HeadMade(d, p, m), Len(w) > 4 - m,
             w[4 - m + 1] = Crashes, \A k \in m..3 : w[k - m + 1] = HeadCell(p, k)
      PROVE  Consistent(e) /\ Doomed(e, v, n)
  <2>1. w[1] = HeadCell(p, m)
    <3>1. m \in m..3 /\ m - m + 1 = 1
      OBVIOUS
    <3> QED
      BY <1>4, <3>1
  <2>2. Consistent(e) /\ Lost(e, n) /\ HeadMade(e, p, m + 1)
    <3>1. Consistent(e) /\ (\A k \in Nat : Lost(d, k) => Lost(e, k)) /\ HeadMade(e, p, m + 1)
      BY <1>4, <2>1, HeadStep
    <3> QED
      BY <3>1 DEF Doomed
  <2>3. CASE m = 3
    <3>1. Len(w) > 1 /\ w[2] = Crashes
      BY <1>4, <2>3
    <3> QED
      BY <1>2, <2>2, <3>1 DEF Doomed
  <2>4. CASE m # 3
    <3>1. m + 1 \in 1..3 /\ Len(v) > 4 - (m + 1)
      BY <1>1, <1>4, <2>4
    <3>2. v[4 - (m + 1) + 1] = Crashes
      <4>1. 4 - m \in 1..(Len(w) - 1) /\ 4 - (m + 1) + 1 = 4 - m
        BY <1>1, <1>4
      <4> QED
        BY <1>1, <1>4, <4>1
    <3>3. ASSUME NEW k \in (m + 1)..3
          PROVE  v[k - (m + 1) + 1] = HeadCell(p, k)
      <4>1. k \in m..3 /\ k - m \in 1..(Len(w) - 1) /\ k - (m + 1) + 1 = k - m
        BY <1>1, <1>4
      <4> QED
        BY <1>1, <1>4, <4>1
    <3> QED
      BY <2>2, <3>1, <3>2, <3>3 DEF Doomed
  <2> QED
    BY <2>3, <2>4
<1>5. \/ Len(w) > 1 /\ w[1] = create_addr /\ w[2] = Crashes /\ d.nb_pages < MaxPages
      \/ \E p \in Plans, m \in 1..3 :
           /\ HeadMade(d, p, m) /\ Len(w) > 4 - m /\ w[4 - m + 1] = Crashes
           /\ \A k \in m..3 : w[k - m + 1] = HeadCell(p, k)
  BY DEF Doomed
<1> QED
  BY <1>3, <1>4, <1>5 DEF v

-----------------------------------------------------------------------------
\* The operations that begin on a consistent database
Operating(d, w, n) == \/ w = <<>> /\ Lost(d, n)
                      \/ RootMissing(d, w, n)
                      \/ \E t, k, s : Inserting(d, w, n, t, k, s)
                      \/ Doomed(d, w, n)
                      \/ Creating(d, w, n)

LEMMA OperatingLost ==
  ASSUME NEW d, NEW w, w \in Seq(Stores), NEW n \in Nat, Operating(d, w, n)
  PROVE  Lost(d, n + 1) /\ (w = <<>> => Lost(d, n))
<1>1. CASE \E t, k, s : Inserting(d, w, n, t, k, s)
  BY <1>1, InsertingLost
<1>2. CASE Lost(d, n)
  BY <1>2, LostMore
<1> QED
  BY <1>1, <1>2 DEF Operating, RootMissing, Doomed, Creating

LEMMA OperatingStep ==
  ASSUME NEW d, Consistent(d), NEW n \in Nat, NEW w, w \in Seq(Stores), w # <<>>,
         Operating(d, w, n), w[1] # Crashes, NEW e, e = Stored(d, w[1])
  PROVE  Consistent(e) /\ Operating(e, Tail(w), n)
<1>1. CASE RootMissing(d, w, n)
  <2>1. PICK t \in DOMAIN d.tables \ {TABLES, COLUMNS} : w = <<get_next_id(t)>>
    BY <1>1 DEF RootMissing
  <2>2. w[1] = get_next_id(t) /\ Tail(w) = <<>>
    BY <2>1
  <2>3. Consistent(e) /\ Lost(e, n)
    BY <1>1, <2>2, NextIdConsistent DEF RootMissing
  <2> QED
    BY <2>2, <2>3 DEF Operating
<1>2. CASE \E t, k, s : Inserting(d, w, n, t, k, s)
  BY <1>2, InsertingStep DEF Operating
<1>3. CASE Doomed(d, w, n)
  BY <1>3, DoomedStep DEF Operating
<1>4. CASE Creating(d, w, n)
  BY <1>4, CreatingStep DEF Operating
<1> QED
  BY <1>1, <1>2, <1>3, <1>4 DEF Operating

-----------------------------------------------------------------------------
\* How create_table begins.  The indexes it will reach, and -1 where there are none
EntsOf(q) == IF q = <<>> THEN <<-1>> ELSE [i \in Reached(q) |-> q[i]]

\* Those are the first ones.
LEMMA ReachedFirst ==
  ASSUME NEW q, q \in Seq(Page), Len(q) \in {0, 1, 2}
  PROVE  \E k \in 0..Len(q) : Reached(q) = 1..k
<1> DEFINE zeros(i) == db.tree[q[i]] = Zeros
<1>1. Reached(q) = {i \in 1..Len(q) : \A j \in 1..i : ~zeros(j)}
  BY DEF Reached
<1> HIDE DEF zeros
<1>2. CASE Len(q) = 0
  <2>1. Reached(q) = 1..0
    BY <1>1, <1>2
  <2> QED
    BY <1>2, <2>1
<1>3. CASE Len(q) = 1
  <2>1. CASE zeros(1)
    <3>1. Reached(q) = 1..0
      BY <1>1, <1>3, <2>1
    <3> QED
      BY <1>3, <3>1
  <2>2. CASE ~zeros(1)
    <3>1. Reached(q) = 1..1
      BY <1>1, <1>3, <2>2
    <3> QED
      BY <1>3, <3>1
  <2> QED
    BY <2>1, <2>2
<1>4. CASE Len(q) = 2
  <2>1. CASE zeros(1)
    <3>1. Reached(q) = 1..0
      BY <1>1, <1>4, <2>1
    <3> QED
      BY <1>4, <3>1
  <2>2. CASE ~zeros(1) /\ zeros(2)
    <3>1. Reached(q) = 1..1
      BY <1>1, <1>4, <2>2
    <3> QED
      BY <1>4, <3>1
  <2>3. CASE ~zeros(1) /\ ~zeros(2)
    <3>1. Reached(q) = 1..2
      BY <1>1, <1>4, <2>3
    <3> QED
      BY <1>4, <3>1
  <2> QED
    BY <2>1, <2>2, <2>3
<1> QED
  BY <1>2, <1>3, <1>4

\* The stores of the entries of a row
LEMMA EntriesStores ==
  ASSUME NEW id, id \in Int, NEW q, q \in Seq(Page), Len(q) \in {0, 1, 2}
  PROVE  /\ IntoIndexes(id, q) \in Seq(Stores) /\ Len(IntoIndexes(id, q)) = Len(EntsOf(q))
         /\ Len(EntsOf(q)) \in Nat
         /\ \A i \in 1..Len(EntsOf(q)) :
              IntoIndexes(id, q)[i] = IF EntsOf(q)[i] = -1 THEN Crashes ELSE insert_bt(EntsOf(q)[i], id)
<1>1. CASE q = <<>>
  <2>1. IntoIndexes(id, q) = <<Crashes>> /\ EntsOf(q) = <<-1>>
    BY <1>1 DEF IntoIndexes, EntsOf
  <2>2. <<Crashes>> \in Seq(Stores)
    BY StoreTypes
  <2> QED
    BY <2>1, <2>2
<1>2. CASE q # <<>>
  <2>1. PICK k \in 0..Len(q) : Reached(q) = 1..k
    BY ReachedFirst
  <2>2. /\ IntoIndexes(id, q) = [i \in 1..k |-> insert_bt(q[i], id)]
        /\ EntsOf(q) = [i \in 1..k |-> q[i]]
    BY <1>2, <2>1 DEF IntoIndexes, EntsOf
  <2>3. k \in Nat /\ \A i \in 1..k : q[i] \in Page /\ q[i] # -1
    BY <2>1, FixedPages
  <2>4. \A i \in 1..k : insert_bt(q[i], id) \in Stores
    BY <2>3, StoreTypes
  <2>5. IntoIndexes(id, q) \in Seq(Stores) /\ Len(IntoIndexes(id, q)) = k /\ Len(EntsOf(q)) = k
    BY <2>2, <2>3, <2>4
  <2>6. ASSUME NEW i \in 1..k
        PROVE  IntoIndexes(id, q)[i] = IF EntsOf(q)[i] = -1 THEN Crashes ELSE insert_bt(EntsOf(q)[i], id)
    <3>1. IntoIndexes(id, q)[i] = insert_bt(q[i], id) /\ EntsOf(q)[i] = q[i]
      BY <2>2
    <3> QED
      BY <2>3, <3>1
  <2> QED
    BY <2>3, <2>5, <2>6
<1> QED
  BY <1>1, <1>2

\* The stores of a column, whatever create_table has found
IsColumn(w, id, l, ents) ==
  LET first == db.tables[COLUMNS].next_id IN
  /\ Len(w) = 4 + Len(ents)
  /\ w[1] = create_addr
  /\ w[2] = write_node(db.nb_pages + l, {})
  /\ w[3] = get_next_id(COLUMNS)
  /\ w[4] = insert(db.tables[COLUMNS].root, first + l - 1, ColumnsRow(id, l - 1, db.nb_pages + l))
  /\ \A m \in 5..(4 + Len(ents)) :
       w[m] = IF ents[m - 4] = -1 THEN Crashes ELSE insert_bt(ents[m - 4], first + l - 1)

LEMMA ColumnStores ==
  ASSUME Consistent(db), NEW n, n \in Nat, db.nb_pages + 1 + n <= MaxPages,
         NEW id, id \in Int, NEW l, l \in 1..n, NEW q, q \in Seq(Page), Len(q) \in {0, 1, 2}
  PROVE  /\ Column(id, l, q) \in Seq(Stores)
         /\ COLUMNS \in DOMAIN db.tables => IsColumn(Column(id, l, q), id, l, EntsOf(q))
<1> DEFINE k == NewId(COLUMNS) + l - 1
           row == ColumnsRow(id, l - 1, ColumnPage(l))
           a == ColumnIndex(l)
           b == insert_row(COLUMNS, k, row)
           c == IntoIndexes(k, q)
<1>1. Column(id, l, q) = a \o (b \o c)
  BY DEF Column, WithEntries
<1>2. /\ db.nb_pages \in Nat /\ l \in Nat /\ l >= 1 /\ ColumnPage(l) = db.nb_pages + l
      /\ ColumnPage(l) \in Page
  <2>1. db.nb_pages \in Nat
    BY RowTypes
  <2>2. MaxPages \in Nat /\ l \in Nat /\ l >= 1 /\ l <= n
    BY CatalogAssumption
  <2> QED
    BY <2>1, <2>2 DEF ColumnPage, Page
<1>3. COLUMNS \in DOMAIN db.tables => /\ db.tables[COLUMNS].next_id \in Nat
                                      /\ db.tables[COLUMNS].root \in Page
                                      /\ NewId(COLUMNS) = db.tables[COLUMNS].next_id
  BY RowTypes DEF TableRows, NewId
<1>4. k \in Int /\ row \in ColumnRows
  <2>1. NewId(COLUMNS) \in Int
    BY <1>3 DEF NewId
  <2> QED
    BY <1>2, <2>1 DEF ColumnsRow, ColumnRows
<1> HIDE DEF k, row
<1>5. a \in Seq(Stores) /\ Len(a) = 2 /\ a[1] = create_addr /\ a[2] = write_node(db.nb_pages + l, {})
  <2>1. a = <<create_addr, write_node(db.nb_pages + l, {})>>
    BY <1>2 DEF ColumnIndex
  <2>2. create_addr \in Stores /\ write_node(db.nb_pages + l, {}) \in Stores
    BY <1>2, StoreTypes
  <2> QED
    BY <2>1, <2>2
<1>6. b \in Seq(Stores)
  <2>1. CASE COLUMNS \in DOMAIN db.tables
    <3>1. b = <<get_next_id(COLUMNS), insert(db.tables[COLUMNS].root, k, row)>>
      BY <2>1 DEF insert_row
    <3>2. get_next_id(COLUMNS) \in Stores /\ insert(db.tables[COLUMNS].root, k, row) \in Stores
      BY <1>3, <1>4, <2>1, StoreTypes
    <3>3. \A x, y \in Stores : <<x, y>> \in Seq(Stores)
      OBVIOUS
    <3>4. <<get_next_id(COLUMNS), insert(db.tables[COLUMNS].root, k, row)>> \in Seq(Stores)
      BY ONLY <3>2, <3>3
    <3> QED
      BY ONLY <3>1, <3>4
  <2>2. CASE COLUMNS \notin DOMAIN db.tables
    <3>1. b = <<>>
      BY <2>2 DEF insert_row
    <3>2. <<>> \in Seq(Stores)
      OBVIOUS
    <3> QED
      BY ONLY <3>1, <3>2
  <2> QED
    BY <2>1, <2>2
<1>7. /\ c \in Seq(Stores) /\ Len(c) = Len(EntsOf(q)) /\ Len(EntsOf(q)) \in Nat
      /\ \A i \in 1..Len(EntsOf(q)) :
           c[i] = IF EntsOf(q)[i] = -1 THEN Crashes ELSE insert_bt(EntsOf(q)[i], k)
  BY <1>4, EntriesStores
<1> HIDE DEF a, c
<1>8. Column(id, l, q) \in Seq(Stores)
  <2> HIDE DEF b
  <2> QED
    BY <1>1, <1>5, <1>6, <1>7
<1>9. ASSUME COLUMNS \in DOMAIN db.tables
      PROVE  /\ Len(Column(id, l, q)) = 4 + Len(EntsOf(q))
             /\ Column(id, l, q)[1] = a[1] /\ Column(id, l, q)[2] = a[2]
             /\ Column(id, l, q)[3] = get_next_id(COLUMNS)
             /\ Column(id, l, q)[4] = insert(db.tables[COLUMNS].root, k, row)
             /\ \A m \in 5..(4 + Len(EntsOf(q))) : Column(id, l, q)[m] = c[m - 4]
  <2>1. b = <<get_next_id(COLUMNS), insert(db.tables[COLUMNS].root, k, row)>>
    BY <1>9 DEF insert_row
  <2>2. /\ Len(b) = 2 /\ b[1] = get_next_id(COLUMNS)
        /\ b[2] = insert(db.tables[COLUMNS].root, k, row)
    BY <2>1
  <2> DEFINE h == Len(EntsOf(q))
             bc == b \o c
             abc == a \o bc
  <2>3. ListOf(Stores, a, 2) /\ ListOf(Stores, b, 2) /\ ListOf(Stores, c, h) /\ h \in Nat
    BY <1>5, <1>6, <1>7, <2>2 DEF ListOf
  <2> HIDE DEF b, h
  <2>4. Followed(Stores, b, c, 2, h)
    BY ONLY <2>3, ConcatEntries
  <2>5. /\ ListOf(Stores, bc, 2 + h) /\ bc[1] = b[1] /\ bc[2] = b[2]
        /\ \A i \in 3..(2 + h) : bc[i] = c[i - 2]
    BY ONLY <2>3, <2>4 DEF Followed, ListOf
  <2> HIDE DEF bc
  <2>6. Followed(Stores, a, bc, 2, 2 + h)
    BY ONLY <2>3, <2>5, ConcatEntries
  <2>7. /\ Len(abc) = 4 + h /\ abc[1] = a[1] /\ abc[2] = a[2]
        /\ \A i \in 3..(4 + h) : abc[i] = bc[i - 2]
    BY ONLY SMTT(30), <2>3, <2>6 DEF Followed
  <2>8. abc = Column(id, l, q)
    BY <1>1 DEF bc
  <2> HIDE DEF abc
  <2>9. abc[3] = b[1] /\ abc[4] = b[2]
    <3>1. 3 \in 3..(4 + h) /\ 4 \in 3..(4 + h) /\ 3 - 2 = 1 /\ 4 - 2 = 2
      BY <2>3
    <3> QED
      BY <2>5, <2>7, <3>1
  <2>10. \A m \in 5..(4 + h) : abc[m] = c[m - 4]
    <3> TAKE m \in 5..(4 + h)
    <3>1. m \in 3..(4 + h) /\ m - 2 \in 3..(2 + h) /\ (m - 2) - 2 = m - 4
      BY <2>3
    <3> QED
      BY <2>5, <2>7, <3>1
  <2> QED
    BY <2>2, <2>7, <2>8, <2>9, <2>10 DEF h
<1>10. ASSUME COLUMNS \in DOMAIN db.tables
       PROVE  /\ k = db.tables[COLUMNS].next_id + l - 1
              /\ row = ColumnsRow(id, l - 1, db.nb_pages + l)
  BY <1>2, <1>3, <1>10 DEF k, row
<1>11. ASSUME COLUMNS \in DOMAIN db.tables, NEW m \in 5..(4 + Len(EntsOf(q)))
       PROVE  Column(id, l, q)[m] = IF EntsOf(q)[m - 4] = -1 THEN Crashes
                                    ELSE insert_bt(EntsOf(q)[m - 4], db.tables[COLUMNS].next_id + l - 1)
  <2>1. m - 4 \in 1..Len(EntsOf(q))
    BY <1>7
  <2> QED
    BY <1>7, <1>9, <1>10, <1>11, <2>1
<1>12. COLUMNS \in DOMAIN db.tables => IsColumn(Column(id, l, q), id, l, EntsOf(q))
  BY <1>5, <1>9, <1>10, <1>11 DEF IsColumn
<1> QED
  BY <1>8, <1>12

\* What find_all finds in the catalog: the index of TABLES, and of those of
\* COLUMNS none, the first or both.
LEMMA CatalogFound ==
  ASSUME NEW d, Consistent(d)
  PROVE  /\ ~Searchable(d) => IndexesIn(d, TABLES) = {} /\ IndexesIn(d, COLUMNS) = {}
         /\ Searchable(d) => /\ IndexesIn(d, TABLES) = {TABLES_NAMES} /\ d.tree[TABLES_NAMES] # Zeros
                             /\ IndexesIn(d, COLUMNS) \in {{}, {3}, {3, 4}} /\ d.tree[COLUMNS_TIDX] # Zeros
                             /\ COLUMNS \in DOMAIN d.tables /\ d.tables[COLUMNS].root = COLUMNS
                             /\ TABLES \in DOMAIN d.tables
                             /\ 2 \in IdsIn(d, COLUMNS)
<1>1. ASSUME ~Searchable(d)
      PROVE  IndexesIn(d, TABLES) = {} /\ IndexesIn(d, COLUMNS) = {}
  <2>1. IdsIn(d, COLUMNS_TIDX) = {}
    BY <1>1 DEF Consistent, Search
  <2> QED
    BY <2>1 DEF IndexesIn, ColumnsIn
<1>2. ASSUME Searchable(d)
      PROVE  /\ IndexesIn(d, TABLES) = {TABLES_NAMES} /\ d.tree[TABLES_NAMES] # Zeros
             /\ IndexesIn(d, COLUMNS) \in {{}, {3}, {3, 4}} /\ d.tree[COLUMNS_TIDX] # Zeros
             /\ COLUMNS \in DOMAIN d.tables /\ d.tables[COLUMNS].root = COLUMNS
             /\ TABLES \in DOMAIN d.tables
             /\ 2 \in IdsIn(d, COLUMNS)
  <2> DEFINE found == IdsIn(d, COLUMNS_TIDX)
  <2>1. /\ 0 \in found /\ {0, 1, 2} \subseteq DOMAIN d.columns /\ d.tree[TABLES_NAMES] # Zeros
        /\ 2 \in found => 1 \in found
        /\ found \subseteq DOMAIN d.columns
    BY <1>2 DEF Consistent, Search, Searchable, Entries
  <2>2. /\ \A c \in DOMAIN d.columns : c \in 0..2 => d.columns[c] = InitialColumn(c)
        /\ \A c \in DOMAIN d.columns : c \notin 0..2 => d.columns[c].table \notin {TABLES, COLUMNS}
        /\ COLUMNS \in DOMAIN d.tables /\ d.tables[COLUMNS].root = COLUMNS
    BY <2>1 DEF Consistent, ColumnRoots
  <2>3. TABLES \in DOMAIN d.tables
    BY <2>2 DEF Consistent, TableRoots
  <2>4. /\ InitialColumn(0).table = 0 /\ InitialColumn(0).root = 2
        /\ InitialColumn(1).table = 1 /\ InitialColumn(1).root = 3
        /\ InitialColumn(2).table = 1 /\ InitialColumn(2).root = 4
    BY DEF InitialColumn, ColumnsRow
  <2> HIDE DEF found
  <2>5. /\ d.columns[0].table = 0 /\ d.columns[0].root = 2
        /\ d.columns[1].table = 1 /\ d.columns[1].root = 3
        /\ d.columns[2].table = 1 /\ d.columns[2].root = 4
    BY <2>1, <2>2, <2>4
  <2>6. \A c \in found : c = 0 \/ c = 1 \/ c = 2 \/ d.columns[c].table \notin {TABLES, COLUMNS}
    <3>1. \A c \in 0..2 : c = 0 \/ c = 1 \/ c = 2
      OBVIOUS
    <3> QED
      BY <2>1, <2>2, <3>1
  <2>7. ColumnsIn(d, TABLES) = {0}
    BY <2>1, <2>5, <2>6 DEF ColumnsIn, found
  <2>8. IndexesIn(d, TABLES) = {2}
    BY <2>5, <2>7 DEF IndexesIn
  <2>9. ColumnsIn(d, COLUMNS) = {c \in {1, 2} : c \in found}
    BY <2>5, <2>6 DEF ColumnsIn, found
  <2>10. ColumnsIn(d, COLUMNS) = {} \/ ColumnsIn(d, COLUMNS) = {1} \/ ColumnsIn(d, COLUMNS) = {1, 2}
    BY <2>1, <2>9
  <2>11. IndexesIn(d, COLUMNS) \in {{}, {3}, {3, 4}}
    BY <2>5, <2>10 DEF IndexesIn
  <2>12. d.tree[COLUMNS_TIDX] # Zeros
    BY <2>1 DEF found, IdsIn
  <2>13. 2 \in IdsIn(d, COLUMNS)
    BY <2>1, RowTypes
  <2> QED
    BY <2>1, <2>2, <2>3, <2>8, <2>11, <2>12, <2>13
<1> QED
  BY <1>1, <1>2

\* The indexes of COLUMNS in some order
LEMMA ColumnsOrdered ==
  ASSUME Consistent(db), NEW q, q \in SetToSeqs(IndexesIn(db, COLUMNS))
  PROVE  q \in Seq(Page) /\ q \in {<<>>, <<3>>, <<3, 4>>, <<4, 3>>}
<1> DEFINE S == IndexesIn(db, COLUMNS)
<1>1. S \in {{}, {3}, {3, 4}} /\ IsFiniteSet(S)
  BY CatalogFound, IndexesFinite
<1>2. /\ q \in Seq(S) /\ Len(q) = Cardinality(S)
      /\ \A i, j \in 1..Len(q) : q[i] = q[j] => i = j
  BY <1>1, SetToSeqsEntries
<1> HIDE DEF S
<1>3. S = {} => q = <<>>
  BY <1>2
<1>4. ASSUME S = {3}
      PROVE  q = <<3>>
  <2>1. Len(q) = 1
    BY <1>2, <1>4, FS_Singleton
  <2> QED
    BY SMTT(30), <1>2, <1>4, <2>1
<1>5. ASSUME S = {3, 4}
      PROVE  q \in {<<3, 4>>, <<4, 3>>}
  <2>1. Len(q) = 2
    <3>1. IsFiniteSet({3}) /\ Cardinality({3}) = 1
      BY FS_Singleton
    <3>2. Cardinality({3} \union {4}) = 2
      BY <3>1, FS_AddElement
    <3>3. {3} \union {4} = {3, 4}
      OBVIOUS
    <3> QED
      BY <1>2, <1>5, <3>2, <3>3
  <2>2. q[1] \in {3, 4} /\ q[2] \in {3, 4} /\ q[1] # q[2] /\ q = <<q[1], q[2]>>
    <3>1. 1 \in 1..Len(q) /\ 2 \in 1..Len(q) /\ 1 # 2
      BY <2>1
    <3>2. q[1] \in {3, 4} /\ q[2] \in {3, 4} /\ q[1] # q[2]
      BY <1>2, <1>5, <3>1
    <3>3. q = <<q[1], q[2]>>
      BY <1>2, <2>1
    <3> QED
      BY <3>2, <3>3
  <2>3. q = <<3, 4>> \/ q = <<4, 3>>
    BY <2>2
  <2> QED
    BY <2>3
<1>6. q \in Seq(Page)
  <2>1. S \subseteq Page
    BY <1>1, FixedPages DEF Fixed
  <2> QED
    BY <1>2, <2>1
<1> QED
  BY <1>1, <1>3, <1>4, <1>5, <1>6

\* Those that create_table will reach, which skips COLUMNS_NAMES when it is zeros,
\* and what comes behind it
LEMMA EntsFound ==
  ASSUME Consistent(db), Searchable(db), NEW q, q \in SetToSeqs(IndexesIn(db, COLUMNS))
  PROVE  /\ EntsOf(q) \in Ents
         /\ \A i \in 1..Len(EntsOf(q)) : EntsOf(q)[i] = COLUMNS_NAMES => db.tree[COLUMNS_NAMES] # Zeros
         /\ EntsOf(q) = <<>> => db.tree[COLUMNS_NAMES] = Zeros
<1>1. q \in {<<>>, <<3>>, <<3, 4>>, <<4, 3>>} /\ db.tree[3] # Zeros
  BY ColumnsOrdered, CatalogFound
<1> DEFINE z == db.tree[4] = Zeros
<1>4. CASE q = <<>>
  <2>1. EntsOf(q) = <<-1>>
    BY <1>4 DEF EntsOf
  <2> QED
    BY <2>1 DEF Ents
<1>5. CASE q = <<3>>
  <2>1. Reached(q) = 1..1
    BY <1>1, <1>5 DEF Reached
  <2>2. EntsOf(q) = <<3>>
    BY <1>5, <2>1 DEF EntsOf
  <2> QED
    BY <2>2 DEF Ents
<1>6. CASE q = <<3, 4>>
  <2>1. CASE z
    <3>1. Reached(q) = 1..1
      BY <1>1, <1>6, <2>1 DEF Reached
    <3>2. EntsOf(q) = <<3>>
      BY <1>6, <3>1 DEF EntsOf
    <3> QED
      BY <3>2 DEF Ents
  <2>2. CASE ~z
    <3>1. Reached(q) = 1..2
      BY <1>1, <1>6, <2>2 DEF Reached
    <3>2. EntsOf(q) = <<3, 4>>
      BY <1>6, <3>1 DEF EntsOf
    <3> QED
      BY <2>2, <3>2 DEF Ents
  <2> QED
    BY <2>1, <2>2
<1>7. CASE q = <<4, 3>>
  <2>1. CASE z
    <3>1. Reached(q) = {}
      BY <1>1, <1>7, <2>1 DEF Reached
    <3>2. EntsOf(q) = <<>>
      BY <1>7, <3>1 DEF EntsOf
    <3> QED
      BY <2>1, <3>2 DEF Ents
  <2>2. CASE ~z
    <3>1. Reached(q) = 1..2
      BY <1>1, <1>7, <2>2 DEF Reached
    <3>2. EntsOf(q) = <<4, 3>>
      BY <1>7, <3>1 DEF EntsOf
    <3> QED
      BY <2>2, <3>2 DEF Ents
  <2> QED
    BY <2>1, <2>2
<1> QED
  BY <1>1, <1>4, <1>5, <1>6, <1>7

\* Three sequences of stores, one after the other
InThree(w, a, i, b, j, c, k) ==
  /\ ListOf(Stores, w, i + j + k)
  /\ \A m \in 1..i : w[m] = a[m]
  /\ \A m \in 1..j : w[i + m] = b[m]
  /\ \A m \in 1..k : w[i + j + m] = c[m]
LEMMA ThreeParts ==
  ASSUME NEW a, NEW b, NEW c, NEW i, NEW j, NEW k,
         ListOf(Stores, a, i), ListOf(Stores, b, j), ListOf(Stores, c, k)
  PROVE  InThree((a \o b) \o c, a, i, b, j, c, k)
<1>1. i \in Nat /\ j \in Nat /\ k \in Nat
  BY DEF ListOf
<1>2. Followed(Stores, a, b, i, j)
  BY ConcatEntries
<1> DEFINE ab == a \o b
           w == ab \o c
<1>3. /\ ListOf(Stores, ab, i + j) /\ \A m \in 1..i : ab[m] = a[m]
      /\ \A m \in (i + 1)..(i + j) : ab[m] = b[m - i]
  BY <1>1, <1>2 DEF Followed, ListOf
<1> HIDE DEF ab
<1>4. Followed(Stores, ab, c, i + j, k)
  BY <1>3, ConcatEntries
<1>5. /\ ListOf(Stores, w, i + j + k) /\ \A m \in 1..(i + j) : w[m] = ab[m]
      /\ \A m \in (i + j + 1)..(i + j + k) : w[m] = c[m - (i + j)]
  BY <1>1, <1>4 DEF Followed, ListOf
<1> HIDE DEF w
<1>6. \A m \in 1..i : w[m] = a[m]
  BY <1>1, <1>3, <1>5
<1>7. ASSUME NEW m \in 1..j
      PROVE  w[i + m] = b[m]
  <2>1. i + m \in 1..(i + j) /\ i + m \in (i + 1)..(i + j) /\ (i + m) - i = m
    BY <1>1
  <2> QED
    BY <1>3, <1>5, <2>1
<1>8. ASSUME NEW m \in 1..k
      PROVE  w[i + j + m] = c[m]
  <2>1. i + j + m \in (i + j + 1)..(i + j + k) /\ (i + j + m) - (i + j) = m
    BY <1>1
  <2> QED
    BY <1>5, <2>1
<1>9. InThree(w, a, i, b, j, c, k)
  BY <1>5, <1>6, <1>7, <1>8 DEF InThree
<1> QED
  BY <1>9 DEF w, ab

\* A page, a row and its entries
LEMMA RowParts ==
  ASSUME NEW x \in Stores, NEW b, NEW j, NEW c, ListOf(Stores, b, j), ListOf(Stores, c, 1)
  PROVE  InThree(<<x>> \o (b \o c), <<x>>, 1, b, j, c, 1)
<1>1. ListOf(Stores, <<x>>, 1)
  <2>1. <<x>> \in Seq(Stores) /\ Len(<<x>>) = 1
    OBVIOUS
  <2> QED
    BY <2>1 DEF ListOf
<1>2. (<<x>> \o b) \o c = <<x>> \o (b \o c)
  <2>1. <<x>> \in Seq(Stores) /\ b \in Seq(Stores) /\ c \in Seq(Stores)
    BY <1>1 DEF ListOf
  <2> QED
    BY ONLY <2>1, ConcatAssociative
<1>3. InThree((<<x>> \o b) \o c, <<x>>, 1, b, j, c, 1)
  BY <1>1, ThreeParts
<1> QED
  BY <1>2, <1>3

\* Before its first store a plan has nothing of its table.
LEMMA PlanBegins ==
  ASSUME NEW d, Consistent(d), NEW p, p \in Plans, TABLES \in DOMAIN d.tables,
         p.id = d.tables[TABLES].next_id, p.root = d.nb_pages, p.root + p.n < MaxPages
  PROVE  /\ HeadMade(d, p, 1)
         /\ COLUMNS \in DOMAIN d.tables => p.id > 1
<1>1. /\ p.id \in Nat /\ p.root \in Nat /\ p.root \in Page
      /\ DOMAIN d.tables = IdsIn(d, TABLES) /\ DOMAIN d.tables \in SUBSET Nat
      /\ \A t \in DOMAIN d.tables : d.tables[t].root < p.root
      /\ \A c \in DOMAIN d.columns : d.columns[c].root < p.root /\ d.columns[c].table \in DOMAIN d.tables
      /\ d.tables[TABLES].root = TABLES
  BY PlanTypes, RowTypes DEF Consistent, TableRoots, ColumnRoots
<1>2. \A t \in DOMAIN d.tables : t < p.id /\ t \in Nat
  BY <1>1 DEF Consistent, NextIds
<1>3. p.id \notin DOMAIN d.tables /\ p.id > 0 /\ (COLUMNS \in DOMAIN d.tables => p.id > 1)
  BY <1>1, <1>2
<1>4. p.root > 4
  BY <1>1 DEF Consistent, TableRoots
<1>5. d.tree[p.root] = Zeros
  <2>1. p.root >= d.nb_pages
    BY <1>1
  <2> QED
    BY <1>1, <2>1 DEF Consistent, Typed
<1>6. /\ \A t \in DOMAIN d.tables \ {p.id} : d.tables[t].root < p.root
      /\ \A c \in DOMAIN d.columns : d.columns[c].root < p.root /\ d.columns[c].table # p.id
  BY <1>1, <1>3
<1> QED
  BY <1>3, <1>4, <1>5, <1>6 DEF HeadMade

\* The stores of create_table: its page and the row, then those of the columns,
\* then the root.
TableParts(w, name, n, q, f) ==
  /\ q \in Seq(Page) /\ Len(q) \in {0, 1, 2} /\ f \in Seq(Stores)
  /\ w = ((<<create_addr>> \o TableRow(NewId(TABLES), name, n)) \o f) \o <<write_node(db.nb_pages, {})>>
  /\ COLUMNS \in DOMAIN db.tables =>
       /\ Len(f) = n * (4 + Len(EntsOf(q)))
       /\ \A l \in 1..n, m \in 1..(4 + Len(EntsOf(q))) :
            f[(l - 1) * (4 + Len(EntsOf(q))) + m] = Column(NewId(TABLES), l, q)[m]
LEMMA TableStores ==
  ASSUME Consistent(db), NEW name, name \in Name, NEW n, n \in 1..MaxColumns, create_table(name, n)
  PROVE  /\ n \in Nat /\ n >= 1 /\ db.nb_pages \in Nat /\ db.nb_pages \in Page
         /\ db.nb_pages + 1 + n <= MaxPages /\ NewId(TABLES) \in Int
         /\ \E q \in SetToSeqs(IndexesIn(db, COLUMNS)) : \E f : TableParts(todo', name, n, q, f)
<1>1. /\ n \in Nat /\ n >= 1 /\ db.nb_pages \in Nat /\ db.nb_pages + 1 + n <= MaxPages
      /\ MaxPages \in Nat
  BY RowTypes, CatalogAssumption DEF create_table
<1>2. db.nb_pages \in Page
  BY <1>1 DEF Page
<1> DEFINE id == NewId(TABLES)
<1>3. id \in Int
  <2>1. TABLES \in DOMAIN db.tables => db.tables[TABLES].next_id \in Nat
    BY RowTypes DEF TableRows
  <2> QED
    BY <2>1 DEF NewId
<1>4. PICK q \in SetToSeqs(IndexesIn(db, COLUMNS)) : todo' = NewTable(name, n, q)
  BY OfDb DEF create_table
<1>5. q \in Seq(Page) /\ Len(q) \in {0, 1, 2}
  BY ColumnsOrdered
<1> HIDE DEF id
<1> DEFINE ss == [i \in 1..n |-> Column(id, i, q)]
           f == FlattenSeq(ss)
           h == Len(EntsOf(q))
<1>6. \A i \in 1..n : /\ Column(id, i, q) \in Seq(Stores)
                      /\ COLUMNS \in DOMAIN db.tables => Len(Column(id, i, q)) = 4 + h
  <2> TAKE i \in 1..n
  <2>1. /\ Consistent(db) /\ n \in Nat /\ db.nb_pages + 1 + n <= MaxPages
        /\ id \in Int /\ i \in 1..n /\ q \in Seq(Page) /\ Len(q) \in {0, 1, 2}
    BY <1>1, <1>3, <1>5
  <2>2. Column(id, i, q) \in Seq(Stores)
    BY ONLY <2>1, ColumnStores
  <2>3. COLUMNS \in DOMAIN db.tables => Len(Column(id, i, q)) = 4 + Len(EntsOf(q))
    <3>1. COLUMNS \in DOMAIN db.tables => IsColumn(Column(id, i, q), id, i, EntsOf(q))
      BY ONLY <2>1, ColumnStores
    <3> QED
      BY ONLY <3>1 DEF IsColumn
  <2> QED
    BY <2>2, <2>3
<1>7. ss \in Seq(Seq(Stores)) /\ Len(ss) = n /\ \A i \in 1..n : ss[i] = Column(id, i, q)
  BY <1>1, <1>6
<1>8. todo' = ((<<create_addr>> \o TableRow(NewId(TABLES), name, n)) \o f)
              \o <<write_node(db.nb_pages, {})>>
  BY <1>4 DEF NewTable, id
<1> HIDE DEF ss
<1>9. f \in Seq(Stores)
  BY <1>7, FlattenSeqType
<1>10. ASSUME COLUMNS \in DOMAIN db.tables
       PROVE  /\ Len(f) = n * (4 + h)
              /\ \A l \in 1..n, m \in 1..(4 + h) : f[(l - 1) * (4 + h) + m] = Column(id, l, q)[m]
  <2> DEFINE k == 4 + h
  <2>1. k \in Nat /\ \A i \in 1..Len(ss) : Len(ss[i]) = k
    <3>1. Len(EntsOf(q)) \in Nat
      BY <1>5, EntriesStores
    <3> QED
      BY <1>6, <1>7, <1>10, <3>1
  <2> HIDE DEF k
  <2>2. Len(ss) > 0
    BY <1>1, <1>7
  <2>3. /\ Len(FlattenSeq(ss)) = Len(ss) * k
        /\ \A i \in 1..Len(ss), j \in 1..k : FlattenSeq(ss)[(i - 1) * k + j] = ss[i][j]
    BY ONLY <1>7, <2>1, <2>2, FlattenSeqBlocks
  <2>4. /\ Len(f) = n * k
        /\ \A l \in 1..n, m \in 1..k : f[(l - 1) * k + m] = Column(id, l, q)[m]
    BY <1>7, <2>3
  <2> QED
    BY <2>4 DEF k
<1> HIDE DEF f
<1>11. TableParts(todo', name, n, q, f)
  BY <1>5, <1>8, <1>9, <1>10 DEF TableParts, id
<1> QED
  BY <1>1, <1>2, <1>3, <1>4, <1>11 DEF id

\* create_table where find_all finds no column of TABLES
LEMMA CreateDoomed ==
  ASSUME Consistent(db), ~Searchable(db), NEW k \in Nat, Lost(db, k),
         NEW name, name \in Name, NEW n, n \in 1..MaxColumns, create_table(name, n)
  PROVE  todo' \in Seq(Stores) /\ Doomed(db, todo', k)
<1> DEFINE id == NewId(TABLES)
           row == TablesRow(name, db.nb_pages, 0, n)
           a == <<create_addr>> \o TableRow(id, name, n)
           z == <<write_node(db.nb_pages, {})>>
<1>1. /\ n \in Nat /\ n >= 1 /\ db.nb_pages \in Nat /\ db.nb_pages \in Page
      /\ db.nb_pages + 1 + n <= MaxPages /\ MaxPages \in Nat
  BY TableStores, CatalogAssumption
<1>2. PICK f : f \in Seq(Stores) /\ todo' = (a \o f) \o z
  <2>1. PICK q \in SetToSeqs(IndexesIn(db, COLUMNS)) : \E f : TableParts(todo', name, n, q, f)
    BY TableStores
  <2>2. PICK f : TableParts(todo', name, n, q, f)
    BY <2>1
  <2> QED
    BY <2>2 DEF TableParts
<1>3. TableRow(id, name, n) = insert_row(TABLES, id, row) \o <<Crashes>>
  <2>1. IndexesIn(db, TABLES) = {}
    BY CatalogFound
  <2>2. SetToSeq(Indexes(TABLES)) = <<>>
    BY <2>1, OfDb, SetToSeqEmpty
  <2> QED
    BY <2>2 DEF TableRow, WithEntries, IntoIndexes
<1>4. z \in Seq(Stores) /\ Len(z) = 1 /\ create_addr \in Stores /\ Crashes \in Stores
  BY <1>1, StoreTypes
<1> HIDE DEF z
<1> DEFINE b == insert_row(TABLES, id, row)
           c == <<Crashes>>
           j == Len(f)
<1>5. /\ ListOf(Stores, f, j) /\ ListOf(Stores, z, 1) /\ ListOf(Stores, c, 1) /\ c[1] = Crashes
      /\ j \in Nat
  <2>1. c \in Seq(Stores) /\ Len(c) = 1 /\ c[1] = Crashes
    BY <1>4
  <2> HIDE DEF c
  <2> QED
    BY <1>2, <1>4, <2>1 DEF ListOf
<1>6. a = <<create_addr>> \o (b \o c)
  BY <1>3
<1> HIDE DEF a, c, j
<1>7. ASSUME NEW i, ListOf(Stores, b, i)
      PROVE  /\ todo' \in Seq(Stores) /\ Len(todo') > i + 1 /\ i \in Nat
             /\ todo'[1] = create_addr /\ todo'[i + 2] = Crashes
             /\ \A m \in 1..i : todo'[m + 1] = b[m]
  <2> HIDE DEF b
  <2>1. i \in Nat
    BY <1>7 DEF ListOf
  <2>2. InThree(a, <<create_addr>>, 1, b, i, c, 1)
    BY <1>4, <1>5, <1>6, <1>7, RowParts
  <2>3. /\ ListOf(Stores, a, 1 + i + 1) /\ a[1] = create_addr /\ a[i + 2] = Crashes
        /\ \A m \in 1..i : a[m + 1] = b[m]
    <3>1. /\ ListOf(Stores, a, 1 + i + 1) /\ \A m \in 1..1 : a[m] = <<create_addr>>[m]
          /\ \A m \in 1..i : a[1 + m] = b[m]
          /\ \A m \in 1..1 : a[1 + i + m] = c[m]
      BY <2>2 DEF InThree
    <3>2. 1 \in 1..1 /\ 1 + i + 1 = i + 2 /\ \A m \in 1..i : 1 + m = m + 1
      BY <2>1
    <3>3. a[1] = create_addr
      BY <3>1, <3>2
    <3>4. a[i + 2] = Crashes
      BY <1>5, <3>1, <3>2
    <3> QED
      BY <3>1, <3>2, <3>3, <3>4
  <2>4. InThree(todo', a, 1 + i + 1, f, j, z, 1)
    BY <1>2, <1>5, <2>3, ThreeParts
  <2>5. ListOf(Stores, todo', 1 + i + 1 + j + 1) /\ \A m \in 1..(1 + i + 1) : todo'[m] = a[m]
    BY ONLY <2>4 DEF InThree
  <2>6. todo' \in Seq(Stores) /\ Len(todo') > i + 1
    BY <1>5, <2>1, <2>5 DEF ListOf
  <2> QED
    BY <2>1, <2>3, <2>5, <2>6
<1>8. CASE TABLES \notin DOMAIN db.tables
  <2>1. b = <<>>
    BY <1>8 DEF insert_row
  <2>2. ListOf(Stores, b, 0)
    <3>1. <<>> \in Seq(Stores) /\ Len(<<>>) = 0 /\ 0 \in Nat
      OBVIOUS
    <3> HIDE DEF b
    <3> QED
      BY ONLY <2>1, <3>1 DEF ListOf
  <2>3. todo' \in Seq(Stores) /\ Len(todo') > 1 /\ todo'[1] = create_addr /\ todo'[2] = Crashes
    BY <1>7, <2>2
  <2>4. db.nb_pages < MaxPages
    BY <1>1
  <2> QED
    BY <2>3, <2>4 DEF Doomed
<1>9. CASE TABLES \in DOMAIN db.tables
  <2> DEFINE p == [id |-> db.tables[TABLES].next_id, name |-> name, root |-> db.nb_pages,
                   n |-> n, first |-> 0, ents |-> <<-1>>]
  <2>1. p \in Plans
    <3>1. db.tables[TABLES].next_id \in Nat
      BY <1>9, RowTypes DEF TableRows
    <3> QED
      BY <1>1, <3>1 DEF Plans, Ents
  <2>2. p.id = db.tables[TABLES].next_id /\ p.id = id /\ p.root = db.nb_pages /\ p.n = n /\ p.name = name
    BY <1>9 DEF NewId
  <2> HIDE DEF p
  <2>3. HeadMade(db, p, 1)
    <3>1. p.root + p.n < MaxPages
      BY <1>1, <2>2
    <3> QED
      BY <1>9, <2>1, <2>2, <3>1, PlanBegins
  <2>4. db.tables[TABLES].root = TABLES
    BY <1>9 DEF Consistent, TableRoots
  <2> DEFINE s == insert(TABLES, id, row)
  <2>5. get_next_id(TABLES) \in Stores /\ s \in Stores
    <3>1. row \in TableRows /\ TABLES \in Page /\ id \in Int
      BY <1>1, <2>1, <2>2, PlanTypes, FixedPages DEF TablesRow, TableRows, Fixed
    <3> QED
      BY <3>1, StoreTypes
  <2>6. b = <<get_next_id(TABLES), s>>
    BY <1>9, <2>4 DEF insert_row
  <2>7. s = HeadCell(p, 3) /\ get_next_id(TABLES) = HeadCell(p, 2) /\ create_addr = HeadCell(p, 1)
    BY <2>2 DEF HeadCell, NewRow
  <2> HIDE DEF s
  <2>8. ListOf(Stores, b, 2) /\ b[1] = HeadCell(p, 2) /\ b[2] = HeadCell(p, 3)
    <3>1. \A x, y \in Stores : <<x, y>> \in Seq(Stores) /\ Len(<<x, y>>) = 2
      OBVIOUS
    <3> HIDE DEF b
    <3>2. b \in Seq(Stores) /\ Len(b) = 2
      BY ONLY <2>5, <2>6, <3>1
    <3> QED
      BY <2>6, <2>7, <3>2 DEF ListOf
  <2> HIDE DEF b
  <2>9. /\ todo' \in Seq(Stores) /\ Len(todo') > 2 + 1
        /\ todo'[1] = create_addr /\ todo'[2 + 2] = Crashes
        /\ \A m \in 1..2 : todo'[m + 1] = b[m]
    BY <1>7, <2>8
  <2>10. todo'[2] = b[1] /\ todo'[3] = b[2]
    <3>1. 1 \in 1..2 /\ 2 \in 1..2 /\ 1 + 1 = 2 /\ 2 + 1 = 3
      OBVIOUS
    <3> QED
      BY <2>9, <3>1
  <2>11. todo'[4 - 1 + 1] = Crashes /\ Len(todo') > 4 - 1
         /\ \A i \in 1..3 : todo'[i - 1 + 1] = HeadCell(p, i)
    <3>1. \A i \in 1..3 : i = 1 \/ i = 2 \/ i = 3
      OBVIOUS
    <3> QED
      BY <2>7, <2>8, <2>9, <2>10, <3>1
  <2> QED
    BY <2>1, <2>3, <2>9, <2>11 DEF Doomed
<1> QED
  BY <1>8, <1>9

\* The place of a store of a column among those of all columns
LEMMA BlockPlaces ==
  ASSUME NEW p, p \in Plans, NEW l, l \in 1..p.n, NEW m, m \in 1..Width(p)
  PROVE  /\ p.n * Width(p) \in Nat /\ Final(p) = 5 + p.n * Width(p)
         /\ (l - 1) * Width(p) + m \in 1..(p.n * Width(p))
         /\ At(p, l, m) = 4 + ((l - 1) * Width(p) + m)
<1> DEFINE n == p.n
<1>1. n \in Nat /\ n >= 1 /\ l \in Nat /\ l >= 1 /\ l <= n
  BY PlanTypes
<1>2. Final(p) = 5 + n * Width(p) /\ At(p, l, m) = 4 + (l - 1) * Width(p) + m
  BY DEF Final, At
<1> HIDE DEF n
<1>3. CASE Width(p) = 5
  BY <1>1, <1>2, <1>3 DEF n
<1>4. CASE Width(p) = 6
  BY <1>1, <1>2, <1>4 DEF n
<1>5. CASE Width(p) = 4
  BY <1>1, <1>2, <1>5 DEF n
<1> QED
  BY <1>3, <1>4, <1>5, PlanTypes

\* create_table where it finds the columns
LEMMA CreateBegins ==
  ASSUME Consistent(db), Searchable(db), NEW k \in Nat, Lost(db, k),
         NEW name, name \in Name, NEW n, n \in 1..MaxColumns, create_table(name, n)
  PROVE  todo' \in Seq(Stores) /\ Creating(db, todo', k)
<1> DEFINE id == NewId(TABLES)
           row == TablesRow(name, db.nb_pages, 0, n)
           a == <<create_addr>> \o TableRow(id, name, n)
           b == insert_row(TABLES, id, row)
           c == <<insert_bt(TABLES_NAMES, id)>>
           z == <<write_node(db.nb_pages, {})>>
<1>1. /\ n \in Nat /\ n >= 1 /\ db.nb_pages \in Nat /\ db.nb_pages \in Page
      /\ db.nb_pages + 1 + n <= MaxPages /\ MaxPages \in Nat
  BY TableStores, CatalogAssumption
<1>2. /\ IndexesIn(db, TABLES) = {TABLES_NAMES} /\ db.tree[TABLES_NAMES] # Zeros
      /\ COLUMNS \in DOMAIN db.tables /\ db.tables[COLUMNS].root = COLUMNS
      /\ TABLES \in DOMAIN db.tables /\ 2 \in IdsIn(db, COLUMNS)
  BY CatalogFound
<1>3. /\ db.tables[TABLES].next_id \in Nat /\ db.tables[COLUMNS].next_id \in Nat
      /\ id = db.tables[TABLES].next_id /\ db.tables[TABLES].root = TABLES
      /\ db.tables[COLUMNS].next_id > 2
  <2>1. db.tables[TABLES].next_id \in Nat /\ db.tables[COLUMNS].next_id \in Nat
    BY <1>2, RowTypes DEF TableRows
  <2>2. db.tables[TABLES].root = TABLES
    BY <1>2 DEF Consistent, TableRoots
  <2>3. 2 < db.tables[COLUMNS].next_id
    BY <1>2 DEF Consistent, NextIds
  <2> QED
    BY <1>2, <2>1, <2>2, <2>3 DEF NewId
<1>4. PICK q \in SetToSeqs(IndexesIn(db, COLUMNS)) : \E f : TableParts(todo', name, n, q, f)
  BY TableStores
<1>5. PICK f : TableParts(todo', name, n, q, f)
  BY <1>4
<1>6. /\ q \in Seq(Page) /\ Len(q) \in {0, 1, 2} /\ f \in Seq(Stores) /\ todo' = (a \o f) \o z
      /\ Len(f) = n * (4 + Len(EntsOf(q)))
      /\ \A l \in 1..n, m \in 1..(4 + Len(EntsOf(q))) :
           f[(l - 1) * (4 + Len(EntsOf(q))) + m] = Column(id, l, q)[m]
  BY <1>2, <1>5 DEF TableParts
<1> DEFINE p == [id |-> id, name |-> name, root |-> db.nb_pages, n |-> n,
                 first |-> db.tables[COLUMNS].next_id, ents |-> EntsOf(q)]
<1>7. /\ EntsOf(q) \in Ents
      /\ EntsOf(q) = <<>> => db.tree[COLUMNS_NAMES] = Zeros
      /\ \A i \in 1..Len(EntsOf(q)) : EntsOf(q)[i] = COLUMNS_NAMES => db.tree[COLUMNS_NAMES] # Zeros
  BY EntsFound
<1>8. p \in Plans
  BY <1>1, <1>3, <1>7 DEF Plans
<1>9. /\ p.id = id /\ p.name = name /\ p.root = db.nb_pages /\ p.n = n
      /\ p.first = db.tables[COLUMNS].next_id /\ p.ents = EntsOf(q)
  OBVIOUS
<1> HIDE DEF p
<1>10. HeadMade(db, p, 1) /\ p.id > 1
  <2>1. p.root + p.n < MaxPages
    BY <1>1, <1>9
  <2> QED
    BY <1>2, <1>3, <1>8, <1>9, <2>1, PlanBegins
<1>11. Ready(db, p)
  BY <1>2, <1>3, <1>7, <1>9, <1>10 DEF Ready, HeadMade
<1>12. a = <<create_addr>> \o (b \o c)
  <2>1. SetToSeq(Indexes(TABLES)) = <<TABLES_NAMES>>
    BY <1>2, OfDb, SetToSeqSingle
  <2>2. IntoIndexes(id, <<TABLES_NAMES>>) = c
    <3>1. \A x : <<x>>[1] = x /\ Len(<<x>>) = 1 /\ <<x>> # <<>>
      OBVIOUS
    <3>2. Reached(<<TABLES_NAMES>>) = {1}
      BY <1>2, <3>1 DEF Reached
    <3>3. IntoIndexes(id, <<TABLES_NAMES>>)
            = [i \in {1} |-> insert_bt(<<TABLES_NAMES>>[i], id)]
      BY <3>1, <3>2 DEF IntoIndexes
    <3>4. [i \in {1} |-> insert_bt(<<TABLES_NAMES>>[i], id)] = [i \in {1} |-> insert_bt(TABLES_NAMES, id)]
      BY <3>1
    <3>5. \A y : [i \in {1} |-> y] = <<y>>
      OBVIOUS
    <3> QED
      BY ONLY <3>3, <3>4, <3>5
  <2>3. TableRow(id, name, n) = b \o c
    BY <2>1, <2>2 DEF TableRow, WithEntries
  <2> QED
    BY <2>3
<1> DEFINE s == insert(TABLES, id, row)
<1>13. /\ s = HeadCell(p, 3) /\ get_next_id(TABLES) = HeadCell(p, 2) /\ create_addr = HeadCell(p, 1)
       /\ insert_bt(TABLES_NAMES, id) = HeadCell(p, 4)
  BY <1>9 DEF HeadCell, NewRow
<1>14. /\ create_addr \in Stores /\ get_next_id(TABLES) \in Stores /\ s \in Stores
       /\ insert_bt(TABLES_NAMES, id) \in Stores /\ write_node(db.nb_pages, {}) \in Stores
  <2>1. row \in TableRows
    BY <1>1 DEF TablesRow, TableRows
  <2>2. 0 \in Page /\ 2 \in Page
    BY FixedPages DEF Fixed
  <2> QED
    BY <1>1, <1>3, <2>1, <2>2, StoreTypes
<1>15. b = <<get_next_id(TABLES), s>>
  BY <1>2, <1>3 DEF insert_row
<1> HIDE DEF a, b, s
<1>16. /\ ListOf(Stores, b, 2) /\ b[1] = HeadCell(p, 2) /\ b[2] = HeadCell(p, 3)
       /\ ListOf(Stores, c, 1) /\ c[1] = HeadCell(p, 4)
       /\ ListOf(Stores, z, 1) /\ z[1] = write_node(p.root, {})
  <2>1. \A x, y \in Stores : /\ <<x, y>> \in Seq(Stores) /\ Len(<<x, y>>) = 2
                             /\ <<x>> \in Seq(Stores) /\ Len(<<x>>) = 1
    OBVIOUS
  <2>2. c[1] = insert_bt(TABLES_NAMES, id) /\ z[1] = write_node(db.nb_pages, {})
    OBVIOUS
  <2>3. b \in Seq(Stores) /\ Len(b) = 2
    BY ONLY <1>14, <1>15, <2>1
  <2>4. c \in Seq(Stores) /\ Len(c) = 1 /\ z \in Seq(Stores) /\ Len(z) = 1
    BY ONLY <1>14, <2>1
  <2> HIDE DEF c, z
  <2> QED
    BY <1>9, <1>13, <1>15, <2>2, <2>3, <2>4 DEF ListOf
<1> HIDE DEF c, z
<1>17. ListOf(Stores, a, 4) /\ \A i \in 1..4 : a[i] = HeadCell(p, i)
  <2>1. InThree(a, <<create_addr>>, 1, b, 2, c, 1)
    BY <1>12, <1>14, <1>16, RowParts
  <2>2. /\ ListOf(Stores, a, 1 + 2 + 1) /\ \A m \in 1..1 : a[m] = <<create_addr>>[m]
        /\ \A m \in 1..2 : a[1 + m] = b[m] /\ a[1 + 2 + 1] = c[1]
    BY <2>1 DEF InThree
  <2>3. a[1] = create_addr /\ a[2] = b[1] /\ a[3] = b[2] /\ a[4] = c[1]
    <3>1. 1 \in 1..1 /\ 1 \in 1..2 /\ 2 \in 1..2 /\ 1 + 1 = 2 /\ 1 + 2 = 3 /\ 1 + 2 + 1 = 4
      OBVIOUS
    <3> QED
      BY <2>2, <3>1
  <2>4. \A i \in 1..4 : i = 1 \/ i = 2 \/ i = 3 \/ i = 4
    OBVIOUS
  <2>5. 1 + 2 + 1 = 4
    OBVIOUS
  <2> QED
    BY <1>13, <1>16, <2>2, <2>3, <2>4, <2>5
<1> DEFINE j == n * Width(p)
<1>18. Width(p) = 4 + Len(EntsOf(q)) /\ j \in Nat /\ Len(f) = j
  <2>1. Width(p) = 4 + Len(EntsOf(q)) /\ Width(p) \in Nat
    BY <1>8, <1>9, PlanTypes DEF Width
  <2>2. 1 \in 1..p.n /\ 1 \in 1..Width(p)
    BY <1>8, PlanTypes
  <2>3. j \in Nat
    BY <1>8, <1>9, <2>2, BlockPlaces
  <2> QED
    BY <1>6, <2>1, <2>3
<1>19. \A l \in 1..p.n, m \in 1..Width(p) : f[(l - 1) * Width(p) + m] = Cell(p, l, m)
  <2> TAKE l \in 1..p.n, m \in 1..Width(p)
  <2>1. f[(l - 1) * Width(p) + m] = Column(id, l, q)[m]
    BY <1>6, <1>9, <1>18
  <2>2. IsColumn(Column(id, l, q), id, l, EntsOf(q))
    <3>1. /\ Consistent(db) /\ n \in Nat /\ db.nb_pages + 1 + n <= MaxPages
          /\ id \in Int /\ l \in 1..n /\ q \in Seq(Page) /\ Len(q) \in {0, 1, 2}
      BY <1>1, <1>3, <1>6, <1>9
    <3>2. COLUMNS \in DOMAIN db.tables => IsColumn(Column(id, l, q), id, l, EntsOf(q))
      BY ONLY <3>1, ColumnStores
    <3> QED
      BY <1>2, <3>2
  <2>3. IsColumn(Column(id, l, q), p.id, l, p.ents)
    BY <1>9, <2>2
  <2> HIDE DEF id
  <2> DEFINE w == Column(id, l, q)
  <2> HIDE DEF w
  <2>4. /\ w[1] = create_addr /\ w[2] = write_node(p.root + l, {})
        /\ w[3] = get_next_id(COLUMNS)
        /\ w[4] = insert(COLUMNS, p.first + l - 1, NewColumn(p, l))
        /\ \A i \in 5..Width(p) : w[i] = IF p.ents[i - 4] = -1 THEN Crashes
                                        ELSE insert_bt(p.ents[i - 4], p.first + l - 1)
    <3>1. IsColumn(w, p.id, l, p.ents)
      BY <2>3 DEF w
    <3> QED
      BY <1>2, <1>9, <1>18, <3>1 DEF IsColumn, NewColumn
  <2>5. Width(p) \in Nat /\ m \in Nat /\ m >= 1
    BY <1>8, PlanTypes
  <2>6. m = 1 \/ m = 2 \/ m = 3 \/ m = 4 \/ (m > 4 /\ m \in 5..Width(p))
    BY <2>5
  <2>7. w[m] = Cell(p, l, m)
    <3>1. CASE m \in 1..4
      BY <2>4, <2>6, <3>1 DEF Cell
    <3>2. CASE m > 4
      <4>1. m \in 5..Width(p)
        BY <2>5, <3>2
      <4>2. Cell(p, l, m) = IF p.ents[m - 4] = -1 THEN Crashes ELSE insert_bt(p.ents[m - 4], p.first + l - 1)
        BY <4>1, <3>2 DEF Cell
      <4> QED
        BY <2>4, <4>1, <4>2
    <3> QED
      BY <2>5, <2>6, <3>1, <3>2
  <2> QED
    BY <2>1, <2>7 DEF w
<1> HIDE DEF j
<1>20. InThree(todo', a, 4, f, j, z, 1)
  <2>1. ListOf(Stores, f, j)
    BY <1>6, <1>18 DEF ListOf
  <2> QED
    BY <1>6, <1>16, <1>17, <2>1, ThreeParts
<1>21. /\ ListOf(Stores, todo', 4 + j + 1)
       /\ \A i \in 1..4 : todo'[i] = HeadCell(p, i)
       /\ \A i \in 1..j : todo'[4 + i] = f[i]
       /\ todo'[4 + j + 1] = write_node(p.root, {})
  BY <1>16, <1>17, <1>20 DEF InThree
<1>22. Left(todo', p, 1)
  <2>1. Final(p) = 5 + j /\ Final(p) \in Nat /\ Final(p) = 4 + j + 1 /\ \A i \in Int : i - 1 + 1 = i
    BY <1>9, <1>18 DEF Final, j
  <2>2. todo' \in Seq(Stores) /\ 1 \in 1..Final(p) /\ Len(todo') = Final(p) - 1 + 1
    BY <1>18, <1>21, <2>1 DEF ListOf
  <2>3. \A i \in 1..4 : todo'[i - 1 + 1] = HeadCell(p, i)
    BY <1>21, <2>1
  <2>4. todo'[Final(p) - 1 + 1] = write_node(p.root, {})
    BY <1>21, <2>1
  <2>5. ASSUME NEW l \in 1..p.n, NEW m \in 1..Width(p)
        PROVE  todo'[At(p, l, m) - 1 + 1] = Cell(p, l, m)
    <3> DEFINE x == (l - 1) * Width(p) + m
    <3>1. x \in 1..j /\ At(p, l, m) = 4 + x
      BY <1>8, <1>9, BlockPlaces DEF j
    <3>2. f[x] = Cell(p, l, m)
      BY <1>19
    <3> HIDE DEF x
    <3>3. At(p, l, m) - 1 + 1 = 4 + x
      BY <1>18, <3>1
    <3> QED
      BY <1>21, <3>1, <3>2, <3>3
  <2> QED
    BY <2>2, <2>3, <2>4, <2>5 DEF Left
<1>23. todo' \in Seq(Stores)
  BY <1>22 DEF Left
<1> QED
  BY <1>8, <1>9, <1>10, <1>11, <1>22, <1>23 DEF Creating

LEMMA CreateStarts ==
  ASSUME Consistent(db), NEW k \in Nat, Lost(db, k),
         NEW name, name \in Name, NEW n, n \in 1..MaxColumns, create_table(name, n)
  PROVE  todo' \in Seq(Stores) /\ Operating(db, todo', k)
<1>1. CASE Searchable(db)
  <2>1. todo' \in Seq(Stores) /\ Creating(db, todo', k)
    BY <1>1, CreateBegins
  <2> QED
    BY <2>1 DEF Operating
<1>2. CASE ~Searchable(db)
  <2>1. todo' \in Seq(Stores) /\ Doomed(db, todo', k)
    BY <1>2, CreateDoomed
  <2> QED
    BY <2>1 DEF Operating
<1> QED
  BY <1>1, <1>2

-----------------------------------------------------------------------------
\* The inductive invariant.  While initialize_tables runs, the file is the same
\* database or the one before; once it has run, or its process has ended, any
\* database is consistent.
InitialRest(w, k) == /\ w \in Seq(Stores) /\ Len(w) = 25 - k
                     /\ \A i \in 1..(25 - k) : w[i] = initialize_tables[k + i]
Initialising == \E k \in 0..25 : /\ InitDb(db, k) /\ InitialRest(todo, k)
                                 /\ InitDb(file, k) \/ (k > 0 /\ InitDb(file, k - 1))
Running == /\ Consistent(db) /\ Consistent(file) /\ Lost(file, crashes + 1)
           /\ Operating(db, todo, crashes)
IInv == crashes \in 0..MaxCrashes /\ todo \in Seq(Stores) /\ (Initialising \/ Running)

LEMMA InitialLost ==
  ASSUME NEW k \in 1..25, NEW d, InitDb(d, k), NEW n \in Nat
  PROVE  Consistent(d) /\ Lost(d, n) /\ d.nb_pages # 1
<1>1. Consistent(d) /\ UnindexedIn(d) = {}
  BY InitialConsistent
<1>2. Lost(d, n)
  BY <1>1, FS_EmptySet DEF Lost
<1>3. d.nb_pages # 1
  BY <1>1 DEF Consistent, Typed
<1> QED
  BY <1>1, <1>2, <1>3

\* A process that finds database d starts.
LEMMA StartsUp ==
  ASSUME NEW d, db' = d, file' = d, todo' = StartUp(d), crashes' \in 0..MaxCrashes,
         InitDb(d, 0) \/ (Consistent(d) /\ Lost(d, crashes'))
  PROVE  IInv'
<1>1. CASE InitDb(d, 0)
  <2>1. d.nb_pages = 1
    BY <1>1 DEF InitDb
  <2>2. todo' = initialize_tables
    BY <2>1 DEF StartUp
  <2>3. initialize_tables \in Seq(Stores) /\ Len(initialize_tables) = 25
    BY InitialStores
  <2>4. InitialRest(todo', 0)
    BY <2>2, <2>3 DEF InitialRest
  <2>5. InitDb(db', 0) /\ InitDb(file', 0) /\ 0 \in 0..25
    BY <1>1
  <2>6. Initialising'
    BY <2>4, <2>5 DEF Initialising
  <2>7. todo' \in Seq(Stores)
    BY <2>2, <2>3
  <2> QED
    BY <2>6, <2>7 DEF IInv
<1>2. CASE Consistent(d) /\ Lost(d, crashes')
  <2>1. todo' = <<>>
    BY <1>2 DEF StartUp, Consistent, Typed
  <2>2. crashes' \in Nat
    BY CatalogAssumption
  <2>3. Lost(d, crashes' + 1)
    BY <1>2, <2>2, LostMore
  <2>4. Operating(d, <<>>, crashes')
    BY <1>2 DEF Operating
  <2>5. Running'
    BY <1>2, <2>1, <2>3, <2>4 DEF Running
  <2>6. todo' \in Seq(Stores)
    <3>1. <<>> \in Seq(Stores)
      OBVIOUS
    <3> QED
      BY ONLY <2>1, <3>1
  <2> QED
    BY <2>5, <2>6 DEF IInv
<1> QED
  BY <1>1, <1>2

\* What any operation finds when nothing is left to store.
LEMMA IdleRuns ==
  ASSUME IInv, todo = <<>>
  PROVE  Consistent(db) /\ Consistent(file) /\ Lost(file, crashes + 1) /\ Lost(db, crashes)
<1>1. crashes \in Nat
  BY CatalogAssumption DEF IInv
<1>2. CASE Running
  BY <1>1, <1>2, OperatingLost DEF Running, IInv
<1>3. CASE Initialising
  <2>1. PICK k \in 0..25 : /\ InitDb(db, k) /\ InitialRest(todo, k)
                           /\ InitDb(file, k) \/ (k > 0 /\ InitDb(file, k - 1))
    BY <1>3 DEF Initialising
  <2>2. k = 25
    <3>1. Len(todo) = 0 /\ Len(todo) = 25 - k
      BY <2>1 DEF InitialRest
    <3> QED
      BY <3>1
  <2>3. InitDb(file, 25) \/ InitDb(file, 24)
    BY <2>1, <2>2
  <2>4. Consistent(db) /\ Lost(db, crashes)
    BY <1>1, <2>1, <2>2, InitialLost
  <2>5. crashes + 1 \in Nat /\ 25 \in 1..25 /\ 24 \in 1..25
    BY <1>1
  <2>6. Consistent(file) /\ Lost(file, crashes + 1)
    BY <2>3, <2>5, InitialLost
  <2> QED
    BY <2>4, <2>6
<1> QED
  BY <1>2, <1>3 DEF IInv

LEMMA IInvInit == Init => IInv
<1> SUFFICES ASSUME Init
             PROVE  IInv
  OBVIOUS
<1>1. InitDb(db, 0) /\ file = db
  BY InitialDb DEF Init
<1>2. todo = initialize_tables
  BY DEF Init, StartUp
<1>3. initialize_tables \in Seq(Stores) /\ Len(initialize_tables) = 25
  BY InitialStores
<1>4. InitialRest(todo, 0)
  BY <1>2, <1>3 DEF InitialRest
<1>5. Initialising
  BY <1>1, <1>4 DEF Initialising
<1>6. crashes \in 0..MaxCrashes
  BY CatalogAssumption DEF Init
<1> QED
  BY <1>2, <1>3, <1>5, <1>6 DEF IInv

LEMMA IInvStore ==
  ASSUME IInv, Store
  PROVE  IInv'
<1>1. /\ todo # <<>> /\ todo \in Seq(Stores) /\ crashes' = crashes /\ crashes \in 0..MaxCrashes
      /\ file' = db /\ todo' = Tail(todo) /\ crashes \in Nat
  BY CatalogAssumption DEF Store, IInv
<1>2. /\ Len(todo) \in Nat /\ Len(todo) >= 1 /\ Head(todo) = todo[1]
      /\ todo' \in Seq(Stores) /\ Len(todo') = Len(todo) - 1
      /\ \A i \in 1..(Len(todo) - 1) : todo'[i] = todo[i + 1]
  BY <1>1, RestOfStores
<1>3. todo[1] # Crashes /\ db' = Stored(db, todo[1])
  BY <1>2 DEF Store, Crashing
<1>4. CASE Initialising
  <2>1. PICK k \in 0..25 : InitDb(db, k) /\ InitialRest(todo, k)
    BY <1>4 DEF Initialising
  <2>2. k \in 0..24 /\ todo[1] = initialize_tables[k + 1]
    <3>1. Len(todo) = 25 - k /\ \A i \in 1..(25 - k) : todo[i] = initialize_tables[k + i]
      BY <2>1 DEF InitialRest
    <3>2. k \in 0..24 /\ 1 \in 1..(25 - k)
      BY <1>2, <3>1
    <3> QED
      BY <3>1, <3>2
  <2>3. InitDb(db', k + 1)
    BY <1>3, <2>1, <2>2, InitialStep
  <2>4. InitialRest(todo', k + 1)
    <3>1. Len(todo) = 25 - k /\ \A i \in 1..(25 - k) : todo[i] = initialize_tables[k + i]
      BY <2>1 DEF InitialRest
    <3>2. Len(todo') = 25 - (k + 1)
      BY <1>2, <3>1
    <3>3. ASSUME NEW i \in 1..(25 - (k + 1))
          PROVE  todo'[i] = initialize_tables[(k + 1) + i]
      <4>1. i \in 1..(Len(todo) - 1) /\ i + 1 \in 1..(25 - k) /\ k + (i + 1) = (k + 1) + i
        BY <1>2, <3>1
      <4> QED
        BY <1>2, <3>1, <4>1
    <3> QED
      BY <1>2, <3>2, <3>3 DEF InitialRest
  <2>5. k + 1 \in 0..25 /\ k + 1 > 0 /\ (k + 1) - 1 = k
    BY <2>2
  <2>6. InitDb(file', (k + 1) - 1)
    BY <1>1, <2>1, <2>5
  <2>7. Initialising'
    BY <2>3, <2>4, <2>5, <2>6 DEF Initialising
  <2> QED
    BY <1>1, <1>2, <2>7 DEF IInv
<1>5. CASE Running
  <2>1. Consistent(db) /\ Operating(db, todo, crashes)
    BY <1>5 DEF Running
  <2>2. Lost(db, crashes + 1)
    BY <1>1, <2>1, OperatingLost
  <2>3. Consistent(db') /\ Operating(db', todo', crashes)
    BY <1>1, <1>3, <2>1, OperatingStep
  <2>4. Running'
    BY <1>1, <2>1, <2>2, <2>3 DEF Running
  <2> QED
    BY <1>1, <1>2, <2>4 DEF IInv
<1> QED
  BY <1>4, <1>5 DEF IInv

LEMMA IInvCrash ==
  ASSUME IInv, Exit \/ Kill
  PROVE  IInv'
<1>1. /\ crashes' = crashes + 1 /\ crashes \in Nat /\ crashes' \in 0..MaxCrashes
      /\ todo \in Seq(Stores)
  BY CatalogAssumption DEF Exit, Kill, Crash, IInv
<1>2. ASSUME NEW d, d = db \/ d = file
      PROVE  InitDb(d, 0) \/ (Consistent(d) /\ Lost(d, crashes'))
  <2>1. CASE Running
    <3>1. Lost(db, crashes + 1) /\ Lost(file, crashes + 1) /\ Consistent(db) /\ Consistent(file)
      BY <1>1, <2>1, OperatingLost DEF Running
    <3> QED
      BY <1>1, <1>2, <3>1
  <2>2. CASE Initialising
    <3>1. PICK k \in 0..25 : /\ InitDb(db, k)
                             /\ InitDb(file, k) \/ (k > 0 /\ InitDb(file, k - 1))
      BY <2>2 DEF Initialising
    <3>2. PICK j \in 0..25 : InitDb(d, j)
      <4>1. k > 0 => k - 1 \in 0..25
        OBVIOUS
      <4> QED
        BY <1>2, <3>1, <4>1
    <3>3. CASE j = 0
      BY <3>2, <3>3
    <3>4. CASE j # 0
      <4>1. j \in 1..25 /\ crashes' \in Nat
        BY <1>1, <3>4
      <4> QED
        BY <3>2, <4>1, InitialLost
    <3> QED
      BY <3>3, <3>4
  <2> QED
    BY <2>1, <2>2 DEF IInv
<1>3. CASE Exit
  <2>1. db' = db /\ file' = db /\ todo' = StartUp(db)
    BY <1>3 DEF Exit, Crash
  <2> QED
    BY <1>1, <1>2, <2>1, StartsUp
<1>4. CASE Kill
  <2>1. db' = file /\ file' = file /\ todo' = StartUp(file)
    BY <1>4 DEF Kill, Crash
  <2> QED
    BY <1>1, <1>2, <2>1, StartsUp
<1> QED
  BY <1>3, <1>4

LEMMA IInvBegin ==
  ASSUME IInv, todo = <<>>, db' = db, file' = file, crashes' = crashes,
         todo' \in Seq(Stores), Operating(db, todo', crashes)
  PROVE  IInv'
<1>1. Consistent(db) /\ Consistent(file) /\ Lost(file, crashes + 1)
  BY IdleRuns
<1>2. Running'
  BY <1>1 DEF Running
<1> QED
  BY <1>2 DEF IInv

LEMMA IInvNext == IInv /\ [Next]_vars => IInv'
<1> SUFFICES ASSUME IInv, [Next]_vars
             PROVE  IInv'
  OBVIOUS
<1>1. crashes \in Nat
  BY CatalogAssumption DEF IInv
<1>2. ASSUME NEW name \in Name, NEW nb_cols \in 1..MaxColumns, create_table(name, nb_cols)
      PROVE  IInv'
  <2>1. todo = <<>> /\ db' = db /\ file' = file /\ crashes' = crashes
    BY <1>2 DEF create_table
  <2>2. Consistent(db) /\ Lost(db, crashes)
    BY <2>1, IdleRuns
  <2>3. todo' \in Seq(Stores) /\ Operating(db, todo', crashes)
    BY <1>1, <1>2, <2>2, CreateStarts
  <2> QED
    BY <2>1, <2>3, IInvBegin
<1>3. ASSUME NEW table \in DOMAIN db.tables, advanced_insert_row(table)
      PROVE  IInv'
  <2>1. todo = <<>> /\ db' = db /\ file' = file /\ crashes' = crashes
    BY <1>3 DEF advanced_insert_row
  <2>2. Consistent(db) /\ Lost(db, crashes)
    BY <2>1, IdleRuns
  <2>3. todo' \in Seq(Stores) /\ Operating(db, todo', crashes)
    BY <1>1, <1>3, <2>2, InsertStarts DEF Operating
  <2> QED
    BY <2>1, <2>3, IInvBegin
<1>4. CASE Store
  BY <1>4, IInvStore
<1>5. CASE Exit \/ Kill
  BY <1>5, IInvCrash
<1>6. CASE UNCHANGED vars
  <2>1. db' = db /\ file' = file /\ todo' = todo /\ crashes' = crashes
    BY <1>6 DEF vars
  <2> QED
    BY <2>1 DEF IInv, Initialising, Running
<1> QED
  BY <1>2, <1>3, <1>4, <1>5, <1>6 DEF Next

-----------------------------------------------------------------------------
\* What the invariant says of the database of the process: it is the one of a
\* file of one page, or consistent.
LEMMA FirstDb ==
  ASSUME NEW d, InitDb(d, 0)
  PROVE  /\ d.nb_pages = 1 /\ DOMAIN d.tables = {} /\ DOMAIN d.columns = {}
         /\ \A p \in Page : d.tree[p] = Zeros /\ IdsIn(d, p) = {}
<1>1. \A p \in Page : TreeAt(p, 0) = Zeros
  BY DEF TreeAt, MadeAt
<1>2. First(HowMany(TABLES, 0)) = {} /\ First(HowMany(COLUMNS, 0)) = {}
  BY DEF HowMany, First
<1> QED
  BY <1>1, <1>2 DEF InitDb, IdsIn

LEMMA DbReached ==
  ASSUME IInv
  PROVE  InitDb(db, 0) \/ Consistent(db)
<1>1. CASE Initialising
  <2>1. PICK k \in 0..25 : InitDb(db, k)
    BY <1>1 DEF Initialising
  <2>2. k = 0 \/ k \in 1..25
    OBVIOUS
  <2> QED
    BY <2>1, <2>2, InitialConsistent
<1> QED
  BY <1>1 DEF IInv, Running

LEMMA CatalogInvariant == Spec => []IInv
  BY IInvInit, IInvNext, PTL DEF Spec

LEMMA IInvIdsAbove == IInv => NextIdsAbove
<1> SUFFICES ASSUME IInv, NEW t \in DOMAIN db.tables, NEW id \in Ids(db.tables[t].root)
             PROVE  id < NewId(t)
  BY DEF NextIdsAbove
<1>1. Consistent(db)
  BY DbReached, FirstDb
<1>2. id \in IdsIn(db, db.tables[t].root) /\ NewId(t) = db.tables[t].next_id
  BY OfDb DEF NewId
<1> QED
  BY <1>1, <1>2 DEF Consistent, NextIds

\* THEOREM: the next id of every table is above the ids of its rows, wherever the
\* process ends, so that insert_row never gives a row the id of another.  It is
\* why get_next_id saves the record before the row is stored.
THEOREM NextIdsStayAbove == Spec => []NextIdsAbove
  BY CatalogInvariant, IInvIdsAbove, PTL

LEMMA IInvEntries == IInv => EntriesHaveRows
<1> SUFFICES ASSUME IInv
             PROVE  EntriesHaveRows
  OBVIOUS
<1>1. CASE InitDb(db, 0)
  <2>1. 2 \in Page /\ 3 \in Page /\ 4 \in Page
    BY FixedPages DEF Fixed
  <2> QED
    BY <1>1, <2>1, FirstDb, OfDb DEF EntriesHaveRows
<1>2. CASE Consistent(db)
  <2>1. /\ Ids(TABLES_NAMES) \subseteq DOMAIN db.tables
        /\ Ids(COLUMNS_TIDX) \union Ids(COLUMNS_NAMES) \subseteq DOMAIN db.columns
    BY <1>2, OfDb DEF Consistent, Entries
  <2>2. ASSUME NEW c \in DOMAIN db.columns
        PROVE  db.columns[c].table \in DOMAIN db.tables
    BY <1>2 DEF Consistent, ColumnRoots
  <2>3. ASSUME NEW c \in DOMAIN db.columns, db.columns[c].table \notin {TABLES, COLUMNS}
        PROVE  Ids(db.columns[c].root) \subseteq Ids(db.tables[db.columns[c].table].root)
    <3>1. \A i \in 0..2 : InitialColumn(i).table \in {0, 1}
      BY DEF InitialColumn, ColumnsRow
    <3>2. c \notin 0..2
      BY <1>2, <2>3, <3>1 DEF Consistent, ColumnRoots
    <3> QED
      BY <1>2, <3>2, OfDb DEF Consistent, Entries
  <2> QED
    BY <2>1, <2>2, <2>3 DEF EntriesHaveRows
<1> QED
  BY <1>1, <1>2, DbReached

\* THEOREM: wherever the process ends, and in half a catalog, where insert_bt may
\* fail and create_table goes on, an entry of an index has its row: in
\* initialize_tables, create_table and advanced_insert_row the row is stored
\* before its entries, so that get_n_record finds what compare_r dereferences.
THEOREM EntriesAlwaysHaveRows == Spec => []EntriesHaveRows
  BY CatalogInvariant, IInvEntries, PTL

LEMMA IInvWhole == IInv => RootMarksWholeTable
<1> SUFFICES ASSUME IInv, NEW t \in DOMAIN db.tables \ {TABLES, COLUMNS},
                    db.tree[db.tables[t].root] # Zeros
             PROVE  LET columns == {c \in DOMAIN db.columns : db.columns[c].table = t} IN
                    /\ t \in db.tree[TABLES_NAMES]
                    /\ {db.columns[c].offset : c \in columns} = 0..(db.tables[t].nb_cols - 1)
                    /\ Cardinality(columns) = db.tables[t].nb_cols
                    /\ \A c \in columns : db.tree[db.columns[c].root] # Zeros
                    /\ ColumnsOf(t) = columns \/ (ColumnsOf(t) = {} /\ db.tree[COLUMNS_NAMES] = Zeros)
  BY DEF RootMarksWholeTable
<1>1. Consistent(db)
  BY DbReached, FirstDb
<1>2. WholeTable(db, t)
  BY <1>1 DEF Consistent, Whole
<1> QED
  BY <1>2, OfDb DEF WholeTable, RowsFor

\* THEOREM: wherever the process ends, a table whose root is written has its name
\* and all its columns, each once and with an index: create_table writes the root
\* last.  All are found, or, in a catalog whose COLUMNS_NAMES was never written,
\* where insert_bt may fail before it reaches COLUMNS_TIDX, none.
THEOREM RootAlwaysMarksWholeTable == Spec => []RootMarksWholeTable
  BY CatalogInvariant, IInvWhole, PTL

LEMMA IInvRows == IInv => RowsIndexed
<1> SUFFICES ASSUME IInv
             PROVE  RowsIndexed
  OBVIOUS
<1>1. crashes \in Nat /\ todo \in Seq(Stores)
  BY CatalogAssumption DEF IInv
<1>2. Lost(db, crashes + 1) /\ (todo = <<>> => Lost(db, crashes))
  <2>1. CASE Running
    BY <1>1, <2>1, OperatingLost DEF Running
  <2>2. CASE Initialising
    <3>1. PICK k \in 0..25 : InitDb(db, k)
      BY <2>2 DEF Initialising
    <3>2. UnindexedIn(db) = {}
      <4>1. CASE k = 0
        BY <3>1, <4>1, FirstDb DEF UnindexedIn
      <4>2. CASE k # 0
        <5>1. k \in 1..25
          BY <4>2
        <5> QED
          BY <3>1, <5>1, InitialConsistent
      <4> QED
        BY <4>1, <4>2
    <3> QED
      BY <1>1, <3>2, FS_EmptySet DEF Lost
  <2> QED
    BY <2>1, <2>2 DEF IInv
<1> QED
  BY <1>1, <1>2, OfDb DEF RowsIndexed, Lost

\* THEOREM: each row is in the index of every column of its table, but for one
\* row for each process that has ended, and the one that advanced_insert_row is
\* storing.
THEOREM RowsStayIndexed == Spec => []RowsIndexed
  BY CatalogInvariant, IInvRows, PTL

-----------------------------------------------------------------------------
\* As many values as arguments, when no two arguments have the same.
LEMMA AsManyValues ==
  ASSUME NEW S, IsFiniteSet(S), NEW T, NEW f \in [S -> T], \A y \in T : \E x \in S : f[x] = y,
         \A x, y \in S : f[x] = f[y] => x = y
  PROVE  IsFiniteSet(T) /\ Cardinality(T) = Cardinality(S)
<1>1. f \in Surjection(S, T) /\ f \in Injection(S, T)
  BY DEF Surjection, Injection, IsInjective
<1> QED
  BY <1>1, FS_Surjection

LEMMA IInvPages == IInv => PagesHaveOneUse
<1> SUFFICES ASSUME IInv
             PROVE  PagesHaveOneUse
  OBVIOUS
<1> DEFINE A == DOMAIN db.tables
           B == DOMAIN db.columns
           S == {db.tables[t].root : t \in A}
           T == {db.columns[c].root : c \in B}
<1>1. CASE InitDb(db, 0)
  <2>1. Roots = {} /\ A = {} /\ B = {}
    BY <1>1, FirstDb DEF Roots
  <2> QED
    BY <2>1, FS_EmptySet DEF PagesHaveOneUse
<1>2. CASE Consistent(db)
  <2>1. IsFiniteSet(A) /\ IsFiniteSet(B)
    BY <1>2 DEF Consistent, Typed
  <2>2. IsFiniteSet(S) /\ Cardinality(S) = Cardinality(A)
    <3> DEFINE f == [t \in A |-> db.tables[t].root]
    <3>1. f \in [A -> S] /\ \A y \in S : \E t \in A : f[t] = y
      OBVIOUS
    <3>2. \A t, u \in A : f[t] = f[u] => t = u
      BY <1>2 DEF Consistent, TableRoots
    <3> HIDE DEF f, A, S
    <3> QED
      BY <2>1, <3>1, <3>2, AsManyValues
  <2>3. IsFiniteSet(T) /\ Cardinality(T) = Cardinality(B)
    <3> DEFINE f == [c \in B |-> db.columns[c].root]
    <3>1. f \in [B -> T] /\ \A y \in T : \E c \in B : f[c] = y
      OBVIOUS
    <3>2. \A c, e \in B : f[c] = f[e] => c = e
      BY <1>2 DEF Consistent, ColumnRoots
    <3> HIDE DEF f, B, T
    <3> QED
      BY <2>1, <3>1, <3>2, AsManyValues
  <2>4. S \intersect T = {} /\ Roots = S \union T
    BY <1>2 DEF Consistent, ColumnRoots, Roots
  <2>5. /\ Cardinality(S \union T) = Cardinality(S) + Cardinality(T) - Cardinality(S \intersect T)
        /\ Cardinality(S) \in Nat /\ Cardinality(T) \in Nat
    BY <2>2, <2>3, FS_Union, FS_CardinalityType
  <2>6. Cardinality(S \intersect T) = 0
    BY <2>4, FS_EmptySet
  <2>7. Cardinality(Roots) = Cardinality(A) + Cardinality(B)
    <3> HIDE DEF S, T, A, B
    <3> QED
      BY <2>2, <2>3, <2>4, <2>5, <2>6
  <2>8. \A p \in S \union T : p \in Nat /\ p < db.nb_pages
    <3>1. \A t \in A : db.tables[t].root \in Nat /\ db.tables[t].root < db.nb_pages
      BY <1>2, RowTypes, FixedPages DEF Consistent, TableRoots
    <3>2. \A c \in B : db.columns[c].root \in Nat /\ db.columns[c].root < db.nb_pages
      BY <1>2, RowTypes, FixedPages DEF Consistent, ColumnRoots
    <3> QED
      BY ONLY <3>1, <3>2 DEF S, T
  <2>9. Roots \subseteq 0..(db.nb_pages - 1)
    <3>1. db.nb_pages \in Nat
      BY <1>2, RowTypes
    <3> HIDE DEF S, T
    <3> QED
      BY <2>4, <2>8, <3>1
  <2> QED
    BY <2>7, <2>9 DEF PagesHaveOneUse
<1> QED
  BY <1>1, <1>2, DbReached

\* THEOREM: fileSpecification.md, every page has a single use: no page is the root
\* of two trees, and all roots are pages that create_addr has handed out, wherever
\* the process ends, in half a catalog too, where create_table goes on after
\* insert_bt has failed.
THEOREM PagesAlwaysHaveOneUse == Spec => []PagesHaveOneUse
  BY CatalogInvariant, IInvPages, PTL

\* The page of a store, when it has one, is a page of the file.
InFile(d, s) == "page" \in DOMAIN s => s.page < d.nb_pages

LEMMA InFileStores ==
  ASSUME NEW d
  PROVE  /\ InFile(d, create_addr) /\ InFile(d, Crashes)
         /\ \A t : InFile(d, get_next_id(t))
         /\ \A p, ids : p < d.nb_pages => InFile(d, write_node(p, ids))
         /\ \A p, id, row : p < d.nb_pages => InFile(d, insert(p, id, row))
         /\ \A p, id : p < d.nb_pages => InFile(d, insert_bt(p, id))
<1>1. InFile(d, create_addr) /\ InFile(d, Crashes) /\ \A t : InFile(d, get_next_id(t))
  BY DEF InFile, create_addr, Crashes, get_next_id
<1>2. \A p, ids : p < d.nb_pages => InFile(d, write_node(p, ids))
  BY DEF InFile, write_node
<1>3. \A p, id, row : p < d.nb_pages => InFile(d, insert(p, id, row))
  BY DEF InFile, insert
<1>4. \A p, id : p < d.nb_pages => InFile(d, insert_bt(p, id))
  BY DEF InFile, insert_bt
<1> QED
  BY <1>1, <1>2, <1>3, <1>4

\* The pages of the catalog are there once it has a table.
LEMMA FixedInFile ==
  ASSUME NEW d, Consistent(d)
  PROVE  /\ TABLES < d.nb_pages /\ COLUMNS < d.nb_pages
         /\ DOMAIN d.tables # {} => d.nb_pages >= 5
  BY DEF Consistent, Typed, TableRoots

\* A store of initialize_tables
LEMMA InitialInFile ==
  ASSUME NEW k \in 0..24, NEW d, InitDb(d, k)
  PROVE  InFile(d, initialize_tables[k + 1])
<1> DEFINE s == initialize_tables
<1>1. k >= 4 => d.nb_pages = 5
  BY DEF InitDb
<1>2. \A p, ids : k >= 4 /\ p \in 0..4 => InFile(d, write_node(p, ids))
  BY <1>1, InFileStores
<1>3. \A p, id, row : k >= 4 /\ p \in 0..4 => InFile(d, insert(p, id, row))
  BY <1>1, InFileStores
<1>4. \A p, id : k >= 4 /\ p \in 0..4 => InFile(d, insert_bt(p, id))
  BY <1>1, InFileStores
<1>5. InFile(d, create_addr) /\ \A t : InFile(d, get_next_id(t))
  BY InFileStores
<1>6. CASE k \in 0..3
  <2>1. k + 1 \in 1..4
    BY <1>6
  <2>2. \A i \in 1..4 : s[i] = create_addr
    BY InitialStores
  <2> QED
    BY <1>5, <2>1, <2>2
<1>7. CASE k \in 4..10
  <2>1. /\ s[5] = write_node(TABLES, {}) /\ s[6] = insert(TABLES, 0, FirstRow)
        /\ s[7] = write_node(TABLES_NAMES, {0}) /\ s[8] = get_next_id(TABLES)
        /\ s[9] = insert(TABLES, 1, SecondRow) /\ s[10] = write_node(COLUMNS, {})
        /\ s[11] = insert_bt(TABLES_NAMES, 1)
    BY InitialStores
  <2>2. k + 1 \in {5, 6, 7, 8, 9, 10, 11} /\ k >= 4
    BY <1>7
  <2>3. \A i \in {5, 6, 7, 8, 9, 10, 11} : InFile(d, s[i])
    BY <1>2, <1>3, <1>4, <1>5, <2>1, <2>2
  <2> QED
    BY <2>2, <2>3
<1>8. CASE k \in 11..16
  <2>1. \A c \in 0..2 : /\ s[12 + 2 * c] = get_next_id(COLUMNS)
                        /\ s[13 + 2 * c] = insert(COLUMNS, c, InitialColumn(c))
    BY InitialStores
  <2>2. PICK c \in 0..2 : k + 1 = 12 + 2 * c \/ k + 1 = 13 + 2 * c
    BY <1>8
  <2> QED
    BY <1>3, <1>5, <1>8, <2>1, <2>2
<1>9. CASE k \in 17..20
  <2>1. s[18] = write_node(COLUMNS_TIDX, {}) /\ \A c \in 0..2 : s[19 + c] = insert_bt(COLUMNS_TIDX, c)
    BY InitialStores
  <2>2. k + 1 = 18 \/ \E c \in 0..2 : k + 1 = 19 + c
    BY <1>9
  <2> QED
    BY <1>2, <1>4, <1>9, <2>1, <2>2
<1>10. CASE k \in 21..24
  <2>1. s[22] = write_node(COLUMNS_NAMES, {}) /\ \A c \in 0..2 : s[23 + c] = insert_bt(COLUMNS_NAMES, c)
    BY InitialStores
  <2>2. k + 1 = 22 \/ \E c \in 0..2 : k + 1 = 23 + c
    BY <1>10
  <2> QED
    BY <1>2, <1>4, <1>10, <2>1, <2>2
<1> QED
  BY <1>6, <1>7, <1>8, <1>9, <1>10

\* A store of an operation that has begun on a consistent database
LEMMA CreatingInFile ==
  ASSUME NEW d, Consistent(d), NEW w, NEW p \in Plans, CreatingAs(d, w, p)
  PROVE  InFile(d, w[1])
<1>1. /\ InFile(d, create_addr) /\ InFile(d, Crashes) /\ \A t : InFile(d, get_next_id(t))
      /\ \A q, ids : q < d.nb_pages => InFile(d, write_node(q, ids))
      /\ \A q, id, row : q < d.nb_pages => InFile(d, insert(q, id, row))
      /\ \A q, id : q < d.nb_pages => InFile(d, insert_bt(q, id))
  BY InFileStores
<1>2. 0 < d.nb_pages /\ 1 < d.nb_pages /\ (DOMAIN d.tables # {} => d.nb_pages >= 5)
  BY FixedInFile
<1>3. d.nb_pages \in Nat /\ p.root \in Nat /\ p.n \in Nat /\ Width(p) \in {4, 5, 6}
  BY RowTypes, PlanTypes
<1>4. DOMAIN d.tables # {}
  BY DEF CreatingAs, Ready
<1>5. 2 < d.nb_pages /\ 3 < d.nb_pages /\ 4 < d.nb_pages
  BY <1>2, <1>3, <1>4
<1>6. ASSUME NEW m \in 1..4, AtHead(d, w, p, m)
      PROVE  InFile(d, w[1])
  <2>1. w[1] = HeadCell(p, m)
    BY <1>6, LeftHead DEF AtHead
  <2>2. m = 1 \/ m = 2 \/ m = 3 \/ m = 4
    OBVIOUS
  <2> QED
    BY <1>1, <1>2, <1>5, <2>1, <2>2 DEF HeadCell
<1>7. ASSUME NEW l \in 1..p.n, NEW m \in 1..Width(p), AtColumn(d, w, p, l, m)
      PROVE  InFile(d, w[1])
  <2>1. w[1] = Cell(p, l, m)
    <3>1. Left(w, p, At(p, l, m))
      BY <1>7 DEF AtColumn
    <3> QED
      BY <3>1, LeftHead
  <2>2. d.nb_pages = p.root + l + (IF m = 1 THEN 0 ELSE 1)
    BY <1>7 DEF AtColumn, ColumnsMade
  <2>3. l \in Nat /\ m \in Nat
    BY <1>3
  <2>4. CASE m = 1
    BY <1>1, <2>1, <2>4 DEF Cell
  <2>5. CASE m = 2
    <3>1. p.root + l < d.nb_pages
      BY <1>3, <2>2, <2>3, <2>5
    <3> QED
      BY <1>1, <2>1, <2>5, <3>1 DEF Cell
  <2>6. CASE m = 3
    BY <1>1, <2>1, <2>6 DEF Cell
  <2>7. CASE m = 4
    BY <1>1, <1>2, <2>1, <2>7 DEF Cell
  <2>8. CASE m > 4
    <3> DEFINE x == p.ents[m - 4]
    <3>1. x \in {-1, 3, 4}
      <4>1. Len(p.ents) \in {0, 1, 2} /\ Width(p) = 4 + Len(p.ents)
        BY PlanTypes DEF Width
      <4>2. m - 4 \in 1..Len(p.ents)
        BY <2>3, <2>8, <4>1
      <4> QED
        BY <4>2, PlanTypes
    <3>2. Cell(p, l, m) = IF x = -1 THEN Crashes ELSE insert_bt(x, p.first + l - 1)
      BY <2>3, <2>8 DEF Cell
    <3> HIDE DEF x
    <3> QED
      BY <1>1, <1>5, <2>1, <3>1, <3>2
  <2> QED
    BY <2>3, <2>4, <2>5, <2>6, <2>7, <2>8
<1>8. CASE AtRoot(d, w, p)
  <2>1. w[1] = write_node(p.root, {})
    BY <1>8, LeftHead DEF AtRoot
  <2>2. d.nb_pages = p.root + (p.n + 1) + 0
    BY <1>8 DEF AtRoot, ColumnsMade
  <2> QED
    BY <1>1, <1>3, <2>1, <2>2
<1> QED
  BY <1>6, <1>7, <1>8 DEF CreatingAs

LEMMA OperatingInFile ==
  ASSUME NEW d, Consistent(d), NEW n \in Nat, NEW w, w \in Seq(Stores), w # <<>>, Operating(d, w, n)
  PROVE  InFile(d, w[1])
<1>1. /\ InFile(d, create_addr) /\ InFile(d, Crashes) /\ \A t : InFile(d, get_next_id(t))
      /\ \A q, id, row : q < d.nb_pages => InFile(d, insert(q, id, row))
      /\ \A q, id : q < d.nb_pages => InFile(d, insert_bt(q, id))
  BY InFileStores
<1>2. 0 < d.nb_pages
  BY FixedInFile
<1>3. CASE RootMissing(d, w, n)
  <2>1. \E t : w[1] = get_next_id(t)
    BY <1>3 DEF RootMissing
  <2> QED
    BY <1>1, <2>1
<1>4. CASE \E t, k, s : Inserting(d, w, n, t, k, s)
  <2>1. PICK t, k, s : Inserting(d, w, n, t, k, s)
    BY <1>4
  <2>2. t \in DOMAIN d.tables /\ s \in 0..2
    BY <2>1 DEF Inserting
  <2>3. CASE s = 2
    BY <1>1, <2>1, <2>3 DEF Inserting
  <2>4. CASE s = 1
    <3>1. d.tables[t].root < d.nb_pages
      BY <2>2 DEF Consistent, TableRoots
    <3> QED
      BY <1>1, <2>1, <2>4, <3>1 DEF Inserting
  <2>5. CASE s = 0
    <3>1. 1 \in (s + 1)..Len(w)
      BY <2>5, RestOfStores
    <3>2. PICK root \in IndexesIn(d, t) : w[1] = insert_bt(root, k)
      BY <2>1, <3>1 DEF Inserting
    <3>3. root < d.nb_pages
      BY ColumnsThere DEF IndexesIn, Consistent, ColumnRoots
    <3> QED
      BY <1>1, <3>2, <3>3
  <2> QED
    BY <2>2, <2>3, <2>4, <2>5
<1>5. CASE Doomed(d, w, n)
  <2>1. CASE w[1] = Crashes \/ w[1] = create_addr
    BY <1>1, <2>1
  <2>2. CASE \E p \in Plans, m \in 1..3 : \A k \in m..3 : w[k - m + 1] = HeadCell(p, k)
    <3>1. PICK p \in Plans, m \in 1..3 : \A k \in m..3 : w[k - m + 1] = HeadCell(p, k)
      BY <2>2
    <3>2. m \in m..3 /\ m - m + 1 = 1
      OBVIOUS
    <3>3. w[1] = HeadCell(p, m)
      BY <3>1, <3>2
    <3>4. m = 1 \/ m = 2 \/ m = 3
      OBVIOUS
    <3> QED
      BY <1>1, <1>2, <3>3, <3>4 DEF HeadCell
  <2> QED
    BY <1>5, <2>1, <2>2 DEF Doomed
<1>6. CASE Creating(d, w, n)
  <2>1. \E p \in Plans : CreatingAs(d, w, p)
    BY <1>6 DEF Creating, CreatingAs, AtHead, AtColumn, AtRoot
  <2> QED
    BY <2>1, CreatingInFile
<1>7. CASE w = <<>>
  BY <1>7
<1> QED
  BY <1>3, <1>4, <1>5, <1>6, <1>7 DEF Operating

LEMMA IInvTypes == IInv => TypeOK
<1> SUFFICES ASSUME IInv
             PROVE  TypeOK
  OBVIOUS
<1>1. crashes \in 0..MaxCrashes /\ crashes \in Nat /\ todo \in Seq(Stores)
  BY CatalogAssumption DEF IInv
<1>2. /\ db.nb_pages \in 1..MaxPages
      /\ \A p \in Page : db.tree[p] = Zeros \/ db.tree[p] \subseteq Nat
      /\ DOMAIN db.tables = Ids(TABLES) /\ DOMAIN db.columns = Ids(COLUMNS)
  <2>1. CASE InitDb(db, 0)
    <3>1. 0 \in Page /\ 1 \in Page /\ 1 \in 1..MaxPages
      BY FixedPages, CatalogAssumption DEF Fixed
    <3> QED
      BY <2>1, <3>1, FirstDb, OfDb
  <2>2. CASE Consistent(db)
    <3>1. Typed(db)
      BY <2>2 DEF Consistent
    <3>2. db.nb_pages \in 1..MaxPages
      BY <3>1, CatalogAssumption DEF Typed
    <3>3. \A p \in Page : db.tree[p] = Zeros \/ db.tree[p] \subseteq Nat
      BY <3>1 DEF Typed, Tree
    <3>4. DOMAIN db.tables = Ids(TABLES) /\ DOMAIN db.columns = Ids(COLUMNS)
      BY <3>1, OfDb DEF Typed
    <3> QED
      BY <3>2, <3>3, <3>4
  <2> QED
    BY <2>1, <2>2, DbReached
<1>3. ASSUME NEW i \in 1..Len(todo), "page" \in DOMAIN todo[i]
      PROVE  todo[i].page \in Page
  <2>1. todo[i] \in Stores
    BY <1>1
  <2> QED
    BY <1>3, <2>1 DEF Stores
<1>4. ASSUME todo # <<>>
      PROVE  InFile(db, Head(todo))
  <2>1. Head(todo) = todo[1] /\ Len(todo) >= 1 /\ Len(todo) \in Nat
    BY <1>1, <1>4, RestOfStores
  <2>2. CASE Running
    BY <1>1, <1>4, <2>1, <2>2, OperatingInFile DEF Running
  <2>3. CASE Initialising
    <3>1. PICK k \in 0..25 : InitDb(db, k) /\ InitialRest(todo, k)
      BY <2>3 DEF Initialising
    <3>2. Len(todo) = 25 - k /\ \A i \in 1..(25 - k) : todo[i] = initialize_tables[k + i]
      BY <3>1 DEF InitialRest
    <3>3. k \in 0..24 /\ 1 \in 1..(25 - k)
      BY <2>1, <3>2
    <3> QED
      BY <2>1, <3>1, <3>2, <3>3, InitialInFile
  <2> QED
    BY <2>2, <2>3 DEF IInv
<1> QED
  BY <1>1, <1>2, <1>3, <1>4 DEF TypeOK, InFile

\* THEOREM: a tree was never written or is a set of ids, a store that is still to
\* be made has a page, and the next one a page that create_addr has handed out.
THEOREM CatalogTypeCorrect == Spec => []TypeOK
  BY CatalogInvariant, IInvTypes, PTL
=============================================================================
