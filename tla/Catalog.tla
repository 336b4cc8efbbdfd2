------------------------------- MODULE Catalog -------------------------------
(***************************************************************************)
(* The catalog of server-side/schema/db_ops.c: the table TABLES names the  *)
(* root of every table and its next id, the table COLUMNS the root of the  *)
(* index of every column, and three indexes find tables by name and        *)
(* columns by table and by name.  initialize_tables, create_table and      *)
(* advanced_insert_row change several trees, one store after the other,    *)
(* and the process may end between any two.                                *)
(*                                                                         *)
(* A tree is the set of its ids: a table implements Table (TableTree), and *)
(* an index is taken to answer exactly (see IndexTree for when it does).   *)
(* The threads of the server take turns, so what an operation reads does   *)
(* not change under it, and it is the sequence of its stores.              *)
(***************************************************************************)
EXTENDS Integers, Sequences, FiniteSets, SequencesExt, Schema

CONSTANTS Name,         \* names of the tables of users
          MaxColumns,   \* bound on the columns of a table
          MaxPages,     \* bound on the pages of the file
          MaxRows,      \* bound on the rows of a table
          MaxCrashes    \* bound on the ends of the process

ASSUME CatalogAssumption == /\ {MaxColumns, MaxRows, MaxCrashes} \subseteq Nat
                            /\ MaxPages \in Nat /\ MaxPages >= 5

Page == 0..(MaxPages - 1)
Zeros == {-1}           \* the tree at a page that was never written

\* A row of TABLES; nb_cols is auxiliary, the columns create_table was given.
TablesRow(name, root, next_id, nb_cols) ==
  [name |-> name, root |-> root, next_id |-> next_id, nb_cols |-> nb_cols]
\* A row of COLUMNS, whose names are as good as their offsets
ColumnsRow(table, offset, root) == [table |-> table, offset |-> offset, root |-> root]
\* A row of a table of a user
UserRow == [user |-> TRUE]

VARIABLES db,           \* the file as the process sees it: nb_pages, the tree at
                        \* every page, the rows of TABLES and COLUMNS by their ids
          file,         \* the file as the system has it: one store behind (PageStore)
          todo,         \* the stores the operation in progress has still to make
          crashes       \* how many processes have ended

vars == <<db, file, todo, crashes>>

-----------------------------------------------------------------------------
\* The stores: create_addr saves the header, create_node and write_node make an
\* empty tree, get_next_id replaces a record, insert adds a row, insert_bt an entry.
create_addr == [at |-> "header"]
write_node(page, ids) == [at |-> "node", page |-> page, ids |-> ids]
get_next_id(table) == [at |-> "next_id", table |-> table]
insert(root, id, row) == [at |-> "row", page |-> root, id |-> id, row |-> row]
insert_bt(root, id) == [at |-> "entry", page |-> root, id |-> id]
\* No store: find_all has found nothing, in an index of zeros too, and the process ends.
Crashes == [at |-> "crash"]

\* A row takes the place of one with its id.
WithRow(rows, id, row) == [i \in DOMAIN rows \union {id} |-> IF i = id THEN row ELSE rows[i]]

Stored(d, s) ==
  CASE s.at = "header"  -> [d EXCEPT !.nb_pages = @ + 1]
    [] s.at = "node"    -> [d EXCEPT !.tree[s.page] = s.ids]
    [] s.at = "next_id" -> [d EXCEPT !.tables[s.table].next_id = @ + 1]
    [] s.at = "row"     -> [d EXCEPT !.tree[s.page] = @ \union {s.id},
                                     !.tables = IF s.page = TABLES THEN WithRow(@, s.id, s.row) ELSE @,
                                     !.columns = IF s.page = COLUMNS THEN WithRow(@, s.id, s.row) ELSE @]
    [] s.at = "entry"   -> [d EXCEPT !.tree[s.page] = @ \union {s.id}]

Ids(page) == db.tree[page] \ Zeros

\* find_all in TABLES_NAMES and in COLUMNS_TIDX
TablesNamed(name) == {t \in Ids(TABLES_NAMES) : db.tables[t].name = name}
ColumnsOf(table) == {c \in Ids(COLUMNS_TIDX) : db.columns[c].table = table}
Indexes(table) == {db.columns[c].root : c \in ColumnsOf(table)}

\* -1 is for a table that has no row in TABLES, and insert_row fails.
NewId(table) == IF table \in DOMAIN db.tables THEN db.tables[table].next_id ELSE -1

\* Mutant: the next id is stored after the row.
InsertRowBeforeId(table, id, row) ==
  IF table \notin DOMAIN db.tables THEN <<>>
  ELSE <<insert(db.tables[table].root, id, row), get_next_id(table)>>

insert_row(table, id, row) ==
  IF table \notin DOMAIN db.tables THEN <<>>
  ELSE <<get_next_id(table), insert(db.tables[table].root, id, row)>>

\* insert_bt fails on an index of zeros, and advanced_insert_row returns without
\* the indexes behind it.
Reached(indexes) == {i \in 1..Len(indexes) : \A j \in 1..i : db.tree[indexes[j]] # Zeros}
IntoIndexes(id, indexes) ==
  IF indexes = <<>> THEN <<Crashes>> ELSE [i \in Reached(indexes) |-> insert_bt(indexes[i], id)]

\* Mutant: the row comes after its entries.
EntriesBeforeRow(table, id, row, indexes) ==
  IntoIndexes(id, indexes) \o insert_row(table, id, row)

\* Mutant: the last of several indexes is forgotten.
LastIndexForgotten(table, id, row, indexes) ==
  insert_row(table, id, row) \o IntoIndexes(id, IF Len(indexes) > 1 THEN Front(indexes) ELSE indexes)

\* advanced_insert_row: the row, and its id in the index of every column, in the
\* order in which find_all gives the columns
WithEntries(table, id, row, indexes) ==
  insert_row(table, id, row) \o IntoIndexes(id, indexes)

-----------------------------------------------------------------------------
\* initialize_tables: the stores that make the catalog, the two tables and their
\* three columns in it
InitialRow(id) == <<get_next_id(COLUMNS), insert(COLUMNS, id,
                      CASE id = 0 -> ColumnsRow(TABLES, 0, TABLES_NAMES)
                        [] id = 1 -> ColumnsRow(COLUMNS, 0, COLUMNS_TIDX)
                        [] id = 2 -> ColumnsRow(COLUMNS, 1, COLUMNS_NAMES))>>
InitialIndex(root) == <<write_node(root, {})>> \o [i \in 1..3 |-> insert_bt(root, i - 1)]

initialize_tables ==
  [i \in 1..4 |-> create_addr]
  \o <<write_node(TABLES, {}), insert(TABLES, TABLES, TablesRow("TABLES", TABLES, 1, 1))>>
  \o <<write_node(TABLES_NAMES, {TABLES})>>
  \o <<get_next_id(TABLES), insert(TABLES, COLUMNS, TablesRow("COLUMNS", COLUMNS, 0, 2)),
       write_node(COLUMNS, {}), insert_bt(TABLES_NAMES, COLUMNS)>>
  \o InitialRow(0) \o InitialRow(1) \o InitialRow(2)
  \o InitialIndex(COLUMNS_TIDX) \o InitialIndex(COLUMNS_NAMES)

\* init_database at the start of a process: the tables are missing when the file
\* has one page.
StartUp(d) == IF d.nb_pages = 1 THEN initialize_tables ELSE <<>>

\* Mutant: the page of a column is counted from that of the root.
ColumnPageFromRoot(i) == db.nb_pages + i - 1

\* The page create_addr returns for column i, after that of the root
ColumnPage(i) == db.nb_pages + i

\* Mutant: the page of a column is not handed out.
ColumnPageNotMade(i) == <<write_node(ColumnPage(i), {})>>

\* The empty index of column i
ColumnIndex(i) == <<create_addr, write_node(ColumnPage(i), {})>>

Column(id, i, indexes) ==
  ColumnIndex(i) \o WithEntries(COLUMNS, NewId(COLUMNS) + i - 1,
                                ColumnsRow(id, i - 1, ColumnPage(i)), indexes)
TableRow(id, name, nb_cols) ==
  WithEntries(TABLES, id, TablesRow(name, db.nb_pages, 0, nb_cols), SetToSeq(Indexes(TABLES)))

\* Mutant: the root of the table is written before its columns.
RootFirst(name, nb_cols, indexes) ==
  LET id == NewId(TABLES) IN
  <<create_addr, write_node(db.nb_pages, {})>>
  \o TableRow(id, name, nb_cols)
  \o FlattenSeq([i \in 1..nb_cols |-> Column(id, i, indexes)])

\* create_table: the row in TABLES, then for each column its index and its row in
\* COLUMNS, and the root of the table last.  Nobody looks for the name first, nor
\* whether initialize_tables was finished, nor whether the row of a column has
\* reached its indexes.
NewTable(name, nb_cols, indexes) ==
  LET id == NewId(TABLES) IN
  <<create_addr>>
  \o TableRow(id, name, nb_cols)
  \o FlattenSeq([i \in 1..nb_cols |-> Column(id, i, indexes)])
  \o <<write_node(db.nb_pages, {})>>

create_table(name, nb_cols) ==
  /\ todo = <<>>
  /\ db.nb_pages + 1 + nb_cols <= MaxPages
  /\ \E indexes \in SetToSeqs(Indexes(COLUMNS)) : todo' = NewTable(name, nb_cols, indexes)
  /\ UNCHANGED <<db, file, crashes>>

\* The table the row goes to is found by its name, which must be there once, and
\* the row has the columns that are found.  A root of zeros makes insert fail
\* when the id is already taken.
advanced_insert_row(table) ==
  /\ todo = <<>>
  /\ table \notin {TABLES, COLUMNS}
  /\ TablesNamed(db.tables[table].name) = {table} /\ ColumnsOf(table) # {}
  /\ NewId(table) < MaxRows
  /\ \E indexes \in SetToSeqs(Indexes(table)) :
       todo' = IF db.tree[db.tables[table].root] = Zeros THEN <<get_next_id(table)>>
               ELSE WithEntries(table, NewId(table), UserRow, indexes)
  /\ UNCHANGED <<db, file, crashes>>

Crashing == todo # <<>> /\ Head(todo) = Crashes
Store == /\ todo # <<>> /\ ~Crashing
         /\ db' = Stored(db, Head(todo)) /\ file' = db
         /\ todo' = Tail(todo)
         /\ UNCHANGED crashes

\* The process ends and the next one opens the file.  A process that crashes has
\* no exit handler to write its buffer out.
Crash(d) == /\ crashes < MaxCrashes /\ crashes' = crashes + 1
            /\ db' = d /\ file' = d
            /\ todo' = StartUp(d)
Exit == ~Crashing /\ Crash(db)
Kill == Crash(file)

Init == /\ db = [nb_pages |-> 1, tree |-> [p \in Page |-> Zeros],
                 tables |-> <<>>, columns |-> <<>>]
        /\ file = db
        /\ todo = StartUp(db)
        /\ crashes = 0

Next == \/ \E name \in Name, nb_cols \in 1..MaxColumns : create_table(name, nb_cols)
        \/ \E table \in DOMAIN db.tables : advanced_insert_row(table)
        \/ Store \/ Exit \/ Kill

Spec == Init /\ [][Next]_vars

-----------------------------------------------------------------------------
\* TYPE: a tree is never written or a set of ids, and a store of an operation in
\* progress goes to a page of the file.
TypeOK == /\ db.nb_pages \in 1..MaxPages /\ crashes \in 0..MaxCrashes
          /\ \A p \in Page : db.tree[p] = Zeros \/ db.tree[p] \subseteq Nat
          /\ DOMAIN db.tables = Ids(TABLES) /\ DOMAIN db.columns = Ids(COLUMNS)
          /\ \A i \in 1..Len(todo) : "page" \in DOMAIN todo[i] => todo[i].page \in Page
          /\ todo # <<>> /\ "page" \in DOMAIN Head(todo) => Head(todo).page < db.nb_pages

\* Whenever the process ends, every entry of an index has its row: comparing two
\* entries reads the rows of both (get_n_record), and a row that is missing is a
\* NULL that compare_r dereferences.
EntriesHaveRows ==
  /\ Ids(TABLES_NAMES) \subseteq DOMAIN db.tables
  /\ Ids(COLUMNS_TIDX) \union Ids(COLUMNS_NAMES) \subseteq DOMAIN db.columns
  /\ \A c \in DOMAIN db.columns :
       LET column == db.columns[c] IN
       /\ column.table \in DOMAIN db.tables
       /\ column.table \notin {TABLES, COLUMNS} =>
            Ids(column.root) \subseteq Ids(db.tables[column.table].root)

\* A row is in the index of every column of its table, but for one row for each
\* process that ended inside an insert, and the one in progress.
Unindexed == UNION {{<<t, id>> : id \in {i \in Ids(db.tables[t].root) :
                                           \E root \in Indexes(t) : i \notin db.tree[root]}} :
                    t \in DOMAIN db.tables \ {TABLES, COLUMNS}}
RowsIndexed == Cardinality(Unindexed) <= crashes + (IF todo = <<>> THEN 0 ELSE 1)

\* A table whose root is written has its name and all its columns, each once, with
\* an index and found: create_table writes the root last, so a process that ends
\* inside it leaves a table that takes no rows, never one that misses columns.  Only
\* if initialize_tables ended before COLUMNS_NAMES was written may the columns of a
\* table not be found, none of them: no row has then reached COLUMNS_TIDX.
RootMarksWholeTable ==
  \A t \in DOMAIN db.tables \ {TABLES, COLUMNS} :
    LET columns == {c \in DOMAIN db.columns : db.columns[c].table = t} IN
    db.tree[db.tables[t].root] # Zeros =>
      /\ t \in db.tree[TABLES_NAMES]
      /\ {db.columns[c].offset : c \in columns} = 0..(db.tables[t].nb_cols - 1)
      /\ Cardinality(columns) = db.tables[t].nb_cols
      /\ \A c \in columns : db.tree[db.columns[c].root] # Zeros
      /\ ColumnsOf(t) = columns \/ (ColumnsOf(t) = {} /\ db.tree[COLUMNS_NAMES] = Zeros)

\* The next id of a table is above those of its rows, so that no row takes the
\* place of another after a process has ended between the two stores.
NextIdsAbove == \A t \in DOMAIN db.tables : \A id \in Ids(db.tables[t].root) : id < NewId(t)

\* fileSpecification.md: every page has a single use.  No page is the root of two
\* trees, and all are pages of the file.
Roots == {db.tables[t].root : t \in DOMAIN db.tables} \union {db.columns[c].root : c \in DOMAIN db.columns}
PagesHaveOneUse == /\ Roots \subseteq 0..(db.nb_pages - 1)
                   /\ Cardinality(Roots) = Cardinality(DOMAIN db.tables) + Cardinality(DOMAIN db.columns)
=============================================================================
