------------------------------ MODULE Statements ------------------------------
(***************************************************************************)
(* db_handle of server-side/core/core.c: a line is parsed, and its         *)
(* instructions are executed on the tables of server-side/schema/db_ops.c. *)
(*                                                                         *)
(* Rows are the buffers of RecordCodec, those of TABLES and COLUMNS too,   *)
(* and are only read and written through it.  A table is its rows by their *)
(* ids (TableTree), an index the ids it has, which find_all searches       *)
(* exactly, in no fixed order among equal values (IndexTree says when).    *)
(* No process ends inside an instruction other than by its own doing       *)
(* (Catalog has the crashes).  What db_handle prints of the instructions   *)
(* as it has parsed them is left out of the answers.                       *)
(***************************************************************************)
EXTENDS Parser, RecordCodec, Schema, TLC

CONSTANTS Lines,        \* what is sent: the symbols (text) and what they say by
                        \* client-side/query_format.md (says)
          Departures,   \* of the texts that the code is known to take for something
                        \* else than they say, what it takes them for
          MaxTables,    \* bound on the tables of users
          MaxRows       \* bound on the rows of a table of a user

ASSUME StatementsAssumption == {MaxTables, MaxRows} \subseteq Nat

VARIABLES db,           \* the rows by page and id, the ids by page of an index, and
                        \* the number of pages
          todo,         \* the instructions of the line still to execute
          answers,      \* what those executed have written, the contents of f
          status,       \* of the process: "up", "ended", "undefined"
          meant,        \* auxiliary: what the line says of todo
          tables        \* auxiliary: the tables of users that db describes

vars == <<db, todo, answers, status, meant, tables>>

TABLES_word == <<210>>
COLUMNS_word == <<211>>
NAMES_word == <<212>>
TABLE_IDX_word == <<213, 95, 214>>      \* an underscore is in no identifier

-----------------------------------------------------------------------------
\* Rows and records of a database d
get_n_record(d, root, id, n) == extract_record(d.rows[root][id], n)
set_n_record(d, root, id, n, record) ==
  [d EXCEPT !.rows[root][id] = replace_record(@, n, record)]

find_all(d, index, key, n, table) ==
  {id \in d.index[index] : compare_r(key, get_n_record(d, table, id, n)) = 0}

TablesNamed(d, name) == find_all(d, TABLES_NAMES, record_from_string(name), 0, TABLES)
ColumnsOf(d, table) == find_all(d, COLUMNS_TIDX, record_from_long(table), 0, COLUMNS)

get_table_addr(d, table) == record_get_long(get_n_record(d, TABLES, table, 1))
next_id(d, table) == record_get_long(get_n_record(d, TABLES, table, 2))
column_name(d, column) == record_get_string(get_n_record(d, COLUMNS, column, 1))
column_offset(d, column) == record_get_short(get_n_record(d, COLUMNS, column, 2))
column_root(d, column) == record_get_long(get_n_record(d, COLUMNS, column, 3))

\* A row of TABLES that an add has stored is a name only: there is no address to
\* extract, and what lies behind the buffer is read instead.
HasRoot(d, table) == LET buffer == d.rows[TABLES][table] IN Offset(buffer, 1) <= Len(buffer)

insert_row(d, table, records) ==
  LET id == next_id(d, table) IN
  [set_n_record(d, TABLES, table, 2, record_from_long(id + 1))
     EXCEPT !.rows[get_table_addr(d, table)] = (id :> compress_records(records)) @@ @]

\* The row, and its id in the index of every column
advanced_insert_row(d, table, records) ==
  LET inserted == insert_row(d, table, records)
      roots == {column_root(inserted, c) : c \in ColumnsOf(inserted, table)} IN
  [inserted EXCEPT !.index =
     [root \in DOMAIN @ |-> @[root] \union IF root \in roots THEN {next_id(d, table)} ELSE {}]]

-----------------------------------------------------------------------------
\* create_table: a page for the root and a row in TABLES, for each column a page
\* with an empty index and a row in COLUMNS, then the empty root.
create_table(d, name, columns) ==
  LET id == next_id(d, TABLES)
      named == advanced_insert_row([d EXCEPT !.nb_pages = @ + 1], TABLES,
                 <<record_from_string(name), record_from_long(d.nb_pages), record_from_long(0)>>)
      Column(e, i) ==
        advanced_insert_row([e EXCEPT !.nb_pages = @ + 1, !.index = (e.nb_pages :> {}) @@ @], COLUMNS,
          <<record_from_long(id), record_from_string(columns[i]),
            record_from_short(i - 1), record_from_long(e.nb_pages)>>)
  IN [FoldLeft(Column, named, [i \in 1..Len(columns) |-> i])
        EXCEPT !.rows = (d.nb_pages :> <<>>) @@ @]

\* Mutant: the offsets are the places of the names among those given.
OffsetsAsGiven(d, columns, names) == [i \in DOMAIN names |-> i - 1]

\* get_column_offsets: of every name, that of the first column that has it; -1 if
\* none has
get_column_offsets(d, columns, names) ==
  [i \in DOMAIN names |->
     LET found == {j \in DOMAIN columns : column_name(d, columns[j]) = names[i]} IN
     IF found = {} THEN -1 ELSE column_offset(d, columns[Min(found)])]

print_row(buffer, offsets) ==
  [i \in DOMAIN offsets |-> record_get_string(extract_record(buffer, offsets[i]))]

\* The names of all columns, when none is given
Wanted(d, columns, names) ==
  IF names = <<>> THEN [i \in DOMAIN columns |-> column_name(d, columns[i])] ELSE names

Table(d, root, ids, offsets, names) ==
  [is |-> "rows", columns |-> names, rows |-> [id \in ids |-> print_row(d.rows[root][id], offsets)]]
Null == [is |-> "none"]         \* the NULL of a select, or no answer at all

-----------------------------------------------------------------------------
\* Auxiliary: what the rows of TABLES and COLUMNS say of a table, and the buffers
\* of its root hold
TableAt(d, table) ==
  LET rows == IF HasRoot(d, table) THEN d.rows[get_table_addr(d, table)] ELSE <<>>
      ids == {c \in DOMAIN d.rows[COLUMNS] : record_get_long(get_n_record(d, COLUMNS, c, 0)) = table}
      columns == SetToSortSeq(ids, LAMBDA c, e : column_offset(d, c) < column_offset(d, e))
      names == [i \in DOMAIN columns |-> column_name(d, columns[i])]
      Row(buffer) == [i \in DOMAIN columns |-> record_get_string(extract_record(buffer, i - 1))] IN
  [name |-> record_get_string(get_n_record(d, TABLES, table, 0)),
   columns |-> names,
   rows |-> [id \in 1..Cardinality(DOMAIN rows) |->
               LET row == Row(rows[id - 1]) IN
               [c \in ToSet(names) |-> row[CHOOSE i \in DOMAIN names : names[i] = c]]]]
Described(d) == [t \in 1..(Cardinality(DOMAIN d.rows[TABLES]) - 2) |-> TableAt(d, t + 1)]

-----------------------------------------------------------------------------
\* parse_user_input reads the whole line before anything is executed.
ParsedTexts == [text \in {line.text : line \in Lines} |-> parse_user_input(text)]
Taken(line) == IF line.text \in DOMAIN Departures THEN Departures[line.text] ELSE line.says

Receive(line) ==
  LET parsed == ParsedTexts[line.text]
      bad == {i \in DOMAIN parsed : parsed[i].fate # "up"} IN
  /\ status = "up" /\ todo = <<>> /\ answers = <<>>
  /\ status' = IF bad = {} THEN "up" ELSE parsed[Min(bad)].fate
  /\ todo' = [i \in DOMAIN parsed |-> parsed[i].instr]
  /\ meant' = Taken(line)
  /\ UNCHANGED <<db, answers, tables>>

Executing(type) == status = "up" /\ todo # <<>> /\ Head(todo).type = type
Answered(d, a) == /\ db' = d /\ tables' = Described(d)
                  /\ answers' = Append(answers, a)
                  /\ todo' = Tail(todo) /\ meant' = Tail(meant) /\ UNCHANGED status
Fate(fate) == status' = fate /\ UNCHANGED <<db, todo, answers, meant, tables>>

\* db_handle returns, and its thread sends the answers.
Reply == /\ status = "up" /\ todo = <<>> /\ answers # <<>>
         /\ answers' = <<>> /\ UNCHANGED <<db, todo, status, meant, tables>>

UnknownInstr == Executing("unknown") /\ Answered(db, Null)

\* Nobody looks whether the name is taken.
CrtInstr == LET instr == Head(todo) IN
            /\ Executing("crt")
            /\ Cardinality(DOMAIN db.rows[TABLES]) < MaxTables + 2
            /\ Answered(create_table(db, instr.table, instr.columns), [is |-> "created"])

Crashes == -2           \* no value: the process ends before there is one

\* Mutant: of several tables of a name the first is taken.
FirstTable(d, name) ==
  LET named == TablesNamed(d, name) IN
  IF named = {} THEN Crashes ELSE Min(named)

\* get_table_id: find_all ends the process if no table has the name
get_table_id(d, name) ==
  LET named == TablesNamed(d, name) IN
  CASE named = {} -> Crashes [] Cardinality(named) > 1 -> -1 [] OTHER -> Min(named)

\* The record of every value goes to the offset of its column, in an array of as
\* many as there are values: unless these are exactly the columns of the table, a
\* record is stored out of the array, or one is missing.  get_column_offsets of a
\* table without columns, or of the table -1, finds none, which ends the process.
\* TABLES is a table like any other, of one column: a name that is added to it is
\* a row without the other records.  The columns of COLUMNS cannot all be named.
AddInstr ==
  LET instr == Head(todo)
      table == get_table_id(db, instr.table) IN
  /\ Executing("add")
  /\ IF table \in {Crashes, -1} \/ ColumnsOf(db, table) = {} THEN Fate("ended")
     ELSE \E columns \in SetToSeqs(ColumnsOf(db, table)) :
            LET offsets == get_column_offsets(db, columns, instr.columns)
                size == Len(instr.columns)
                Record(offset) == record_from_string(
                  instr.values[CHOOSE i \in 1..size : offsets[i] = offset]) IN
            IF size = Len(columns) /\ ToSet(offsets) = 0..(size - 1)
            THEN /\ next_id(db, table) < IF table = TABLES THEN MaxTables + 2 ELSE MaxRows
                 /\ Answered(advanced_insert_row(db, table, [n \in 1..size |-> Record(n - 1)]),
                             [is |-> "added", id |-> next_id(db, table)])
            ELSE Fate("undefined")

\* select_all: a name that is there twice has the answer NULL; the first cell of
\* a table without rows is read through NULL; a column that the table does not
\* have has the offset -1, for which extract_record leaves the buffer.
SelectAll ==
  LET instr == Head(todo)
      table == get_table_id(db, instr.table) IN
  /\ Executing("sel") /\ instr.cond = <<>>
  /\ CASE table = Crashes -> Fate("ended")
       [] table = -1 -> Answered(db, Null)
       [] table >= 0 /\ ~HasRoot(db, table) -> Fate("undefined")
       [] OTHER ->
            LET root == get_table_addr(db, table)
                ids == DOMAIN db.rows[root] IN
            \E columns \in SetToSeqs(ColumnsOf(db, table)) :
              LET names == Wanted(db, columns, instr.columns)
                  offsets == get_column_offsets(db, columns, names) IN
              CASE ids = {} -> Fate("ended")
                [] -1 \in ToSet(offsets) -> Fate("undefined")
                [] OTHER -> Answered(db, Table(db, root, ids, offsets, names))

\* select_where: of the column of the condition, the offset and the index; no row
\* with the value ends the process in find_all, as the table -1 does.
SelectWhere ==
  LET instr == Head(todo)
      table == get_table_id(db, instr.table) IN
  /\ Executing("sel") /\ instr.cond # <<>>
  /\ IF table \in {Crashes, -1} THEN Fate("ended")
     ELSE IF ~HasRoot(db, table) THEN Fate("undefined")
     ELSE \E columns \in SetToSeqs(ColumnsOf(db, table)) :
            LET root == get_table_addr(db, table)
                cond == instr.cond[1]
                found == {j \in DOMAIN columns : column_name(db, columns[j]) = cond.col}
                where_col == columns[Min(found)]
                ids == find_all(db, column_root(db, where_col), record_from_string(cond.val),
                                column_offset(db, where_col), root)
                names == Wanted(db, columns, instr.columns)
                offsets == get_column_offsets(db, columns, names) IN
            CASE found = {} -> Answered(db, Null)
              [] ids = {} -> Fate("ended")
              [] -1 \in ToSet(offsets) -> Fate("undefined")
              [] OTHER -> Answered(db, Table(db, root, ids, offsets, names))

-----------------------------------------------------------------------------
\* What initialize_tables leaves in a new file
InitialColumn(table, name, offset, root) ==
  compress_records(<<record_from_long(table), record_from_string(name),
                     record_from_short(offset), record_from_long(root)>>)
InitialTable(name, root, nb_rows) ==
  compress_records(<<record_from_string(name), record_from_long(root), record_from_long(nb_rows)>>)
InitialDb ==
  [nb_pages |-> 5,
   rows |-> (TABLES :> ((TABLES :> InitialTable(TABLES_word, TABLES, 2)) @@
                        (COLUMNS :> InitialTable(COLUMNS_word, COLUMNS, 3)))) @@
            (COLUMNS :> ((0 :> InitialColumn(TABLES, NAMES_word, 0, TABLES_NAMES)) @@
                         (1 :> InitialColumn(COLUMNS, TABLE_IDX_word, 0, COLUMNS_TIDX)) @@
                         (2 :> InitialColumn(COLUMNS, NAMES_word, 1, COLUMNS_NAMES)))),
   index |-> (TABLES_NAMES :> {TABLES, COLUMNS}) @@ (COLUMNS_TIDX :> 0..2) @@ (COLUMNS_NAMES :> 0..2)]

Init == db = InitialDb /\ todo = <<>> /\ answers = <<>> /\ status = "up" /\ meant = <<>> /\ tables = <<>>

Next == \/ \E line \in Lines : Receive(line)
        \/ Reply \/ UnknownInstr \/ CrtInstr \/ AddInstr \/ SelectAll \/ SelectWhere

Spec == Init /\ [][Next]_vars

-----------------------------------------------------------------------------
\* TYPE: what is to do is what was meant by as many instructions.
TypeOK == /\ status \in {"up", "ended", "undefined"}
          /\ Len(todo) = Len(meant)
          /\ DOMAIN db.rows \intersect DOMAIN db.index = {}
          /\ DOMAIN db.rows \union DOMAIN db.index = 0..(db.nb_pages - 1)

\* A line is understood as what it says by query_format.md, whatever its spaces, and
\* what is no statement there is not taken for one (parse_user_input), but for the
\* Departures: a semicolon in quotes ends a statement, words behind a statement are
\* dropped, and the types of columns may be any word.
UnderstoodAsMeant == status = "up" => todo = meant

\* Once a name is there twice, as after a retry of a create that was not seen to
\* succeed, or an add to TABLES of a name that is taken, neither of its tables
\* changes any more (get_table_id).
NamedTwiceIsFrozen ==
  [][\A i, j \in DOMAIN tables :
       i # j /\ tables[i].name = tables[j].name => tables'[i] = tables[i]]_vars

Promise == INSTANCE Relations WITH
  Statements <- {Taken(line) : line \in Lines},
  TABLES <- TABLES_word, COLUMNS <- COLUMNS_word, NAMES <- NAMES_word, TABLE_IDX <- TABLE_IDX_word,
  Text <- LAMBDA n : <<Digit(n)>>, pending <- meant, up <- (status = "up")

\* Parser, handler, catalog and codec together do what Relations promises: every
\* statement gets the answer of a relation, in every order of its columns, and
\* only one that has none ends the process.
ImplementsRelations == Promise!Spec
=============================================================================
