------------------------------ MODULE Relations ------------------------------
(***************************************************************************)
(* What db_handle promises to who writes statements: tables with rows, and *)
(* an answer to each statement.  The tables TABLES and COLUMNS describe    *)
(* all tables, themselves included; a name added to TABLES is a table that *)
(* has no columns, and so never rows.  A statement without an answer may   *)
(* end the process, a statement with one may not.                          *)
(***************************************************************************)
EXTENDS Integers, Sequences, FiniteSets, SequencesExt, TLC

CONSTANTS Statements,           \* the sequences of statements that are sent
          TABLES, COLUMNS,      \* the names of the tables of the catalog
          NAMES, TABLE_IDX,     \* the names of their columns
          Text(_)               \* a number as a value

VARIABLES tables,               \* the tables of users, in the order of their creation
          pending,              \* the statements still to execute
          answers,              \* to those executed
          up                    \* whether the process runs

vars == <<tables, pending, answers, up>>

Table(name, columns, rows) == [name |-> name, columns |-> columns, rows |-> rows]

\* All tables: those of the catalog, with a row for each table and for each column
\* of each table, before those of users
Catalogued(users) ==
  LET all == <<Table(TABLES, <<NAMES>>, <<>>), Table(COLUMNS, <<TABLE_IDX, NAMES>>, <<>>)>> \o users
      ColumnRow(t, c) == (TABLE_IDX :> Text(t - 1)) @@ (NAMES :> all[t].columns[c]) IN
  [all EXCEPT ![1].rows = [t \in DOMAIN all |-> NAMES :> all[t].name],
              ![2].rows = FlattenSeq([t \in DOMAIN all |->
                            [c \in DOMAIN all[t].columns |-> ColumnRow(t, c)]])]

Named(all, name) == {t \in DOMAIN all : all[t].name = name}

\* The rows a select asks for, counted from 0.  TABLE_IDX holds numbers, and no
\* value of a statement is equal to a number.
Matching(table, cond) ==
  {id \in 0..(Len(table.rows) - 1) :
     \A i \in DOMAIN cond : /\ cond[i].col # TABLE_IDX
                            /\ table.rows[id + 1][cond[i].col] = cond[i].val}

\* A select has an answer if its table is there, once, it names columns of the
\* table, and there is a row to return.
HasRows(all, s) ==
  /\ s.type = "sel" /\ Cardinality(Named(all, s.table)) = 1
  /\ \A t \in Named(all, s.table) :
       /\ ToSet(s.columns) \subseteq ToSet(all[t].columns)
       /\ \A i \in DOMAIN s.cond : s.cond[i].col \in ToSet(all[t].columns)
       /\ Matching(all[t], s.cond) # {}

\* A row is added to a table that is there once, if it has a value for each
\* column; none is added to COLUMNS.
HasTable(all, s) ==
  /\ s.type = "add" /\ Cardinality(Named(all, s.table)) = 1
  /\ \A t \in Named(all, s.table) :
       /\ t # 2 /\ Len(s.columns) = Len(all[t].columns)
       /\ ToSet(s.columns) = ToSet(all[t].columns)
       /\ Cardinality(ToSet(s.columns)) = Len(s.columns)

HasAnswer(all, s) == s.type = "crt" \/ HasTable(all, s) \/ HasRows(all, s)

-----------------------------------------------------------------------------
\* Lines that are not statements may end the process before any of them is executed.
Send(statements) == /\ up /\ pending = <<>> /\ answers = <<>>
                    /\ pending' = statements
                    /\ \/ up' = TRUE
                       \/ up' = FALSE /\ \E i \in DOMAIN statements : statements[i].type = "unknown"
                    /\ UNCHANGED <<tables, answers>>

Answered(a) == answers' = Append(answers, a) /\ pending' = Tail(pending) /\ UNCHANGED up

Create(s) == /\ s.type = "crt" /\ tables' = Append(tables, Table(s.table, s.columns, <<>>))
             /\ Answered([is |-> "created"])

Insert(all, s) ==
  /\ HasTable(all, s)
  /\ \E t \in Named(all, s.table) :
       LET row == [c \in ToSet(s.columns) |->
                     s.values[CHOOSE i \in DOMAIN s.columns : s.columns[i] = c]] IN
       /\ tables' = IF t = 1 THEN Append(tables, Table(row[NAMES], <<>>, <<>>))
                    ELSE [tables EXCEPT ![t - 2].rows = Append(@, row)]
       /\ Answered([is |-> "added", id |-> Len(all[t].rows)])

\* All columns are returned in any order.
Select(all, s) ==
  /\ HasRows(all, s)
  /\ \E t \in Named(all, s.table) :
     \E columns \in IF s.columns = <<>> THEN SetToSeqs(ToSet(all[t].columns)) ELSE {s.columns} :
       Answered([is |-> "rows", columns |-> columns,
                 rows |-> [id \in Matching(all[t], s.cond) |->
                             [i \in DOMAIN columns |-> all[t].rows[id + 1][columns[i]]]]])
  /\ UNCHANGED tables

Refuse(all, s) == ~HasAnswer(all, s) /\ Answered([is |-> "none"]) /\ UNCHANGED tables

Stop(all, s) == ~HasAnswer(all, s) /\ up' = FALSE /\ UNCHANGED <<tables, pending, answers>>

Execute == LET all == Catalogued(tables)
               s == Head(pending) IN
           /\ up /\ pending # <<>>
           /\ Create(s) \/ Insert(all, s) \/ Select(all, s) \/ Refuse(all, s) \/ Stop(all, s)

\* The answers are sent when the last statement of the line has been executed.
Reply == /\ up /\ pending = <<>> /\ answers # <<>>
         /\ answers' = <<>> /\ UNCHANGED <<tables, pending, up>>

Init == tables = <<>> /\ pending = <<>> /\ answers = <<>> /\ up = TRUE

Next == Execute \/ Reply \/ \E statements \in Statements : Send(statements)

Spec == Init /\ [][Next]_vars
=============================================================================
