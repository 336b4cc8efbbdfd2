# A verification of YACDB in TLA+

YACDB is a small database server in C: tables are B+-trees and their indexes
B-trees of row ids, in one file of 512-byte pages, behind a cache of nodes;
clients send lines over TCP to a process with one thread per connection.  This
directory holds TLA+ modules translated from that code, the TLC configurations
that check them on small instances, and proofs of theorems about them that the
TLA+ proof system checks.  `PROJECT.json` lists the components, runs, mutants,
findings, hazards and theorems, and maps every definition to the lines it
models.  Paths below are relative to `src/server-side`.

## Inventory

| Component | Code | State | Operations | Modules |
| --- | --- | --- | --- | --- |
| Page store | `diskio/diskio.c` | `db.header` (pages, free pages, first free page), the file, the buffer of its stream | `init_db`, `create_addr`, `free_page`, `save_header`, `read_page`, `write_page` | `PageStore` |
| Node cache and node I/O | `diskio/diskio.c` | `db.cache`, `db.cache_size` | `read_node`, `write_node`, `remove_node`, `add_to_cache`, `get_from_cache` | `NodeCache`, abstractly `NodeMemory` |
| Overflow pages | `diskio/diskio.c` | chains of pages | `write_overflow`, `get_overflow_data`, `free_linked_overflow_pages` | outcome only, in `NodeCache` |
| Table tree | `schema/cursor.c` | nodes, the nodes an insert holds | `find_leaf`, `insert`, `insert_internal`, `split_*`, `create_root`, `create_at_start`, `cursor_next` | `TableTree`, abstractly `Table` |
| Index tree | `schema/cursor_bt.c` | the same | `find_bt`, `find_bt_leaf`, `find_all`, `cursor_next_bt`, `insert_bt`, `insert_internal_bt`, `split_bt_node`, `create_root_bt` | `IndexTree` |
| Catalog and queries | `schema/db_ops.c` | the tables TABLES and COLUMNS and their three indexes | `initialize_tables`, `create_table`, `advanced_insert_row`, `get_next_id`, `select_all`, `select_where` | `Catalog` store by store, `Statements` with the records; scans and searches in `TableTree`, `IndexTree` |
| Record codec | `schema/record.c` | none | `compress_records`, `extract_record`, `replace_record`, `compare_r`, the conversions | `RecordCodec`, run by `Statements` |
| Parser | `parser/*.c` | none | `parse_user_input` | `Parser`, run by `Statements` |
| Command handler | `core/core.c` | the instructions of a line, the answers | `db_handle` | `Statements`, abstractly `Relations`; one action of `Server` |
| Server threads | `server.c` | sockets and pipes by number, `new_socket`, the semaphore | `main`, `process_communication`, `exit_thread`, `sigintHandler` | `Server` |
| Client | `../client-side/client.c` | its socket | `send_line_receive_response` | three actions of `Server` |
| Earlier trees | `../table_tree/nodes.c`, `../index_tree/indexTree.c` | a tree in memory | insert, search, delete, list; not part of the server | `MemoryTree` |
| Console, demo, earlier tables | `main.c`, `diskio/disckiod.c`, `../table_tree/instructions_to_tree.c` | | not part of the server | none |

**How they interact.**  A thread of the server calls `db_handle` under the
semaphore; that calls the parser and `db_ops.c`; an insert goes to the tree of
the table and to one index per column; the trees call `read_node`, `write_node`
and `create_addr`; these go through the cache to the page store and to one stdio
stream.  Nothing below the semaphore has a lock of its own.  Nothing is called
back, and no operation undoes another: there is no transaction and no journal.

**What is hard.**

* The process ends at any write: by `exit(0)` in the handler of SIGINT, while
  other threads are inside inserts, or killed, when one more write is lost in the
  buffer of the stream.
* The parent address of a node is a second copy of the tree's links, and splits
  of interior nodes do not keep it up to date.
* Inserts keep nodes in memory over calls that change the same pages.
* Values repeat in an index, and the separator of equal values has no side.
* Threads share a variable of `main`, the numbers of sockets and pipes, and the
  database.
* A list is counted by one walk over the line and read by another; names, offsets,
  values and columns each come in an order of their own; most lookups that find
  nothing end the process.

**What makes each correct.**  No page has two owners, and the free list is linked
in every version of the header that may come back (page store).  `read_node`
returns what was last written (cache).  Every stored row is found, the scan has
each once, in order, and ids are not reused (table tree).  The index has every
row once, and `find_all` returns exactly the rows of a value (index tree).  A table
that takes rows is whole in the catalog, and every index entry has its row
(catalog).  A line is understood as what it says, and its answer is that of a
relation (parser, codec, command handler).  One
thread at a time is in the database, no line is executed twice, waiters are
served, and answers go to who asked (server).

## Modules and the code

Each module names its actions after the functions, in the order of the code.
`PROJECT.json` gives the lines.

**`PageStore`**.  `header` is `db.header`; `fileHeader`, `word` are the header and
the first word of every page as the system has them, `buf` the one write that
`fwrite` has left in the buffer and the next `fseek` hands over.  `create_addr` is
`PopFree` and `Extend`.  `used` is who owns what, `freeList` and `fileList` are
auxiliary: the lists that the header in memory and the one on file describe.
`free_page` does not save the header, so they differ.  `Exit` keeps the buffer and
`Kill` loses it; both are followed by the `init_db` of the next process.

**`NodeMemory` and `NodeCache`**.  `NodeCache` has the list of the cache, most
recently used first, its counter, the pages and the buffer.  A page holds a node
(a model value), zeros, the contents `free_page` leaves, or a truncated node: what
`write_tl_node` leaves of a node that needs overflow pages, because it stores no
overflow address.  `read_node` is `ReadHit`, `ReadMiss` and `ReadFull`, the last
one the failing `assert`.  `NodeMemory` is the promise: a memory, with restarts
that may undo the last write.

**`Table` and `TableTree`**.  A page is what `read_node` returns.  `frames` is the
stack of `insert` and the recursive `insert_internal`, each with the node it holds
and where it is, one action per group of writes that no read separates: an id
(`insert`), a split, the four stages of `create_root`, the call for the parent,
the last write of a call.  `file` is `db` without its last write, what a `Kill`
leaves.  A row is its id; rows and their bytes are not modelled.  `torn` is the
time from the write of the empty root to that of its second child, `lost` that a
process has ended in it.  `Table` is the promise: whole inserts, ascending ids.

**`IndexTree`**.  The same for an index, without crashes.  An entry is the id of a
row, `rows` gives its value, as `get_n_record` does.  `find_bt`, `cursor_next_bt`
and `find_all` are operators on the tree.  `deep` is auxiliary: an interior node
has been split.  `Arrives` says which values come: all different but one, or, for the
index of COLUMNS by table, the id of each table once per column.

**`Catalog`**.  `db` has the number of pages, the tree at every page and the rows of
TABLES and COLUMNS; a tree is the set of its ids, or zeros if its page was never
written.  `initialize_tables`, `create_table` and `advanced_insert_row` compute the
sequence of their stores (`todo`), which `Store` makes one by one; `file` is one
store behind, as in `TableTree`.  A store is a whole `insert`, `insert_bt`,
`set_n_record`, `create_addr` or `write_node`: `TableTree` shows what a process that ends inside one of
them leaves.  The process may also end inside `initialize_tables`: it runs only on a
file of one page, so no later process finishes what it began, and tables are then
created in half a catalog.  There a search (`find_all`) in an index of zeros ends the
server (`Crashes`), but an insert into one (`insert_bt`) only fails: the row skips that
index and those behind it (`Reached`), and `create_table` goes on, to the root.
`find_all` is taken to be exact (see the bounds below) and gives columns of equal
table ids in no fixed order, hence `SetToSeqs`.  `nb_cols` is auxiliary: what
`create_table` was asked for.

**`RecordCodec`** and **`Parser`** are operators, without state.  A record is a type
and bytes, a row the buffer `compress_records` makes, a string a sequence of numbers
with its terminator; numbers are below 256, so that their first byte has the value.
The parser's input is a sequence of symbols, characters and whole keywords: what
`is_alphanum`, spaces, quotes and counts see is all there.  Each `parse_` function
returns what it found, what is left of the line, and the fate of the process, since
a list that is refused is stored through NULL and one that ends early frees memory
that was never written.  What a failed call leaves of a list is read by nothing but
calls whose instruction is already unknown.

**`Statements`** composes them: `Receive` parses a line, `UnknownInstr`, `CrtInstr`,
`AddInstr`, `SelectAll` and `SelectWhere` are what `db_handle` does with the next
instruction, on `db`, the rows as buffers by page and id, and `Reply` sends the
answers.  `get_table_id`, `get_column_offsets`, `create_table` and
`advanced_insert_row` read and replace records as the code does, those of TABLES and
COLUMNS too.  `status` is "ended" where the code follows NULL (`find_all` on a value
no row has, the first cell of an empty leaf) and "undefined" where it writes out of
an array or reads behind a buffer.  TABLES takes adds like the tables of users: a name
added to it is a row of one record, which has an id and an entry in the index of names,
but no address (`HasRoot`); `Catalog` leaves such rows out.  `meant` is what the line
says by `query_format.md`, except for five lines (`Departures`) that the code takes for
something else, and on which `UnderstoodAsMeant` therefore says what the code does:
`query_format.md:19` allows a semicolon in a quoted value, where `parse_user_input` cuts
the line; words behind a whole `crt`, `add` or `sel ... where` are dropped
(`parser.c:382`, `399`, `414`); and any word is taken for a type, though
`query_format.md:24` names two.  **`Relations`** is the promise, in terms of tables with
named columns: the answers of a statement depend neither on the order of columns in an
index nor on the bytes of a row, a name added to TABLES is a table without columns, and
only a statement without an answer may end the process.
**`Schema`** has the pages of the catalog, for `Catalog` and `Statements`.

**`MemoryTree`** is the code of both earlier trees: the same walk, two leaf operations,
chosen by `kind`, and the search and the listing, which change nothing.  A tree is the
value of its root.  The key that moves up in a split stays in the left half, which gets
an empty last child; the children of such a node are never written (`Unwritten`), and
`fate` names the call that follows one of these pointers: an insert of a key that comes
back and meets itself moving up, and every listing (`nodes.c:93`), although `nodes.c:70`
says of it that it "retrieves every data stored in the tree".

**`Server`**.  `fd` is the table of open numbers, in which the system takes the
lowest free one.  `thread[t]` has the place and the local variables of
`process_communication`, one action per statement that touches what others see.
A thread in `read` keeps its file open after another thread has closed the number,
as the kernel does.  `Write` to a pipe that nobody reads ends the process
(SIGPIPE).  An answer fits in its pipe: a line has room for seven selects, each of
which prints at most 8192 bytes.

`PageStoreMC`, `NodeCacheMC`, `TableTreeMC`, `IndexTreeMC`, `CatalogMC`, `StatementsMC`,
`ServerMC` and `MemoryTreeMC` give the constants for TLC.  `PageStoreProofs`,
`NodeCacheProofs`, `TableTreeProofs`, `TableTreeSearch`, `IndexTreeProofs`, `ServerProofs`
and `CatalogProofs` hold the proofs, and `SequenceLemmas` what they share: what the library's operators on sequences return, entry by entry, and that
a set of numbers has a least.

## Runs

Passing runs:

| Run | Bounds | Shows |
| --- | --- | --- |
| `PageStore.cfg` | 4 pages | the free list of every version of the header is linked and disjoint from the pages in use; the page handed out next is never in use; as long as the process runs no page is lost, though `free_page` does not save the header |
| `NodeCache.cfg` | 3 pages, one node that fits and one that does not, a cache of 2 | no address cached twice, copies agree with the file, the cache implements `NodeMemory` |
| `TableTree.cfg` | ORDER 4 as in the code, 20 rows, 20 pages, 2 ends of the process | rows are found after every write, the next leaf knows its parent, no page has two parents, no read meets a page of zeros, ids are not reused, `Table` is implemented; a scan has every row if no process ended, and otherwise the first rows without a hole: one that ends between the parent and the old leaf of a split cuts all later scans off |
| `IndexTree.cfg` | ORDER 3, 7 rows, values 1..7 of which one repeats | no entry lost or doubled, and the pages one tree, each linked once; `find_all` exact while no interior node was split and no value repeats |
| `Catalog.cfg` | 2 names, 11 pages, up to 2 columns, 2 rows per table, 2 ends of the process, inside `initialize_tables` too | index entries have rows, rows are in all indexes but for one per end, a table with a root is whole, with all its columns found, or none if the catalog never got the last of its indexes, next ids are above all ids, no page has two uses |
| `Statements.cfg` | lines of one or two statements in three styles of spaces, eleven that are no statements, and five that the code takes for something else than they say; 2 tables, 2 rows each, 2 names of columns, 3 values, identifiers of 2 symbols | a line is understood as what it says, but for those five; a name that is there twice is frozen; parser, handler, catalog and codec implement `Relations` |
| `MemoryTree.cfg` | ORDER 3 (table) and 4 (index), 6 and 4 keys, 8 inserts and deletes | leaves level, each key between those above it, a split loses no key, a key inserted once is found until it is deleted, and listed in trees of three levels; no search or delete follows a pointer never written, an insert only for a key that comes back, a listing only in a tree of four levels |
| `Server.cfg` | 2 clients | one thread in the database, no line executed twice, waiters served |

Runs that find a disagreement with what the repository says of itself:

| Run | Against | What happens |
| --- | --- | --- |
| `TableTreeRowsSurviveCrash.cfg` | `diskio/fileSpecification.md:21`, the journal | a process that ends in `create_root` loses stored rows |
| `IndexTreeOfColumns.cfg` | `schema/include/db_ops.h:146`, "all rows ... equal to the given value" | the index of COLUMNS by table, tables of one or two columns: after the thirteenth column a stale parent hides the second column of a table, so its rows are stored without it |
| `ServerReplies.cfg` | `server.c:72`, answers go back to the client | two threads with one number, the number reused, the answer of one client sent to another |
| `ServerClients.cfg` | `../README.md:59`, "any number of clients" | a socket closed by the second `close(fds[1])` of another thread, or one that no thread has: the client waits forever |

**Why the bounds are enough.**  Four pages give free lists of three, with two pages
freed after the header on file was saved.  A cache of two of three pages evicts and
finds entries at the head and behind it.  Ids ascend, so the inserts of a table are one sequence,
of which twenty split leaves eight times, interior nodes and the root, twice; the
two ends of a process come at every pair of points of it.  With ORDER 3 the seventh
row of an index splits an interior node, which ORDER 4 does at the twelfth at the
earliest, and orders of arrival are what matters there.  `FindAllExact` holds while
no interior node was split and no value repeats; repeated values fail on their own,
without such a split, when `find_offset` puts a separator before an equal one and its
page behind the other's (`cursor_bt.c:397`, six columns in one table are enough).  The catalogs
of `Statements` and `Catalog` are below that: of at most ten columns in tables of one
and two, and of as many names, every sequence the bounds allow was checked to be
searched exactly in `IndexTree` with the ORDER of the code, which is why those two may
take an index for the set of its rows.  Eleven
pages are the five of the catalog and two tables of two columns (or three of one),
with the same name or not, or one that a crash left half made before them.  Two tables of two columns, in either order in the index
and in the statement, tell offsets, names and values apart; the name of one begins
like a keyword, the identifiers have the full length, and a value is a word, a number
or empty.  Eight calls fill a tree of ORDER 3 to four levels, where an empty node has
unwritten children and an insert or a listing enters it; ORDER 4 is the least with which a key of an
index can repeat before the last pair of its leaf.  Two clients are enough for
each thread to be overtaken at each statement by the other and by `main`; three
are too many to exhaust and are used where a counterexample is looked for, under
`Prompt`, which leaves out clients that connect and stay silent for five seconds.

**Fairness.**  Only `Server` has it: the threads, `main` and the two steps a client
takes after connecting run if they can (the system schedules them).  A client need
not connect.  Waiting for the semaphore has weak fairness per thread only: with one
request per connection no thread can be overtaken for ever, so `WaitersServed`
needs no more, and a client that can go on sending would need more.

**Deadlock** is checked where a process cannot stop (`PageStore`, `NodeCache`).  The
trees stop at their bounds, the server and `Statements` when the process ends.

## Proofs

For every value of the constants, under the assumptions the modules name:

* `PageStoreProofs`: `TypeOK`, `FreeListSound` and `NeverHandsOutUsedPage`.  The
  free list is an explicit sequence beside the header, so that `Describes` is an
  invariant of sequences, preserved by pushing an unused page, popping the head and
  writing a page outside the list.  The inductive invariant is `TypeOK` and
  `FreeListSound`, about three headers at once: the one in memory, the one an exit
  leaves and the one a kill leaves.  The kill needs `FileUsed`: the page of the
  header write in the buffer has no owner yet in the file.
  `NeverHandsOutUsedPage` follows.  So does the action property
  `PagesLeakOnlyAtTheEnd`: the recursion that walks the links gives the explicit
  sequence (`WalkIsList`), so each step takes from the list what it puts in use.
* `NodeCacheProofs`: `TypeOK`, `NoDuplicates`, `CacheCoherent` and `ImplementsMemory`.
  What is inductive is their conjunction: to remove the entry of an address is to
  remove one (`NoDuplicates`), the counter is the length of the list, and a hit
  returns the node of the file (`CacheCoherent`), which makes it a `Read` of
  `NodeMemory`.  Only assumed of the constants: the kinds of nodes are disjoint, there
  is a page, and the cache holds at least one node.
* `TableTreeProofs`: `TypeOK`, `NoDanglingRead` and `IdsNeverReused`, for every `ORDER`
  from 3 and any number of rows, pages and ends of the process.  None of them is
  inductive.  The invariant `IInv` says of the pages: those past the end are zeros;
  the written ones are nodes whose keys lie below `next_id`; a parent is an interior
  node; a child is written, except that a new root lists the page its node is about
  to move to (`Missing`).  Of the calls on the stack: each holds a node of the kind
  its page has in the file, only the first holds a leaf, and all but the last wait
  for their write.  Pages and calls are only related until a process ends inside
  `create_root` (`lost`): then the root lists a page of zeros, and no later insert
  is in scope.  TLC checked the three facts in the small instance before the proof.
  That `Offset` exists is the least number of a set (`LeastNumber`).
* `TableTreeSearch`: `EveryRowFound`, `NextLeafKnowsItsParent` and `ImplementsTable`, for
  the same constants, over the invariants of `TableTreeProofs`.  What makes the stale
  parents harmless is that ids only grow: only the last leaf and the root are ever
  split, since the parent of the last leaf is the root however deep the leaf lies, and
  the interior nodes below the root never change again.  `SearchInv` says this, and what
  a search finds, in every phase of an insert: none in progress, a row added to the leaf
  in memory, the leaf split below the root or as the root, a child added to the root in
  memory, the root split, its half added to the new root, and that half still to be
  written.  What a search finds is said of a root that may still be in memory, over
  the pages below it, so a phase that writes the root last has only to say which rows
  that root will find.  A search is an explicit sequence of pages (`Way`), which gives the
  recursion of `find_leaf` its value (`WalkExists`).  For the refinement the file is one
  write behind the process (`Behind`), so an end of the process takes one row at most
  away, or leaves the last insert done.  TLC checked both invariants with `ORDER` 3 and 4.
* `IndexTreeProofs`: all three invariants of `IndexTree`, for every `ORDER` from 3, any
  values in any order, and any number of rows and pages.  Here parents do go stale: a split of
  an interior node leaves its children the old address, `create_root_bt` gives new ones
  to half of them, and an insert may go up to a node that is neither the one that links
  it nor above it.  That `find_bt_leaf` and the calls for a parent end nevertheless is
  the first invariant (`LevelInv`): there are heights of pages such that a child is lower
  than its node, and a node lower than the one it names as its parent; the pages of the
  calls ascend, and a page split off is not higher than the one it was split from.  The
  heights are only said to exist, and double when a root is added, to make room between
  it and its children; with them the walk has a value (`WalkExists`).  The second
  invariant (`OnceInv`) speaks of what the pages will hold once every call has stored the
  node it keeps, and of the entry and the page it has in hand between a split and the
  node above: in these lists the id of each row, and each page but the root, occurs once.
  Every action moves parts of lists from one place to another (`OnceAdd`, `OncePut`,
  `OnceCut`, `OnceSwap`).  That the pages are one tree follows from both: of the pages
  not reached from the root a highest one is linked by a higher one, which is reached.
  `FindAllExact` needs a third (`FlatInv`): while no interior node has been split and no
  value repeats, the tree is a row of leaves below at most one root.  There are lists R
  of entries and D of leaves, one more than entries, that the root has as soon as the
  insert in progress has linked the leaf it split off (`Linked` says how far it is);
  every page but the root is one of the leaves, and they know their parent (`Below`);
  and the values ascend, in R, in each leaf, with the entry a call has in memory, and
  from a leaf over the entry between them to the next (`Ordered`).  `FindAllExact` says
  nothing of order and holds only between inserts, so it is far from inductive.  A split
  cuts a leaf at its middle entry (`OrderedCut`); that `insert_internal_bt` then links
  the new leaf right after the one it came from is shown from the order of R.  From
  `FlatInv` the recursions of `find_bt` and `cursor_next_bt` have their values in at most
  two steps, and the entry after the one of the value has another value (`OneFound`); with
  `OnceInv` the id of each row is in one cell, so the cell found is that of the row.
  TLC checked the three invariants first, with heights computed from the links.
* `ServerProofs`: `TypeOK`, `DbExclusive` and `ExecutedOnce`, for any number of clients.
  The type invariant needs that the numbers never run out, although threads close
  numbers that are no longer theirs: a number stands for one file (`OneNumber`), an end
  of a pipe only while its thread is at the statements that hold it (`Owned`), and there
  are as many threads to start as clients to connect (`Connections`).  `ExecutedOnce` is
  not inductive: threads pass a line on through sockets and pipes that they mistake for
  their own.  The invariant is that the line of a client is at one place at most: not yet
  sent, in its socket, in one pipe, in the buffers of one thread, or executed (`Once`).
* `CatalogProofs`: all six invariants of `Catalog`, for all names and every bound on
  columns, pages, rows and ends of the process.  A process may find the database after
  any store of any operation, so what is inductive has two parts.  `Consistent` holds of
  the database the process sees and of the file, one store behind: rows and trees are
  typed, every root has one page and one owner (`TableRoots`, `ColumnRoots`), next ids are
  above the ids (`NextIds`), entries have rows (`Entries`), a table with a root is whole
  (`Whole`), and no table has columns before the first entry of the index that finds
  them (`Search`).  The first half proves, store by store, what the operation must have
  done before for the store to keep it.  The other part is where the operation is: the
  26 databases of `initialize_tables` (`InitDb`); an `advanced_insert_row` that has still
  to enter its row in some indexes (`Inserting`); a `create_table` by its plan, the pages,
  ids and indexes it was begun with, at store m of the table or of column l
  (`Creating`); or one begun on half a catalog, which crashes where `find_all` finds no
  column of TABLES and is harmless until then (`Doomed`).  A plan has the indexes that
  rows of COLUMNS will reach (`Ents`): none, where COLUMNS_NAMES is zeros and comes
  first, and then no column of the table is found, in the end as after each store
  (`Entered`).  The rows an insert loses are
  counted by `Lost`, at most one more for each end of the process.  That the stores of
  `create_table` are those of a plan needs `FlattenSeq` of the columns, entry by entry.

Assumed are only the named assumptions of the modules: sizes are numbers, `ORDER` is at
least 3, and the file has room for the five pages of the catalog.

Only checked by TLC: `Statements` with `Parser` and `RecordCodec`, and `MemoryTree`; of
`TableTree` the chain of leaves and the links (`OneParent`, `ScanIsPrefix`); and
liveness (`WaitersServed`). The
library's induction theorems take an operator, which the provers cannot instantiate;
where the proofs need the value of a recursion (`WalkIsList`, `WalkExists`,
`FlattenSeq`) they take the least number for which it would fail. The operators of
`MemoryTree` are RECURSIVE, which leaves the prover without its arithmetic. What
`Statements` checks is about the lines of the constant `Lines`, which the parser and the
codec run over.

## Not modelled, and why

* Failures of `malloc`, `fseek`, `fwrite`, `ftruncate`, `pipe` and `accept`: the
  code prints and returns -1, and most callers go on.
* The layout of a page and of the header of the file.
* The abort of `diskio/diskio.c:322` on a node that does not fit its page is a
  disjunct of `read_node` (`ReadFull`) that no property forbids: lines of `LINE_SIZE`
  bytes never fill a page, callers of `insert` could.  The chain of overflow pages is
  for such a node only; no cell is ever linked to it, so nothing reads it back.
* Memory: answers longer than `REPLY_SIZE`, results longer than 8192 bytes
  (`select_where`: 2048), the array of results of the earlier trees.
* Floats and numbers above 255, which no statement stores: values are strings, and
  the numbers of the catalog count tables, rows and pages.
* `select_row_columns`, which only a test calls, and the text around an answer.
* Statements sent while a process ends: `Catalog` has the crashes, `Statements` the
  records.
* Console, demo and `instructions_to_tree.c`, which the server does not build; they
  keep no state of their own.

## Plan

1. Done: every component with state, and the proofs of `PageStore`, `NodeCache`,
   `Server`, `Catalog` and `IndexTree`, and of what `TableTree` stores and finds.
2. Left to prove: of `TableTree` `OneParent` and `ScanIsPrefix`.
3. Lemmas on `RecordCodec`: a record extracted from the buffer of records is the
   record, which needs a form without recursion.
4. `Catalog` over the trees of `IndexTree`, for catalogs of more columns than the
   bounds above.
