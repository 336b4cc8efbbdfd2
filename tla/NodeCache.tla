------------------------------ MODULE NodeCache ------------------------------
(***************************************************************************)
(* The node cache of server-side/diskio/diskio.c: a list of at most        *)
(* default_cache_size copies of nodes, the most recently used one first,   *)
(* through which read_node and write_node reach the pages of the file.     *)
(* Writes go through to the file.  The list is db.cache, its counter       *)
(* db.cache_size; the stream buffers one write (see PageStore).            *)
(***************************************************************************)
EXTENDS Integers, Sequences, SequencesExt

CONSTANTS Page,                 \* addresses of pages
          SmallNode,            \* nodes whose cells fit in a page
          BigNode,              \* nodes that need overflow pages
          Unwritten,            \* a page of zeros
          Garbage,              \* the contents free_page leaves
          Truncated,            \* a big node without its overflow pages
          default_cache_size

ASSUME NodeCacheAssumption ==
  /\ Page # {}
  /\ default_cache_size \in Nat \ {0}
  /\ SmallNode \intersect BigNode = {}
  /\ {Unwritten, Garbage, Truncated} \intersect (SmallNode \union BigNode) = {}
  /\ Truncated \notin {Unwritten, Garbage}

Node == SmallNode \union BigNode \union {Unwritten, Garbage, Truncated}

VARIABLES cache,        \* db.cache: [addr, node], head of the list first
          cache_size,   \* db.cache_size
          disk,         \* the pages as the system has them
          buf,          \* the page write in the buffer, or none
          freed,        \* the pages given back with remove_node
          result        \* what the last read_node returned, and from where

vars == <<cache, cache_size, disk, buf, freed, result>>

Entry(addr, node) == [addr |-> addr, node |-> node]
Entries == [addr : Page, node : Node]

-----------------------------------------------------------------------------
\* The file once the buffer has reached it
NoWrite == <<>>
FlushedDisk == IF buf = NoWrite THEN disk ELSE [disk EXCEPT ![buf.addr] = buf.node]

\* What write_tl_node leaves on the page: the overflow pointer of a cell that
\* does not fit is never stored.
OnPage(node) == IF node \in BigNode THEN Truncated ELSE node

\* fseek, fwrite
write_page(addr, node) == /\ disk' = FlushedDisk
                          /\ buf' = Entry(addr, OnPage(node))

Cached(addr) == \E i \in 1..Len(cache) : cache[i].addr = addr
Index(addr) == CHOOSE i \in 1..Len(cache) : cache[i].addr = addr

\* Mutant: the entry of a node that is written again stays in the list.
UncacheNothing(addr) == cache

\* The list without the entry of addr
Uncache(addr) == IF Cached(addr) THEN RemoveAt(cache, Index(addr)) ELSE cache

\* Mutant: evict only when the size passes the limit by more than one.
TooBigLate(size) == size > default_cache_size + 1

TooBig(size) == size > default_cache_size

\* The list with a node in front, as the only entry of its address
Push(node, addr) == <<Entry(addr, node)>> \o Uncache(addr)

\* The node is copied to the head of the list, any entry of its address is
\* dropped, and so is the last entry of a list that has grown too long.
add_to_cache(node, addr) ==
  LET list == Push(node, addr)
      size == IF Cached(addr) THEN cache_size ELSE cache_size + 1 IN
  IF TooBig(size) THEN cache' = Front(list) /\ cache_size' = size - 1
                  ELSE cache' = list /\ cache_size' = size

\* get_from_cache moves the entry to the head and returns a copy.
MoveToHead(addr) == cache' = Push(cache[Index(addr)].node, addr)

ReadHit(addr) ==
  /\ Cached(addr)
  /\ MoveToHead(addr)
  /\ result' = Entry(addr, cache[Index(addr)].node)
  /\ UNCHANGED <<cache_size, disk, buf, freed>>

\* What read_page finds, the buffer flushed by its fseek
FileNode(addr) == FlushedDisk[addr]

\* read_page, then the cells are copied to a node, which is cached.  A page of
\* no known type gives NULL.
ReadMiss(addr) ==
  /\ ~Cached(addr)
  /\ FileNode(addr) # Truncated
  /\ disk' = FlushedDisk /\ buf' = NoWrite
  /\ result' = Entry(addr, FileNode(addr))
  /\ IF FileNode(addr) \in {Unwritten, Garbage} THEN UNCHANGED <<cache, cache_size>>
                                               ELSE add_to_cache(FileNode(addr), addr)
  /\ UNCHANGED freed

\* A page that overflows is full, and the assert of read_node wants the cells
\* to end before the end of the page: the process aborts, and the next one starts.
ReadFull(addr) ==
  /\ ~Cached(addr)
  /\ FileNode(addr) = Truncated
  /\ disk' = FlushedDisk /\ buf' = NoWrite
  /\ cache' = <<>> /\ cache_size' = 0
  /\ UNCHANGED <<freed, result>>

\* Only pages that are not free are read.
read_node(addr) == addr \notin freed /\ (ReadHit(addr) \/ ReadMiss(addr) \/ ReadFull(addr))

\* Mutant: the copy in the cache is not replaced on a write.
WriteAround(node, addr) ==
  /\ UNCHANGED <<cache, cache_size>>
  /\ write_page(addr, node)
  /\ freed' = freed \ {addr}
  /\ UNCHANGED result

\* Mutant: a node is written to the cache only.
WriteBack(node, addr) ==
  /\ add_to_cache(node, addr)
  /\ freed' = freed \ {addr}
  /\ UNCHANGED <<disk, buf, result>>

\* A free page is written by the caller create_addr gave it to.
write_node(node, addr) ==
  /\ add_to_cache(node, addr)
  /\ write_page(addr, node)
  /\ freed' = freed \ {addr}
  /\ UNCHANGED result

\* The page goes to the free list; the cache keeps its entry.
remove_node(addr) ==
  /\ addr \notin freed
  /\ write_page(addr, Garbage)
  /\ freed' = freed \union {addr}
  /\ UNCHANGED <<cache, cache_size, result>>

\* The next init_db starts with an empty cache; a kill loses the buffer.
init_db(file) == /\ disk' = file /\ buf' = NoWrite
                 /\ cache' = <<>> /\ cache_size' = 0
                 /\ UNCHANGED <<freed, result>>

Init == /\ cache = <<>> /\ cache_size = 0
        /\ disk = [p \in Page |-> Unwritten] /\ buf = NoWrite
        /\ freed = {}
        /\ result = Entry(CHOOSE p \in Page : TRUE, Unwritten)

Next == \/ \E addr \in Page :
             \/ read_node(addr)
             \/ \E node \in SmallNode \union BigNode : write_node(node, addr)
             \/ remove_node(addr)
        \/ init_db(FlushedDisk)
        \/ init_db(disk)

Spec == Init /\ [][Next]_vars

-----------------------------------------------------------------------------
\* TYPE: the list holds nodes, at most default_cache_size of them, and
\* db.cache_size is its length.
TypeOK == /\ cache \in Seq(Entries)
          /\ cache_size = Len(cache) /\ cache_size <= default_cache_size
          /\ disk \in [Page -> Node]
          /\ buf = NoWrite \/ buf \in Entries
          /\ freed \in SUBSET Page
          /\ result \in Entries

\* No address has two copies in the cache: get_from_cache would return the one
\* nearer the head and add_to_cache would replace only one of them.
NoDuplicates == \A i, j \in 1..Len(cache) : cache[i].addr = cache[j].addr => i = j

\* A copy in the cache of a page that is not free is the node on its page, as
\* far as pages hold nodes, whatever was read, written, evicted, freed and
\* handed out again before.
CacheCoherent ==
  \A i \in 1..Len(cache) :
    cache[i].addr \notin freed => OnPage(cache[i].node) = FlushedDisk[cache[i].addr]

\* The cache implements a memory of nodes: read_node returns what write_node
\* last stored at the address, whether the cache still has it or not.  Big nodes
\* are the exception (ReadFull), so they count as what their page holds.
Memory == INSTANCE NodeMemory WITH mem <- FlushedDisk, safe <- disk,
                                   result <- Entry(result.addr, OnPage(result.node))
ImplementsMemory == Memory!Spec
=============================================================================
