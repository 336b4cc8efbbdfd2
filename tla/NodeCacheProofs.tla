--------------------------- MODULE NodeCacheProofs ---------------------------
(***************************************************************************)
(* Proofs about NodeCache for any number of pages, any nodes and any size  *)
(* of the cache: the list is well formed whatever nodes are stored, and    *)
(* when every node fits in its page the copies agree with the file and     *)
(* the cache implements NodeMemory.                                        *)
(***************************************************************************)
EXTENDS NodeCache, SequenceLemmas

\* A buffered write is not the empty buffer.
LEMMA EntryIsAWrite == ASSUME NEW a, NEW n PROVE Entry(a, n) # NoWrite
<1>1. "addr" \in DOMAIN Entry(a, n)
  BY DEF Entry
<1>2. "addr" \notin DOMAIN NoWrite
  BY DEF NoWrite
<1> QED
  BY <1>1, <1>2

-----------------------------------------------------------------------------
\* What the operations on the list leave of it, whatever the nodes are.

LEMMA IndexOfCached ==
  ASSUME NEW addr, Cached(addr)
  PROVE  Index(addr) \in 1..Len(cache) /\ cache[Index(addr)].addr = addr
  BY DEF Cached, Index

LEMMA UncacheList ==
  ASSUME TypeOK, NoDuplicates, NEW addr \in Page
  PROVE  /\ Uncache(addr) \in Seq(Entries)
         /\ Len(Uncache(addr)) = IF Cached(addr) THEN Len(cache) - 1 ELSE Len(cache)
         /\ \A i \in 1..Len(Uncache(addr)) :
              /\ Uncache(addr)[i].addr # addr
              /\ \E k \in 1..Len(cache) : Uncache(addr)[i] = cache[k]
         /\ \A i, j \in 1..Len(Uncache(addr)) :
              Uncache(addr)[i].addr = Uncache(addr)[j].addr => i = j
<1>0. cache \in Seq(Entries) /\ Len(cache) \in Nat
  BY DEF TypeOK
<1>1. CASE ~Cached(addr)
  BY <1>0, <1>1 DEF Uncache, Cached, NoDuplicates
<1>2. CASE Cached(addr)
  <2> DEFINE k == Index(addr)
             u == RemoveAt(cache, k)
  <2>1. k \in 1..Len(cache) /\ cache[k].addr = addr
    BY <1>2, IndexOfCached
  <2>2. /\ Uncache(addr) = u
        /\ u \in Seq(Entries) /\ Len(u) = Len(cache) - 1
        /\ \A j \in 1..Len(cache) - 1 : u[j] = IF j < k THEN cache[j] ELSE cache[j + 1]
    BY <1>0, <1>2, <2>1, RemoveAtEntries DEF Uncache
  <2> HIDE DEF k, u
  <2>3. \A i \in 1..Len(u) : \E m \in 1..Len(cache) :
          u[i] = cache[m] /\ m # k /\ m = IF i < k THEN i ELSE i + 1
    BY <1>0, <2>1, <2>2
  <2>4. \A i \in 1..Len(u) : u[i].addr # addr
    BY <2>1, <2>3 DEF NoDuplicates
  <2>5. \A i, j \in 1..Len(u) : u[i].addr = u[j].addr => i = j
    BY <1>0, <2>1, <2>2, <2>3 DEF NoDuplicates
  <2> QED
    BY <1>2, <2>2, <2>3, <2>4, <2>5
<1> QED
  BY <1>1, <1>2

\* A list of entries that is no longer than the cache may be and names each
\* address once.
WellFormed(l, size) ==
  /\ l \in Seq(Entries) /\ size = Len(l) /\ size <= default_cache_size
  /\ \A i, j \in 1..Len(l) : l[i].addr = l[j].addr => i = j

\* Every entry of l is the new one e or an entry of another address in cache.
AllFrom(l, e) == \A i \in 1..Len(l) :
  l[i] = e \/ (l[i].addr # e.addr /\ \E k \in 1..Len(cache) : l[i] = cache[k])

\* Putting an entry in front of a list without its address
LEMMA ConsList ==
  ASSUME TypeOK, NoDuplicates, NEW addr \in Page, NEW node \in Node
  PROVE  /\ Push(node, addr) \in Seq(Entries)
         /\ Len(Push(node, addr)) = IF Cached(addr) THEN Len(cache) ELSE Len(cache) + 1
         /\ \A i, j \in 1..Len(Push(node, addr)) :
              Push(node, addr)[i].addr = Push(node, addr)[j].addr => i = j
         /\ AllFrom(Push(node, addr), Entry(addr, node))
<1> DEFINE l == Push(node, addr)
           u == Uncache(addr)
           e == Entry(addr, node)
<1>0. Len(cache) \in Nat
  BY DEF TypeOK
<1>1. e \in Entries /\ e.addr = addr
  BY DEF Entry, Entries
<1>2. /\ u \in Seq(Entries) /\ Len(u) \in Nat
      /\ Len(u) = IF Cached(addr) THEN Len(cache) - 1 ELSE Len(cache)
      /\ \A i \in 1..Len(u) : u[i].addr # addr /\ \E k \in 1..Len(cache) : u[i] = cache[k]
      /\ \A i, j \in 1..Len(u) : u[i].addr = u[j].addr => i = j
  BY UncacheList
<1>3. /\ l \in Seq(Entries) /\ Len(l) = Len(u) + 1
      /\ \A j \in 1..Len(u) + 1 : l[j] = IF j = 1 THEN e ELSE u[j - 1]
  <2>1. l = <<e>> \o u
    BY DEF Push
  <2>2. /\ <<e>> \o u \in Seq(Entries)
        /\ Len(<<e>> \o u) = Len(u) + 1
        /\ \A j \in 1..Len(u) + 1 : (<<e>> \o u)[j] = IF j = 1 THEN e ELSE u[j - 1]
    <3> HIDE DEF u, e
    <3> QED
      BY <1>1, <1>2, ConsEntries
  <2> HIDE DEF l, u, e
  <2> QED
    BY <2>1, <2>2
<1> HIDE DEF l, u, e
<1>4. \A i \in 1..Len(l) : i = 1 \/ (i - 1 \in 1..Len(u) /\ l[i] = u[i - 1])
  BY <1>2, <1>3
<1>5. l[1] = e
  BY <1>2, <1>3
<1>6. Len(l) = IF Cached(addr) THEN Len(cache) ELSE Len(cache) + 1
  BY <1>0, <1>2, <1>3
<1>7. \A i, j \in 1..Len(l) : l[i].addr = l[j].addr => i = j
  <2> TAKE i, j \in 1..Len(l)
  <2> HAVE l[i].addr = l[j].addr
  <2>1. CASE i = 1 \/ j = 1
    <3>1. \A k \in 1..Len(l) : k # 1 => l[k].addr # addr
      <4> TAKE k \in 1..Len(l)
      <4> HAVE k # 1
      <4>1. k - 1 \in 1..Len(u) /\ l[k] = u[k - 1]
        BY <1>4
      <4> QED
        BY <1>2, <4>1
    <3> QED
      BY <1>1, <1>5, <2>1, <3>1
  <2>2. CASE i # 1 /\ j # 1
    <3>1. /\ i - 1 \in 1..Len(u) /\ l[i] = u[i - 1]
          /\ j - 1 \in 1..Len(u) /\ l[j] = u[j - 1]
      BY <1>4, <2>2
    <3>2. i - 1 = j - 1
      BY <1>2, <3>1
    <3> QED
      BY <1>2, <1>3, <3>2
  <2> QED
    BY <2>1, <2>2
<1>8. AllFrom(l, e)
  <2> SUFFICES ASSUME NEW i \in 1..Len(l)
               PROVE  l[i] = e \/ (l[i].addr # e.addr /\ \E k \in 1..Len(cache) : l[i] = cache[k])
    BY DEF AllFrom
  <2>1. CASE i = 1
    BY <1>5, <2>1
  <2>2. CASE i # 1
    <3>1. i - 1 \in 1..Len(u) /\ l[i] = u[i - 1]
      BY <1>4, <2>2
    <3> QED
      BY <1>1, <1>2, <3>1
  <2> QED
    BY <2>1, <2>2
<1> QED
  BY <1>3, <1>6, <1>7, <1>8 DEF e, l

LEMMA AddToCacheList ==
  ASSUME NodeCacheAssumption, TypeOK, NoDuplicates,
         NEW addr \in Page, NEW node \in Node, add_to_cache(node, addr)
  PROVE  /\ WellFormed(cache', cache_size')
         /\ AllFrom(cache', Entry(addr, node))
<1> DEFINE l == Push(node, addr)
           size == IF Cached(addr) THEN cache_size ELSE cache_size + 1
<1>1. /\ l \in Seq(Entries)
      /\ Len(l) = IF Cached(addr) THEN Len(cache) ELSE Len(cache) + 1
      /\ \A i, j \in 1..Len(l) : l[i].addr = l[j].addr => i = j
      /\ AllFrom(l, Entry(addr, node))
  BY ConsList
<1>2. size = Len(l) /\ Len(l) \in Nat /\ default_cache_size \in Nat
      /\ default_cache_size > 0 /\ Len(l) <= default_cache_size + 1
  BY <1>1 DEF TypeOK, NodeCacheAssumption
<1>3. IF TooBig(size) THEN cache' = Front(l) /\ cache_size' = size - 1
                      ELSE cache' = l /\ cache_size' = size
  BY DEF add_to_cache
<1> HIDE DEF l, size
<1>4. CASE TooBig(size)
  <2>1. /\ cache' \in Seq(Entries) /\ Len(cache') = Len(l) - 1
        /\ \A j \in 1..Len(l) - 1 : cache'[j] = l[j]
    BY <1>1, <1>2, <1>3, <1>4, FrontEntries DEF TooBig
  <2>2. \A i \in 1..Len(cache') : i \in 1..Len(l) /\ cache'[i] = l[i]
    BY <1>2, <2>1
  <2>3. AllFrom(cache', Entry(addr, node))
    BY <1>1, <2>2 DEF AllFrom
  <2>4. \A i, j \in 1..Len(cache') : cache'[i].addr = cache'[j].addr => i = j
    BY <1>1, <2>2
  <2>5. cache_size' = Len(cache') /\ cache_size' <= default_cache_size
    BY <1>2, <1>3, <1>4, <2>1
  <2> QED
    BY <2>1, <2>3, <2>4, <2>5 DEF WellFormed
<1>5. CASE ~TooBig(size)
  BY <1>1, <1>2, <1>3, <1>5 DEF WellFormed, AllFrom, TooBig
<1> QED
  BY <1>4, <1>5

LEMMA MoveToHeadList ==
  ASSUME TypeOK, NoDuplicates, NEW addr \in Page, Cached(addr), MoveToHead(addr)
  PROVE  /\ WellFormed(cache', cache_size)
         /\ \A i \in 1..Len(cache') : \E k \in 1..Len(cache) : cache'[i] = cache[k]
<1> DEFINE e == cache[Index(addr)]
<1>1. Index(addr) \in 1..Len(cache) /\ e.addr = addr /\ e \in Entries
  BY IndexOfCached DEF TypeOK
<1>2. e = Entry(addr, e.node) /\ e.node \in Node
  BY <1>1 DEF Entries, Entry
<1>3. cache' = Push(e.node, addr)
  BY DEF MoveToHead
<1>4. /\ cache' \in Seq(Entries) /\ Len(cache') = Len(cache)
      /\ \A i, j \in 1..Len(cache') : cache'[i].addr = cache'[j].addr => i = j
      /\ AllFrom(cache', Entry(addr, e.node))
  BY <1>2, <1>3, ConsList
<1>5. WellFormed(cache', cache_size)
  BY <1>4 DEF WellFormed, TypeOK
<1>6. \A i \in 1..Len(cache') : \E k \in 1..Len(cache) : cache'[i] = cache[k]
  BY <1>1, <1>2, <1>4 DEF AllFrom
<1> QED
  BY <1>5, <1>6

-----------------------------------------------------------------------------
\* What the operations leave in the file.

LEMMA FlushedType == ASSUME TypeOK PROVE FlushedDisk \in [Page -> Node]
  BY DEF TypeOK, FlushedDisk, Entries

LEMMA NodeTypes ==
  /\ SmallNode \union BigNode \subseteq Node
  /\ Unwritten \in Node /\ Garbage \in Node /\ Truncated \in Node
  /\ \A n \in Node : OnPage(n) \in Node
  BY DEF Node, OnPage

LEMMA OnPageTwice == ASSUME NodeCacheAssumption, NEW n PROVE OnPage(OnPage(n)) = OnPage(n)
  BY DEF OnPage, NodeCacheAssumption

LEMMA WritePage ==
  ASSUME TypeOK, NEW addr \in Page, NEW node \in Node, write_page(addr, node)
  PROVE  /\ disk' \in [Page -> Node] /\ disk' = FlushedDisk
         /\ buf' \in Entries
         /\ FlushedDisk' = [FlushedDisk EXCEPT ![addr] = OnPage(node)]
<1>1. buf' = Entry(addr, OnPage(node)) /\ disk' = FlushedDisk
  BY DEF write_page
<1>2. buf' # NoWrite
  BY <1>1, EntryIsAWrite
<1>3. buf'.addr = addr /\ buf'.node = OnPage(node) /\ buf' \in Entries
  BY <1>1, NodeTypes DEF Entry, Entries
<1>4. FlushedDisk' = [disk' EXCEPT ![buf'.addr] = buf'.node]
  BY <1>2 DEF FlushedDisk
<1> QED
  BY <1>1, <1>3, <1>4, FlushedType

-----------------------------------------------------------------------------
\* The list is well formed whatever nodes are stored.
ListInv == TypeOK /\ NoDuplicates

LEMMA ListInvStep == ASSUME NodeCacheAssumption, ListInv, [Next]_vars PROVE ListInv'
<1> USE DEF ListInv
<1>1. ASSUME WellFormed(cache', cache_size'), disk' \in [Page -> Node],
             buf' = NoWrite \/ buf' \in Entries, freed' \in SUBSET Page,
             result' \in Entries
      PROVE  ListInv'
  BY <1>1 DEF WellFormed, TypeOK, NoDuplicates
<1>2. WellFormed(cache, cache_size)
  BY DEF WellFormed, TypeOK, NoDuplicates
<1>3. WellFormed(<<>>, 0)
  BY DEF WellFormed, NodeCacheAssumption
<1>4. ASSUME NEW addr \in Page, ReadHit(addr) PROVE ListInv'
  <2>1. WellFormed(cache', cache_size')
    BY <1>4, MoveToHeadList DEF ReadHit
  <2>2. result' \in Entries
    <3>1. cache[Index(addr)] \in Entries
      BY <1>4, IndexOfCached DEF ReadHit, TypeOK
    <3> QED
      BY <1>4, <3>1 DEF ReadHit, Entry, Entries
  <2> QED
    BY <1>1, <1>4, <2>1, <2>2 DEF ReadHit, TypeOK
<1>5. ASSUME NEW addr \in Page, ReadMiss(addr) PROVE ListInv'
  <2>1. FileNode(addr) \in Node
    BY FlushedType DEF FileNode
  <2>2. WellFormed(cache', cache_size')
    BY <1>2, <1>5, <2>1, AddToCacheList DEF ReadMiss
  <2>3. result' \in Entries
    BY <1>5, <2>1 DEF ReadMiss, Entry, Entries
  <2> QED
    BY <1>1, <1>5, <2>2, <2>3, FlushedType DEF ReadMiss, TypeOK
<1>6. ASSUME NEW addr \in Page, ReadFull(addr) PROVE ListInv'
  BY <1>1, <1>3, <1>6, FlushedType DEF ReadFull, TypeOK
<1>7. ASSUME NEW addr \in Page, NEW node \in SmallNode \union BigNode,
             write_node(node, addr)
      PROVE  ListInv'
  <2>1. node \in Node
    BY NodeTypes
  <2>2. WellFormed(cache', cache_size')
    BY <1>7, <2>1, AddToCacheList DEF write_node
  <2> QED
    BY <1>1, <1>7, <2>1, <2>2, WritePage DEF write_node, TypeOK
<1>8. ASSUME NEW addr \in Page, remove_node(addr) PROVE ListInv'
  BY <1>1, <1>2, <1>8, NodeTypes, WritePage DEF remove_node, TypeOK
<1>9. ASSUME NEW file \in [Page -> Node], init_db(file) PROVE ListInv'
  BY <1>1, <1>3, <1>9 DEF init_db, TypeOK
<1>10. CASE UNCHANGED vars
  BY <1>10 DEF vars, TypeOK, NoDuplicates
<1>11. disk \in [Page -> Node]
  BY DEF TypeOK
<1> QED
  BY <1>4, <1>5, <1>6, <1>7, <1>8, <1>9, <1>10, <1>11, FlushedType DEF Next, read_node

LEMMA InitListInv == ASSUME NodeCacheAssumption, Init PROVE ListInv
<1>1. (CHOOSE p \in Page : TRUE) \in Page
  BY DEF NodeCacheAssumption
<1>2. <<>> \in Seq(Entries) /\ Len(<<>>) = 0
  OBVIOUS
<1>3. result \in Entries
  BY <1>1, NodeTypes DEF Init, Entry, Entries
<1>4. disk \in [Page -> Node] /\ freed \in SUBSET Page
  BY NodeTypes DEF Init
<1>5. cache_size = Len(cache) /\ cache_size <= default_cache_size
  BY <1>2 DEF Init, NodeCacheAssumption
<1>6. NoDuplicates
  BY <1>2 DEF Init, NoDuplicates
<1>7. cache \in Seq(Entries)
  BY <1>2 DEF Init
<1>8. buf = NoWrite
  BY DEF Init
<1> QED
  BY <1>3, <1>4, <1>5, <1>6, <1>7, <1>8 DEF ListInv, TypeOK

LEMMA SpecListInv == Spec => []ListInv
<1>1. Init => ListInv
  BY NodeCacheAssumption, InitListInv
<1>2. ListInv /\ [Next]_vars => ListInv'
  BY NodeCacheAssumption, ListInvStep
<1> QED
  BY <1>1, <1>2, PTL DEF Spec

-----------------------------------------------------------------------------
\* The copies agree with the file, where no page holds a whole big node.
Fit == \A p \in Page : OnPage(disk[p]) = disk[p] /\ OnPage(FlushedDisk[p]) = FlushedDisk[p]

CopyInv == CacheCoherent /\ Fit

LEMMA CopyInvStep ==
  ASSUME NodeCacheAssumption, ListInv, CopyInv, [Next]_vars
  PROVE  CopyInv'
<1> USE DEF ListInv
<1>1. ASSUME NEW addr \in Page, ReadHit(addr) PROVE CopyInv'
  <2>1. \A i \in 1..Len(cache') : \E k \in 1..Len(cache) : cache'[i] = cache[k]
    BY <1>1, MoveToHeadList DEF ReadHit
  <2>2. FlushedDisk' = FlushedDisk
    BY <1>1 DEF ReadHit, FlushedDisk
  <2> QED
    BY <1>1, <2>1, <2>2 DEF ReadHit, CopyInv, CacheCoherent, Fit
<1>2. ASSUME NEW addr \in Page, ReadMiss(addr) PROVE CopyInv'
  <2>1. FlushedDisk' = FlushedDisk /\ disk' = FlushedDisk
    BY <1>2 DEF ReadMiss, FlushedDisk
  <2>2. CASE FileNode(addr) \in {Unwritten, Garbage}
    BY <1>2, <2>1, <2>2 DEF ReadMiss, CopyInv, CacheCoherent, Fit
  <2>3. CASE FileNode(addr) \notin {Unwritten, Garbage}
    <3>1. AllFrom(cache', Entry(addr, FlushedDisk[addr]))
      BY <1>2, <2>3, FlushedType, AddToCacheList DEF ReadMiss, FileNode
    <3> QED
      BY <1>2, <2>1, <3>1 DEF ReadMiss, CopyInv, CacheCoherent, Fit, AllFrom, Entry
  <2> QED
    BY <2>2, <2>3
<1>3. ASSUME NEW addr \in Page, ReadFull(addr) PROVE CopyInv'
  <2>1. FlushedDisk' = FlushedDisk /\ disk' = FlushedDisk /\ cache' = <<>>
    BY <1>3 DEF ReadFull, FlushedDisk
  <2> QED
    BY <2>1 DEF CopyInv, CacheCoherent, Fit
<1>4. ASSUME NEW addr \in Page, NEW node \in SmallNode \union BigNode,
             write_node(node, addr)
      PROVE  CopyInv'
  <2>1. node \in Node /\ OnPage(OnPage(node)) = OnPage(node)
    BY NodeTypes, OnPageTwice
  <2>2. /\ FlushedDisk' = [FlushedDisk EXCEPT ![addr] = OnPage(node)]
        /\ disk' = FlushedDisk
    BY <1>4, <2>1, WritePage DEF write_node
  <2>3. AllFrom(cache', Entry(addr, node))
    BY <1>4, <2>1, AddToCacheList DEF write_node
  <2>4. \A k \in 1..Len(cache) : cache[k].addr \in Page
    <3>1. \A k \in 1..Len(cache) : cache[k] \in Entries
      BY DEF TypeOK
    <3> QED
      BY <3>1 DEF Entries
  <2>5. CacheCoherent'
    BY <1>4, <2>2, <2>3, <2>4, FlushedType
    DEF write_node, CopyInv, CacheCoherent, AllFrom, Entry
  <2> QED
    BY <1>4, <2>1, <2>2, <2>5, FlushedType DEF write_node, CopyInv, Fit
<1>5. ASSUME NEW addr \in Page, remove_node(addr) PROVE CopyInv'
  <2>1. Garbage \in Node /\ OnPage(Garbage) = Garbage
    BY NodeTypes DEF OnPage, NodeCacheAssumption
  <2>2. /\ FlushedDisk' = [FlushedDisk EXCEPT ![addr] = Garbage]
        /\ disk' = FlushedDisk
    BY <1>5, <2>1, WritePage DEF remove_node
  <2>3. \A k \in 1..Len(cache) : cache[k] \in Entries
    BY DEF TypeOK
  <2>4. CacheCoherent'
    BY <1>5, <2>2, <2>3, FlushedType DEF remove_node, CopyInv, CacheCoherent, Entries
  <2> QED
    BY <1>5, <2>1, <2>2, <2>4, FlushedType DEF remove_node, CopyInv, Fit
<1>6. ASSUME NEW file \in {disk, FlushedDisk}, init_db(file) PROVE CopyInv'
  <2>1. FlushedDisk' = file /\ disk' = file
    BY <1>6 DEF init_db, FlushedDisk
  <2> QED
    BY <1>6, <2>1 DEF init_db, CopyInv, CacheCoherent, Fit
<1>7. CASE UNCHANGED vars
  BY <1>7 DEF vars, CopyInv, CacheCoherent, Fit, FlushedDisk
<1> QED
  BY <1>1, <1>2, <1>3, <1>4, <1>5, <1>6, <1>7 DEF Next, read_node

LEMMA SpecCopyInv == Spec => [](ListInv /\ CopyInv)
<1>1. Init => CopyInv
  <2>1. OnPage(Unwritten) = Unwritten
    BY NodeCacheAssumption DEF OnPage, NodeCacheAssumption
  <2> QED
    BY <2>1 DEF Init, CopyInv, CacheCoherent, Fit, FlushedDisk
<1>2. ListInv /\ CopyInv /\ [Next]_vars => (ListInv /\ CopyInv)'
  BY NodeCacheAssumption, ListInvStep, CopyInvStep
<1>3. Init => ListInv
  BY NodeCacheAssumption, InitListInv
<1> QED
  BY <1>1, <1>2, <1>3, PTL DEF Spec

\* Every step of the cache is a step of the memory, or changes nothing of it.
LEMMA MemoryStep ==
  ASSUME NodeCacheAssumption, ListInv, CopyInv, [Next]_vars
  PROVE  [Memory!Next]_Memory!vars
<1> USE DEF ListInv
<1>1. ASSUME NEW addr \in Page, addr \notin freed, ReadHit(addr) PROVE Memory!Read(addr)
  <2>1. OnPage(cache[Index(addr)].node) = FlushedDisk[addr]
    BY <1>1, IndexOfCached DEF ReadHit, CopyInv, CacheCoherent
  <2>2. FlushedDisk' = FlushedDisk
    BY <1>1 DEF ReadHit, FlushedDisk
  <2> QED
    BY <1>1, <2>1, <2>2 DEF ReadHit, Memory!Read, Entry
<1>2. ASSUME NEW addr \in Page, addr \notin freed, ReadMiss(addr) PROVE Memory!Read(addr)
  <2>1. FlushedDisk' = FlushedDisk
    BY <1>2 DEF ReadMiss, FlushedDisk
  <2>2. OnPage(FlushedDisk[addr]) = FlushedDisk[addr]
    BY DEF CopyInv, Fit
  <2> QED
    BY <1>2, <2>1, <2>2 DEF ReadMiss, FileNode, Memory!Read, Entry
<1>3. ASSUME NEW addr \in Page, ReadFull(addr) PROVE Memory!Restart
  BY <1>3 DEF ReadFull, FlushedDisk, Memory!Restart
<1>4. ASSUME NEW addr \in Page, NEW node \in SmallNode \union BigNode,
             write_node(node, addr)
      PROVE  OnPage(node) \in Node /\ Memory!Write(addr, OnPage(node))
  <2>1. node \in Node /\ OnPage(node) \in Node
    BY NodeTypes
  <2>2. /\ disk' = FlushedDisk
        /\ FlushedDisk' = [FlushedDisk EXCEPT ![addr] = OnPage(node)]
    BY <1>4, <2>1, WritePage DEF write_node
  <2> QED
    BY <1>4, <2>1, <2>2 DEF write_node, Memory!Write
<1>5. ASSUME NEW addr \in Page, remove_node(addr) PROVE Memory!Remove(addr)
  <2>1. Garbage \in Node /\ OnPage(Garbage) = Garbage
    BY NodeTypes DEF OnPage, NodeCacheAssumption
  <2>2. /\ disk' = FlushedDisk
        /\ FlushedDisk' = [FlushedDisk EXCEPT ![addr] = Garbage]
    BY <1>5, <2>1, WritePage DEF remove_node
  <2> QED
    BY <1>5, <2>1, <2>2 DEF remove_node, Memory!Remove
<1>6. ASSUME NEW file \in {disk, FlushedDisk}, init_db(file) PROVE Memory!Restart
  BY <1>6 DEF init_db, FlushedDisk, Memory!Restart
<1>7. CASE UNCHANGED vars
  BY <1>7 DEF vars, Memory!vars, FlushedDisk
<1> QED
  BY <1>1, <1>2, <1>3, <1>4, <1>5, <1>6, <1>7 DEF Next, read_node, Memory!Next

-----------------------------------------------------------------------------
\* The list of the cache is well typed: never longer than default_cache_size,
\* and db.cache_size its length (add_to_cache, get_from_cache).
THEOREM NodeCacheTypeCorrect == Spec => []TypeOK
<1>1. ListInv => TypeOK
  BY DEF ListInv
<1> QED
  BY <1>1, SpecListInv, PTL

\* No address ever has two copies in the cache (add_to_cache).
THEOREM NeverDuplicated == Spec => []NoDuplicates
<1>1. ListInv => NoDuplicates
  BY DEF ListInv
<1> QED
  BY <1>1, SpecListInv, PTL

\* Every copy of a page that is not free is what the file holds there, as far as
\* pages hold nodes (read_node, write_node, remove_node).
THEOREM CopiesAgreeWithFile == Spec => []CacheCoherent
<1>1. ListInv /\ CopyInv => CacheCoherent
  BY DEF CopyInv
<1> QED
  BY <1>1, SpecCopyInv, PTL

\* The cache over the file implements a memory of what pages hold: a read
\* returns the last write (read_node, write_node).
THEOREM CacheIsAMemory == Spec => ImplementsMemory
<1>1. Init => Memory!Init
  <2>1. OnPage(Unwritten) = Unwritten
    BY NodeCacheAssumption DEF OnPage, NodeCacheAssumption
  <2> QED
    BY <2>1 DEF Init, Memory!Init, FlushedDisk, Entry
<1>2. ListInv /\ CopyInv /\ [Next]_vars => [Memory!Next]_Memory!vars
  BY NodeCacheAssumption, MemoryStep
<1> QED
  BY <1>1, <1>2, SpecCopyInv, PTL DEF Spec, ImplementsMemory, Memory!Spec
=============================================================================
