--------------------------- MODULE PageStoreProofs ---------------------------
(***************************************************************************)
(* Proofs about PageStore, for every bound on the file and every content   *)
(* of its pages: the state is well typed, the three free lists (in memory,  *)
(* after an exit, after a kill) are sound, and so create_addr never hands  *)
(* out a page that has an owner.                                           *)
(*                                                                         *)
(* The inductive invariant is TypeOK together with FreeListSound: the list *)
(* in memory alone is not inductive, because Exit and Kill replace it by   *)
(* what the file holds.                                                    *)
(***************************************************************************)
EXTENDS PageStore, SequenceLemmas

\* Taking the first page off a list leaves a list that the page is not on.
LEMMA TakeFirst ==
  ASSUME NEW h \in Header, NEW g \in Header, NEW l \in Seq(AllPages),
         NEW w \in [AllPages -> Int], NEW held \in SUBSET AllPages,
         Describes(h, l, w, held), h.nb_free_pages > 0,
         g.nb_pages = h.nb_pages,
         g.nb_free_pages = h.nb_free_pages - 1,
         g.fst_free_page = w[h.fst_free_page]
  PROVE  Describes(g, Tail(l), w, held \union {h.fst_free_page})
<1>1. /\ Len(l) \in Nat /\ Len(l) > 0 /\ h.fst_free_page = l[1]
      /\ Len(Tail(l)) = Len(l) - 1
      /\ \A i \in 1..Len(Tail(l)) : Tail(l)[i] = l[i + 1]
  BY DEF Describes, Header
<1>2. \A i \in 1..(Len(Tail(l)) - 1) : w[Tail(l)[i]] = Tail(l)[i + 1]
  BY <1>1 DEF Describes
<1>3. Len(Tail(l)) > 0 => g.fst_free_page = Tail(l)[1]
  BY <1>1 DEF Describes
<1>4. \A i, j \in 1..Len(Tail(l)) : Tail(l)[i] = Tail(l)[j] => i = j
  BY <1>1 DEF Describes
<1>5. \A i \in 1..Len(Tail(l)) : /\ Tail(l)[i] \in 0..(g.nb_pages - 1)
                                 /\ Tail(l)[i] \notin held \union {h.fst_free_page}
  BY <1>1 DEF Describes
<1>6. held \union {h.fst_free_page} \subseteq 0..(g.nb_pages - 1)
  <2>1. 1 \in 1..Len(l)
    BY <1>1
  <2>2. h.fst_free_page \in 0..(h.nb_pages - 1)
    BY <1>1, <2>1 DEF Describes
  <2> QED
    BY <2>2 DEF Describes
<1> QED
  BY <1>1, <1>2, <1>3, <1>4, <1>5, <1>6 DEF Describes

\* Putting a page its owner gives up in front of a list, linked to the page
\* that was first, leaves a list that the page is on.
LEMMA PutFirst ==
  ASSUME NEW h \in Header, NEW g \in Header, NEW l \in Seq(AllPages),
         NEW w \in [AllPages -> Int], NEW held \in SUBSET AllPages,
         Describes(h, l, w, held), NEW a \in held,
         g.nb_pages = h.nb_pages,
         g.nb_free_pages = h.nb_free_pages + 1,
         g.fst_free_page = a
  PROVE  Describes(g, <<a>> \o l, [w EXCEPT ![a] = h.fst_free_page], held \ {a})
<1> DEFINE m == <<a>> \o l
           v == [w EXCEPT ![a] = h.fst_free_page]
<1>1. /\ Len(l) \in Nat /\ Len(m) = Len(l) + 1 /\ m[1] = a
      /\ \A i \in 1..Len(l) : m[i + 1] = l[i] /\ l[i] # a
      /\ \A i \in 1..Len(m) : i = 1 \/ (i - 1 \in 1..Len(l) /\ m[i] = l[i - 1])
  BY DEF Describes
<1>2. \A i \in 1..(Len(m) - 1) : v[m[i]] = m[i + 1]
  <2> TAKE i \in 1..(Len(m) - 1)
  <2>1. CASE i = 1
    BY <1>1, <2>1 DEF Describes
  <2>2. CASE i > 1
    <3>1. i \in 1..Len(l) /\ i \in 1..Len(m) /\ i - 1 \in 1..(Len(l) - 1) /\ i # 1
      <4> HIDE DEF m
      <4> QED
        BY <1>1, <2>2
    <3>2. m[i] = l[i - 1] /\ m[i + 1] = l[i] /\ l[i - 1] # a
      <4> HIDE DEF m
      <4> QED
        BY <1>1, <3>1
    <3>3. l[i - 1] \in AllPages /\ w[l[i - 1]] = l[i]
      BY <3>1, <3>2 DEF Describes
    <3> HIDE DEF m
    <3> QED
      BY <3>2, <3>3
  <2> QED
    BY <1>1, <2>1, <2>2
<1>3. \A i, j \in 1..Len(m) : m[i] = m[j] => i = j
  BY <1>1 DEF Describes
<1>4. \A i \in 1..Len(m) : m[i] \in 0..(g.nb_pages - 1) /\ m[i] \notin held \ {a}
  BY <1>1 DEF Describes
<1>5. g.nb_free_pages = Len(m) /\ g.fst_free_page = m[1]
  BY <1>1 DEF Describes
<1> HIDE DEF m, v
<1> QED
  BY <1>1, <1>2, <1>3, <1>4, <1>5 DEF Describes, m, v

\* The word of a page that is not on the list links nothing.
LEMMA WriteHeld ==
  ASSUME NEW h \in Header, NEW l \in Seq(AllPages), NEW w \in [AllPages -> Int],
         NEW held \in SUBSET AllPages, Describes(h, l, w, held),
         NEW a \in held, NEW x \in Int
  PROVE  Describes(h, l, [w EXCEPT ![a] = x], held)
<1>1. \A i \in 1..Len(l) : l[i] \in AllPages /\ l[i] # a
  BY DEF Describes
<1>2. \A i \in 1..(Len(l) - 1) : [w EXCEPT ![a] = x][l[i]] = w[l[i]]
  BY <1>1
<1> QED
  BY <1>2 DEF Describes

\* A new page at the end of the file is on no list.
LEMMA Grow ==
  ASSUME NEW h \in Header, NEW g \in Header, NEW l \in Seq(AllPages),
         NEW w \in [AllPages -> Int], NEW held \in SUBSET AllPages,
         Describes(h, l, w, held),
         g.nb_pages = h.nb_pages + 1,
         g.nb_free_pages = h.nb_free_pages,
         g.fst_free_page = h.fst_free_page
  PROVE  Describes(g, l, w, held \union {h.nb_pages})
<1>1. h.nb_pages \in Nat
  BY DEF Header
<1>2. /\ held \union {h.nb_pages} \subseteq 0..(g.nb_pages - 1)
      /\ \A i \in 1..Len(l) : l[i] \in 0..(g.nb_pages - 1) /\ l[i] # h.nb_pages
  <2>1. held \subseteq 0..(h.nb_pages - 1)
    BY DEF Describes
  <2>2. \A i \in 1..Len(l) : l[i] \in 0..(h.nb_pages - 1)
    BY DEF Describes
  <2>3. \A p \in 0..(h.nb_pages - 1) : p \in 0..(g.nb_pages - 1) /\ p # h.nb_pages
    BY <1>1
  <2>4. h.nb_pages \in 0..(g.nb_pages - 1)
    BY <1>1
  <2> QED
    BY <2>1, <2>2, <2>3, <2>4
<1> QED
  BY <1>2 DEF Describes

\* Owning less is no harm to a list.
LEMMA GiveUp ==
  ASSUME NEW h, NEW l, NEW w, NEW held, NEW less \in SUBSET held,
         Describes(h, l, w, held)
  PROVE  Describes(h, l, w, less)
  BY DEF Describes

-----------------------------------------------------------------------------
IInv == TypeOK /\ FreeListSound

LEMMA InitType == ASSUME PageStoreAssumption, init_db PROVE TypeOK
<1>1. MaxPages \in Nat /\ MaxPages >= 1
  BY DEF PageStoreAssumption
<1>2. <<>> \in Seq(AllPages)
  OBVIOUS
<1> QED
  BY <1>1, <1>2 DEF init_db, TypeOK, NoWrite, Header, AllPages

\* What an access leaves in the file is well typed.
LEMMA FlushedType ==
  ASSUME TypeOK
  PROVE  /\ FlushedHeader \in Header /\ FlushedHeader.nb_pages \in 1..MaxPages
         /\ FlushedList \in Seq(AllPages)
         /\ FlushedWord \in [AllPages -> Int]
  BY DEF TypeOK, FlushedHeader, FlushedList, FlushedWord

\* The fields of the header in memory.
LEMMA HeaderFields ==
  ASSUME PageStoreAssumption, TypeOK
  PROVE  /\ MaxPages \in Nat /\ MaxPages >= 1
         /\ header.nb_pages \in Nat /\ header.nb_pages >= 1
         /\ header.nb_pages <= MaxPages
         /\ header.nb_free_pages \in Nat /\ header.fst_free_page \in Int
         /\ header = [nb_pages |-> header.nb_pages,
                      nb_free_pages |-> header.nb_free_pages,
                      fst_free_page |-> header.fst_free_page]
  BY DEF PageStoreAssumption, TypeOK, Header

LEMMA PopFreeInv ==
  ASSUME PageStoreAssumption, IInv, PopFree PROVE IInv'
<1> DEFINE page == header.fst_free_page
<1> USE FlushedType DEF IInv
<1>1. page \in AllPages /\ FlushedWord[page] \in Int
  <2>1. page \in AllPages
    BY HeaderFields DEF PopFree, AllPages
  <2> QED
    BY <2>1
<1>2. /\ header' \in Header /\ header'.nb_pages = header.nb_pages
      /\ header'.nb_free_pages = header.nb_free_pages - 1
      /\ header'.fst_free_page = FlushedWord[page]
  <2>1. header.nb_free_pages - 1 \in Nat
    BY HeaderFields DEF PopFree
  <2> QED
    BY <1>1, <2>1, HeaderFields DEF PopFree, Header
<1>3. freeList' \in Seq(AllPages)
  <2>1. Len(freeList) > 0
    BY DEF PopFree, FreeListSound, MemoryListSound, Describes
  <2> QED
    BY <2>1 DEF PopFree, TypeOK
<1>4. /\ buf' = HeaderWrite(header', page, freeList')
      /\ fileHeader' = FlushedHeader /\ fileList' = FlushedList /\ word' = FlushedWord
      /\ used' = used \union {page}
  BY DEF PopFree, save_header, Flush
<1>5. TypeOK'
  BY <1>1, <1>2, <1>3, <1>4 DEF TypeOK, HeaderWrite
<1>6. FlushedHeader' = header' /\ FlushedList' = freeList' /\ FlushedWord' = FlushedWord
  BY <1>4 DEF HeaderWrite, FlushedHeader, FlushedList, FlushedWord
<1>7. MemoryListSound'
  <2>1. Describes(header', Tail(freeList), FlushedWord, used \union {page})
    BY <1>2, TakeFirst DEF TypeOK, FreeListSound, MemoryListSound, PopFree
  <2> QED
    BY <1>4, <1>6, <2>1 DEF MemoryListSound, PopFree
<1>8. ExitListSound'
  BY <1>6, <1>7 DEF ExitListSound, MemoryListSound
<1>9. KillListSound'
  <2>1. FileUsed' \subseteq used
    BY <1>4 DEF FileUsed, HeaderWrite
  <2>2. Describes(FlushedHeader, FlushedList, FlushedWord, FileUsed')
    BY <2>1, GiveUp DEF FreeListSound, ExitListSound
  <2> QED
    BY <1>4, <2>2 DEF KillListSound
<1> QED
  BY <1>5, <1>7, <1>8, <1>9 DEF FreeListSound

LEMMA ExtendInv ==
  ASSUME PageStoreAssumption, IInv, Extend PROVE IInv'
<1> DEFINE page == header.nb_pages
<1> USE FlushedType DEF IInv
<1>1. /\ page \in AllPages
      /\ header' \in Header /\ header'.nb_pages = page + 1
      /\ header'.nb_pages \in 1..MaxPages
      /\ header'.nb_free_pages = header.nb_free_pages
      /\ header'.fst_free_page = header.fst_free_page
  <2>1. page \in AllPages /\ page + 1 \in 1..MaxPages /\ page + 1 \in Nat
    BY HeaderFields DEF Extend, AllPages
  <2>2. header' = [nb_pages |-> page + 1,
                   nb_free_pages |-> header.nb_free_pages,
                   fst_free_page |-> header.fst_free_page]
    BY HeaderFields DEF Extend
  <2> QED
    BY <2>1, <2>2, HeaderFields DEF Header
<1>2. /\ buf' = HeaderWrite(header', page, freeList')
      /\ fileHeader' = FlushedHeader /\ fileList' = FlushedList /\ word' = FlushedWord
      /\ used' = used \union {page} /\ freeList' = freeList
  BY DEF Extend, NewPage, save_header, Flush
<1>3. TypeOK'
  BY <1>1, <1>2 DEF TypeOK, HeaderWrite
<1>4. FlushedHeader' = header' /\ FlushedList' = freeList' /\ FlushedWord' = FlushedWord
  BY <1>2 DEF HeaderWrite, FlushedHeader, FlushedList, FlushedWord
<1>5. MemoryListSound'
  <2>1. Describes(header', freeList, FlushedWord, used \union {page})
    BY <1>1, Grow DEF TypeOK, FreeListSound, MemoryListSound
  <2> QED
    BY <1>2, <1>4, <2>1 DEF MemoryListSound
<1>6. ExitListSound'
  BY <1>4, <1>5 DEF ExitListSound, MemoryListSound
<1>7. KillListSound'
  <2>1. FileUsed' \subseteq used
    BY <1>2 DEF FileUsed, HeaderWrite
  <2>2. Describes(FlushedHeader, FlushedList, FlushedWord, FileUsed')
    BY <2>1, GiveUp DEF FreeListSound, ExitListSound
  <2> QED
    BY <1>2, <2>2 DEF KillListSound
<1> QED
  BY <1>3, <1>5, <1>6, <1>7 DEF FreeListSound

LEMMA FreePageInv ==
  ASSUME PageStoreAssumption, IInv, NEW addr \in used \ {0}, free_page(addr)
  PROVE  IInv'
<1> USE FlushedType DEF IInv
<1>1. /\ addr \in AllPages /\ header.fst_free_page \in Int
      /\ header' \in Header /\ header'.nb_pages = header.nb_pages
      /\ header'.nb_free_pages = header.nb_free_pages + 1
      /\ header'.fst_free_page = addr
  <2>1. addr \in AllPages
    BY DEF TypeOK
  <2>2. addr \in Int
    BY <2>1, HeaderFields DEF AllPages
  <2>3. header' = [nb_pages |-> header.nb_pages,
                   nb_free_pages |-> header.nb_free_pages + 1,
                   fst_free_page |-> addr]
    BY HeaderFields DEF free_page
  <2> QED
    BY <2>1, <2>2, <2>3, HeaderFields DEF Header
<1>2. /\ buf' = PageWrite(addr, header.fst_free_page)
      /\ fileHeader' = FlushedHeader /\ fileList' = FlushedList /\ word' = FlushedWord
      /\ used' = used \ {addr} /\ freeList' = <<addr>> \o freeList
  BY DEF free_page, FreeLink, write_page, Flush
<1>3. TypeOK'
  <2>1. freeList' \in Seq(AllPages)
    BY <1>1, <1>2 DEF TypeOK
  <2> QED
    BY <1>1, <1>2, <2>1 DEF TypeOK, PageWrite
<1>4. /\ FlushedHeader' = FlushedHeader /\ FlushedList' = FlushedList
      /\ FlushedWord' = [FlushedWord EXCEPT ![addr] = header.fst_free_page]
      /\ FileUsed' = used \ {addr}
  BY <1>2 DEF PageWrite, FlushedHeader, FlushedList, FlushedWord, FileUsed
<1>5. MemoryListSound'
  <2>1. Describes(header', <<addr>> \o freeList,
                  [FlushedWord EXCEPT ![addr] = header.fst_free_page], used \ {addr})
    BY <1>1, PutFirst DEF TypeOK, FreeListSound, MemoryListSound
  <2> QED
    BY <1>2, <1>4, <2>1 DEF MemoryListSound
<1>6. ExitListSound'
  <2>1. Describes(FlushedHeader, FlushedList,
                  [FlushedWord EXCEPT ![addr] = header.fst_free_page], used)
    BY <1>1, WriteHeld DEF TypeOK, FreeListSound, ExitListSound
  <2>2. Describes(FlushedHeader, FlushedList,
                  [FlushedWord EXCEPT ![addr] = header.fst_free_page], used \ {addr})
    BY <2>1, GiveUp
  <2> QED
    BY <1>2, <1>4, <2>2 DEF ExitListSound
<1>7. KillListSound'
  <2>1. Describes(FlushedHeader, FlushedList, FlushedWord, used \ {addr})
    BY GiveUp DEF FreeListSound, ExitListSound
  <2> QED
    BY <1>2, <1>4, <2>1 DEF KillListSound
<1> QED
  BY <1>3, <1>5, <1>6, <1>7 DEF FreeListSound

LEMMA WriteInv ==
  ASSUME PageStoreAssumption, IInv, NEW addr \in used, NEW w \in FirstWord,
         Write(addr, w)
  PROVE  IInv'
<1> USE FlushedType DEF IInv
<1>1. addr \in AllPages /\ w \in Int
  BY DEF TypeOK, PageStoreAssumption
<1>2. /\ buf' = PageWrite(addr, w)
      /\ fileHeader' = FlushedHeader /\ fileList' = FlushedList /\ word' = FlushedWord
      /\ used' = used /\ freeList' = freeList /\ header' = header
  BY DEF Write, write_page, Flush
<1>3. TypeOK'
  BY <1>1, <1>2 DEF TypeOK, PageWrite
<1>4. /\ FlushedHeader' = FlushedHeader /\ FlushedList' = FlushedList
      /\ FlushedWord' = [FlushedWord EXCEPT ![addr] = w]
      /\ FileUsed' = used
  BY <1>2 DEF PageWrite, FlushedHeader, FlushedList, FlushedWord, FileUsed
<1>5. MemoryListSound'
  <2>1. Describes(header, freeList, [FlushedWord EXCEPT ![addr] = w], used)
    BY <1>1, WriteHeld DEF TypeOK, FreeListSound, MemoryListSound
  <2> QED
    BY <1>2, <1>4, <2>1 DEF MemoryListSound
<1>6. ExitListSound'
  <2>1. Describes(FlushedHeader, FlushedList, [FlushedWord EXCEPT ![addr] = w], used)
    BY <1>1, WriteHeld DEF TypeOK, FreeListSound, ExitListSound
  <2> QED
    BY <1>2, <1>4, <2>1 DEF ExitListSound
<1>7. KillListSound'
  BY <1>2, <1>4 DEF KillListSound, FreeListSound, ExitListSound
<1> QED
  BY <1>3, <1>5, <1>6, <1>7 DEF FreeListSound

\* Whatever sound list the next process finds in the file is its list in
\* memory and the one it leaves.
LEMMA ReopenInv ==
  ASSUME NEW h \in Header, h.nb_pages \in 1..MaxPages,
         NEW l \in Seq(AllPages), NEW w \in [AllPages -> Int],
         NEW held \in SUBSET AllPages,
         Describes(h, l, w, held), Reopen(h, l, w, held)
  PROVE  IInv'
<1>1. TypeOK'
  BY DEF Reopen, TypeOK, NoWrite
<1>2. /\ FlushedHeader' = h /\ FlushedList' = l /\ FlushedWord' = w
      /\ FileUsed' = held
  BY DEF Reopen, NoWrite, FlushedHeader, FlushedList, FlushedWord, FileUsed
<1>3. MemoryListSound' /\ ExitListSound' /\ KillListSound'
  BY <1>2 DEF MemoryListSound, ExitListSound, KillListSound, Reopen
<1> QED
  BY <1>1, <1>3 DEF IInv, FreeListSound

LEMMA ExitInv == ASSUME IInv, Exit PROVE IInv'
  BY FlushedType, ReopenInv DEF IInv, TypeOK, FreeListSound, ExitListSound, Exit

LEMMA KillInv == ASSUME IInv, Kill PROVE IInv'
<1>1. FileUsed \in SUBSET AllPages
  BY DEF IInv, TypeOK, FileUsed
<1> QED
  BY <1>1, ReopenInv DEF IInv, TypeOK, FreeListSound, KillListSound, Kill

LEMMA StutterInv == ASSUME IInv, UNCHANGED vars PROVE IInv'
  BY DEF IInv, vars, TypeOK, FreeListSound, MemoryListSound, ExitListSound,
     KillListSound, FlushedHeader, FlushedList, FlushedWord, FileUsed

LEMMA InitInv == ASSUME PageStoreAssumption, init_db PROVE IInv
<1>1. Len(<<>>) = 0
  OBVIOUS
<1>2. FreeListSound
  BY <1>1 DEF init_db, NoWrite, FreeListSound, MemoryListSound, ExitListSound,
     KillListSound, Describes, FlushedHeader, FlushedList, FlushedWord, FileUsed
<1> QED
  BY <1>2, InitType DEF IInv

LEMMA SpecInv == Spec => []IInv
<1>1. init_db => IInv
  BY PageStoreAssumption, InitInv
<1>2. IInv /\ [Next]_vars => IInv'
  <2> SUFFICES ASSUME IInv, [Next]_vars PROVE IInv'
    OBVIOUS
  <2>1. CASE PopFree
    BY <2>1, PageStoreAssumption, PopFreeInv
  <2>2. CASE Extend
    BY <2>2, PageStoreAssumption, ExtendInv
  <2>3. CASE \E addr \in used \ {0} : free_page(addr)
    BY <2>3, PageStoreAssumption, FreePageInv
  <2>4. CASE \E addr \in used, w \in FirstWord : Write(addr, w)
    BY <2>4, PageStoreAssumption, WriteInv
  <2>5. CASE Exit
    BY <2>5, ExitInv
  <2>6. CASE Kill
    BY <2>6, KillInv
  <2>7. CASE UNCHANGED vars
    BY <2>7, StutterInv
  <2> QED
    BY <2>1, <2>2, <2>3, <2>4, <2>5, <2>6, <2>7 DEF Next
<1> QED
  BY <1>1, <1>2, PTL DEF Spec

\* The page a sound list gives out first is not held.
LEMMA NextPageFree ==
  ASSUME NEW h \in Header, NEW l \in Seq(AllPages), NEW w, NEW held,
         Describes(h, l, w, held)
  PROVE  NextPage(h) \notin held
<1>1. CASE h.nb_free_pages > 0
  <2>1. 1 \in 1..Len(l) /\ h.fst_free_page = l[1]
    BY <1>1 DEF Describes
  <2> QED
    BY <1>1, <2>1 DEF Describes, NextPage
<1>2. CASE ~(h.nb_free_pages > 0)
  BY <1>2 DEF Describes, NextPage, Header
<1> QED
  BY <1>1, <1>2

-----------------------------------------------------------------------------
\* The state of the allocator is well typed: the header never counts pages the
\* file does not have, however the process ends (diskio.c).
THEOREM PageStoreTypeCorrect == Spec => []TypeOK
<1>1. IInv => TypeOK
  BY DEF IInv
<1> QED
  BY <1>1, SpecInv, PTL

\* The free list in memory, after an exit and after a kill is well linked and
\* free of pages in use (create_addr, free_page, save_header).
THEOREM FreeListAlwaysSound == Spec => []FreeListSound
<1>1. IInv => FreeListSound
  BY DEF IInv
<1> QED
  BY <1>1, SpecInv, PTL

\* create_addr never hands out a page that has an owner, in this process or in
\* one that reopens the file after a kill or an exit.
THEOREM NoPageHandedOutTwice == Spec => []NeverHandsOutUsedPage
<1>1. IInv => NeverHandsOutUsedPage
  BY FlushedType, NextPageFree
  DEF IInv, TypeOK, FreeListSound, MemoryListSound, ExitListSound, KillListSound,
      NeverHandsOutUsedPage
<1> QED
  BY <1>1, SpecInv, PTL

-----------------------------------------------------------------------------
\* The pages that the words link are those of the list: the walk along the words
\* and the list agree at the first place, and at every next one.
LEMMA WalkIsList ==
  ASSUME PageStoreAssumption, TypeOK, MemoryListSound
  PROVE  FreePages = {freeList[i] : i \in 1..Len(freeList)}
<1> DEFINE N == header.nb_free_pages
           Walk(f) == [n \in 1..N |-> IF n = 1 THEN header.fst_free_page ELSE FlushedWord[f[n - 1]]]
           page == CHOOSE f : f = Walk(f)
           l == [n \in 1..N |-> freeList[n]]
<1>1. /\ N \in Nat /\ Len(freeList) = N
      /\ N > 0 => header.fst_free_page = freeList[1]
      /\ \A i \in 1..(N - 1) : FlushedWord[freeList[i]] = freeList[i + 1]
  <2>1. header.nb_free_pages \in Nat
    BY DEF TypeOK, Header
  <2>2. /\ header.nb_free_pages = Len(freeList)
        /\ Len(freeList) > 0 => header.fst_free_page = freeList[1]
        /\ \A i \in 1..(Len(freeList) - 1) : FlushedWord[freeList[i]] = freeList[i + 1]
    BY DEF MemoryListSound, Describes
  <2> QED
    BY <2>1, <2>2
<1> HIDE DEF N
<1>2. l = Walk(l)
  <2> SUFFICES ASSUME NEW n \in 1..N
               PROVE  freeList[n] = IF n = 1 THEN header.fst_free_page ELSE FlushedWord[l[n - 1]]
    OBVIOUS
  <2>1. CASE n = 1
    BY <1>1, <2>1
  <2>2. CASE n # 1
    <3>1. n - 1 \in 1..(N - 1) /\ n - 1 \in 1..N /\ (n - 1) + 1 = n
      BY <1>1, <2>2
    <3> QED
      BY <1>1, <2>2, <3>1
  <2> QED
    BY <2>1, <2>2
<1>3. page = Walk(page)
  <2> HIDE DEF l
  <2> QED
    BY <1>2
<1>4. DOMAIN page = 1..N
      /\ \A n \in 1..N : page[n] = IF n = 1 THEN header.fst_free_page ELSE FlushedWord[page[n - 1]]
  <2> HIDE DEF page
  <2> QED
    BY <1>3
<1> HIDE DEF page
<1>5. \A n \in 1..N : page[n] = freeList[n]
  <2> DEFINE Wrong == {n \in 1..N : page[n] # freeList[n]}
  <2> SUFFICES ASSUME Wrong # {} PROVE FALSE
    OBVIOUS
  <2>1. Wrong \in SUBSET Nat
    BY <1>1
  <2>2. PICK n \in Wrong : \A m \in Wrong : n <= m
    BY <2>1, LeastNumber
  <2>3. CASE n = 1
    BY <1>1, <1>4, <2>2, <2>3
  <2>4. CASE n # 1
    <3>1. n - 1 \in 1..(N - 1) /\ n - 1 \in 1..N /\ (n - 1) + 1 = n
      BY <1>1, <2>2, <2>4
    <3>2. n - 1 \notin Wrong
      BY <1>1, <2>2, <3>1
    <3>3. page[n - 1] = freeList[n - 1]
      BY <3>1, <3>2
    <3>4. page[n] = FlushedWord[page[n - 1]]
      BY <1>4, <2>2, <2>4
    <3>5. FlushedWord[freeList[n - 1]] = freeList[n]
      BY <1>1, <3>1
    <3> QED
      BY <2>2, <3>3, <3>4, <3>5
  <2> QED
    BY <2>3, <2>4
<1>6. FreePages = {page[n] : n \in DOMAIN page}
  BY DEF FreePages, page, N
<1>7. {page[n] : n \in DOMAIN page} = {freeList[n] : n \in 1..N}
  BY <1>4, <1>5
<1> QED
  BY <1>1, <1>6, <1>7

\* The same without the words: what is in use and what is on the list.
Listed(l) == {l[i] : i \in 1..Len(l)}
AllListed == used \union Listed(freeList) = 0..(header.nb_pages - 1)

\* A step of the allocator takes no page out of the two.
LEMMA StepKeepsPages ==
  ASSUME IInv, [Next]_vars, buf' # NoWrite, AllListed
  PROVE  AllListed'
<1>1. /\ header \in Header /\ freeList \in Seq(AllPages) /\ used \subseteq AllPages
      /\ header.nb_free_pages = Len(freeList)
      /\ Len(freeList) > 0 => header.fst_free_page = freeList[1]
  BY DEF IInv, TypeOK, FreeListSound, MemoryListSound, Describes
<1>2. CASE PopFree
  <2>1. Listed(freeList) = {header.fst_free_page} \union Listed(Tail(freeList))
    <3>1. Len(freeList) > 0 /\ header.fst_free_page = freeList[1]
      BY <1>1, <1>2 DEF PopFree
    <3>2. Len(Tail(freeList)) = Len(freeList) - 1
          /\ \A i \in 1..Len(Tail(freeList)) : Tail(freeList)[i] = freeList[i + 1]
      BY <1>1, <3>1
    <3>3. \A i \in 1..Len(freeList) : i = 1 \/ freeList[i] \in Listed(Tail(freeList))
      <4> SUFFICES ASSUME NEW i \in 1..Len(freeList), i # 1
                   PROVE  freeList[i] \in Listed(Tail(freeList))
        OBVIOUS
      <4>1. i - 1 \in 1..Len(Tail(freeList)) /\ Tail(freeList)[i - 1] = freeList[i]
        BY <1>1, <3>2
      <4> QED
        BY <4>1 DEF Listed
    <3>4. \A i \in 1..Len(Tail(freeList)) : i + 1 \in 1..Len(freeList)
      BY <1>1, <3>2
    <3>5. Listed(Tail(freeList)) \subseteq Listed(freeList)
      BY <3>2, <3>4 DEF Listed
    <3>6. header.fst_free_page \in Listed(freeList)
      BY <1>1, <3>1 DEF Listed
    <3>7. Listed(freeList) \subseteq {header.fst_free_page} \union Listed(Tail(freeList))
      BY <3>1, <3>3 DEF Listed
    <3> QED
      BY <3>5, <3>6, <3>7
  <2>2. /\ header'.nb_pages = header.nb_pages
        /\ freeList' = Tail(freeList)
        /\ used' = used \union {header.fst_free_page}
    BY <1>1, <1>2 DEF PopFree, Header
  <2>3. used' \union Listed(freeList') = used \union Listed(freeList)
    BY <2>1, <2>2
  <2> QED
    BY <2>2, <2>3 DEF AllListed
<1>3. CASE Extend
  <2>1. /\ header'.nb_pages = header.nb_pages + 1
        /\ freeList' = freeList
        /\ used' = used \union {header.nb_pages}
    BY <1>1, <1>3 DEF Extend, NewPage, Header
  <2>2. 0..header.nb_pages = 0..(header.nb_pages - 1) \union {header.nb_pages}
    BY <1>1 DEF Header
  <2>3. header'.nb_pages - 1 = header.nb_pages
    BY <1>1, <2>1 DEF Header
  <2> QED
    BY <2>1, <2>2, <2>3 DEF AllListed
<1>4. CASE \E addr \in used \ {0} : free_page(addr)
  <2>1. PICK addr \in used \ {0} : free_page(addr)
    BY <1>4
  <2>2. /\ header'.nb_pages = header.nb_pages
        /\ freeList' = <<addr>> \o freeList
        /\ used' = used \ {addr}
    BY <1>1, <2>1 DEF free_page, Header
  <2>3. Listed(<<addr>> \o freeList) = {addr} \union Listed(freeList)
    <3>1. addr \in AllPages
      BY <1>1
    <3>2. /\ Len(<<addr>> \o freeList) = Len(freeList) + 1
          /\ (<<addr>> \o freeList)[1] = addr
          /\ \A i \in 1..Len(freeList) : (<<addr>> \o freeList)[i + 1] = freeList[i]
      BY <1>1, <3>1
    <3>3. \A i \in 1..(Len(freeList) + 1) : i = 1 \/ (i - 1 \in 1..Len(freeList) /\ (i - 1) + 1 = i)
      BY <1>1
    <3>4. \A i \in 1..Len(freeList) : i + 1 \in 1..(Len(freeList) + 1)
      BY <1>1
    <3>5. Listed(freeList) \subseteq Listed(<<addr>> \o freeList)
      BY ZenonT(60), <3>2, <3>4 DEF Listed
    <3>6. addr \in Listed(<<addr>> \o freeList)
      BY <1>1, <3>2 DEF Listed
    <3>7. Listed(<<addr>> \o freeList) \subseteq {addr} \union Listed(freeList)
      BY <3>2, <3>3 DEF Listed
    <3> QED
      BY <3>5, <3>6, <3>7
  <2>4. used' \union Listed(freeList') = used \union Listed(freeList)
    BY <2>1, <2>2, <2>3
  <2> QED
    BY <2>2, <2>4 DEF AllListed
<1>5. CASE \E addr \in used, w \in FirstWord : Write(addr, w)
  BY <1>5 DEF Write, AllListed
<1>6. CASE Exit \/ Kill
  BY <1>6 DEF Exit, Kill, Reopen
<1>7. CASE UNCHANGED vars
  BY <1>7 DEF vars, AllListed
<1> QED
  BY <1>2, <1>3, <1>4, <1>5, <1>6, <1>7 DEF Next

\* As long as the process runs, create_addr and free_page lose no page of the
\* file: each is in use or reached by the links of the free list.
THEOREM NoPageLostWhileRunning == Spec => PagesLeakOnlyAtTheEnd
<1>1. IInv => (Accounted <=> AllListed)
  <2> SUFFICES ASSUME IInv PROVE FreePages = Listed(freeList)
    BY DEF Accounted, AllListed
  <2> QED
    BY PageStoreAssumption, WalkIsList DEF IInv, FreeListSound, Listed
<1>2. IInv /\ [Next]_vars => [buf' # NoWrite => (AllListed => AllListed')]_vars
  BY StepKeepsPages
<1> QED
  BY <1>1, <1>2, SpecInv, PTL DEF Spec, PagesLeakOnlyAtTheEnd
=============================================================================
