------------------------------ MODULE PageStore ------------------------------
(***************************************************************************)
(* The page allocator of server-side/diskio/diskio.c: db.header, the list  *)
(* of free pages linked through the first word of each free page, and the  *)
(* file they are written to.  create_addr hands a page out, free_page puts *)
(* it back, write_page stores the contents of one.                         *)
(*                                                                         *)
(* The file is a stdio stream: fwrite leaves the last write in the buffer  *)
(* of the process and the fseek before the next access hands it to the     *)
(* system, so a killed process loses at most the last write, and one that  *)
(* leaves through exit(0) (sigintHandler) loses none.                      *)
(***************************************************************************)
EXTENDS Integers, Sequences, FiniteSets

CONSTANTS MaxPages,     \* bound on the pages of the file
          FirstWord     \* what the first word of a page in use may be: the
                        \* parent address of a node, -1 for a root

ASSUME PageStoreAssumption == /\ MaxPages \in Nat \ {0}
                              /\ FirstWord \subseteq Int

VARIABLES header,       \* db.header
          fileHeader,   \* the header as the system has it
          word,         \* the first word of every page as the system has it
          buf,          \* the write still in the buffer of the stream
          used,         \* the pages handed out and not freed
          freeList,     \* auxiliary: the pages on the free list of header
          fileList      \* auxiliary: the pages on the free list of fileHeader

vars == <<header, fileHeader, word, buf, used, freeList, fileList>>

AllPages == 0..(MaxPages - 1)

Header == [nb_pages : Nat, nb_free_pages : Nat, fst_free_page : Int]

\* What the buffer may hold: nothing, a header (with the page that was handed
\* out when it was saved and the free list it describes), or a page.
NoWrite == [on |-> "none"]
HeaderWrite(h, p, l) == [on |-> "header", hdr |-> h, page |-> p, list |-> l]
PageWrite(p, w) == [on |-> "page", page |-> p, w |-> w]

-----------------------------------------------------------------------------
\* The file once the buffer has reached it
FlushedHeader == IF buf.on = "header" THEN buf.hdr ELSE fileHeader
FlushedList   == IF buf.on = "header" THEN buf.list ELSE fileList
FlushedWord   == IF buf.on = "page" THEN [word EXCEPT ![buf.page] = buf.w] ELSE word

\* fseek before an access
Flush == /\ fileHeader' = FlushedHeader
         /\ fileList' = FlushedList
         /\ word' = FlushedWord

\* Mutant: the header is not saved by create_addr.
SaveHeaderForgotten(page) == Flush /\ buf' = NoWrite

\* fseek, fwrite of the header
save_header(page) == Flush /\ buf' = HeaderWrite(header', page, freeList')

\* fseek, fwrite of a page
write_page(page, w) == Flush /\ buf' = PageWrite(page, w)

\* A new file: page 0, the root of TABLES, is in use from the start, and no
\* other page exists.
init_db == /\ header = [nb_pages |-> 1, nb_free_pages |-> 0, fst_free_page |-> 0]
           /\ fileHeader = header
           /\ word = [p \in AllPages |-> 0]
           /\ buf = NoWrite
           /\ used = {0}
           /\ freeList = <<>>
           /\ fileList = <<>>

\* create_addr with a page on the free list: read_page gives the next one
PopFree ==
  /\ header.nb_free_pages > 0
  /\ header.fst_free_page \in 0..(header.nb_pages - 1)    \* else read_page fails
  /\ LET page == header.fst_free_page IN
       /\ header' = [header EXCEPT !.fst_free_page = FlushedWord[page],
                                   !.nb_free_pages = @ - 1]
       /\ freeList' = Tail(freeList)
       /\ used' = used \union {page}
       /\ save_header(page)

\* Mutant: ++nb_pages where the code has nb_pages++.
NewPageAfterIncrement == header.nb_pages + 1

\* create_addr with an empty free list: the file grows by one page of zeros
NewPage == header.nb_pages

Extend ==
  /\ header.nb_free_pages = 0
  /\ header.nb_pages < MaxPages
  /\ header' = [header EXCEPT !.nb_pages = @ + 1]
  /\ used' = used \union {NewPage}
  /\ UNCHANGED freeList
  /\ save_header(NewPage)

\* Mutant: fst_free_page is updated before it is stored in the freed page.
FreeLinkAfterUpdate(addr) == addr

\* The freed page links to the page that was first.
FreeLink(addr) == header.fst_free_page

\* Nobody frees page 0, which create_addr never returns.
free_page(addr) ==
  /\ header' = [header EXCEPT !.nb_free_pages = @ + 1, !.fst_free_page = addr]
  /\ write_page(addr, FreeLink(addr))
  /\ freeList' = <<addr>> \o freeList
  /\ used' = used \ {addr}

\* The owner of a page writes it.
Write(addr, w) == write_page(addr, w) /\ UNCHANGED <<header, used, freeList>>

\* The next init_db reads the header of the file it finds.  A page whose
\* create_addr the file knows nothing of was never written by its owner.
Reopen(h, l, w, held) == /\ header' = h /\ fileHeader' = h
                         /\ freeList' = l /\ fileList' = l
                         /\ word' = w
                         /\ used' = held
                         /\ buf' = NoWrite

FileUsed == IF buf.on = "header" THEN used \ {buf.page} ELSE used

Exit == Reopen(FlushedHeader, FlushedList, FlushedWord, used)
Kill == Reopen(fileHeader, fileList, word, FileUsed)

Next == \/ PopFree
        \/ Extend
        \/ \E addr \in used \ {0} : free_page(addr)
        \/ \E addr \in used, w \in FirstWord : Write(addr, w)
        \/ Exit
        \/ Kill

Spec == init_db /\ [][Next]_vars

-----------------------------------------------------------------------------
\* TYPE: the headers count pages the file has, the buffer holds one write.
TypeOK == /\ header \in Header /\ header.nb_pages \in 1..MaxPages
          /\ fileHeader \in Header /\ fileHeader.nb_pages \in 1..MaxPages
          /\ word \in [AllPages -> Int]
          /\ used \subseteq AllPages
          /\ freeList \in Seq(AllPages) /\ fileList \in Seq(AllPages)
          /\ buf.on = "none" \/ buf.on = "header" \/ buf.on = "page"
          /\ buf.on = "header" => buf.hdr \in Header
          /\ buf.on = "header" => buf.list \in Seq(AllPages)
          /\ buf.on = "header" => buf.hdr.nb_pages \in 1..MaxPages
          /\ buf.on # "none" => buf.page \in AllPages
          /\ buf.on = "page" => buf.w \in Int

\* The header h describes the list l of distinct pages, none of them held, and
\* the words w link them in the order of the list.
Describes(h, l, w, held) ==
  /\ h.nb_free_pages = Len(l)
  /\ Len(l) > 0 => h.fst_free_page = l[1]
  /\ \A i \in 1..(Len(l) - 1) : w[l[i]] = l[i + 1]
  /\ \A i, j \in 1..Len(l) : l[i] = l[j] => i = j
  /\ \A i \in 1..Len(l) : l[i] \in 0..(h.nb_pages - 1) /\ l[i] \notin held
  /\ held \subseteq 0..(h.nb_pages - 1)

\* The free list in memory, the one an exit leaves and the one a kill leaves
\* are each well linked and hold no page its owner still relies on: free_page
\* does not save the header, so the three differ, and the page words that link
\* the older lists must not have been overwritten since (create_addr,
\* free_page, save_header).
MemoryListSound == Describes(header, freeList, FlushedWord, used)
ExitListSound   == Describes(FlushedHeader, FlushedList, FlushedWord, used)
KillListSound   == Describes(fileHeader, fileList, word, FileUsed)
FreeListSound   == MemoryListSound /\ ExitListSound /\ KillListSound

\* The page create_addr would hand out next has no owner, in this process and
\* in every one that reopens the file after a kill or an exit.
NextPage(h) == IF h.nb_free_pages > 0 THEN h.fst_free_page ELSE h.nb_pages
NeverHandsOutUsedPage == /\ NextPage(header) \notin used
                         /\ NextPage(FlushedHeader) \notin used
                         /\ NextPage(fileHeader) \notin FileUsed

\* The pages that the words link behind the header
FreePages ==
  LET page[n \in 1..header.nb_free_pages] ==
        IF n = 1 THEN header.fst_free_page ELSE FlushedWord[page[n - 1]]
  IN {page[n] : n \in DOMAIN page}
Accounted == used \union FreePages = 0..(header.nb_pages - 1)

\* As long as the process runs every page is in use or can be handed out again:
\* free_page does not save the header, so pages are lost when the process ends,
\* and only then.
PagesLeakOnlyAtTheEnd == [][buf' # NoWrite => (Accounted => Accounted')]_vars
=============================================================================
