----------------------------- MODULE HeapTable -----------------------------
(***************************************************************************)
(* PageHeapTable (src/src/storage/heap/page_heap_table.cpp): a table's     *)
(* heap, a vector of slotted pages that every handle and every cursor of   *)
(* the table shares.  Each public call is one action; `result' is what it  *)
(* returned.  Cursors hold only a position, so that inserts and deletes    *)
(* between two Next calls change what a scan meets.                        *)
(*                                                                         *)
(* `scans' is a history variable: what each scan still owes its caller and *)
(* what it has returned.                                                   *)
(***************************************************************************)
EXTENDS SlottedPage, FiniteSets

CONSTANTS RootPageId,      \* PageId given to the first page
          MaxValidPageId,  \* kInvalidPageId - 1
          Records,         \* the encoded records callers insert
          Cursors,         \* the cursors callers hold
          NoId             \* no record id

ASSUME HeapAssumption ==
  /\ MaxValidPageId \in Nat
  /\ RootPageId \in 0 .. MaxValidPageId + 1
  /\ Records \subseteq Seq(Byte)

kInvalidPageId == MaxValidPageId + 1

(* The record ids callers may present, among them ids never handed out.    *)
RecordIds == (RootPageId .. kInvalidPageId) \X (0 .. PageSize \div kSlotEntrySize)

VARIABLES pages,           \* std::vector<HeapPageFrame>
          active_records,  \* what RecordCount() reports
          cursors,         \* page_index_ and slot_id_ of each cursor
          scans,           \* history: pending and seen ids of each scan
          result           \* what the last call returned

vars == <<pages, active_records, cursors, scans, result>>

NoScan == [open |-> FALSE, pending |-> {}, seen |-> {}]

Returned(op, status, id, bytes) ==
  [op |-> op, status |-> status, id |-> id, bytes |-> bytes]

-----------------------------------------------------------------------------
(* The records a page vector holds.                                        *)

LiveIds(ps) ==
  UNION {{<<ps[i].page_id, s>> : s \in ActiveSlots(ps[i])} : i \in DOMAIN ps}

PagesWithId(ps, page_id) == {i \in DOMAIN ps : ps[i].page_id = page_id}

(* FindPage: the first page with this id; only used when there is one.     *)
FindPage(ps, page_id) ==
  CHOOSE i \in PagesWithId(ps, page_id) :
    \A j \in PagesWithId(ps, page_id) : i <= j

RecordAt(ps, id) ==
  LET p == ps[FindPage(ps, id[1])] IN SpanOf(p, p.slots[id[2]])

LiveRecords(ps) == [id \in LiveIds(ps) |-> RecordAt(ps, id)]

-----------------------------------------------------------------------------
Init ==
  /\ pages = << >>
  /\ active_records = 0
  /\ cursors = [c \in Cursors |-> [page_index |-> 0, slot_id |-> 0]]
  /\ scans = [c \in Cursors |-> NoScan]
  /\ result = Returned("None", "Ok", NoId, << >>)

(* AllocatePage: its status, and the page it appends when that is Ok.      *)
NewPage == PageInitialize(BlankPage(RootPageId + Len(pages)), "Heap")

(* Mutant: no check for the end of the page id space.                      *)
AllocatePageStatus_NoLimit ==
  IF RootPageId = kInvalidPageId THEN "InvalidArgument" ELSE NewPage.status

AllocatePageStatus ==
  IF RootPageId = kInvalidPageId THEN "InvalidArgument"
  ELSE IF PageSize = 0 THEN "InvalidArgument"
  ELSE IF Len(pages) > MaxValidPageId - RootPageId THEN "Internal"
  ELSE NewPage.status

(* The pages on which the first-fit loop of Insert stops.                  *)
StopPages(record) ==
  {i \in DOMAIN pages : InsertStatus(pages[i], record) # "InvalidArgument"}

(* Mutant: the record is counted before the page has accepted it.          *)
InsertInto_CountsEarly(ps, i, record) ==
  LET r == PageInsert(ps[i], record)
      ok == r.status = "Ok"
  IN /\ pages' = IF ok THEN [ps EXCEPT ![i] = r.page] ELSE pages
     /\ active_records' = active_records + 1
     /\ result' = Returned("Insert", r.status,
                           IF ok THEN <<ps[i].page_id, r.slot>> ELSE NoId, << >>)
     /\ UNCHANGED <<cursors, scans>>

(* Insert the record into page i of ps, which is `pages' or `pages' with a *)
(* new page at its end; on failure the new page is popped again.           *)
InsertInto(ps, i, record) ==
  LET r == PageInsert(ps[i], record)
      ok == r.status = "Ok"
  IN /\ pages' = IF ok THEN [ps EXCEPT ![i] = r.page] ELSE pages
     /\ active_records' = IF ok THEN active_records + 1 ELSE active_records
     /\ result' = Returned("Insert", r.status,
                           IF ok THEN <<ps[i].page_id, r.slot>> ELSE NoId, << >>)
     /\ UNCHANGED <<cursors, scans>>

InsertExisting(record) ==
  /\ StopPages(record) # {}
  /\ LET i == CHOOSE i \in StopPages(record) :
                \A j \in StopPages(record) : i <= j
     IN InsertInto(pages, i, record)

InsertNew(record) ==
  /\ StopPages(record) = {}
  /\ AllocatePageStatus = "Ok"
  /\ InsertInto(Append(pages, NewPage.page), Len(pages) + 1, record)

InsertUnallocated(record) ==
  /\ StopPages(record) = {}
  /\ AllocatePageStatus # "Ok"
  /\ result' = Returned("Insert", AllocatePageStatus, NoId, << >>)
  /\ UNCHANGED <<pages, active_records, cursors, scans>>

Insert(record) ==
  InsertExisting(record) \/ InsertNew(record) \/ InsertUnallocated(record)

Read(id) ==
  /\ IF PagesWithId(pages, id[1]) = {}
     THEN result' = Returned("Read", "NotFound", NoId, << >>)
     ELSE LET r == PageRead(pages[FindPage(pages, id[1])], id[2])
          IN result' = Returned("Read", r.status,
                                IF r.status = "Ok" THEN id ELSE NoId, r.bytes)
  /\ UNCHANGED <<pages, active_records, cursors, scans>>

DeletePageMissing(id) ==
  /\ PagesWithId(pages, id[1]) = {}
  /\ result' = Returned("Delete", "NotFound", NoId, << >>)
  /\ UNCHANGED <<pages, active_records, cursors, scans>>

DeleteInPage(id) ==
  /\ PagesWithId(pages, id[1]) # {}
  /\ LET i == FindPage(pages, id[1])
         r == PageDelete(pages[i], id[2])
         ok == r.status = "Ok"
     IN /\ pages' = [pages EXCEPT ![i] = r.page]
        /\ active_records' = IF ok THEN active_records - 1 ELSE active_records
        /\ scans' = IF ok
                    THEN [c \in Cursors |->
                            [scans[c] EXCEPT !.pending = @ \ {id}]]
                    ELSE scans
        /\ result' = Returned("Delete", r.status, IF ok THEN id ELSE NoId, << >>)
  /\ UNCHANGED cursors

Delete(id) == DeletePageMissing(id) \/ DeleteInPage(id)

Scan(c) ==
  /\ cursors' = [cursors EXCEPT ![c] = [page_index |-> 0, slot_id |-> 0]]
  /\ scans' = [scans EXCEPT ![c] = [open    |-> TRUE,
                                    pending |-> LiveIds(pages),
                                    seen    |-> {}]]
  /\ result' = Returned("Scan", "Ok", NoId, << >>)
  /\ UNCHANGED <<pages, active_records>>

-----------------------------------------------------------------------------
(* Cursor::Next.                                                           *)

(* Mutant: the slot is not reset to 0 when a scan goes to the next page.   *)
StopPositions_KeepsSlot(c) ==
  {pos \in (0 .. Len(pages) - 1) \X SlotIds :
     /\ pos[1] >= cursors[c].page_index
     /\ pos[2] >= cursors[c].slot_id
     /\ pos[2] < SlotCount(pages[pos[1] + 1])
     /\ AccessStatus(pages[pos[1] + 1], pos[2]) # "NotFound"}

(* Mutant: a scan leaves out the last slot of a page.                      *)
StopPositions_MissesLast(c) ==
  {pos \in (0 .. Len(pages) - 1) \X SlotIds :
     /\ \/ pos[1] > cursors[c].page_index
        \/ pos[1] = cursors[c].page_index /\ pos[2] >= cursors[c].slot_id
     /\ pos[2] + 1 < SlotCount(pages[pos[1] + 1])
     /\ AccessStatus(pages[pos[1] + 1], pos[2]) # "NotFound"}

(* The positions <<page index, slot>> the cursor has not passed, where the *)
(* page's Read is not NotFound: the loop stops at the first of them.       *)
StopPositions(c) ==
  {pos \in (0 .. Len(pages) - 1) \X SlotIds :
     /\ \/ pos[1] > cursors[c].page_index
        \/ pos[1] = cursors[c].page_index /\ pos[2] >= cursors[c].slot_id
     /\ pos[2] < SlotCount(pages[pos[1] + 1])
     /\ AccessStatus(pages[pos[1] + 1], pos[2]) # "NotFound"}

AtOrBefore(a, b) == a[1] < b[1] \/ (a[1] = b[1] /\ a[2] <= b[2])

NextFound(c) ==
  /\ scans[c].open
  /\ StopPositions(c) # {}
  /\ LET pos == CHOOSE a \in StopPositions(c) :
                  \A b \in StopPositions(c) : AtOrBefore(a, b)
         p   == pages[pos[1] + 1]
         r   == PageRead(p, pos[2])
         id  == <<p.page_id, pos[2]>>
         ok  == r.status = "Ok"
     IN /\ cursors' = [cursors EXCEPT ![c] = [page_index |-> pos[1],
                                              slot_id    |-> pos[2] + 1]]
        /\ scans' = IF ok
                    THEN [scans EXCEPT
                            ![c] = [open    |-> TRUE,
                                    pending |-> scans[c].pending \ {id},
                                    seen    |-> scans[c].seen \cup {id}]]
                    ELSE scans
        /\ result' = Returned("Next", r.status, IF ok THEN id ELSE NoId, r.bytes)
  /\ UNCHANGED <<pages, active_records>>

(* No such position: the cursor stops past the last page, or stays where   *)
(* it is when it was already there.                                        *)
NextEnd(c) ==
  /\ scans[c].open
  /\ StopPositions(c) = {}
  /\ cursors' = IF cursors[c].page_index < Len(pages)
                THEN [cursors EXCEPT ![c] = [page_index |-> Len(pages),
                                             slot_id    |-> 0]]
                ELSE cursors
  /\ result' = Returned("Next", "NotFound", NoId, << >>)
  /\ UNCHANGED <<pages, active_records, scans>>

Next ==
  \/ \E record \in Records : Insert(record)
  \/ \E id \in RecordIds : Read(id) \/ Delete(id)
  \/ \E c \in Cursors : Scan(c) \/ NextFound(c) \/ NextEnd(c)

Spec == Init /\ [][Next]_vars

-----------------------------------------------------------------------------
(* Properties.                                                             *)

Statuses == {"Ok", "InvalidArgument", "NotFound", "Internal", "Corruption"}

(* The type of every variable, as the class members are declared.          *)
TypeOK ==
  /\ pages \in Seq(Page)
  /\ active_records \in Nat
  /\ cursors \in [Cursors -> [page_index : Nat, slot_id : Nat]]
  /\ scans \in [Cursors -> [open : BOOLEAN, pending : SUBSET RecordIds,
                            seen : SUBSET RecordIds]]
  /\ result \in [op : {"None", "Insert", "Read", "Delete", "Scan", "Next"},
                 status : Statuses, id : RecordIds \cup {NoId},
                 bytes : Seq(Byte)]

(* Page ids are the consecutive ids from the root, none past the last      *)
(* valid one, so that a RecordId names at most one page of the heap        *)
(* (next_page_id, FindPage and the exhaustion check of AllocatePage).      *)
PageIdsConsecutive ==
  /\ Len(pages) <= kInvalidPageId - RootPageId
  /\ \A i \in DOMAIN pages : pages[i].page_id = RootPageId + i - 1

(* Every page of the heap is laid out the way validate_header and          *)
(* validate_slot_bounds demand, whatever inserts, deletes and slot reuse   *)
(* came before: the directory and the record area never meet.              *)
LayoutOK == \A i \in DOMAIN pages : PageLayout(pages[i])

(* No two active records of a page share a byte, also after slot reuse.    *)
RecordsDisjoint == \A i \in DOMAIN pages : ActiveDisjoint(pages[i])

(* RecordCount() is the number of records a scan would return: the counter *)
(* is adjusted on exactly the successful inserts and deletes.              *)
RecordCountExact == active_records = Cardinality(LiveIds(pages))

(* Read and Next lend out spans into page memory, no copies.  No step      *)
(* changes a byte that any slot has pointed at, deleted records included,  *)
(* and no page goes away: a span, once lent, shows the same bytes forever. *)
LentBytesFrozen ==
  [][\A i \in DOMAIN pages :
       /\ i \in DOMAIN pages'
       /\ \A a \in pages[i].upper .. PageSize - 1 :
             pages'[i].bytes[a] = pages[i].bytes[a]]_vars

(* What a scan still owes lies at or beyond its cursor, and what it has    *)
(* returned lies before it: slots reused behind the cursor are not seen    *)
(* and nothing is returned twice.                                          *)
Ahead(c, id) ==
  AtOrBefore(<<RootPageId + cursors[c].page_index, cursors[c].slot_id>>, id)

ScanPositions ==
  \A c \in Cursors :
    /\ scans[c].pending \subseteq LiveIds(pages)
    /\ \A id \in scans[c].pending : Ahead(c, id)
    /\ \A id \in scans[c].seen : ~Ahead(c, id)

Store == INSTANCE RecordStore WITH records <- LiveRecords(pages)

(* PageHeapTable implements the record store: see RecordStore.  In         *)
(* particular no call ever reports Corruption.                             *)
StoreSpec == Store!Spec

=============================================================================
