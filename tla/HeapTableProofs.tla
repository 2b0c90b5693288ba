-------------------------- MODULE HeapTableProofs --------------------------
(***************************************************************************)
(* Theorems about HeapTable for every page size, root page id, set of      *)
(* records and set of cursors: its invariants, and that it implements      *)
(* RecordStore.  The first part is about page vectors, without time.       *)
(***************************************************************************)
EXTENDS HeapTable, SlottedPageProofs

(* What is true of the page vector in every reachable state.               *)
GoodPages(ps) ==
  /\ ps \in Seq(Page)
  /\ Len(ps) <= kInvalidPageId - RootPageId
  /\ \A i \in 1 .. Len(ps) :
        /\ ps[i].page_id = RootPageId + i - 1
        /\ PageLayout(ps[i])
        /\ ActiveDisjoint(ps[i])
  /\ Len(ps) > 0 => PageSize \in 1 .. kMaxU16

(* The id of slot s on page i.                                             *)
IdOf(i, s) == <<RootPageId + i - 1, s>>

(* The constants are numbers, and page ids start at or below the invalid   *)
(* one.                                                                    *)
LEMMA ConstantTypes ==
  /\ RootPageId \in Nat /\ kInvalidPageId \in Nat /\ RootPageId <= kInvalidPageId
  /\ PageSize \div 6 \in Nat
BY HeapAssumption, PageSizeAssumption DEF kInvalidPageId

(* FindPage returns the page that carries the id.                          *)
LEMMA FindPageExact ==
  ASSUME NEW ps, GoodPages(ps), NEW i \in 1 .. Len(ps)
  PROVE  /\ PagesWithId(ps, RootPageId + i - 1) = {i}
         /\ FindPage(ps, RootPageId + i - 1) = i
<1>1. DOMAIN ps = 1 .. Len(ps) /\ Len(ps) \in Nat
  BY DEF GoodPages
<1>2. \A j \in 1 .. Len(ps) : ps[j].page_id = RootPageId + j - 1
  BY DEF GoodPages
<1>3. PagesWithId(ps, RootPageId + i - 1) = {i}
  BY <1>1, <1>2, ConstantTypes DEF PagesWithId
<1>4. \A j \in {i} : i <= j
  BY <1>1
<1> QED BY <1>3, <1>4 DEF FindPage

(* When some page carries the id, FindPage returns its position in the     *)
(* vector.                                                                 *)
LEMMA FindPageInDomain ==
  ASSUME NEW ps, GoodPages(ps), NEW page_id, PagesWithId(ps, page_id) # {}
  PROVE  /\ FindPage(ps, page_id) \in 1 .. Len(ps)
         /\ page_id = RootPageId + FindPage(ps, page_id) - 1
<1>1. DOMAIN ps = 1 .. Len(ps) /\ Len(ps) \in Nat
  BY DEF GoodPages
<1>2. PICK i \in 1 .. Len(ps) : page_id = RootPageId + i - 1
  BY <1>1 DEF PagesWithId, GoodPages
<1> QED BY <1>2, FindPageExact

(* The live ids are the active slots of the pages.                         *)
LEMMA LiveIdsExact ==
  ASSUME NEW ps, GoodPages(ps)
  PROVE  LiveIds(ps) =
           UNION {{IdOf(i, s) : s \in ActiveSlots(ps[i])} : i \in 1 .. Len(ps)}
<1>1. DOMAIN ps = 1 .. Len(ps)
  BY DEF GoodPages
<1>2. \A i \in 1 .. Len(ps) : ps[i].page_id = RootPageId + i - 1
  BY DEF GoodPages
<1> QED BY <1>1, <1>2 DEF LiveIds, IdOf

(* The id of a slot is live exactly when the slot holds an active record.  *)
LEMMA LiveIdIff ==
  ASSUME NEW ps, GoodPages(ps), NEW i \in 1 .. Len(ps), NEW s
  PROVE  IdOf(i, s) \in LiveIds(ps) <=> s \in ActiveSlots(ps[i])
<1>1. Len(ps) \in Nat
  BY DEF GoodPages
<1>2. ASSUME NEW j \in 1 .. Len(ps), NEW t, IdOf(i, s) = IdOf(j, t)
      PROVE  i = j /\ s = t
  BY <1>1, <1>2, ConstantTypes DEF IdOf
<1> QED BY <1>2, LiveIdsExact

(* Every live id is the id of some active slot of some page.               *)
LEMMA LiveIdIs ==
  ASSUME NEW ps, GoodPages(ps), NEW id \in LiveIds(ps)
  PROVE  \E i \in 1 .. Len(ps) : \E s \in ActiveSlots(ps[i]) : id = IdOf(i, s)
BY LiveIdsExact

(* Every page of a good vector is usable by the page lemmas.               *)
LEMMA PageOf ==
  ASSUME NEW ps, GoodPages(ps), NEW i \in 1 .. Len(ps)
  PROVE  /\ ps[i] \in Page /\ PageLayout(ps[i]) /\ ActiveDisjoint(ps[i])
         /\ PageSize \in 1 .. kMaxU16
         /\ ps[i].page_id = RootPageId + i - 1
         /\ ActiveSlots(ps[i]) \subseteq SlotIds
<1>1. /\ ps[i] \in Page /\ PageLayout(ps[i]) /\ ActiveDisjoint(ps[i])
      /\ PageSize \in 1 .. kMaxU16 /\ ps[i].page_id = RootPageId + i - 1
  BY DEF GoodPages
<1>2. ActiveSlots(ps[i]) \subseteq SlotIds
  BY <1>1, LayoutValid DEF ActiveSlots
<1> QED BY <1>1, <1>2

(* Live ids are record ids, and there are finitely many of them.           *)
LEMMA LiveIdsType ==
  ASSUME NEW ps, GoodPages(ps)
  PROVE  LiveIds(ps) \subseteq RecordIds /\ IsFiniteSet(LiveIds(ps))
<1>1. ASSUME NEW id \in LiveIds(ps)
      PROVE  id \in RecordIds
  <2>0. PICK i \in 1 .. Len(ps) : \E s \in ActiveSlots(ps[i]) : id = IdOf(i, s)
    BY LiveIdIs
  <2>1. PICK s \in ActiveSlots(ps[i]) : id = IdOf(i, s)
    BY <2>0
  <2>2. s \in 0 .. PageSize \div 6
    <3>1. s \in SlotIds
      BY PageOf
    <3> QED BY <3>1, ConstantTypes DEF SlotIds, kSlotEntrySize
  <2>3. RootPageId + i - 1 \in RootPageId .. kInvalidPageId
    BY ConstantTypes DEF GoodPages
  <2> QED BY <2>1, <2>2, <2>3 DEF IdOf, RecordIds, kSlotEntrySize
<1>2. IsFiniteSet(RecordIds)
  <2>1. IsFiniteSet(RootPageId .. kInvalidPageId)
    BY FS_Interval, ConstantTypes
  <2>2. IsFiniteSet(0 .. PageSize \div 6)
    BY FS_Interval, ConstantTypes
  <2> QED BY <2>1, <2>2, FS_Product DEF RecordIds, kSlotEntrySize
<1> QED BY <1>1, <1>2, FS_Subset

(* The record at a live id is the span its slot points at.                 *)
LEMMA RecordAtExact ==
  ASSUME NEW ps, GoodPages(ps), NEW i \in 1 .. Len(ps), NEW s
  PROVE  RecordAt(ps, IdOf(i, s)) = SpanOf(ps[i], ps[i].slots[s])
BY FindPageExact DEF RecordAt, IdOf

-----------------------------------------------------------------------------
(* What Insert, AllocatePage and Delete do to a page vector.               *)

(* Replacing one page by a page with the same id, laid out as well.        *)
LEMMA ReplaceKeepsGood ==
  ASSUME NEW ps, GoodPages(ps), NEW i \in 1 .. Len(ps), NEW q \in Page,
         PageLayout(q), ActiveDisjoint(q), q.page_id = ps[i].page_id
  PROVE  LET qs == [ps EXCEPT ![i] = q]
         IN  /\ GoodPages(qs)
             /\ Len(qs) = Len(ps)
             /\ qs[i] = q
             /\ \A j \in 1 .. Len(ps) : j # i => qs[j] = ps[j]
<1> DEFINE qs == [ps EXCEPT ![i] = q]
<1>1. ps \in Seq(Page) /\ Len(ps) \in Nat
  BY DEF GoodPages
<1>2. /\ qs \in Seq(Page) /\ Len(qs) = Len(ps) /\ qs[i] = q
      /\ \A j \in 1 .. Len(ps) : j # i => qs[j] = ps[j]
  BY <1>1
<1> HIDE DEF qs
<1>3. GoodPages(qs)
  BY <1>2 DEF GoodPages
<1> QED BY <1>2, <1>3 DEF qs

(* From ps to qs one new id is bound, every other record stays, and no     *)
(* byte of a record area changes.                                          *)
BindsIn(ps, qs, id, record) ==
  /\ GoodPages(qs)
  /\ id \notin LiveIds(ps)
  /\ LiveIds(qs) = LiveIds(ps) \cup {id}
  /\ RecordAt(qs, id) = record
  /\ \A other \in LiveIds(ps) : RecordAt(qs, other) = RecordAt(ps, other)
  /\ \A j \in 1 .. Len(ps) :
        /\ j \in 1 .. Len(qs)
        /\ \A a \in ps[j].upper .. PageSize - 1 :
              qs[j].bytes[a] = ps[j].bytes[a]

(* Insert into page i binds one new id and leaves every other record.      *)
LEMMA InsertVector ==
  ASSUME NEW ps, GoodPages(ps), NEW i \in 1 .. Len(ps),
         NEW record \in Seq(Byte), InsertStatus(ps[i], record) = "Ok"
  PROVE  BindsIn(ps, [ps EXCEPT ![i] = InsertedPage(ps[i], record)],
                 IdOf(i, InsertSlot(ps[i])), record)
<1> DEFINE q  == InsertedPage(ps[i], record)
           qs == [ps EXCEPT ![i] = q]
           s  == InsertSlot(ps[i])
<1>1. /\ ps[i] \in Page /\ PageLayout(ps[i]) /\ ActiveDisjoint(ps[i])
      /\ PageSize \in 1 .. kMaxU16
  BY PageOf
<1>2. q \in Page /\ PageLayout(q) /\ q.page_id = ps[i].page_id /\ ActiveDisjoint(q)
  BY <1>1, InsertKeepsLayout, InsertKeepsDisjoint
<1>3. /\ s \notin ActiveSlots(ps[i])
      /\ ActiveSlots(q) = ActiveSlots(ps[i]) \cup {s}
      /\ SpanOf(q, q.slots[s]) = record
      /\ \A t \in ActiveSlots(ps[i]) :
            SpanOf(q, q.slots[t]) = SpanOf(ps[i], ps[i].slots[t])
      /\ \A a \in ps[i].upper .. PageSize - 1 : q.bytes[a] = ps[i].bytes[a]
  BY <1>1, InsertTarget, InsertKeepsRecords, ZenonT(60)
<1> HIDE DEF q, s
<1>4. /\ GoodPages(qs) /\ Len(qs) = Len(ps) /\ qs[i] = q
      /\ \A j \in 1 .. Len(ps) : j # i => qs[j] = ps[j]
  BY <1>2, ReplaceKeepsGood
<1> HIDE DEF qs
<1>5. IdOf(i, s) \notin LiveIds(ps)
  BY <1>3, LiveIdIff
<1>6. LiveIds(qs) = LiveIds(ps) \cup {IdOf(i, s)}
  <2>1. ASSUME NEW id \in LiveIds(qs)
        PROVE  id \in LiveIds(ps) \cup {IdOf(i, s)}
    <3>1. PICK j \in 1 .. Len(qs) : \E t \in ActiveSlots(qs[j]) : id = IdOf(j, t)
      BY <1>4, LiveIdIs
    <3>2. PICK t \in ActiveSlots(qs[j]) : id = IdOf(j, t)
      BY <3>1
    <3>3. t \in ActiveSlots(ps[j]) \/ (j = i /\ t = s)
      BY <1>3, <1>4
    <3> QED BY <1>4, <3>2, <3>3, LiveIdIff
  <2>2. ASSUME NEW id \in LiveIds(ps) \cup {IdOf(i, s)}
        PROVE  id \in LiveIds(qs)
    <3>1. CASE id = IdOf(i, s)
      BY <1>3, <1>4, <3>1, LiveIdIff
    <3>2. CASE id \in LiveIds(ps)
      <4>1. PICK j \in 1 .. Len(ps) : \E t \in ActiveSlots(ps[j]) : id = IdOf(j, t)
        BY <3>2, LiveIdIs
      <4>2. PICK t \in ActiveSlots(ps[j]) : id = IdOf(j, t)
        BY <4>1
      <4>3. t \in ActiveSlots(qs[j])
        BY <1>3, <1>4
      <4> QED BY <1>4, <4>2, <4>3, LiveIdIff
    <3> QED BY <3>1, <3>2
  <2> QED BY <2>1, <2>2
<1>7. RecordAt(qs, IdOf(i, s)) = record
  BY <1>3, <1>4, RecordAtExact
<1>8. ASSUME NEW other \in LiveIds(ps)
      PROVE  RecordAt(qs, other) = RecordAt(ps, other)
  <2>1. PICK j \in 1 .. Len(ps) : \E t \in ActiveSlots(ps[j]) : other = IdOf(j, t)
    BY LiveIdIs
  <2>2. PICK t \in ActiveSlots(ps[j]) : other = IdOf(j, t)
    BY <2>1
  <2>3. SpanOf(qs[j], qs[j].slots[t]) = SpanOf(ps[j], ps[j].slots[t])
    BY <1>3, <1>4
  <2> QED BY <1>4, <2>2, <2>3, RecordAtExact
<1>9. ASSUME NEW j \in 1 .. Len(ps)
      PROVE  /\ j \in 1 .. Len(qs)
             /\ \A a \in ps[j].upper .. PageSize - 1 : qs[j].bytes[a] = ps[j].bytes[a]
  BY <1>3, <1>4
<1>10. BindsIn(ps, qs, IdOf(i, s), record)
  BY <1>4, <1>5, <1>6, <1>7, <1>8, <1>9 DEF BindsIn
<1> QED BY <1>10 DEF qs, q, s

(* From ps to qs one id is unbound, every other record stays, and no byte  *)
(* changes.                                                                *)
UnbindsIn(ps, qs, id) ==
  /\ GoodPages(qs)
  /\ LiveIds(qs) = LiveIds(ps) \ {id}
  /\ \A other \in LiveIds(qs) : RecordAt(qs, other) = RecordAt(ps, other)
  /\ \A j \in 1 .. Len(ps) :
        j \in 1 .. Len(qs) /\ qs[j].bytes = ps[j].bytes

(* Delete unbinds one id and leaves every other record and every byte.     *)
LEMMA DeleteVector ==
  ASSUME NEW ps, GoodPages(ps), NEW i \in 1 .. Len(ps), NEW s \in ActiveSlots(ps[i])
  PROVE  UnbindsIn(ps, [ps EXCEPT ![i] = PageDelete(ps[i], s).page], IdOf(i, s))
<1> DEFINE q  == PageDelete(ps[i], s).page
           qs == [ps EXCEPT ![i] = q]
<1>1. /\ ps[i] \in Page /\ PageLayout(ps[i]) /\ ActiveDisjoint(ps[i])
      /\ PageSize \in 1 .. kMaxU16
  BY PageOf
<1>2. /\ q \in Page /\ PageLayout(q) /\ q.page_id = ps[i].page_id
      /\ q.bytes = ps[i].bytes
      /\ ActiveSlots(q) = ActiveSlots(ps[i]) \ {s}
      /\ \A t \in ActiveSlots(q) : q.slots[t] = ps[i].slots[t]
  BY <1>1, DeleteEffect
<1> HIDE DEF q
<1>3. ActiveDisjoint(q)
  BY <1>1, <1>2 DEF ActiveDisjoint
<1>4. /\ GoodPages(qs) /\ Len(qs) = Len(ps) /\ qs[i] = q
      /\ \A j \in 1 .. Len(ps) : j # i => qs[j] = ps[j]
  BY <1>2, <1>3, ReplaceKeepsGood
<1> HIDE DEF qs
<1>5. LiveIds(qs) = LiveIds(ps) \ {IdOf(i, s)}
  <2>1. ASSUME NEW id \in LiveIds(qs)
        PROVE  id \in LiveIds(ps) /\ id # IdOf(i, s)
    <3>1. PICK j \in 1 .. Len(qs) : \E t \in ActiveSlots(qs[j]) : id = IdOf(j, t)
      BY <1>4, LiveIdIs
    <3>2. PICK t \in ActiveSlots(qs[j]) : id = IdOf(j, t)
      BY <3>1
    <3>3. t \in ActiveSlots(ps[j])
      BY <1>2, <1>4
    <3>4. IdOf(i, s) \notin LiveIds(qs)
      BY <1>2, <1>4, LiveIdIff
    <3> QED BY <1>4, <3>2, <3>3, <3>4, LiveIdIff
  <2>2. ASSUME NEW id \in LiveIds(ps), id # IdOf(i, s)
        PROVE  id \in LiveIds(qs)
    <3>1. PICK j \in 1 .. Len(ps) : \E t \in ActiveSlots(ps[j]) : id = IdOf(j, t)
      BY LiveIdIs
    <3>2. PICK t \in ActiveSlots(ps[j]) : id = IdOf(j, t)
      BY <3>1
    <3>3. t \in ActiveSlots(qs[j])
      BY <1>2, <1>4, <2>2, <3>2
    <3> QED BY <1>4, <3>2, <3>3, LiveIdIff
  <2> QED BY <2>1, <2>2
<1>6. ASSUME NEW other \in LiveIds(qs)
      PROVE  RecordAt(qs, other) = RecordAt(ps, other)
  <2>1. PICK j \in 1 .. Len(qs) : \E t \in ActiveSlots(qs[j]) : other = IdOf(j, t)
    BY <1>4, LiveIdIs
  <2>2. PICK t \in ActiveSlots(qs[j]) : other = IdOf(j, t)
    BY <2>1
  <2>3. SpanOf(qs[j], qs[j].slots[t]) = SpanOf(ps[j], ps[j].slots[t])
    BY <1>2, <1>4 DEF SpanOf
  <2> QED BY <1>4, <2>2, <2>3, RecordAtExact
<1>7. UnbindsIn(ps, qs, IdOf(i, s))
  BY <1>2, <1>4, <1>5, <1>6 DEF UnbindsIn
<1> QED BY <1>7 DEF qs, q

(* A fresh page binds no id and leaves every record.                       *)
LEMMA AppendVector ==
  ASSUME NEW ps, GoodPages(ps), NEW q \in Page, PageLayout(q),
         q.page_id = RootPageId + Len(ps), ActiveSlots(q) = {},
         Len(ps) < kInvalidPageId - RootPageId, PageSize \in 1 .. kMaxU16
  PROVE  LET qs == Append(ps, q)
         IN  /\ GoodPages(qs)
             /\ Len(qs) = Len(ps) + 1 /\ qs[Len(ps) + 1] = q
             /\ \A j \in 1 .. Len(ps) : qs[j] = ps[j]
             /\ LiveIds(qs) = LiveIds(ps)
             /\ \A id \in LiveIds(ps) : RecordAt(qs, id) = RecordAt(ps, id)
<1> DEFINE qs == Append(ps, q)
<1>1. ps \in Seq(Page) /\ Len(ps) \in Nat
  BY DEF GoodPages
<1>2. /\ qs \in Seq(Page) /\ Len(qs) = Len(ps) + 1 /\ qs[Len(ps) + 1] = q
      /\ \A j \in 1 .. Len(ps) : qs[j] = ps[j]
  BY <1>1
<1> HIDE DEF qs
<1>3. ActiveDisjoint(q)
  BY DEF ActiveDisjoint
<1>4. GoodPages(qs)
  <2>1. Len(qs) <= kInvalidPageId - RootPageId
    BY <1>1, <1>2, ConstantTypes
  <2>2. ASSUME NEW i \in 1 .. Len(qs)
        PROVE  /\ qs[i].page_id = RootPageId + i - 1
               /\ PageLayout(qs[i]) /\ ActiveDisjoint(qs[i])
    <3>1. CASE i = Len(ps) + 1
      BY <1>1, <1>2, <1>3, <3>1, ConstantTypes
    <3>2. CASE i \in 1 .. Len(ps)
      BY <1>2, <3>2 DEF GoodPages
    <3> QED BY <1>1, <1>2, <3>1, <3>2
  <2> QED BY <1>2, <2>1, <2>2 DEF GoodPages
<1>5. LiveIds(qs) = LiveIds(ps)
  <2>1. ASSUME NEW id \in LiveIds(qs)
        PROVE  id \in LiveIds(ps)
    <3>1. PICK j \in 1 .. Len(qs) : \E t \in ActiveSlots(qs[j]) : id = IdOf(j, t)
      BY <1>4, LiveIdIs
    <3>2. j \in 1 .. Len(ps)
      BY <1>1, <1>2, <3>1
    <3> QED BY <1>2, <3>1, <3>2, LiveIdIff
  <2>2. ASSUME NEW id \in LiveIds(ps)
        PROVE  id \in LiveIds(qs)
    <3>1. PICK j \in 1 .. Len(ps) : \E t \in ActiveSlots(ps[j]) : id = IdOf(j, t)
      BY LiveIdIs
    <3>2. j \in 1 .. Len(qs)
      BY <1>1, <1>2
    <3> QED BY <1>2, <1>4, <3>1, <3>2, LiveIdIff
  <2> QED BY <2>1, <2>2
<1>6. ASSUME NEW id \in LiveIds(ps)
      PROVE  RecordAt(qs, id) = RecordAt(ps, id)
  <2>1. PICK j \in 1 .. Len(ps) : \E t \in ActiveSlots(ps[j]) : id = IdOf(j, t)
    BY LiveIdIs
  <2>2. j \in 1 .. Len(qs)
    BY <1>1, <1>2
  <2> QED BY <1>2, <1>4, <2>1, <2>2, RecordAtExact
<1> QED BY <1>2, <1>4, <1>5, <1>6 DEF qs

-----------------------------------------------------------------------------
(* The inductive invariant, and what each action does in a state that      *)
(* satisfies it.                                                           *)

HeapInv ==
  /\ TypeOK
  /\ GoodPages(pages)
  /\ RecordCountExact
  /\ ScanPositions

(* No byte of a record area changes and no page goes away.                 *)
Frozen ==
  \A i \in DOMAIN pages :
    /\ i \in DOMAIN pages'
    /\ \A a \in pages[i].upper .. PageSize - 1 :
          pages'[i].bytes[a] = pages[i].bytes[a]

(* The step binds id to record and does nothing else to the records.       *)
Binds(id, record) ==
  /\ GoodPages(pages')
  /\ id \in RecordIds \ LiveIds(pages)
  /\ LiveIds(pages') = LiveIds(pages) \cup {id}
  /\ RecordAt(pages', id) = record
  /\ \A other \in LiveIds(pages) : RecordAt(pages', other) = RecordAt(pages, other)
  /\ active_records' = active_records + 1
  /\ result' = Returned("Insert", "Ok", id, << >>)
  /\ UNCHANGED <<cursors, scans>>
  /\ Frozen

(* The step reports a failed insert and does nothing else.                 *)
Refuses ==
  /\ \E status \in {"InvalidArgument", "Internal"} :
        result' = Returned("Insert", status, NoId, << >>)
  /\ UNCHANGED <<pages, active_records, cursors, scans>>

(* On a good page Insert succeeds or says there is no room.                *)
LEMMA InsertStatusCases ==
  ASSUME NEW p \in Page, PageLayout(p), PageSize \in 1 .. kMaxU16, NEW record
  PROVE  InsertStatus(p, record) \in {"Ok", "InvalidArgument"}
BY LayoutValid DEF InsertStatus

(* An insert into a page that is there already binds a fresh id to the     *)
(* record.                                                                 *)
LEMMA InsertExistingBinds ==
  ASSUME HeapInv, NEW record \in Records, InsertExisting(record)
  PROVE  \E id : Binds(id, record)
<1>1. GoodPages(pages) /\ record \in Seq(Byte)
  BY HeapAssumption DEF HeapInv
<1>2. DOMAIN pages = 1 .. Len(pages) /\ Len(pages) \in Nat
  BY <1>1 DEF GoodPages
<1> DEFINE i == CHOOSE i \in StopPages(record) : \A j \in StopPages(record) : i <= j
<1>3. i \in StopPages(record)
  <2>1. StopPages(record) \subseteq Nat /\ StopPages(record) # {}
    BY <1>2 DEF StopPages, InsertExisting
  <2> QED BY <2>1, NatMin
<1>4. InsertInto(pages, i, record)
  BY DEF InsertExisting
<1> HIDE DEF i
<1>5. i \in 1 .. Len(pages) /\ InsertStatus(pages[i], record) # "InvalidArgument"
  BY <1>2, <1>3 DEF StopPages
<1>6. InsertStatus(pages[i], record) = "Ok"
  BY <1>1, <1>5, PageOf, InsertStatusCases
<1> DEFINE id == IdOf(i, InsertSlot(pages[i]))
<1>7. /\ pages' = [pages EXCEPT ![i] = InsertedPage(pages[i], record)]
      /\ active_records' = active_records + 1
      /\ result' = Returned("Insert", "Ok", id, << >>)
      /\ UNCHANGED <<cursors, scans>>
  <2>1. pages[i].page_id = RootPageId + i - 1
    BY <1>1, <1>5, PageOf
  <2> QED BY <1>4, <1>6, <2>1 DEF InsertInto, PageInsert, IdOf
<1>8. BindsIn(pages, pages', id, record)
  BY <1>1, <1>5, <1>6, <1>7, InsertVector
<1> HIDE DEF id
<1>9. id \in RecordIds
  BY <1>8, LiveIdsType DEF BindsIn
<1>10. Frozen
  <2>1. DOMAIN pages' = 1 .. Len(pages')
    BY <1>8 DEF GoodPages, BindsIn
  <2> QED BY <1>2, <1>8, <2>1 DEF Frozen, BindsIn
<1> QED BY <1>7, <1>8, <1>9, <1>10 DEF Binds, BindsIn

(* AllocatePage succeeds only with a usable page size and a valid id.      *)
LEMMA AllocateOk ==
  ASSUME GoodPages(pages), AllocatePageStatus = "Ok"
  PROVE  LET q == NewPage.page
         IN  /\ PageSize \in 1 .. kMaxU16
             /\ Len(pages) < kInvalidPageId - RootPageId
             /\ q \in Page /\ PageLayout(q) /\ ActiveSlots(q) = {}
             /\ q.page_id = RootPageId + Len(pages)
<1>1. Len(pages) \in Nat
  BY DEF GoodPages
<1>2. /\ RootPageId # kInvalidPageId /\ PageSize # 0
      /\ ~(Len(pages) > MaxValidPageId - RootPageId)
      /\ NewPage.status = "Ok"
  BY DEF AllocatePageStatus
<1>3. PageSize \in 1 .. kMaxU16
  <2>1. ~(PageSize > kMaxU16)
    BY <1>2 DEF NewPage, PageInitialize
  <2>2. PageSize # 0
    BY <1>2
  <2>3. kMaxU16 \in Nat
    BY DEF kMaxU16
  <2> QED BY <2>1, <2>2, <2>3, PageSizeAssumption
<1>4. Len(pages) < kInvalidPageId - RootPageId
  BY <1>1, <1>2, HeapAssumption DEF kInvalidPageId
<1>5. RootPageId + Len(pages) \in Nat
  BY <1>1, ConstantTypes
<1> QED BY <1>3, <1>4, <1>5, InitializeEffect DEF NewPage

(* An insert that appends a page binds a fresh id, or pops the page again  *)
(* and refuses the record.                                                 *)
LEMMA InsertNewBinds ==
  ASSUME HeapInv, NEW record \in Records, InsertNew(record)
  PROVE  Refuses \/ \E id : Binds(id, record)
<1> DEFINE q  == NewPage.page
           ps == Append(pages, q)
           n  == Len(pages) + 1
           id == IdOf(n, InsertSlot(q))
<1>1. GoodPages(pages) /\ record \in Seq(Byte)
  BY HeapAssumption DEF HeapInv
<1>2. /\ PageSize \in 1 .. kMaxU16
      /\ Len(pages) < kInvalidPageId - RootPageId
      /\ q \in Page /\ PageLayout(q) /\ ActiveSlots(q) = {}
      /\ q.page_id = RootPageId + Len(pages)
  BY <1>1, AllocateOk DEF InsertNew
<1>3. InsertInto(ps, n, record)
  BY DEF InsertNew
<1> HIDE DEF q
<1>4. /\ GoodPages(ps)
      /\ Len(ps) = n /\ ps[n] = q
      /\ \A j \in 1 .. Len(pages) : ps[j] = pages[j]
      /\ LiveIds(ps) = LiveIds(pages)
      /\ \A other \in LiveIds(pages) : RecordAt(ps, other) = RecordAt(pages, other)
  BY <1>1, <1>2, AppendVector
<1>5. Len(pages) \in Nat /\ n \in 1 .. Len(ps) /\ DOMAIN pages = 1 .. Len(pages)
  BY <1>1, <1>4 DEF GoodPages
<1> HIDE DEF ps
<1>6. CASE InsertStatus(q, record) = "Ok"
  <2>1. /\ pages' = [ps EXCEPT ![n] = InsertedPage(ps[n], record)]
        /\ active_records' = active_records + 1
        /\ result' = Returned("Insert", "Ok", id, << >>)
        /\ UNCHANGED <<cursors, scans>>
    <3>1. q.page_id = RootPageId + n - 1
      BY <1>2, <1>5, ConstantTypes
    <3> QED BY <1>3, <1>4, <1>6, <3>1 DEF InsertInto, PageInsert, IdOf
  <2>2. BindsIn(ps, pages', id, record)
    <3> HIDE DEF n
    <3>1. InsertStatus(ps[n], record) = "Ok" /\ id = IdOf(n, InsertSlot(ps[n]))
      BY <1>4, <1>6
    <3> HIDE DEF id
    <3>2. BindsIn(ps, [ps EXCEPT ![n] = InsertedPage(ps[n], record)],
                  IdOf(n, InsertSlot(ps[n])), record)
      BY <1>1, <1>4, <1>5, <3>1, InsertVector
    <3> QED BY <2>1, <3>1, <3>2
  <2> HIDE DEF id
  <2>3. id \in RecordIds
    BY <2>2, LiveIdsType DEF BindsIn
  <2>4. Frozen
    <3>1. DOMAIN pages' = 1 .. Len(pages')
      BY <2>2 DEF GoodPages, BindsIn
    <3>2. \A j \in 1 .. Len(pages) : j \in 1 .. Len(ps)
      BY <1>4, <1>5
    <3> QED BY <1>4, <1>5, <2>2, <3>1, <3>2 DEF Frozen, BindsIn
  <2> QED BY <1>4, <2>1, <2>2, <2>3, <2>4 DEF Binds, BindsIn
<1>7. CASE InsertStatus(q, record) # "Ok"
  <2>1. InsertStatus(q, record) = "InvalidArgument"
    BY <1>2, <1>7, InsertStatusCases
  <2> HIDE DEF n
  <2> QED BY <1>3, <1>4, <2>1 DEF InsertInto, PageInsert, Refuses
<1> QED BY <1>6, <1>7

(* An insert for which no page can be allocated changes nothing.           *)
LEMMA InsertUnallocatedRefuses ==
  ASSUME NEW record, InsertUnallocated(record)
  PROVE  Refuses
<1>1. AllocatePageStatus \in {"Ok", "InvalidArgument", "Internal"}
  BY DEF AllocatePageStatus, NewPage, PageInitialize
<1> QED BY <1>1 DEF InsertUnallocated, Refuses

(* PageHeapTable::Insert binds a fresh id to the record, or changes        *)
(* nothing.                                                                *)
LEMMA InsertEffect ==
  ASSUME HeapInv, NEW record \in Records, Insert(record)
  PROVE  Refuses \/ \E id : Binds(id, record)
BY InsertExistingBinds, InsertNewBinds, InsertUnallocatedRefuses DEF Insert

-----------------------------------------------------------------------------
(* Delete and Read.                                                        *)

(* The step unbinds id, in the store and in what every scan owes.          *)
Unbinds(id) ==
  /\ GoodPages(pages')
  /\ id \in LiveIds(pages)
  /\ LiveIds(pages') = LiveIds(pages) \ {id}
  /\ \A other \in LiveIds(pages') : RecordAt(pages', other) = RecordAt(pages, other)
  /\ active_records' = active_records - 1
  /\ scans' = [c \in Cursors |-> [scans[c] EXCEPT !.pending = @ \ {id}]]
  /\ result' = Returned("Delete", "Ok", id, << >>)
  /\ UNCHANGED cursors
  /\ Frozen

(* The step reports that id is not bound and does nothing else.            *)
Misses(id) ==
  /\ id \notin LiveIds(pages)
  /\ result' = Returned("Delete", "NotFound", NoId, << >>)
  /\ UNCHANGED <<pages, active_records, cursors, scans>>

(* An id on no page is not live; on a page, its slot decides.              *)
LEMMA LiveById ==
  ASSUME NEW ps, GoodPages(ps), NEW id \in RecordIds
  PROVE  /\ PagesWithId(ps, id[1]) = {} => id \notin LiveIds(ps)
         /\ PagesWithId(ps, id[1]) # {} =>
              LET i == FindPage(ps, id[1])
              IN  /\ i \in 1 .. Len(ps)
                  /\ id = IdOf(i, id[2])
                  /\ id \in LiveIds(ps) <=> id[2] \in ActiveSlots(ps[i])
                  /\ AccessStatus(ps[i], id[2]) =
                       IF id \in LiveIds(ps) THEN "Ok" ELSE "NotFound"
<1>0. id = <<id[1], id[2]>> /\ id[2] \in Nat
  BY ConstantTypes DEF RecordIds, kSlotEntrySize
<1>1. ASSUME PagesWithId(ps, id[1]) = {}, id \in LiveIds(ps)
      PROVE  FALSE
  <2>1. PICK i \in 1 .. Len(ps) : \E s \in ActiveSlots(ps[i]) : id = IdOf(i, s)
    BY <1>1, LiveIdIs
  <2>2. id[1] = RootPageId + i - 1
    BY <2>1 DEF IdOf
  <2>3. PagesWithId(ps, RootPageId + i - 1) = {i}
    BY FindPageExact
  <2> QED BY <1>1, <2>2, <2>3
<1>2. ASSUME PagesWithId(ps, id[1]) # {}
      PROVE  LET i == FindPage(ps, id[1])
             IN  /\ i \in 1 .. Len(ps)
                 /\ id = IdOf(i, id[2])
                 /\ id \in LiveIds(ps) <=> id[2] \in ActiveSlots(ps[i])
                 /\ AccessStatus(ps[i], id[2]) =
                      IF id \in LiveIds(ps) THEN "Ok" ELSE "NotFound"
  <2> DEFINE i == FindPage(ps, id[1])
  <2>1. i \in 1 .. Len(ps) /\ id[1] = RootPageId + i - 1
    BY <1>2, FindPageInDomain
  <2> HIDE DEF i
  <2>2. id = IdOf(i, id[2])
    BY <1>0, <2>1 DEF IdOf
  <2>3. id \in LiveIds(ps) <=> id[2] \in ActiveSlots(ps[i])
    BY <2>1, <2>2, LiveIdIff
  <2>4. AccessStatus(ps[i], id[2]) = IF id[2] \in ActiveSlots(ps[i]) THEN "Ok" ELSE "NotFound"
    BY <1>0, <2>1, PageOf, AccessExact
  <2> QED BY <2>1, <2>2, <2>3, <2>4 DEF i
<1> QED BY <1>1, <1>2

(* PageHeapTable::Delete removes exactly the record it is given, or        *)
(* reports NotFound and changes nothing.                                   *)
LEMMA DeleteStep ==
  ASSUME HeapInv, NEW id \in RecordIds, Delete(id)
  PROVE  Unbinds(id) \/ Misses(id)
<1>1. GoodPages(pages)
  BY DEF HeapInv
<1>2. CASE DeletePageMissing(id)
  BY <1>1, <1>2, LiveById DEF DeletePageMissing, Misses
<1>3. CASE DeleteInPage(id)
  <2> DEFINE i == FindPage(pages, id[1])
             r == PageDelete(pages[i], id[2])
  <2>1. /\ i \in 1 .. Len(pages)
        /\ id = IdOf(i, id[2])
        /\ id \in LiveIds(pages) <=> id[2] \in ActiveSlots(pages[i])
        /\ AccessStatus(pages[i], id[2]) =
             IF id \in LiveIds(pages) THEN "Ok" ELSE "NotFound"
    BY <1>1, <1>3, LiveById DEF DeleteInPage
  <2>2. r.status = IF id \in LiveIds(pages) THEN "Ok" ELSE "NotFound"
    BY <2>1 DEF PageDelete
  <2>3. /\ pages' = [pages EXCEPT ![i] = r.page]
        /\ active_records' = IF r.status = "Ok" THEN active_records - 1
                                                ELSE active_records
        /\ scans' = IF r.status = "Ok"
                    THEN [c \in Cursors |-> [scans[c] EXCEPT !.pending = @ \ {id}]]
                    ELSE scans
        /\ result' = Returned("Delete", r.status,
                              IF r.status = "Ok" THEN id ELSE NoId, << >>)
        /\ UNCHANGED cursors
    BY <1>3 DEF DeleteInPage
  <2>4. CASE id \in LiveIds(pages)
    <3>1. UnbindsIn(pages, [pages EXCEPT ![i] = r.page], IdOf(i, id[2]))
      <4> HIDE DEF i
      <4> QED BY <1>1, <2>1, <2>4, DeleteVector
    <3> HIDE DEF r, i
    <3>2. UnbindsIn(pages, pages', id)
      BY <2>1, <2>3, <3>1
    <3>3. DOMAIN pages = 1 .. Len(pages) /\ DOMAIN pages' = 1 .. Len(pages')
      BY <1>1, <3>2 DEF GoodPages, UnbindsIn
    <3>4. Frozen
      BY <3>2, <3>3 DEF Frozen, UnbindsIn
    <3> QED BY <2>2, <2>3, <2>4, <3>2, <3>4 DEF Unbinds, UnbindsIn
  <2>5. CASE id \notin LiveIds(pages)
    <3>1. r.page = pages[i]
      BY <2>1, <2>5 DEF PageDelete
    <3>2. pages \in Seq(Page)
      BY <1>1 DEF GoodPages
    <3> HIDE DEF r, i
    <3>3. pages' = pages
      BY <2>1, <2>3, <3>1, <3>2
    <3> QED BY <2>2, <2>3, <2>5, <3>3 DEF Misses
  <2> QED BY <2>4, <2>5
<1> QED BY <1>2, <1>3 DEF Delete

(* A live record is a sequence of bytes.                                   *)
LEMMA RecordType ==
  ASSUME NEW ps, GoodPages(ps), NEW id \in LiveIds(ps)
  PROVE  RecordAt(ps, id) \in Seq(Byte)
<1>1. PICK i \in 1 .. Len(ps) : \E s \in ActiveSlots(ps[i]) : id = IdOf(i, s)
  BY LiveIdIs
<1>2. PICK s \in ActiveSlots(ps[i]) : id = IdOf(i, s)
  BY <1>1
<1> DEFINE p == ps[i]
           e == p.slots[s]
<1>3. p \in Page /\ PageLayout(p) /\ s \in SlotIds
  BY PageOf
<1>4. RecordAt(ps, id) = SpanOf(p, e)
  BY <1>2, RecordAtExact
<1> HIDE DEF p
<1>5. /\ p.bytes \in [Addresses -> Byte] /\ e \in SlotEntry
      /\ p.upper \in Nat /\ p.upper <= e.offset /\ e.offset + e.size <= PageSize
  BY <1>3 DEF Page, PageLayout, ActiveSlots, p
<1> HIDE DEF e
<1>6. e.offset \in Nat /\ e.size \in Nat
  BY <1>5 DEF SlotEntry
<1>7. ASSUME NEW k \in 1 .. e.size
      PROVE  p.bytes[e.offset + k - 1] \in Byte
  <2>1. e.offset + k - 1 \in Addresses
    BY <1>5, <1>6, PageSizeAssumption DEF Addresses
  <2> QED BY <1>5, <2>1
<1>8. SpanOf(p, e) \in Seq(Byte)
  BY <1>6, <1>7 DEF SpanOf
<1> QED BY <1>4, <1>8

(* Read returns exactly what is bound.                                     *)
LEMMA ReadStep ==
  ASSUME HeapInv, NEW id \in RecordIds, Read(id)
  PROVE  /\ result' = IF id \in LiveIds(pages)
                      THEN Returned("Read", "Ok", id, RecordAt(pages, id))
                      ELSE Returned("Read", "NotFound", NoId, << >>)
         /\ UNCHANGED <<pages, active_records, cursors, scans>>
<1>1. GoodPages(pages)
  BY DEF HeapInv
<1>2. CASE PagesWithId(pages, id[1]) = {}
  BY <1>1, <1>2, LiveById DEF Read
<1>3. CASE PagesWithId(pages, id[1]) # {}
  <2> DEFINE i == FindPage(pages, id[1])
             r == PageRead(pages[i], id[2])
  <2>1. /\ i \in 1 .. Len(pages)
        /\ id = IdOf(i, id[2])
        /\ AccessStatus(pages[i], id[2]) =
             IF id \in LiveIds(pages) THEN "Ok" ELSE "NotFound"
    BY <1>1, <1>3, LiveById
  <2>2. RecordAt(pages, id) = SpanOf(pages[i], pages[i].slots[id[2]])
    BY DEF RecordAt
  <2>3. /\ r.status = IF id \in LiveIds(pages) THEN "Ok" ELSE "NotFound"
        /\ r.bytes = IF id \in LiveIds(pages) THEN RecordAt(pages, id) ELSE << >>
    BY <2>1, <2>2 DEF PageRead
  <2>4. /\ result' = Returned("Read", r.status,
                              IF r.status = "Ok" THEN id ELSE NoId, r.bytes)
        /\ UNCHANGED <<pages, active_records, cursors, scans>>
    BY <1>3 DEF Read
  <2> HIDE DEF r, i
  <2> QED BY <2>3, <2>4
<1> QED BY <1>2, <1>3

-----------------------------------------------------------------------------
(* Cursor::Next.                                                           *)

(* Every non-empty set of positions has a first one.                       *)
LEMMA FirstPosition ==
  ASSUME NEW T, T \subseteq Nat \X Nat, T # {}
  PROVE  \E a \in T : \A b \in T : AtOrBefore(a, b)
<1> DEFINE K == {a[1] : a \in T}
<1>1. K \subseteq Nat /\ K # {}
  OBVIOUS
<1>2. PICK k \in K : \A x \in K : k <= x
  <2> HIDE DEF K
  <2> QED BY <1>1, NatMin
<1> DEFINE S == {a[2] : a \in {b \in T : b[1] = k}}
<1>3. S \subseteq Nat /\ S # {}
  OBVIOUS
<1>4. PICK s \in S : \A x \in S : s <= x
  <2> HIDE DEF S, K
  <2> QED BY <1>3, NatMin
<1>5. PICK a \in T : a[1] = k /\ a[2] = s
  OBVIOUS
<1>6. ASSUME NEW b \in T
      PROVE  AtOrBefore(a, b)
  <2>1. k <= b[1]
    BY <1>2
  <2>2. b[1] = k => s <= b[2]
    BY <1>4
  <2>3. b[1] \in Nat /\ k \in Nat
    BY <1>1
  <2> QED BY <1>5, <2>1, <2>2, <2>3 DEF AtOrBefore
<1> QED BY <1>6

(* Next stops at the active slots that lie ahead of the cursor.            *)
LEMMA StopPositionIff ==
  ASSUME HeapInv, NEW c \in Cursors, NEW k \in 0 .. Len(pages) - 1, NEW s
  PROVE  <<k, s>> \in StopPositions(c) <=>
           s \in ActiveSlots(pages[k + 1]) /\ Ahead(c, IdOf(k + 1, s))
<1> DEFINE p == pages[k + 1]
<1>1. GoodPages(pages) /\ Len(pages) \in Nat
  BY DEF HeapInv, GoodPages
<1>2. k + 1 \in 1 .. Len(pages) /\ k \in Nat
  BY <1>1
<1>3. /\ p \in Page /\ PageLayout(p) /\ PageSize \in 1 .. kMaxU16
      /\ ActiveSlots(p) \subseteq SlotIds
  BY <1>1, <1>2, PageOf
<1> HIDE DEF p
<1>4. SlotIds \subseteq Nat
  BY DEF SlotIds
<1>5. ASSUME NEW t \in SlotIds
      PROVE  t \in ActiveSlots(p) <=>
               t < SlotCount(p) /\ AccessStatus(p, t) # "NotFound"
  <2>1. AccessStatus(p, t) = IF t \in ActiveSlots(p) THEN "Ok" ELSE "NotFound"
    BY <1>3, <1>4, AccessExact
  <2>2. t \in ActiveSlots(p) => t < SlotCount(p)
    <3>1. slot_count(p) \in Nat /\ SlotCount(p) = slot_count(p)
      BY <1>3, LayoutValid
    <3> QED BY <1>4, <3>1 DEF ActiveSlots
  <2> QED BY <2>1, <2>2
<1>6. cursors[c].page_index \in Nat /\ cursors[c].slot_id \in Nat
  BY DEF HeapInv, TypeOK
<1>7. Ahead(c, IdOf(k + 1, s)) <=>
        \/ k > cursors[c].page_index
        \/ k = cursors[c].page_index /\ s >= cursors[c].slot_id
  <2> DEFINE x == cursors[c].page_index
             y == cursors[c].slot_id
  <2>1. Ahead(c, IdOf(k + 1, s)) <=>
          \/ RootPageId + x < RootPageId + (k + 1) - 1
          \/ RootPageId + x = RootPageId + (k + 1) - 1 /\ y <= s
    BY DEF Ahead, AtOrBefore, IdOf
  <2>2. x \in Nat /\ k \in Nat /\ RootPageId \in Nat
    BY <1>2, <1>6, ConstantTypes
  <2> HIDE DEF x, y
  <2>3. /\ RootPageId + x < RootPageId + (k + 1) - 1 <=> k > x
        /\ RootPageId + x = RootPageId + (k + 1) - 1 <=> k = x
    BY <2>2
  <2>4. Ahead(c, IdOf(k + 1, s)) <=> k > x \/ (k = x /\ s >= y)
    BY <2>1, <2>3
  <2> QED BY <2>4 DEF x, y
<1>8. <<k, s>> \in StopPositions(c) <=>
        /\ s \in SlotIds
        /\ Ahead(c, IdOf(k + 1, s))
        /\ s < SlotCount(p)
        /\ AccessStatus(p, s) # "NotFound"
  BY <1>7 DEF StopPositions, p
<1>9. s \in SlotIds => (s \in ActiveSlots(p) <=>
                          s < SlotCount(p) /\ AccessStatus(p, s) # "NotFound")
  BY <1>5
<1> QED BY <1>3, <1>8, <1>9 DEF p

(* The position of a live id.                                              *)
LEMMA LiveAhead ==
  ASSUME HeapInv, NEW c \in Cursors, NEW id \in LiveIds(pages), Ahead(c, id)
  PROVE  \E k \in 0 .. Len(pages) - 1 : \E s \in SlotIds :
            id = IdOf(k + 1, s) /\ <<k, s>> \in StopPositions(c)
<1>1. GoodPages(pages) /\ Len(pages) \in Nat
  BY DEF HeapInv, GoodPages
<1>2. PICK i \in 1 .. Len(pages) : \E s \in ActiveSlots(pages[i]) : id = IdOf(i, s)
  BY <1>1, LiveIdIs
<1>3. PICK s \in ActiveSlots(pages[i]) : id = IdOf(i, s)
  BY <1>2
<1>4. PICK k \in 0 .. Len(pages) - 1 : i = k + 1
  <2>1. i - 1 \in 0 .. Len(pages) - 1 /\ i = (i - 1) + 1
    BY <1>1
  <2> QED BY <2>1
<1>5. <<k, s>> \in StopPositions(c)
  BY <1>3, <1>4, StopPositionIff
<1>6. s \in SlotIds
  BY <1>1, PageOf
<1> QED BY <1>3, <1>4, <1>5, <1>6

(* The step returns id, which the scan had not returned, and the cursor    *)
(* moves just past it.                                                     *)
Yields(c, id) ==
  /\ id \in LiveIds(pages) \ scans[c].seen
  /\ result' = Returned("Next", "Ok", id, RecordAt(pages, id))
  /\ scans' = [scans EXCEPT ![c] = [open    |-> TRUE,
                                    pending |-> scans[c].pending \ {id},
                                    seen    |-> scans[c].seen \cup {id}]]
  /\ cursors' \in [Cursors -> [page_index : Nat, slot_id : Nat]]
  /\ \A d \in Cursors : d # c => cursors'[d] = cursors[d]
  /\ \A other \in scans[c].pending \ {id} : Ahead(c, other)'
  /\ \A other \in scans[c].seen \cup {id} : ~Ahead(c, other)'
  /\ UNCHANGED <<pages, active_records>>

(* Cursor::Next returns an active record it has not returned before, and   *)
(* skips nothing that is pending.                                          *)
LEMMA NextFoundStep ==
  ASSUME HeapInv, NEW c \in Cursors, NextFound(c)
  PROVE  \E id : Yields(c, id)
<1> DEFINE pos == CHOOSE a \in StopPositions(c) :
                    \A b \in StopPositions(c) : AtOrBefore(a, b)
<1>1. GoodPages(pages) /\ Len(pages) \in Nat
  BY DEF HeapInv, GoodPages
<1>2. pos \in StopPositions(c) /\ \A b \in StopPositions(c) : AtOrBefore(pos, b)
  <2>1. StopPositions(c) \subseteq Nat \X Nat
    BY <1>1 DEF StopPositions, SlotIds
  <2>2. StopPositions(c) # {}
    BY DEF NextFound
  <2> QED BY <2>1, <2>2, FirstPosition
<1> HIDE DEF pos
<1>3. PICK k \in 0 .. Len(pages) - 1 : \E s \in SlotIds : pos = <<k, s>>
  BY <1>2 DEF StopPositions
<1>4. PICK s \in SlotIds : pos = <<k, s>>
  BY <1>3
<1>5. pos[1] = k /\ pos[2] = s
  BY <1>4
<1> DEFINE p  == pages[k + 1]
           r  == PageRead(p, s)
           id == IdOf(k + 1, s)
<1>6. s \in ActiveSlots(p) /\ Ahead(c, id)
  BY <1>2, <1>4, StopPositionIff
<1>7. k + 1 \in 1 .. Len(pages) /\ k \in Nat /\ s \in Nat
  BY <1>1 DEF SlotIds
<1>8. p.page_id = RootPageId + (k + 1) - 1
  BY <1>1, <1>7, PageOf
<1>9. id \in LiveIds(pages) /\ RecordAt(pages, id) = SpanOf(p, p.slots[s])
  BY <1>1, <1>6, <1>7, LiveIdIff, RecordAtExact
<1>10. r.status = "Ok" /\ r.bytes = RecordAt(pages, id)
  <2>1. AccessStatus(p, s) = "Ok"
    BY <1>1, <1>6, <1>7, PageOf, AccessExact
  <2> QED BY <1>9, <2>1 DEF PageRead
<1>11. /\ cursors' = [cursors EXCEPT ![c] = [page_index |-> k, slot_id |-> s + 1]]
       /\ scans' = [scans EXCEPT ![c] = [open    |-> TRUE,
                                         pending |-> scans[c].pending \ {id},
                                         seen    |-> scans[c].seen \cup {id}]]
       /\ result' = Returned("Next", "Ok", id, RecordAt(pages, id))
       /\ UNCHANGED <<pages, active_records>>
  BY <1>5, <1>8, <1>10 DEF NextFound, pos, IdOf
<1> HIDE DEF p, r
<1>12. /\ cursors \in [Cursors -> [page_index : Nat, slot_id : Nat]]
       /\ scans \in [Cursors -> [open : BOOLEAN, pending : SUBSET RecordIds,
                                 seen : SUBSET RecordIds]]
  BY DEF HeapInv, TypeOK
<1>13. /\ cursors' \in [Cursors -> [page_index : Nat, slot_id : Nat]]
       /\ cursors'[c] = [page_index |-> k, slot_id |-> s + 1]
       /\ \A d \in Cursors : d # c => cursors'[d] = cursors[d]
  BY <1>7, <1>11, <1>12
<1>14. \A other : Ahead(c, other)' <=>
         AtOrBefore(<<RootPageId + k, s + 1>>, other)
  BY <1>13 DEF Ahead
<1>15. ASSUME NEW other \in scans[c].pending \ {id}
       PROVE  Ahead(c, other)'
  <2>1. other \in LiveIds(pages) /\ Ahead(c, other)
    BY DEF HeapInv, ScanPositions
  <2>2. PICK j \in 0 .. Len(pages) - 1 : \E t \in SlotIds :
            other = IdOf(j + 1, t) /\ <<j, t>> \in StopPositions(c)
    BY <2>1, LiveAhead
  <2>3. PICK t \in SlotIds : other = IdOf(j + 1, t) /\ <<j, t>> \in StopPositions(c)
    BY <2>2
  <2>4. AtOrBefore(<<k, s>>, <<j, t>>)
    BY <1>2, <1>4, <2>3
  <2>5. j # k \/ t # s
    BY <2>3
  <2>6. j \in Nat /\ t \in Nat
    BY <1>1 DEF SlotIds
  <2>7. k < j \/ (k = j /\ s + 1 <= t)
    BY <1>7, <2>4, <2>5, <2>6 DEF AtOrBefore
  <2>8. AtOrBefore(<<RootPageId + k, s + 1>>, <<RootPageId + (j + 1) - 1, t>>)
    BY <1>7, <2>6, <2>7, ConstantTypes DEF AtOrBefore
  <2> QED BY <1>14, <2>3, <2>8 DEF IdOf
<1> DEFINE ci == RootPageId + cursors[c].page_index
           cs == cursors[c].slot_id
<1>16. ci \in Nat /\ cs \in Nat
  BY <1>12, ConstantTypes
<1>17. ci < RootPageId + k \/ (ci = RootPageId + k /\ cs <= s)
  BY <1>6, <1>7, <1>16, ConstantTypes DEF Ahead, AtOrBefore, IdOf
<1>18. ASSUME NEW other \in scans[c].seen
       PROVE  ~Ahead(c, other) /\ ~Ahead(c, other)'
  <2>1. ~Ahead(c, other)
    BY DEF HeapInv, ScanPositions
  <2>2. other \in RecordIds
    BY <1>12
  <2>3. other[1] \in Nat /\ other[2] \in Nat
    BY <2>2, ConstantTypes DEF RecordIds, kSlotEntrySize
  <2>4. ~AtOrBefore(<<ci, cs>>, other)
    BY <2>1 DEF Ahead
  <2> HIDE DEF ci, cs
  <2>5. ~AtOrBefore(<<RootPageId + k, s + 1>>, other)
    BY <1>7, <1>16, <1>17, <2>3, <2>4, ConstantTypes DEF AtOrBefore
  <2> QED BY <1>14, <2>1, <2>5
<1>19. ~Ahead(c, id)'
  <2>1. ~AtOrBefore(<<RootPageId + k, s + 1>>, <<RootPageId + (k + 1) - 1, s>>)
    BY <1>7, ConstantTypes DEF AtOrBefore
  <2> QED BY <1>14, <2>1 DEF IdOf
<1>20. id \notin scans[c].seen
  BY <1>6, <1>18
<1>21. \A other \in scans[c].seen \cup {id} : ~Ahead(c, other)'
  BY <1>18, <1>19
<1>22. \A other \in scans[c].pending \ {id} : Ahead(c, other)'
  BY <1>15
<1>23. Yields(c, id)
  BY <1>9, <1>11, <1>13, <1>20, <1>21, <1>22 DEF Yields
<1> QED BY <1>23

(* Next reports the end only when nothing is owed.                         *)
LEMMA NextEndStep ==
  ASSUME HeapInv, NEW c \in Cursors, NextEnd(c)
  PROVE  /\ scans[c].pending = {}
         /\ result' = Returned("Next", "NotFound", NoId, << >>)
         /\ cursors' \in [Cursors -> [page_index : Nat, slot_id : Nat]]
         /\ \A d \in Cursors : d # c => cursors'[d] = cursors[d]
         /\ \A other \in scans[c].seen : ~Ahead(c, other)'
         /\ UNCHANGED <<pages, active_records, scans>>
<1>1. Len(pages) \in Nat
  BY DEF HeapInv, GoodPages
<1>2. /\ StopPositions(c) = {}
      /\ cursors' = IF cursors[c].page_index < Len(pages)
                    THEN [cursors EXCEPT ![c] = [page_index |-> Len(pages),
                                                 slot_id    |-> 0]]
                    ELSE cursors
      /\ result' = Returned("Next", "NotFound", NoId, << >>)
      /\ UNCHANGED <<pages, active_records, scans>>
  BY DEF NextEnd
<1>3. scans[c].pending = {}
  <2> SUFFICES ASSUME NEW id \in scans[c].pending
               PROVE  FALSE
    OBVIOUS
  <2>1. id \in LiveIds(pages) /\ Ahead(c, id)
    BY DEF HeapInv, ScanPositions
  <2> QED BY <1>2, <2>1, LiveAhead
<1>4. /\ cursors \in [Cursors -> [page_index : Nat, slot_id : Nat]]
      /\ scans \in [Cursors -> [open : BOOLEAN, pending : SUBSET RecordIds,
                                seen : SUBSET RecordIds]]
  BY DEF HeapInv, TypeOK
<1>5. /\ cursors' \in [Cursors -> [page_index : Nat, slot_id : Nat]]
      /\ \A d \in Cursors : d # c => cursors'[d] = cursors[d]
  BY <1>1, <1>2, <1>4
<1>6. ASSUME NEW other \in scans[c].seen
      PROVE  ~Ahead(c, other)'
  <2>1. ~Ahead(c, other)
    BY DEF HeapInv, ScanPositions
  <2>2. other \in RecordIds
    BY <1>4
  <2>3. other[1] \in Nat /\ other[2] \in Nat
    BY <2>2, ConstantTypes DEF RecordIds, kSlotEntrySize
  <2>4. CASE cursors[c].page_index < Len(pages)
    <3> DEFINE ci == cursors[c].page_index
               cs == cursors[c].slot_id
    <3>1. cursors'[c].page_index = Len(pages) /\ cursors'[c].slot_id = 0
      BY <1>2, <1>4, <2>4
    <3>2. ci \in Nat /\ cs \in Nat /\ ci < Len(pages)
      BY <1>4, <2>4
    <3>3. ~AtOrBefore(<<RootPageId + ci, cs>>, other)
      BY <2>1 DEF Ahead
    <3> HIDE DEF ci, cs
    <3>4. ~AtOrBefore(<<RootPageId + Len(pages), 0>>, other)
      BY <1>1, <2>3, <3>2, <3>3, ConstantTypes DEF AtOrBefore
    <3> QED BY <3>1, <3>4 DEF Ahead
  <2>5. CASE ~(cursors[c].page_index < Len(pages))
    <3>1. cursors' = cursors
      BY <1>2, <2>5
    <3> QED BY <2>1, <3>1 DEF Ahead
  <2> QED BY <2>4, <2>5
<1> QED BY <1>2, <1>3, <1>5, <1>6

-----------------------------------------------------------------------------
(* The invariant is inductive.                                             *)

(* A heap without pages holds no record.                                   *)
LEMMA EmptyVector == LiveIds(<< >>) = {} /\ GoodPages(<< >>)
<1>1. LiveIds(<< >>) = {}
  BY DEF LiveIds
<1>2. GoodPages(<< >>)
  BY ConstantTypes DEF GoodPages
<1> QED BY <1>1, <1>2

(* A new PageHeapTable satisfies the invariant.                            *)
LEMMA InitInv == Init => HeapInv
<1> SUFFICES ASSUME Init PROVE HeapInv
  OBVIOUS
<1>1. GoodPages(pages) /\ LiveIds(pages) = {}
  BY EmptyVector DEF Init
<1>2. TypeOK
  BY <1>1 DEF Init, TypeOK, GoodPages, NoScan, Returned, Statuses
<1>3. RecordCountExact
  BY <1>1, FS_EmptySet DEF Init, RecordCountExact
<1>4. ScanPositions
  BY DEF Init, ScanPositions, NoScan
<1> QED BY <1>1, <1>2, <1>3, <1>4 DEF HeapInv

(* A step that leaves the pages, the counter, the cursors and the scans    *)
(* and returns something well-typed.                                       *)
LEMMA ReportInv ==
  ASSUME HeapInv, UNCHANGED <<pages, active_records, cursors, scans>>,
         NEW op \in {"None", "Insert", "Read", "Delete", "Scan", "Next"},
         NEW status \in Statuses, NEW id \in RecordIds \cup {NoId},
         NEW bytes \in Seq(Byte), result' = Returned(op, status, id, bytes)
  PROVE  HeapInv'
<1>1. TypeOK'
  BY DEF HeapInv, TypeOK, Returned
<1>2. (GoodPages(pages) /\ RecordCountExact /\ ScanPositions)'
  BY DEF HeapInv, RecordCountExact, ScanPositions, Ahead
<1> QED BY <1>1, <1>2 DEF HeapInv

(* A successful insert keeps the invariant: what scans owe and have seen   *)
(* stays on its side of the cursors.                                       *)
LEMMA BindsInv ==
  ASSUME HeapInv, NEW record, NEW id, Binds(id, record)
  PROVE  HeapInv'
<1>1. GoodPages(pages') /\ id \in RecordIds \ LiveIds(pages)
  BY DEF Binds
<1>2. /\ active_records' = active_records + 1
      /\ LiveIds(pages') = LiveIds(pages) \cup {id}
      /\ cursors' = cursors /\ scans' = scans
      /\ result' = Returned("Insert", "Ok", id, << >>)
  BY DEF Binds
<1>3. TypeOK'
  BY <1>1, <1>2 DEF HeapInv, TypeOK, GoodPages, Returned, Statuses
<1>4. RecordCountExact'
  <2>1. IsFiniteSet(LiveIds(pages))
    BY LiveIdsType DEF HeapInv
  <2>2. Cardinality(LiveIds(pages) \cup {id}) = Cardinality(LiveIds(pages)) + 1
    BY <1>1, <2>1, FS_AddElement
  <2> QED BY <1>2, <2>2 DEF HeapInv, RecordCountExact
<1>5. ScanPositions'
  BY <1>2 DEF HeapInv, ScanPositions, Ahead
<1> QED BY <1>1, <1>3, <1>4, <1>5 DEF HeapInv

(* A successful delete keeps the invariant: the record leaves the counter  *)
(* and what every scan owes together.                                      *)
LEMMA UnbindsInv ==
  ASSUME HeapInv, NEW id \in RecordIds, Unbinds(id)
  PROVE  HeapInv'
<1>1. GoodPages(pages') /\ id \in LiveIds(pages)
  BY DEF Unbinds
<1>2. /\ active_records' = active_records - 1
      /\ LiveIds(pages') = LiveIds(pages) \ {id}
      /\ cursors' = cursors
      /\ scans' = [c \in Cursors |-> [scans[c] EXCEPT !.pending = @ \ {id}]]
      /\ result' = Returned("Delete", "Ok", id, << >>)
  BY DEF Unbinds
<1>3. scans \in [Cursors -> [open : BOOLEAN, pending : SUBSET RecordIds,
                             seen : SUBSET RecordIds]]
  BY DEF HeapInv, TypeOK
<1>4. ASSUME NEW c \in Cursors
      PROVE  /\ scans'[c].pending = scans[c].pending \ {id}
             /\ scans'[c].seen = scans[c].seen
             /\ scans'[c] \in [open : BOOLEAN, pending : SUBSET RecordIds,
                               seen : SUBSET RecordIds]
  BY <1>2, <1>3
<1>5. RecordCountExact' /\ active_records' \in Nat
  <2>1. IsFiniteSet(LiveIds(pages))
    BY LiveIdsType DEF HeapInv
  <2>2. Cardinality(LiveIds(pages) \ {id}) = Cardinality(LiveIds(pages)) - 1
    BY <1>1, <2>1, FS_RemoveElement
  <2>3. Cardinality(LiveIds(pages) \ {id}) \in Nat
    BY <2>1, FS_RemoveElement, FS_CardinalityType
  <2> QED BY <1>2, <2>2, <2>3 DEF HeapInv, RecordCountExact
<1>6. scans' \in [Cursors -> [open : BOOLEAN, pending : SUBSET RecordIds,
                              seen : SUBSET RecordIds]]
  BY <1>2, <1>4
<1>7. TypeOK'
  <2>1. pages' \in Seq(Page)
    BY <1>1 DEF GoodPages
  <2>2. result' \in [op : {"None", "Insert", "Read", "Delete", "Scan", "Next"},
                     status : Statuses, id : RecordIds \cup {NoId},
                     bytes : Seq(Byte)]
    BY <1>2 DEF Returned, Statuses
  <2>3. cursors' \in [Cursors -> [page_index : Nat, slot_id : Nat]]
    BY <1>2 DEF HeapInv, TypeOK
  <2> QED BY <1>5, <1>6, <2>1, <2>2, <2>3 DEF TypeOK
<1>8. ScanPositions'
  BY <1>2, <1>4 DEF HeapInv, ScanPositions, Ahead
<1> QED BY <1>1, <1>5, <1>7, <1>8 DEF HeapInv

(* A new scan, which owes every active record, keeps the invariant.        *)
LEMMA ScanInv ==
  ASSUME HeapInv, NEW c \in Cursors, Scan(c)
  PROVE  HeapInv'
<1> DEFINE scan == [open |-> TRUE, pending |-> LiveIds(pages), seen |-> {}]
           ScanType == [open : BOOLEAN, pending : SUBSET RecordIds,
                        seen : SUBSET RecordIds]
<1>1. /\ cursors' = [cursors EXCEPT ![c] = [page_index |-> 0, slot_id |-> 0]]
      /\ scans' = [scans EXCEPT ![c] = scan]
      /\ result' = Returned("Scan", "Ok", NoId, << >>)
      /\ pages' = pages /\ active_records' = active_records
  BY DEF Scan
<1>2. LiveIds(pages) \subseteq RecordIds
  BY LiveIdsType DEF HeapInv
<1>3. scan \in ScanType
  BY <1>2
<1>4. /\ cursors \in [Cursors -> [page_index : Nat, slot_id : Nat]]
      /\ scans \in [Cursors -> ScanType]
  BY DEF HeapInv, TypeOK
<1> HIDE DEF ScanType
<1>5. /\ cursors' \in [Cursors -> [page_index : Nat, slot_id : Nat]]
      /\ scans' \in [Cursors -> ScanType]
  BY <1>1, <1>3, <1>4
<1>6. TypeOK'
  BY <1>1, <1>5 DEF HeapInv, TypeOK, Returned, Statuses, ScanType
<1>7. ASSUME NEW d \in Cursors
      PROVE  (/\ scans[d].pending \subseteq LiveIds(pages)
              /\ \A id \in scans[d].pending : Ahead(d, id)
              /\ \A id \in scans[d].seen : ~Ahead(d, id))'
  <2>1. CASE d = c
    <3>1. scans'[c].pending = LiveIds(pages) /\ scans'[c].seen = {}
      BY <1>1, <1>4
    <3>2. cursors'[c].page_index = 0 /\ cursors'[c].slot_id = 0
      BY <1>1, <1>4
    <3>3. ASSUME NEW id \in RecordIds
          PROVE  AtOrBefore(<<RootPageId + 0, 0>>, id)
      BY ConstantTypes DEF RecordIds, kSlotEntrySize, AtOrBefore
    <3> QED BY <1>1, <1>2, <2>1, <3>1, <3>2, <3>3 DEF Ahead
  <2>2. CASE d # c
    <3>1. scans'[d] = scans[d] /\ cursors'[d] = cursors[d]
      BY <1>1, <1>4, <2>2
    <3> QED BY <1>1, <3>1 DEF HeapInv, ScanPositions, Ahead
  <2> QED BY <2>1, <2>2
<1>8. ScanPositions'
  BY <1>7 DEF ScanPositions
<1> QED BY <1>1, <1>6, <1>8 DEF HeapInv, RecordCountExact

(* A cursor step that returns a record keeps the invariant.                *)
LEMMA YieldsInv ==
  ASSUME HeapInv, NEW c \in Cursors, NEW id, Yields(c, id)
  PROVE  HeapInv'
<1> DEFINE ScanType == [open : BOOLEAN, pending : SUBSET RecordIds,
                        seen : SUBSET RecordIds]
           scan == [open    |-> TRUE,
                    pending |-> scans[c].pending \ {id},
                    seen    |-> scans[c].seen \cup {id}]
<1>1. /\ scans' = [scans EXCEPT ![c] = scan]
      /\ cursors' \in [Cursors -> [page_index : Nat, slot_id : Nat]]
      /\ \A d \in Cursors : d # c => cursors'[d] = cursors[d]
      /\ result' = Returned("Next", "Ok", id, RecordAt(pages, id))
      /\ pages' = pages /\ active_records' = active_records
  BY DEF Yields
<1>2. /\ \A other \in scans[c].pending \ {id} : Ahead(c, other)'
      /\ \A other \in scans[c].seen \cup {id} : ~Ahead(c, other)'
      /\ id \in LiveIds(pages)
  BY DEF Yields
<1>3. id \in RecordIds /\ RecordAt(pages, id) \in Seq(Byte)
  BY <1>2, LiveIdsType, RecordType DEF HeapInv
<1>4. scans \in [Cursors -> ScanType]
  BY DEF HeapInv, TypeOK
<1>5. scan \in ScanType
  BY <1>3, <1>4
<1> HIDE DEF ScanType
<1>6. scans' \in [Cursors -> ScanType] /\ scans'[c] = scan
  BY <1>1, <1>4, <1>5
<1>7. TypeOK'
  BY <1>1, <1>3, <1>6 DEF HeapInv, TypeOK, Returned, Statuses, ScanType
<1>8. ASSUME NEW d \in Cursors
      PROVE  (/\ scans[d].pending \subseteq LiveIds(pages)
              /\ \A other \in scans[d].pending : Ahead(d, other)
              /\ \A other \in scans[d].seen : ~Ahead(d, other))'
  <2>1. CASE d = c
    <3>1. scans[c].pending \subseteq LiveIds(pages)
      BY DEF HeapInv, ScanPositions
    <3>2. /\ scans'[d].pending = scans[c].pending \ {id}
          /\ scans'[d].seen = scans[c].seen \cup {id}
      BY <1>6, <2>1
    <3> QED BY <1>1, <1>2, <2>1, <3>1, <3>2
  <2>2. CASE d # c
    <3>1. scans'[d] = scans[d] /\ cursors'[d] = cursors[d]
      BY <1>1, <1>4, <2>2
    <3> QED BY <1>1, <3>1 DEF HeapInv, ScanPositions, Ahead
  <2> QED BY <2>1, <2>2
<1>9. ScanPositions'
  BY <1>8 DEF ScanPositions
<1> QED BY <1>1, <1>7, <1>9 DEF HeapInv, RecordCountExact

(* A cursor step that finds the end keeps the invariant: nothing was owed  *)
(* any more.                                                               *)
LEMMA NextEndInv ==
  ASSUME HeapInv, NEW c \in Cursors, NextEnd(c)
  PROVE  HeapInv'
<1>1. /\ scans[c].pending = {}
      /\ result' = Returned("Next", "NotFound", NoId, << >>)
      /\ cursors' \in [Cursors -> [page_index : Nat, slot_id : Nat]]
      /\ \A d \in Cursors : d # c => cursors'[d] = cursors[d]
      /\ \A other \in scans[c].seen : ~Ahead(c, other)'
      /\ pages' = pages /\ active_records' = active_records /\ scans' = scans
  BY NextEndStep
<1>2. TypeOK'
  BY <1>1 DEF HeapInv, TypeOK, Returned, Statuses
<1>3. ASSUME NEW d \in Cursors
      PROVE  (/\ scans[d].pending \subseteq LiveIds(pages)
              /\ \A other \in scans[d].pending : Ahead(d, other)
              /\ \A other \in scans[d].seen : ~Ahead(d, other))'
  <2>1. CASE d = c
    BY <1>1, <2>1
  <2>2. CASE d # c
    BY <1>1, <2>2 DEF HeapInv, ScanPositions, Ahead
  <2> QED BY <2>1, <2>2
<1>4. ScanPositions'
  BY <1>3 DEF ScanPositions
<1> QED BY <1>1, <1>2, <1>4 DEF HeapInv, RecordCountExact

(* Every step of PageHeapTable keeps the invariant.                        *)
LEMMA StepInv == HeapInv /\ [Next]_vars => HeapInv'
<1> SUFFICES ASSUME HeapInv, [Next]_vars
             PROVE  HeapInv'
  OBVIOUS
<1>1. ASSUME NEW record \in Records, Insert(record)
      PROVE  HeapInv'
  <2>0. << >> \in Seq(Byte)
    OBVIOUS
  <2>1. CASE Refuses
    BY <2>0, <2>1, ReportInv DEF Refuses, Statuses
  <2>2. CASE \E id : Binds(id, record)
    BY <2>2, BindsInv
  <2> QED BY <1>1, <2>1, <2>2, InsertEffect
<1>2. ASSUME NEW id \in RecordIds, Read(id)
      PROVE  HeapInv'
  <2>1. id \in LiveIds(pages) => RecordAt(pages, id) \in Seq(Byte)
    BY RecordType DEF HeapInv
  <2>2. << >> \in Seq(Byte)
    OBVIOUS
  <2>3. CASE id \in LiveIds(pages)
    BY <1>2, <2>1, <2>3, ReadStep, ReportInv DEF Statuses
  <2>4. CASE id \notin LiveIds(pages)
    BY <1>2, <2>2, <2>4, ReadStep, ReportInv DEF Statuses
  <2> QED BY <2>3, <2>4
<1>3. ASSUME NEW id \in RecordIds, Delete(id)
      PROVE  HeapInv'
  <2>1. CASE Unbinds(id)
    BY <2>1, UnbindsInv
  <2>0. << >> \in Seq(Byte)
    OBVIOUS
  <2>2. CASE Misses(id)
    BY <2>0, <2>2, ReportInv DEF Misses, Statuses
  <2> QED BY <1>3, <2>1, <2>2, DeleteStep
<1>4. ASSUME NEW c \in Cursors, Scan(c) \/ NextFound(c) \/ NextEnd(c)
      PROVE  HeapInv'
  BY <1>4, ScanInv, NextFoundStep, YieldsInv, NextEndInv
<1>5. CASE UNCHANGED vars
  <2>1. TypeOK' /\ RecordCountExact' /\ ScanPositions' /\ GoodPages(pages')
    BY <1>5 DEF vars, HeapInv, TypeOK, RecordCountExact, ScanPositions, Ahead
  <2> QED BY <2>1 DEF HeapInv
<1> QED BY <1>1, <1>2, <1>3, <1>4, <1>5 DEF Next

(* In every reachable state of PageHeapTable the pages are well laid out,  *)
(* the counter is exact and every scan is where it should be.              *)
THEOREM HeapInvariant == Spec => []HeapInv
<1>1. Init => HeapInv
  BY InitInv
<1>2. HeapInv /\ [Next]_vars => HeapInv'
  BY StepInv
<1> QED BY <1>1, <1>2, PTL DEF Spec

(* Every variable keeps the type its C++ member is declared with.          *)
THEOREM TypeCorrect == Spec => []TypeOK
<1>1. HeapInv => TypeOK
  BY DEF HeapInv
<1> QED BY <1>1, HeapInvariant, PTL

(* No sequence of Insert and Delete calls, on a page of any size, makes    *)
(* the slot directory and the record area of a page meet, lets a slot      *)
(* point outside the record area, or makes two active records share a      *)
(* byte; and page ids stay consecutive and valid.                          *)
THEOREM PagesStayGood == Spec => [](LayoutOK /\ RecordsDisjoint /\ PageIdsConsecutive)
<1>1. HeapInv => LayoutOK /\ RecordsDisjoint /\ PageIdsConsecutive
  <2> SUFFICES ASSUME HeapInv
               PROVE  LayoutOK /\ RecordsDisjoint /\ PageIdsConsecutive
    OBVIOUS
  <2>1. GoodPages(pages)
    BY DEF HeapInv
  <2>2. DOMAIN pages = 1 .. Len(pages)
    BY <2>1 DEF GoodPages
  <2> QED BY <2>1, <2>2
          DEF GoodPages, LayoutOK, RecordsDisjoint, PageIdsConsecutive
<1> QED BY <1>1, HeapInvariant, PTL

(* Two active records of a page never share a byte, whatever slots and     *)
(* space Insert reused (slotted_page.cpp).                                 *)
THEOREM RecordsStayDisjoint == Spec => []RecordsDisjoint
<1> QED BY PagesStayGood, PTL

(* Page k of a heap has the k-th id from the root page's, and none of them *)
(* is kInvalidPageId, up to the end of the page ids (AllocatePage).        *)
THEOREM PageIdsStayConsecutive == Spec => []PageIdsConsecutive
<1> QED BY PagesStayGood, PTL

(* RecordCount() equals the number of active slots, always.                *)
THEOREM CountIsExact == Spec => []RecordCountExact
<1>1. HeapInv => RecordCountExact
  BY DEF HeapInv
<1> QED BY <1>1, HeapInvariant, PTL

(* However Insert and Delete calls come between two Next calls, what a     *)
(* scan owes is ahead of its cursor and what it returned is behind it.     *)
THEOREM ScansArePlaced == Spec => []ScanPositions
<1>1. HeapInv => ScanPositions
  BY DEF HeapInv
<1> QED BY <1>1, HeapInvariant, PTL

-----------------------------------------------------------------------------
(* No byte that was lent out ever changes.                                 *)

(* No step changes a byte of a record area or removes a page.              *)
LEMMA StepFrozen == HeapInv /\ Next => Frozen
<1> SUFFICES ASSUME HeapInv, Next
             PROVE  Frozen
  OBVIOUS
<1>0. pages' = pages => Frozen
  BY DEF Frozen
<1>1. ASSUME NEW record \in Records, Insert(record)
      PROVE  Frozen
  BY <1>0, <1>1, InsertEffect DEF Refuses, Binds
<1>2. ASSUME NEW id \in RecordIds, Read(id)
      PROVE  Frozen
  BY <1>0, <1>2 DEF Read
<1>3. ASSUME NEW id \in RecordIds, Delete(id)
      PROVE  Frozen
  BY <1>0, <1>3, DeleteStep DEF Unbinds, Misses
<1>4. ASSUME NEW c \in Cursors, Scan(c) \/ NextFound(c) \/ NextEnd(c)
      PROVE  Frozen
  BY <1>0, <1>4 DEF Scan, NextFound, NextEnd
<1> QED BY <1>1, <1>2, <1>3, <1>4 DEF Next

(* A RecordView, which points into page memory, shows the same bytes for   *)
(* as long as the table lives, whatever is inserted or deleted later.      *)
THEOREM ViewsStayValid == Spec => LentBytesFrozen
<1>1. HeapInv /\ [Next]_vars => [Frozen]_vars
  BY StepFrozen
<1>2. Spec => [][Frozen]_vars
  BY <1>1, HeapInvariant, PTL DEF Spec
<1> QED BY <1>2 DEF LentBytesFrozen, Frozen

-----------------------------------------------------------------------------
(* PageHeapTable implements RecordStore.                                   *)

(* A new PageHeapTable is an empty record store.                           *)
LEMMA StoreInit == Init => Store!Init
<1> SUFFICES ASSUME Init PROVE Store!Init
  OBVIOUS
<1>1. LiveIds(pages) = {}
  BY EmptyVector DEF Init
<1>2. LiveRecords(pages) = << >>
  BY <1>1 DEF LiveRecords
<1> QED BY <1>2 DEF Init, Store!Init, NoScan, Store!NoScan, Returned, Store!Returned

(* A successful insert is an insert of the record store.                   *)
LEMMA StoreInsert ==
  ASSUME NEW record \in Records, NEW id, Binds(id, record)
  PROVE  Store!InsertOk(record)
<1>1. DOMAIN LiveRecords(pages) = LiveIds(pages)
  BY DEF LiveRecords
<1>2. LiveRecords(pages') = [i \in DOMAIN LiveRecords(pages) \cup {id} |->
                               IF i = id THEN record ELSE LiveRecords(pages)[i]]
  BY DEF LiveRecords, Binds
<1>3. id \in RecordIds \ DOMAIN LiveRecords(pages)
  BY <1>1 DEF Binds
<1>4. result' = Store!Returned("Insert", "Ok", id, << >>) /\ scans' = scans
  BY DEF Binds, Returned, Store!Returned
<1> QED BY <1>2, <1>3, <1>4 DEF Store!InsertOk

(* A successful delete is a delete of the record store.                    *)
LEMMA StoreDelete ==
  ASSUME NEW id \in RecordIds, Unbinds(id)
  PROVE  Store!DeleteOk(id)
<1>1. DOMAIN LiveRecords(pages) = LiveIds(pages)
  BY DEF LiveRecords
<1>2. LiveRecords(pages') = [i \in DOMAIN LiveRecords(pages) \ {id} |->
                               LiveRecords(pages)[i]]
  BY DEF LiveRecords, Unbinds
<1>3. id \in DOMAIN LiveRecords(pages)
  BY <1>1 DEF Unbinds
<1>4. /\ result' = Store!Returned("Delete", "Ok", id, << >>)
      /\ scans' = [c \in Cursors |-> [scans[c] EXCEPT !.pending = @ \ {id}]]
  BY DEF Unbinds, Returned, Store!Returned
<1> QED BY <1>2, <1>3, <1>4 DEF Store!DeleteOk

(* Every step of PageHeapTable is a step of the record store, or none of   *)
(* it.                                                                     *)
LEMMA StoreStep == HeapInv /\ [Next]_vars => [Store!Next]_(Store!vars)
<1> SUFFICES ASSUME HeapInv, [Next]_vars
             PROVE  [Store!Next]_(Store!vars)
  OBVIOUS
<1>0. /\ DOMAIN LiveRecords(pages) = LiveIds(pages)
      /\ \A id \in LiveIds(pages) : LiveRecords(pages)[id] = RecordAt(pages, id)
  BY DEF LiveRecords
<1>1. ASSUME NEW record \in Records, Insert(record)
      PROVE  Store!Next
  <2>1. CASE Refuses
    <3>1. Store!InsertFailed
      BY <2>1 DEF Refuses, Store!InsertFailed, Returned, Store!Returned
    <3> QED BY <3>1 DEF Store!Next
  <2>2. CASE \E id : Binds(id, record)
    BY <2>2, StoreInsert DEF Store!Next
  <2> QED BY <1>1, <2>1, <2>2, InsertEffect
<1>2. ASSUME NEW id \in RecordIds, Read(id)
      PROVE  Store!Next
  <2>1. Store!Read(id)
    BY <1>0, <1>2, ReadStep DEF Store!Read, Returned, Store!Returned
  <2> QED BY <2>1 DEF Store!Next
<1>3. ASSUME NEW id \in RecordIds, Delete(id)
      PROVE  Store!Next
  <2>1. CASE Unbinds(id)
    BY <2>1, StoreDelete DEF Store!Next
  <2>2. CASE Misses(id)
    <3>1. Store!DeleteMissing(id)
      BY <1>0, <2>2 DEF Misses, Store!DeleteMissing, Returned, Store!Returned
    <3> QED BY <3>1 DEF Store!Next
  <2> QED BY <1>3, <2>1, <2>2, DeleteStep
<1>4. ASSUME NEW c \in Cursors, Scan(c)
      PROVE  Store!Next
  <2>1. Store!Scan(c)
    BY <1>0, <1>4 DEF Scan, Store!Scan, Returned, Store!Returned
  <2> QED BY <2>1 DEF Store!Next
<1>5. ASSUME NEW c \in Cursors, NextFound(c)
      PROVE  Store!Next
  <2>1. PICK id : Yields(c, id)
    BY <1>5, NextFoundStep
  <2>2. scans[c].open
    BY <1>5 DEF NextFound
  <2>3. Store!NextRecord(c)
    BY <1>0, <2>1, <2>2 DEF Yields, Store!NextRecord, Returned, Store!Returned
  <2> QED BY <2>3 DEF Store!Next
<1>6. ASSUME NEW c \in Cursors, NextEnd(c)
      PROVE  Store!Next
  <2>1. scans[c].open
    BY <1>6 DEF NextEnd
  <2>2. Store!NextEnd(c)
    BY <1>6, <2>1, NextEndStep DEF Store!NextEnd, Returned, Store!Returned
  <2> QED BY <2>2 DEF Store!Next
<1>7. CASE UNCHANGED vars
  BY <1>7 DEF vars, Store!vars
<1> QED BY <1>1, <1>2, <1>3, <1>4, <1>5, <1>6, <1>7 DEF Next

(* Every behaviour of PageHeapTable is one of the record store: reads      *)
(* return exactly what was inserted, deletes take effect once, a scan      *)
(* misses nothing and repeats nothing, and no call reports Corruption.     *)
THEOREM ImplementsStore == Spec => StoreSpec
<1>1. Init => Store!Init
  BY StoreInit
<1>2. HeapInv /\ [Next]_vars => [Store!Next]_(Store!vars)
  BY StoreStep
<1> QED BY <1>1, <1>2, HeapInvariant, PTL DEF Spec, StoreSpec, Store!Spec

=============================================================================
