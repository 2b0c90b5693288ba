------------------------- MODULE SlottedPageProofs -------------------------
(***************************************************************************)
(* What the page operations of SlottedPage preserve, for every page size   *)
(* and every record: the layout, the active slots and the bytes they point *)
(* at.  HeapTableProofs cites these lemmas.                                *)
(***************************************************************************)
EXTENDS SlottedPage, FiniteSetTheorems, WellFoundedInduction, TLAPS

(* A nonempty set of naturals has a least element.  Taken from the fact    *)
(* that strict inclusion between finite sets is well founded.              *)
LEMMA NatMin ==
  ASSUME NEW T, T \subseteq Nat, T # {}
  PROVE  \E x \in T : \A y \in T : x <= y
<1> DEFINE Below == {0 .. n - 1 : n \in T}
<1>1. Below \subseteq FiniteSubsetsOf(Nat)
  <2> SUFFICES ASSUME NEW n \in T
               PROVE  0 .. n - 1 \in FiniteSubsetsOf(Nat)
    OBVIOUS
  <2> QED BY FS_Interval DEF FiniteSubsetsOf
<1>2. Below # {}
  OBVIOUS
<1>3. IsWellFoundedOn(StrictSubsetOrdering(Nat), FiniteSubsetsOf(Nat))
  BY FS_StrictSubsetOrderingWellFounded
<1>4. PICK X \in Below :
        \A Y \in Below : <<Y, X>> \notin StrictSubsetOrdering(Nat)
  <2> HIDE DEF Below
  <2> QED BY <1>1, <1>2, <1>3, WFMin
<1>5. PICK x \in T : X = 0 .. x - 1
  OBVIOUS
<1>6. ASSUME NEW y \in T, y < x
      PROVE  FALSE
  <2>1. 0 .. y - 1 \in Below
    OBVIOUS
  <2>2. 0 .. y - 1 \subseteq X /\ y \in X /\ y \notin 0 .. y - 1
    BY <1>5, <1>6
  <2>3. X \subseteq Nat
    BY <1>5
  <2> QED BY <1>4, <2>1, <2>2, <2>3 DEF StrictSubsetOrdering
<1> QED BY <1>6

(* A laid-out page of a usable size passes validate_header, and its        *)
(* directory lies within the payload.                                      *)
LEMMA LayoutValid ==
  ASSUME NEW p \in Page, PageLayout(p), PageSize \in 1 .. kMaxU16
  PROVE  /\ validate_header(p) = "Ok"
         /\ slot_count(p) \in Nat
         /\ p.lower = 6 * slot_count(p)
         /\ 0 .. slot_count(p) - 1 \subseteq SlotIds
         /\ SlotCount(p) = slot_count(p)
<1>1. p.lower \in Nat /\ p.upper \in Nat
  BY DEF Page
<1>2. p.lower % 6 = 0 /\ p.lower <= p.upper /\ p.upper <= PageSize
  BY DEF PageLayout, kSlotEntrySize
<1>3. slot_count(p) \in Nat /\ p.lower = 6 * slot_count(p)
  BY <1>1, <1>2 DEF slot_count, kSlotEntrySize
<1>4. slot_count(p) <= PageSize \div 6
  BY <1>1, <1>2, PageSizeAssumption DEF slot_count, kSlotEntrySize
<1>5. validate_header(p) = "Ok"
  <2>1. ~(PageSize = 0 \/ PageSize > kMaxU16)
    BY DEF kMaxU16
  <2>2. p.kind # "Free"
    BY DEF PageLayout
  <2>3. ~(p.lower > p.upper) /\ ~(p.upper > PageSize)
    BY <1>1, <1>2, PageSizeAssumption
  <2>4. ~(p.lower % kSlotEntrySize # 0)
    BY <1>2 DEF kSlotEntrySize
  <2> QED BY <2>1, <2>2, <2>3, <2>4, Zenon DEF validate_header
<1> QED BY <1>3, <1>4, <1>5, PageSizeAssumption
        DEF SlotIds, SlotCount, kSlotEntrySize

(* find_deleted_slot returns a deleted slot whenever there is one.         *)
LEMMA DeletedSlotFound ==
  ASSUME NEW p \in Page, PageLayout(p), DeletedSlots(p) # {}
  PROVE  find_deleted_slot(p) \in DeletedSlots(p)
<1>1. DeletedSlots(p) \subseteq Nat
  BY DEF DeletedSlots
<1>2. \E s \in DeletedSlots(p) : \A t \in DeletedSlots(p) : s <= t
  BY <1>1, NatMin
<1> QED BY <1>2 DEF find_deleted_slot

(* On a laid-out page the bounds check never fails: an access succeeds on  *)
(* exactly the active slots and reports NotFound elsewhere.                *)
LEMMA AccessExact ==
  ASSUME NEW p \in Page, PageLayout(p), PageSize \in 1 .. kMaxU16,
         NEW s \in Nat
  PROVE  AccessStatus(p, s) = IF s \in ActiveSlots(p) THEN "Ok" ELSE "NotFound"
<1>1. /\ validate_header(p) = "Ok"
      /\ slot_count(p) \in Nat
      /\ 0 .. slot_count(p) - 1 \subseteq SlotIds
  BY LayoutValid
<1>2. CASE s >= slot_count(p)
  BY <1>1, <1>2 DEF AccessStatus, ActiveSlots
<1>3. CASE s < slot_count(p)
  <2>1. s \in 0 .. slot_count(p) - 1 /\ s \in SlotIds
    BY <1>1, <1>3
  <2>2. p.slots[s] \in SlotEntry /\ p.upper \in Nat
    BY <2>1 DEF Page
  <2>3. validate_slot_bounds(p, p.slots[s]) = "Ok"
    BY <2>1, <2>2, PageSizeAssumption
       DEF validate_slot_bounds, PageLayout, SlotEntry
  <2>4. ~(s >= slot_count(p))
    BY <1>1, <1>3
  <2> QED BY <1>1, <2>1, <2>3, <2>4 DEF AccessStatus, ActiveSlots
<1> QED BY <1>1, <1>2, <1>3

-----------------------------------------------------------------------------
(* Insert.                                                                 *)

(* A successful Insert takes a slot that is not active, within the         *)
(* directory or directly after it, and space between the two areas.        *)
LEMMA InsertTarget ==
  ASSUME NEW p \in Page, PageLayout(p), PageSize \in 1 .. kMaxU16,
         NEW record \in Seq(Byte), InsertStatus(p, record) = "Ok"
  PROVE  LET slot == InsertSlot(p)
             q    == InsertedPage(p, record)
         IN  /\ slot \in SlotIds
             /\ slot \notin ActiveSlots(p)
             /\ q.lower \in Nat
             /\ q.lower % 6 = 0
             /\ p.lower <= q.lower
             /\ q.lower <= p.upper - Len(record)
             /\ 0 .. slot_count(q) - 1 = (0 .. slot_count(p) - 1) \cup {slot}
<1> DEFINE slot == InsertSlot(p)
           q    == InsertedPage(p, record)
<1>1. /\ validate_header(p) = "Ok"
      /\ slot_count(p) \in Nat
      /\ p.lower = 6 * slot_count(p)
      /\ 0 .. slot_count(p) - 1 \subseteq SlotIds
  BY LayoutValid
<1>2. p.lower \in Nat /\ p.upper \in Nat /\ Len(record) \in Nat
  BY DEF Page
<1>3. /\ SpaceNeeded(p, record) <= p.upper - p.lower
      /\ p.upper <= PageSize
  BY <1>1, <1>2 DEF InsertStatus, PageLayout, SpaceNeeded, kSlotEntrySize
<1>4. q.lower = IF DeletedSlots(p) # {} THEN p.lower ELSE p.lower + 6
  BY DEF InsertedPage, Page, kSlotEntrySize
<1>5. CASE DeletedSlots(p) # {}
  <2>1. slot \in DeletedSlots(p)
    BY <1>5, DeletedSlotFound DEF InsertSlot
  <2>2. Len(record) <= p.upper - p.lower
    BY <1>2, <1>3, <1>5 DEF SpaceNeeded
  <2>3. q.lower = p.lower
    BY <1>4, <1>5
  <2>4. slot_count(q) = slot_count(p)
    BY <2>3 DEF slot_count
  <2>5. slot \in 0 .. slot_count(p) - 1 /\ slot \notin ActiveSlots(p)
    BY <2>1 DEF DeletedSlots, ActiveSlots
  <2>6. p.lower % 6 = 0
    BY DEF PageLayout, kSlotEntrySize
  <2> HIDE DEF slot, q
  <2>7. /\ slot \in SlotIds
        /\ 0 .. slot_count(q) - 1 = (0 .. slot_count(p) - 1) \cup {slot}
    BY <1>1, <2>4, <2>5
  <2>8. q.lower \in Nat /\ p.lower <= q.lower /\ q.lower <= p.upper - Len(record)
    BY <1>2, <2>2, <2>3
  <2> QED BY <2>3, <2>5, <2>6, <2>7, <2>8 DEF slot, q
<1>6. CASE DeletedSlots(p) = {}
  <2>1. slot = slot_count(p)
    BY <1>6 DEF InsertSlot
  <2>2. Len(record) + 6 <= p.upper - p.lower
    BY <1>2, <1>3, <1>6 DEF SpaceNeeded, kSlotEntrySize
  <2>3. q.lower = p.lower + 6
    BY <1>4, <1>6
  <2>4. slot_count(q) = slot_count(p) + 1
    BY <1>1, <1>2, <2>3 DEF slot_count, kSlotEntrySize
  <2>5. slot \notin ActiveSlots(p)
    BY <1>1, <2>1 DEF ActiveSlots
  <2> HIDE DEF slot, q
  <2>6. slot \in SlotIds
    BY <1>1, <1>2, <1>3, <2>1, <2>2, PageSizeAssumption DEF SlotIds, kSlotEntrySize
  <2>7. 0 .. slot_count(q) - 1 = (0 .. slot_count(p) - 1) \cup {slot}
    BY <1>1, <2>1, <2>4
  <2>8. /\ q.lower \in Nat
        /\ q.lower % 6 = 0
        /\ p.lower <= q.lower
        /\ q.lower <= p.upper - Len(record)
    BY <1>1, <1>2, <2>2, <2>3, SMTT(30)
  <2> QED BY <2>5, <2>6, <2>7, <2>8 DEF slot, q
<1> QED BY <1>5, <1>6

(* Insert keeps the page well formed and laid out.                         *)
LEMMA InsertKeepsLayout ==
  ASSUME NEW p \in Page, PageLayout(p), PageSize \in 1 .. kMaxU16,
         NEW record \in Seq(Byte), InsertStatus(p, record) = "Ok"
  PROVE  LET q == InsertedPage(p, record)
         IN  q \in Page /\ PageLayout(q) /\ q.page_id = p.page_id
<1> DEFINE slot  == InsertSlot(p)
           q     == InsertedPage(p, record)
           off   == p.upper - Len(record)
           entry == [offset |-> off, size |-> Len(record), deleted |-> FALSE]
           cells == [a \in Addresses |->
                       IF a \in off .. p.upper - 1
                       THEN record[a - off + 1] ELSE p.bytes[a]]
<1>1. /\ slot \in SlotIds
      /\ q.lower \in Nat
      /\ q.lower % 6 = 0
      /\ p.lower <= q.lower
      /\ q.lower <= off
      /\ 0 .. slot_count(q) - 1 = (0 .. slot_count(p) - 1) \cup {slot}
  BY InsertTarget
<1>2. /\ p.lower \in Nat /\ p.upper \in Nat /\ Len(record) \in Nat
      /\ p.upper <= PageSize
      /\ p.kind = "Heap" /\ p.page_id \in Nat
      /\ p.slots \in [SlotIds -> SlotEntry] /\ p.bytes \in [Addresses -> Byte]
  BY DEF Page, PageLayout
<1>3. /\ q = [page_id |-> p.page_id, kind |-> p.kind, lower |-> q.lower,
              upper |-> off, slots |-> [p.slots EXCEPT ![slot] = entry],
              bytes |-> cells]
      /\ q.page_id = p.page_id /\ q.kind = p.kind /\ q.upper = off
      /\ q.slots = [p.slots EXCEPT ![slot] = entry]
  BY DEF InsertedPage
<1> HIDE DEF q, slot
<1>4. off \in Nat
  BY <1>1, <1>2
<1>5. entry \in SlotEntry
  BY <1>2, <1>4 DEF SlotEntry
<1>6. cells \in [Addresses -> Byte]
  <2> SUFFICES ASSUME NEW a \in Addresses, a \in off .. p.upper - 1
               PROVE  record[a - off + 1] \in Byte
    BY <1>2
  <2>1. a - off + 1 \in 1 .. Len(record)
    BY <1>2, <1>4
  <2> QED BY <2>1
<1>7. q \in Page
  <2> HIDE DEF entry, cells, off
  <2> QED BY <1>1, <1>2, <1>3, <1>4, <1>5, <1>6 DEF Page
<1>8. PageLayout(q)
  <2>1. q.kind = "Heap" /\ q.upper = off /\ q.upper <= PageSize
    BY <1>2, <1>3, <1>4
  <2>2. ASSUME NEW s \in 0 .. slot_count(q) - 1
        PROVE  /\ q.upper <= q.slots[s].offset
               /\ q.slots[s].offset + q.slots[s].size <= PageSize
    <3>1. CASE s = slot
      <4>1. q.slots[s] = entry
        BY <1>1, <1>2, <1>3, <3>1
      <4> QED BY <1>2, <1>4, <2>1, <4>1
    <3>2. CASE s # slot
      <4>1. s \in 0 .. slot_count(p) - 1
        BY <1>1, <3>2
      <4>2. s \in SlotIds
        BY <4>1, LayoutValid
      <4>3. q.slots[s] = p.slots[s] /\ p.slots[s] \in SlotEntry
        BY <1>2, <1>3, <3>2, <4>2
      <4>4. /\ p.upper <= p.slots[s].offset
            /\ p.slots[s].offset + p.slots[s].size <= PageSize
        BY <4>1 DEF PageLayout
      <4>5. p.slots[s].offset \in Nat
        BY <4>3 DEF SlotEntry
      <4> QED BY <1>2, <1>4, <2>1, <4>3, <4>4, <4>5
    <3> QED BY <3>1, <3>2
  <2> QED BY <1>1, <2>1, <2>2 DEF PageLayout, kSlotEntrySize
<1> QED BY <1>3, <1>7, <1>8 DEF q

(* Insert adds the record under its slot and leaves every other active     *)
(* slot, the bytes it points at, and every byte of the old record area as  *)
(* they were.                                                              *)
LEMMA InsertKeepsRecords ==
  ASSUME NEW p \in Page, PageLayout(p), PageSize \in 1 .. kMaxU16,
         NEW record \in Seq(Byte), InsertStatus(p, record) = "Ok"
  PROVE  LET slot == InsertSlot(p)
             q    == InsertedPage(p, record)
         IN  /\ ActiveSlots(q) = ActiveSlots(p) \cup {slot}
             /\ SpanOf(q, q.slots[slot]) = record
             /\ \A s \in ActiveSlots(p) :
                   /\ q.slots[s] = p.slots[s]
                   /\ SpanOf(q, q.slots[s]) = SpanOf(p, p.slots[s])
             /\ \A a \in p.upper .. PageSize - 1 : q.bytes[a] = p.bytes[a]
<1> DEFINE slot  == InsertSlot(p)
           q     == InsertedPage(p, record)
           off   == p.upper - Len(record)
           entry == [offset |-> off, size |-> Len(record), deleted |-> FALSE]
<1>1. /\ slot \in SlotIds
      /\ slot \notin ActiveSlots(p)
      /\ q.lower \in Nat
      /\ q.lower <= off
      /\ 0 .. slot_count(q) - 1 = (0 .. slot_count(p) - 1) \cup {slot}
  BY InsertTarget
<1>2. /\ p.upper \in Nat /\ Len(record) \in Nat
      /\ p.upper <= PageSize
      /\ p.slots \in [SlotIds -> SlotEntry] /\ p.bytes \in [Addresses -> Byte]
  BY DEF Page, PageLayout
<1>3. /\ q.slots = [p.slots EXCEPT ![slot] = entry]
      /\ q.bytes = [a \in Addresses |->
                      IF a \in off .. p.upper - 1
                      THEN record[a - off + 1] ELSE p.bytes[a]]
  BY DEF InsertedPage
<1>4. off \in Nat
  BY <1>1, <1>2
<1>5. 0 .. slot_count(p) - 1 \subseteq SlotIds
  BY LayoutValid
<1> HIDE DEF q, slot
<1>6. q.slots[slot] = entry
  BY <1>1, <1>2, <1>3
<1>7. \A s \in SlotIds : s # slot => q.slots[s] = p.slots[s]
  BY <1>1, <1>2, <1>3
<1>8. ActiveSlots(q) = ActiveSlots(p) \cup {slot}
  BY <1>1, <1>5, <1>6, <1>7 DEF ActiveSlots
<1>9. \A a \in p.upper .. PageSize - 1 : q.bytes[a] = p.bytes[a]
  BY <1>2, <1>3, <1>4, PageSizeAssumption DEF Addresses
<1>10. SpanOf(q, q.slots[slot]) = record
  <2>1. SpanOf(q, entry) = [k \in 1 .. Len(record) |-> q.bytes[off + k - 1]]
    BY DEF SpanOf
  <2>2. ASSUME NEW k \in 1 .. Len(record)
        PROVE  q.bytes[off + k - 1] = record[k]
    <3>1. /\ off + k - 1 \in Addresses
          /\ off + k - 1 \in off .. p.upper - 1
          /\ (off + k - 1) - off + 1 = k
      BY <1>2, <1>4, PageSizeAssumption, SMTT(30) DEF Addresses
    <3> HIDE DEF off
    <3> QED BY <1>3, <3>1
  <2>3. record = [k \in 1 .. Len(record) |-> record[k]]
    OBVIOUS
  <2> QED BY <1>6, <2>1, <2>2, <2>3
<1>11. ASSUME NEW s \in ActiveSlots(p)
       PROVE  /\ q.slots[s] = p.slots[s]
              /\ SpanOf(q, q.slots[s]) = SpanOf(p, p.slots[s])
  <2> DEFINE e == p.slots[s]
  <2>1. s \in 0 .. slot_count(p) - 1 /\ s \in SlotIds /\ s # slot
    BY <1>1, <1>5 DEF ActiveSlots
  <2>2. q.slots[s] = e
    BY <1>7, <2>1
  <2>3. /\ e.offset \in Nat /\ e.size \in Nat
        /\ p.upper <= e.offset
        /\ e.offset + e.size <= PageSize
    BY <1>2, <2>1 DEF PageLayout, SlotEntry
  <2> HIDE DEF e
  <2>4. \A k \in 1 .. e.size : q.bytes[e.offset + k - 1] = p.bytes[e.offset + k - 1]
    <3> SUFFICES ASSUME NEW k \in 1 .. e.size
                 PROVE  e.offset + k - 1 \in p.upper .. PageSize - 1
      BY <1>9
    <3> QED BY <1>2, <2>3, PageSizeAssumption
  <2>5. SpanOf(q, e) = SpanOf(p, e)
    BY <2>4 DEF SpanOf
  <2> QED BY <2>2, <2>5 DEF e
<1> QED BY <1>8, <1>9, <1>10, <1>11 DEF q, slot

(* The new record shares no byte with an active one.                       *)
LEMMA InsertKeepsDisjoint ==
  ASSUME NEW p \in Page, PageLayout(p), PageSize \in 1 .. kMaxU16,
         NEW record \in Seq(Byte), InsertStatus(p, record) = "Ok",
         ActiveDisjoint(p)
  PROVE  ActiveDisjoint(InsertedPage(p, record))
<1> DEFINE slot == InsertSlot(p)
           q    == InsertedPage(p, record)
<1>1. /\ ActiveSlots(q) = ActiveSlots(p) \cup {slot}
      /\ \A s \in ActiveSlots(p) : q.slots[s] = p.slots[s]
  BY InsertKeepsRecords
<1>2. slot \in SlotIds /\ slot \notin ActiveSlots(p)
  BY InsertTarget
<1>3. /\ q.slots[slot].offset = p.upper - Len(record)
      /\ q.slots[slot].size = Len(record)
  BY <1>2 DEF InsertedPage, Page
<1>4. p.upper \in Nat /\ Len(record) \in Nat
  BY DEF Page
<1>5. ASSUME NEW s \in ActiveSlots(p)
      PROVE  q.slots[slot].offset + q.slots[slot].size <= q.slots[s].offset
  <2>1. p.upper <= p.slots[s].offset
    BY DEF ActiveSlots, PageLayout
  <2> QED BY <1>1, <1>3, <1>4, <2>1
<1> HIDE DEF q, slot
<1> QED BY <1>1, <1>5 DEF ActiveDisjoint, q

-----------------------------------------------------------------------------
(* Delete and Initialize.                                                  *)

(* A successful Delete clears one active slot and touches nothing else.    *)
LEMMA DeleteEffect ==
  ASSUME NEW p \in Page, PageLayout(p), PageSize \in 1 .. kMaxU16,
         NEW s \in ActiveSlots(p)
  PROVE  LET q == PageDelete(p, s).page
         IN  /\ q \in Page /\ PageLayout(q)
             /\ q.page_id = p.page_id /\ q.upper = p.upper /\ q.bytes = p.bytes
             /\ slot_count(q) = slot_count(p)
             /\ ActiveSlots(q) = ActiveSlots(p) \ {s}
             /\ \A t \in ActiveSlots(q) : q.slots[t] = p.slots[t]
<1> DEFINE q == PageDelete(p, s).page
           e == p.slots[s]
           d == [e EXCEPT !.deleted = TRUE]
<1>1. s \in 0 .. slot_count(p) - 1 /\ s \in SlotIds /\ s \in Nat
  <2>1. slot_count(p) \in Nat /\ 0 .. slot_count(p) - 1 \subseteq SlotIds
    BY LayoutValid
  <2> QED BY <2>1 DEF ActiveSlots
<1>2. AccessStatus(p, s) = "Ok"
  BY <1>1, AccessExact
<1>3. e \in SlotEntry
  BY <1>1 DEF Page
<1>4. /\ d \in SlotEntry
      /\ d.offset = e.offset /\ d.size = e.size /\ d.deleted = TRUE
  <2> HIDE DEF e
  <2> QED BY <1>3 DEF SlotEntry
<1>5. q = [p EXCEPT !.slots = [p.slots EXCEPT ![s] = d]]
  BY <1>2 DEF PageDelete
<1>6. /\ q \in Page
      /\ q.page_id = p.page_id /\ q.kind = p.kind /\ q.lower = p.lower
      /\ q.upper = p.upper /\ q.bytes = p.bytes
      /\ q.slots = [p.slots EXCEPT ![s] = d]
  <2> HIDE DEF q, d
  <2> QED BY <1>1, <1>4, <1>5 DEF Page
<1>7. slot_count(q) = slot_count(p)
  BY <1>6 DEF slot_count
<1> HIDE DEF q, d
<1>8. /\ q.slots[s] = d
      /\ \A t \in SlotIds : t # s => q.slots[t] = p.slots[t]
  BY <1>1, <1>6 DEF Page
<1>9. 0 .. slot_count(p) - 1 \subseteq SlotIds
  BY LayoutValid
<1>10. ActiveSlots(q) = ActiveSlots(p) \ {s}
  BY <1>1, <1>4, <1>7, <1>8, <1>9 DEF ActiveSlots
<1>11. \A t \in ActiveSlots(q) : q.slots[t] = p.slots[t]
  BY <1>8, <1>9, <1>10 DEF ActiveSlots
<1>12. PageLayout(q)
  <2>1. \A t \in 0 .. slot_count(q) - 1 :
          q.slots[t].offset = p.slots[t].offset /\ q.slots[t].size = p.slots[t].size
    BY <1>4, <1>7, <1>8, <1>9
  <2> QED BY <1>6, <1>7, <2>1 DEF PageLayout
<1> QED BY <1>6, <1>7, <1>10, <1>11, <1>12 DEF q

(* Initialize produces a well-formed empty page.                           *)
LEMMA InitializeEffect ==
  ASSUME NEW page_id \in Nat, PageSize \in 1 .. kMaxU16
  PROVE  LET r == PageInitialize(BlankPage(page_id), "Heap")
         IN  /\ r.status = "Ok"
             /\ r.page \in Page /\ PageLayout(r.page)
             /\ r.page.page_id = page_id /\ r.page.upper = PageSize
             /\ ActiveSlots(r.page) = {}
<1> DEFINE r == PageInitialize(BlankPage(page_id), "Heap")
           new == [page_id |-> page_id, kind |-> "Heap", lower |-> 0,
                   upper |-> PageSize, slots |-> ZeroSlots, bytes |-> ZeroBytes]
<1>1. r.status = "Ok" /\ r.page = new
  BY SMTT(30) DEF PageInitialize, BlankPage, kMaxU16
<1>2. ZeroSlots \in [SlotIds -> SlotEntry] /\ ZeroBytes \in [Addresses -> Byte]
  BY ByteAssumption DEF ZeroSlots, ZeroBytes, SlotEntry
<1>3. new \in Page
  BY <1>2, PageSizeAssumption DEF Page
<1>4. slot_count(new) = 0
  BY DEF slot_count, kSlotEntrySize
<1>5. PageLayout(new) /\ ActiveSlots(new) = {}
  BY <1>4, PageSizeAssumption DEF PageLayout, ActiveSlots, kSlotEntrySize
<1> QED BY <1>1, <1>3, <1>5

=============================================================================
