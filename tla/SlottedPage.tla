---------------------------- MODULE SlottedPage ----------------------------
(***************************************************************************)
(* DefaultSlottedPage (src/src/storage/page/slotted_page.cpp): one page    *)
(* payload of PageSize bytes.  Slot entries grow up from address 0 to      *)
(* `lower'; record bytes grow down from PageSize to `upper'.               *)
(*                                                                         *)
(* A page is a record with the PageHeader fields the code uses, the slot   *)
(* directory `slots' (the entries the code decodes from the first bytes of *)
(* the payload) and `bytes', the payload itself.  The two share one array  *)
(* in the code; that they never overlap is what PageLayout says.           *)
(* Each operation is a pure function of the page: it returns the status    *)
(* the code returns and the page the code leaves behind.                   *)
(***************************************************************************)
EXTENDS Integers, Sequences

CONSTANTS PageSize,   \* size of the page payload in bytes
          Byte        \* the values a payload byte takes; 0 fills a new page

ASSUME PageSizeAssumption == PageSize \in Nat
ASSUME ByteAssumption == 0 \in Byte

kSlotEntrySize == 6

kMaxU16 == 65535

(* The slot entries that fit in the payload.                               *)
SlotIds == 0 .. (PageSize \div kSlotEntrySize) - 1

Addresses == 0 .. PageSize - 1

(* SlotEntry; the only flag the code sets is kSlotDeleted.                 *)
SlotEntry == [offset : Nat, size : Nat, deleted : BOOLEAN]

Page == [page_id : Nat, kind : {"Free", "Heap"}, lower : Nat, upper : Nat,
         slots : [SlotIds -> SlotEntry], bytes : [Addresses -> Byte]]

-----------------------------------------------------------------------------
(* Decoding and validation.                                                *)

validate_header(p) ==
  IF PageSize = 0 \/ PageSize > kMaxU16 THEN "InvalidArgument"
  ELSE IF \/ p.kind = "Free"
          \/ p.lower > p.upper
          \/ p.upper > PageSize
          \/ p.lower % kSlotEntrySize # 0
       THEN "Corruption" ELSE "Ok"

slot_count(p) == p.lower \div kSlotEntrySize

validate_slot_bounds(p, entry) ==
  IF \/ entry.offset > PageSize
     \/ entry.size > PageSize - entry.offset
     \/ entry.offset < p.upper
  THEN "Corruption" ELSE "Ok"

DeletedSlots(p) == {s \in 0 .. slot_count(p) - 1 : p.slots[s].deleted}

(* The first deleted slot; only used when there is one.                    *)
find_deleted_slot(p) ==
  CHOOSE s \in DeletedSlots(p) : \A t \in DeletedSlots(p) : s <= t

(* The bytes a slot entry points at, as the span the code returns.         *)
SpanOf(p, entry) == [k \in 1 .. entry.size |-> p.bytes[entry.offset + k - 1]]

-----------------------------------------------------------------------------
(* Operations.                                                             *)

ZeroSlots == [s \in SlotIds |-> [offset |-> 0, size |-> 0, deleted |-> FALSE]]

ZeroBytes == [a \in Addresses |-> 0]

(* A frame as the heap constructs it, before Initialize.                   *)
BlankPage(page_id) ==
  [page_id |-> page_id, kind |-> "Free", lower |-> 0, upper |-> 0,
   slots |-> ZeroSlots, bytes |-> ZeroBytes]

PageInitialize(p, kind) ==
  IF PageSize = 0 \/ PageSize > kMaxU16 \/ kind = "Free"
  THEN [status |-> "InvalidArgument", page |-> p]
  ELSE [status |-> "Ok",
        page   |-> [page_id |-> p.page_id, kind |-> kind,
                    lower |-> 0, upper |-> PageSize,
                    slots |-> ZeroSlots, bytes |-> ZeroBytes]]

(* Mutant: the room for a new slot entry is forgotten.                     *)
SpaceNeeded_NoSlotEntry(p, record) == Len(record)

SpaceNeeded(p, record) ==
  Len(record) + (IF DeletedSlots(p) # {} THEN 0 ELSE kSlotEntrySize)

InsertStatus(p, record) ==
  IF validate_header(p) # "Ok" THEN validate_header(p)
  ELSE IF Len(record) > kMaxU16 \/ SpaceNeeded(p, record) > p.upper - p.lower
       THEN "InvalidArgument" ELSE "Ok"

InsertSlot(p) ==
  IF DeletedSlots(p) # {} THEN find_deleted_slot(p) ELSE slot_count(p)

(* Mutant: a reused slot also reuses the space of its deleted record.      *)
InsertedPage_InPlace(p, record) ==
  LET s == InsertSlot(p)
      reuse == /\ DeletedSlots(p) # {}
               /\ p.slots[s].offset + Len(record) <= PageSize
      offset == IF reuse THEN p.slots[s].offset ELSE p.upper - Len(record)
  IN [page_id |-> p.page_id,
      kind    |-> p.kind,
      lower   |-> IF DeletedSlots(p) # {} THEN p.lower ELSE p.lower + kSlotEntrySize,
      upper   |-> IF reuse THEN p.upper ELSE offset,
      slots   |-> [p.slots EXCEPT ![s] =
                     [offset |-> offset, size |-> Len(record), deleted |-> FALSE]],
      bytes   |-> [a \in Addresses |->
                     IF a \in offset .. offset + Len(record) - 1
                     THEN record[a - offset + 1] ELSE p.bytes[a]]]

(* Mutant: the record area does not grow down over the new record.         *)
InsertedPage_KeepsUpper(p, record) ==
  LET s == InsertSlot(p)
      offset == p.upper - Len(record)
  IN [page_id |-> p.page_id,
      kind    |-> p.kind,
      lower   |-> IF DeletedSlots(p) # {} THEN p.lower ELSE p.lower + kSlotEntrySize,
      upper   |-> p.upper,
      slots   |-> [p.slots EXCEPT ![s] =
                     [offset |-> offset, size |-> Len(record), deleted |-> FALSE]],
      bytes   |-> [a \in Addresses |->
                     IF a \in offset .. offset + Len(record) - 1
                     THEN record[a - offset + 1] ELSE p.bytes[a]]]

(* The page after a successful Insert: the record is copied just below the *)
(* record area, the slot entry written and the free-space pointers moved.  *)
(* The space of a deleted record is never given back.                      *)
InsertedPage(p, record) ==
  LET offset == p.upper - Len(record) IN
  [page_id |-> p.page_id,
   kind    |-> p.kind,
   lower   |-> IF DeletedSlots(p) # {} THEN p.lower ELSE p.lower + kSlotEntrySize,
   upper   |-> offset,
   slots   |-> [p.slots EXCEPT ![InsertSlot(p)] =
                  [offset |-> offset, size |-> Len(record), deleted |-> FALSE]],
   bytes   |-> [a \in Addresses |->
                  IF a \in offset .. p.upper - 1
                  THEN record[a - offset + 1] ELSE p.bytes[a]]]

PageInsert(p, record) ==
  LET status == InsertStatus(p, record) IN
  [status |-> status,
   slot   |-> IF status = "Ok" THEN InsertSlot(p) ELSE 0,
   page   |-> IF status = "Ok" THEN InsertedPage(p, record) ELSE p]

(* Read and Delete make the same checks, in the same order.                *)
AccessStatus(p, slot_id) ==
  IF validate_header(p) # "Ok" THEN validate_header(p)
  ELSE IF slot_id >= slot_count(p) THEN "NotFound"
  ELSE IF p.slots[slot_id].deleted THEN "NotFound"
  ELSE validate_slot_bounds(p, p.slots[slot_id])

PageRead(p, slot_id) ==
  LET status == AccessStatus(p, slot_id) IN
  [status |-> status,
   bytes  |-> IF status = "Ok" THEN SpanOf(p, p.slots[slot_id]) ELSE << >>]

(* Mutant: a slot that is deleted already is deleted again.                *)
PageDelete_Twice(p, slot_id) ==
  LET status == IF slot_id < slot_count(p) THEN "Ok" ELSE "NotFound" IN
  [status |-> status,
   page   |-> IF status = "Ok"
              THEN [p EXCEPT !.slots[slot_id].deleted = TRUE]
              ELSE p]

PageDelete(p, slot_id) ==
  LET status == AccessStatus(p, slot_id) IN
  [status |-> status,
   page   |-> IF status = "Ok"
              THEN [p EXCEPT !.slots[slot_id].deleted = TRUE]
              ELSE p]

(* SlotCount: what the cursor iterates over.                               *)
SlotCount(p) == IF validate_header(p) = "Ok" THEN slot_count(p) ELSE 0

-----------------------------------------------------------------------------
(* What the layout of a page has to satisfy.                               *)

ActiveSlots(p) == {s \in 0 .. slot_count(p) - 1 : ~p.slots[s].deleted}

(* The free-space pointers are aligned and do not cross, and every slot    *)
(* that was ever written, deleted or not, points inside the record area.   *)
PageLayout(p) ==
  /\ p.kind = "Heap"
  /\ p.lower % kSlotEntrySize = 0
  /\ p.lower <= p.upper
  /\ p.upper <= PageSize
  /\ \A s \in 0 .. slot_count(p) - 1 :
        /\ p.upper <= p.slots[s].offset
        /\ p.slots[s].offset + p.slots[s].size <= PageSize

(* Two active slots never share a byte.                                    *)
ActiveDisjoint(p) ==
  \A s, t \in ActiveSlots(p) :
     s # t => \/ p.slots[s].offset + p.slots[s].size <= p.slots[t].offset
              \/ p.slots[t].offset + p.slots[t].size <= p.slots[s].offset

=============================================================================
