---------------------------- MODULE TableStorage ----------------------------
(***************************************************************************)
(* InMemoryTableStorageManager (src/src/storage/in_memory_table_storage.   *)
(* cpp): one heap per table id.  The manager is a value `storage' with one *)
(* field per member of Impl.  A heap is its root page id and the bag of    *)
(* tuples it holds: that PageHeapTable keeps exactly the inserted records  *)
(* and that a scan returns each of them once is what RecordStore says and  *)
(* HeapTable implements; the order of a scan is left open here, because    *)
(* first fit may put a later record on an earlier page.  The tables whose  *)
(* heaps are made, and kInvalidPageId, are those of the catalog.           *)
(***************************************************************************)
EXTENDS Catalog, Bags

EmptyStorage == [next_root_page_id |-> 1, tables |-> << >>]

(* Mutant: no check for the end of the root page ids.                      *)
CreateHeapStatus_NoLimit(storage, table_id) ==
  IF table_id \in DOMAIN storage.tables THEN "AlreadyExists" ELSE "Ok"

(* Mutant: the heap of a table that has one is replaced.                   *)
CreateHeapStatus_Replaces(storage, table_id) ==
  IF storage.next_root_page_id = kInvalidPageId THEN "Internal" ELSE "Ok"

CreateHeapStatus(storage, table_id) ==
  IF table_id \in DOMAIN storage.tables THEN "AlreadyExists"
  ELSE IF storage.next_root_page_id = kInvalidPageId THEN "Internal"
  ELSE "Ok"

(* Mutant: the root page id is incremented before it is returned.          *)
CreateHeap_PreIncrement(storage, table_id) ==
  LET status == CreateHeapStatus(storage, table_id)
      heap   == [root_page_id |-> storage.next_root_page_id,
                 tuples       |-> EmptyBag]
  IN [status       |-> status,
      root_page_id |-> storage.next_root_page_id + 1,
      storage      |-> IF status = "Ok"
                       THEN [next_root_page_id |-> storage.next_root_page_id + 1,
                             tables |-> Put(storage.tables, table_id, heap)]
                       ELSE storage]

CreateHeap(storage, table_id) ==
  LET status == CreateHeapStatus(storage, table_id)
      heap   == [root_page_id |-> storage.next_root_page_id,
                 tuples       |-> EmptyBag]
  IN [status       |-> status,
      root_page_id |-> storage.next_root_page_id,
      storage      |-> IF status = "Ok"
                       THEN [next_root_page_id |-> storage.next_root_page_id + 1,
                             tables |-> Put(storage.tables, table_id, heap)]
                       ELSE storage]

(* The status of OpenHeap; on success the handle is the heap of table_id.  *)
OpenHeap(storage, reference) ==
  IF reference.table_id \notin DOMAIN storage.tables THEN "NotFound"
  ELSE IF reference.root_page_id # storage.tables[reference.table_id].root_page_id
       THEN "Corruption"
  ELSE "Ok"

AddTuples(storage, table_id, tuples) ==
  [storage EXCEPT !.tables[table_id].tuples = @ (+) tuples]

=============================================================================
