------------------------------ MODULE Catalog ------------------------------
(***************************************************************************)
(* The catalog: InMemoryCatalog (src/src/catalog/in_memory_catalog.cpp) on *)
(* top of InMemoryHostedCatalogApi (src/src/catalog/hosted_catalog_api.    *)
(* cpp), which keeps four maps that have to agree with each other.  The    *)
(* catalog is a value `cat' with one field per member of Impl; a call is   *)
(* an operator that gives its status and the catalog after it, so that a   *)
(* caller can make several calls in one step.                              *)
(*                                                                         *)
(* An identifier is the pair of its folded key and its spelling.           *)
(***************************************************************************)
EXTENDS Naturals, Sequences, Functions

CONSTANTS kInvalidPageId,
          kMaxColumnId     \* numeric_limits<ColumnId>::max(); ids count from 0

(* Page ids are unsigned, and the greatest of them is the invalid one.     *)
ASSUME PageIdAssumption == kInvalidPageId \in Nat \ {0}

ASSUME ColumnIdAssumption == kMaxColumnId \in Nat

(* FoldIdentifierKey; an empty identifier is one with an empty key.        *)
FoldIdentifierKey(name) == name[1]

IsEmpty(name) == FoldIdentifierKey(name) = ""

EmptyCatalog ==
  [next_table_id         |-> 1,
   next_index_id         |-> 1,
   tables_by_name        |-> << >>,
   table_names_by_id     |-> << >>,
   index_keys_by_id      |-> << >>,
   indexes_by_table_name |-> << >>]

(* An entry is put into a map.                                             *)
Put(map, key, value) ==
  [k \in DOMAIN map \cup {key} |-> IF k = key THEN value ELSE map[k]]

(* What a call on the catalog returns, besides the catalog after it.       *)
CatalogResult(status, cat, value) ==
  [status |-> status, cat |-> cat, value |-> value]

CatalogError(status, cat) == CatalogResult(status, cat, << >>)

-----------------------------------------------------------------------------
(* InMemoryHostedCatalogApi.                                               *)

LoadTable(cat, key) ==
  IF key \in DOMAIN cat.tables_by_name
  THEN CatalogResult("Ok", cat, cat.tables_by_name[key])
  ELSE CatalogError("NotFound", cat)

LoadTableById(cat, id) ==
  IF id \in DOMAIN cat.table_names_by_id
  THEN CatalogResult("Ok", cat, cat.tables_by_name[cat.table_names_by_id[id]])
  ELSE CatalogError("NotFound", cat)

StoreTable(cat, key, table) ==
  IF \/ key \in DOMAIN cat.tables_by_name
     \/ table.id \in DOMAIN cat.table_names_by_id
  THEN CatalogError("AlreadyExists", cat)
  ELSE CatalogResult("Ok",
         [cat EXCEPT !.table_names_by_id = Put(@, table.id, key),
                     !.tables_by_name    = Put(@, key, table)], table)

IndexIds(table) == {table.indexes[i].id : i \in DOMAIN table.indexes}

(* Mutant: the ids of a dropped table's indexes are kept.                  *)
EraseTable_KeepsIndexIds(cat, key) ==
  IF key \notin DOMAIN cat.tables_by_name
  THEN CatalogError("NotFound", cat)
  ELSE LET table == cat.tables_by_name[key]
       IN CatalogResult("Ok",
            [cat EXCEPT
               !.table_names_by_id     = Restrict(@, DOMAIN @ \ {table.id}),
               !.indexes_by_table_name = Restrict(@, DOMAIN @ \ {key}),
               !.tables_by_name        = Restrict(@, DOMAIN @ \ {key})], << >>)

(* Mutant: the id of a dropped table is given out again.                   *)
EraseTable_ReusesId(cat, key) ==
  IF key \notin DOMAIN cat.tables_by_name
  THEN CatalogError("NotFound", cat)
  ELSE LET table == cat.tables_by_name[key]
       IN CatalogResult("Ok",
            [cat EXCEPT
               !.next_table_id         = table.id,
               !.table_names_by_id     = Restrict(@, DOMAIN @ \ {table.id}),
               !.index_keys_by_id      = Restrict(@, DOMAIN @ \ IndexIds(table)),
               !.indexes_by_table_name = Restrict(@, DOMAIN @ \ {key}),
               !.tables_by_name        = Restrict(@, DOMAIN @ \ {key})], << >>)

EraseTable(cat, key) ==
  IF key \notin DOMAIN cat.tables_by_name
  THEN CatalogError("NotFound", cat)
  ELSE LET table == cat.tables_by_name[key]
       IN CatalogResult("Ok",
            [cat EXCEPT
               !.table_names_by_id     = Restrict(@, DOMAIN @ \ {table.id}),
               !.index_keys_by_id      = Restrict(@, DOMAIN @ \ IndexIds(table)),
               !.indexes_by_table_name = Restrict(@, DOMAIN @ \ {key}),
               !.tables_by_name        = Restrict(@, DOMAIN @ \ {key})], << >>)

UpdateTable(cat, table) ==
  IF table.id \notin DOMAIN cat.table_names_by_id
  THEN CatalogError("NotFound", cat)
  ELSE LET key == cat.table_names_by_id[table.id]
       IN IF key \notin DOMAIN cat.tables_by_name
          THEN CatalogError("Corruption", cat)
          ELSE CatalogResult("Ok",
                 [cat EXCEPT !.tables_by_name[key] =
                    [table EXCEPT !.name = cat.tables_by_name[key].name]],
                 << >>)

(* The map that indexes_by_table_name[key] holds, or would be given.       *)
IndexesOf(cat, key) ==
  IF key \in DOMAIN cat.indexes_by_table_name
  THEN cat.indexes_by_table_name[key]
  ELSE << >>

StoreIndexStatus(cat, key, index_key, index) ==
  LET table == LoadTable(cat, key)
  IN IF table.status # "Ok" THEN table.status
     ELSE IF index.table_id # table.value.id THEN "InvalidArgument"
     ELSE IF index.id \in DOMAIN cat.index_keys_by_id THEN "AlreadyExists"
     ELSE IF index_key \in DOMAIN IndexesOf(cat, key) THEN "AlreadyExists"
     ELSE "Ok"

StoreIndex(cat, key, index_key, index) ==
  LET status == StoreIndexStatus(cat, key, index_key, index)
  IN IF status # "Ok"
     THEN CatalogError(status, cat)
     ELSE CatalogResult("Ok",
            [cat EXCEPT
               !.tables_by_name[key].indexes = Append(@, index),
               !.indexes_by_table_name =
                  Put(@, key, Put(IndexesOf(cat, key), index_key, index)),
               !.index_keys_by_id = Put(@, index.id, <<key, index_key>>)], index)

LoadIndex(cat, key, index_key) ==
  IF LoadTable(cat, key).status # "Ok" \/ index_key \notin DOMAIN IndexesOf(cat, key)
  THEN CatalogError("NotFound", cat)
  ELSE CatalogResult("Ok", cat, IndexesOf(cat, key)[index_key])

-----------------------------------------------------------------------------
(* InMemoryCatalog.  A schema is a sequence of columns, [name, type].      *)

(* The loops that stop at the first element with an error: where, or one   *)
(* past the end, and with which status.                                    *)
StopsAt(Status(_), n) ==
  CHOOSE i \in 1 .. n + 1 : /\ \A j \in 1 .. i - 1 : Status(j) = "Ok"
                            /\ i <= n => Status(i) # "Ok"

FirstFailure(Status(_), n) ==
  LET i == StopsAt(Status, n) IN IF i <= n THEN Status(i) ELSE "Ok"

validate_column(column) ==
  IF IsEmpty(column.name) \/ column.type = "Null" THEN "InvalidArgument" ELSE "Ok"

DuplicateColumn(columns, i) ==
  \E j \in 1 .. i - 1 :
    FoldIdentifierKey(columns[j].name) = FoldIdentifierKey(columns[i].name)

TooManyColumns(i) == i - 1 > kMaxColumnId

ColumnStatus(columns, i) ==
  IF TooManyColumns(i) THEN "InvalidArgument"
  ELSE IF validate_column(columns[i]) # "Ok" THEN validate_column(columns[i])
  ELSE IF DuplicateColumn(columns, i) THEN "AlreadyExists"
  ELSE "Ok"

(* The checks of CreateTable, all of them before an id is allocated.       *)
CreateTableStatus(cat, request) ==
  IF IsEmpty(request.name) \/ request.columns = << >> THEN "InvalidArgument"
  ELSE IF LoadTable(cat, FoldIdentifierKey(request.name)).status = "Ok"
       THEN "AlreadyExists"
  ELSE FirstFailure(LAMBDA i : ColumnStatus(request.columns, i),
                    Len(request.columns))

(* Mutant: the id is allocated before the request is validated.            *)
CreateTable_AllocatesFirst(cat, request) ==
  LET status == CreateTableStatus(cat, request)
      table  == [id                |-> cat.next_table_id,
                 name              |-> request.name,
                 columns           |-> request.columns,
                 heap_root_page_id |-> kInvalidPageId,
                 indexes           |-> << >>]
      after  == [cat EXCEPT !.next_table_id = @ + 1]
  IN IF status # "Ok"
     THEN CatalogError(status, after)
     ELSE StoreTable(after, FoldIdentifierKey(request.name), table)

CreateTable(cat, request) ==
  LET status == CreateTableStatus(cat, request)
      table  == [id                |-> cat.next_table_id,
                 name              |-> request.name,
                 columns           |-> request.columns,
                 heap_root_page_id |-> kInvalidPageId,
                 indexes           |-> << >>]
  IN IF status # "Ok"
     THEN CatalogError(status, cat)
     ELSE StoreTable([cat EXCEPT !.next_table_id = @ + 1],
                     FoldIdentifierKey(request.name), table)

DropTable(cat, name) == EraseTable(cat, FoldIdentifierKey(name))

GetTable(cat, name) == LoadTable(cat, FoldIdentifierKey(name))

SetTableHeapRoot(cat, id, heap_root_page_id) ==
  LET table == LoadTableById(cat, id)
  IN IF heap_root_page_id = kInvalidPageId
     THEN CatalogError("InvalidArgument", cat)
     ELSE IF table.status # "Ok"
     THEN CatalogError(table.status, cat)
     ELSE UpdateTable(cat, [table.value EXCEPT
                              !.heap_root_page_id = heap_root_page_id])

KeyColumnStatus(table, key_columns, i) ==
  IF \/ key_columns[i] >= Len(table.columns)
     \/ \E j \in 1 .. i - 1 : key_columns[j] = key_columns[i]
  THEN "InvalidArgument"
  ELSE "Ok"

CreateIndexStatus(cat, request) ==
  LET key   == FoldIdentifierKey(request.table_name)
      table == LoadTable(cat, key)
  IN IF \/ IsEmpty(request.table_name)
        \/ IsEmpty(request.name)
        \/ request.key_columns = << >>
     THEN "InvalidArgument"
     ELSE IF table.status # "Ok" THEN table.status
     ELSE IF LoadIndex(cat, key, FoldIdentifierKey(request.name)).status = "Ok"
          THEN "AlreadyExists"
     ELSE FirstFailure(
            LAMBDA i : KeyColumnStatus(table.value, request.key_columns, i),
            Len(request.key_columns))

CreateIndex(cat, request) ==
  LET status == CreateIndexStatus(cat, request)
      key    == FoldIdentifierKey(request.table_name)
  IN IF status # "Ok"
     THEN CatalogError(status, cat)
     ELSE StoreIndex([cat EXCEPT !.next_index_id = @ + 1], key,
                     FoldIdentifierKey(request.name),
                     [id          |-> cat.next_index_id,
                      name        |-> request.name,
                      table_id    |-> LoadTable(cat, key).value.id,
                      key_columns |-> request.key_columns])

=============================================================================
