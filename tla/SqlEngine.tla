----------------------------- MODULE SqlEngine ------------------------------
(***************************************************************************)
(* DefaultSqlEngine (src/src/sql_engine.cpp) with its binder, planners and *)
(* executor, over the catalog and the table storage it owns or is given.   *)
(* Callers run SQL, and through GetCatalog() and GetStorage() also call    *)
(* the catalog and the storage manager themselves, between statements; and *)
(* they may plan a statement now and run the physical plan later, or more  *)
(* than once, after the tables it names were dropped or created again.     *)
(*                                                                         *)
(* A row of an INSERT is known by its width and by what each stage says    *)
(* about it: `bind' (binding and coercion of its values), `eval' (their    *)
(* evaluation), `encode' (the tuple codec), `store' (the heap's Insert).   *)
(* A tuple is the row together with the schema it was encoded with.        *)
(***************************************************************************)
EXTENDS TableStorage, SequencesExt

CONSTANTS Statements,      \* the statements callers run or prepare
          Transactions,    \* [mode, state] of the transactions they pass
          TableRequests,   \* what they pass to Catalog::CreateTable
          IndexRequests,   \* what they pass to Catalog::CreateIndex
          RowLists,        \* the rows of plans they build themselves
          MaxTableId, MaxIndexId, MaxTuples  \* bounds of the model

(* The statuses that binding, execution, catalog and storage come up with. *)
Statuses ==
  {"Ok", "ParseError", "BindError", "TypeMismatch", "AlreadyExists", "NotFound",
   "InvalidArgument", "TransactionConflict", "ExecutionError", "Internal",
   "Corruption"}

TypedRow(row) == {row.bind, row.eval, row.encode, row.store} \subseteq Statuses

ASSUME InputsAssumption ==
  /\ MaxTableId \in Nat /\ MaxIndexId \in Nat
  /\ \A statement \in Statements :
       /\ statement.op \in {"Unparsable", "CreateTable", "Insert", "Select"}
       /\ statement.op = "Insert" => TypedRow(statement.row)
  /\ \A rows \in RowLists :
       /\ rows \in Seq({rows[i] : i \in DOMAIN rows})
       /\ \A i \in DOMAIN rows : TypedRow(rows[i])

VARIABLES cat, storage,
          plan,    \* a physical plan a caller holds
          result   \* what the last call returned

vars == <<cat, storage, plan, result>>

NoPlan == [op |-> "None"]

(* The entry point that was called and what it returned; of a call that    *)
(* succeeded also which operation it was and on which table.               *)
Returned(via, op, key, status, rows) ==
  [via    |-> via,
   op     |-> IF status = "Ok" THEN op ELSE "None",
   key    |-> IF status = "Ok" THEN key ELSE "",
   status |-> status,
   rows   |-> rows]

Init ==
  /\ cat = EmptyCatalog
  /\ storage = EmptyStorage
  /\ plan = NoPlan
  /\ result = Returned("None", "None", "", "Ok", EmptyBag)

-----------------------------------------------------------------------------
(* Parsing, binding and planning.  A statement is [op, name], with the     *)
(* columns of a CREATE TABLE and the row of an INSERT.                     *)

StatementKey(statement) == FoldIdentifierKey(statement.name)

BindColumnStatus(columns, i) ==
  IF TooManyColumns(i) \/ IsEmpty(columns[i].name) \/ DuplicateColumn(columns, i)
  THEN "BindError" ELSE "Ok"

bind_create_table(c, statement) ==
  IF IsEmpty(statement.name) \/ statement.columns = << >> THEN "BindError"
  ELSE IF GetTable(c, statement.name).status = "Ok" THEN "AlreadyExists"
  ELSE FirstFailure(LAMBDA i : BindColumnStatus(statement.columns, i),
                    Len(statement.columns))

bind_insert(c, statement) ==
  LET table == GetTable(c, statement.name)
  IN IF table.status # "Ok" THEN table.status
     ELSE IF statement.row.width # Len(table.value.columns) THEN "BindError"
     ELSE statement.row.bind

bind_select(c, statement) == GetTable(c, statement.name).status

Bind(c, statement) ==
  CASE statement.op = "Unparsable"  -> "ParseError"
    [] statement.op = "CreateTable" -> bind_create_table(c, statement)
    [] statement.op = "Insert"      -> bind_insert(c, statement)
    [] statement.op = "Select"      -> bind_select(c, statement)

make_table_storage_reference(table) ==
  [table_id |-> table.id, root_page_id |-> table.heap_root_page_id]

PhysicalCreateTable(request) == [op |-> "CreateTable", request |-> request]

PhysicalInsert(table, rows) ==
  [op |-> "Insert", table |-> table, rows |-> rows,
   storage |-> make_table_storage_reference(table)]

PhysicalSeqScan(table) ==
  [op |-> "Select", table |-> table,
   storage |-> make_table_storage_reference(table)]

(* The physical plan of a statement that was bound.                        *)
Plan(c, statement) ==
  CASE statement.op = "CreateTable" ->
         PhysicalCreateTable([name |-> statement.name, columns |-> statement.columns])
    [] statement.op = "Insert" ->
         PhysicalInsert(GetTable(c, statement.name).value, <<statement.row>>)
    [] statement.op = "Select" ->
         PhysicalSeqScan(GetTable(c, statement.name).value)

-----------------------------------------------------------------------------
(* Execution: the status, the catalog and storage after it, and the rows.  *)

Outcome(status, c, st, rows) ==
  [status |-> status, cat |-> c, storage |-> st, rows |-> rows]

require_active(txn) ==
  IF txn.state = "Active" THEN "Ok" ELSE "TransactionConflict"

require_writable(txn) ==
  IF require_active(txn) = "Ok" /\ txn.mode = "ReadWrite" THEN "Ok"
  ELSE "TransactionConflict"

(* Mutant: no rollback of the catalog when there is no heap.               *)
execute_create_table_NoRollback(p, c, st, txn) ==
  LET table == CreateTable(c, p.request)
      heap  == CreateHeap(st, table.value.id)
      root  == SetTableHeapRoot(table.cat, table.value.id, heap.root_page_id)
  IN IF require_writable(txn) # "Ok"
     THEN Outcome(require_writable(txn), c, st, EmptyBag)
     ELSE IF table.status # "Ok"
     THEN Outcome(table.status, table.cat, st, EmptyBag)
     ELSE IF heap.status # "Ok"
     THEN Outcome(heap.status, table.cat, st, EmptyBag)
     ELSE Outcome(root.status, root.cat, heap.storage, EmptyBag)

execute_create_table(p, c, st, txn) ==
  LET table == CreateTable(c, p.request)
      heap  == CreateHeap(st, table.value.id)
      root  == SetTableHeapRoot(table.cat, table.value.id, heap.root_page_id)
  IN IF require_writable(txn) # "Ok"
     THEN Outcome(require_writable(txn), c, st, EmptyBag)
     ELSE IF table.status # "Ok"
     THEN Outcome(table.status, table.cat, st, EmptyBag)
     ELSE IF heap.status # "Ok"
     THEN Outcome(heap.status, DropTable(table.cat, table.value.name).cat, st, EmptyBag)
     ELSE IF root.status # "Ok"
     THEN Outcome(root.status, DropTable(table.cat, table.value.name).cat,
                  heap.storage, EmptyBag)
     ELSE Outcome("Ok", root.cat, heap.storage, EmptyBag)

execute_values(rows) == FirstFailure(LAMBDA i : rows[i].eval, Len(rows))

Encode(columns, row) == [columns |-> columns, row |-> row]

InsertRowStatus(table, row) ==
  IF row.width # Len(table.columns) THEN "ExecutionError"
  ELSE IF row.encode # "Ok" THEN row.encode
  ELSE row.store

(* The tuples of the rows before the first one that fails: the loop stops  *)
(* there and leaves them in the heap.                                      *)
StoredTuples(table, rows) ==
  LET stop == StopsAt(LAMBDA i : InsertRowStatus(table, rows[i]), Len(rows))
  IN [i \in 1 .. stop - 1 |-> Encode(table.columns, rows[i])]

execute_insert(p, c, st, txn) ==
  IF require_writable(txn) # "Ok"
  THEN Outcome(require_writable(txn), c, st, EmptyBag)
  ELSE IF execute_values(p.rows) # "Ok"
  THEN Outcome(execute_values(p.rows), c, st, EmptyBag)
  ELSE IF OpenHeap(st, p.storage) # "Ok"
  THEN Outcome(OpenHeap(st, p.storage), c, st, EmptyBag)
  ELSE Outcome(FirstFailure(LAMBDA i : InsertRowStatus(p.table, p.rows[i]),
                            Len(p.rows)),
               c,
               AddTuples(st, p.storage.table_id, ToBag(StoredTuples(p.table, p.rows))),
               EmptyBag)

(* Decoding succeeds for certain only with the schema of the encoding.     *)
Decodes(columns, tuple) == tuple.columns = columns

(* The rows of a bag of tuples, each as often as tuples hold it.           *)
RowsOf(tuples) ==
  LET copies == UNION {{tuple} \X (1 .. tuples[tuple]) : tuple \in DOMAIN tuples}
  IN [row \in {tuple.row : tuple \in DOMAIN tuples} |->
        Cardinality({copy \in copies : copy[1].row = row})]

execute_seq_scan(p, c, st) ==
  IF OpenHeap(st, p.storage) # "Ok"
  THEN Outcome(OpenHeap(st, p.storage), c, st, EmptyBag)
  ELSE LET tuples == st.tables[p.storage.table_id].tuples
       IN IF \E tuple \in BagToSet(tuples) : ~Decodes(p.table.columns, tuple)
          THEN Outcome("Corruption", c, st, EmptyBag)
          ELSE Outcome("Ok", c, st, RowsOf(tuples))

Execute(p, c, st, txn) ==
  IF require_active(txn) # "Ok"
  THEN Outcome(require_active(txn), c, st, EmptyBag)
  ELSE CASE p.op = "CreateTable" -> execute_create_table(p, c, st, txn)
         [] p.op = "Insert"      -> execute_insert(p, c, st, txn)
         [] p.op = "Select"      -> execute_seq_scan(p, c, st)

-----------------------------------------------------------------------------
(* The calls.                                                              *)

(* The bounds of the model on catalog and storage.                         *)
WithinBounds(c, st) ==
  /\ c.next_table_id <= MaxTableId + 1
  /\ c.next_index_id <= MaxIndexId + 1
  /\ SumFunction([id \in DOMAIN st.tables |->
                    BagCardinality(st.tables[id].tuples)]) <= MaxTuples

ExecuteSql(statement, txn) ==
  LET bound  == Bind(cat, statement)
      failed == Outcome(bound, cat, storage, EmptyBag)
      out    == IF bound # "Ok" THEN failed
                ELSE Execute(Plan(cat, statement), cat, storage, txn)
  IN /\ WithinBounds(out.cat, out.storage)
     /\ cat' = out.cat
     /\ storage' = out.storage
     /\ result' = Returned("Sql", statement.op, StatementKey(statement),
                           out.status, out.rows)
     /\ UNCHANGED plan

Prepare(statement) ==
  LET bound == Bind(cat, statement)
  IN /\ plan' = IF bound = "Ok" THEN Plan(cat, statement) ELSE plan
     /\ result' = Returned("Planner", statement.op, StatementKey(statement),
                           bound, EmptyBag)
     /\ UNCHANGED <<cat, storage>>

(* A caller puts an INSERT plan together itself, for a table it looked up. *)
BuildInsert(key, rows) ==
  /\ plan' = PhysicalInsert(cat.tables_by_name[key], rows)
  /\ result' = Returned("Planner", "Insert", key, "Ok", EmptyBag)
  /\ UNCHANGED <<cat, storage>>

PlanKey(p) ==
  FoldIdentifierKey(IF p.op = "CreateTable" THEN p.request.name ELSE p.table.name)

ExecutePlan(txn) ==
  /\ plan # NoPlan
  /\ LET out == Execute(plan, cat, storage, txn)
     IN /\ WithinBounds(out.cat, out.storage)
        /\ cat' = out.cat
        /\ storage' = out.storage
        /\ result' = Returned("Plan", plan.op, PlanKey(plan), out.status, out.rows)
  /\ UNCHANGED plan

CatalogCall(op, key, r) ==
  /\ WithinBounds(r.cat, storage)
  /\ cat' = r.cat
  /\ result' = Returned("Catalog", op, key, r.status, EmptyBag)
  /\ UNCHANGED <<storage, plan>>

CatalogCreateTable(request) ==
  CatalogCall("CreateTable", FoldIdentifierKey(request.name),
              CreateTable(cat, request))

CatalogDropTable(name) ==
  CatalogCall("DropTable", FoldIdentifierKey(name), DropTable(cat, name))

CatalogCreateIndex(request) ==
  CatalogCall("CreateIndex", FoldIdentifierKey(request.table_name),
              CreateIndex(cat, request))

(* Callers set the root page of the table's heap, as TableInfo demands, or *)
(* forget that there is none.                                              *)
CatalogSetTableHeapRoot(id, root_page_id) ==
  /\ \/ root_page_id = kInvalidPageId
     \/ /\ id \in DOMAIN storage.tables
        /\ root_page_id = storage.tables[id].root_page_id
  /\ CatalogCall("SetTableHeapRoot", "", SetTableHeapRoot(cat, id, root_page_id))

(* Callers pass a TableInfo the catalog gave them, perhaps long ago.       *)
StorageCreateHeap(id) ==
  LET heap == CreateHeap(storage, id)
  IN /\ id < cat.next_table_id
     /\ storage' = heap.storage
     /\ result' = Returned("Storage", "CreateHeap", "", heap.status, EmptyBag)
     /\ UNCHANGED <<cat, plan>>

TableNames == {statement.name : statement \in Statements}

Next ==
  \/ \E statement \in Statements :
       Prepare(statement) \/ \E txn \in Transactions : ExecuteSql(statement, txn)
  \/ \E key \in DOMAIN cat.tables_by_name, rows \in RowLists : BuildInsert(key, rows)
  \/ \E txn \in Transactions : ExecutePlan(txn)
  \/ \E request \in TableRequests : CatalogCreateTable(request)
  \/ \E name \in TableNames : CatalogDropTable(name)
  \/ \E request \in IndexRequests : CatalogCreateIndex(request)
  \/ \E id \in 1 .. MaxTableId, root \in 1 .. kInvalidPageId :
       CatalogSetTableHeapRoot(id, root)
  \/ \E id \in 1 .. MaxTableId : StorageCreateHeap(id)

Spec == Init /\ [][Next]_vars

-----------------------------------------------------------------------------
(* Properties.                                                             *)

(* Ids, root pages and the result stay in their ranges.                    *)
TypeOK ==
  /\ cat.next_table_id \in 1 .. MaxTableId + 1
  /\ cat.next_index_id \in 1 .. MaxIndexId + 1
  /\ DOMAIN cat.table_names_by_id \subseteq 1 .. MaxTableId
  /\ DOMAIN cat.index_keys_by_id \subseteq 1 .. MaxIndexId
  /\ storage.next_root_page_id \in 1 .. kInvalidPageId
  /\ DOMAIN storage.tables \subseteq 1 .. MaxTableId
  /\ \A id \in DOMAIN storage.tables : IsABag(storage.tables[id].tuples)
  /\ result.status \in Statuses

(* The four maps of the catalog describe the same tables and indexes,      *)
(* whatever was created, dropped, re-created and rolled back: names and    *)
(* ids are inverse; a table's own list of indexes, the index map of its    *)
(* name and the map of index ids agree; nothing outlives its table; and no *)
(* id in use will be allocated again.                                      *)
CatalogConsistent ==
  LET tables == cat.tables_by_name
      Indexes(key) == IndexesOf(cat, key)
  IN /\ \A key \in DOMAIN tables :
          /\ FoldIdentifierKey(tables[key].name) = key
          /\ tables[key].id < cat.next_table_id
          /\ tables[key].id \in DOMAIN cat.table_names_by_id
          /\ cat.table_names_by_id[tables[key].id] = key
          /\ ToSet(tables[key].indexes) = Range(Indexes(key))
          /\ \A index \in Range(Indexes(key)) : index.table_id = tables[key].id
     /\ Range(cat.table_names_by_id) \subseteq DOMAIN tables
     /\ DOMAIN cat.indexes_by_table_name \subseteq DOMAIN tables
     /\ \A id \in DOMAIN cat.index_keys_by_id :
          LET keys == cat.index_keys_by_id[id]
          IN /\ id < cat.next_index_id
             /\ keys[1] \in DOMAIN tables
             /\ keys[2] \in DOMAIN Indexes(keys[1])
             /\ Indexes(keys[1])[keys[2]].id = id
     /\ \A key \in DOMAIN tables : \A index \in Range(Indexes(key)) :
          index.id \in DOMAIN cat.index_keys_by_id

(* Every root page the catalog or a plan names is the root of that table's *)
(* heap, and no two heaps share one: a plan made while its table had       *)
(* storage can be executed whatever was dropped, created again or failed   *)
(* since, and OpenHeap's mismatch check only ever meets a root that had    *)
(* not been recorded.                                                      *)
RootsResolve ==
  LET Resolves(reference) ==
        reference.root_page_id # kInvalidPageId
          => OpenHeap(storage, reference) = "Ok"
  IN /\ \A key \in DOMAIN cat.tables_by_name :
          Resolves(make_table_storage_reference(cat.tables_by_name[key]))
     /\ plan # NoPlan /\ plan.op # "CreateTable" => Resolves(plan.storage)
     /\ \A a, b \in DOMAIN storage.tables :
          storage.tables[a].root_page_id = storage.tables[b].root_page_id => a = b

(* The tuples of a heap were all encoded with the schema that the catalog, *)
(* and any plan however old, uses for that table, so that a scan never     *)
(* meets a tuple it cannot decode.                                         *)
TuplesDecode ==
  LET Decodable(table) ==
        table.id \in DOMAIN storage.tables =>
          \A tuple \in BagToSet(storage.tables[table.id].tuples) :
             Decodes(table.columns, tuple)
  IN /\ \A key \in DOMAIN cat.tables_by_name : Decodable(cat.tables_by_name[key])
     /\ plan # NoPlan /\ plan.op # "CreateTable" => Decodable(plan.table)

(* A call that reports an error leaves catalog and storage as they were,   *)
(* with two exceptions: a CREATE TABLE rolled back because it got no heap  *)
(* has used up a table id, and an INSERT plan of several rows keeps those  *)
(* before the failing one.  A failed Catalog::CreateTable uses up no id    *)
(* ("failed requests do not leave holes", in_memory_catalog.cpp).          *)
FailureAtomic ==
  [][result'.status # "Ok" =>
       /\ [cat' EXCEPT !.next_table_id = 0] = [cat EXCEPT !.next_table_id = 0]
       /\ cat'.next_table_id # cat.next_table_id => result'.status = "Internal"
       /\ storage' # storage => result'.via = "Plan" /\ Len(plan.rows) > 1]_vars

NoTable == 0

Store == INSTANCE TableStore WITH
  names    <- [key \in DOMAIN cat.tables_by_name |-> cat.tables_by_name[key].id],
  contents <- [id \in DOMAIN storage.tables |-> RowsOf(storage.tables[id].tuples)],
  issued   <- 1 .. cat.next_table_id - 1,
  prepared <- IF plan.op \in {"Insert", "Select"} THEN plan.table.id ELSE NoTable,
  pending  <- IF plan.op = "Insert" THEN plan.rows ELSE << >>,
  Rows     <- {s.row : s \in {t \in Statements : t.op = "Insert"}}

(* The engine implements the table store: see TableStore.                  *)
StoreSpec == Store!Spec

=============================================================================
