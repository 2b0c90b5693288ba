-------------------------- MODULE SqlEngineProofs --------------------------
(***************************************************************************)
(* Theorems about SqlEngine, its catalog and its table storage, for every  *)
(* set of statements, requests, transactions and rows, and for every       *)
(* invalid page id.  The first part is about catalogs, the second about    *)
(* storage, both without time; the third is about the engine's steps, and  *)
(* the last shows that it implements TableStore.                           *)
(***************************************************************************)
EXTENDS SqlEngine, FiniteSetTheorems, WellFoundedInduction, TLAPS

IsMap(f) == f = [x \in DOMAIN f |-> f[x]]

(* A TableInfo.                                                            *)
TableRecord(table) ==
  /\ table = [id |-> table.id, name |-> table.name, columns |-> table.columns,
              heap_root_page_id |-> table.heap_root_page_id,
              indexes |-> table.indexes]
  /\ table.id \in Nat \ {0}
  /\ table.indexes \in Seq(ToSet(table.indexes))

(* The catalog with these members.                                         *)
Members(a, b, tables, names, keys, indexes) ==
  [next_table_id |-> a, next_index_id |-> b, tables_by_name |-> tables,
   table_names_by_id |-> names, index_keys_by_id |-> keys,
   indexes_by_table_name |-> indexes]

(* What is known of the catalog's members one by one.                      *)
CatalogTyped(c) ==
  /\ c = Members(c.next_table_id, c.next_index_id, c.tables_by_name,
                 c.table_names_by_id, c.index_keys_by_id, c.indexes_by_table_name)
  /\ c.next_table_id \in Nat \ {0} /\ c.next_index_id \in Nat \ {0}
  /\ IsMap(c.tables_by_name) /\ IsMap(c.table_names_by_id)
  /\ IsMap(c.index_keys_by_id) /\ IsMap(c.indexes_by_table_name)
  /\ \A key \in DOMAIN c.tables_by_name : TableRecord(c.tables_by_name[key])
  /\ \A key \in DOMAIN c.indexes_by_table_name : IsMap(c.indexes_by_table_name[key])

(* Names and table ids are inverse to each other.                          *)
TablesAgree(c) ==
  /\ \A key \in DOMAIN c.tables_by_name :
       /\ FoldIdentifierKey(c.tables_by_name[key].name) = key
       /\ c.tables_by_name[key].id < c.next_table_id
       /\ c.tables_by_name[key].id \in DOMAIN c.table_names_by_id
       /\ c.table_names_by_id[c.tables_by_name[key].id] = key
  /\ \A id \in DOMAIN c.table_names_by_id :
       /\ c.table_names_by_id[id] \in DOMAIN c.tables_by_name
       /\ c.tables_by_name[c.table_names_by_id[id]].id = id

(* So are index names and index ids; and an index is listed by its table.  *)
IndexesAgree(c) ==
  /\ DOMAIN c.indexes_by_table_name \subseteq DOMAIN c.tables_by_name
  /\ \A key \in DOMAIN c.tables_by_name :
       /\ ToSet(c.tables_by_name[key].indexes) = Range(IndexesOf(c, key))
       /\ \A name \in DOMAIN IndexesOf(c, key) :
            /\ IndexesOf(c, key)[name].table_id = c.tables_by_name[key].id
            /\ IndexesOf(c, key)[name].id \in DOMAIN c.index_keys_by_id
            /\ c.index_keys_by_id[IndexesOf(c, key)[name].id] = <<key, name>>
  /\ \A id \in DOMAIN c.index_keys_by_id :
       /\ id \in Nat \ {0} /\ id < c.next_index_id
       /\ \E key \in DOMAIN c.tables_by_name :
            \E name \in DOMAIN IndexesOf(c, key) :
              /\ c.index_keys_by_id[id] = <<key, name>>
              /\ IndexesOf(c, key)[name].id = id

GoodCatalog(c) == CatalogTyped(c) /\ TablesAgree(c) /\ IndexesAgree(c)

(* What does not touch names and ids of tables keeps them in agreement.    *)
LEMMA SameTablesAgree ==
  ASSUME NEW c, TablesAgree(c), NEW d,
         DOMAIN d.tables_by_name = DOMAIN c.tables_by_name,
         d.table_names_by_id = c.table_names_by_id,
         d.next_table_id = c.next_table_id,
         \A k \in DOMAIN c.tables_by_name :
           /\ d.tables_by_name[k].id = c.tables_by_name[k].id
           /\ d.tables_by_name[k].name = c.tables_by_name[k].name
  PROVE  TablesAgree(d)
<1>1. ASSUME NEW key \in DOMAIN d.tables_by_name
      PROVE  /\ FoldIdentifierKey(d.tables_by_name[key].name) = key
             /\ d.tables_by_name[key].id < d.next_table_id
             /\ d.tables_by_name[key].id \in DOMAIN d.table_names_by_id
             /\ d.table_names_by_id[d.tables_by_name[key].id] = key
  <2>1. /\ key \in DOMAIN c.tables_by_name
        /\ d.tables_by_name[key].id = c.tables_by_name[key].id
        /\ d.tables_by_name[key].name = c.tables_by_name[key].name
    OBVIOUS
  <2>. QED
    BY <2>1 DEF TablesAgree
<1>2. ASSUME NEW id \in DOMAIN d.table_names_by_id
      PROVE  /\ d.table_names_by_id[id] \in DOMAIN d.tables_by_name
             /\ d.tables_by_name[d.table_names_by_id[id]].id = id
  BY DEF TablesAgree
<1>. QED
  BY <1>1, <1>2 DEF TablesAgree

-----------------------------------------------------------------------------
(* CreateTable.                                                            *)

NewTable(c, request) ==
  [id |-> c.next_table_id, name |-> request.name, columns |-> request.columns,
   heap_root_page_id |-> kInvalidPageId, indexes |-> << >>]

WithTable(c, request) ==
  Members(c.next_table_id + 1, c.next_index_id,
          Put(c.tables_by_name, FoldIdentifierKey(request.name), NewTable(c, request)),
          Put(c.table_names_by_id, c.next_table_id, FoldIdentifierKey(request.name)),
          c.index_keys_by_id, c.indexes_by_table_name)

(* The ids of tables are below the next one.                               *)
LEMMA TableIdsIssued ==
  ASSUME NEW c, GoodCatalog(c), NEW id \in DOMAIN c.table_names_by_id
  PROVE  id \in Nat \ {0} /\ id < c.next_table_id
<1>. DEFINE key == c.table_names_by_id[id]
<1>1. key \in DOMAIN c.tables_by_name /\ c.tables_by_name[key].id = id
  BY DEF GoodCatalog, TablesAgree
<1>2. c.tables_by_name[key].id < c.next_table_id
  BY <1>1 DEF GoodCatalog, TablesAgree
<1>3. c.tables_by_name[key].id \in Nat \ {0}
  BY <1>1 DEF GoodCatalog, CatalogTyped, TableRecord
<1>. QED
  BY <1>1, <1>2, <1>3

(* CreateTable either fails and changes nothing, or stores a table under   *)
(* a name and an id that were free.                                        *)
LEMMA CreateTableExact ==
  ASSUME NEW c, GoodCatalog(c), NEW request
  PROVE  \/ /\ CreateTable(c, request).status # "Ok"
            /\ CreateTable(c, request).status = CreateTableStatus(c, request)
            /\ CreateTable(c, request).cat = c
         \/ /\ CreateTable(c, request).status = "Ok"
            /\ CreateTable(c, request).cat = WithTable(c, request)
            /\ CreateTable(c, request).value = NewTable(c, request)
            /\ FoldIdentifierKey(request.name) \notin DOMAIN c.tables_by_name
<1>. DEFINE key == FoldIdentifierKey(request.name)
            d == [c EXCEPT !.next_table_id = @ + 1]
<1>1. CASE CreateTableStatus(c, request) # "Ok"
  BY <1>1 DEF CreateTable, CatalogError, CatalogResult
<1>2. CASE CreateTableStatus(c, request) = "Ok"
  <2>1. key \notin DOMAIN c.tables_by_name
    BY <1>2 DEF CreateTableStatus, LoadTable, CatalogResult
  <2>2. c.next_table_id \notin DOMAIN c.table_names_by_id
    BY TableIdsIssued DEF GoodCatalog, CatalogTyped
  <2>3. d = Members(c.next_table_id + 1, c.next_index_id, c.tables_by_name,
                    c.table_names_by_id, c.index_keys_by_id, c.indexes_by_table_name)
    BY DEF GoodCatalog, CatalogTyped, Members
  <2>4. CreateTable(c, request) = StoreTable(d, key, NewTable(c, request))
    BY <1>2 DEF CreateTable, NewTable
  <2>5. NewTable(c, request).id = c.next_table_id
    BY DEF NewTable
  <2>. DEFINE names == Put(c.table_names_by_id, c.next_table_id, key)
              tables == Put(c.tables_by_name, key, NewTable(c, request))
  <2>. HIDE DEF d
  <2>6. /\ d.tables_by_name = c.tables_by_name
        /\ d.table_names_by_id = c.table_names_by_id
    BY <2>3 DEF Members
  <2>7. StoreTable(d, key, NewTable(c, request)) =
          CatalogResult("Ok",
            [d EXCEPT !.table_names_by_id = names, !.tables_by_name = tables],
            NewTable(c, request))
    BY <2>1, <2>2, <2>5, <2>6 DEF StoreTable
  <2>8. WithTable(c, request) =
          Members(c.next_table_id + 1, c.next_index_id, tables, names,
                  c.index_keys_by_id, c.indexes_by_table_name)
    BY DEF WithTable
  <2>. HIDE DEF names, tables, key
  <2>9. [d EXCEPT !.table_names_by_id = names, !.tables_by_name = tables] =
        WithTable(c, request)
    <3>. DEFINE next == c.next_table_id + 1
                e == [d EXCEPT !.table_names_by_id = names]
    <3>. HIDE DEF next
    <3>1. e = Members(next, c.next_index_id, c.tables_by_name, names,
                      c.index_keys_by_id, c.indexes_by_table_name)
      BY <2>3 DEF Members, next
    <3>. HIDE DEF e
    <3>2. [e EXCEPT !.tables_by_name = tables] =
            Members(next, c.next_index_id, tables, names,
                    c.index_keys_by_id, c.indexes_by_table_name)
      BY <3>1 DEF Members
    <3>. QED
      BY <2>8, <3>2 DEF e, next
  <2>. QED
    BY <2>1, <2>4, <2>7, <2>9 DEF CatalogResult, key
<1>. QED
  BY <1>1, <1>2

(* A catalog with one more table is consistent.                            *)
LEMMA WithTableGood ==
  ASSUME NEW c, GoodCatalog(c), NEW request,
         FoldIdentifierKey(request.name) \notin DOMAIN c.tables_by_name
  PROVE  GoodCatalog(WithTable(c, request))
<1>. DEFINE key == FoldIdentifierKey(request.name)
            n == c.next_table_id
            d == WithTable(c, request)
            T == c.tables_by_name
            N == c.table_names_by_id
            t == NewTable(c, request)
<1>1. /\ d.next_table_id = n + 1 /\ d.next_index_id = c.next_index_id
      /\ d.tables_by_name = Put(T, key, t) /\ d.table_names_by_id = Put(N, n, key)
      /\ d.index_keys_by_id = c.index_keys_by_id
      /\ d.indexes_by_table_name = c.indexes_by_table_name
      /\ d = Members(d.next_table_id, d.next_index_id, d.tables_by_name,
                     d.table_names_by_id, d.index_keys_by_id, d.indexes_by_table_name)
  BY DEF WithTable, Members
<1>2. /\ t.id = n /\ t.name = request.name /\ t.indexes = << >>
      /\ ToSet(t.indexes) = {}
      /\ t.indexes \in Seq(ToSet(t.indexes))
      /\ t = [id |-> t.id, name |-> t.name, columns |-> t.columns,
              heap_root_page_id |-> t.heap_root_page_id, indexes |-> t.indexes]
  BY DEF NewTable, ToSet
<1>3. /\ n \in Nat \ {0} /\ n \notin DOMAIN N
      /\ \A k \in DOMAIN T : T[k].id \in Nat /\ T[k].id < n
      /\ key \notin DOMAIN T
  BY TableIdsIssued, SMTT(30) DEF GoodCatalog, CatalogTyped, TablesAgree, TableRecord
<1>. HIDE DEF d, t
<1>4. /\ IsMap(d.tables_by_name) /\ IsMap(d.table_names_by_id)
      /\ DOMAIN d.tables_by_name = DOMAIN T \cup {key}
      /\ d.tables_by_name[key] = t
      /\ \A k \in DOMAIN T : d.tables_by_name[k] = T[k]
      /\ DOMAIN d.table_names_by_id = DOMAIN N \cup {n}
      /\ d.table_names_by_id[n] = key
      /\ \A id \in DOMAIN N : d.table_names_by_id[id] = N[id]
  <2>. HIDE DEF T, N, key, n
  <2>1. /\ IsMap(Put(T, key, t)) /\ DOMAIN Put(T, key, t) = DOMAIN T \cup {key}
        /\ Put(T, key, t)[key] = t
        /\ \A k \in DOMAIN T \ {key} : Put(T, key, t)[k] = T[k]
    BY DEF Put, IsMap
  <2>2. /\ IsMap(Put(N, n, key)) /\ DOMAIN Put(N, n, key) = DOMAIN N \cup {n}
        /\ Put(N, n, key)[n] = key
        /\ \A id \in DOMAIN N \ {n} : Put(N, n, key)[id] = N[id]
    BY DEF Put, IsMap
  <2>. QED
    BY <1>1, <1>3, <2>1, <2>2
<1>5. \A k : IndexesOf(d, k) = IndexesOf(c, k)
  BY <1>1 DEF IndexesOf
<1>6. CatalogTyped(d)
  <2>1. \A k \in DOMAIN d.tables_by_name : TableRecord(d.tables_by_name[k])
    <3>1. TableRecord(t)
      BY <1>2, <1>3 DEF TableRecord
    <3>. QED
      BY <1>4, <3>1 DEF GoodCatalog, CatalogTyped
  <2>2. d.next_table_id \in Nat \ {0} /\ d.next_index_id \in Nat \ {0}
    BY <1>1, <1>3 DEF GoodCatalog, CatalogTyped
  <2>3. /\ IsMap(d.index_keys_by_id) /\ IsMap(d.indexes_by_table_name)
        /\ \A k \in DOMAIN d.indexes_by_table_name : IsMap(d.indexes_by_table_name[k])
    BY <1>1 DEF GoodCatalog, CatalogTyped
  <2>. QED
    BY <1>1, <1>4, <2>1, <2>2, <2>3 DEF CatalogTyped
<1>7. TablesAgree(d)
  <2>1. ASSUME NEW k \in DOMAIN d.tables_by_name
        PROVE  /\ FoldIdentifierKey(d.tables_by_name[k].name) = k
               /\ d.tables_by_name[k].id < d.next_table_id
               /\ d.tables_by_name[k].id \in DOMAIN d.table_names_by_id
               /\ d.table_names_by_id[d.tables_by_name[k].id] = k
    <3>1. CASE k = key
      BY <1>1, <1>2, <1>3, <1>4, <3>1
    <3>2. CASE k \in DOMAIN T
      <4>1. /\ FoldIdentifierKey(T[k].name) = k /\ T[k].id \in DOMAIN N /\ N[T[k].id] = k
            /\ T[k].id \in Nat /\ T[k].id < n
        BY <1>3, <3>2 DEF GoodCatalog, TablesAgree
      <4>2. d.tables_by_name[k] = T[k] /\ d.table_names_by_id[T[k].id] = N[T[k].id]
        BY <1>4, <3>2, <4>1
      <4>. HIDE DEF T, N, n
      <4>. QED
        BY <1>1, <1>3, <1>4, <4>1, <4>2
    <3>. QED
      BY <1>4, <3>1, <3>2
  <2>2. ASSUME NEW id \in DOMAIN d.table_names_by_id
        PROVE  /\ d.table_names_by_id[id] \in DOMAIN d.tables_by_name
               /\ d.tables_by_name[d.table_names_by_id[id]].id = id
    <3>1. CASE id = n
      BY <1>2, <1>4, <3>1
    <3>2. CASE id \in DOMAIN N
      <4>1. N[id] \in DOMAIN T /\ T[N[id]].id = id
        BY <3>2 DEF GoodCatalog, TablesAgree
      <4>. QED
        BY <1>4, <3>2, <4>1
    <3>. QED
      BY <1>4, <3>1, <3>2
  <2>. QED
    BY <2>1, <2>2 DEF TablesAgree
<1>8. IndexesAgree(d)
  <2>1. DOMAIN IndexesOf(c, key) = {} /\ Range(IndexesOf(c, key)) = {}
    BY <1>3 DEF IndexesOf, GoodCatalog, IndexesAgree, Range
  <2>2. DOMAIN d.indexes_by_table_name \subseteq DOMAIN d.tables_by_name
    BY <1>1, <1>4 DEF GoodCatalog, IndexesAgree
  <2>3. ASSUME NEW k \in DOMAIN d.tables_by_name
        PROVE  /\ ToSet(d.tables_by_name[k].indexes) = Range(IndexesOf(d, k))
               /\ \A name \in DOMAIN IndexesOf(d, k) :
                    /\ IndexesOf(d, k)[name].table_id = d.tables_by_name[k].id
                    /\ IndexesOf(d, k)[name].id \in DOMAIN d.index_keys_by_id
                    /\ d.index_keys_by_id[IndexesOf(d, k)[name].id] = <<k, name>>
    <3>1. CASE k = key
      BY <1>2, <1>4, <1>5, <2>1, <3>1
    <3>2. CASE k \in DOMAIN T
      <4>1. /\ ToSet(T[k].indexes) = Range(IndexesOf(c, k))
            /\ \A name \in DOMAIN IndexesOf(c, k) :
                 /\ IndexesOf(c, k)[name].table_id = T[k].id
                 /\ IndexesOf(c, k)[name].id \in DOMAIN c.index_keys_by_id
                 /\ c.index_keys_by_id[IndexesOf(c, k)[name].id] = <<k, name>>
        BY <3>2 DEF GoodCatalog, IndexesAgree
      <4>2. /\ d.tables_by_name[k] = T[k] /\ IndexesOf(d, k) = IndexesOf(c, k)
            /\ d.index_keys_by_id = c.index_keys_by_id
        BY <1>1, <1>4, <1>5, <3>2
      <4>. HIDE DEF T
      <4>. QED
        BY <4>1, <4>2
    <3>. QED
      BY <1>4, <3>1, <3>2
  <2>4. ASSUME NEW id \in DOMAIN d.index_keys_by_id
        PROVE  /\ id \in Nat \ {0} /\ id < d.next_index_id
               /\ \E k \in DOMAIN d.tables_by_name :
                    \E name \in DOMAIN IndexesOf(d, k) :
                      /\ d.index_keys_by_id[id] = <<k, name>>
                      /\ IndexesOf(d, k)[name].id = id
    <3>1. /\ id \in Nat \ {0} /\ id < c.next_index_id
          /\ \E k \in DOMAIN T : \E name \in DOMAIN IndexesOf(c, k) :
               /\ c.index_keys_by_id[id] = <<k, name>>
               /\ IndexesOf(c, k)[name].id = id
      BY <1>1 DEF GoodCatalog, IndexesAgree
    <3>. QED
      BY <1>1, <1>4, <1>5, <3>1
  <2>. QED
    BY <2>2, <2>3, <2>4 DEF IndexesAgree
<1>. QED
  BY <1>6, <1>7, <1>8 DEF GoodCatalog, d

-----------------------------------------------------------------------------
(* DropTable.                                                              *)

WithoutTable(c, key) ==
  Members(c.next_table_id, c.next_index_id,
          Restrict(c.tables_by_name, DOMAIN c.tables_by_name \ {key}),
          Restrict(c.table_names_by_id,
                   DOMAIN c.table_names_by_id \ {c.tables_by_name[key].id}),
          Restrict(c.index_keys_by_id,
                   DOMAIN c.index_keys_by_id \ IndexIds(c.tables_by_name[key])),
          Restrict(c.indexes_by_table_name,
                   DOMAIN c.indexes_by_table_name \ {key}))

(* DropTable either finds no table, or takes it out of all four maps.      *)
LEMMA DropTableExact ==
  ASSUME NEW c, GoodCatalog(c), NEW name
  PROVE  \/ /\ DropTable(c, name).status = "NotFound"
            /\ DropTable(c, name).cat = c
            /\ FoldIdentifierKey(name) \notin DOMAIN c.tables_by_name
         \/ /\ DropTable(c, name).status = "Ok"
            /\ DropTable(c, name).cat = WithoutTable(c, FoldIdentifierKey(name))
            /\ FoldIdentifierKey(name) \in DOMAIN c.tables_by_name
<1>. DEFINE key == FoldIdentifierKey(name)
<1>1. CASE key \notin DOMAIN c.tables_by_name
  BY <1>1 DEF DropTable, EraseTable, CatalogError, CatalogResult
<1>2. CASE key \in DOMAIN c.tables_by_name
  <2>. DEFINE table == c.tables_by_name[key]
              a == c.next_table_id
              b == c.next_index_id
              tables == c.tables_by_name
              names == c.table_names_by_id
              keys == c.index_keys_by_id
              indexes == c.indexes_by_table_name
              t == Restrict(c.tables_by_name, DOMAIN c.tables_by_name \ {key})
              n == Restrict(c.table_names_by_id,
                            DOMAIN c.table_names_by_id \ {table.id})
              k == Restrict(c.index_keys_by_id,
                            DOMAIN c.index_keys_by_id \ IndexIds(table))
              i == Restrict(c.indexes_by_table_name,
                            DOMAIN c.indexes_by_table_name \ {key})
              c1 == [c EXCEPT !.table_names_by_id = n]
              c2 == [c1 EXCEPT !.index_keys_by_id = k]
              c3 == [c2 EXCEPT !.indexes_by_table_name = i]
              c4 == [c3 EXCEPT !.tables_by_name = t]
  <2>1. EraseTable(c, key) = CatalogResult("Ok", c4, << >>)
    BY <1>2 DEF EraseTable
  <2>2. WithoutTable(c, key) = Members(a, b, t, n, k, i)
    BY DEF WithoutTable
  <2>3. c = Members(a, b, tables, names, keys, indexes)
    BY DEF GoodCatalog, CatalogTyped
  <2>. HIDE DEF a, b, tables, names, keys, indexes, t, n, k, i
  <2>4. c1 = Members(a, b, tables, n, keys, indexes)
    BY <2>3 DEF Members
  <2>. HIDE DEF c1
  <2>5. c2 = Members(a, b, tables, n, k, indexes)
    BY <2>4 DEF Members
  <2>. HIDE DEF c2
  <2>6. c3 = Members(a, b, tables, n, k, i)
    BY <2>5 DEF Members
  <2>. HIDE DEF c3
  <2>7. c4 = Members(a, b, t, n, k, i)
    BY <2>6 DEF Members
  <2>. HIDE DEF c4
  <2>. QED
    BY <1>2, <2>1, <2>2, <2>7 DEF DropTable, CatalogResult
<1>. QED
  BY <1>1, <1>2

(* The indexes of a table, by its list and by its map, have ids that       *)
(* belong to that table only.                                              *)
LEMMA IndexIdsOwned ==
  ASSUME NEW c, GoodCatalog(c),
         NEW k1 \in DOMAIN c.tables_by_name, NEW k2 \in DOMAIN c.tables_by_name,
         NEW name \in DOMAIN IndexesOf(c, k1)
  PROVE  IndexesOf(c, k1)[name].id \in IndexIds(c.tables_by_name[k2]) <=> k1 = k2
<1>. DEFINE index == IndexesOf(c, k1)[name]
            list == c.tables_by_name[k2].indexes
<1>1. ToSet(list) = Range(IndexesOf(c, k2))
  BY DEF GoodCatalog, IndexesAgree
<1>2. ASSUME k1 = k2 PROVE index.id \in IndexIds(c.tables_by_name[k2])
  <2>1. index \in ToSet(list)
    BY <1>1, <1>2 DEF Range
  <2>. QED
    BY <2>1 DEF ToSet, IndexIds
<1>3. ASSUME index.id \in IndexIds(c.tables_by_name[k2]) PROVE k1 = k2
  <2>1. PICK j \in DOMAIN list : list[j].id = index.id
    BY <1>3 DEF IndexIds
  <2>2. list[j] \in ToSet(list)
    BY DEF ToSet
  <2>3. PICK other \in DOMAIN IndexesOf(c, k2) : list[j] = IndexesOf(c, k2)[other]
    BY <1>1, <2>2 DEF Range
  <2>4. /\ c.index_keys_by_id[index.id] = <<k1, name>>
        /\ c.index_keys_by_id[IndexesOf(c, k2)[other].id] = <<k2, other>>
    BY DEF GoodCatalog, IndexesAgree
  <2>. QED
    BY <2>1, <2>3, <2>4
<1>. QED
  BY <1>2, <1>3

(* A catalog with one table less is consistent.                            *)
LEMMA WithoutTableGood ==
  ASSUME NEW c, GoodCatalog(c), NEW key \in DOMAIN c.tables_by_name
  PROVE  GoodCatalog(WithoutTable(c, key))
<1>. DEFINE d == WithoutTable(c, key)
            T == c.tables_by_name
            N == c.table_names_by_id
            K == c.index_keys_by_id
            I == c.indexes_by_table_name
            gone == T[key].id
            ids == IndexIds(T[key])
<1>1. /\ d.next_table_id = c.next_table_id /\ d.next_index_id = c.next_index_id
      /\ d.tables_by_name = Restrict(T, DOMAIN T \ {key})
      /\ d.table_names_by_id = Restrict(N, DOMAIN N \ {gone})
      /\ d.index_keys_by_id = Restrict(K, DOMAIN K \ ids)
      /\ d.indexes_by_table_name = Restrict(I, DOMAIN I \ {key})
      /\ d = Members(d.next_table_id, d.next_index_id, d.tables_by_name,
                     d.table_names_by_id, d.index_keys_by_id, d.indexes_by_table_name)
  BY DEF WithoutTable, Members
<1>. HIDE DEF d
<1>2. /\ IsMap(d.tables_by_name) /\ DOMAIN d.tables_by_name = DOMAIN T \ {key}
      /\ \A k \in DOMAIN T \ {key} : d.tables_by_name[k] = T[k]
  BY <1>1 DEF Restrict, IsMap
<1>3. /\ IsMap(d.table_names_by_id) /\ DOMAIN d.table_names_by_id = DOMAIN N \ {gone}
      /\ \A id \in DOMAIN N \ {gone} : d.table_names_by_id[id] = N[id]
  BY <1>1 DEF Restrict, IsMap
<1>4. /\ IsMap(d.index_keys_by_id) /\ DOMAIN d.index_keys_by_id = DOMAIN K \ ids
      /\ \A id \in DOMAIN K \ ids : d.index_keys_by_id[id] = K[id]
  BY <1>1 DEF Restrict, IsMap
<1>5. /\ IsMap(d.indexes_by_table_name)
      /\ DOMAIN d.indexes_by_table_name = DOMAIN I \ {key}
      /\ \A k \in DOMAIN I \ {key} : d.indexes_by_table_name[k] = I[k]
  BY <1>1 DEF Restrict, IsMap
<1>6. \A k \in DOMAIN T \ {key} : IndexesOf(d, k) = IndexesOf(c, k)
  BY <1>5 DEF IndexesOf
<1>7. CatalogTyped(d)
  BY <1>1, <1>2, <1>3, <1>4, <1>5 DEF GoodCatalog, CatalogTyped
<1>8. TablesAgree(d)
  <2>1. ASSUME NEW k \in DOMAIN T \ {key}
        PROVE  /\ FoldIdentifierKey(T[k].name) = k /\ T[k].id < c.next_table_id
               /\ T[k].id \in DOMAIN N \ {gone} /\ N[T[k].id] = k
    BY DEF GoodCatalog, TablesAgree
  <2>2. ASSUME NEW id \in DOMAIN N \ {gone}
        PROVE  N[id] \in DOMAIN T \ {key} /\ T[N[id]].id = id
    BY DEF GoodCatalog, TablesAgree
  <2>3. ASSUME NEW k \in DOMAIN d.tables_by_name
        PROVE  /\ FoldIdentifierKey(d.tables_by_name[k].name) = k
               /\ d.tables_by_name[k].id < d.next_table_id
               /\ d.tables_by_name[k].id \in DOMAIN d.table_names_by_id
               /\ d.table_names_by_id[d.tables_by_name[k].id] = k
    <3>1. k \in DOMAIN T \ {key} /\ d.tables_by_name[k] = T[k]
      BY <1>2
    <3>2. d.tables_by_name[k].id < d.next_table_id
      BY <1>1, <2>1, <3>1
    <3>3. d.table_names_by_id[T[k].id] = N[T[k].id]
      BY <1>3, <2>1, <3>1
    <3>. QED
      BY <1>3, <2>1, <3>1, <3>2, <3>3
  <2>4. ASSUME NEW id \in DOMAIN d.table_names_by_id
        PROVE  /\ d.table_names_by_id[id] \in DOMAIN d.tables_by_name
               /\ d.tables_by_name[d.table_names_by_id[id]].id = id
    BY <1>2, <1>3, <2>2
  <2>. QED
    BY <2>3, <2>4 DEF TablesAgree
<1>9. IndexesAgree(d)
  <2>1. DOMAIN d.indexes_by_table_name \subseteq DOMAIN d.tables_by_name
    BY <1>2, <1>5 DEF GoodCatalog, IndexesAgree
  <2>2. ASSUME NEW k \in DOMAIN d.tables_by_name
        PROVE  /\ ToSet(d.tables_by_name[k].indexes) = Range(IndexesOf(d, k))
               /\ \A name \in DOMAIN IndexesOf(d, k) :
                    /\ IndexesOf(d, k)[name].table_id = d.tables_by_name[k].id
                    /\ IndexesOf(d, k)[name].id \in DOMAIN d.index_keys_by_id
                    /\ d.index_keys_by_id[IndexesOf(d, k)[name].id] = <<k, name>>
    <3>1. /\ k \in DOMAIN T \ {key} /\ d.tables_by_name[k] = T[k]
          /\ IndexesOf(d, k) = IndexesOf(c, k)
      BY <1>2, <1>6
    <3>2. ToSet(T[k].indexes) = Range(IndexesOf(c, k))
      BY <3>1 DEF GoodCatalog, IndexesAgree
    <3>3. ASSUME NEW name \in DOMAIN IndexesOf(c, k)
          PROVE  /\ IndexesOf(c, k)[name].table_id = T[k].id
                 /\ IndexesOf(c, k)[name].id \in DOMAIN K \ ids
                 /\ K[IndexesOf(c, k)[name].id] = <<k, name>>
      BY <3>1, IndexIdsOwned DEF GoodCatalog, IndexesAgree
    <3>. QED
      BY <1>4, <3>1, <3>2, <3>3
  <2>3. ASSUME NEW id \in DOMAIN d.index_keys_by_id
        PROVE  /\ id \in Nat \ {0} /\ id < d.next_index_id
               /\ \E k \in DOMAIN d.tables_by_name :
                    \E name \in DOMAIN IndexesOf(d, k) :
                      /\ d.index_keys_by_id[id] = <<k, name>>
                      /\ IndexesOf(d, k)[name].id = id
    <3>1. id \in DOMAIN K \ ids /\ d.index_keys_by_id[id] = K[id]
      BY <1>4
    <3>2. id \in Nat \ {0} /\ id < c.next_index_id
      BY <3>1 DEF GoodCatalog, IndexesAgree
    <3>3. PICK k \in DOMAIN T : \E name \in DOMAIN IndexesOf(c, k) :
                 K[id] = <<k, name>> /\ IndexesOf(c, k)[name].id = id
      BY <3>1 DEF GoodCatalog, IndexesAgree
    <3>4. PICK name \in DOMAIN IndexesOf(c, k) :
                 K[id] = <<k, name>> /\ IndexesOf(c, k)[name].id = id
      BY <3>3
    <3>5. k # key
      BY <3>1, <3>4, IndexIdsOwned
    <3>. QED
      BY <1>1, <1>2, <1>6, <3>1, <3>2, <3>4, <3>5
  <2>. QED
    BY <2>1, <2>2, <2>3 DEF IndexesAgree
<1>. QED
  BY <1>7, <1>8, <1>9 DEF GoodCatalog, d

-----------------------------------------------------------------------------
(* SetTableHeapRoot.                                                       *)

Rooted(table, root) ==
  [id |-> table.id, name |-> table.name, columns |-> table.columns,
   heap_root_page_id |-> root, indexes |-> table.indexes]

WithRoot(c, key, root) ==
  Members(c.next_table_id, c.next_index_id,
          [k \in DOMAIN c.tables_by_name |->
             IF k = key THEN Rooted(c.tables_by_name[k], root) ELSE c.tables_by_name[k]],
          c.table_names_by_id, c.index_keys_by_id, c.indexes_by_table_name)

(* SetTableHeapRoot either changes nothing, or records the root and        *)
(* nothing else.                                                           *)
LEMMA SetTableHeapRootExact ==
  ASSUME NEW c, GoodCatalog(c), NEW id, NEW root
  PROVE  \/ /\ SetTableHeapRoot(c, id, root).status \in {"InvalidArgument", "NotFound"}
            /\ SetTableHeapRoot(c, id, root).cat = c
            /\ root = kInvalidPageId \/ id \notin DOMAIN c.table_names_by_id
         \/ /\ SetTableHeapRoot(c, id, root).status = "Ok"
            /\ SetTableHeapRoot(c, id, root).cat =
                 WithRoot(c, c.table_names_by_id[id], root)
            /\ root # kInvalidPageId /\ id \in DOMAIN c.table_names_by_id
<1>1. CASE root = kInvalidPageId \/ id \notin DOMAIN c.table_names_by_id
  BY <1>1 DEF SetTableHeapRoot, LoadTableById, CatalogError, CatalogResult
<1>2. CASE root # kInvalidPageId /\ id \in DOMAIN c.table_names_by_id
  <2>. DEFINE key == c.table_names_by_id[id]
              table == c.tables_by_name[key]
              rooted == [table EXCEPT !.heap_root_page_id = root]
  <2>1. key \in DOMAIN c.tables_by_name /\ table.id = id
    BY <1>2 DEF GoodCatalog, TablesAgree
  <2>2. TableRecord(table)
    BY <2>1 DEF GoodCatalog, CatalogTyped
  <2>3. rooted = Rooted(table, root)
    BY <2>2 DEF TableRecord, Rooted
  <2>4. SetTableHeapRoot(c, id, root) = UpdateTable(c, rooted)
    BY <1>2 DEF SetTableHeapRoot, LoadTableById, CatalogResult
  <2>. HIDE DEF rooted
  <2>5. rooted.id = id /\ [rooted EXCEPT !.name = table.name] = Rooted(table, root)
    BY <2>1, <2>3 DEF Rooted
  <2>6. UpdateTable(c, rooted) =
          CatalogResult("Ok", [c EXCEPT !.tables_by_name[key] = Rooted(table, root)],
                        << >>)
    BY <1>2, <2>1, <2>5 DEF UpdateTable
  <2>. DEFINE t == [k \in DOMAIN c.tables_by_name |->
                      IF k = key THEN Rooted(c.tables_by_name[k], root)
                      ELSE c.tables_by_name[k]]
  <2>7. [c.tables_by_name EXCEPT ![key] = Rooted(table, root)] = t
    BY <2>1 DEF GoodCatalog, CatalogTyped, IsMap
  <2>8. [c EXCEPT !.tables_by_name[key] = Rooted(table, root)] =
          [c EXCEPT !.tables_by_name = t]
    BY <2>7
  <2>. HIDE DEF t
  <2>9. [c EXCEPT !.tables_by_name = t] =
          Members(c.next_table_id, c.next_index_id, t, c.table_names_by_id,
                  c.index_keys_by_id, c.indexes_by_table_name)
    BY DEF GoodCatalog, CatalogTyped, Members
  <2>10. WithRoot(c, key, root) =
          Members(c.next_table_id, c.next_index_id, t, c.table_names_by_id,
                  c.index_keys_by_id, c.indexes_by_table_name)
    BY DEF WithRoot, t
  <2>. QED
    BY <1>2, <2>4, <2>6, <2>8, <2>9, <2>10 DEF CatalogResult
<1>. QED
  BY <1>1, <1>2

(* A catalog in which a root was recorded is consistent.                   *)
LEMMA WithRootGood ==
  ASSUME NEW c, GoodCatalog(c), NEW key \in DOMAIN c.tables_by_name, NEW root
  PROVE  GoodCatalog(WithRoot(c, key, root))
<1>. DEFINE d == WithRoot(c, key, root)
            T == c.tables_by_name
<1>1. /\ d.next_table_id = c.next_table_id /\ d.next_index_id = c.next_index_id
      /\ d.tables_by_name = [k \in DOMAIN T |->
                               IF k = key THEN Rooted(T[k], root) ELSE T[k]]
      /\ d.table_names_by_id = c.table_names_by_id
      /\ d.index_keys_by_id = c.index_keys_by_id
      /\ d.indexes_by_table_name = c.indexes_by_table_name
      /\ d = Members(d.next_table_id, d.next_index_id, d.tables_by_name,
                     d.table_names_by_id, d.index_keys_by_id, d.indexes_by_table_name)
  BY DEF WithRoot, Members
<1>. HIDE DEF d
<1>2. IsMap(d.tables_by_name) /\ DOMAIN d.tables_by_name = DOMAIN T
  BY <1>1 DEF IsMap
<1>3. ASSUME NEW k \in DOMAIN T
      PROVE  /\ d.tables_by_name[k].id = T[k].id
             /\ d.tables_by_name[k].name = T[k].name
             /\ d.tables_by_name[k].columns = T[k].columns
             /\ d.tables_by_name[k].indexes = T[k].indexes
             /\ TableRecord(d.tables_by_name[k])
  <2>1. TableRecord(T[k])
    BY DEF GoodCatalog, CatalogTyped
  <2>2. /\ Rooted(T[k], root).id = T[k].id /\ Rooted(T[k], root).name = T[k].name
        /\ Rooted(T[k], root).columns = T[k].columns
        /\ Rooted(T[k], root).indexes = T[k].indexes
        /\ TableRecord(Rooted(T[k], root))
    BY <2>1 DEF TableRecord, Rooted
  <2>3. d.tables_by_name[k] = IF k = key THEN Rooted(T[k], root) ELSE T[k]
    BY <1>1
  <2>. QED
    BY <2>1, <2>2, <2>3
<1>4. \A k : IndexesOf(d, k) = IndexesOf(c, k)
  BY <1>1 DEF IndexesOf
<1>5. CatalogTyped(d)
  BY <1>1, <1>2, <1>3 DEF GoodCatalog, CatalogTyped
<1>6. TablesAgree(d)
  <2>1. \A k \in DOMAIN T : /\ d.tables_by_name[k].id = T[k].id
                            /\ d.tables_by_name[k].name = T[k].name
    BY <1>3
  <2>. QED
    BY <1>1, <1>2, <2>1, SameTablesAgree DEF GoodCatalog
<1>7. IndexesAgree(d)
  <2>1. DOMAIN d.indexes_by_table_name \subseteq DOMAIN d.tables_by_name
    BY <1>1, <1>2 DEF GoodCatalog, IndexesAgree
  <2>2. ASSUME NEW k \in DOMAIN d.tables_by_name
        PROVE  /\ ToSet(d.tables_by_name[k].indexes) = Range(IndexesOf(d, k))
               /\ \A name \in DOMAIN IndexesOf(d, k) :
                    /\ IndexesOf(d, k)[name].table_id = d.tables_by_name[k].id
                    /\ IndexesOf(d, k)[name].id \in DOMAIN d.index_keys_by_id
                    /\ d.index_keys_by_id[IndexesOf(d, k)[name].id] = <<k, name>>
    <3>1. /\ k \in DOMAIN T
          /\ ToSet(T[k].indexes) = Range(IndexesOf(c, k))
          /\ \A name \in DOMAIN IndexesOf(c, k) :
               /\ IndexesOf(c, k)[name].table_id = T[k].id
               /\ IndexesOf(c, k)[name].id \in DOMAIN c.index_keys_by_id
               /\ c.index_keys_by_id[IndexesOf(c, k)[name].id] = <<k, name>>
      BY <1>2 DEF GoodCatalog, IndexesAgree
    <3>2. /\ d.tables_by_name[k].id = T[k].id /\ d.tables_by_name[k].indexes = T[k].indexes
          /\ IndexesOf(d, k) = IndexesOf(c, k) /\ d.index_keys_by_id = c.index_keys_by_id
      BY <1>1, <1>3, <1>4, <3>1
    <3>. HIDE DEF T
    <3>. QED
      BY <3>1, <3>2
  <2>3. ASSUME NEW id \in DOMAIN d.index_keys_by_id
        PROVE  /\ id \in Nat \ {0} /\ id < d.next_index_id
               /\ \E k \in DOMAIN d.tables_by_name :
                    \E name \in DOMAIN IndexesOf(d, k) :
                      /\ d.index_keys_by_id[id] = <<k, name>>
                      /\ IndexesOf(d, k)[name].id = id
    <3>1. /\ id \in Nat \ {0} /\ id < c.next_index_id
          /\ \E k \in DOMAIN T : \E name \in DOMAIN IndexesOf(c, k) :
               /\ c.index_keys_by_id[id] = <<k, name>>
               /\ IndexesOf(c, k)[name].id = id
      BY <1>1 DEF GoodCatalog, IndexesAgree
    <3>. QED
      BY <1>1, <1>2, <1>4, <3>1
  <2>. QED
    BY <2>1, <2>2, <2>3 DEF IndexesAgree
<1>. QED
  BY <1>5, <1>6, <1>7 DEF GoodCatalog, d

-----------------------------------------------------------------------------
(* CreateIndex.                                                            *)

(* The new index of the request.                                           *)
NewIndex(c, request) ==
  [id |-> c.next_index_id, name |-> request.name,
   table_id |-> c.tables_by_name[FoldIdentifierKey(request.table_name)].id,
   key_columns |-> request.key_columns]

Indexed(table, index) ==
  [id |-> table.id, name |-> table.name, columns |-> table.columns,
   heap_root_page_id |-> table.heap_root_page_id,
   indexes |-> Append(table.indexes, index)]

WithIndex(c, key, name, index) ==
  Members(c.next_table_id, c.next_index_id + 1,
          [k \in DOMAIN c.tables_by_name |->
             IF k = key THEN Indexed(c.tables_by_name[k], index) ELSE c.tables_by_name[k]],
          c.table_names_by_id,
          Put(c.index_keys_by_id, index.id, <<key, name>>),
          Put(c.indexes_by_table_name, key, Put(IndexesOf(c, key), name, index)))

(* CreateIndex either fails and changes nothing, or stores an index under  *)
(* a name that the table had not and an id that was free.                  *)
LEMMA CreateIndexExact ==
  ASSUME NEW c, GoodCatalog(c), NEW request
  PROVE  LET key == FoldIdentifierKey(request.table_name)
             name == FoldIdentifierKey(request.name)
         IN \/ /\ CreateIndex(c, request).status # "Ok"
               /\ CreateIndex(c, request).status = CreateIndexStatus(c, request)
               /\ CreateIndex(c, request).cat = c
            \/ /\ CreateIndex(c, request).status = "Ok"
               /\ CreateIndex(c, request).cat =
                    WithIndex(c, key, name, NewIndex(c, request))
               /\ key \in DOMAIN c.tables_by_name
               /\ name \notin DOMAIN IndexesOf(c, key)
<1>. DEFINE key == FoldIdentifierKey(request.table_name)
            name == FoldIdentifierKey(request.name)
            index == NewIndex(c, request)
            d == [c EXCEPT !.next_index_id = @ + 1]
            T == c.tables_by_name
<1>1. CASE CreateIndexStatus(c, request) # "Ok"
  BY <1>1 DEF CreateIndex, CatalogError, CatalogResult
<1>2. CASE CreateIndexStatus(c, request) = "Ok"
  <2>1. key \in DOMAIN T /\ name \notin DOMAIN IndexesOf(c, key)
    BY <1>2 DEF CreateIndexStatus, LoadTable, LoadIndex, CatalogResult, CatalogError
  <2>2. CreateIndex(c, request) = StoreIndex(d, key, name, index)
    BY <1>2, <2>1 DEF CreateIndex, NewIndex, LoadTable, CatalogResult
  <2>3. /\ index.id = c.next_index_id /\ index.table_id = T[key].id
    BY DEF NewIndex
  <2>4. c.next_index_id \notin DOMAIN c.index_keys_by_id
    BY DEF GoodCatalog, CatalogTyped, IndexesAgree
  <2>. DEFINE next == c.next_index_id + 1
  <2>5. d = Members(c.next_table_id, next, T, c.table_names_by_id,
                    c.index_keys_by_id, c.indexes_by_table_name)
    BY DEF GoodCatalog, CatalogTyped, Members
  <2>. HIDE DEF d, index
  <2>6. /\ d.tables_by_name = T /\ d.index_keys_by_id = c.index_keys_by_id
        /\ d.indexes_by_table_name = c.indexes_by_table_name
        /\ IndexesOf(d, key) = IndexesOf(c, key)
    BY <2>5 DEF Members, IndexesOf
  <2>7. StoreIndexStatus(d, key, name, index) = "Ok"
    BY <2>1, <2>3, <2>4, <2>6 DEF StoreIndexStatus, LoadTable, CatalogResult
  <2>. DEFINE t == [T EXCEPT ![key] = [T[key] EXCEPT !.indexes = Append(@, index)]]
              k == Put(c.index_keys_by_id, index.id, <<key, name>>)
              i == Put(c.indexes_by_table_name, key,
                       Put(IndexesOf(c, key), name, index))
              d1 == [d EXCEPT !.tables_by_name = t]
              d2 == [d1 EXCEPT !.indexes_by_table_name = i]
              d3 == [d2 EXCEPT !.index_keys_by_id = k]
  <2>8. StoreIndex(d, key, name, index) = CatalogResult("Ok", d3, index)
    BY <2>6, <2>7 DEF StoreIndex
  <2>9. t = [x \in DOMAIN T |-> IF x = key THEN Indexed(T[x], index) ELSE T[x]]
    <3>1. TableRecord(T[key])
      BY <2>1 DEF GoodCatalog, CatalogTyped
    <3>. DEFINE table == T[key]
                list == Append(table.indexes, index)
    <3>2. [table EXCEPT !.indexes = list] = Indexed(table, index)
      <4>1. TableRecord(table)
        BY <3>1
      <4>. HIDE DEF list, table
      <4>2. [table EXCEPT !.indexes = list] =
              [id |-> table.id, name |-> table.name, columns |-> table.columns,
               heap_root_page_id |-> table.heap_root_page_id, indexes |-> list]
        BY <4>1 DEF TableRecord
      <4>. QED
        BY <4>2 DEF Indexed, list
    <3>3. IsMap(T)
      BY DEF GoodCatalog, CatalogTyped
    <3>. HIDE DEF T, key
    <3>. QED
      BY <2>1, <3>2, <3>3 DEF IsMap
  <2>10. WithIndex(c, key, name, index) =
           Members(c.next_table_id, next, t, c.table_names_by_id, k, i)
    BY <2>9 DEF WithIndex
  <2>. HIDE DEF t, k, i, next
  <2>11. d1 = Members(c.next_table_id, next, t, c.table_names_by_id,
                      c.index_keys_by_id, c.indexes_by_table_name)
    BY <2>5 DEF Members
  <2>. HIDE DEF d1
  <2>12. d2 = Members(c.next_table_id, next, t, c.table_names_by_id,
                      c.index_keys_by_id, i)
    BY <2>11 DEF Members
  <2>. HIDE DEF d2
  <2>13. d3 = Members(c.next_table_id, next, t, c.table_names_by_id, k, i)
    BY <2>12 DEF Members
  <2>. HIDE DEF d3
  <2>. QED
    BY <2>1, <2>2, <2>8, <2>10, <2>13 DEF CatalogResult, index
<1>. QED
  BY <1>1, <1>2

(* A catalog with one more index is consistent.                            *)
LEMMA WithIndexGood ==
  ASSUME NEW c, GoodCatalog(c), NEW key \in DOMAIN c.tables_by_name,
         NEW name, name \notin DOMAIN IndexesOf(c, key),
         NEW index, index.id = c.next_index_id,
         index.table_id = c.tables_by_name[key].id
  PROVE  GoodCatalog(WithIndex(c, key, name, index))
<1>. DEFINE d == WithIndex(c, key, name, index)
            T == c.tables_by_name
            K == c.index_keys_by_id
            n == c.next_index_id
<1>1. /\ d.next_table_id = c.next_table_id /\ d.next_index_id = n + 1
      /\ d.tables_by_name = [k \in DOMAIN T |->
                               IF k = key THEN Indexed(T[k], index) ELSE T[k]]
      /\ d.table_names_by_id = c.table_names_by_id
      /\ d.index_keys_by_id = Put(K, index.id, <<key, name>>)
      /\ d.indexes_by_table_name =
           Put(c.indexes_by_table_name, key, Put(IndexesOf(c, key), name, index))
      /\ d = Members(d.next_table_id, d.next_index_id, d.tables_by_name,
                     d.table_names_by_id, d.index_keys_by_id, d.indexes_by_table_name)
  BY DEF WithIndex, Members
<1>. HIDE DEF d
<1>2. IsMap(d.tables_by_name) /\ DOMAIN d.tables_by_name = DOMAIN T
  BY <1>1 DEF IsMap
<1>3. /\ IsMap(d.index_keys_by_id) /\ DOMAIN d.index_keys_by_id = DOMAIN K \cup {n}
      /\ d.index_keys_by_id[n] = <<key, name>>
      /\ \A id \in DOMAIN K \ {n} : d.index_keys_by_id[id] = K[id]
  BY <1>1 DEF IsMap, Put
<1>4. n \in Nat \ {0} /\ n \notin DOMAIN K
  BY DEF GoodCatalog, CatalogTyped, IndexesAgree
<1>5. /\ IsMap(IndexesOf(d, key))
      /\ DOMAIN IndexesOf(d, key) = DOMAIN IndexesOf(c, key) \cup {name}
      /\ IndexesOf(d, key)[name] = index
      /\ \A x \in DOMAIN IndexesOf(c, key) : IndexesOf(d, key)[x] = IndexesOf(c, key)[x]
  <2>1. IndexesOf(d, key) = Put(IndexesOf(c, key), name, index)
    BY <1>1 DEF IndexesOf, Put
  <2>. QED
    BY <2>1 DEF Put, IsMap
<1>6. /\ IsMap(d.indexes_by_table_name)
      /\ DOMAIN d.indexes_by_table_name = DOMAIN c.indexes_by_table_name \cup {key}
      /\ \A k \in DOMAIN c.indexes_by_table_name \ {key} :
           d.indexes_by_table_name[k] = c.indexes_by_table_name[k]
      /\ d.indexes_by_table_name[key] = IndexesOf(d, key)
  BY <1>1 DEF Put, IsMap, IndexesOf
<1>7. \A k : k # key => IndexesOf(d, k) = IndexesOf(c, k)
  BY <1>6 DEF IndexesOf
<1>8. ASSUME NEW k \in DOMAIN T
      PROVE  /\ d.tables_by_name[k].id = T[k].id
             /\ d.tables_by_name[k].name = T[k].name
             /\ k # key => d.tables_by_name[k].indexes = T[k].indexes
             /\ k = key => ToSet(d.tables_by_name[k].indexes) =
                             ToSet(T[k].indexes) \cup {index}
             /\ TableRecord(d.tables_by_name[k])
  <2>. DEFINE s == T[k].indexes
              S == ToSet(s) \cup {index}
  <2>1. TableRecord(T[k])
    BY DEF GoodCatalog, CatalogTyped
  <2>2. d.tables_by_name[k] = IF k = key THEN Indexed(T[k], index) ELSE T[k]
    BY <1>1
  <2>3. s \in Seq(ToSet(s))
    BY <2>1 DEF TableRecord
  <2>4. s \in Seq(S)
    <3>1. ToSet(s) \subseteq S
      OBVIOUS
    <3>. HIDE DEF s
    <3>. QED
      BY <2>3, <3>1
  <2>5. ToSet(Append(s, index)) = S /\ Append(s, index) \in Seq(S)
    <3>. HIDE DEF s
    <3>1. Append(s, index) \in Seq(S) /\ Len(Append(s, index)) = Len(s) + 1
      BY <2>4
    <3>2. \A j \in 1 .. Len(s) + 1 :
            Append(s, index)[j] = IF j = Len(s) + 1 THEN index ELSE s[j]
      BY <2>3
    <3>3. /\ DOMAIN Append(s, index) = 1 .. Len(s) + 1
          /\ DOMAIN s = 1 .. Len(s) /\ Len(s) \in Nat
      BY <2>3, <3>1
    <3>. QED
      BY <3>1, <3>2, <3>3 DEF ToSet
  <2>6. /\ Indexed(T[k], index).id = T[k].id /\ Indexed(T[k], index).name = T[k].name
        /\ Indexed(T[k], index).indexes = Append(s, index)
    BY DEF Indexed
  <2>7. TableRecord(Indexed(T[k], index))
    <3>. DEFINE list == Append(s, index)
                record == [id |-> T[k].id, name |-> T[k].name, columns |-> T[k].columns,
                           heap_root_page_id |-> T[k].heap_root_page_id,
                           indexes |-> list]
    <3>1. Indexed(T[k], index) = record
      BY DEF Indexed
    <3>2. list \in Seq(ToSet(list)) /\ T[k].id \in Nat \ {0}
      BY <2>1, <2>5 DEF TableRecord
    <3>. HIDE DEF list
    <3>. QED
      BY <3>1, <3>2 DEF TableRecord
  <2>. QED
    BY <2>1, <2>2, <2>5, <2>6, <2>7
<1>9. CatalogTyped(d)
  <2>1. \A k \in DOMAIN d.indexes_by_table_name : IsMap(d.indexes_by_table_name[k])
    BY <1>5, <1>6 DEF GoodCatalog, CatalogTyped
  <2>2. \A k \in DOMAIN d.tables_by_name : TableRecord(d.tables_by_name[k])
    BY <1>2, <1>8
  <2>3. d.next_table_id \in Nat \ {0} /\ d.next_index_id \in Nat \ {0}
    BY <1>1, <1>4 DEF GoodCatalog, CatalogTyped
  <2>4. IsMap(d.table_names_by_id)
    BY <1>1 DEF GoodCatalog, CatalogTyped
  <2>. QED
    BY <1>1, <1>2, <1>3, <1>6, <2>1, <2>2, <2>3, <2>4 DEF CatalogTyped
<1>10. TablesAgree(d)
  <2>1. \A k \in DOMAIN T : /\ d.tables_by_name[k].id = T[k].id
                            /\ d.tables_by_name[k].name = T[k].name
    BY <1>8
  <2>. QED
    BY <1>1, <1>2, <2>1, SameTablesAgree DEF GoodCatalog
<1>11. IndexesAgree(d)
  <2>1. DOMAIN d.indexes_by_table_name \subseteq DOMAIN d.tables_by_name
    BY <1>2, <1>6 DEF GoodCatalog, IndexesAgree
  <2>2. ASSUME NEW k \in DOMAIN d.tables_by_name
        PROVE  /\ ToSet(d.tables_by_name[k].indexes) = Range(IndexesOf(d, k))
               /\ \A x \in DOMAIN IndexesOf(d, k) :
                    /\ IndexesOf(d, k)[x].table_id = d.tables_by_name[k].id
                    /\ IndexesOf(d, k)[x].id \in DOMAIN d.index_keys_by_id
                    /\ d.index_keys_by_id[IndexesOf(d, k)[x].id] = <<k, x>>
    <3>1. /\ k \in DOMAIN T
          /\ ToSet(T[k].indexes) = Range(IndexesOf(c, k))
          /\ \A x \in DOMAIN IndexesOf(c, k) :
               /\ IndexesOf(c, k)[x].table_id = T[k].id
               /\ IndexesOf(c, k)[x].id \in DOMAIN K
               /\ K[IndexesOf(c, k)[x].id] = <<k, x>>
      BY <1>2 DEF GoodCatalog, IndexesAgree
    <3>2. CASE k # key
      BY <1>3, <1>4, <1>7, <1>8, <3>1, <3>2
    <3>3. CASE k = key
      <4>1. Range(IndexesOf(d, key)) = Range(IndexesOf(c, key)) \cup {index}
        BY <1>5 DEF Range
      <4>2. ToSet(d.tables_by_name[k].indexes) = Range(IndexesOf(d, k))
        BY <1>8, <3>1, <3>3, <4>1
      <4>3. ASSUME NEW x \in DOMAIN IndexesOf(c, key)
            PROVE  /\ IndexesOf(d, k)[x].table_id = d.tables_by_name[k].id
                   /\ IndexesOf(d, k)[x].id \in DOMAIN d.index_keys_by_id
                   /\ d.index_keys_by_id[IndexesOf(d, k)[x].id] = <<k, x>>
        BY <1>3, <1>4, <1>5, <1>8, <3>1, <3>3
      <4>4. /\ IndexesOf(d, k)[name].table_id = d.tables_by_name[k].id
            /\ IndexesOf(d, k)[name].id \in DOMAIN d.index_keys_by_id
            /\ d.index_keys_by_id[IndexesOf(d, k)[name].id] = <<k, name>>
        BY <1>3, <1>5, <1>8, <3>1, <3>3
      <4>. QED
        BY <1>5, <3>3, <4>2, <4>3, <4>4
    <3>. QED
      BY <3>2, <3>3
  <2>3. ASSUME NEW id \in DOMAIN d.index_keys_by_id
        PROVE  /\ id \in Nat \ {0} /\ id < d.next_index_id
               /\ \E k \in DOMAIN d.tables_by_name :
                    \E x \in DOMAIN IndexesOf(d, k) :
                      /\ d.index_keys_by_id[id] = <<k, x>>
                      /\ IndexesOf(d, k)[x].id = id
    <3>1. CASE id = n
      <4>1. id \in Nat \ {0} /\ id < d.next_index_id
        BY <1>1, <1>4, <3>1
      <4>2. /\ key \in DOMAIN d.tables_by_name /\ name \in DOMAIN IndexesOf(d, key)
            /\ d.index_keys_by_id[id] = <<key, name>>
            /\ IndexesOf(d, key)[name].id = id
        BY <1>2, <1>3, <1>5, <3>1
      <4>. QED
        BY <4>1, <4>2
    <3>2. CASE id \in DOMAIN K
      <4>1. id \in Nat \ {0} /\ id < n
        BY <3>2 DEF GoodCatalog, IndexesAgree
      <4>2. PICK k \in DOMAIN T : \E x \in DOMAIN IndexesOf(c, k) :
                   K[id] = <<k, x>> /\ IndexesOf(c, k)[x].id = id
        BY <3>2 DEF GoodCatalog, IndexesAgree
      <4>3. PICK x \in DOMAIN IndexesOf(c, k) :
                   K[id] = <<k, x>> /\ IndexesOf(c, k)[x].id = id
        BY <4>2
      <4>4. x \in DOMAIN IndexesOf(d, k) /\ IndexesOf(d, k)[x] = IndexesOf(c, k)[x]
        BY <1>5, <1>7
      <4>5. id < d.next_index_id
        BY <1>1, <1>4, <4>1
      <4>6. d.index_keys_by_id[id] = K[id]
        BY <1>3, <1>4, <3>2
      <4>. QED
        BY <1>2, <4>1, <4>3, <4>4, <4>5, <4>6
    <3>. QED
      BY <1>3, <3>1, <3>2
  <2>. QED
    BY <2>1, <2>2, <2>3 DEF IndexesAgree
<1>. QED
  BY <1>9, <1>10, <1>11 DEF GoodCatalog, d

-----------------------------------------------------------------------------
(* Table storage.                                                          *)

(* What Encode makes.                                                      *)
Encoded(tuple) == tuple = Encode(tuple.columns, tuple.row)

HeapRecord(heap) ==
  /\ heap = [root_page_id |-> heap.root_page_id, tuples |-> heap.tuples]
  /\ heap.root_page_id \in Nat
  /\ IsABag(heap.tuples)
  /\ \A tuple \in DOMAIN heap.tuples : Encoded(tuple)

(* Root page ids are below the next one, which never passes the invalid    *)
(* one, and no two heaps share one.                                        *)
GoodStorage(st) ==
  /\ st = [next_root_page_id |-> st.next_root_page_id, tables |-> st.tables]
  /\ st.next_root_page_id \in 1 .. kInvalidPageId
  /\ IsMap(st.tables)
  /\ \A id \in DOMAIN st.tables :
       /\ HeapRecord(st.tables[id])
       /\ st.tables[id].root_page_id < st.next_root_page_id
  /\ \A a, b \in DOMAIN st.tables :
       st.tables[a].root_page_id = st.tables[b].root_page_id => a = b

NewHeap(st) == [root_page_id |-> st.next_root_page_id, tuples |-> EmptyBag]

WithHeap(st, id) ==
  [next_root_page_id |-> st.next_root_page_id + 1,
   tables |-> Put(st.tables, id, NewHeap(st))]

(* CreateHeap either fails and changes nothing, or makes an empty heap at  *)
(* a valid root page.                                                      *)
LEMMA CreateHeapExact ==
  ASSUME NEW st, NEW id
  PROVE  \/ /\ CreateHeap(st, id).status \in {"AlreadyExists", "Internal"}
            /\ CreateHeap(st, id).status = "AlreadyExists" <=> id \in DOMAIN st.tables
            /\ CreateHeap(st, id).storage = st
         \/ /\ CreateHeap(st, id).status = "Ok"
            /\ CreateHeap(st, id).storage = WithHeap(st, id)
            /\ CreateHeap(st, id).root_page_id = st.next_root_page_id
            /\ st.next_root_page_id # kInvalidPageId
            /\ id \notin DOMAIN st.tables
BY DEF CreateHeap, CreateHeapStatus, WithHeap, NewHeap

(* Storage with one more heap is well formed.                              *)
LEMMA WithHeapGood ==
  ASSUME NEW st, GoodStorage(st), NEW id, id \notin DOMAIN st.tables,
         st.next_root_page_id # kInvalidPageId
  PROVE  /\ GoodStorage(WithHeap(st, id))
         /\ DOMAIN WithHeap(st, id).tables = DOMAIN st.tables \cup {id}
         /\ \A x \in DOMAIN st.tables : WithHeap(st, id).tables[x] = st.tables[x]
         /\ WithHeap(st, id).tables[id].root_page_id = st.next_root_page_id
         /\ DOMAIN WithHeap(st, id).tables[id].tuples = {}
<1>. DEFINE s == WithHeap(st, id)
            heap == NewHeap(st)
            n == st.next_root_page_id
<1>1. /\ s = [next_root_page_id |-> s.next_root_page_id, tables |-> s.tables]
      /\ s.next_root_page_id = n + 1
      /\ s.tables = Put(st.tables, id, heap)
  BY DEF WithHeap
<1>2. n \in Nat /\ n \in 1 .. kInvalidPageId /\ s.next_root_page_id \in 1 .. kInvalidPageId
  BY <1>1, PageIdAssumption DEF GoodStorage
<1>3. HeapRecord(heap) /\ heap.root_page_id = n /\ DOMAIN heap.tuples = {}
  BY <1>2 DEF HeapRecord, NewHeap, EmptyBag, SetToBag, IsABag
<1>. HIDE DEF s, heap
<1>4. /\ IsMap(s.tables) /\ DOMAIN s.tables = DOMAIN st.tables \cup {id}
      /\ \A x \in DOMAIN st.tables : s.tables[x] = st.tables[x]
      /\ s.tables[id] = heap
  BY <1>1 DEF Put, IsMap
<1>5. \A x \in DOMAIN s.tables :
        HeapRecord(s.tables[x]) /\ s.tables[x].root_page_id < s.next_root_page_id
  <2>1. \A x \in DOMAIN st.tables :
          /\ HeapRecord(st.tables[x]) /\ st.tables[x].root_page_id \in Nat
          /\ st.tables[x].root_page_id < n
    BY DEF GoodStorage, HeapRecord
  <2>. QED
    BY <1>1, <1>2, <1>3, <1>4, <2>1
<1>6. \A a, b \in DOMAIN s.tables :
        s.tables[a].root_page_id = s.tables[b].root_page_id => a = b
  <2>1. \A x \in DOMAIN st.tables : st.tables[x].root_page_id # n
    BY <1>2 DEF GoodStorage, HeapRecord
  <2>. QED
    BY <1>3, <1>4, <2>1 DEF GoodStorage
<1>. QED
  BY <1>1, <1>2, <1>3, <1>4, <1>5, <1>6 DEF GoodStorage, s

(* The union of two bags is a bag, with the elements of both.              *)
LEMMA BagUnionTyped ==
  ASSUME NEW A, NEW B, IsABag(A), IsABag(B)
  PROVE  IsABag(A (+) B) /\ DOMAIN (A (+) B) = DOMAIN A \cup DOMAIN B
<1>1. DOMAIN (A (+) B) = DOMAIN A \cup DOMAIN B
  BY DEF (+)
<1>2. \A x \in DOMAIN A : A[x] \in Nat /\ A[x] > 0
  BY DEF IsABag
<1>3. \A x \in DOMAIN B : B[x] \in Nat /\ B[x] > 0
  BY DEF IsABag
<1>4. A (+) B = [x \in DOMAIN A \cup DOMAIN B |->
                   (IF x \in DOMAIN A THEN A[x] ELSE 0)
                     + (IF x \in DOMAIN B THEN B[x] ELSE 0)]
  BY DEF (+)
<1>5. \A x \in DOMAIN A \cup DOMAIN B :
        (IF x \in DOMAIN A THEN A[x] ELSE 0) + (IF x \in DOMAIN B THEN B[x] ELSE 0)
          \in {n \in Nat : n > 0}
  BY <1>2, <1>3
<1>. QED
  BY <1>1, <1>4, <1>5 DEF IsABag

(* Adding no tuple leaves a bag as it is.                                  *)
LEMMA BagUnionEmpty ==
  ASSUME NEW A, NEW B, IsABag(A), DOMAIN B = {}
  PROVE  A (+) B = A
<1>1. A = [x \in DOMAIN A |-> A[x]] /\ \A x \in DOMAIN A : A[x] \in Nat
  BY DEF IsABag
<1>. QED
  BY <1>1 DEF (+)

(* Adding tuples to a heap changes the tuples of that heap only.           *)
LEMMA AddTuplesExact ==
  ASSUME NEW st, GoodStorage(st), NEW id \in DOMAIN st.tables,
         NEW bag, IsABag(bag), \A tuple \in DOMAIN bag : Encoded(tuple)
  PROVE  /\ GoodStorage(AddTuples(st, id, bag))
         /\ DOMAIN AddTuples(st, id, bag).tables = DOMAIN st.tables
         /\ \A x \in DOMAIN st.tables :
              /\ AddTuples(st, id, bag).tables[x].root_page_id = st.tables[x].root_page_id
              /\ x # id => AddTuples(st, id, bag).tables[x] = st.tables[x]
         /\ DOMAIN AddTuples(st, id, bag).tables[id].tuples =
              DOMAIN st.tables[id].tuples \cup DOMAIN bag
         /\ DOMAIN bag = {} => AddTuples(st, id, bag) = st
<1>. DEFINE heap == st.tables[id]
            tuples == heap.tuples (+) bag
            h == [root_page_id |-> heap.root_page_id, tuples |-> tuples]
            t == [x \in DOMAIN st.tables |-> IF x = id THEN h ELSE st.tables[x]]
            s == [next_root_page_id |-> st.next_root_page_id, tables |-> t]
<1>1. HeapRecord(heap)
  BY DEF GoodStorage
<1>2. AddTuples(st, id, bag) = s
  <2>1. [heap EXCEPT !.tuples = tuples] = h
    <3>. HIDE DEF heap, tuples
    <3>. QED
      BY <1>1 DEF HeapRecord
  <2>2. [st.tables EXCEPT ![id] = h] = t
    <3>1. IsMap(st.tables)
      BY DEF GoodStorage
    <3>. HIDE DEF h
    <3>. QED
      BY <3>1 DEF IsMap
  <2>3. AddTuples(st, id, bag) = [st EXCEPT !.tables = t]
    BY <2>1, <2>2 DEF AddTuples
  <2>. HIDE DEF t
  <2>4. [st EXCEPT !.tables = t] = [next_root_page_id |-> st.next_root_page_id, tables |-> t]
    BY DEF GoodStorage
  <2>. QED
    BY <2>3, <2>4
<1>3. IsABag(tuples) /\ DOMAIN tuples = DOMAIN heap.tuples \cup DOMAIN bag
  BY <1>1, BagUnionTyped DEF HeapRecord
<1>4. HeapRecord(h) /\ h.root_page_id = heap.root_page_id /\ h.tuples = tuples
  <2>. HIDE DEF tuples, heap
  <2>. QED
    BY <1>1, <1>3 DEF HeapRecord
<1>. HIDE DEF h
<1>5. IsMap(t) /\ DOMAIN t = DOMAIN st.tables
  BY DEF IsMap
<1>6. \A x \in DOMAIN t : t[x] = IF x = id THEN h ELSE st.tables[x]
  OBVIOUS
<1>. HIDE DEF t
<1>7. \A x \in DOMAIN t : /\ t[x].root_page_id = st.tables[x].root_page_id
                          /\ HeapRecord(t[x])
  BY <1>4, <1>5, <1>6 DEF GoodStorage
<1>8. s.next_root_page_id = st.next_root_page_id /\ s.tables = t
  OBVIOUS
<1>9. GoodStorage(s)
  BY <1>5, <1>7, <1>8 DEF GoodStorage
<1>10. ASSUME DOMAIN bag = {} PROVE s = st
  <2>1. tuples = heap.tuples
    BY <1>1, <1>10, BagUnionEmpty DEF HeapRecord
  <2>2. h = heap
    BY <1>1, <2>1 DEF h, HeapRecord
  <2>3. t = st.tables
    BY <2>2 DEF t, GoodStorage, IsMap
  <2>. QED
    BY <2>3 DEF GoodStorage
<1>. QED
  BY <1>2, <1>3, <1>4, <1>5, <1>6, <1>7, <1>8, <1>9, <1>10

-----------------------------------------------------------------------------
(* The loops over the rows of a plan.                                      *)

(* A nonempty set of natural numbers has a least element.                  *)
LEMMA LeastElement ==
  ASSUME NEW T, T \subseteq Nat, T # {}
  PROVE  \E x \in T : \A y \in T : x <= y
<1>1. PICK x \in T : \A y \in T : ~(<<y, x>> \in OpToRel(<, Nat))
  BY NatLessThanWellFounded, WFMin
<1>2. \A y \in T : ~(y < x)
  BY <1>1 DEF OpToRel
<1>3. \A y \in T : x <= y
  BY <1>2
<1>. QED
  BY <1>3

(* A loop over n elements stops: at the first bad one, or past the end.    *)
LEMMA LoopStops ==
  ASSUME NEW n \in Nat, NEW Bad
  PROVE  \E i \in 1 .. n + 1 : /\ \A j \in 1 .. i - 1 : j \notin Bad
                               /\ i <= n => i \in Bad
<1>. DEFINE B == {j \in 1 .. n + 1 : j = n + 1 \/ j \in Bad}
<1>1. B \subseteq Nat /\ n + 1 \in B
  OBVIOUS
<1>2. PICK i \in B : \A j \in B : i <= j
  <2>. HIDE DEF B
  <2>. QED
    BY <1>1, LeastElement
<1>3. i \in 1 .. n + 1 /\ (i <= n => i \in Bad)
  BY <1>2
<1>4. \A j \in 1 .. i - 1 : j \notin Bad
  BY <1>2
<1>. QED
  BY <1>3, <1>4

RowsTyped(rows) ==
  /\ Len(rows) \in Nat /\ DOMAIN rows = 1 .. Len(rows)
  /\ \A i \in DOMAIN rows : TypedRow(rows[i])

(* Evaluating the rows ends with the status of one of them, or well.       *)
LEMMA ExecuteValuesTyped ==
  ASSUME NEW rows, RowsTyped(rows)
  PROVE  execute_values(rows) \in Statuses
<1>. DEFINE n == Len(rows)
            Bad == {i \in DOMAIN rows : rows[i].eval # "Ok"}
            P(i) == /\ \A j \in 1 .. i - 1 : rows[j].eval = "Ok"
                    /\ i <= n => rows[i].eval # "Ok"
            stop == CHOOSE i \in 1 .. n + 1 : P(i)
<1>1. n \in Nat /\ DOMAIN rows = 1 .. n /\ \A i \in 1 .. n : rows[i].eval \in Statuses
  BY DEF RowsTyped, TypedRow
<1>2. \E i \in 1 .. n + 1 : P(i)
  <2>1. PICK i \in 1 .. n + 1 : /\ \A j \in 1 .. i - 1 : j \notin Bad
                                /\ i <= n => i \in Bad
    <3>. HIDE DEF Bad
    <3>. QED
      BY <1>1, LoopStops
  <2>2. \A j \in 1 .. i - 1 : j \in DOMAIN rows
    BY <1>1
  <2>. QED
    BY <2>1, <2>2
<1>3. stop \in 1 .. n + 1
  BY <1>2
<1>4. execute_values(rows) = IF stop <= n THEN rows[stop].eval ELSE "Ok"
  BY DEF execute_values, FirstFailure, StopsAt
<1>. HIDE DEF stop
<1>. QED
  BY <1>1, <1>3, <1>4 DEF Statuses

(* The status of the loop that inserts rows.                               *)
InsertStatus(table, rows) ==
  FirstFailure(LAMBDA i : InsertRowStatus(table, rows[i]), Len(rows))

(* Inserting the rows of a plan stops at one of them, or past the end; the *)
(* tuples that are stored form a bag, each with the table's columns; and   *)
(* if it fails at the only row, nothing is stored.                         *)
LEMMA InsertLoop ==
  ASSUME NEW table, NEW rows, RowsTyped(rows)
  PROVE  LET status == InsertStatus(table, rows)
             bag == ToBag(StoredTuples(table, rows))
         IN /\ status \in Statuses
            /\ IsABag(bag)
            /\ \A tuple \in DOMAIN bag :
                 tuple.columns = table.columns /\ Encoded(tuple)
            /\ status # "Ok" /\ Len(rows) <= 1 => DOMAIN bag = {}
<1>. DEFINE n == Len(rows)
            S(i) == InsertRowStatus(table, rows[i])
            Bad == {i \in DOMAIN rows : S(i) # "Ok"}
            P(i) == /\ \A j \in 1 .. i - 1 : S(j) = "Ok"
                    /\ i <= n => S(i) # "Ok"
            stop == CHOOSE i \in 1 .. n + 1 : P(i)
            stored == [i \in 1 .. stop - 1 |-> Encode(table.columns, rows[i])]
<1>1. n \in Nat /\ DOMAIN rows = 1 .. n /\ \A i \in 1 .. n : S(i) \in Statuses
  BY DEF RowsTyped, TypedRow, InsertRowStatus, Statuses
<1>2. \E i \in 1 .. n + 1 : P(i)
  <2>1. PICK i \in 1 .. n + 1 : /\ \A j \in 1 .. i - 1 : j \notin Bad
                                /\ i <= n => i \in Bad
    <3>. HIDE DEF Bad
    <3>. QED
      BY <1>1, LoopStops
  <2>2. \A j \in 1 .. i - 1 : j \in DOMAIN rows
    BY <1>1
  <2>. HIDE DEF S
  <2>. QED
    BY <2>1, <2>2
<1>3. stop \in 1 .. n + 1
  <2>. HIDE DEF P
  <2>. QED
    BY <1>2
<1>4. InsertStatus(table, rows) = IF stop <= n THEN S(stop) ELSE "Ok"
  BY DEF InsertStatus, FirstFailure, StopsAt
<1>5. StoredTuples(table, rows) = stored
  BY DEF StoredTuples, StopsAt
<1>. HIDE DEF stop, S
<1>6. DOMAIN stored = 1 .. stop - 1 /\ stop - 1 \in Nat
  BY <1>1, <1>3
<1>7. \A i \in DOMAIN stored :
        stored[i].columns = table.columns /\ Encoded(stored[i])
  BY DEF Encode, Encoded
<1>. HIDE DEF stored
<1>. DEFINE Copies(x) == {i \in DOMAIN stored : stored[i] = x}
<1>8. ToBag(stored) = [x \in Range(stored) |-> Cardinality(Copies(x))]
  BY DEF ToBag
<1>9. \A x \in Range(stored) : Cardinality(Copies(x)) \in Nat \ {0}
  <2>1. SUFFICES ASSUME NEW x \in Range(stored)
                 PROVE  Cardinality(Copies(x)) \in Nat \ {0}
    OBVIOUS
  <2>2. IsFiniteSet(1 .. stop - 1)
    <3>1. 1 \in Int /\ stop - 1 \in Int
      BY <1>6
    <3>. QED
      BY <3>1, FS_Interval
  <2>3. Copies(x) \subseteq 1 .. stop - 1
    BY <1>6
  <2>4. Copies(x) # {}
    BY DEF Range
  <2>. HIDE DEF Copies
  <2>5. IsFiniteSet(Copies(x))
    BY <2>2, <2>3, FS_Subset
  <2>. QED
    BY <2>4, <2>5, FS_CardinalityType, FS_EmptySet
<1>10. IsABag(ToBag(stored)) /\ DOMAIN ToBag(stored) = Range(stored)
  <2>. HIDE DEF Copies
  <2>. QED
    BY <1>8, <1>9 DEF IsABag
<1>11. \A tuple \in Range(stored) :
         tuple.columns = table.columns /\ Encoded(tuple)
  BY <1>7 DEF Range
<1>12. ASSUME stop <= n, n <= 1 PROVE Range(stored) = {}
  <2>1. stop = 1
    BY <1>1, <1>3, <1>12
  <2>2. DOMAIN stored = {}
    BY <1>6, <2>1
  <2>. QED
    BY <2>2 DEF Range
<1>13. (IF stop <= n THEN S(stop) ELSE "Ok") \in Statuses
  BY <1>1, <1>3 DEF Statuses
<1>14. ToBag(StoredTuples(table, rows)) = ToBag(stored)
  BY <1>5
<1>. QED
  BY <1>4, <1>10, <1>11, <1>12, <1>13, <1>14

-----------------------------------------------------------------------------
(* What catalog, storage and a held plan know of each other.               *)

Compatible(t1, t2) == t1.id = t2.id => t1.columns = t2.columns

(* A TableInfo has an id that was issued; if it names a root page, that is *)
(* the root of its table's heap; and the tuples of that heap were encoded  *)
(* with its columns.                                                       *)
Sound(table, c, st) ==
  /\ table.id \in Nat \ {0} /\ table.id < c.next_table_id
  /\ table.heap_root_page_id # kInvalidPageId =>
       /\ table.id \in DOMAIN st.tables
       /\ st.tables[table.id].root_page_id = table.heap_root_page_id
  /\ table.id \in DOMAIN st.tables =>
       \A tuple \in DOMAIN st.tables[table.id].tuples :
         tuple.columns = table.columns

NamesTable(p) == p # NoPlan /\ p.op # "CreateTable"

Known(c, st, p) ==
  /\ \A id \in DOMAIN st.tables : id \in Nat \ {0} /\ id < c.next_table_id
  /\ \A key \in DOMAIN c.tables_by_name : Sound(c.tables_by_name[key], c, st)
  /\ NamesTable(p) =>
       /\ Sound(p.table, c, st)
       /\ \A key \in DOMAIN c.tables_by_name : Compatible(p.table, c.tables_by_name[key])

(* The tables of d are those of c, perhaps less some, perhaps with another *)
(* list of indexes, and a new one without storage.                         *)
Descends(c, d) ==
  /\ c.next_table_id <= d.next_table_id
  /\ \A key \in DOMAIN d.tables_by_name :
       LET table == d.tables_by_name[key]
       IN \/ \E k \in DOMAIN c.tables_by_name :
               /\ table.id = c.tables_by_name[k].id
               /\ table.columns = c.tables_by_name[k].columns
               /\ table.heap_root_page_id = c.tables_by_name[k].heap_root_page_id
          \/ /\ table.id = c.next_table_id
             /\ c.next_table_id < d.next_table_id
             /\ table.heap_root_page_id = kInvalidPageId

LEMMA WithTableDescends ==
  ASSUME NEW c, GoodCatalog(c), NEW request,
         FoldIdentifierKey(request.name) \notin DOMAIN c.tables_by_name
  PROVE  Descends(c, WithTable(c, request))
<1>. DEFINE key == FoldIdentifierKey(request.name)
            d == WithTable(c, request)
            T == c.tables_by_name
            t == NewTable(c, request)
<1>1. d.next_table_id = c.next_table_id + 1 /\ d.tables_by_name = Put(T, key, t)
  BY DEF WithTable, Members
<1>2. t.id = c.next_table_id /\ t.heap_root_page_id = kInvalidPageId
  BY DEF NewTable
<1>3. c.next_table_id \in Nat
  BY DEF GoodCatalog, CatalogTyped
<1>4. c.next_table_id <= d.next_table_id /\ c.next_table_id < d.next_table_id
  BY <1>1, <1>3
<1>. HIDE DEF d, t
<1>5. /\ DOMAIN d.tables_by_name = DOMAIN T \cup {key}
      /\ d.tables_by_name[key] = t
      /\ \A k \in DOMAIN T \ {key} : d.tables_by_name[k] = T[k]
  BY <1>1 DEF Put
<1>. QED
  BY <1>2, <1>4, <1>5 DEF Descends, d

LEMMA WithoutTableDescends ==
  ASSUME NEW c, GoodCatalog(c), NEW key
  PROVE  Descends(c, WithoutTable(c, key))
<1>. DEFINE d == WithoutTable(c, key)
<1>1. /\ d.next_table_id = c.next_table_id
      /\ d.tables_by_name =
           Restrict(c.tables_by_name, DOMAIN c.tables_by_name \ {key})
  BY DEF WithoutTable, Members
<1>2. c.next_table_id <= d.next_table_id
  BY <1>1 DEF GoodCatalog, CatalogTyped
<1>. HIDE DEF d
<1>3. \A k \in DOMAIN d.tables_by_name :
        k \in DOMAIN c.tables_by_name /\ d.tables_by_name[k] = c.tables_by_name[k]
  BY <1>1 DEF Restrict
<1>. QED
  BY <1>2, <1>3 DEF Descends, d

LEMMA WithIndexDescends ==
  ASSUME NEW c, GoodCatalog(c), NEW key, NEW name, NEW index
  PROVE  Descends(c, WithIndex(c, key, name, index))
<1>. DEFINE d == WithIndex(c, key, name, index)
            T == c.tables_by_name
<1>1. /\ d.next_table_id = c.next_table_id
      /\ d.tables_by_name = [k \in DOMAIN T |->
                               IF k = key THEN Indexed(T[k], index) ELSE T[k]]
  BY DEF WithIndex, Members
<1>2. c.next_table_id <= d.next_table_id
  BY <1>1 DEF GoodCatalog, CatalogTyped
<1>. HIDE DEF d
<1>3. DOMAIN d.tables_by_name = DOMAIN T
  BY <1>1
<1>4. ASSUME NEW k \in DOMAIN T
      PROVE  /\ d.tables_by_name[k].id = T[k].id
             /\ d.tables_by_name[k].columns = T[k].columns
             /\ d.tables_by_name[k].heap_root_page_id = T[k].heap_root_page_id
  <2>1. d.tables_by_name[k] = IF k = key THEN Indexed(T[k], index) ELSE T[k]
    BY <1>1
  <2>. QED
    BY <2>1 DEF Indexed
<1>. QED
  BY <1>2, <1>3, <1>4 DEF Descends, d

(* Known survives the calls on the catalog that give no root page.         *)
LEMMA KnownAfterCatalog ==
  ASSUME NEW c, NEW d, NEW st, NEW p, GoodCatalog(c), GoodCatalog(d),
         Known(c, st, p), Descends(c, d)
  PROVE  Known(d, st, p)
<1>1. /\ c.next_table_id \in Nat \ {0} /\ d.next_table_id \in Nat \ {0}
      /\ c.next_table_id <= d.next_table_id
  BY DEF GoodCatalog, CatalogTyped, Descends
<1>2. \A id \in DOMAIN st.tables : id \in Nat \ {0} /\ id < c.next_table_id
  BY DEF Known
<1>3. \A id \in DOMAIN st.tables : id \in Nat \ {0} /\ id < d.next_table_id
  BY <1>1, <1>2
<1>4. \A table : Sound(table, c, st) => Sound(table, d, st)
  BY <1>1 DEF Sound
<1>5. ASSUME NEW key \in DOMAIN d.tables_by_name
      PROVE  /\ Sound(d.tables_by_name[key], d, st)
             /\ NamesTable(p) => Compatible(p.table, d.tables_by_name[key])
  <2>. DEFINE table == d.tables_by_name[key]
  <2>1. CASE \E k \in DOMAIN c.tables_by_name :
               /\ table.id = c.tables_by_name[k].id
               /\ table.columns = c.tables_by_name[k].columns
               /\ table.heap_root_page_id = c.tables_by_name[k].heap_root_page_id
    <3>1. PICK k \in DOMAIN c.tables_by_name :
               /\ table.id = c.tables_by_name[k].id
               /\ table.columns = c.tables_by_name[k].columns
               /\ table.heap_root_page_id = c.tables_by_name[k].heap_root_page_id
      BY <2>1
    <3>2. /\ Sound(c.tables_by_name[k], d, st)
          /\ NamesTable(p) => Compatible(p.table, c.tables_by_name[k])
      BY <1>4 DEF Known
    <3>. HIDE DEF table
    <3>3. Sound(table, d, st)
      BY <3>1, <3>2 DEF Sound
    <3>4. NamesTable(p) => Compatible(p.table, table)
      BY <3>1, <3>2 DEF Compatible
    <3>. QED
      BY <3>3, <3>4 DEF table
  <2>2. CASE /\ table.id = c.next_table_id
             /\ c.next_table_id < d.next_table_id
             /\ table.heap_root_page_id = kInvalidPageId
    <3>1. c.next_table_id \notin DOMAIN st.tables
      BY <1>1, <1>2
    <3>2. NamesTable(p) => p.table.id # c.next_table_id
      BY <1>1 DEF Known, Sound
    <3>. HIDE DEF table
    <3>3. Sound(table, d, st)
      BY <1>1, <2>2, <3>1 DEF Sound
    <3>4. NamesTable(p) => Compatible(p.table, table)
      BY <2>2, <3>2 DEF Compatible
    <3>. QED
      BY <3>3, <3>4 DEF table
  <2>. QED
    BY <2>1, <2>2 DEF Descends
<1>. QED
  BY <1>3, <1>4, <1>5 DEF Known

(* A heap is made for a table that has none.                               *)
LEMMA KnownAfterHeap ==
  ASSUME NEW c, NEW st, NEW p, GoodStorage(st), Known(c, st, p),
         NEW id \in Nat \ {0}, id < c.next_table_id, id \notin DOMAIN st.tables,
         st.next_root_page_id # kInvalidPageId
  PROVE  Known(c, WithHeap(st, id), p)
<1>. DEFINE s == WithHeap(st, id)
<1>1. /\ DOMAIN s.tables = DOMAIN st.tables \cup {id}
      /\ \A x \in DOMAIN st.tables : s.tables[x] = st.tables[x]
      /\ DOMAIN s.tables[id].tuples = {}
  BY WithHeapGood
<1>. HIDE DEF s
<1>2. ASSUME NEW table, Sound(table, c, st) PROVE Sound(table, c, s)
  <2>1. CASE table.id = id
    BY <1>1, <1>2, <2>1 DEF Sound
  <2>2. CASE table.id # id
    BY <1>1, <1>2, <2>2 DEF Sound
  <2>. QED
    BY <2>1, <2>2
<1>. QED
  BY <1>1, <1>2 DEF Known, s

(* The root of a table's heap is recorded.                                 *)
LEMMA KnownAfterRoot ==
  ASSUME NEW c, NEW st, NEW p, Known(c, st, p),
         NEW key \in DOMAIN c.tables_by_name, NEW root,
         c.tables_by_name[key].id \in DOMAIN st.tables,
         st.tables[c.tables_by_name[key].id].root_page_id = root
  PROVE  Known(WithRoot(c, key, root), st, p)
<1>. DEFINE d == WithRoot(c, key, root)
            T == c.tables_by_name
<1>1. /\ d.next_table_id = c.next_table_id
      /\ d.tables_by_name = [k \in DOMAIN T |->
                               IF k = key THEN Rooted(T[k], root) ELSE T[k]]
  BY DEF WithRoot, Members
<1>. HIDE DEF d
<1>2. ASSUME NEW k \in DOMAIN T
      PROVE  /\ Sound(d.tables_by_name[k], d, st)
             /\ NamesTable(p) => Compatible(p.table, d.tables_by_name[k])
  <2>1. /\ Sound(T[k], c, st)
        /\ NamesTable(p) => Compatible(p.table, T[k])
    BY DEF Known
  <2>2. CASE k = key
    <3>1. /\ d.tables_by_name[k].id = T[k].id
          /\ d.tables_by_name[k].columns = T[k].columns
          /\ d.tables_by_name[k].heap_root_page_id = root
      BY <1>1, <2>2 DEF Rooted
    <3>. QED
      BY <1>1, <2>1, <2>2, <3>1 DEF Sound, Compatible
  <2>3. CASE k # key
    BY <1>1, <2>1, <2>3 DEF Sound
  <2>. QED
    BY <2>2, <2>3
<1>3. \A table : Sound(table, c, st) => Sound(table, d, st)
  BY <1>1 DEF Sound
<1>4. DOMAIN d.tables_by_name = DOMAIN T
  BY <1>1
<1>. QED
  BY <1>1, <1>2, <1>3, <1>4 DEF Known, d

(* Tuples are added to a heap, encoded with the columns that all who know  *)
(* the table agree upon.                                                   *)
LEMMA KnownAfterTuples ==
  ASSUME NEW c, NEW st, NEW p, GoodStorage(st), Known(c, st, p),
         NEW id \in DOMAIN st.tables, NEW bag, IsABag(bag), NEW columns,
         \A tuple \in DOMAIN bag : tuple.columns = columns /\ Encoded(tuple),
         \A key \in DOMAIN c.tables_by_name :
           c.tables_by_name[key].id = id => c.tables_by_name[key].columns = columns,
         NamesTable(p) /\ p.table.id = id => p.table.columns = columns
  PROVE  Known(c, AddTuples(st, id, bag), p)
<1>. DEFINE s == AddTuples(st, id, bag)
<1>1. /\ DOMAIN s.tables = DOMAIN st.tables
      /\ \A x \in DOMAIN st.tables :
           /\ s.tables[x].root_page_id = st.tables[x].root_page_id
           /\ x # id => s.tables[x] = st.tables[x]
      /\ DOMAIN s.tables[id].tuples = DOMAIN st.tables[id].tuples \cup DOMAIN bag
  BY AddTuplesExact
<1>. HIDE DEF s
<1>2. ASSUME NEW table, Sound(table, c, st), table.id = id => table.columns = columns
      PROVE  Sound(table, c, s)
  <2>1. CASE table.id = id
    BY <1>1, <1>2, <2>1 DEF Sound
  <2>2. CASE table.id # id
    BY <1>1, <1>2, <2>2 DEF Sound
  <2>. QED
    BY <2>1, <2>2
<1>. QED
  BY <1>1, <1>2 DEF Known, s

(* Two tables of one catalog with one id are the same table.               *)
LEMMA TablesCompatible ==
  ASSUME NEW c, GoodCatalog(c), NEW j \in DOMAIN c.tables_by_name,
         NEW k \in DOMAIN c.tables_by_name
  PROVE  Compatible(c.tables_by_name[j], c.tables_by_name[k])
BY DEF GoodCatalog, TablesAgree, Compatible

(* A plan is made for a table of the catalog.                              *)
LEMMA KnownAfterPlan ==
  ASSUME NEW c, NEW st, NEW p, NEW q, GoodCatalog(c), Known(c, st, p),
         NamesTable(q) => \E key \in DOMAIN c.tables_by_name :
                            q.table = c.tables_by_name[key]
  PROVE  Known(c, st, q)
<1>1. ASSUME NamesTable(q)
      PROVE  /\ Sound(q.table, c, st)
             /\ \A k \in DOMAIN c.tables_by_name :
                  Compatible(q.table, c.tables_by_name[k])
  <2>1. PICK key \in DOMAIN c.tables_by_name : q.table = c.tables_by_name[key]
    BY <1>1
  <2>. QED
    BY <2>1, TablesCompatible DEF Known
<1>. QED
  BY <1>1 DEF Known

-----------------------------------------------------------------------------
(* Executing a plan.                                                       *)

Good(c, st, p) == GoodCatalog(c) /\ GoodStorage(st) /\ Known(c, st, p)

Runnable(p) ==
  /\ p.op \in {"CreateTable", "Insert", "Select"}
  /\ p.op # "CreateTable" => p.storage = make_table_storage_reference(p.table)
  /\ p.op = "Insert" => RowsTyped(p.rows)

(* The catalog after a CREATE TABLE that was rolled back: an id is lost.   *)
Skipped(c) ==
  Members(c.next_table_id + 1, c.next_index_id, c.tables_by_name,
          c.table_names_by_id, c.index_keys_by_id, c.indexes_by_table_name)

(* What Execute may do to catalog and storage, with p the plan it runs and *)
(* q the plan a caller holds meanwhile.                                    *)
OutcomeSound(out, c, st, p, q) ==
  /\ Good(out.cat, out.storage, q)
  /\ out.status \in Statuses
  /\ out.status # "Ok" =>
       /\ out.cat = c \/ (out.status = "Internal" /\ out.cat = Skipped(c))
       /\ out.storage # st => p.op = "Insert" /\ Len(p.rows) > 1

(* Dropping the table that was just created brings everything back but     *)
(* its id.                                                                 *)
LEMMA RollbackExact ==
  ASSUME NEW c, GoodCatalog(c), NEW request,
         FoldIdentifierKey(request.name) \notin DOMAIN c.tables_by_name
  PROVE  WithoutTable(WithTable(c, request), FoldIdentifierKey(request.name)) =
           Skipped(c)
<1>. DEFINE key == FoldIdentifierKey(request.name)
            d == WithTable(c, request)
            T == c.tables_by_name
            N == c.table_names_by_id
            K == c.index_keys_by_id
            I == c.indexes_by_table_name
            n == c.next_table_id
            t == NewTable(c, request)
<1>1. /\ d.next_table_id = n + 1 /\ d.next_index_id = c.next_index_id
      /\ d.tables_by_name = Put(T, key, t) /\ d.table_names_by_id = Put(N, n, key)
      /\ d.index_keys_by_id = K /\ d.indexes_by_table_name = I
  BY DEF WithTable, Members
<1>2. t.id = n /\ IndexIds(t) = {}
  BY DEF NewTable, IndexIds
<1>3. n \notin DOMAIN N /\ key \notin DOMAIN T
  BY TableIdsIssued DEF GoodCatalog, CatalogTyped
<1>4. IsMap(T) /\ IsMap(N) /\ IsMap(K) /\ IsMap(I) /\ key \notin DOMAIN I
  BY DEF GoodCatalog, CatalogTyped, IndexesAgree
<1>. HIDE DEF d, t, T, N, K, I, key, n
<1>5. d.tables_by_name[key] = t
  BY <1>1 DEF Put
<1>6. Restrict(d.tables_by_name, DOMAIN d.tables_by_name \ {key}) = T
  <2>1. DOMAIN d.tables_by_name \ {key} = DOMAIN T
    BY <1>1, <1>3 DEF Put
  <2>2. \A k \in DOMAIN T : d.tables_by_name[k] = T[k]
    BY <1>1, <1>3 DEF Put
  <2>. QED
    BY <1>4, <2>1, <2>2 DEF Restrict, IsMap
<1>7. Restrict(d.table_names_by_id,
               DOMAIN d.table_names_by_id \ {d.tables_by_name[key].id}) = N
  <2>1. DOMAIN d.table_names_by_id \ {n} = DOMAIN N
    BY <1>1, <1>3 DEF Put
  <2>2. \A k \in DOMAIN N : d.table_names_by_id[k] = N[k]
    BY <1>1, <1>3 DEF Put
  <2>. QED
    BY <1>2, <1>4, <1>5, <2>1, <2>2 DEF Restrict, IsMap
<1>8. Restrict(d.index_keys_by_id,
               DOMAIN d.index_keys_by_id \ IndexIds(d.tables_by_name[key])) = K
  <2>1. DOMAIN d.index_keys_by_id \ IndexIds(d.tables_by_name[key]) = DOMAIN K
    BY <1>1, <1>2, <1>5
  <2>. QED
    BY <1>1, <1>4, <2>1 DEF Restrict, IsMap
<1>9. Restrict(d.indexes_by_table_name, DOMAIN d.indexes_by_table_name \ {key}) = I
  <2>1. DOMAIN d.indexes_by_table_name \ {key} = DOMAIN I
    BY <1>1, <1>4
  <2>. QED
    BY <1>1, <1>4, <2>1 DEF Restrict, IsMap
<1>10. WithoutTable(d, key) = Members(n + 1, c.next_index_id, T, N, K, I)
  BY <1>1, <1>6, <1>7, <1>8, <1>9 DEF WithoutTable
<1>. QED
  BY <1>10 DEF Skipped, d, T, N, K, I, key, n

(* CREATE TABLE.                                                           *)
LEMMA ExecuteCreateTableSound ==
  ASSUME NEW c, NEW st, NEW p, NEW q, NEW txn, Good(c, st, q)
  PROVE  OutcomeSound(execute_create_table(p, c, st, txn), c, st, p, q)
<1>. DEFINE out == execute_create_table(p, c, st, txn)
            table == CreateTable(c, p.request)
            heap == CreateHeap(st, table.value.id)
            root == SetTableHeapRoot(table.cat, table.value.id, heap.root_page_id)
            drop == DropTable(table.cat, table.value.name)
            key == FoldIdentifierKey(p.request.name)
            n == c.next_table_id
<1>. USE DEF Outcome
<1>1. CASE require_writable(txn) # "Ok"
  <2>1. /\ out.cat = c /\ out.storage = st
        /\ out.status = "TransactionConflict"
    BY <1>1 DEF execute_create_table, require_writable
  <2>. QED
    BY <2>1 DEF OutcomeSound, Statuses
<1>2. CASE require_writable(txn) = "Ok" /\ table.status # "Ok"
  <2>1. /\ out.cat = table.cat /\ out.storage = st /\ out.status = table.status
    BY <1>2 DEF execute_create_table
  <2>2. table.cat = c /\ table.status = CreateTableStatus(c, p.request)
    BY <1>2, CreateTableExact DEF Good
  <2>3. CreateTableStatus(c, p.request) \in Statuses
    BY DEF CreateTableStatus, FirstFailure, ColumnStatus, validate_column, Statuses
  <2>. QED
    BY <2>1, <2>2, <2>3 DEF OutcomeSound
<1>3. CASE require_writable(txn) = "Ok" /\ table.status = "Ok"
  <2>. DEFINE d == WithTable(c, p.request)
  <2>1. /\ table.cat = d /\ table.value = NewTable(c, p.request)
        /\ key \notin DOMAIN c.tables_by_name
    BY <1>3, CreateTableExact DEF Good
  <2>2. table.value.id = n /\ table.value.name = p.request.name
    BY <2>1 DEF NewTable
  <2>3. GoodCatalog(d) /\ Descends(c, d) /\ Known(d, st, q)
    <3>1. GoodCatalog(d) /\ Descends(c, d)
      BY <2>1, WithTableGood, WithTableDescends DEF Good
    <3>. QED
      BY <3>1, KnownAfterCatalog DEF Good
  <2>4. /\ d.tables_by_name = Put(c.tables_by_name, key, NewTable(c, p.request))
        /\ d.table_names_by_id = Put(c.table_names_by_id, n, key)
        /\ d.next_table_id = n + 1
    BY DEF WithTable, Members
  <2>5. /\ key \in DOMAIN d.tables_by_name /\ d.tables_by_name[key].id = n
        /\ n \in DOMAIN d.table_names_by_id /\ d.table_names_by_id[n] = key
    BY <2>4 DEF Put, NewTable
  <2>6. n \in Nat \ {0} /\ n < d.next_table_id /\ n \notin DOMAIN st.tables
    BY <2>4 DEF Good, GoodCatalog, CatalogTyped, Known
  <2>. HIDE DEF d, table, heap, root, drop, out
  <2>7. CASE heap.status # "Ok"
    <3>1. heap.status = "Internal"
      BY <2>2, <2>6, <2>7, CreateHeapExact DEF heap
    <3>2. drop.cat = WithoutTable(d, key)
      BY <2>1, <2>2, <2>3, <2>5, DropTableExact DEF drop
    <3>3. WithoutTable(d, key) = Skipped(c)
      BY <2>1, RollbackExact DEF Good, d
    <3>4. GoodCatalog(WithoutTable(d, key)) /\ Known(WithoutTable(d, key), st, q)
      <4>1. GoodCatalog(WithoutTable(d, key)) /\ Descends(d, WithoutTable(d, key))
        BY <2>3, <2>5, WithoutTableGood, WithoutTableDescends
      <4>. QED
        BY <2>3, <4>1, KnownAfterCatalog
    <3>5. out.status = "Internal" /\ out.cat = drop.cat /\ out.storage = st
      BY <1>3, <2>7, <3>1 DEF execute_create_table, out, table, heap, drop
    <3>. QED
      BY <3>2, <3>3, <3>4, <3>5 DEF OutcomeSound, Good, Statuses, out
  <2>8. CASE heap.status = "Ok"
    <3>. DEFINE s == WithHeap(st, n)
    <3>1. /\ heap.storage = s /\ heap.root_page_id = st.next_root_page_id
          /\ st.next_root_page_id # kInvalidPageId
      BY <2>2, <2>8, CreateHeapExact DEF heap
    <3>2. /\ GoodStorage(s) /\ n \in DOMAIN s.tables
          /\ s.tables[n].root_page_id = st.next_root_page_id
      BY <2>6, <3>1, WithHeapGood DEF Good
    <3>3. Known(d, s, q)
      BY <2>3, <2>6, <3>1, KnownAfterHeap DEF Good
    <3>. HIDE DEF s
    <3>. DEFINE e == WithRoot(d, key, st.next_root_page_id)
    <3>4. root.status = "Ok" /\ root.cat = e
      BY <2>1, <2>2, <2>3, <2>5, <3>1, SetTableHeapRootExact DEF root
    <3>5. GoodCatalog(e)
      BY <2>3, <2>5, WithRootGood
    <3>6. Known(e, s, q)
      BY <2>5, <3>2, <3>3, KnownAfterRoot
    <3>7. out.status = "Ok" /\ out.cat = root.cat /\ out.storage = heap.storage
      BY <1>3, <2>8, <3>4 DEF execute_create_table, out, table, heap, root
    <3>. QED
      BY <3>1, <3>2, <3>4, <3>5, <3>6, <3>7 DEF OutcomeSound, Good, Statuses, out
  <2>. QED
    BY <2>7, <2>8
<1>. QED
  BY <1>1, <1>2, <1>3

(* The open heap of a plan is the one of its table.                        *)
LEMMA OpenHeapTyped ==
  ASSUME NEW st, NEW reference
  PROVE  /\ OpenHeap(st, reference) \in {"Ok", "NotFound", "Corruption"}
         /\ OpenHeap(st, reference) = "Ok" => reference.table_id \in DOMAIN st.tables
BY DEF OpenHeap

(* INSERT.  The table of the plan may be out of date, or be the one the    *)
(* held plan names, but agrees with both on the columns.                   *)
LEMMA ExecuteInsertSound ==
  ASSUME NEW c, NEW st, NEW p, NEW q, NEW txn, Good(c, st, q), Runnable(p),
         p.op = "Insert",
         \A key \in DOMAIN c.tables_by_name : Compatible(p.table, c.tables_by_name[key]),
         NamesTable(q) => Compatible(p.table, q.table)
  PROVE  OutcomeSound(execute_insert(p, c, st, txn), c, st, p, q)
<1>. DEFINE out == execute_insert(p, c, st, txn)
            status == InsertStatus(p.table, p.rows)
            bag == ToBag(StoredTuples(p.table, p.rows))
            id == p.storage.table_id
<1>1. RowsTyped(p.rows) /\ p.storage.table_id = p.table.id
  BY DEF Runnable, make_table_storage_reference
<1>2. CASE \/ require_writable(txn) # "Ok"
           \/ execute_values(p.rows) # "Ok"
           \/ OpenHeap(st, p.storage) # "Ok"
  <2>1. /\ out.cat = c /\ out.storage = st
        /\ out.status \in {require_writable(txn), execute_values(p.rows),
                           OpenHeap(st, p.storage)}
    BY <1>2 DEF execute_insert, Outcome
  <2>2. require_writable(txn) \in Statuses
    BY DEF require_writable, Statuses
  <2>3. execute_values(p.rows) \in Statuses
    BY <1>1, ExecuteValuesTyped
  <2>4. OpenHeap(st, p.storage) \in Statuses
    BY OpenHeapTyped DEF Statuses
  <2>. HIDE DEF out
  <2>. QED
    BY <2>1, <2>2, <2>3, <2>4 DEF OutcomeSound, out
<1>3. CASE /\ require_writable(txn) = "Ok"
           /\ execute_values(p.rows) = "Ok"
           /\ OpenHeap(st, p.storage) = "Ok"
  <2>1. /\ out.status = status /\ out.cat = c
        /\ out.storage = AddTuples(st, id, bag)
    BY <1>3 DEF execute_insert, Outcome, InsertStatus
  <2>2. /\ status \in Statuses /\ IsABag(bag)
        /\ \A tuple \in DOMAIN bag :
             tuple.columns = p.table.columns /\ Encoded(tuple)
        /\ status # "Ok" /\ Len(p.rows) <= 1 => DOMAIN bag = {}
    BY <1>1, InsertLoop
  <2>3. id \in DOMAIN st.tables
    BY <1>3, OpenHeapTyped
  <2>. HIDE DEF out, status, bag
  <2>4. /\ GoodStorage(AddTuples(st, id, bag))
        /\ DOMAIN bag = {} => AddTuples(st, id, bag) = st
    BY <2>2, <2>3, AddTuplesExact DEF Good
  <2>5. Known(c, AddTuples(st, id, bag), q)
    <3>1. /\ \A key \in DOMAIN c.tables_by_name :
               c.tables_by_name[key].id = id =>
                 c.tables_by_name[key].columns = p.table.columns
          /\ NamesTable(q) /\ q.table.id = id => q.table.columns = p.table.columns
      BY <1>1 DEF Compatible
    <3>. QED
      BY <2>2, <2>3, <3>1, KnownAfterTuples DEF Good
  <2>6. out.status # "Ok" /\ out.storage # st => Len(p.rows) > 1
    <3>1. Len(p.rows) \in Nat
      BY <1>1 DEF RowsTyped
    <3>. QED
      BY <2>1, <2>2, <2>4, <3>1
  <2>. QED
    BY <2>1, <2>2, <2>4, <2>5, <2>6 DEF OutcomeSound, Good, out
<1>. QED
  BY <1>2, <1>3

(* SELECT.                                                                 *)
LEMMA ExecuteSeqScanSound ==
  ASSUME NEW c, NEW st, NEW p, NEW q, Good(c, st, q)
  PROVE  OutcomeSound(execute_seq_scan(p, c, st), c, st, p, q)
<1>. DEFINE out == execute_seq_scan(p, c, st)
<1>1. /\ out.cat = c /\ out.storage = st
      /\ out.status \in {"Ok", "Corruption", OpenHeap(st, p.storage)}
  BY DEF execute_seq_scan, Outcome
<1>2. OpenHeap(st, p.storage) \in Statuses
  BY OpenHeapTyped DEF Statuses
<1>. HIDE DEF out
<1>3. out.status \in Statuses
  BY <1>1, <1>2 DEF Statuses
<1>. QED
  BY <1>1, <1>3 DEF OutcomeSound, out

LEMMA ExecuteSound ==
  ASSUME NEW c, NEW st, NEW p, NEW q, NEW txn, Good(c, st, q), Runnable(p),
         p.op # "CreateTable" =>
           /\ \A key \in DOMAIN c.tables_by_name :
                Compatible(p.table, c.tables_by_name[key])
           /\ NamesTable(q) => Compatible(p.table, q.table)
  PROVE  OutcomeSound(Execute(p, c, st, txn), c, st, p, q)
<1>1. CASE require_active(txn) # "Ok"
  <2>. DEFINE out == Execute(p, c, st, txn)
  <2>1. out.cat = c /\ out.storage = st /\ out.status = "TransactionConflict"
    BY <1>1 DEF Execute, Outcome, require_active
  <2>. QED
    BY <2>1 DEF OutcomeSound, Statuses
<1>2. CASE require_active(txn) = "Ok" /\ p.op = "CreateTable"
  <2>1. Execute(p, c, st, txn) = execute_create_table(p, c, st, txn)
    BY <1>2 DEF Execute
  <2>. QED
    BY <2>1, ExecuteCreateTableSound
<1>3. CASE require_active(txn) = "Ok" /\ p.op = "Insert"
  <2>1. Execute(p, c, st, txn) = execute_insert(p, c, st, txn)
    BY <1>3 DEF Execute
  <2>. QED
    BY <1>3, <2>1, ExecuteInsertSound
<1>4. CASE require_active(txn) = "Ok" /\ p.op = "Select"
  <2>1. Execute(p, c, st, txn) = execute_seq_scan(p, c, st)
    BY <1>4 DEF Execute
  <2>. QED
    BY <2>1, ExecuteSeqScanSound
<1>. QED
  BY <1>1, <1>2, <1>3, <1>4 DEF Runnable

-----------------------------------------------------------------------------
(* Binding and planning.                                                   *)

LEMMA BindTyped ==
  ASSUME NEW c, NEW statement \in Statements
  PROVE  Bind(c, statement) \in Statuses
<1>1. GetTable(c, statement.name).status \in Statuses
  BY DEF GetTable, LoadTable, CatalogError, CatalogResult, Statuses
<1>2. bind_create_table(c, statement) \in Statuses
  BY DEF bind_create_table, FirstFailure, BindColumnStatus, Statuses
<1>3. statement.op = "Insert" => bind_insert(c, statement) \in Statuses
  BY <1>1, InputsAssumption DEF bind_insert, TypedRow, Statuses
<1>4. bind_select(c, statement) \in Statuses
  BY <1>1 DEF bind_select
<1>. QED
  BY <1>2, <1>3, <1>4, InputsAssumption DEF Bind, Statuses

(* The plan of a statement that was bound can be run, and its table is one *)
(* of the catalog.                                                         *)
LEMMA PlanTyped ==
  ASSUME NEW c, NEW statement \in Statements, Bind(c, statement) = "Ok"
  PROVE  LET p == Plan(c, statement)
         IN /\ Runnable(p)
            /\ p.op = statement.op
            /\ p.op # "CreateTable" => \E key \in DOMAIN c.tables_by_name :
                                         p.table = c.tables_by_name[key]
            /\ p.op = "Insert" => Len(p.rows) = 1
<1>. DEFINE p == Plan(c, statement)
            table == GetTable(c, statement.name)
            key == FoldIdentifierKey(statement.name)
<1>1. table.status = "Ok" =>
        key \in DOMAIN c.tables_by_name /\ table.value = c.tables_by_name[key]
  BY DEF GetTable, LoadTable, CatalogError, CatalogResult
<1>2. statement.op \in {"CreateTable", "Insert", "Select"}
  BY InputsAssumption DEF Bind
<1>3. CASE statement.op = "CreateTable"
  BY <1>3 DEF Plan, PhysicalCreateTable, Runnable
<1>4. CASE statement.op = "Insert"
  <2>1. table.status = "Ok"
    BY <1>4 DEF Bind, bind_insert
  <2>. DEFINE rows == <<statement.row>>
  <2>2. p = [op |-> "Insert", table |-> table.value, rows |-> rows,
             storage |-> make_table_storage_reference(table.value)]
    BY <1>4 DEF Plan, PhysicalInsert
  <2>3. RowsTyped(rows) /\ Len(rows) = 1
    BY <1>4, InputsAssumption DEF RowsTyped
  <2>. HIDE DEF rows, p, table
  <2>4. /\ p.op = "Insert" /\ p.table = table.value /\ p.rows = rows
        /\ p.storage = make_table_storage_reference(p.table)
    BY <2>2
  <2>. QED
    BY <1>1, <1>4, <2>1, <2>3, <2>4 DEF Runnable, p
<1>5. CASE statement.op = "Select"
  <2>1. table.status = "Ok"
    BY <1>5 DEF Bind, bind_select
  <2>2. p = [op |-> "Select", table |-> table.value,
             storage |-> make_table_storage_reference(table.value)]
    BY <1>5 DEF Plan, PhysicalSeqScan
  <2>. HIDE DEF p, table
  <2>3. /\ p.op = "Select" /\ p.table = table.value
        /\ p.storage = make_table_storage_reference(p.table)
    BY <2>2
  <2>. QED
    BY <1>1, <1>5, <2>1, <2>3 DEF Runnable, p
<1>. QED
  BY <1>2, <1>3, <1>4, <1>5

-----------------------------------------------------------------------------
(* The inductive invariant and the steps.                                  *)

SqlInv ==
  /\ Good(cat, storage, plan)
  /\ plan # NoPlan => Runnable(plan)
  /\ cat.next_table_id <= MaxTableId + 1
  /\ cat.next_index_id <= MaxIndexId + 1
  /\ result.status \in Statuses

AtomicStep ==
  result'.status # "Ok" =>
    /\ [cat' EXCEPT !.next_table_id = 0] = [cat EXCEPT !.next_table_id = 0]
    /\ cat'.next_table_id # cat.next_table_id => result'.status = "Internal"
    /\ storage' # storage => result'.via = "Plan" /\ Len(plan.rows) > 1

LEMMA InitGood ==
  ASSUME NEW p, p = NoPlan
  PROVE  Good(EmptyCatalog, EmptyStorage, p)
<1>. DEFINE c == EmptyCatalog
            empty == << >>
<1>1. DOMAIN empty = {} /\ IsMap(empty)
  BY DEF IsMap
<1>2. c = Members(1, 1, empty, empty, empty, empty)
  BY DEF EmptyCatalog, Members
<1>. HIDE DEF c, empty
<1>3. /\ c.next_table_id = 1 /\ c.next_index_id = 1
      /\ c.tables_by_name = empty /\ c.table_names_by_id = empty
      /\ c.index_keys_by_id = empty /\ c.indexes_by_table_name = empty
  BY <1>2 DEF Members
<1>4. GoodCatalog(c)
  <2>1. c = Members(c.next_table_id, c.next_index_id, c.tables_by_name,
                    c.table_names_by_id, c.index_keys_by_id, c.indexes_by_table_name)
    BY <1>2, <1>3
  <2>. QED
    BY <1>1, <1>3, <2>1 DEF GoodCatalog, CatalogTyped, TablesAgree, IndexesAgree
<1>5. /\ EmptyStorage.next_root_page_id = 1 /\ EmptyStorage.tables = empty
      /\ EmptyStorage = [next_root_page_id |-> 1, tables |-> empty]
  BY DEF EmptyStorage, empty
<1>6. GoodStorage(EmptyStorage)
  BY <1>1, <1>5, PageIdAssumption DEF GoodStorage
<1>7. Known(c, EmptyStorage, p)
  BY <1>1, <1>3, <1>5 DEF Known, NamesTable
<1>. QED
  BY <1>4, <1>6, <1>7 DEF Good, c

LEMMA InitSqlInv == Init => SqlInv
<1>. SUFFICES ASSUME Init PROVE SqlInv
  OBVIOUS
<1>1. Good(cat, storage, plan) /\ plan = NoPlan
  BY InitGood DEF Init
<1>2. cat.next_table_id = 1 /\ cat.next_index_id = 1
  BY DEF Init, EmptyCatalog
<1>3. result.status \in Statuses
  BY DEF Init, Returned, Statuses
<1>. QED
  BY <1>1, <1>2, <1>3, InputsAssumption DEF SqlInv

(* A catalog that was not changed, or only lost an id.                     *)
LEMMA UpToId ==
  ASSUME NEW c, GoodCatalog(c), NEW d, d = c \/ d = Skipped(c)
  PROVE  [d EXCEPT !.next_table_id = 0] = [c EXCEPT !.next_table_id = 0]
<1>1. CASE d = c
  BY <1>1
<1>2. CASE d = Skipped(c)
  <2>. DEFINE n == c.next_table_id
              m == n + 1
              b == c.next_index_id
              T == c.tables_by_name
              N == c.table_names_by_id
              K == c.index_keys_by_id
              I == c.indexes_by_table_name
  <2>1. c = Members(n, b, T, N, K, I) /\ d = Members(m, b, T, N, K, I)
    BY <1>2 DEF GoodCatalog, CatalogTyped, Skipped
  <2>. HIDE DEF n, m, b, T, N, K, I
  <2>2. [c EXCEPT !.next_table_id = 0] = Members(0, b, T, N, K, I)
    BY <2>1 DEF Members
  <2>3. [d EXCEPT !.next_table_id = 0] = Members(0, b, T, N, K, I)
    BY <2>1 DEF Members
  <2>. QED
    BY <2>2, <2>3
<1>. QED
  BY <1>1, <1>2

(* Execution of a plan, by SQL or by a caller.                             *)
LEMMA OutcomeStep ==
  ASSUME SqlInv, NEW out, NEW p, OutcomeSound(out, cat, storage, p, plan),
         WithinBounds(out.cat, out.storage), cat' = out.cat, storage' = out.storage,
         plan' = plan, result'.status = out.status,
         p.op = "Insert" /\ Len(p.rows) > 1 =>
           result'.via = "Plan" /\ Len(plan.rows) > 1
  PROVE  SqlInv' /\ AtomicStep
<1>1. SqlInv'
  BY DEF SqlInv, OutcomeSound, WithinBounds
<1>2. ASSUME out.status # "Ok"
      PROVE  /\ [cat' EXCEPT !.next_table_id = 0] = [cat EXCEPT !.next_table_id = 0]
             /\ cat'.next_table_id # cat.next_table_id => result'.status = "Internal"
             /\ storage' # storage => result'.via = "Plan" /\ Len(plan.rows) > 1
  <2>1. /\ out.cat = cat \/ (out.status = "Internal" /\ out.cat = Skipped(cat))
        /\ out.storage # storage => p.op = "Insert" /\ Len(p.rows) > 1
    BY <1>2 DEF OutcomeSound
  <2>2. [cat' EXCEPT !.next_table_id = 0] = [cat EXCEPT !.next_table_id = 0]
    <3>1. GoodCatalog(cat) /\ (cat' = cat \/ cat' = Skipped(cat))
      BY <2>1 DEF SqlInv, Good
    <3>. QED
      BY <3>1, UpToId, Zenon
  <2>. QED
    BY <2>1, <2>2
<1>. QED
  BY <1>1, <1>2 DEF AtomicStep

(* A statement that is not bound changes nothing.                          *)
LEMMA ExecuteSqlStep ==
  ASSUME SqlInv, NEW statement \in Statements, NEW txn, ExecuteSql(statement, txn)
  PROVE  SqlInv' /\ AtomicStep
<1>. DEFINE bound == Bind(cat, statement)
            p == Plan(cat, statement)
            out == IF bound # "Ok" THEN Outcome(bound, cat, storage, EmptyBag)
                   ELSE Execute(p, cat, storage, txn)
<1>1. /\ WithinBounds(out.cat, out.storage)
      /\ cat' = out.cat /\ storage' = out.storage /\ plan' = plan
      /\ result' = Returned("Sql", statement.op, StatementKey(statement),
                            out.status, out.rows)
  BY DEF ExecuteSql
<1>2. result'.status = out.status
  <2>. HIDE DEF out
  <2>. QED
    BY <1>1 DEF Returned
<1>3. CASE bound # "Ok"
  <2>1. out.cat = cat /\ out.storage = storage /\ out.status = bound
    BY <1>3 DEF Outcome
  <2>2. bound \in Statuses
    BY BindTyped
  <2>. HIDE DEF out, bound
  <2>. DEFINE none == [op |-> "None"]
  <2>3. OutcomeSound(out, cat, storage, none, plan)
    BY <2>1, <2>2 DEF OutcomeSound, SqlInv
  <2>4. none.op # "Insert"
    OBVIOUS
  <2>. HIDE DEF none
  <2>. QED
    BY <1>1, <1>2, <2>3, <2>4, OutcomeStep
<1>4. CASE bound = "Ok"
  <2>1. /\ Runnable(p)
        /\ p.op # "CreateTable" => \E key \in DOMAIN cat.tables_by_name :
                                     p.table = cat.tables_by_name[key]
        /\ p.op = "Insert" => Len(p.rows) = 1
    BY <1>4, PlanTyped
  <2>2. out = Execute(p, cat, storage, txn)
    BY <1>4
  <2>. HIDE DEF out, p
  <2>3. ASSUME p.op # "CreateTable"
        PROVE  /\ \A k \in DOMAIN cat.tables_by_name :
                    Compatible(p.table, cat.tables_by_name[k])
               /\ NamesTable(plan) => Compatible(p.table, plan.table)
    <3>1. PICK key \in DOMAIN cat.tables_by_name : p.table = cat.tables_by_name[key]
      BY <2>1, <2>3
    <3>2. \A k \in DOMAIN cat.tables_by_name : Compatible(p.table, cat.tables_by_name[k])
      BY <3>1, TablesCompatible DEF SqlInv, Good
    <3>3. NamesTable(plan) => Compatible(plan.table, p.table)
      BY <3>1 DEF SqlInv, Good, Known
    <3>. QED
      BY <3>2, <3>3 DEF Compatible
  <2>4. OutcomeSound(out, cat, storage, p, plan)
    BY <2>1, <2>2, <2>3, ExecuteSound DEF SqlInv
  <2>5. ~(p.op = "Insert" /\ Len(p.rows) > 1)
    <3>. DEFINE n == Len(p.rows)
    <3>1. p.op = "Insert" => n = 1
      BY <2>1
    <3>. HIDE DEF n
    <3>2. ~(p.op = "Insert" /\ n > 1)
      BY <3>1
    <3>. QED
      BY <3>2 DEF n
  <2>. QED
    BY <1>1, <1>2, <2>4, <2>5, OutcomeStep
<1>. QED
  BY <1>3, <1>4

LEMMA ExecutePlanStep ==
  ASSUME SqlInv, NEW txn, ExecutePlan(txn)
  PROVE  SqlInv' /\ AtomicStep
<1>. DEFINE out == Execute(plan, cat, storage, txn)
<1>1. /\ WithinBounds(out.cat, out.storage)
      /\ cat' = out.cat /\ storage' = out.storage /\ plan' = plan
      /\ result' = Returned("Plan", plan.op, PlanKey(plan), out.status, out.rows)
      /\ plan # NoPlan
  BY DEF ExecutePlan
<1>2. OutcomeSound(out, cat, storage, plan, plan)
  <2>1. Runnable(plan)
    BY <1>1 DEF SqlInv
  <2>2. plan.op # "CreateTable" =>
          /\ \A key \in DOMAIN cat.tables_by_name :
               Compatible(plan.table, cat.tables_by_name[key])
          /\ NamesTable(plan) => Compatible(plan.table, plan.table)
    BY <1>1 DEF SqlInv, Good, Known, NamesTable, Compatible
  <2>. QED
    BY <2>1, <2>2, ExecuteSound DEF SqlInv
<1>. HIDE DEF out
<1>3. result'.status = out.status /\ result'.via = "Plan"
  BY <1>1 DEF Returned
<1>. QED
  BY <1>1, <1>2, <1>3, OutcomeStep

(* A plan is made: catalog and storage stay.                               *)
LEMMA PlanStep ==
  ASSUME SqlInv, cat' = cat, storage' = storage, result'.status \in Statuses,
         \/ plan' = plan
         \/ /\ Runnable(plan')
            /\ plan'.op # "CreateTable" => \E key \in DOMAIN cat.tables_by_name :
                                             plan'.table = cat.tables_by_name[key]
  PROVE  SqlInv' /\ AtomicStep
<1>1. Good(cat, storage, plan')
  <2>1. CASE plan' = plan
    BY <2>1 DEF SqlInv
  <2>2. CASE plan'.op # "CreateTable" => \E key \in DOMAIN cat.tables_by_name :
                                            plan'.table = cat.tables_by_name[key]
    <3>1. GoodCatalog(cat) /\ GoodStorage(storage) /\ Known(cat, storage, plan)
      BY DEF SqlInv, Good
    <3>2. NamesTable(plan') => \E key \in DOMAIN cat.tables_by_name :
                                 plan'.table = cat.tables_by_name[key]
      BY <2>2 DEF NamesTable
    <3>3. Known(cat, storage, plan')
      BY <3>1, <3>2, KnownAfterPlan
    <3>. QED
      BY <3>1, <3>3 DEF Good
  <2>. QED
    BY <2>1, <2>2
<1>2. plan' # NoPlan => Runnable(plan')
  BY DEF SqlInv
<1>. QED
  BY <1>1, <1>2 DEF SqlInv, AtomicStep

LEMMA PrepareStep ==
  ASSUME SqlInv, NEW statement \in Statements, Prepare(statement)
  PROVE  SqlInv' /\ AtomicStep
<1>. DEFINE bound == Bind(cat, statement)
            p == Plan(cat, statement)
<1>1. /\ cat' = cat /\ storage' = storage
      /\ plan' = IF bound = "Ok" THEN p ELSE plan
      /\ result' = Returned("Planner", statement.op, StatementKey(statement),
                            bound, EmptyBag)
  BY DEF Prepare
<1>2. bound \in Statuses
  BY BindTyped
<1>3. bound = "Ok" =>
        /\ Runnable(p)
        /\ p.op # "CreateTable" => \E key \in DOMAIN cat.tables_by_name :
                                     p.table = cat.tables_by_name[key]
  BY PlanTyped
<1>. HIDE DEF bound, p
<1>4. result'.status \in Statuses
  BY <1>1, <1>2 DEF Returned
<1>. QED
  BY <1>1, <1>3, <1>4, PlanStep

LEMMA BuildInsertStep ==
  ASSUME SqlInv, NEW key \in DOMAIN cat.tables_by_name, NEW rows \in RowLists,
         BuildInsert(key, rows)
  PROVE  SqlInv' /\ AtomicStep
<1>. DEFINE table == cat.tables_by_name[key]
<1>1. /\ cat' = cat /\ storage' = storage
      /\ plan' = [op |-> "Insert", table |-> table, rows |-> rows,
                  storage |-> make_table_storage_reference(table)]
  BY DEF BuildInsert, PhysicalInsert
<1>2. result'.status \in Statuses
  BY DEF BuildInsert, Returned, Statuses
<1>3. RowsTyped(rows)
  <2>. DEFINE S == {rows[i] : i \in DOMAIN rows}
  <2>1. rows \in Seq(S) /\ \A i \in DOMAIN rows : TypedRow(rows[i])
    BY InputsAssumption
  <2>. HIDE DEF S
  <2>2. Len(rows) \in Nat /\ DOMAIN rows = 1 .. Len(rows)
    BY <2>1
  <2>. QED
    BY <2>1, <2>2 DEF RowsTyped
<1>. HIDE DEF table
<1>4. Runnable(plan') /\ plan'.table = table
  BY <1>1, <1>3 DEF Runnable
<1>. QED
  BY <1>1, <1>2, <1>4, PlanStep DEF table

(* A call on the catalog.                                                  *)
LEMMA CatalogCallStep ==
  ASSUME SqlInv, NEW op, NEW key, NEW r, CatalogCall(op, key, r),
         GoodCatalog(r.cat), Known(r.cat, storage, plan),
         r.status \in Statuses, r.status # "Ok" => r.cat = cat
  PROVE  SqlInv' /\ AtomicStep
<1>1. /\ cat' = r.cat /\ storage' = storage /\ plan' = plan
      /\ result'.status = r.status /\ WithinBounds(r.cat, storage)
  BY DEF CatalogCall, Returned
<1>2. SqlInv'
  BY <1>1 DEF SqlInv, Good, WithinBounds
<1>. QED
  BY <1>1, <1>2 DEF AtomicStep

LEMMA CatalogCreateTableStep ==
  ASSUME SqlInv, NEW request, CatalogCreateTable(request)
  PROVE  SqlInv' /\ AtomicStep
<1>. DEFINE r == CreateTable(cat, request)
            d == WithTable(cat, request)
<1>1. CatalogCall("CreateTable", FoldIdentifierKey(request.name), r)
  BY DEF CatalogCreateTable
<1>2. GoodCatalog(cat) /\ Known(cat, storage, plan)
  BY DEF SqlInv, Good
<1>3. CreateTableStatus(cat, request) \in Statuses
  BY DEF CreateTableStatus, FirstFailure, ColumnStatus, validate_column, Statuses
<1>4. \/ r.status # "Ok" /\ r.status \in Statuses /\ r.cat = cat
      \/ /\ r.status = "Ok" /\ r.cat = d
         /\ FoldIdentifierKey(request.name) \notin DOMAIN cat.tables_by_name
  BY <1>2, <1>3, CreateTableExact
<1>. HIDE DEF r
<1>5. GoodCatalog(r.cat) /\ Known(r.cat, storage, plan)
  <2>1. CASE r.cat = cat
    BY <1>2, <2>1
  <2>2. CASE /\ r.cat = d
             /\ FoldIdentifierKey(request.name) \notin DOMAIN cat.tables_by_name
    <3>1. GoodCatalog(d) /\ Descends(cat, d)
      BY <1>2, <2>2, WithTableGood, WithTableDescends
    <3>2. Known(d, storage, plan)
      BY <1>2, <3>1, KnownAfterCatalog
    <3>. QED
      BY <2>2, <3>1, <3>2
  <2>. QED
    BY <1>4, <2>1, <2>2
<1>6. r.status \in Statuses /\ (r.status # "Ok" => r.cat = cat)
  BY <1>4 DEF Statuses
<1>. QED
  BY <1>1, <1>5, <1>6, CatalogCallStep

LEMMA CatalogDropTableStep ==
  ASSUME SqlInv, NEW name, CatalogDropTable(name)
  PROVE  SqlInv' /\ AtomicStep
<1>. DEFINE r == DropTable(cat, name)
            key == FoldIdentifierKey(name)
            d == WithoutTable(cat, key)
<1>1. CatalogCall("DropTable", key, r)
  BY DEF CatalogDropTable
<1>2. GoodCatalog(cat) /\ Known(cat, storage, plan)
  BY DEF SqlInv, Good
<1>3. \/ r.status = "NotFound" /\ r.cat = cat
      \/ r.status = "Ok" /\ r.cat = d /\ key \in DOMAIN cat.tables_by_name
  BY <1>2, DropTableExact
<1>. HIDE DEF r
<1>4. GoodCatalog(r.cat) /\ Known(r.cat, storage, plan)
  <2>1. CASE r.cat = cat
    BY <1>2, <2>1
  <2>2. CASE r.cat = d /\ key \in DOMAIN cat.tables_by_name
    <3>1. GoodCatalog(d) /\ Descends(cat, d)
      BY <1>2, <2>2, WithoutTableGood, WithoutTableDescends
    <3>2. Known(d, storage, plan)
      BY <1>2, <3>1, KnownAfterCatalog
    <3>. QED
      BY <2>2, <3>1, <3>2
  <2>. QED
    BY <1>3, <2>1, <2>2
<1>5. r.status \in Statuses /\ (r.status # "Ok" => r.cat = cat)
  BY <1>3 DEF Statuses
<1>. QED
  BY <1>1, <1>4, <1>5, CatalogCallStep

LEMMA CatalogCreateIndexStep ==
  ASSUME SqlInv, NEW request, CatalogCreateIndex(request)
  PROVE  SqlInv' /\ AtomicStep
<1>. DEFINE r == CreateIndex(cat, request)
            key == FoldIdentifierKey(request.table_name)
            name == FoldIdentifierKey(request.name)
            index == NewIndex(cat, request)
            d == WithIndex(cat, key, name, index)
<1>1. CatalogCall("CreateIndex", key, r)
  BY DEF CatalogCreateIndex
<1>2. GoodCatalog(cat) /\ Known(cat, storage, plan)
  BY DEF SqlInv, Good
<1>3. CreateIndexStatus(cat, request) \in Statuses
  BY DEF CreateIndexStatus, LoadTable, CatalogError, CatalogResult,
         FirstFailure, KeyColumnStatus, Statuses
<1>4. \/ r.status # "Ok" /\ r.status \in Statuses /\ r.cat = cat
      \/ /\ r.status = "Ok" /\ r.cat = d
         /\ key \in DOMAIN cat.tables_by_name
         /\ name \notin DOMAIN IndexesOf(cat, key)
  BY <1>2, <1>3, CreateIndexExact
<1>5. index.id = cat.next_index_id /\ index.table_id = cat.tables_by_name[key].id
  BY DEF NewIndex
<1>. HIDE DEF r, index
<1>6. GoodCatalog(r.cat) /\ Known(r.cat, storage, plan)
  <2>1. CASE r.cat = cat
    BY <1>2, <2>1
  <2>2. CASE /\ r.cat = d
             /\ key \in DOMAIN cat.tables_by_name
             /\ name \notin DOMAIN IndexesOf(cat, key)
    <3>1. GoodCatalog(d) /\ Descends(cat, d)
      BY <1>2, <1>5, <2>2, WithIndexGood, WithIndexDescends
    <3>2. Known(d, storage, plan)
      BY <1>2, <3>1, KnownAfterCatalog
    <3>. QED
      BY <2>2, <3>1, <3>2
  <2>. QED
    BY <1>4, <2>1, <2>2
<1>7. r.status \in Statuses /\ (r.status # "Ok" => r.cat = cat)
  BY <1>4 DEF Statuses
<1>. QED
  BY <1>1, <1>6, <1>7, CatalogCallStep

LEMMA CatalogSetTableHeapRootStep ==
  ASSUME SqlInv, NEW id, NEW root, CatalogSetTableHeapRoot(id, root)
  PROVE  SqlInv' /\ AtomicStep
<1>. DEFINE r == SetTableHeapRoot(cat, id, root)
            key == cat.table_names_by_id[id]
            d == WithRoot(cat, key, root)
<1>1. /\ CatalogCall("SetTableHeapRoot", "", r)
      /\ \/ root = kInvalidPageId
         \/ id \in DOMAIN storage.tables /\ root = storage.tables[id].root_page_id
  BY DEF CatalogSetTableHeapRoot
<1>2. GoodCatalog(cat) /\ Known(cat, storage, plan)
  BY DEF SqlInv, Good
<1>3. \/ r.status \in {"InvalidArgument", "NotFound"} /\ r.cat = cat
      \/ /\ r.status = "Ok" /\ r.cat = d
         /\ root # kInvalidPageId /\ id \in DOMAIN cat.table_names_by_id
  BY <1>2, SetTableHeapRootExact
<1>. HIDE DEF r
<1>4. GoodCatalog(r.cat) /\ Known(r.cat, storage, plan)
  <2>1. CASE r.cat = cat
    BY <1>2, <2>1
  <2>2. CASE /\ r.cat = d
             /\ root # kInvalidPageId /\ id \in DOMAIN cat.table_names_by_id
    <3>1. key \in DOMAIN cat.tables_by_name /\ cat.tables_by_name[key].id = id
      BY <1>2, <2>2 DEF GoodCatalog, TablesAgree
    <3>2. GoodCatalog(d)
      BY <1>2, <3>1, WithRootGood
    <3>3. id \in DOMAIN storage.tables /\ storage.tables[id].root_page_id = root
      BY <1>1, <2>2
    <3>4. Known(d, storage, plan)
      <4>. HIDE DEF key
      <4>. QED
        BY <1>2, <3>1, <3>3, KnownAfterRoot
    <3>. QED
      BY <2>2, <3>2, <3>4
  <2>. QED
    BY <1>3, <2>1, <2>2
<1>5. r.status \in Statuses /\ (r.status # "Ok" => r.cat = cat)
  BY <1>3 DEF Statuses
<1>. QED
  BY <1>1, <1>4, <1>5, CatalogCallStep

LEMMA StorageCreateHeapStep ==
  ASSUME SqlInv, NEW id \in 1 .. MaxTableId, StorageCreateHeap(id)
  PROVE  SqlInv' /\ AtomicStep
<1>. DEFINE heap == CreateHeap(storage, id)
<1>1. /\ id < cat.next_table_id /\ storage' = heap.storage
      /\ cat' = cat /\ plan' = plan /\ result'.status = heap.status
  BY DEF StorageCreateHeap, Returned
<1>2. GoodCatalog(cat) /\ GoodStorage(storage) /\ Known(cat, storage, plan)
  BY DEF SqlInv, Good
<1>3. \/ /\ heap.status \in {"AlreadyExists", "Internal"}
         /\ heap.storage = storage
      \/ /\ heap.status = "Ok" /\ heap.storage = WithHeap(storage, id)
         /\ storage.next_root_page_id # kInvalidPageId
         /\ id \notin DOMAIN storage.tables
  BY CreateHeapExact
<1>. HIDE DEF heap
<1>4. id \in Nat \ {0}
  BY InputsAssumption
<1>5. Good(cat, storage', plan)
  <2>1. CASE heap.storage = storage
    BY <1>1, <1>2, <2>1 DEF Good
  <2>2. CASE /\ heap.storage = WithHeap(storage, id)
             /\ storage.next_root_page_id # kInvalidPageId
             /\ id \notin DOMAIN storage.tables
    <3>1. GoodStorage(WithHeap(storage, id))
      BY <1>2, <2>2, WithHeapGood
    <3>2. Known(cat, WithHeap(storage, id), plan)
      BY <1>1, <1>2, <1>4, <2>2, KnownAfterHeap
    <3>. QED
      BY <1>1, <1>2, <2>2, <3>1, <3>2 DEF Good
  <2>. QED
    BY <1>3, <2>1, <2>2
<1>6. heap.status \in Statuses /\ (heap.status # "Ok" => storage' = storage)
  BY <1>1, <1>3 DEF Statuses
<1>. QED
  BY <1>1, <1>5, <1>6 DEF SqlInv, AtomicStep

LEMMA NextSqlInv ==
  ASSUME SqlInv, Next
  PROVE  SqlInv' /\ AtomicStep
BY PrepareStep, ExecuteSqlStep, BuildInsertStep, ExecutePlanStep,
   CatalogCreateTableStep, CatalogDropTableStep, CatalogCreateIndexStep,
   CatalogSetTableHeapRootStep, StorageCreateHeapStep DEF Next

-----------------------------------------------------------------------------
(* The theorems.                                                           *)

(* Whatever callers create, drop, prepare, run late or let fail, catalog   *)
(* and storage stay well formed, and the catalog's tables and the plan a   *)
(* caller holds agree with the heaps.                                      *)
THEOREM SqlInvariant == Spec => []SqlInv
<1>1. SqlInv /\ [Next]_vars => SqlInv'
  <2>1. ASSUME SqlInv, UNCHANGED vars PROVE SqlInv'
    BY <2>1 DEF vars, SqlInv
  <2>. QED
    BY <2>1, NextSqlInv
<1>. QED
  BY <1>1, InitSqlInv, PTL DEF Spec

(* Ids, root pages and statuses stay in their ranges.                      *)
THEOREM EngineTypeCorrect == Spec => []TypeOK
<1>1. ASSUME SqlInv PROVE TypeOK
  <2>1. GoodCatalog(cat) /\ GoodStorage(storage) /\ Known(cat, storage, plan)
    BY <1>1 DEF SqlInv, Good
  <2>2. /\ cat.next_table_id \in Nat \ {0} /\ cat.next_index_id \in Nat \ {0}
        /\ cat.next_table_id <= MaxTableId + 1 /\ cat.next_index_id <= MaxIndexId + 1
    BY <1>1, <2>1 DEF SqlInv, GoodCatalog, CatalogTyped
  <2>3. /\ cat.next_table_id \in 1 .. MaxTableId + 1
        /\ cat.next_index_id \in 1 .. MaxIndexId + 1
    BY <2>2, InputsAssumption
  <2>4. DOMAIN cat.table_names_by_id \subseteq 1 .. MaxTableId
    BY <2>1, <2>2, TableIdsIssued, InputsAssumption
  <2>5. DOMAIN cat.index_keys_by_id \subseteq 1 .. MaxIndexId
    <3>1. \A id \in DOMAIN cat.index_keys_by_id :
            id \in Nat \ {0} /\ id < cat.next_index_id
      BY <2>1 DEF GoodCatalog, IndexesAgree
    <3>. QED
      BY <2>2, <3>1, InputsAssumption
  <2>6. DOMAIN storage.tables \subseteq 1 .. MaxTableId
    <3>1. \A id \in DOMAIN storage.tables : id \in Nat \ {0} /\ id < cat.next_table_id
      BY <2>1 DEF Known
    <3>. QED
      BY <2>2, <3>1, InputsAssumption
  <2>7. /\ storage.next_root_page_id \in 1 .. kInvalidPageId
        /\ \A id \in DOMAIN storage.tables : IsABag(storage.tables[id].tuples)
    BY <2>1 DEF GoodStorage, HeapRecord
  <2>. QED
    BY <1>1, <2>3, <2>4, <2>5, <2>6, <2>7 DEF TypeOK, SqlInv
<1>. QED
  BY <1>1, SqlInvariant, PTL

(* The four maps of InMemoryHostedCatalogApi describe the same tables and  *)
(* indexes after any sequence of creations, drops and rollbacks.           *)
THEOREM CatalogStaysConsistent == Spec => []CatalogConsistent
<1>1. ASSUME SqlInv PROVE CatalogConsistent
  <2>1. GoodCatalog(cat)
    BY <1>1 DEF SqlInv, Good
  <2>. DEFINE T == cat.tables_by_name
  <2>2. ASSUME NEW key \in DOMAIN T
        PROVE  /\ FoldIdentifierKey(T[key].name) = key
               /\ T[key].id < cat.next_table_id
               /\ T[key].id \in DOMAIN cat.table_names_by_id
               /\ cat.table_names_by_id[T[key].id] = key
               /\ ToSet(T[key].indexes) = Range(IndexesOf(cat, key))
               /\ \A index \in Range(IndexesOf(cat, key)) :
                    /\ index.table_id = T[key].id
                    /\ index.id \in DOMAIN cat.index_keys_by_id
    <3>1. /\ FoldIdentifierKey(T[key].name) = key
          /\ T[key].id < cat.next_table_id
          /\ T[key].id \in DOMAIN cat.table_names_by_id
          /\ cat.table_names_by_id[T[key].id] = key
      BY <2>1 DEF GoodCatalog, TablesAgree
    <3>2. /\ ToSet(T[key].indexes) = Range(IndexesOf(cat, key))
          /\ \A name \in DOMAIN IndexesOf(cat, key) :
               /\ IndexesOf(cat, key)[name].table_id = T[key].id
               /\ IndexesOf(cat, key)[name].id \in DOMAIN cat.index_keys_by_id
      BY <2>1 DEF GoodCatalog, IndexesAgree
    <3>3. \A index \in Range(IndexesOf(cat, key)) :
            \E name \in DOMAIN IndexesOf(cat, key) : index = IndexesOf(cat, key)[name]
      BY DEF Range
    <3>. QED
      BY <3>1, <3>2, <3>3
  <2>3. /\ Range(cat.table_names_by_id) \subseteq DOMAIN T
        /\ DOMAIN cat.indexes_by_table_name \subseteq DOMAIN T
    BY <2>1 DEF GoodCatalog, TablesAgree, IndexesAgree, Range
  <2>4. ASSUME NEW id \in DOMAIN cat.index_keys_by_id
        PROVE  LET keys == cat.index_keys_by_id[id]
               IN /\ id < cat.next_index_id
                  /\ keys[1] \in DOMAIN T
                  /\ keys[2] \in DOMAIN IndexesOf(cat, keys[1])
                  /\ IndexesOf(cat, keys[1])[keys[2]].id = id
    <3>1. id < cat.next_index_id
      BY <2>1 DEF GoodCatalog, IndexesAgree
    <3>2. PICK key \in DOMAIN T : \E name \in DOMAIN IndexesOf(cat, key) :
                 /\ cat.index_keys_by_id[id] = <<key, name>>
                 /\ IndexesOf(cat, key)[name].id = id
      BY <2>1 DEF GoodCatalog, IndexesAgree
    <3>. QED
      BY <3>1, <3>2
  <2>. QED
    BY <2>2, <2>3, <2>4 DEF CatalogConsistent
<1>. QED
  BY <1>1, SqlInvariant, PTL

(* Every root page that the catalog or a plan names, however old the plan, *)
(* is the root of that table's heap, so that OpenHeap finds it.            *)
THEOREM RootsAlwaysResolve == Spec => []RootsResolve
<1>1. ASSUME SqlInv PROVE RootsResolve
  <2>1. ASSUME NEW table, Sound(table, cat, storage),
               table.heap_root_page_id # kInvalidPageId
        PROVE  OpenHeap(storage, make_table_storage_reference(table)) = "Ok"
    BY <2>1 DEF Sound, OpenHeap, make_table_storage_reference
  <2>2. /\ \A key \in DOMAIN cat.tables_by_name :
             Sound(cat.tables_by_name[key], cat, storage)
        /\ NamesTable(plan) =>
             /\ Sound(plan.table, cat, storage)
             /\ plan.storage = make_table_storage_reference(plan.table)
    BY <1>1 DEF SqlInv, Good, Known, NamesTable, Runnable
  <2>3. \A table :
          make_table_storage_reference(table).root_page_id = table.heap_root_page_id
    BY DEF make_table_storage_reference
  <2>4. \A a, b \in DOMAIN storage.tables :
          storage.tables[a].root_page_id = storage.tables[b].root_page_id => a = b
    BY <1>1 DEF SqlInv, Good, GoodStorage
  <2>. QED
    BY <2>1, <2>2, <2>3, <2>4 DEF RootsResolve, NamesTable
<1>. QED
  BY <1>1, SqlInvariant, PTL

(* A scan never meets a tuple that was encoded with another schema than    *)
(* the one it decodes with, although table names are dropped and created   *)
(* again and plans are executed late.                                      *)
THEOREM TuplesAlwaysDecode == Spec => []TuplesDecode
<1>1. ASSUME SqlInv PROVE TuplesDecode
  <2>1. /\ \A key \in DOMAIN cat.tables_by_name :
             Sound(cat.tables_by_name[key], cat, storage)
        /\ NamesTable(plan) => Sound(plan.table, cat, storage)
    BY <1>1 DEF SqlInv, Good, Known
  <2>. QED
    BY <2>1 DEF TuplesDecode, Sound, NamesTable, Decodes, BagToSet
<1>. QED
  BY <1>1, SqlInvariant, PTL

(* A call that fails leaves catalog and storage as they were, but for the  *)
(* id of a CREATE TABLE that was rolled back and the rows of a plan before *)
(* the failing one.                                                        *)
THEOREM FailuresAreAtomic == Spec => FailureAtomic
<1>1. SqlInv /\ [Next]_vars => [AtomicStep]_vars
  BY NextSqlInv
<1>. QED
  BY <1>1, SqlInvariant, PTL DEF Spec, FailureAtomic, AtomicStep

-----------------------------------------------------------------------------
(* The engine implements the table store.  Rows and tuples.                *)

(* The tuples of the bag were all encoded with these columns.              *)
Uniform(bag, columns) == \A tuple \in DOMAIN bag : tuple = Encode(columns, tuple.row)

(* Rows and tuples of one schema correspond one to one.                    *)
LEMMA EncodeInjective ==
  ASSUME NEW columns, NEW r, NEW s
  PROVE  /\ Encode(columns, r).row = r
         /\ Encode(columns, r) = Encode(columns, s) <=> r = s
<1>1. \A x : Encode(columns, x).row = x
  BY DEF Encode
<1>. QED
  BY <1>1

(* So the rows of a heap are its tuples, with the schema taken off.        *)
LEMMA RowsExact ==
  ASSUME NEW bag, IsABag(bag), NEW columns, Uniform(bag, columns)
  PROVE  /\ RowsOf(bag) = [row \in {tuple.row : tuple \in DOMAIN bag} |->
                             bag[Encode(columns, row)]]
         /\ \A row : row \in {tuple.row : tuple \in DOMAIN bag}
                       <=> Encode(columns, row) \in DOMAIN bag
<1>. DEFINE rows == {tuple.row : tuple \in DOMAIN bag}
            copies == UNION {{tuple} \X (1 .. bag[tuple]) : tuple \in DOMAIN bag}
            Of(row) == {copy \in copies : copy[1].row = row}
<1>1. \A row : row \in rows <=> Encode(columns, row) \in DOMAIN bag
  <2>1. ASSUME NEW row \in rows PROVE Encode(columns, row) \in DOMAIN bag
    BY DEF Uniform
  <2>2. ASSUME NEW row, Encode(columns, row) \in DOMAIN bag PROVE row \in rows
    BY <2>2, EncodeInjective
  <2>. QED
    BY <2>1, <2>2
<1>2. ASSUME NEW row \in rows
      PROVE  Cardinality(Of(row)) = bag[Encode(columns, row)]
  <2>. DEFINE t == Encode(columns, row)
              n == bag[t]
  <2>1. t \in DOMAIN bag /\ n \in Nat
    BY <1>1 DEF IsABag
  <2>2. Of(row) = {t} \X (1 .. n)
    <3>1. ASSUME NEW copy \in Of(row) PROVE copy \in {t} \X (1 .. n)
      <4>1. PICK tuple \in DOMAIN bag : copy \in {tuple} \X (1 .. bag[tuple])
        OBVIOUS
      <4>2. copy[1] = tuple
        BY <4>1
      <4>3. tuple = t
        BY <4>2 DEF Uniform
      <4>. QED
        BY <4>1, <4>3
    <3>2. ASSUME NEW copy \in {t} \X (1 .. n) PROVE copy \in Of(row)
      <4>1. copy \in copies
        BY <2>1
      <4>2. copy[1] = t /\ t.row = row
        BY EncodeInjective
      <4>. HIDE DEF copies, t
      <4>. QED
        BY <4>1, <4>2
    <3>. HIDE DEF Of, t
    <3>. QED
      BY <3>1, <3>2
  <2>. HIDE DEF t, n
  <2>. DEFINE one == {t}
              places == 1 .. n
  <2>3. IsFiniteSet(places) /\ Cardinality(places) = n
    BY <2>1, FS_Interval
  <2>4. IsFiniteSet(one) /\ Cardinality(one) = 1
    BY FS_Singleton
  <2>. HIDE DEF one, places
  <2>5. Cardinality(one \X places) = 1 * n
    <3>1. Cardinality(one \X places) = Cardinality(one) * Cardinality(places)
      BY <2>3, <2>4, FS_Product
    <3>. QED
      BY <3>1, <2>3, <2>4
  <2>6. Of(row) = one \X places
    BY <2>2 DEF one, places
  <2>7. Cardinality(Of(row)) = n
    <3>1. 1 * n = n
      BY <2>1
    <3>. HIDE DEF Of
    <3>. QED
      BY <3>1, <2>5, <2>6
  <2>. HIDE DEF Of
  <2>. QED
    BY <2>7 DEF n, t
<1>3. RowsOf(bag) = [row \in rows |-> Cardinality(Of(row))]
  BY DEF RowsOf
<1>. HIDE DEF Of, rows
<1>4. RowsOf(bag) = [row \in rows |-> bag[Encode(columns, row)]]
  BY <1>2, <1>3
<1>. QED
  BY <1>1, <1>4 DEF rows

(* The rows of tuples that are added are added to the rows.                *)
LEMMA RowsAdded ==
  ASSUME NEW A, NEW B, IsABag(A), IsABag(B), NEW columns,
         Uniform(A, columns), Uniform(B, columns)
  PROVE  RowsOf(A (+) B) = RowsOf(A) (+) RowsOf(B)
<1>. DEFINE RA == {tuple.row : tuple \in DOMAIN A}
            RB == {tuple.row : tuple \in DOMAIN B}
            C == A (+) B
            RC == {tuple.row : tuple \in DOMAIN C}
            T(row) == Encode(columns, row)
<1>1. IsABag(C) /\ DOMAIN C = DOMAIN A \cup DOMAIN B
  BY BagUnionTyped
<1>2. Uniform(C, columns)
  BY <1>1 DEF Uniform
<1>3. /\ RowsOf(A) = [row \in RA |-> A[T(row)]]
      /\ \A row : row \in RA <=> T(row) \in DOMAIN A
  BY RowsExact
<1>4. /\ RowsOf(B) = [row \in RB |-> B[T(row)]]
      /\ \A row : row \in RB <=> T(row) \in DOMAIN B
  BY RowsExact
<1>5. /\ RowsOf(C) = [row \in RC |-> C[T(row)]]
      /\ \A row : row \in RC <=> T(row) \in DOMAIN C
  <2>. HIDE DEF C
  <2>. QED
    BY <1>1, <1>2, RowsExact
<1>6. C = [x \in DOMAIN A \cup DOMAIN B |->
             (IF x \in DOMAIN A THEN A[x] ELSE 0)
               + (IF x \in DOMAIN B THEN B[x] ELSE 0)]
  BY DEF (+)
<1>. HIDE DEF RA, RB, RC, C, T
<1>7. RC = RA \cup RB
  BY <1>1, <1>3, <1>4, <1>5
<1>8. ASSUME NEW row \in RC
      PROVE  C[T(row)] = (IF row \in RA THEN RowsOf(A)[row] ELSE 0)
                           + (IF row \in RB THEN RowsOf(B)[row] ELSE 0)
  BY <1>1, <1>3, <1>4, <1>5, <1>6
<1>9. DOMAIN RowsOf(A) = RA /\ DOMAIN RowsOf(B) = RB
  BY <1>3, <1>4
<1>10. RowsOf(A) (+) RowsOf(B) =
         [row \in RA \cup RB |-> (IF row \in RA THEN RowsOf(A)[row] ELSE 0)
                                   + (IF row \in RB THEN RowsOf(B)[row] ELSE 0)]
  BY <1>9 DEF (+)
<1>. QED
  BY <1>5, <1>7, <1>8, <1>10 DEF C

(* The rows of the tuples that the loop of an INSERT stored.               *)
LEMMA RowsStored ==
  ASSUME NEW rows, NEW columns, NEW k \in Nat, k <= Len(rows), RowsTyped(rows)
  PROVE  LET stored == [i \in 1 .. k |-> Encode(columns, rows[i])]
         IN /\ IsABag(ToBag(stored))
            /\ Uniform(ToBag(stored), columns)
            /\ RowsOf(ToBag(stored)) = ToBag(SubSeq(rows, 1, k))
<1>. DEFINE stored == [i \in 1 .. k |-> Encode(columns, rows[i])]
            first == [i \in 1 .. k |-> rows[i]]
            At(x) == {i \in 1 .. k : stored[i] = x}
            R == {tuple.row : tuple \in DOMAIN ToBag(stored)}
<1>1. SubSeq(rows, 1, k) = first
  BY DEF RowsTyped
<1>2. /\ DOMAIN stored = 1 .. k /\ DOMAIN first = 1 .. k
      /\ \A i \in 1 .. k : stored[i] = Encode(columns, rows[i]) /\ first[i] = rows[i]
  OBVIOUS
<1>3. ToBag(stored) = [x \in Range(stored) |-> Cardinality(At(x))]
  BY DEF ToBag
<1>4. ToBag(first) = [x \in Range(first) |-> Cardinality({i \in 1 .. k : first[i] = x})]
  BY DEF ToBag
<1>. HIDE DEF stored, first
<1>5. \A x \in Range(stored) : Cardinality(At(x)) \in Nat \ {0}
  <2>1. SUFFICES ASSUME NEW x \in Range(stored)
                 PROVE  Cardinality(At(x)) \in Nat \ {0}
    OBVIOUS
  <2>2. IsFiniteSet(1 .. k)
    BY FS_Interval
  <2>3. At(x) \subseteq 1 .. k
    OBVIOUS
  <2>4. At(x) # {}
    BY <1>2 DEF Range
  <2>. HIDE DEF At
  <2>5. IsFiniteSet(At(x))
    BY <2>2, <2>3, FS_Subset
  <2>. QED
    BY <2>4, <2>5, FS_CardinalityType, FS_EmptySet
<1>6. IsABag(ToBag(stored)) /\ DOMAIN ToBag(stored) = Range(stored)
  <2>. HIDE DEF At
  <2>. QED
    BY <1>3, <1>5 DEF IsABag
<1>7. Uniform(ToBag(stored), columns)
  <2>1. SUFFICES ASSUME NEW tuple \in Range(stored)
                 PROVE  tuple = Encode(columns, tuple.row)
    BY <1>6 DEF Uniform
  <2>2. PICK i \in 1 .. k : tuple = stored[i]
    BY <1>2 DEF Range
  <2>. QED
    BY <1>2, <2>2, EncodeInjective
<1>8. /\ RowsOf(ToBag(stored)) = [row \in R |-> ToBag(stored)[Encode(columns, row)]]
      /\ \A row : row \in R <=> Encode(columns, row) \in DOMAIN ToBag(stored)
  BY <1>6, <1>7, RowsExact
<1>9. \A row : At(Encode(columns, row)) = {i \in 1 .. k : first[i] = row}
  BY <1>2, EncodeInjective
<1>10. R = Range(first)
  <2>. HIDE DEF R
  <2>1. \A row : row \in R <=> \E i \in 1 .. k : stored[i] = Encode(columns, row)
    BY <1>2, <1>6, <1>8 DEF Range
  <2>2. \A row : row \in Range(first) <=> \E i \in 1 .. k : first[i] = row
    BY <1>2 DEF Range
  <2>3. ASSUME NEW row PROVE row \in R <=> row \in Range(first)
    BY <1>2, <2>1, <2>2, EncodeInjective
  <2>. QED
    BY <2>3
<1>. HIDE DEF R
<1>11. ASSUME NEW row \in R
       PROVE  ToBag(stored)[Encode(columns, row)] =
                Cardinality({i \in 1 .. k : first[i] = row})
  <2>1. Encode(columns, row) \in Range(stored)
    BY <1>6, <1>8
  <2>2. ToBag(stored)[Encode(columns, row)] = Cardinality(At(Encode(columns, row)))
    <3>. HIDE DEF At
    <3>. QED
      BY <1>3, <2>1
  <2>. HIDE DEF At
  <2>. QED
    BY <1>9, <2>2
<1>12. RowsOf(ToBag(stored)) = ToBag(first)
  BY <1>4, <1>8, <1>10, <1>11
<1>. QED
  BY <1>1, <1>6, <1>7, <1>12 DEF stored

(* The loop stores the rows before the one it stops at, all of them if it  *)
(* succeeds.                                                               *)
LEMMA StoredPrefix ==
  ASSUME NEW table, NEW rows, RowsTyped(rows)
  PROVE  \E k \in 0 .. Len(rows) :
           /\ StoredTuples(table, rows) =
                [i \in 1 .. k |-> Encode(table.columns, rows[i])]
           /\ InsertStatus(table, rows) = "Ok" <=> k = Len(rows)
<1>. DEFINE n == Len(rows)
            S(i) == InsertRowStatus(table, rows[i])
            Bad == {i \in DOMAIN rows : S(i) # "Ok"}
            P(i) == /\ \A j \in 1 .. i - 1 : S(j) = "Ok"
                    /\ i <= n => S(i) # "Ok"
            stop == CHOOSE i \in 1 .. n + 1 : P(i)
<1>1. n \in Nat /\ DOMAIN rows = 1 .. n
  BY DEF RowsTyped
<1>2. \E i \in 1 .. n + 1 : P(i)
  <2>1. PICK i \in 1 .. n + 1 : /\ \A j \in 1 .. i - 1 : j \notin Bad
                                /\ i <= n => i \in Bad
    <3>. HIDE DEF Bad
    <3>. QED
      BY <1>1, LoopStops
  <2>2. \A j \in 1 .. i - 1 : j \in DOMAIN rows
    BY <1>1
  <2>. HIDE DEF S
  <2>. QED
    BY <2>1, <2>2
<1>3. stop \in 1 .. n + 1 /\ P(stop)
  <2>. HIDE DEF P
  <2>. QED
    BY <1>2
<1>4. InsertStatus(table, rows) = IF stop <= n THEN S(stop) ELSE "Ok"
  BY DEF InsertStatus, FirstFailure, StopsAt
<1>5. StoredTuples(table, rows) =
        [i \in 1 .. stop - 1 |-> Encode(table.columns, rows[i])]
  BY DEF StoredTuples, StopsAt
<1>. HIDE DEF stop, S
<1>6. stop - 1 \in 0 .. n /\ (stop - 1 = n <=> ~(stop <= n))
  BY <1>1, <1>3
<1>7. InsertStatus(table, rows) = "Ok" <=> stop - 1 = n
  BY <1>3, <1>4, <1>6
<1>. QED
  BY <1>5, <1>6, <1>7

-----------------------------------------------------------------------------
(* Names and contents, and how they change.                                *)

(* The maps of the table store.                                            *)
Names(c) == [key \in DOMAIN c.tables_by_name |-> c.tables_by_name[key].id]
Contents(st) == [id \in DOMAIN st.tables |-> RowsOf(st.tables[id].tuples)]

(* Names depend on the ids of tables only.                                 *)
LEMMA NamesSame ==
  ASSUME NEW c, NEW d, DOMAIN d.tables_by_name = DOMAIN c.tables_by_name,
         \A key \in DOMAIN c.tables_by_name :
           d.tables_by_name[key].id = c.tables_by_name[key].id
  PROVE  Names(d) = Names(c)
BY DEF Names

(* A new table is one more name, for the next id.                          *)
LEMMA NamesWithTable ==
  ASSUME NEW c, NEW request
  PROVE  /\ Names(WithTable(c, request)) =
              Put(Names(c), FoldIdentifierKey(request.name), c.next_table_id)
         /\ WithTable(c, request).next_table_id = c.next_table_id + 1
<1>. DEFINE d == WithTable(c, request)
            key == FoldIdentifierKey(request.name)
            t == NewTable(c, request)
<1>1. /\ d.tables_by_name = Put(c.tables_by_name, key, t)
      /\ d.next_table_id = c.next_table_id + 1
  BY DEF WithTable, Members
<1>2. t.id = c.next_table_id
  BY DEF NewTable
<1>. HIDE DEF d, t, key
<1>3. /\ DOMAIN d.tables_by_name = DOMAIN c.tables_by_name \cup {key}
      /\ \A k \in DOMAIN d.tables_by_name :
           d.tables_by_name[k] = IF k = key THEN t ELSE c.tables_by_name[k]
  BY <1>1 DEF Put
<1>4. \A k \in DOMAIN d.tables_by_name : d.tables_by_name[k].id =
        IF k = key THEN c.next_table_id ELSE c.tables_by_name[k].id
  BY <1>2, <1>3
<1>5. Names(d) = Put(Names(c), key, c.next_table_id)
  BY <1>3, <1>4 DEF Names, Put
<1>. QED
  BY <1>1, <1>5 DEF d, key

(* A dropped table is one name less.                                       *)
LEMMA NamesWithoutTable ==
  ASSUME NEW c, NEW key
  PROVE  /\ Names(WithoutTable(c, key)) = Restrict(Names(c), DOMAIN Names(c) \ {key})
         /\ WithoutTable(c, key).next_table_id = c.next_table_id
<1>. DEFINE d == WithoutTable(c, key)
<1>1. /\ d.tables_by_name =
           Restrict(c.tables_by_name, DOMAIN c.tables_by_name \ {key})
      /\ d.next_table_id = c.next_table_id
  BY DEF WithoutTable, Members
<1>. HIDE DEF d
<1>2. /\ DOMAIN d.tables_by_name = DOMAIN c.tables_by_name \ {key}
      /\ \A k \in DOMAIN d.tables_by_name : d.tables_by_name[k] = c.tables_by_name[k]
  BY <1>1 DEF Restrict
<1>3. Names(d) = Restrict(Names(c), DOMAIN Names(c) \ {key})
  BY <1>2 DEF Names, Restrict
<1>. QED
  BY <1>1, <1>3 DEF d

(* Root pages and indexes are not visible in the names.                    *)
LEMMA NamesWithRoot ==
  ASSUME NEW c, NEW key \in DOMAIN c.tables_by_name, NEW root
  PROVE  /\ Names(WithRoot(c, key, root)) = Names(c)
         /\ WithRoot(c, key, root).next_table_id = c.next_table_id
<1>. DEFINE d == WithRoot(c, key, root)
            T == c.tables_by_name
<1>1. /\ DOMAIN d.tables_by_name = DOMAIN T /\ d.next_table_id = c.next_table_id
      /\ \A k \in DOMAIN T :
           d.tables_by_name[k] = IF k = key THEN Rooted(T[key], root) ELSE T[k]
  BY DEF WithRoot, Members
<1>2. Rooted(T[key], root).id = T[key].id
  BY DEF Rooted
<1>. HIDE DEF d
<1>3. \A k \in DOMAIN T : d.tables_by_name[k].id = T[k].id
  BY <1>1, <1>2
<1>4. Names(d) = Names(c)
  BY <1>1, <1>3, NamesSame
<1>. QED
  BY <1>1, <1>4 DEF d

LEMMA NamesWithIndex ==
  ASSUME NEW c, GoodCatalog(c), NEW key \in DOMAIN c.tables_by_name,
         NEW name, NEW index
  PROVE  /\ Names(WithIndex(c, key, name, index)) = Names(c)
         /\ WithIndex(c, key, name, index).next_table_id = c.next_table_id
<1>. DEFINE d == WithIndex(c, key, name, index)
            T == c.tables_by_name
<1>1. /\ DOMAIN d.tables_by_name = DOMAIN T /\ d.next_table_id = c.next_table_id
      /\ \A k \in DOMAIN T :
           d.tables_by_name[k] = IF k = key THEN Indexed(T[key], index) ELSE T[k]
  BY DEF WithIndex, Members
<1>2. Indexed(T[key], index).id = T[key].id
  BY DEF Indexed
<1>. HIDE DEF d
<1>3. \A k \in DOMAIN T : d.tables_by_name[k].id = T[k].id
  BY <1>1, <1>2
<1>4. Names(d) = Names(c)
  BY <1>1, <1>3, NamesSame
<1>. QED
  BY <1>1, <1>4 DEF d

(* A new heap has no rows.                                                 *)
LEMMA ContentsWithHeap ==
  ASSUME NEW st, NEW id
  PROVE  Contents(WithHeap(st, id)) = Put(Contents(st), id, EmptyBag)
<1>. DEFINE s == WithHeap(st, id)
<1>1. s.tables = Put(st.tables, id, NewHeap(st))
  BY DEF WithHeap
<1>2. NewHeap(st).tuples = EmptyBag
  BY DEF NewHeap
<1>3. RowsOf(EmptyBag) = EmptyBag
  BY DEF RowsOf, EmptyBag, SetToBag
<1>. HIDE DEF s
<1>4. /\ DOMAIN s.tables = DOMAIN st.tables \cup {id}
      /\ \A x \in DOMAIN s.tables :
           s.tables[x] = IF x = id THEN NewHeap(st) ELSE st.tables[x]
  BY <1>1 DEF Put
<1>5. \A x \in DOMAIN s.tables : RowsOf(s.tables[x].tuples) =
        IF x = id THEN EmptyBag ELSE RowsOf(st.tables[x].tuples)
  BY <1>2, <1>3, <1>4
<1>6. Contents(s) = Put(Contents(st), id, EmptyBag)
  BY <1>4, <1>5 DEF Contents, Put
<1>. QED
  BY <1>6 DEF s

-----------------------------------------------------------------------------
(* What executing a plan does to names and contents.                       *)

(* What a call that failed leaves behind, as far as the table store can    *)
(* see.                                                                    *)
Untouched(out, c, st) ==
  /\ out.status # "Ok" /\ out.rows = EmptyBag
  /\ out.storage = st /\ Names(out.cat) = Names(c)
  /\ c.next_table_id <= out.cat.next_table_id

(* A table without rows was made under a free name.                        *)
Created(out, c, st, key) ==
  /\ out.status = "Ok" /\ key \notin DOMAIN Names(c)
  /\ Names(out.cat) = Put(Names(c), key, c.next_table_id)
  /\ out.cat.next_table_id = c.next_table_id + 1
  /\ Contents(out.storage) = Put(Contents(st), c.next_table_id, EmptyBag)

(* The rows of the plan's table were returned.                             *)
Scanned(out, c, st, p) ==
  /\ out.status = "Ok" /\ out.cat = c /\ out.storage = st
  /\ p.table.id \in DOMAIN Contents(st)
  /\ out.rows = Contents(st)[p.table.id]

(* The plan's first k rows were added to those of its table.               *)
Added(out, st, p, k) ==
  Contents(out.storage) =
    [Contents(st) EXCEPT ![p.table.id] = @ (+) ToBag(SubSeq(p.rows, 1, k))]

(* All rows of the plan were inserted, or some of them and then one        *)
(* failed.                                                                 *)
Inserted(out, c, st, p) ==
  /\ out.cat = c /\ p.table.id \in DOMAIN Contents(st)
  /\ \/ out.status = "Ok" /\ Added(out, st, p, Len(p.rows))
     \/ out.status # "Ok" /\ \E k \in 1 .. Len(p.rows) - 1 : Added(out, st, p, k)

(* CREATE TABLE fails, or makes an empty table under a free name.          *)
LEMMA ExecuteCreateTableExact ==
  ASSUME NEW c, NEW st, NEW p, NEW q, NEW txn, Good(c, st, q)
  PROVE  LET out == execute_create_table(p, c, st, txn)
             key == FoldIdentifierKey(p.request.name)
         IN Untouched(out, c, st) \/ Created(out, c, st, key)
<1>. DEFINE out == execute_create_table(p, c, st, txn)
            table == CreateTable(c, p.request)
            heap == CreateHeap(st, table.value.id)
            root == SetTableHeapRoot(table.cat, table.value.id, heap.root_page_id)
            drop == DropTable(table.cat, table.value.name)
            key == FoldIdentifierKey(p.request.name)
            n == c.next_table_id
<1>. USE DEF Outcome
<1>0. n \in Nat \ {0}
  BY DEF Good, GoodCatalog, CatalogTyped
<1>1. CASE require_writable(txn) # "Ok"
  <2>1. /\ out.cat = c /\ out.storage = st /\ out.rows = EmptyBag
        /\ out.status = require_writable(txn)
    BY <1>1 DEF execute_create_table
  <2>. HIDE DEF out
  <2>2. Untouched(out, c, st)
    BY <1>0, <1>1, <2>1 DEF Untouched
  <2>. QED
    BY <2>2 DEF out
<1>2. CASE require_writable(txn) = "Ok" /\ table.status # "Ok"
  <2>1. /\ out.cat = table.cat /\ out.storage = st /\ out.status = table.status
        /\ out.rows = EmptyBag
    BY <1>2 DEF execute_create_table
  <2>2. table.cat = c
    BY <1>2, CreateTableExact DEF Good
  <2>. HIDE DEF out, table
  <2>3. Untouched(out, c, st)
    BY <1>0, <1>2, <2>1, <2>2 DEF Untouched
  <2>. QED
    BY <2>3 DEF out
<1>3. CASE require_writable(txn) = "Ok" /\ table.status = "Ok"
  <2>. DEFINE d == WithTable(c, p.request)
  <2>1. /\ table.cat = d /\ table.value = NewTable(c, p.request)
        /\ key \notin DOMAIN c.tables_by_name
    BY <1>3, CreateTableExact DEF Good
  <2>2. table.value.id = n /\ table.value.name = p.request.name
    BY <2>1 DEF NewTable
  <2>3. GoodCatalog(d)
    BY <2>1, WithTableGood DEF Good
  <2>4. /\ d.tables_by_name = Put(c.tables_by_name, key, NewTable(c, p.request))
        /\ d.table_names_by_id = Put(c.table_names_by_id, n, key)
    BY DEF WithTable, Members
  <2>5. /\ key \in DOMAIN d.tables_by_name
        /\ n \in DOMAIN d.table_names_by_id /\ d.table_names_by_id[n] = key
    BY <2>4 DEF Put
  <2>6. Names(d) = Put(Names(c), key, n) /\ d.next_table_id = n + 1
    BY NamesWithTable
  <2>. HIDE DEF d, table, heap, root, drop, out
  <2>7. CASE heap.status # "Ok"
    <3>1. drop.cat = WithoutTable(d, key)
      BY <2>1, <2>2, <2>3, <2>5, DropTableExact DEF drop
    <3>2. WithoutTable(d, key) = Skipped(c)
      BY <2>1, RollbackExact DEF Good, d
    <3>3. /\ Skipped(c).tables_by_name = c.tables_by_name
          /\ Skipped(c).next_table_id = n + 1
      BY DEF Skipped, Members
    <3>4. /\ out.status = heap.status /\ out.cat = drop.cat /\ out.storage = st
          /\ out.rows = EmptyBag
      BY <1>3, <2>7 DEF execute_create_table, out, table, heap, drop
    <3>5. Names(out.cat) = Names(c) /\ out.cat.next_table_id = n + 1
      BY <3>1, <3>2, <3>3, <3>4 DEF Names
    <3>6. Untouched(out, c, st)
      BY <1>0, <2>7, <3>4, <3>5 DEF Untouched
    <3>. QED
      BY <3>6 DEF out
  <2>8. CASE heap.status = "Ok"
    <3>1. /\ heap.storage = WithHeap(st, n)
          /\ heap.root_page_id = st.next_root_page_id
          /\ st.next_root_page_id # kInvalidPageId
      BY <2>2, <2>8, CreateHeapExact DEF heap
    <3>. DEFINE e == WithRoot(d, key, st.next_root_page_id)
    <3>2. root.status = "Ok" /\ root.cat = e
      BY <2>1, <2>2, <2>3, <2>5, <3>1, SetTableHeapRootExact DEF root
    <3>3. Names(e) = Names(d) /\ e.next_table_id = d.next_table_id
      BY <2>5, NamesWithRoot
    <3>. HIDE DEF e
    <3>4. out.status = "Ok" /\ out.cat = root.cat /\ out.storage = heap.storage
      BY <1>3, <2>8, <3>2 DEF execute_create_table, out, table, heap, root
    <3>5. Contents(out.storage) = Put(Contents(st), n, EmptyBag)
      BY <3>1, <3>4, ContentsWithHeap
    <3>6. /\ Names(out.cat) = Put(Names(c), key, n)
          /\ out.cat.next_table_id = n + 1
      BY <2>6, <3>2, <3>3, <3>4
    <3>7. key \notin DOMAIN Names(c)
      BY <2>1 DEF Names
    <3>. QED
      BY <3>4, <3>5, <3>6, <3>7 DEF out, Created
  <2>. QED
    BY <2>7, <2>8
<1>. QED
  BY <1>1, <1>2, <1>3

(* A SELECT returns the rows of its table.                                 *)
LEMMA ExecuteSeqScanExact ==
  ASSUME NEW c, c.next_table_id \in Nat, NEW st, NEW p, Runnable(p), p.op = "Select"
  PROVE  LET out == execute_seq_scan(p, c, st)
         IN Untouched(out, c, st) \/ Scanned(out, c, st, p)
<1>. DEFINE out == execute_seq_scan(p, c, st)
            id == p.storage.table_id
            tuples == st.tables[id].tuples
            stale == \E tuple \in BagToSet(tuples) : ~Decodes(p.table.columns, tuple)
<1>1. id = p.table.id
  BY DEF Runnable, make_table_storage_reference
<1>2. out.cat = c /\ out.storage = st
  BY DEF execute_seq_scan, Outcome
<1>3. CASE OpenHeap(st, p.storage) # "Ok"
  <2>1. out.status # "Ok" /\ out.rows = EmptyBag
    BY <1>3 DEF execute_seq_scan, Outcome
  <2>. HIDE DEF out
  <2>2. Untouched(out, c, st)
    BY <1>2, <2>1 DEF Untouched
  <2>. QED
    BY <2>2 DEF out
<1>4. CASE OpenHeap(st, p.storage) = "Ok"
  <2>1. id \in DOMAIN st.tables
    BY <1>4, OpenHeapTyped
  <2>2. out = IF stale THEN Outcome("Corruption", c, st, EmptyBag)
              ELSE Outcome("Ok", c, st, RowsOf(tuples))
    BY <1>4 DEF execute_seq_scan
  <2>. HIDE DEF out, stale
  <2>3. CASE stale
    <3>1. out.status # "Ok" /\ out.rows = EmptyBag
      BY <2>2, <2>3 DEF Outcome
    <3>2. Untouched(out, c, st)
      BY <1>2, <3>1 DEF Untouched
    <3>. QED
      BY <3>2 DEF out
  <2>4. CASE ~stale
    <3>1. out.status = "Ok" /\ out.rows = RowsOf(tuples)
      BY <2>2, <2>4 DEF Outcome
    <3>2. id \in DOMAIN Contents(st) /\ Contents(st)[id] = RowsOf(tuples)
      BY <2>1 DEF Contents
    <3>. QED
      BY <1>1, <1>2, <3>1, <3>2 DEF out, Scanned
  <2>. QED
    BY <2>3, <2>4
<1>. QED
  BY <1>3, <1>4

(* An INSERT adds its rows to its table, or fails, perhaps after some of   *)
(* them.                                                                   *)
LEMMA ExecuteInsertExact ==
  ASSUME NEW c, c.next_table_id \in Nat, NEW st, GoodStorage(st),
         NEW p, Runnable(p), p.op = "Insert", Sound(p.table, c, st), NEW txn
  PROVE  LET out == execute_insert(p, c, st, txn)
         IN Untouched(out, c, st) \/ Inserted(out, c, st, p)
<1>. DEFINE out == execute_insert(p, c, st, txn)
            status == InsertStatus(p.table, p.rows)
            bag == ToBag(StoredTuples(p.table, p.rows))
            id == p.storage.table_id
<1>1. RowsTyped(p.rows) /\ id = p.table.id
  BY DEF Runnable, make_table_storage_reference
<1>2. CASE \/ require_writable(txn) # "Ok"
           \/ execute_values(p.rows) # "Ok"
           \/ OpenHeap(st, p.storage) # "Ok"
  <2>1. /\ out.cat = c /\ out.storage = st /\ out.rows = EmptyBag
        /\ out.status # "Ok"
    BY <1>2 DEF execute_insert, Outcome
  <2>. HIDE DEF out
  <2>2. Untouched(out, c, st)
    BY <2>1 DEF Untouched
  <2>. QED
    BY <2>2 DEF out
<1>3. CASE /\ require_writable(txn) = "Ok"
           /\ execute_values(p.rows) = "Ok"
           /\ OpenHeap(st, p.storage) = "Ok"
  <2>1. /\ out.status = status /\ out.cat = c /\ out.rows = EmptyBag
        /\ out.storage = AddTuples(st, id, bag)
    BY <1>3 DEF execute_insert, Outcome, InsertStatus
  <2>2. id \in DOMAIN st.tables
    BY <1>3, OpenHeapTyped
  <2>3. PICK k \in 0 .. Len(p.rows) :
          /\ StoredTuples(p.table, p.rows) =
               [i \in 1 .. k |-> Encode(p.table.columns, p.rows[i])]
          /\ status = "Ok" <=> k = Len(p.rows)
    BY <1>1, StoredPrefix
  <2>4. Len(p.rows) \in Nat
    BY <1>1 DEF RowsTyped
  <2>5. k \in Nat /\ k <= Len(p.rows)
    BY <2>4
  <2>. DEFINE first == ToBag(SubSeq(p.rows, 1, k))
  <2>6. IsABag(bag) /\ Uniform(bag, p.table.columns) /\ RowsOf(bag) = first
    <3>. DEFINE rows == p.rows
                columns == p.table.columns
                stored == [i \in 1 .. k |-> Encode(columns, rows[i])]
    <3>1. k \in Nat /\ k <= Len(rows) /\ RowsTyped(rows)
      BY <1>1, <2>5
    <3>2. bag = ToBag(stored)
      BY <2>3
    <3>. HIDE DEF rows, columns, bag
    <3>3. /\ IsABag(ToBag(stored)) /\ Uniform(ToBag(stored), columns)
          /\ RowsOf(ToBag(stored)) = ToBag(SubSeq(rows, 1, k))
      BY <3>1, RowsStored
    <3>. QED
      BY <3>2, <3>3 DEF rows, columns
  <2>7. \A tuple \in DOMAIN bag : Encoded(tuple)
    <3>. HIDE DEF bag
    <3>. QED
      BY <2>6 DEF Uniform, Encoded, Encode
  <2>. HIDE DEF out, status, bag, first
  <2>. DEFINE s == AddTuples(st, id, bag)
              old == st.tables[id].tuples
  <2>8. IsABag(old) /\ Uniform(old, p.table.columns)
    <3>1. IsABag(old) /\ \A tuple \in DOMAIN old : Encoded(tuple)
      BY <2>2 DEF GoodStorage, HeapRecord
    <3>2. \A tuple \in DOMAIN old : tuple.columns = p.table.columns
      BY <1>1, <2>2 DEF Sound
    <3>. HIDE DEF old
    <3>. QED
      BY <3>1, <3>2 DEF Uniform, Encoded
  <2>9. /\ DOMAIN s.tables = DOMAIN st.tables
        /\ \A x \in DOMAIN st.tables : x # id => s.tables[x] = st.tables[x]
    BY <2>2, <2>6, <2>7, AddTuplesExact
  <2>10. s.tables[id].tuples = old (+) bag
    <3>1. /\ st = [next_root_page_id |-> st.next_root_page_id, tables |-> st.tables]
          /\ IsMap(st.tables) /\ HeapRecord(st.tables[id])
      BY <2>2 DEF GoodStorage
    <3>. DEFINE heap == [st.tables[id] EXCEPT !.tuples = @ (+) bag]
                tables == [st.tables EXCEPT ![id] = heap]
    <3>2. s = [st EXCEPT !.tables = tables]
      BY DEF AddTuples
    <3>3. heap.tuples = old (+) bag
      BY <3>1 DEF HeapRecord
    <3>. HIDE DEF heap
    <3>4. tables[id] = heap
      BY <2>2, <3>1 DEF IsMap
    <3>. HIDE DEF tables
    <3>5. [st EXCEPT !.tables = tables].tables = tables
      BY <3>1
    <3>. QED
      BY <3>2, <3>3, <3>4, <3>5
  <2>11. RowsOf(s.tables[id].tuples) = RowsOf(old) (+) first
    <3>. HIDE DEF old, s
    <3>. QED
      BY <2>6, <2>8, <2>10, RowsAdded
  <2>. HIDE DEF s
  <2>12. Contents(s) = [Contents(st) EXCEPT ![id] = @ (+) first]
    <3>1. \A x \in DOMAIN st.tables : RowsOf(s.tables[x].tuples) =
            IF x = id THEN RowsOf(old) (+) first ELSE RowsOf(st.tables[x].tuples)
      BY <2>9, <2>11
    <3>. QED
      BY <2>2, <2>9, <3>1 DEF Contents
  <2>13. Added(out, st, p, k)
    BY <1>1, <2>1, <2>12 DEF s, first, Added
  <2>14. id \in DOMAIN Contents(st)
    BY <2>2 DEF Contents
  <2>15. CASE status = "Ok"
    <3>1. Added(out, st, p, Len(p.rows))
      BY <2>3, <2>13, <2>15
    <3>. QED
      BY <1>1, <2>1, <2>14, <2>15, <3>1 DEF out, Inserted
  <2>16. CASE status # "Ok" /\ k = 0
    <3>1. DOMAIN bag = {}
      <4>1. \A i : i \notin DOMAIN [j \in 1 .. k |-> Encode(p.table.columns, p.rows[j])]
        BY <2>16
      <4>. QED
        BY <2>3, <4>1 DEF bag, ToBag, Range
    <3>2. s = st
      BY <2>2, <2>6, <2>7, <3>1, AddTuplesExact DEF s
    <3>3. Untouched(out, c, st)
      BY <2>1, <2>16, <3>2 DEF Untouched, s
    <3>. QED
      BY <3>3 DEF out
  <2>17. CASE status # "Ok" /\ k # 0
    <3>1. k \in 1 .. Len(p.rows) - 1
      BY <2>3, <2>4, <2>5, <2>17
    <3>2. \E i \in 1 .. Len(p.rows) - 1 : Added(out, st, p, i)
      BY <2>13, <3>1
    <3>. QED
      BY <1>1, <2>1, <2>14, <2>17, <3>2 DEF out, Inserted
  <2>. QED
    BY <2>15, <2>16, <2>17
<1>. QED
  BY <1>2, <1>3

(* The three together.                                                     *)
LEMMA ExecuteExact ==
  ASSUME NEW c, NEW st, NEW p, NEW q, NEW txn, Good(c, st, q), Runnable(p),
         p.op # "CreateTable" => Sound(p.table, c, st)
  PROVE  LET out == Execute(p, c, st, txn)
         IN \/ Untouched(out, c, st)
            \/ /\ p.op = "CreateTable"
               /\ Created(out, c, st, FoldIdentifierKey(p.request.name))
            \/ p.op = "Insert" /\ Inserted(out, c, st, p)
            \/ p.op = "Select" /\ Scanned(out, c, st, p)
<1>. DEFINE out == Execute(p, c, st, txn)
<1>1. c.next_table_id \in Nat /\ GoodStorage(st)
  BY DEF Good, GoodCatalog, CatalogTyped
<1>2. CASE require_active(txn) # "Ok"
  <2>1. /\ out.status = require_active(txn) /\ out.cat = c /\ out.storage = st
        /\ out.rows = EmptyBag
    BY <1>2 DEF Execute, Outcome
  <2>. HIDE DEF out
  <2>2. Untouched(out, c, st)
    BY <1>1, <1>2, <2>1 DEF Untouched
  <2>. QED
    BY <2>2 DEF out
<1>3. CASE require_active(txn) = "Ok" /\ p.op = "CreateTable"
  <2>1. out = execute_create_table(p, c, st, txn)
    BY <1>3 DEF Execute
  <2>. QED
    BY <1>3, <2>1, ExecuteCreateTableExact
<1>4. CASE require_active(txn) = "Ok" /\ p.op = "Insert"
  <2>1. out = execute_insert(p, c, st, txn)
    BY <1>4 DEF Execute
  <2>. QED
    BY <1>1, <1>4, <2>1, ExecuteInsertExact
<1>5. CASE require_active(txn) = "Ok" /\ p.op = "Select"
  <2>1. out = execute_seq_scan(p, c, st)
    BY <1>5 DEF Execute
  <2>. QED
    BY <1>1, <1>5, <2>1, ExecuteSeqScanExact
<1>. QED
  BY <1>2, <1>3, <1>4, <1>5 DEF Runnable

-----------------------------------------------------------------------------
(* The operators that TableStore takes from the library, or shares with    *)
(* Catalog, are the ones used here.                                        *)
LEMMA StoreOperators ==
  /\ \A f, k, v : Store!With(f, k, v) = Put(f, k, v)
  /\ \A f, S : Store!Restrict(f, S) = Restrict(f, S)
  /\ \A A, B : Store!(+)(A, B) = A (+) B
  /\ \A s : Store!ToBag(s) = ToBag(s)
  /\ Store!EmptyBag = EmptyBag
<1>1. \A f, k, v : Store!With(f, k, v) = Put(f, k, v)
  BY DEF Store!With, Put
<1>2. \A f, S : Store!Restrict(f, S) = Restrict(f, S)
  BY DEF Store!Restrict, Restrict
<1>3. \A A, B : Store!(+)(A, B) = A (+) B
  BY DEF Store!(+), (+)
<1>4. \A s : Store!ToBag(s) = ToBag(s)
  BY DEF Store!ToBag, ToBag, Store!Range, Range, Store!Cardinality, Cardinality
<1>5. Store!EmptyBag = EmptyBag
  BY DEF Store!EmptyBag, EmptyBag, Store!SetToBag, SetToBag
<1>. QED
  BY <1>1, <1>2, <1>3, <1>4, <1>5

(* The rest of the store's variables.                                      *)
Prepared(p) == IF p.op \in {"Insert", "Select"} THEN p.table.id ELSE NoTable
Pending(p) == IF p.op = "Insert" THEN p.rows ELSE << >>
Issued(c) == 1 .. c.next_table_id - 1

(* A call that returned an error.                                          *)
LEMMA StoreFails ==
  ASSUME result'.status # "Ok", result'.rows = EmptyBag,
         Names(cat') = Names(cat), Contents(storage') = Contents(storage),
         cat.next_table_id \in Nat, cat'.next_table_id \in Nat,
         cat.next_table_id <= cat'.next_table_id, plan' = plan
  PROVE  Store!Next
<1>1. Issued(cat) \subseteq Issued(cat')
  BY DEF Issued
<1>2. Store!Fail
  BY <1>1, StoreOperators DEF Store!Fail, Names, Contents, Issued
<1>. QED
  BY <1>2 DEF Store!Next

(* The next table id is the one that is added to those there have been.    *)
LEMMA IssuedNext ==
  ASSUME NEW c, NEW d, c.next_table_id \in Nat \ {0},
         d.next_table_id = c.next_table_id + 1
  PROVE  /\ c.next_table_id \in Issued(d) \ Issued(c)
         /\ Issued(d) = Issued(c) \cup {c.next_table_id}
<1>. DEFINE n == c.next_table_id
            m == d.next_table_id
<1>1. n \in Nat \ {0} /\ m = n + 1
  OBVIOUS
<1>. HIDE DEF n, m
<1>2. n \in (1 .. m - 1) \ (1 .. n - 1) /\ 1 .. m - 1 = (1 .. n - 1) \cup {n}
  BY <1>1
<1>. QED
  BY <1>2 DEF Issued, n, m

(* A name got a table, with storage or without.                            *)
LEMMA StoreNewTable ==
  ASSUME NEW stored \in BOOLEAN,
         result'.key \notin DOMAIN Names(cat),
         Names(cat') = Put(Names(cat), result'.key, cat.next_table_id),
         cat.next_table_id \in Nat \ {0},
         cat'.next_table_id = cat.next_table_id + 1,
         Contents(storage') = IF stored
                              THEN Put(Contents(storage), cat.next_table_id, EmptyBag)
                              ELSE Contents(storage),
         plan' = plan
  PROVE  Store!NewTable(stored)
<1>. DEFINE n == cat.next_table_id
<1>1. n \in Issued(cat') \ Issued(cat) /\ Issued(cat') = Issued(cat) \cup {n}
  BY IssuedNext
<1>2. Store!NewTable(stored) <=>
        /\ result'.key \notin DOMAIN Names(cat)
        /\ \E id \in Issued(cat') \ Issued(cat) :
             /\ Issued(cat') = Issued(cat) \cup {id}
             /\ Names(cat') = Store!With(Names(cat), result'.key, id)
             /\ Contents(storage') = IF stored
                                     THEN Store!With(Contents(storage), id, Store!EmptyBag)
                                     ELSE Contents(storage)
        /\ Prepared(plan') = Prepared(plan) /\ Pending(plan') = Pending(plan)
  BY DEF Store!NewTable, Names, Contents, Issued, Prepared, Pending
<1>. HIDE DEF n
<1>3. /\ Names(cat') = Store!With(Names(cat), result'.key, n)
      /\ Contents(storage') = IF stored
                              THEN Store!With(Contents(storage), n, Store!EmptyBag)
                              ELSE Contents(storage)
  BY StoreOperators DEF n
<1>. QED
  BY <1>1, <1>2, <1>3

(* What a call returned.                                                   *)
LEMMA ReturnedFields ==
  ASSUME NEW via, NEW op, NEW key, NEW status, NEW rows
  PROVE  LET r == Returned(via, op, key, status, rows)
         IN /\ r.via = via /\ r.status = status /\ r.rows = rows
            /\ status = "Ok" => r.op = op /\ r.key = key
<1>. DEFINE noop == "None"
            nokey == ""
            r == [via |-> via, op |-> IF status = "Ok" THEN op ELSE noop,
                  key |-> IF status = "Ok" THEN key ELSE nokey,
                  status |-> status, rows |-> rows]
<1>1. Returned(via, op, key, status, rows) = r
  BY DEF Returned
<1>. HIDE DEF noop, nokey
<1>2. /\ r.via = via /\ r.status = status /\ r.rows = rows
      /\ status = "Ok" => r.op = op /\ r.key = key
  OBVIOUS
<1>. HIDE DEF r
<1>. QED
  BY <1>1, <1>2

(* A plan was made for the table its name stands for.                      *)
LEMMA StorePrepares ==
  ASSUME cat' = cat, storage' = storage,
         result'.via = "Planner", result'.status = "Ok",
         result'.op \in {"CreateTable", "Insert", "Select"},
         plan'.op = result'.op,
         plan'.op # "CreateTable" =>
           /\ result'.key \in DOMAIN cat.tables_by_name
           /\ plan'.table = cat.tables_by_name[result'.key],
         plan'.op = "Insert" =>
           plan'.rows \in RowLists
             \cup {<<row>> : row \in {s.row : s \in {t \in Statements : t.op = "Insert"}}}
  PROVE  Store!Next
<1>. DEFINE rows == {s.row : s \in {t \in Statements : t.op = "Insert"}}
            key == result'.key
<1>1. Store!Prepare <=>
        /\ result'.via = "Planner" /\ result'.status = "Ok"
        /\ Prepared(plan') = IF result'.op = "CreateTable" THEN NoTable
                             ELSE Names(cat)[key]
        /\ IF result'.op = "Insert"
           THEN Pending(plan') \in RowLists \cup {<<row>> : row \in rows}
           ELSE Pending(plan') = << >>
        /\ Names(cat') = Names(cat) /\ Contents(storage') = Contents(storage)
        /\ Issued(cat') = Issued(cat)
  BY DEF Store!Prepare, Names, Contents, Issued, Prepared, Pending
<1>2. Prepared(plan') = IF result'.op = "CreateTable" THEN NoTable
                        ELSE Names(cat)[key]
  BY DEF Prepared, Names
<1>3. IF result'.op = "Insert"
      THEN Pending(plan') \in RowLists \cup {<<row>> : row \in rows}
      ELSE Pending(plan') = << >>
  BY DEF Pending
<1>. HIDE DEF rows, key
<1>4. Store!Prepare
  BY <1>1, <1>2, <1>3
<1>. QED
  BY <1>4 DEF Store!Next

(* What a plan that was bound is for.                                      *)
LEMMA PlanExact ==
  ASSUME NEW c, NEW statement \in Statements, Bind(c, statement) = "Ok"
  PROVE  LET p == Plan(c, statement)
         IN /\ p.op = statement.op /\ Runnable(p)
            /\ p.op # "CreateTable" =>
                 /\ StatementKey(statement) \in DOMAIN c.tables_by_name
                 /\ p.table = c.tables_by_name[StatementKey(statement)]
            /\ p.op = "CreateTable" =>
                 FoldIdentifierKey(p.request.name) = StatementKey(statement)
            /\ p.op = "Insert" => p.rows = <<statement.row>>
<1>. DEFINE p == Plan(c, statement)
            key == StatementKey(statement)
            table == GetTable(c, statement.name)
<1>1. p.op = statement.op /\ Runnable(p)
  BY PlanTyped
<1>2. key = FoldIdentifierKey(statement.name)
  BY DEF StatementKey
<1>3. ASSUME table.status = "Ok"
      PROVE  key \in DOMAIN c.tables_by_name /\ table.value = c.tables_by_name[key]
  BY <1>2, <1>3 DEF GetTable, LoadTable, CatalogError, CatalogResult
<1>4. statement.op \in {"Unparsable", "CreateTable", "Insert", "Select"}
  BY InputsAssumption
<1>5. CASE statement.op = "Unparsable"
  BY <1>5 DEF Bind
<1>6. CASE statement.op = "CreateTable"
  <2>1. p = PhysicalCreateTable([name |-> statement.name, columns |-> statement.columns])
    BY <1>6 DEF Plan
  <2>2. p.request.name = statement.name
    BY <2>1 DEF PhysicalCreateTable
  <2>. QED
    BY <1>1, <1>2, <1>6, <2>2
<1>7. CASE statement.op = "Insert"
  <2>1. bind_insert(c, statement) = "Ok"
    BY <1>7 DEF Bind
  <2>2. table.status = "Ok"
    BY <2>1 DEF bind_insert
  <2>3. p = PhysicalInsert(table.value, <<statement.row>>)
    BY <1>7 DEF Plan
  <2>. HIDE DEF table
  <2>4. p.table = table.value /\ p.rows = <<statement.row>>
    BY <2>3 DEF PhysicalInsert
  <2>. QED
    BY <1>1, <1>3, <1>7, <2>2, <2>4
<1>8. CASE statement.op = "Select"
  <2>1. bind_select(c, statement) = "Ok"
    BY <1>8 DEF Bind
  <2>2. table.status = "Ok"
    BY <2>1 DEF bind_select
  <2>3. p = PhysicalSeqScan(table.value)
    BY <1>8 DEF Plan
  <2>. HIDE DEF table
  <2>4. p.table = table.value
    BY <2>3 DEF PhysicalSeqScan
  <2>. QED
    BY <1>1, <1>3, <1>8, <2>2, <2>4
<1>. QED
  BY <1>4, <1>5, <1>6, <1>7, <1>8

-----------------------------------------------------------------------------
(* The engine's steps are steps of the store.                              *)

(* Rows were inserted into the table with this id.                         *)
LEMMA StoreInserts ==
  ASSUME NEW id \in DOMAIN Contents(storage), NEW rows, NEW same,
         ToBag(same) = ToBag(rows), cat' = cat, plan' = plan,
         Contents(storage') = [Contents(storage) EXCEPT ![id] = @ (+) ToBag(same)]
  PROVE  Store!Insert(id, rows)
<1>1. Store!Insert(id, rows) <=>
        /\ id \in DOMAIN Contents(storage)
        /\ Contents(storage') =
             [Contents(storage) EXCEPT ![id] = Store!(+)(@, Store!ToBag(rows))]
        /\ Names(cat') = Names(cat) /\ Issued(cat') = Issued(cat)
        /\ Prepared(plan') = Prepared(plan) /\ Pending(plan') = Pending(plan)
  BY DEF Store!Insert, Names, Contents, Issued, Prepared, Pending
<1>2. Store!(+)(Contents(storage)[id], Store!ToBag(rows)) =
        Contents(storage)[id] (+) ToBag(same)
  BY StoreOperators
<1>. QED
  BY <1>1, <1>2

(* A statement changes the tables as the store says.                       *)
LEMMA ExecuteSqlStore ==
  ASSUME SqlInv, SqlInv', NEW statement \in Statements, NEW txn,
         ExecuteSql(statement, txn)
  PROVE  Store!Next
<1>. DEFINE bound == Bind(cat, statement)
            p == Plan(cat, statement)
            key == StatementKey(statement)
            out == IF bound # "Ok" THEN Outcome(bound, cat, storage, EmptyBag)
                   ELSE Execute(p, cat, storage, txn)
<1>1. /\ cat' = out.cat /\ storage' = out.storage /\ plan' = plan
      /\ result' = Returned("Sql", statement.op, key, out.status, out.rows)
  BY DEF ExecuteSql
<1>2. /\ cat.next_table_id \in Nat \ {0} /\ cat'.next_table_id \in Nat \ {0}
      /\ Good(cat, storage, plan)
  BY DEF SqlInv, Good, GoodCatalog, CatalogTyped
<1>3. /\ result'.via = "Sql" /\ result'.status = out.status /\ result'.rows = out.rows
      /\ out.status = "Ok" => result'.op = statement.op /\ result'.key = key
  <2>. HIDE DEF out, key
  <2>. QED
    BY <1>1, ReturnedFields
<1>4. \/ Untouched(out, cat, storage)
      \/ /\ statement.op = "CreateTable" /\ Created(out, cat, storage, key)
      \/ /\ statement.op = "Insert" /\ Inserted(out, cat, storage, p)
         /\ p.rows = <<statement.row>>
         /\ key \in DOMAIN cat.tables_by_name /\ p.table = cat.tables_by_name[key]
      \/ /\ statement.op = "Select" /\ Scanned(out, cat, storage, p)
         /\ key \in DOMAIN cat.tables_by_name /\ p.table = cat.tables_by_name[key]
  <2>1. CASE bound # "Ok"
    <3>1. /\ out.cat = cat /\ out.storage = storage /\ out.status = bound
          /\ out.rows = EmptyBag
      BY <2>1 DEF Outcome
    <3>. HIDE DEF out, bound
    <3>2. Untouched(out, cat, storage)
      BY <1>2, <2>1, <3>1 DEF Untouched
    <3>. QED
      BY <3>2
  <2>2. CASE bound = "Ok"
    <3>1. /\ p.op = statement.op /\ Runnable(p)
          /\ p.op # "CreateTable" =>
               key \in DOMAIN cat.tables_by_name /\ p.table = cat.tables_by_name[key]
          /\ p.op = "CreateTable" => FoldIdentifierKey(p.request.name) = key
          /\ p.op = "Insert" => p.rows = <<statement.row>>
      BY <2>2, PlanExact
    <3>2. out = Execute(p, cat, storage, txn)
      BY <2>2
    <3>. HIDE DEF out, p, key, bound
    <3>3. p.op # "CreateTable" => Sound(p.table, cat, storage)
      BY <1>2, <3>1 DEF Good, Known
    <3>4. \/ Untouched(out, cat, storage)
          \/ /\ p.op = "CreateTable"
             /\ Created(out, cat, storage, FoldIdentifierKey(p.request.name))
          \/ p.op = "Insert" /\ Inserted(out, cat, storage, p)
          \/ p.op = "Select" /\ Scanned(out, cat, storage, p)
      BY <1>2, <3>1, <3>2, <3>3, ExecuteExact
    <3>. QED
      BY <3>1, <3>4
  <2>. QED
    BY <2>1, <2>2
<1>. HIDE DEF out, p, key, bound
<1>5. CASE Untouched(out, cat, storage)
  <2>1. /\ result'.status # "Ok" /\ result'.rows = EmptyBag
        /\ Names(cat') = Names(cat) /\ Contents(storage') = Contents(storage)
        /\ cat.next_table_id <= cat'.next_table_id
    BY <1>1, <1>3, <1>5 DEF Untouched
  <2>. QED
    BY <1>1, <1>2, <2>1, StoreFails
<1>6. CASE statement.op = "CreateTable" /\ Created(out, cat, storage, key)
  <2>1. /\ result'.status = "Ok" /\ result'.op = "CreateTable" /\ result'.key = key
        /\ key \notin DOMAIN Names(cat)
        /\ Names(cat') = Put(Names(cat), key, cat.next_table_id)
        /\ cat'.next_table_id = cat.next_table_id + 1
        /\ Contents(storage') = Put(Contents(storage), cat.next_table_id, EmptyBag)
    BY <1>1, <1>3, <1>6 DEF Created
  <2>2. Store!NewTable(TRUE)
    BY <1>1, <1>2, <2>1, StoreNewTable
  <2>3. Store!Succeeds("Sql", "CreateTable")
    BY <1>3, <2>1 DEF Store!Succeeds
  <2>. QED
    BY <2>2, <2>3 DEF Store!Next, Store!CreateTable
<1>7. CASE /\ statement.op = "Insert" /\ Inserted(out, cat, storage, p)
           /\ p.rows = <<statement.row>>
           /\ key \in DOMAIN cat.tables_by_name /\ p.table = cat.tables_by_name[key]
  <2>1. Len(p.rows) = 1 /\ SubSeq(p.rows, 1, 1) = <<statement.row>>
    <3>. DEFINE s == <<statement.row>>
    <3>1. Len(s) = 1 /\ s = [i \in 1 .. 1 |-> s[i]]
      OBVIOUS
    <3>. HIDE DEF s
    <3>2. SubSeq(s, 1, 1) = [i \in 1 .. 1 |-> s[i]]
      BY <3>1
    <3>. QED
      BY <1>7, <3>1, <3>2 DEF s
  <2>2. /\ out.cat = cat /\ p.table.id \in DOMAIN Contents(storage)
        /\ out.status = "Ok" /\ Added(out, storage, p, 1)
    <3>1. ~\E k \in 1 .. Len(p.rows) - 1 : TRUE
      BY <2>1
    <3>. QED
      BY <1>7, <2>1, <3>1 DEF Inserted
  <2>3. Contents(storage') =
          [Contents(storage) EXCEPT ![p.table.id] = @ (+) ToBag(<<statement.row>>)]
    BY <1>1, <2>1, <2>2 DEF Added
  <2>4. Store!Insert(p.table.id, <<statement.row>>)
    BY <1>1, <2>2, <2>3, StoreInserts
  <2>5. /\ Names(cat)[key] = p.table.id /\ key \in DOMAIN Names(cat)
        /\ result'.key = key
    BY <1>3, <1>7, <2>2 DEF Names
  <2>6. Store!Succeeds("Sql", "Insert")
    BY <1>3, <1>7, <2>2 DEF Store!Succeeds
  <2>. DEFINE rows == {s.row : s \in {t \in Statements : t.op = "Insert"}}
  <2>7. Store!SqlInsert <=>
          /\ Store!Succeeds("Sql", "Insert")
          /\ result'.key \in DOMAIN Names(cat)
          /\ \E row \in rows : Store!Insert(Names(cat)[result'.key], <<row>>)
    BY DEF Store!SqlInsert, Names
  <2>8. statement.row \in rows
    BY <1>7
  <2>. HIDE DEF rows
  <2>9. Store!SqlInsert
    BY <2>4, <2>5, <2>6, <2>7, <2>8
  <2>. QED
    BY <2>9 DEF Store!Next
<1>8. CASE /\ statement.op = "Select" /\ Scanned(out, cat, storage, p)
           /\ key \in DOMAIN cat.tables_by_name /\ p.table = cat.tables_by_name[key]
  <2>1. /\ result'.status = "Ok" /\ result'.op = "Select" /\ result'.key = key
        /\ cat' = cat /\ storage' = storage
        /\ result'.rows = Contents(storage)[p.table.id]
    BY <1>1, <1>3, <1>8 DEF Scanned
  <2>2. Names(cat)[key] = p.table.id /\ key \in DOMAIN Names(cat)
    BY <1>8 DEF Names
  <2>3. Store!Succeeds("Sql", "Select")
    BY <1>3, <2>1 DEF Store!Succeeds
  <2>4. /\ Store!Succeeds("Sql", "Select") /\ result'.key \in DOMAIN Names(cat)
        /\ result'.rows = Contents(storage)[Names(cat)[result'.key]]
        /\ Names(cat') = Names(cat) /\ Contents(storage') = Contents(storage)
        /\ Issued(cat') = Issued(cat)
        /\ Prepared(plan') = Prepared(plan) /\ Pending(plan') = Pending(plan)
    BY <1>1, <2>1, <2>2, <2>3
  <2>5. Store!Select
    BY <2>4 DEF Store!Select, Names, Contents, Issued, Prepared, Pending
  <2>. QED
    BY <2>5 DEF Store!Next
<1>. QED
  BY <1>4, <1>5, <1>6, <1>7, <1>8

(* So does a plan, however old.                                            *)
LEMMA ExecutePlanStore ==
  ASSUME SqlInv, SqlInv', NEW txn, ExecutePlan(txn)
  PROVE  Store!Next
<1>. DEFINE out == Execute(plan, cat, storage, txn)
            key == PlanKey(plan)
<1>1. /\ cat' = out.cat /\ storage' = out.storage /\ plan' = plan
      /\ result' = Returned("Plan", plan.op, key, out.status, out.rows)
      /\ plan # NoPlan
  BY DEF ExecutePlan
<1>2. /\ cat.next_table_id \in Nat \ {0} /\ cat'.next_table_id \in Nat \ {0}
      /\ Good(cat, storage, plan) /\ Runnable(plan)
  BY <1>1 DEF SqlInv, Good, GoodCatalog, CatalogTyped
<1>3. /\ result'.via = "Plan" /\ result'.status = out.status /\ result'.rows = out.rows
      /\ out.status = "Ok" => result'.op = plan.op /\ result'.key = key
  <2>. HIDE DEF out, key
  <2>. QED
    BY <1>1, ReturnedFields
<1>4. \/ Untouched(out, cat, storage)
      \/ /\ plan.op = "CreateTable"
         /\ Created(out, cat, storage, FoldIdentifierKey(plan.request.name))
      \/ plan.op = "Insert" /\ Inserted(out, cat, storage, plan)
      \/ plan.op = "Select" /\ Scanned(out, cat, storage, plan)
  <2>1. plan.op # "CreateTable" => Sound(plan.table, cat, storage)
    BY <1>1, <1>2 DEF Good, Known, NamesTable
  <2>. QED
    BY <1>2, <2>1, ExecuteExact
<1>5. plan.op = "CreateTable" => FoldIdentifierKey(plan.request.name) = key
  BY DEF PlanKey
<1>. HIDE DEF out, key
<1>6. CASE Untouched(out, cat, storage)
  <2>1. /\ result'.status # "Ok" /\ result'.rows = EmptyBag
        /\ Names(cat') = Names(cat) /\ Contents(storage') = Contents(storage)
        /\ cat.next_table_id <= cat'.next_table_id
    BY <1>1, <1>3, <1>6 DEF Untouched
  <2>. QED
    BY <1>1, <1>2, <2>1, StoreFails
<1>7. CASE plan.op = "CreateTable" /\ Created(out, cat, storage, key)
  <2>1. /\ result'.status = "Ok" /\ result'.op = "CreateTable" /\ result'.key = key
        /\ key \notin DOMAIN Names(cat)
        /\ Names(cat') = Put(Names(cat), key, cat.next_table_id)
        /\ cat'.next_table_id = cat.next_table_id + 1
        /\ Contents(storage') = Put(Contents(storage), cat.next_table_id, EmptyBag)
    BY <1>1, <1>3, <1>7 DEF Created
  <2>2. Store!NewTable(TRUE)
    BY <1>1, <1>2, <2>1, StoreNewTable
  <2>3. Store!Succeeds("Plan", "CreateTable")
    BY <1>3, <2>1 DEF Store!Succeeds
  <2>. QED
    BY <2>2, <2>3 DEF Store!Next, Store!CreateTable
<1>8. CASE plan.op = "Insert" /\ Inserted(out, cat, storage, plan)
  <2>. DEFINE rows == plan.rows
              id == plan.table.id
              n == Len(rows)
  <2>1. n \in Nat /\ DOMAIN rows = 1 .. n
    BY <1>2, <1>8 DEF Runnable, RowsTyped
  <2>2. out.cat = cat /\ id \in DOMAIN Contents(storage)
    BY <1>8 DEF Inserted
  <2>3. ASSUME NEW k, Added(out, storage, plan, k), NEW list,
               ToBag(SubSeq(rows, 1, k)) = ToBag(list)
        PROVE  Store!Insert(id, list)
    <3>1. Contents(storage') =
            [Contents(storage) EXCEPT ![id] = @ (+) ToBag(SubSeq(rows, 1, k))]
      BY <1>1, <2>3 DEF Added
    <3>. HIDE DEF id, rows
    <3>. QED
      BY <1>1, <2>2, <2>3, <3>1, StoreInserts
  <2>4. Prepared(plan) = id /\ Pending(plan) = rows
    BY <1>8 DEF Prepared, Pending
  <2>5. Store!PlanInsert <=>
          \/ Store!Succeeds("Plan", "Insert") /\ Store!Insert(Prepared(plan), Pending(plan))
          \/ /\ result'.via = "Plan" /\ result'.status # "Ok"
             /\ \E k \in 1 .. Len(Pending(plan)) - 1 :
                  Store!Insert(Prepared(plan), SubSeq(Pending(plan), 1, k))
    BY DEF Store!PlanInsert, Prepared, Pending
  <2>6. CASE out.status = "Ok" /\ Added(out, storage, plan, n)
    <3>1. ToBag(SubSeq(rows, 1, n)) = ToBag(rows)
      <4>. HIDE DEF rows, n
      <4>1. SubSeq(rows, 1, n) = [i \in 1 .. n |-> rows[i]]
        BY <2>1
      <4>. DEFINE s == [i \in 1 .. n |-> rows[i]]
      <4>2. DOMAIN s = DOMAIN rows /\ \A i \in DOMAIN rows : s[i] = rows[i]
        BY <2>1
      <4>. HIDE DEF s
      <4>3. Range(s) = Range(rows)
        BY <4>2 DEF Range
      <4>4. \A x : {i \in DOMAIN s : s[i] = x} = {i \in DOMAIN rows : rows[i] = x}
        BY <4>2
      <4>5. ToBag(s) = ToBag(rows)
        BY <4>3, <4>4 DEF ToBag
      <4>. QED
        BY <4>1, <4>5 DEF s
    <3>2. Store!Insert(id, rows)
      BY <2>3, <2>6, <3>1
    <3>3. Store!Succeeds("Plan", "Insert")
      BY <1>3, <1>8, <2>6 DEF Store!Succeeds
    <3>4. Store!PlanInsert
      BY <2>4, <2>5, <3>2, <3>3
    <3>. QED
      BY <3>4 DEF Store!Next
  <2>7. CASE out.status # "Ok" /\ \E k \in 1 .. n - 1 : Added(out, storage, plan, k)
    <3>1. PICK k \in 1 .. n - 1 : Added(out, storage, plan, k)
      BY <2>7
    <3>2. Store!Insert(id, SubSeq(rows, 1, k))
      BY <2>3, <3>1
    <3>3. Store!PlanInsert
      BY <1>3, <2>4, <2>5, <2>7, <3>2
    <3>. QED
      BY <3>3 DEF Store!Next
  <2>. QED
    BY <1>8, <2>6, <2>7 DEF Inserted
<1>9. CASE plan.op = "Select" /\ Scanned(out, cat, storage, plan)
  <2>1. /\ result'.status = "Ok" /\ result'.op = "Select"
        /\ cat' = cat /\ storage' = storage
        /\ result'.rows = Contents(storage)[plan.table.id]
    BY <1>1, <1>3, <1>9 DEF Scanned
  <2>2. Prepared(plan) = plan.table.id
    BY <1>9 DEF Prepared
  <2>3. Store!Succeeds("Plan", "Select")
    BY <1>3, <2>1 DEF Store!Succeeds
  <2>4. /\ Store!Succeeds("Plan", "Select")
        /\ result'.rows = Contents(storage)[Prepared(plan)]
        /\ Names(cat') = Names(cat) /\ Contents(storage') = Contents(storage)
        /\ Issued(cat') = Issued(cat)
        /\ Prepared(plan') = Prepared(plan) /\ Pending(plan') = Pending(plan)
    BY <1>1, <2>1, <2>2, <2>3
  <2>5. Store!Select
    BY <2>4 DEF Store!Select, Names, Contents, Issued, Prepared, Pending
  <2>. QED
    BY <2>5 DEF Store!Next
<1>. QED
  BY <1>4, <1>5, <1>6, <1>7, <1>8, <1>9

(* Preparing a statement or building a plan.                               *)
LEMMA PlanStore ==
  ASSUME SqlInv, SqlInv',
         \/ \E statement \in Statements : Prepare(statement)
         \/ \E key \in DOMAIN cat.tables_by_name, rows \in RowLists : BuildInsert(key, rows)
  PROVE  Store!Next
<1>1. cat.next_table_id \in Nat /\ cat'.next_table_id \in Nat
  BY DEF SqlInv, Good, GoodCatalog, CatalogTyped
<1>2. ASSUME NEW statement \in Statements, Prepare(statement) PROVE Store!Next
  <2>. DEFINE bound == Bind(cat, statement)
              p == Plan(cat, statement)
              key == StatementKey(statement)
  <2>1. /\ cat' = cat /\ storage' = storage
        /\ plan' = IF bound = "Ok" THEN p ELSE plan
        /\ result' = Returned("Planner", statement.op, key, bound, EmptyBag)
    BY <1>2 DEF Prepare
  <2>2. bound = "Ok" =>
          /\ p.op = statement.op /\ Runnable(p)
          /\ p.op # "CreateTable" =>
               key \in DOMAIN cat.tables_by_name /\ p.table = cat.tables_by_name[key]
          /\ p.op = "Insert" => p.rows = <<statement.row>>
    BY PlanExact
  <2>. HIDE DEF bound, p, key
  <2>3. /\ result'.via = "Planner" /\ result'.status = bound /\ result'.rows = EmptyBag
        /\ bound = "Ok" => result'.op = statement.op /\ result'.key = key
    BY <2>1, ReturnedFields
  <2>4. CASE bound # "Ok"
    BY <1>1, <2>1, <2>3, <2>4, StoreFails
  <2>5. CASE bound = "Ok"
    <3>1. /\ plan' = p /\ plan'.op = result'.op
          /\ result'.op \in {"CreateTable", "Insert", "Select"}
          /\ plan'.op # "CreateTable" =>
               /\ result'.key \in DOMAIN cat.tables_by_name
               /\ plan'.table = cat.tables_by_name[result'.key]
      BY <2>1, <2>2, <2>3, <2>5 DEF Runnable
    <3>2. plan'.op = "Insert" => plan'.rows \in
            {<<row>> : row \in {s.row : s \in {t \in Statements : t.op = "Insert"}}}
      BY <2>2, <2>3, <2>5, <3>1
    <3>. QED
      BY <2>1, <2>3, <2>5, <3>1, <3>2, StorePrepares
  <2>. QED
    BY <2>4, <2>5
<1>3. ASSUME NEW key \in DOMAIN cat.tables_by_name, NEW rows \in RowLists,
             BuildInsert(key, rows)
      PROVE  Store!Next
  <2>. DEFINE table == cat.tables_by_name[key]
  <2>1. /\ cat' = cat /\ storage' = storage
        /\ plan' = PhysicalInsert(table, rows)
        /\ result' = Returned("Planner", "Insert", key, "Ok", EmptyBag)
    BY <1>3 DEF BuildInsert
  <2>. HIDE DEF table
  <2>2. plan'.op = "Insert" /\ plan'.table = table /\ plan'.rows = rows
    BY <2>1 DEF PhysicalInsert
  <2>3. /\ result'.via = "Planner" /\ result'.status = "Ok"
        /\ result'.op = "Insert" /\ result'.key = key
    BY <2>1, ReturnedFields
  <2>. QED
    BY <2>1, <2>2, <2>3, StorePrepares DEF table
<1>. QED
  BY <1>2, <1>3

(* A call on the catalog that returned an error.                           *)
LEMMA CatalogFails ==
  ASSUME SqlInv, NEW op, NEW key, NEW r, CatalogCall(op, key, r),
         r.status # "Ok", r.cat = cat
  PROVE  Store!Next
<1>1. /\ cat' = cat /\ storage' = storage /\ plan' = plan
      /\ result' = Returned("Catalog", op, key, r.status, EmptyBag)
  BY DEF CatalogCall
<1>2. result'.status # "Ok" /\ result'.rows = EmptyBag
  BY <1>1, ReturnedFields
<1>3. cat.next_table_id \in Nat
  BY DEF SqlInv, Good, GoodCatalog, CatalogTyped
<1>. QED
  BY <1>1, <1>2, <1>3, StoreFails

(* One that succeeded.                                                     *)
LEMMA CatalogSucceeds ==
  ASSUME NEW op, NEW key, NEW r, CatalogCall(op, key, r), r.status = "Ok"
  PROVE  /\ cat' = r.cat /\ storage' = storage /\ plan' = plan
         /\ Store!Succeeds("Catalog", op) /\ result'.key = key
<1>1. /\ cat' = r.cat /\ storage' = storage /\ plan' = plan
      /\ result' = Returned("Catalog", op, key, r.status, EmptyBag)
  BY DEF CatalogCall
<1>2. /\ result'.via = "Catalog" /\ result'.status = "Ok" /\ result'.op = op
      /\ result'.key = key
  BY <1>1, ReturnedFields
<1>. QED
  BY <1>1, <1>2 DEF Store!Succeeds

(* One that names and ids do not notice.                                   *)
LEMMA StoreInternal ==
  ASSUME \/ Store!Succeeds("Catalog", "SetTableHeapRoot")
         \/ Store!Succeeds("Catalog", "CreateIndex"),
         Names(cat') = Names(cat), cat'.next_table_id = cat.next_table_id,
         storage' = storage, plan' = plan
  PROVE  Store!Next
<1>1. /\ Contents(storage') = Contents(storage) /\ Issued(cat') = Issued(cat)
      /\ Prepared(plan') = Prepared(plan) /\ Pending(plan') = Pending(plan)
  BY DEF Issued
<1>2. Store!Internal <=>
        /\ \/ Store!Succeeds("Catalog", "SetTableHeapRoot")
           \/ Store!Succeeds("Catalog", "CreateIndex")
        /\ Names(cat') = Names(cat) /\ Contents(storage') = Contents(storage)
        /\ Issued(cat') = Issued(cat)
        /\ Prepared(plan') = Prepared(plan) /\ Pending(plan') = Pending(plan)
  BY DEF Store!Internal, Names, Contents, Issued, Prepared, Pending
<1>3. Store!Internal
  BY <1>1, <1>2
<1>. QED
  BY <1>3 DEF Store!Next

(* The calls on the catalog.                                               *)
LEMMA CatalogStore ==
  ASSUME SqlInv,
         \/ \E request \in TableRequests : CatalogCreateTable(request)
         \/ \E name \in TableNames : CatalogDropTable(name)
         \/ \E request \in IndexRequests : CatalogCreateIndex(request)
         \/ \E id \in 1 .. MaxTableId, root \in 1 .. kInvalidPageId :
              CatalogSetTableHeapRoot(id, root)
  PROVE  Store!Next
<1>1. GoodCatalog(cat) /\ cat.next_table_id \in Nat \ {0}
  BY DEF SqlInv, Good, GoodCatalog, CatalogTyped
<1>2. ASSUME NEW request, CatalogCreateTable(request) PROVE Store!Next
  <2>. DEFINE r == CreateTable(cat, request)
              key == FoldIdentifierKey(request.name)
              d == WithTable(cat, request)
  <2>1. CatalogCall("CreateTable", key, r)
    BY <1>2 DEF CatalogCreateTable
  <2>2. \/ r.status # "Ok" /\ r.cat = cat
        \/ r.status = "Ok" /\ r.cat = d /\ key \notin DOMAIN cat.tables_by_name
    BY <1>1, CreateTableExact
  <2>3. Names(d) = Put(Names(cat), key, cat.next_table_id)
    BY NamesWithTable
  <2>4. d.next_table_id = cat.next_table_id + 1
    BY NamesWithTable
  <2>. HIDE DEF r, key, d
  <2>5. CASE r.status # "Ok" /\ r.cat = cat
    BY <2>1, <2>5, CatalogFails
  <2>6. CASE r.status = "Ok" /\ r.cat = d /\ key \notin DOMAIN cat.tables_by_name
    <3>1. /\ cat' = d /\ storage' = storage /\ plan' = plan
          /\ Store!Succeeds("Catalog", "CreateTable") /\ result'.key = key
      BY <2>1, <2>6, CatalogSucceeds
    <3>2. key \notin DOMAIN Names(cat)
      BY <2>6 DEF Names
    <3>3. Contents(storage') = Contents(storage)
      BY <3>1
    <3>4. Store!NewTable(FALSE)
      BY <1>1, <2>3, <2>4, <3>1, <3>2, <3>3, StoreNewTable
    <3>. QED
      BY <3>1, <3>4 DEF Store!Next, Store!CreateTable
  <2>. QED
    BY <2>2, <2>5, <2>6
<1>3. ASSUME NEW name, CatalogDropTable(name) PROVE Store!Next
  <2>. DEFINE r == DropTable(cat, name)
              key == FoldIdentifierKey(name)
              d == WithoutTable(cat, key)
  <2>1. CatalogCall("DropTable", key, r)
    BY <1>3 DEF CatalogDropTable
  <2>2. \/ r.status = "NotFound" /\ r.cat = cat
        \/ r.status = "Ok" /\ r.cat = d /\ key \in DOMAIN cat.tables_by_name
    BY <1>1, DropTableExact
  <2>3. /\ Names(d) = Restrict(Names(cat), DOMAIN Names(cat) \ {key})
        /\ d.next_table_id = cat.next_table_id
    BY NamesWithoutTable
  <2>. HIDE DEF r, key, d
  <2>4. CASE r.status = "NotFound" /\ r.cat = cat
    <3>1. r.status # "Ok"
      BY <2>4
    <3>. QED
      BY <2>1, <2>4, <3>1, CatalogFails
  <2>5. CASE r.status = "Ok" /\ r.cat = d /\ key \in DOMAIN cat.tables_by_name
    <3>1. /\ cat' = d /\ storage' = storage /\ plan' = plan
          /\ Store!Succeeds("Catalog", "DropTable") /\ result'.key = key
      BY <2>1, <2>5, CatalogSucceeds
    <3>2. key \in DOMAIN Names(cat)
      BY <2>5 DEF Names
    <3>3. Names(cat') = Store!Restrict(Names(cat), DOMAIN Names(cat) \ {result'.key})
      BY <2>3, <3>1, StoreOperators
    <3>4. /\ Contents(storage') = Contents(storage) /\ Issued(cat') = Issued(cat)
          /\ Prepared(plan') = Prepared(plan) /\ Pending(plan') = Pending(plan)
      BY <2>3, <3>1 DEF Issued
    <3>5. Store!DropTable <=>
            /\ Store!Succeeds("Catalog", "DropTable")
            /\ result'.key \in DOMAIN Names(cat)
            /\ Names(cat') = Store!Restrict(Names(cat), DOMAIN Names(cat) \ {result'.key})
            /\ Contents(storage') = Contents(storage) /\ Issued(cat') = Issued(cat)
            /\ Prepared(plan') = Prepared(plan) /\ Pending(plan') = Pending(plan)
      BY DEF Store!DropTable, Names, Contents, Issued, Prepared, Pending
    <3>6. Store!DropTable
      BY <3>1, <3>2, <3>3, <3>4, <3>5
    <3>. QED
      BY <3>6 DEF Store!Next
  <2>. QED
    BY <2>2, <2>4, <2>5
<1>4. ASSUME NEW request, CatalogCreateIndex(request) PROVE Store!Next
  <2>. DEFINE r == CreateIndex(cat, request)
              key == FoldIdentifierKey(request.table_name)
              name == FoldIdentifierKey(request.name)
              index == NewIndex(cat, request)
              d == WithIndex(cat, key, name, index)
  <2>1. CatalogCall("CreateIndex", key, r)
    BY <1>4 DEF CatalogCreateIndex
  <2>2. \/ r.status # "Ok" /\ r.cat = cat
        \/ r.status = "Ok" /\ r.cat = d /\ key \in DOMAIN cat.tables_by_name
    BY <1>1, CreateIndexExact
  <2>3. key \in DOMAIN cat.tables_by_name =>
          Names(d) = Names(cat) /\ d.next_table_id = cat.next_table_id
    <3>. HIDE DEF key, name, index
    <3>. QED
      BY <1>1, NamesWithIndex
  <2>. HIDE DEF r, key, d
  <2>4. CASE r.status # "Ok" /\ r.cat = cat
    BY <2>1, <2>4, CatalogFails
  <2>5. CASE r.status = "Ok" /\ r.cat = d /\ key \in DOMAIN cat.tables_by_name
    <3>1. /\ cat' = d /\ storage' = storage /\ plan' = plan
          /\ Store!Succeeds("Catalog", "CreateIndex")
      BY <2>1, <2>5, CatalogSucceeds
    <3>. QED
      BY <2>3, <2>5, <3>1, StoreInternal
  <2>. QED
    BY <2>2, <2>4, <2>5
<1>5. ASSUME NEW id, NEW root, CatalogSetTableHeapRoot(id, root) PROVE Store!Next
  <2>. DEFINE r == SetTableHeapRoot(cat, id, root)
              key == cat.table_names_by_id[id]
              d == WithRoot(cat, key, root)
              none == ""
  <2>1. CatalogCall("SetTableHeapRoot", none, r)
    BY <1>5 DEF CatalogSetTableHeapRoot
  <2>2. \/ r.status \in {"InvalidArgument", "NotFound"} /\ r.cat = cat
        \/ r.status = "Ok" /\ r.cat = d /\ id \in DOMAIN cat.table_names_by_id
    BY <1>1, SetTableHeapRootExact
  <2>3. ASSUME id \in DOMAIN cat.table_names_by_id
        PROVE  Names(d) = Names(cat) /\ d.next_table_id = cat.next_table_id
    <3>1. key \in DOMAIN cat.tables_by_name
      BY <1>1, <2>3 DEF GoodCatalog, TablesAgree
    <3>. HIDE DEF key
    <3>. QED
      BY <1>1, <3>1, NamesWithRoot
  <2>. HIDE DEF r, key, d, none
  <2>4. CASE r.status \in {"InvalidArgument", "NotFound"} /\ r.cat = cat
    <3>1. r.status # "Ok"
      BY <2>4
    <3>. QED
      BY <2>1, <2>4, <3>1, CatalogFails
  <2>5. CASE r.status = "Ok" /\ r.cat = d /\ id \in DOMAIN cat.table_names_by_id
    <3>1. /\ cat' = d /\ storage' = storage /\ plan' = plan
          /\ Store!Succeeds("Catalog", "SetTableHeapRoot")
      BY <2>1, <2>5, CatalogSucceeds
    <3>. QED
      BY <2>3, <2>5, <3>1, StoreInternal
  <2>. QED
    BY <2>2, <2>4, <2>5
<1>. QED
  BY <1>2, <1>3, <1>4, <1>5

(* A heap for a table that has none.                                       *)
LEMMA StorageCreateHeapStore ==
  ASSUME SqlInv, NEW id \in 1 .. MaxTableId, StorageCreateHeap(id)
  PROVE  Store!Next
<1>. DEFINE heap == CreateHeap(storage, id)
            none == ""
<1>1. /\ id < cat.next_table_id /\ storage' = heap.storage
      /\ cat' = cat /\ plan' = plan
      /\ result' = Returned("Storage", "CreateHeap", none, heap.status, EmptyBag)
  BY DEF StorageCreateHeap
<1>2. \/ heap.status \in {"AlreadyExists", "Internal"} /\ heap.storage = storage
      \/ /\ heap.status = "Ok" /\ heap.storage = WithHeap(storage, id)
         /\ id \notin DOMAIN storage.tables
  BY CreateHeapExact
<1>3. cat.next_table_id \in Nat /\ id \in Nat \ {0}
  BY InputsAssumption DEF SqlInv, Good, GoodCatalog, CatalogTyped
<1>. HIDE DEF heap, none
<1>4. /\ result'.via = "Storage" /\ result'.status = heap.status
      /\ result'.rows = EmptyBag
      /\ heap.status = "Ok" => result'.op = "CreateHeap"
  BY <1>1, ReturnedFields
<1>5. CASE heap.status \in {"AlreadyExists", "Internal"} /\ heap.storage = storage
  <2>1. result'.status # "Ok" /\ storage' = storage
    BY <1>1, <1>4, <1>5
  <2>. QED
    BY <1>1, <1>3, <1>4, <2>1, StoreFails
<1>6. CASE /\ heap.status = "Ok" /\ heap.storage = WithHeap(storage, id)
           /\ id \notin DOMAIN storage.tables
  <2>1. Store!Succeeds("Storage", "CreateHeap")
    BY <1>4, <1>6 DEF Store!Succeeds
  <2>2. Contents(storage') = Store!With(Contents(storage), id, Store!EmptyBag)
    BY <1>1, <1>6, ContentsWithHeap, StoreOperators
  <2>3. id \in Issued(cat) \ DOMAIN Contents(storage)
    <3>1. id \notin DOMAIN Contents(storage)
      BY <1>6 DEF Contents
    <3>2. id \in Issued(cat)
      BY <1>1, <1>3 DEF Issued
    <3>. QED
      BY <3>1, <3>2
  <2>4. Store!CreateHeap <=>
          /\ Store!Succeeds("Storage", "CreateHeap")
          /\ \E x \in Issued(cat) \ DOMAIN Contents(storage) :
               Contents(storage') = Store!With(Contents(storage), x, Store!EmptyBag)
          /\ Names(cat') = Names(cat) /\ Issued(cat') = Issued(cat)
          /\ Prepared(plan') = Prepared(plan) /\ Pending(plan') = Pending(plan)
    BY DEF Store!CreateHeap, Names, Contents, Issued, Prepared, Pending
  <2>5. Store!CreateHeap
    BY <1>1, <2>1, <2>2, <2>3, <2>4
  <2>. QED
    BY <2>5 DEF Store!Next
<1>. QED
  BY <1>2, <1>5, <1>6

(* The engine starts as the store does.                                    *)
LEMMA InitStore == Init => Store!Init
<1>. SUFFICES ASSUME Init PROVE Store!Init
  OBVIOUS
<1>. DEFINE first == Returned("None", "None", "", "Ok", EmptyBag)
<1>1. /\ cat = EmptyCatalog /\ storage = EmptyStorage
      /\ plan = NoPlan /\ result = first
  BY DEF Init
<1>2. Names(cat) = << >> /\ Issued(cat) = {}
  <2>1. cat.tables_by_name = << >> /\ cat.next_table_id = 1
    BY <1>1 DEF EmptyCatalog
  <2>2. DOMAIN << >> = {} /\ << >> = [x \in {} |-> x]
    OBVIOUS
  <2>3. Names(cat) = [key \in {} |-> cat.tables_by_name[key].id]
    BY <2>1, <2>2 DEF Names
  <2>4. [key \in {} |-> cat.tables_by_name[key].id] = [x \in {} |-> x]
    OBVIOUS
  <2>. QED
    BY <2>1, <2>2, <2>3, <2>4 DEF Issued
<1>3. Contents(storage) = << >>
  <2>1. storage.tables = << >>
    BY <1>1 DEF EmptyStorage
  <2>2. DOMAIN << >> = {} /\ << >> = [x \in {} |-> x]
    OBVIOUS
  <2>3. Contents(storage) = [id \in {} |-> RowsOf(storage.tables[id].tuples)]
    BY <2>1, <2>2 DEF Contents
  <2>4. [id \in {} |-> RowsOf(storage.tables[id].tuples)] = [x \in {} |-> x]
    OBVIOUS
  <2>. QED
    BY <2>2, <2>3, <2>4
<1>4. Prepared(plan) = NoTable /\ Pending(plan) = << >>
  BY <1>1 DEF NoPlan, Prepared, Pending
<1>5. first = [via |-> "None", op |-> "None", key |-> "", status |-> "Ok",
               rows |-> Store!EmptyBag]
  BY StoreOperators, Zenon DEF Returned
<1>6. Store!Init <=>
        /\ Names(cat) = << >> /\ Contents(storage) = << >> /\ Issued(cat) = {}
        /\ Prepared(plan) = NoTable /\ Pending(plan) = << >>
        /\ result = [via |-> "None", op |-> "None", key |-> "", status |-> "Ok",
                     rows |-> Store!EmptyBag]
  BY Zenon DEF Store!Init, Names, Contents, Issued, Prepared, Pending
<1>. HIDE DEF first
<1>. QED
  BY <1>1, <1>2, <1>3, <1>4, <1>5, <1>6, Zenon

(* SQL, plans run late, and calls on catalog and storage beside SQL, in    *)
(* any order, look to their callers like the table store.                  *)
THEOREM ImplementsStore == Spec => StoreSpec
<1>1. ASSUME SqlInv, SqlInv', Next PROVE Store!Next
  BY <1>1, ExecuteSqlStore, ExecutePlanStore, PlanStore, CatalogStore,
     StorageCreateHeapStore DEF Next
<1>2. ASSUME UNCHANGED vars PROVE UNCHANGED Store!vars
  BY <1>2 DEF vars, Store!vars
<1>3. SqlInv /\ SqlInv' /\ [Next]_vars => [Store!Next]_(Store!vars)
  BY <1>1, <1>2
<1>. QED
  BY <1>3, InitStore, SqlInvariant, PTL DEF Spec, StoreSpec, Store!Spec

=============================================================================
