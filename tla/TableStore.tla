----------------------------- MODULE TableStore -----------------------------
(***************************************************************************)
(* What a user of the SQL engine may rely on.  A table name stands for one *)
(* incarnation of a table; every incarnation has its own bag of rows, and  *)
(* starts empty.  A statement acts on the incarnation its name stood for   *)
(* when the statement was bound, a plan prepared earlier on the one it was *)
(* prepared for, also when that table has been dropped, or dropped and     *)
(* created again, since; each run of a plan inserts all its rows again.  A *)
(* failed call changes no name and no row, except that a plan with several *)
(* rows may keep those stored before the failure.                          *)
(*                                                                         *)
(* Plans, root pages, indexes and the catalog's maps are not visible here. *)
(***************************************************************************)
EXTENDS Naturals, SequencesExt

CONSTANTS NoTable,   \* no plan, or a plan for a table that is yet to be made
          Rows,      \* the rows of INSERT statements
          RowLists   \* the rows of plans that callers build themselves

VARIABLES names,     \* folded name -> incarnation
          contents,  \* incarnation -> bag of rows, once it has storage
          issued,    \* the incarnations there have been
          prepared,  \* the incarnation the prepared plan is for
          pending,   \* the rows that a run of the plan inserts
          result     \* what the last call returned

vars == <<names, contents, issued, prepared, pending, result>>

Init ==
  /\ names = << >>
  /\ contents = << >>
  /\ issued = {}
  /\ prepared = NoTable
  /\ pending = << >>
  /\ result = [via |-> "None", op |-> "None", key |-> "", status |-> "Ok",
               rows |-> EmptyBag]

(* A call through SQL, a plan, the catalog, ... that reports success.       *)
Succeeds(via, op) ==
  result'.via = via /\ result'.op = op /\ result'.status = "Ok"

(* The map with an entry for the key.                                      *)
With(map, key, value) ==
  [k \in DOMAIN map \cup {key} |-> IF k = key THEN value ELSE map[k]]

(* A name gets a fresh incarnation, with storage or without.               *)
NewTable(storage) ==
  /\ result'.key \notin DOMAIN names
  /\ \E id \in issued' \ issued :
       /\ issued' = issued \cup {id}
       /\ names' = With(names, result'.key, id)
       /\ contents' = IF storage THEN With(contents, id, EmptyBag) ELSE contents
  /\ UNCHANGED <<prepared, pending>>

CreateTable ==
  \/ Succeeds("Sql", "CreateTable")     /\ NewTable(TRUE)
  \/ Succeeds("Plan", "CreateTable")    /\ NewTable(TRUE)
  \/ Succeeds("Catalog", "CreateTable") /\ NewTable(FALSE)

CreateHeap ==
  /\ Succeeds("Storage", "CreateHeap")
  /\ \E id \in issued \ DOMAIN contents : contents' = With(contents, id, EmptyBag)
  /\ UNCHANGED <<names, issued, prepared, pending>>

DropTable ==
  /\ Succeeds("Catalog", "DropTable")
  /\ result'.key \in DOMAIN names
  /\ names' = Restrict(names, DOMAIN names \ {result'.key})
  /\ UNCHANGED <<contents, issued, prepared, pending>>

(* Calls that change nothing a user of tables can see.                     *)
Internal ==
  /\ Succeeds("Catalog", "SetTableHeapRoot") \/ Succeeds("Catalog", "CreateIndex")
  /\ UNCHANGED <<names, contents, issued, prepared, pending>>

(* A plan is for the incarnation its name stands for now.                  *)
Prepare ==
  /\ result'.via = "Planner" /\ result'.status = "Ok"
  /\ prepared' = IF result'.op = "CreateTable" THEN NoTable ELSE names[result'.key]
  /\ IF result'.op = "Insert" THEN pending' \in RowLists \cup {<<row>> : row \in Rows}
                              ELSE pending' = << >>
  /\ UNCHANGED <<names, contents, issued>>

Insert(id, rows) ==
  /\ id \in DOMAIN contents
  /\ contents' = [contents EXCEPT ![id] = @ (+) ToBag(rows)]
  /\ UNCHANGED <<names, issued, prepared, pending>>

SqlInsert ==
  /\ Succeeds("Sql", "Insert")
  /\ result'.key \in DOMAIN names
  /\ \E row \in Rows : Insert(names[result'.key], <<row>>)

(* A run of the plan inserts all its rows, or fails after some of them.    *)
PlanInsert ==
  \/ Succeeds("Plan", "Insert") /\ Insert(prepared, pending)
  \/ /\ result'.via = "Plan" /\ result'.status # "Ok"
     /\ \E n \in 1 .. Len(pending) - 1 : Insert(prepared, SubSeq(pending, 1, n))

Select ==
  /\ \/ /\ Succeeds("Sql", "Select")
        /\ result'.key \in DOMAIN names
        /\ result'.rows = contents[names[result'.key]]
     \/ /\ Succeeds("Plan", "Select")
        /\ result'.rows = contents[prepared]
  /\ UNCHANGED <<names, contents, issued, prepared, pending>>

Fail ==
  /\ result'.status # "Ok"
  /\ result'.rows = EmptyBag
  /\ issued \subseteq issued'
  /\ UNCHANGED <<names, contents, prepared, pending>>

Next ==
  \/ CreateTable \/ CreateHeap \/ DropTable \/ Internal \/ Prepare
  \/ SqlInsert \/ PlanInsert \/ Select \/ Fail

Spec == Init /\ [][Next]_vars

=============================================================================
