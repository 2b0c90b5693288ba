---------------------------- MODULE RecordStore ----------------------------
(***************************************************************************)
(* What a HeapTable promises its callers                                   *)
(* (src/include/mattsql/storage/heap/heap_table.hpp and the contract in    *)
(* src/docs/reference/invariants.md): a partial map from record ids to     *)
(* bytes, and scans that miss nothing.                                     *)
(*                                                                         *)
(*  - Insert binds a fresh id to the record, or fails and changes nothing. *)
(*  - Read returns exactly the bytes bound to an active id.                *)
(*  - Delete unbinds an active id.                                         *)
(*  - A scan returns each id at most once, only while it is bound, and     *)
(*    says "end" only after it returned every record that was there when   *)
(*    the scan began and was not deleted since.                            *)
(***************************************************************************)
EXTENDS Integers

CONSTANTS RecordIds, Records, Cursors, NoId

VARIABLES records,   \* the bound ids and their bytes
          scans,     \* per cursor: what it still has to return, what it has
          result     \* what the last call returned to its caller

vars == <<records, scans, result>>

NoScan == [open |-> FALSE, pending |-> {}, seen |-> {}]

Returned(op, status, id, bytes) ==
  [op |-> op, status |-> status, id |-> id, bytes |-> bytes]

Init ==
  /\ records = << >>
  /\ scans = [c \in Cursors |-> NoScan]
  /\ result = Returned("None", "Ok", NoId, << >>)

InsertOk(record) ==
  \E id \in RecordIds \ DOMAIN records :
    /\ result' = Returned("Insert", "Ok", id, << >>)
    /\ records' = [i \in DOMAIN records \cup {id} |->
                     IF i = id THEN record ELSE records[i]]
    /\ UNCHANGED scans

InsertFailed ==
  /\ \E status \in {"InvalidArgument", "Internal"} :
        result' = Returned("Insert", status, NoId, << >>)
  /\ UNCHANGED <<records, scans>>

Read(id) ==
  /\ result' = IF id \in DOMAIN records
               THEN Returned("Read", "Ok", id, records[id])
               ELSE Returned("Read", "NotFound", NoId, << >>)
  /\ UNCHANGED <<records, scans>>

DeleteOk(id) ==
  /\ result' = Returned("Delete", "Ok", id, << >>)
  /\ id \in DOMAIN records
  /\ records' = [i \in DOMAIN records \ {id} |-> records[i]]
  /\ scans' = [c \in Cursors |-> [scans[c] EXCEPT !.pending = @ \ {id}]]

DeleteMissing(id) ==
  /\ result' = Returned("Delete", "NotFound", NoId, << >>)
  /\ id \notin DOMAIN records
  /\ UNCHANGED <<records, scans>>

Scan(c) ==
  /\ result' = Returned("Scan", "Ok", NoId, << >>)
  /\ scans' = [scans EXCEPT ![c] = [open    |-> TRUE,
                                    pending |-> DOMAIN records,
                                    seen    |-> {}]]
  /\ UNCHANGED records

NextRecord(c) ==
  /\ scans[c].open
  /\ \E id \in DOMAIN records \ scans[c].seen :
       /\ result' = Returned("Next", "Ok", id, records[id])
       /\ scans' = [scans EXCEPT ![c] = [open    |-> TRUE,
                                         pending |-> scans[c].pending \ {id},
                                         seen    |-> scans[c].seen \cup {id}]]
  /\ UNCHANGED records

NextEnd(c) ==
  /\ scans[c].open
  /\ scans[c].pending = {}
  /\ result' = Returned("Next", "NotFound", NoId, << >>)
  /\ UNCHANGED <<records, scans>>

Next ==
  \/ \E record \in Records : InsertOk(record)
  \/ InsertFailed
  \/ \E id \in RecordIds : Read(id) \/ DeleteOk(id) \/ DeleteMissing(id)
  \/ \E c \in Cursors : Scan(c) \/ NextRecord(c) \/ NextEnd(c)

Spec == Init /\ [][Next]_vars

=============================================================================
