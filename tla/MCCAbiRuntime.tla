--------------------------- MODULE MCCAbiRuntime ---------------------------
(***************************************************************************)
(* CAbiRuntime with batches of at most two requests and room for three     *)
(* completions, several of which fail, so that polls carry several texts   *)
(* and an exception may strike between the requests of a batch.            *)
(***************************************************************************)
EXTENDS CAbiRuntime

MCBuffers == [ones |-> <<1, 1>>, other |-> <<2, 3>>, none |-> << >>, empty |-> << >>]

Request(id, operation, offset, buffer, length) ==
  [id |-> id, operation |-> operation, offset |-> offset, buffer |-> buffer,
   length |-> length, flags |-> {}, user_data |-> <<operation, offset>>]

(* Two that succeed, one with flags; one that is unaligned; a flush beyond *)
(* the request size limit.                                                 *)
MCRequests ==
  {[Request(0, "Write", 0, "ones", 0) EXCEPT !.flags = {"BarrierAfter"}],
   Request(2, "Read", 0, "other", 2),
   Request(0, "Read", 1, "other", 2),
   Request(3, "Flush", 0, "none", 4)}

(* An empty span that is not null reaches the runtime, which refuses it.   *)
EmptyRead == Request(0, "Read", 2, "empty", 0)

(* An unknown flag, an unknown operation, a length beyond the buffer, a    *)
(* read without a buffer.                                                  *)
MCRefused ==
  {[Request(0, "Write", 0, "ones", 0) EXCEPT !.flags = {"Unknown"}],
   Request(0, "Trim", 0, "ones", 0),
   Request(0, "Write", 0, "ones", 4),
   Request(0, "Read", 0, "none", 0)}

MCBatches ==
  {<< >>}
    \cup {<<r>> : r \in MCRequests \cup MCRefused \cup {EmptyRead}}
    \cup {<<r, s>> : r, s \in MCRequests}
    \cup {<<r, s>> : r \in {Request(2, "Read", 0, "other", 2)}, s \in MCRefused}
    \cup {<<r, r, r>> : r \in {Request(3, "Flush", 0, "none", 4)}}

=============================================================================
