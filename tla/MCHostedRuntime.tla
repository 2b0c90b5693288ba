-------------------------- MODULE MCHostedRuntime --------------------------
(***************************************************************************)
(* HostedRuntime with a device of two blocks of two bytes, batches of at   *)
(* most two requests and room for three completions, so that the queue     *)
(* fills and a batch may find room for one of its two requests only.       *)
(***************************************************************************)
EXTENDS HostedRuntime

MCBuffers == [ones |-> <<1, 1>>, other |-> <<2, 3>>, none |-> << >>]

Request(id, operation, offset, buffer, length) ==
  [id |-> id, operation |-> operation, offset |-> offset, buffer |-> buffer,
   length |-> length, flags |-> {}, user_data |-> <<operation, offset>>]

(* Requests with and without an id of the caller's; a length taken from    *)
(* the buffer; a length beyond the buffer; an unaligned offset; a range    *)
(* past the end of the device; a flush beyond the request size limit.      *)
MCRequests ==
  {Request(0, "Write", 0, "ones", 0),
   Request(1, "Write", 2, "other", 2),
   Request(0, "Read", 0, "other", 2),
   Request(2, "Read", 1, "other", 2),
   Request(0, "Write", 0, "ones", 4),
   Request(3, "Flush", 2, "none", 2),
   Request(0, "Flush", 0, "none", 4),
   Request(0, "Read", 4, "other", 2)}

(* An unknown flag and an unknown operation.                               *)
MCUnknown ==
  {[Request(0, "Write", 0, "ones", 0) EXCEPT !.flags = {"Unknown"}],
   Request(0, "Trim", 0, "ones", 0)}

MCBatches ==
  {<< >>}
    \cup {<<r>> : r \in MCRequests \cup MCUnknown}
    \cup {<<r, s>> : r \in MCRequests, s \in MCRequests}
    \cup {<<r, s>> : r \in {Request(1, "Write", 2, "other", 2)}, s \in MCUnknown}
    \cup {<<r, r, r>> : r \in {Request(3, "Flush", 2, "none", 2)}}

=============================================================================
