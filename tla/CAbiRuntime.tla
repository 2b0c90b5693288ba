---------------------------- MODULE CAbiRuntime ----------------------------
(***************************************************************************)
(* Block I/O across the C ABI: a caller of CAbiPlatformRuntime, the        *)
(* adapter (src/src/runtime/c_abi_platform_runtime.cpp), whose table of    *)
(* callbacks is CAbiRuntimeProvider's                                      *)
(* (src/src/runtime/c_abi_runtime_provider.cpp) over the HostedRuntime.    *)
(*                                                                         *)
(* A call goes down through both translations, is executed by the hosted   *)
(* runtime, and its outcome comes up through both again.  `seen' is what   *)
(* the adapter's caller gets; `result' is what the hosted runtime did,     *)
(* with status Internal when an exception was caught.  Numbers are 64 bits *)
(* wide on both sides, so fits_size_t always holds.                        *)
(***************************************************************************)
EXTENDS HostedRuntime

CONSTANTS Throws,       \* an exception may reach the provider's catch (...)
          garbled,      \* the text read through a dangling message pointer
          NullBuffers   \* the empty buffers whose span has a null pointer

ASSUME AbiAssumption ==
  /\ Throws \in BOOLEAN
  /\ \A b \in NullBuffers : b \in DOMAIN Buffers /\ Buffers[b] = << >>

VARIABLES table_valid,       \* the table passes CAbiPlatformRuntime::Validate
          messages_capacity, \* of the vector completion_status_messages_
          seen,              \* what the adapter returned
          seen_messages      \* the status messages of seen.delivered

abi_vars == <<vars, table_valid, messages_capacity, seen, seen_messages>>

AbiInit ==
  /\ Init
  /\ table_valid \in BOOLEAN
  /\ messages_capacity = 0
  /\ seen = NoResult
  /\ seen_messages = << >>

-----------------------------------------------------------------------------
(* Statuses.  The provider has the first table, the adapter the second.    *)

to_abi_status_code ==
  [Ok |-> 0, InvalidArgument |-> 1, NotFound |-> 2, AlreadyExists |-> 3,
   TypeMismatch |-> 4, ParseError |-> 5, BindError |-> 6, PlanError |-> 7,
   ExecutionError |-> 8, IoError |-> 9, Corruption |-> 10,
   TransactionConflict |-> 11, NotSupported |-> 12, Internal |-> 13]

from_abi_status_code(code) ==
  CASE code = 0 -> "Ok"               [] code = 1 -> "InvalidArgument"
    [] code = 2 -> "NotFound"         [] code = 3 -> "AlreadyExists"
    [] code = 4 -> "TypeMismatch"     [] code = 5 -> "ParseError"
    [] code = 6 -> "BindError"        [] code = 7 -> "PlanError"
    [] code = 8 -> "ExecutionError"   [] code = 9 -> "IoError"
    [] code = 10 -> "Corruption"      [] code = 11 -> "TransactionConflict"
    [] code = 12 -> "NotSupported"    [] OTHER -> "Internal"

(* Every error of the runtime carries a text, and success carries none; a  *)
(* text is known by the status it explains.                                *)
Message(status) == IF status = "Ok" THEN "" ELSE status

-----------------------------------------------------------------------------
(* Requests going down.                                                    *)

kKnownIoRequestFlags == {"BarrierBefore", "BarrierAfter", "ForceUnitAccess"}

BitOf == [BarrierBefore |-> 0, BarrierAfter |-> 1, ForceUnitAccess |-> 2]
OperationCode == [Read |-> 0, Write |-> 1, Flush |-> 2]

(* Version and required callbacks, looked at by every call.                *)
Validate == IF table_valid THEN "Ok" ELSE "InvalidArgument"

(* What the adapter refuses without a call.                                *)
AdapterRefuses(requests) ==
  \/ Validate # "Ok"
  \/ requests = << >>
  \/ \E k \in DOMAIN requests :
       \/ requests[k].operation \notin DOMAIN OperationCode
       \/ ~(requests[k].flags \subseteq kKnownIoRequestFlags)
       \/ /\ requests[k].operation # "Flush"
          /\ requests[k].length > Len(memory[requests[k].buffer])

(* An empty span may have a pointer or none.                               *)
IsNull(buffer) == buffer \in NullBuffers

(* mattsql_abi_io_request, flags as the set of its bits.                   *)
to_abi_request(request) ==
  [id |-> request.id, operation |-> OperationCode[request.operation],
   flags |-> {BitOf[f] : f \in request.flags}, offset |-> request.offset,
   buffer |-> request.buffer, buffer_length |-> Len(memory[request.buffer]),
   length |-> request.length, user_data |-> request.user_data]

ProviderRefuses(abi_requests) ==
  \E k \in DOMAIN abi_requests :
    LET r == abi_requests[k] IN
    \/ r.operation \notin 0 .. 2
    \/ ~(r.flags \subseteq 0 .. 2)
    \/ r.operation # 2 /\ IsNull(r.buffer)
    \/ IsNull(r.buffer) /\ r.buffer_length # 0
    \/ r.operation # 2 /\ r.length > r.buffer_length

(* Mutant: a request loses its id on the way.                              *)
from_abi_request_NoId(r) ==
  [id |-> 0, operation |-> <<"Read", "Write", "Flush">>[r.operation + 1],
   offset |-> r.offset, buffer |-> r.buffer, length |-> r.length,
   flags |-> {f \in DOMAIN BitOf : BitOf[f] \in r.flags},
   user_data |-> r.user_data]

from_abi_request(r) ==
  [id |-> r.id, operation |-> <<"Read", "Write", "Flush">>[r.operation + 1],
   offset |-> r.offset, buffer |-> r.buffer, length |-> r.length,
   flags |-> {f \in DOMAIN BitOf : BitOf[f] \in r.flags},
   user_data |-> r.user_data]

AbiRequests(requests) == [k \in DOMAIN requests |-> to_abi_request(requests[k])]

(* The batch the hosted runtime gets.                                      *)
RuntimeRequests(requests) ==
  [k \in DOMAIN requests |-> from_abi_request(AbiRequests(requests)[k])]

-----------------------------------------------------------------------------
(* Submission.                                                             *)

(* Provider and adapter both look at the count and the first id they are   *)
(* given, when the requests have been accepted already.                    *)
SubmissionChecked(requests, submission) ==
  IF \/ submission.submitted_count # Len(requests)
     \/ submission.first_request_id = 0
     \/ requests[1].id # 0 /\ submission.first_request_id # requests[1].id
  THEN "Internal" ELSE "Ok"

(* The status the caller sees for what the hosted runtime returned.        *)
SeenStatus(requests, submission) ==
  LET code == IF submission.status # "Ok" THEN submission.status
              ELSE SubmissionChecked(RuntimeRequests(requests), submission)
      up == from_abi_status_code(to_abi_status_code[code])
  IN IF up # "Ok" THEN up ELSE SubmissionChecked(requests, submission)

(* The batch gets past the checks of adapter and provider.                 *)
Reaches(requests) ==
  IF AdapterRefuses(requests) THEN FALSE
  ELSE ~ProviderRefuses(AbiRequests(requests))

RefusedOnTheWay(call, requests) ==
  /\ ~Reaches(requests)
  /\ result' = NoResult
  /\ seen' = Failed(call, "InvalidArgument")
  /\ UNCHANGED <<block_device, data, memory, next_io_request_id, completions>>

(* SubmitIo, built on the adapter's SubmitIoBatch, checks the id again.    *)
Submitted(call, requests) ==
  /\ Reaches(requests)
  /\ \/ AcceptBatch(call, "Ok", RuntimeRequests(requests))
     \/ RefuseBatch(call, RuntimeRequests(requests))
  /\ seen' = [result' EXCEPT !.status = SeenStatus(requests, result')]

(* An exception (std::bad_alloc, or one of a BlockDevice) ends the hosted  *)
(* runtime's loop at request n, whose id is taken and which may have been  *)
(* executed; n = 0 when the provider's own vectors cannot be built.  The   *)
(* provider turns it into Internal.                                        *)
SubmissionThrows(call, requests) ==
  /\ Throws
  /\ Reaches(requests)
  /\ SubmissionStatus(RuntimeRequests(requests)) = "Ok"
  /\ \E n \in 0 .. Len(requests) :
       LET First(m) == SubSeq(RuntimeRequests(requests), 1, m)
           queued == SubSeq(NewCompletions(First(n)), 1, n - 1)
       IN /\ \E m \in {IF n = 0 THEN 0 ELSE n - 1, n} :
               /\ data' = Performed(First(m)).data
               /\ memory' = Performed(First(m)).memory
          /\ next_io_request_id' = next_io_request_id + Cardinality(Unnumbered(First(n)))
          /\ completions' = completions \o queued
          /\ result' = [Failed(call, "Internal") EXCEPT !.accepted = queued]
          /\ UNCHANGED block_device
  /\ seen' = Failed(call, "Internal")

AbiSubmit(call, requests) ==
  /\ next_io_request_id <= MaxRequestId
  /\ \/ RefusedOnTheWay(call, requests)
     \/ Submitted(call, requests)
     \/ SubmissionThrows(call, requests)
  /\ seen_messages' = << >>
  /\ UNCHANGED <<table_valid, messages_capacity>>

AbiSubmitIoBatch(requests) == AbiSubmit("SubmitIoBatch", requests)

AbiSubmitIo(request) == AbiSubmit("SubmitIo", <<request>>)

-----------------------------------------------------------------------------
(* Completions coming up.  The provider keeps the texts in a vector and    *)
(* hands out pointers into it, which the adapter reads when the callback   *)
(* has returned.                                                           *)

(* Mutant: the vector grows while pointers into it are handed out.         *)
Reserved_NoReserve(count) == messages_capacity

(* The capacity after completion_status_messages_.reserve(count).          *)
Reserved(count) == IF count > messages_capacity THEN count ELSE messages_capacity

(* The capacity after m push_backs on a cleared vector of capacity c.      *)
Capacity(c, m) ==
  LET after[j \in 0 .. m] ==
        IF j = 0 THEN c
        ELSE IF j - 1 < after[j - 1] THEN after[j - 1]
        ELSE IF after[j - 1] = 0 THEN 1 ELSE 2 * after[j - 1]
  IN after[m]

Texts(done, k) == Cardinality({j \in 1 .. k : Message(done[j].status) # ""})

(* mattsql_abi_io_completion; message is an index into the vector, or 0.   *)
ToAbiCompletion(done, k) ==
  [id |-> done[k].id, code |-> to_abi_status_code[done[k].status],
   message |-> IF Message(done[k].status) = "" THEN 0 ELSE Texts(done, k),
   bytes_transferred |-> done[k].bytes_transferred,
   user_data |-> done[k].user_data]

FromAbiCompletion(c) ==
  [id |-> c.id, status |-> from_abi_status_code(c.code),
   bytes_transferred |-> c.bytes_transferred, user_data |-> c.user_data]

(* What the adapter reads for the text of completion k of `done': the text *)
(* itself unless the vector has moved since the pointer was taken.         *)
MessageRead(done, k) ==
  LET c == Reserved(Len(done))
      pointer == ToAbiCompletion(done, k).message
  IN IF pointer = 0 THEN ""
     ELSE IF Capacity(c, pointer) = Capacity(c, Texts(done, Len(done)))
          THEN Message(done[k].status) ELSE garbled

(* The adapter gives up on a completion without an id.                     *)
PollStatus(done) == IF \E k \in DOMAIN done : done[k].id = 0 THEN "Internal" ELSE "Ok"

(* A poll for `size' completions gets those the hosted runtime pops.       *)
Polled(call, size) ==
  LET done == Popped(size)
      status == IF PollStatus(done) # "Ok" THEN PollStatus(done)
                ELSE IF call = "PollIoCompletion" /\ done = << >> THEN "NotFound"
                ELSE "Ok"
  IN /\ Validate = "Ok" /\ size > 0
     /\ Pop(call, "Ok", size)
     /\ messages_capacity' =
          Capacity(Reserved(Len(done)), Texts(done, Len(done)))
     /\ seen' = [NoResult EXCEPT !.call = call, !.status = status,
                   !.delivered = IF PollStatus(done) # "Ok" THEN << >>
                                 ELSE [k \in DOMAIN done |->
                                         FromAbiCompletion(ToAbiCompletion(done, k))]]
     /\ seen_messages' = [k \in DOMAIN seen'.delivered |-> MessageRead(done, k)]

(* No memory for the provider's vectors, before or after the pop.          *)
PollThrows(call, size) ==
  /\ Throws /\ Validate = "Ok" /\ size > 0
  /\ \/ /\ result' = Failed(call, "Internal")
        /\ UNCHANGED <<block_device, data, memory, next_io_request_id, completions,
                       messages_capacity>>
     \/ /\ Popped(size) # << >>
        /\ Pop(call, "Internal", size)
        /\ messages_capacity' \in {messages_capacity, Reserved(Len(Popped(size)))}
  /\ seen' = Failed(call, "Internal")
  /\ seen_messages' = << >>

PollRefused(call, size) ==
  /\ ~(Validate = "Ok" /\ size > 0)
  /\ result' = NoResult
  /\ seen' = Failed(call, "InvalidArgument")
  /\ seen_messages' = << >>
  /\ UNCHANGED <<block_device, data, memory, next_io_request_id, completions,
                 messages_capacity>>

AbiPoll(call, size) ==
  /\ Polled(call, size) \/ PollThrows(call, size) \/ PollRefused(call, size)
  /\ UNCHANGED table_valid

AbiPollIoCompletions(size) == AbiPoll("PollIoCompletions", size)

AbiPollIoCompletion == AbiPoll("PollIoCompletion", 1)

AbiNext ==
  \/ \E requests \in Batches : AbiSubmitIoBatch(requests)
  \/ \E requests \in Batches : Len(requests) = 1 /\ AbiSubmitIo(requests[1])
  \/ \E size \in PollSizes : AbiPollIoCompletions(size)
  \/ AbiPollIoCompletion

AbiSpec == AbiInit /\ [][AbiNext]_abi_vars

-----------------------------------------------------------------------------
(* Properties.                                                             *)

AbiContract == INSTANCE IoContract
                 WITH MaxBatch <- kHostedMaxIoBatchSize,
                      MaxOutstanding <- kHostedMaxOutstandingIo,
                      outstanding <- [c \in {completions[k] : k \in DOMAIN completions} |->
                                        Cardinality({k \in DOMAIN completions :
                                                       completions[k] = c})],
                      result <- seen

(* What a call that ends in the provider's catch (...) may leave behind:   *)
(* completions of the first requests of a batch at the end of the queue,   *)
(* or a queue without the completions it popped.                           *)
CaughtException ==
  /\ result'.status = "Internal" /\ seen'.status = "Internal"
  /\ seen'.delivered = << >>
  /\ LET old == Len(completions)
         new == Len(completions')
     IN IF new >= old THEN SubSeq(completions', 1, old) = completions
        ELSE completions' = SubSeq(completions, old - new + 1, old)

(* Nothing gets through a table without the required callbacks.            *)
InvalidTable ==
  /\ ~table_valid /\ seen'.status = "InvalidArgument"
  /\ UNCHANGED <<data, memory, completions>>

(* Seen through adapter and provider, block I/O keeps the contract that    *)
(* the hosted runtime keeps without them, but for calls that report an     *)
(* exception or an invalid table: ids, user_data, statuses and byte counts *)
(* survive four translations, a refused batch has no effect, and what an   *)
(* exception left behind is delivered once or never.                       *)
ContractAcrossAbi ==
  /\ AbiContract!Init
  /\ [][AbiContract!Next \/ CaughtException \/ InvalidTable
       ]_<<data, memory, completions, seen>>

(* The message of a delivered completion is the text of its own status:    *)
(* no pointer the provider handed out dangles when the adapter reads it,   *)
(* and no completion shows another one's text.                             *)
MessagesIntact ==
  \A k \in DOMAIN seen.delivered : seen_messages[k] = Message(seen.delivered[k].status)

(* runtime_abi.md, "Submission policy": a call that fails leaves no        *)
(* completion behind.                                                      *)
AllOrError ==
  seen.call \in {"SubmitIoBatch", "SubmitIo"} /\ seen.status # "Ok"
    => result.accepted = << >>

(* runtime_abi.md, "I/O Completion": what the runtime hands out reaches    *)
(* the caller, because every request completes exactly once.               *)
CompletionsReachCaller == Len(seen.delivered) = Len(result.delivered)

=============================================================================
