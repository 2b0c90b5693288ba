--------------------------- MODULE HostedRuntime ---------------------------
(***************************************************************************)
(* The block I/O of HostedPlatformRuntime                                  *)
(* (src/src/runtime/hosted_platform_runtime.cpp) on a MemoryBlockDevice,   *)
(* with the single-request calls PlatformRuntime builds on it              *)
(* (src/src/runtime/platform.cpp).  Requests are executed when they are    *)
(* submitted; their completions wait in a queue until they are polled.     *)
(*                                                                         *)
(* `memory' is the callers' buffers, which requests point into.  The       *)
(* fields accepted and assigned of `result' are history: the completions   *)
(* the call appended, and which of them got an id from the runtime.        *)
(***************************************************************************)
EXTENDS MemoryBlockDevice, FiniteSets, Bags

CONSTANTS kHostedMaxIoRequestSize,
          kHostedMaxIoBatchSize,
          kHostedMaxOutstandingIo,
          Buffers,     \* [buffer name -> its initial contents]
          Batches,     \* the request batches callers submit
          PollSizes,   \* the sizes of the output spans callers pass
          MaxRequestId \* bound on next_io_request_id, for model checking

ASSUME LimitsAssumption ==
  /\ kHostedMaxIoBatchSize \in Nat /\ kHostedMaxOutstandingIo \in Nat
  /\ kHostedMaxIoRequestSize \in Nat
  /\ PollSizes \subseteq Nat

(* A span of IoRequests: ids, offsets and lengths are unsigned, and each   *)
(* request points to one of the buffers.  An operation or a flag may be    *)
(* one the runtime does not know.                                          *)
Typed(requests) ==
  requests \in Seq([id : Nat, operation : STRING, offset : Nat,
                    buffer : DOMAIN Buffers, length : Nat, flags : SUBSET STRING,
                    user_data : {requests[k].user_data : k \in DOMAIN requests}])

ASSUME CallersAssumption ==
  /\ Buffers \in [DOMAIN Buffers -> Seq(Nat)]
  /\ \A requests \in Batches : Typed(requests)

VARIABLES block_device,        \* a device is attached
          data,                \* the device's bytes
          memory,              \* the callers' buffers
          next_io_request_id,
          completions,         \* std::deque<IoCompletion>
          result               \* what the last call returned

vars == <<block_device, data, memory, next_io_request_id, completions, result>>

kHostedKnownIoRequestFlags == {"BarrierBefore", "BarrierAfter", "ForceUnitAccess"}

NoResult == [call |-> "None", status |-> "Ok", submitted_count |-> 0,
             first_request_id |-> 0, delivered |-> << >>,
             accepted |-> << >>, assigned |-> {}]

Failed(call, status) == [NoResult EXCEPT !.call = call, !.status = status]

Init ==
  /\ block_device \in BOOLEAN
  /\ data = InitialData
  /\ memory = Buffers
  /\ next_io_request_id = 1
  /\ completions = << >>
  /\ result = NoResult

-----------------------------------------------------------------------------
(* One request.                                                            *)

effective_request_length(request) ==
  IF request.length # 0 THEN request.length ELSE Len(memory[request.buffer])

validate_buffered_io_request(request, length) ==
  IF \/ length = 0
     \/ length > Len(memory[request.buffer])
     \/ length > kHostedMaxIoRequestSize
  THEN "InvalidArgument" ELSE "Ok"

(* The status a request completes with.  It depends on sizes only, which   *)
(* no request of a batch changes.                                          *)
CompletionStatus(request) ==
  LET length == effective_request_length(request)
      access == ValidateAccess(data, request.offset, length)
  IN IF ~block_device THEN "NotSupported"
     ELSE IF request.operation = "Flush"
          THEN IF length > kHostedMaxIoRequestSize THEN "InvalidArgument" ELSE access
     ELSE IF validate_buffered_io_request(request, length) # "Ok"
          THEN validate_buffered_io_request(request, length)
     ELSE access

Completion(request, id) ==
  [id |-> id,
   status |-> CompletionStatus(request),
   bytes_transferred |->
     IF CompletionStatus(request) = "Ok" /\ request.operation # "Flush"
     THEN effective_request_length(request) ELSE 0,
   user_data |-> request.user_data]

(* What a request does to the device and the buffers, s = [data, memory].  *)
Perform(s, request) ==
  LET length == effective_request_length(request)
      b == request.buffer
  IN IF CompletionStatus(request) # "Ok" \/ request.operation = "Flush" THEN s
     ELSE IF request.operation = "Read"
          THEN [s EXCEPT !.memory[b] = DeviceRead(s.data, request.offset, length, @)]
     ELSE [s EXCEPT !.data = DeviceWrite(@, request.offset, length, s.memory[b])]

-----------------------------------------------------------------------------
(* SubmitIoBatch.                                                          *)

UnknownRequest(request) ==
  \/ ~(request.flags \subseteq kHostedKnownIoRequestFlags)
  \/ request.operation \notin {"Read", "Write", "Flush"}

(* Mutant: the queue may be filled by the first request of a batch.        *)
SubmissionStatus_RoomForOne(requests) ==
  IF requests = << >> \/ Len(requests) > kHostedMaxIoBatchSize
  THEN "InvalidArgument"
  ELSE IF Len(completions) >= kHostedMaxOutstandingIo THEN "IoError"
  ELSE IF \E k \in DOMAIN requests : UnknownRequest(requests[k])
       THEN "InvalidArgument"
  ELSE "Ok"

(* The checks made before the first request is executed.                   *)
SubmissionStatus(requests) ==
  IF requests = << >> THEN "InvalidArgument"
  ELSE IF Len(requests) > kHostedMaxIoBatchSize THEN "InvalidArgument"
  ELSE IF Len(requests) > kHostedMaxOutstandingIo - Len(completions) THEN "IoError"
  ELSE IF \E k \in DOMAIN requests : UnknownRequest(requests[k])
       THEN "InvalidArgument"
  ELSE "Ok"

(* The requests that leave the choice of an id to the runtime.             *)
Unnumbered(requests) == {k \in DOMAIN requests : requests[k].id = 0}

(* Mutant: the first id is 0, which means "no id".                         *)
AssignedId_FromZero(requests, k) ==
  next_io_request_id - 1 + Cardinality({j \in Unnumbered(requests) : j < k})

(* Mutant: the counter advances once per batch.                            *)
AssignedId_PerBatch(requests, k) == next_io_request_id

(* The id request k gets: ids are handed out in batch order.               *)
AssignedId(requests, k) ==
  next_io_request_id + Cardinality({j \in Unnumbered(requests) : j < k})

RequestId(requests, k) ==
  IF requests[k].id = 0 THEN AssignedId(requests, k) ELSE requests[k].id

NewCompletions(requests) ==
  [k \in DOMAIN requests |-> Completion(requests[k], RequestId(requests, k))]

(* Device and buffers after the first n requests.                          *)
Performed(requests) ==
  LET after[n \in 0 .. Len(requests)] ==
        IF n = 0 THEN [data |-> data, memory |-> memory]
        ELSE Perform(after[n - 1], requests[n])
  IN after[Len(requests)]

AcceptBatch(call, status, requests) ==
  /\ SubmissionStatus(requests) = "Ok"
  /\ data' = Performed(requests).data
  /\ memory' = Performed(requests).memory
  /\ next_io_request_id' = next_io_request_id + Cardinality(Unnumbered(requests))
  /\ completions' = completions \o NewCompletions(requests)
  /\ result' = [call |-> call, status |-> status,
                submitted_count |-> Len(requests),
                first_request_id |-> RequestId(requests, 1),
                delivered |-> << >>,
                accepted |-> NewCompletions(requests),
                assigned |-> Unnumbered(requests)]
  /\ UNCHANGED block_device

RefuseBatch(call, requests) ==
  /\ SubmissionStatus(requests) # "Ok"
  /\ result' = Failed(call, SubmissionStatus(requests))
  /\ UNCHANGED <<block_device, data, memory, next_io_request_id, completions>>

SubmitIoBatch(requests) ==
  /\ next_io_request_id <= MaxRequestId
  /\ \/ AcceptBatch("SubmitIoBatch", "Ok", requests)
     \/ RefuseBatch("SubmitIoBatch", requests)

(* PlatformRuntime::SubmitIo: a batch of one.  It checks the id the        *)
(* backend reports, when the request has been accepted already.            *)
CheckedStatus(request, first_request_id) ==
  IF \/ first_request_id = 0
     \/ request.id # 0 /\ first_request_id # request.id
  THEN "Internal" ELSE "Ok"

SubmitIo(request) ==
  /\ next_io_request_id <= MaxRequestId
  /\ \/ AcceptBatch("SubmitIo", CheckedStatus(request, RequestId(<<request>>, 1)),
                    <<request>>)
     \/ RefuseBatch("SubmitIo", <<request>>)

-----------------------------------------------------------------------------
(* PollIoCompletions pops from the front until the output span is full.    *)

(* Mutant: completions are copied from the back of the queue.              *)
Popped_FromBack(size) ==
  LET n == IF Len(completions) < size THEN Len(completions) ELSE size
  IN SubSeq(completions, Len(completions) - n + 1, Len(completions))

Popped(size) ==
  SubSeq(completions, 1, IF Len(completions) < size THEN Len(completions) ELSE size)

Pop(call, status, size) ==
  /\ completions' = SubSeq(completions, Len(Popped(size)) + 1, Len(completions))
  /\ result' = [NoResult EXCEPT !.call = call, !.status = status,
                                !.delivered = Popped(size)]
  /\ UNCHANGED <<block_device, data, memory, next_io_request_id>>

PollIoCompletions(size) ==
  \/ size > 0 /\ Pop("PollIoCompletions", "Ok", size)
  \/ /\ size = 0
     /\ result' = Failed("PollIoCompletions", "InvalidArgument")
     /\ UNCHANGED <<block_device, data, memory, next_io_request_id, completions>>

(* PlatformRuntime::PollIoCompletion.                                      *)
PollIoCompletion ==
  Pop("PollIoCompletion", IF Popped(1) = << >> THEN "NotFound" ELSE "Ok", 1)

Next ==
  \/ \E requests \in Batches : SubmitIoBatch(requests)
  \/ \E requests \in Batches : Len(requests) = 1 /\ SubmitIo(requests[1])
  \/ \E size \in PollSizes : PollIoCompletions(size)
  \/ PollIoCompletion

Spec == Init /\ [][Next]_vars

-----------------------------------------------------------------------------
(* Properties.                                                             *)

Statuses == {"Ok", "InvalidArgument", "IoError", "NotSupported", "NotFound", "Internal"}

(* The type of every variable.  The device and the buffers keep their      *)
(* sizes, which is why CompletionStatus may be computed for a whole batch  *)
(* from the state before it, and hold bytes only: no request reads past    *)
(* the end of the device or of its buffer.                                 *)
TypeOK ==
  /\ block_device \in BOOLEAN
  /\ data \in [DOMAIN InitialData -> Nat]
  /\ memory \in [DOMAIN Buffers -> Seq(Nat)]
  /\ \A b \in DOMAIN Buffers : DOMAIN memory[b] = DOMAIN Buffers[b]
  /\ next_io_request_id \in Nat \ {0}
  /\ \A k \in DOMAIN completions :
        /\ completions[k].id \in Nat \ {0}
        /\ completions[k].status \in Statuses
  /\ result.status \in Statuses

(* The queue never holds more than max_outstanding_io completions, so that *)
(* the unsigned kHostedMaxOutstandingIo - completions.size() of            *)
(* SubmitIoBatch does not wrap around and let every later batch in.        *)
QueueBounded == Len(completions) <= kHostedMaxOutstandingIo

(* The ids the runtime assigns grow from submission to submission and      *)
(* within a batch, so that it never hands out one id twice.                *)
AssignedIdsGrow ==
  [][/\ next_io_request_id <= next_io_request_id'
     /\ \A k \in result'.assigned :
          /\ result'.accepted[k].id \in next_io_request_id .. next_io_request_id' - 1
          /\ \A j \in result'.assigned :
               j < k => result'.accepted[j].id < result'.accepted[k].id]_vars

Contract == INSTANCE IoContract
              WITH MaxBatch <- kHostedMaxIoBatchSize,
                   MaxOutstanding <- kHostedMaxOutstandingIo,
                   outstanding <- [c \in {completions[k] : k \in DOMAIN completions} |->
                                     Cardinality({k \in DOMAIN completions :
                                                    completions[k] = c})]

(* Block I/O keeps the runtime's contract: see IoContract.                 *)
ContractSpec == Contract!Spec

(* runtime_abi.md, "Request IDs": an id the runtime assigns is not that of *)
(* an earlier request whose completion is still to come.                   *)
AssignedIdsFresh ==
  LET before == Len(completions) - Len(result.accepted)
  IN \A k \in result.assigned :
       \A j \in 1 .. before + k - 1 : completions[j].id # result.accepted[k].id

=============================================================================
