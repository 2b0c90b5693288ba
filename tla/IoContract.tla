----------------------------- MODULE IoContract -----------------------------
(***************************************************************************)
(* What PlatformRuntime promises about block I/O                           *)
(* (src/include/mattsql/runtime/platform.hpp; the contract is written down *)
(* in src/docs/reference/runtime_abi.md, "I/O Submission" and "I/O         *)
(* Completion").  The backend decides whether a request succeeds, which    *)
(* ids it assigns and in which order it completes; it must                 *)
(*                                                                         *)
(*  - accept all requests of a batch or none, within its limits;           *)
(*  - complete every accepted request exactly once, with the id and        *)
(*    user_data of that request;                                           *)
(*  - touch device and buffers for successful requests only, and make a    *)
(*    write visible to the reads that follow it.                           *)
(*                                                                         *)
(* The steps of a call are told apart by what the call returned, so that   *)
(* the existential choices of the backend are read off `result'.           *)
(***************************************************************************)
EXTENDS Integers, SequencesExt

CONSTANTS MaxBatch,        \* capabilities.max_io_batch_size
          MaxOutstanding,  \* capabilities.max_outstanding_io
          Batches,         \* the request batches callers submit
          PollSizes        \* the sizes of the output spans callers pass

VARIABLES data,         \* the bytes on the device
          memory,       \* the callers' buffers
          outstanding,  \* bag of completions owed to callers
          result        \* what the last call returned

vars == <<data, memory, outstanding, result>>

(* The size of a bag: its elements, each as often as the bag holds it.     *)
Owed(bag) == Cardinality(UNION {{c} \X (1 .. bag[c]) : c \in DOMAIN bag})

Transfers(request) == request.operation \in {"Read", "Write"}

(* The number of bytes a successful request is about.                      *)
RequestLength(request) ==
  IF request.length # 0 THEN request.length ELSE Len(memory[request.buffer])

Matches(request, completion) ==
  /\ completion.user_data = request.user_data
  /\ completion.id # 0
  /\ request.id # 0 => completion.id = request.id
  /\ completion.bytes_transferred =
       IF completion.status = "Ok" /\ Transfers(request)
       THEN RequestLength(request) ELSE 0

Touches(request) == request.offset + 1 .. request.offset + RequestLength(request)

(* What a batch whose completions are `done' does to device and buffers.   *)
BatchEffect(requests, done) ==
  LET Ok(op) == {k \in DOMAIN requests :
                   requests[k].operation = op /\ done[k].status = "Ok"}
      Overlap(j, k) == Touches(requests[j]) \cap Touches(requests[k]) # {}
      SameBuffer(j, k) == requests[j].buffer = requests[k].buffer
  IN /\ \A a \in DOMAIN data :
           (\A k \in Ok("Write") : a \notin Touches(requests[k]))
              => data'[a] = data[a]
     /\ \A b \in DOMAIN memory :
           (\A k \in Ok("Read") : requests[k].buffer # b)
              => memory'[b] = memory[b]
     /\ \A k \in Ok("Write") :
           /\ \A j \in Ok("Write") : j > k => ~Overlap(j, k)
           /\ \A j \in Ok("Read") : ~SameBuffer(j, k)
           => \A a \in Touches(requests[k]) :
                data'[a] = memory[requests[k].buffer][a - requests[k].offset]
     /\ \A k \in Ok("Read") :
           /\ \A j \in Ok("Write") : j > k => ~Overlap(j, k)
           /\ \A j \in Ok("Read") : j > k => ~SameBuffer(j, k)
           => \A a \in Touches(requests[k]) :
                memory'[requests[k].buffer][a - requests[k].offset] = data'[a]

Init ==
  /\ outstanding = EmptyBag
  /\ result.call = "None"

Accept(requests) ==
  /\ result'.status = "Ok"
  /\ Len(requests) \in 1 .. MaxBatch
  /\ DOMAIN result'.accepted = DOMAIN requests
  /\ \A k \in DOMAIN requests : Matches(requests[k], result'.accepted[k])
  /\ outstanding' = outstanding (+) ToBag(result'.accepted)
  /\ Owed(outstanding') <= MaxOutstanding
  /\ BatchEffect(requests, result'.accepted)

Refuse ==
  /\ result'.status \in {"InvalidArgument", "IoError"}
  /\ UNCHANGED <<data, memory, outstanding>>

SubmitIoBatch(requests) ==
  /\ result'.call = "SubmitIoBatch"
  /\ \/ /\ Accept(requests)
        /\ result'.submitted_count = Len(requests)
        /\ result'.first_request_id = result'.accepted[1].id
     \/ Refuse

(* SubmitIo: a batch of one, of which the caller only learns the id.       *)
SubmitIo(request) ==
  /\ result'.call = "SubmitIo"
  /\ \/ /\ Accept(<<request>>)
        /\ result'.first_request_id = result'.accepted[1].id
     \/ Refuse

(* Nothing is left waiting when there is room for it: the hosted runtime   *)
(* reports supports_async_io = false.                                      *)
Deliver(size) ==
  LET n == Owed(outstanding) IN
  /\ Len(result'.delivered) = IF n < size THEN n ELSE size
  /\ ToBag(result'.delivered) \sqsubseteq outstanding
  /\ outstanding' = outstanding (-) ToBag(result'.delivered)
  /\ UNCHANGED <<data, memory>>

PollIoCompletions(size) ==
  /\ result'.call = "PollIoCompletions"
  /\ \/ size > 0 /\ result'.status = "Ok" /\ Deliver(size)
     \/ size = 0 /\ Refuse

(* PollIoCompletion: one completion, or NotFound when none is owed.        *)
PollIoCompletion ==
  /\ result'.call = "PollIoCompletion"
  /\ result'.status = IF outstanding = EmptyBag THEN "NotFound" ELSE "Ok"
  /\ Deliver(1)

Next ==
  \/ \E requests \in Batches : SubmitIoBatch(requests)
  \/ \E requests \in Batches : Len(requests) = 1 /\ SubmitIo(requests[1])
  \/ \E size \in PollSizes : PollIoCompletions(size)
  \/ PollIoCompletion

Spec == Init /\ [][Next]_vars

=============================================================================
