------------------------- MODULE CAbiRuntimeProofs -------------------------
(***************************************************************************)
(* Across the C ABI no status message dangles and the contract of block    *)
(* I/O is kept, for every device, every limit, every batch and every size  *)
(* of poll, and wherever an exception strikes.                             *)
(***************************************************************************)
EXTENDS CAbiRuntime, HostedRuntimeProofs, SequenceTheorems

-----------------------------------------------------------------------------
(* The queue.                                                              *)

(* A queue of completions, each with a status of the runtime.              *)
StatusQueue(q) ==
  /\ q \in Seq({q[k] : k \in DOMAIN q})
  /\ \A k \in DOMAIN q : q[k].status \in Statuses

(* A sequence of completions with statuses of the runtime is such a queue. *)
LEMMA QueueOf ==
  ASSUME NEW C, \A c \in C : c.status \in Statuses, NEW q \in Seq(C)
  PROVE  StatusQueue(q)
<1>1. q \in [1 .. Len(q) -> C] /\ Len(q) \in Nat /\ DOMAIN q = 1 .. Len(q)
  BY LenProperties
<1>2. q \in [1 .. Len(q) -> {q[k] : k \in 1 .. Len(q)}]
  BY <1>1
<1>3. q \in Seq({q[k] : k \in 1 .. Len(q)})
  BY <1>1, <1>2, SMTT(30)
<1>. QED
  BY <1>1, <1>3 DEF StatusQueue

(* Its elements.                                                           *)
LEMMA QueueElements ==
  ASSUME NEW q, StatusQueue(q)
  PROVE  \E C : q \in Seq(C) /\ \A c \in C : c.status \in Statuses
BY DEF StatusQueue

(* The completions of any sequence of requests.                            *)
LEMMA NewQueue ==
  ASSUME NEW requests, Len(requests) \in Nat, DOMAIN requests = 1 .. Len(requests)
  PROVE  StatusQueue(NewCompletions(requests))
<1>. DEFINE New(k) == Completion(requests[k], RequestId(requests, k))
            C == {New(k) : k \in 1 .. Len(requests)}
<1>1. \A k \in 1 .. Len(requests) : New(k).status \in Statuses
  BY StatusTyped DEF Completion
<1>2. NewCompletions(requests) = [k \in 1 .. Len(requests) |-> New(k)]
  BY DEF NewCompletions
<1>. HIDE DEF New
<1>3. [k \in 1 .. Len(requests) |-> New(k)] \in Seq(C)
  OBVIOUS
<1>4. \A c \in C : c.status \in Statuses
  BY <1>1
<1>. HIDE DEF C
<1>. QED
  BY <1>2, <1>3, <1>4, QueueOf

(* A part of a queue is one.                                               *)
LEMMA PartOfQueue ==
  ASSUME NEW q, StatusQueue(q), NEW m \in Nat \ {0}, NEW n \in Int, n <= Len(q)
  PROVE  StatusQueue(SubSeq(q, m, n))
<1>1. PICK C : q \in Seq(C) /\ \A c \in C : c.status \in Statuses
  BY QueueElements
<1>2. SubSeq(q, m, n) \in Seq(C)
  BY <1>1
<1>. QED
  BY <1>1, <1>2, QueueOf

(* And so are two queues, one behind the other.                            *)
LEMMA QueuesJoined ==
  ASSUME NEW q, StatusQueue(q), NEW r, StatusQueue(r)
  PROVE  StatusQueue(q \o r)
<1>1. PICK C : q \in Seq(C) /\ \A c \in C : c.status \in Statuses
  BY QueueElements
<1>2. PICK D : r \in Seq(D) /\ \A c \in D : c.status \in Statuses
  BY QueueElements
<1>3. q \o r \in Seq(C \cup D)
  <2>1. q \in Seq(C \cup D) /\ r \in Seq(C \cup D)
    BY <1>1, <1>2
  <2>. QED
    BY <2>1
<1>. QED
  BY <1>1, <1>2, <1>3, QueueOf

-----------------------------------------------------------------------------
(* The translations.                                                       *)

(* A status survives the provider's table and the adapter's.               *)
LEMMA StatusSurvives ==
  ASSUME NEW status \in Statuses
  PROVE  from_abi_status_code(to_abi_status_code[status]) = status
<1>1. /\ to_abi_status_code["Ok"] = 0
      /\ to_abi_status_code["InvalidArgument"] = 1
      /\ to_abi_status_code["NotFound"] = 2
      /\ to_abi_status_code["IoError"] = 9
      /\ to_abi_status_code["NotSupported"] = 12
      /\ to_abi_status_code["Internal"] = 13
  BY DEF to_abi_status_code
<1>2. /\ from_abi_status_code(0) = "Ok"
      /\ from_abi_status_code(1) = "InvalidArgument"
      /\ from_abi_status_code(2) = "NotFound"
      /\ from_abi_status_code(9) = "IoError"
      /\ from_abi_status_code(12) = "NotSupported"
      /\ from_abi_status_code(13) = "Internal"
  BY DEF from_abi_status_code
<1>. QED
  BY <1>1, <1>2 DEF Statuses

(* Push_backs within the capacity leave it as it is.                       *)
LEMMA CapacityEnough ==
  ASSUME NEW c \in Nat, NEW m \in Nat, m <= c
  PROVE  Capacity(c, m) = c
<1>. DEFINE Grown(j, a) == IF j = 0 THEN c ELSE IF j - 1 < a THEN a
                           ELSE IF a = 0 THEN 1 ELSE 2 * a
            P(f) == f = [j \in 0 .. m |->
                           IF j = 0 THEN c
                           ELSE IF j - 1 < f[j - 1] THEN f[j - 1]
                           ELSE IF f[j - 1] = 0 THEN 1 ELSE 2 * f[j - 1]]
            g == CHOOSE f : P(f)
<1>1. Capacity(c, m) = g[m]
  BY DEF Capacity
<1>2. P([j \in 0 .. m |-> c])
  OBVIOUS
<1>3. P(g)
  <2>. HIDE DEF P
  <2>. QED
    BY <1>2
<1>. HIDE DEF g
<1>. DEFINE B == {j \in 0 .. m : g[j] # c}
<1>4. B = {}
  <2>1. SUFFICES ASSUME B # {} PROVE FALSE
    OBVIOUS
  <2>2. PICK j \in B : \A i \in B : j <= i
    <3>1. B \subseteq Nat
      OBVIOUS
    <3>. HIDE DEF B
    <3>. QED
      BY <2>1, <3>1, LeastNumber
  <2>3. j # 0
    BY <1>3, <2>2
  <2>4. g[j - 1] = c
    BY <2>2, <2>3
  <2>. QED
    BY <1>3, <2>2, <2>3, <2>4
<1>. QED
  BY <1>1, <1>4

(* The vector holds no more texts than there are completions, and a        *)
(* completion with a text has put one there.                               *)
LEMMA TextsCounted ==
  ASSUME NEW done, NEW k \in Nat
  PROVE  /\ Texts(done, k) \in 0 .. k
         /\ (k # 0 /\ Message(done[k].status) # "") => Texts(done, k) # 0
<1>. DEFINE T == {j \in 1 .. k : Message(done[j].status) # ""}
<1>1. IsFiniteSet(1 .. k) /\ Cardinality(1 .. k) = k
  BY FS_Interval
<1>2. IsFiniteSet(T) /\ Cardinality(T) <= k
  BY <1>1, FS_Subset
<1>3. Cardinality(T) \in Nat
  BY <1>2, FS_CardinalityType
<1>4. ASSUME k # 0, Message(done[k].status) # ""
      PROVE  Cardinality(T) # 0
  <2>1. k \in 1 .. k
    <3>1. k # 0
      BY <1>4, Zenon
    <3>. QED
      BY <3>1
  <2>2. k \in T
    BY <1>4, <2>1, Zenon
  <2>. HIDE DEF T
  <2>. QED
    BY <1>2, <2>2, FS_EmptySet
<1>5. Texts(done, k) = Cardinality(T)
  BY DEF Texts
<1>. HIDE DEF T
<1>6. Texts(done, k) \in 0 .. k
  BY <1>2, <1>3, <1>5
<1>. QED
  BY <1>4, <1>5, <1>6, Zenon

(* With room reserved for all, the vector stays where it is and each       *)
(* completion is read with its own text.                                   *)
LEMMA OwnText ==
  ASSUME messages_capacity \in Nat, NEW done, StatusQueue(done)
  PROVE  /\ Capacity(Reserved(Len(done)), Texts(done, Len(done))) \in Nat
         /\ \A k \in DOMAIN done : MessageRead(done, k) = Message(done[k].status)
<1>. DEFINE c == Reserved(Len(done))
<1>1. Len(done) \in Nat /\ DOMAIN done = 1 .. Len(done)
  BY DEF StatusQueue
<1>2. c \in Nat /\ Len(done) <= c
  BY <1>1 DEF Reserved
<1>. HIDE DEF c
<1>3. Capacity(c, Texts(done, Len(done))) = c
  <2>1. Texts(done, Len(done)) \in 0 .. Len(done)
    BY <1>1, TextsCounted
  <2>. QED
    BY <1>1, <1>2, <2>1, CapacityEnough
<1>4. ASSUME NEW k \in DOMAIN done
      PROVE  MessageRead(done, k) = Message(done[k].status)
  <2>. DEFINE pointer == ToAbiCompletion(done, k).message
  <2>1. /\ Texts(done, k) \in 0 .. k /\ k \in Nat /\ k <= Len(done) /\ k # 0
        /\ Message(done[k].status) # "" => Texts(done, k) # 0
    <3>1. k \in Nat /\ k <= Len(done) /\ k # 0
      BY <1>1
    <3>. QED
      BY <3>1, TextsCounted, Zenon
  <2>2. pointer = IF Message(done[k].status) = "" THEN 0 ELSE Texts(done, k)
    BY DEF ToAbiCompletion
  <2>3. MessageRead(done, k) =
          IF pointer = 0 THEN ""
          ELSE IF Capacity(c, pointer) = Capacity(c, Texts(done, Len(done)))
               THEN Message(done[k].status) ELSE garbled
    BY DEF MessageRead, c
  <2>. HIDE DEF pointer
  <2>4. CASE Message(done[k].status) = ""
    BY <2>2, <2>3, <2>4
  <2>5. CASE Message(done[k].status) # ""
    <3>1. pointer \in Nat /\ pointer # 0 /\ pointer <= c
      <4>1. pointer = Texts(done, k) /\ Texts(done, k) # 0
        BY <2>1, <2>2, <2>5, Zenon
      <4>2. Texts(done, k) \in 0 .. k /\ k \in Nat /\ k <= Len(done)
        BY <2>1, Zenon
      <4>. QED
        BY <1>1, <1>2, <4>1, <4>2
    <3>2. Capacity(c, pointer) = c
      BY <1>2, <3>1, CapacityEnough
    <3>. QED
      BY <1>3, <2>3, <3>1, <3>2
  <2>. QED
    BY <2>4, <2>5
<1>. QED
  BY <1>2, <1>3, <1>4 DEF c

-----------------------------------------------------------------------------
(* The invariant.                                                          *)

(* The queue keeps well-formed completions, whatever an exception left in  *)
(* it, and the caller has the texts of what it was last given.             *)
AbiInv ==
  /\ StatusQueue(completions)
  /\ messages_capacity \in Nat
  /\ MessagesIntact

(* A call that delivers nothing shows no text.                             *)
LEMMA NothingDelivered ==
  ASSUME seen'.delivered = << >>
  PROVE  MessagesIntact'
BY DEF MessagesIntact

(* The batch the hosted runtime gets is a sequence again.                  *)
LEMMA RequestsAreASequence ==
  ASSUME NEW requests, Len(requests) \in Nat, DOMAIN requests = 1 .. Len(requests)
  PROVE  \E T : RuntimeRequests(requests) \in Seq(T) /\ Len(RuntimeRequests(requests)) = Len(requests)
<1>. DEFINE Req(k) == from_abi_request(AbiRequests(requests)[k])
            T == {Req(k) : k \in 1 .. Len(requests)}
<1>1. RuntimeRequests(requests) = [k \in 1 .. Len(requests) |-> Req(k)]
  BY DEF RuntimeRequests
<1>. HIDE DEF Req
<1>2. /\ [k \in 1 .. Len(requests) |-> Req(k)] \in Seq(T)
      /\ Len([k \in 1 .. Len(requests) |-> Req(k)]) = Len(requests)
  OBVIOUS
<1>. QED
  BY <1>1, <1>2

(* What a submission appends to the queue, complete or cut short.          *)
LEMMA SubmitStep ==
  ASSUME AbiInv, NEW call, NEW requests,
         Len(requests) \in Nat, DOMAIN requests = 1 .. Len(requests),
         AbiSubmit(call, requests)
  PROVE  AbiInv'
<1>. DEFINE down == RuntimeRequests(requests)
<1>1. PICK T : down \in Seq(T) /\ Len(down) = Len(requests)
  BY RequestsAreASequence
<1>. HIDE DEF down
<1>2. Len(down) \in Nat /\ DOMAIN down = 1 .. Len(down)
  BY <1>1
<1>3. messages_capacity' = messages_capacity
  BY DEF AbiSubmit
<1>4. CASE RefusedOnTheWay(call, requests)
  <2>1. completions' = completions
    BY <1>4 DEF RefusedOnTheWay
  <2>2. seen'.delivered = << >>
    BY <1>4 DEF RefusedOnTheWay, Failed, NoResult
  <2>. QED
    BY <1>3, <2>1, <2>2, NothingDelivered DEF AbiInv
<1>5. CASE Submitted(call, requests)
  <2>1. /\ result'.delivered = << >>
        /\ completions' = completions \/ completions' = completions \o NewCompletions(down)
    <3>1. CASE AcceptBatch(call, "Ok", down)
      BY <3>1 DEF AcceptBatch
    <3>2. CASE RefuseBatch(call, down)
      BY <3>2 DEF RefuseBatch, Failed, NoResult
    <3>. QED
      BY <1>5, <3>1, <3>2 DEF Submitted, down
  <2>2. seen'.delivered = << >>
    <3>1. /\ seen' = [result' EXCEPT !.status = SeenStatus(requests, result')]
          /\ "delivered" # "status"
      BY <1>5 DEF Submitted
    <3>. QED
      BY <2>1, <3>1
  <2>3. StatusQueue(completions)'
    <3>1. CASE completions' = completions
      BY <3>1 DEF AbiInv
    <3>2. CASE completions' = completions \o NewCompletions(down)
      <4>1. StatusQueue(completions \o NewCompletions(down))
        BY <1>2, NewQueue, QueuesJoined DEF AbiInv
      <4>. QED
        BY <3>2, <4>1
    <3>. QED
      BY <2>1, <3>1, <3>2
  <2>. QED
    BY <1>3, <2>2, <2>3, NothingDelivered DEF AbiInv
<1>6. CASE SubmissionThrows(call, requests)
  <2>1. seen'.delivered = << >>
    BY <1>6 DEF SubmissionThrows, Failed, NoResult
  <2>2. PICK n \in 0 .. Len(requests) :
               completions' = completions \o SubSeq(NewCompletions(SubSeq(down, 1, n)), 1, n - 1)
    BY <1>6 DEF SubmissionThrows, down
  <2>. DEFINE first == SubSeq(down, 1, n)
  <2>3. Len(first) = n /\ n \in Nat /\ DOMAIN first = 1 .. n
    BY <1>1, <1>2
  <2>. HIDE DEF first
  <2>. DEFINE new == NewCompletions(first)
  <2>4. StatusQueue(new)
    BY <2>3, NewQueue
  <2>5. DOMAIN new = 1 .. n
    BY <2>3 DEF NewCompletions
  <2>. HIDE DEF new
  <2>6. Len(new) = n
    BY <2>3, <2>4, <2>5 DEF StatusQueue
  <2>7. StatusQueue(SubSeq(new, 1, n - 1))
    BY <2>3, <2>4, <2>6, PartOfQueue
  <2>8. StatusQueue(completions \o SubSeq(new, 1, n - 1))
    BY <2>7, QueuesJoined DEF AbiInv
  <2>9. StatusQueue(completions)'
    BY <2>2, <2>8 DEF first, new
  <2>. QED
    BY <1>3, <2>1, <2>9, NothingDelivered DEF AbiInv
<1>. QED
  BY <1>4, <1>5, <1>6 DEF AbiSubmit

(* A poll that reaches the provider: the completions it pops come up with  *)
(* their statuses and their texts.                                         *)
LEMMA PolledStep ==
  ASSUME AbiInv, NEW call, NEW size \in Nat, Polled(call, size),
         StatusQueue(completions)', StatusQueue(Popped(size))
  PROVE  AbiInv'
<1>. DEFINE done == Popped(size)
<1>1. /\ Capacity(Reserved(Len(done)), Texts(done, Len(done))) \in Nat
      /\ \A k \in DOMAIN done : MessageRead(done, k) = Message(done[k].status)
  BY OwnText DEF AbiInv
<1>2. messages_capacity' \in Nat
  BY <1>1 DEF Polled
<1>. DEFINE up(k) == FromAbiCompletion(ToAbiCompletion(done, k))
<1>3. \A k \in DOMAIN done : up(k).status = done[k].status
  <2>. TAKE k \in DOMAIN done
  <2>1. done[k].status \in Statuses
    BY DEF StatusQueue
  <2>2. up(k).status = from_abi_status_code(to_abi_status_code[done[k].status])
    BY DEF FromAbiCompletion, ToAbiCompletion
  <2>. QED
    BY <2>1, <2>2, StatusSurvives
<1>4. /\ \/ seen'.delivered = << >>
         \/ seen'.delivered = [k \in DOMAIN done |-> up(k)]
      /\ seen_messages' = [k \in DOMAIN seen'.delivered |-> MessageRead(done, k)]
  BY DEF Polled, NoResult
<1>. HIDE DEF done, up
<1>5. MessagesIntact'
  <2>1. CASE seen'.delivered = << >>
    BY <2>1, NothingDelivered
  <2>2. CASE seen'.delivered = [k \in DOMAIN done |-> up(k)]
    <3>1. ASSUME NEW k \in DOMAIN seen'.delivered
          PROVE  seen_messages'[k] = Message(seen'.delivered[k].status)
      <4>1. k \in DOMAIN done /\ seen'.delivered[k] = up(k) /\ seen_messages'[k] = MessageRead(done, k)
        BY <1>4, <2>2, <3>1
      <4>. QED
        BY <1>1, <1>3, <4>1 DEF done
    <3>. QED
      BY <3>1 DEF MessagesIntact, Message
  <2>. QED
    BY <1>4, <2>1, <2>2
<1>. QED
  BY <1>2, <1>5 DEF AbiInv

LEMMA PollStep ==
  ASSUME AbiInv, NEW call, NEW size \in Nat, AbiPoll(call, size)
  PROVE  AbiInv'
<1>1. Len(completions) \in Nat
  BY DEF AbiInv, StatusQueue
<1>2. StatusQueue(Popped(size))
  BY <1>1, PartOfQueue DEF Popped, AbiInv
<1>3. Len(Popped(size)) \in Nat
  BY <1>2 DEF StatusQueue
<1>4. StatusQueue(SubSeq(completions, Len(Popped(size)) + 1, Len(completions)))
  BY <1>1, <1>3, PartOfQueue DEF AbiInv
<1>5. CASE Polled(call, size)
  BY <1>2, <1>4, <1>5, PolledStep DEF Polled, Pop
<1>6. CASE PollThrows(call, size)
  <2>1. seen'.delivered = << >>
    BY <1>6 DEF PollThrows, Failed, NoResult
  <2>2. StatusQueue(completions)'
    BY <1>4, <1>6 DEF PollThrows, Pop, AbiInv
  <2>3. messages_capacity' \in Nat
    BY <1>3, <1>6 DEF PollThrows, Reserved, AbiInv
  <2>. QED
    BY <2>1, <2>2, <2>3, NothingDelivered DEF AbiInv
<1>7. CASE PollRefused(call, size)
  <2>1. completions' = completions /\ messages_capacity' = messages_capacity
    BY <1>7 DEF PollRefused
  <2>2. seen'.delivered = << >>
    BY <1>7 DEF PollRefused, Failed, NoResult
  <2>. QED
    BY <2>1, <2>2, NothingDelivered DEF AbiInv
<1>. QED
  BY <1>5, <1>6, <1>7 DEF AbiPoll

LEMMA AbiNextStep ==
  ASSUME AbiInv, AbiNext
  PROVE  AbiInv'
<1>1. ASSUME NEW requests \in Batches, AbiSubmitIoBatch(requests)
      PROVE  AbiInv'
  <2>1. Len(requests) \in Nat /\ DOMAIN requests = 1 .. Len(requests)
    BY CallersAssumption, BatchTyped
  <2>. QED
    BY <1>1, <2>1, SubmitStep DEF AbiSubmitIoBatch
<1>2. ASSUME NEW request, AbiSubmitIo(request)
      PROVE  AbiInv'
  <2>1. Len(<<request>>) \in Nat /\ DOMAIN <<request>> = 1 .. Len(<<request>>)
    OBVIOUS
  <2>. QED
    BY <1>2, <2>1, SubmitStep DEF AbiSubmitIo
<1>3. ASSUME NEW size \in PollSizes, AbiPollIoCompletions(size)
      PROVE  AbiInv'
  BY <1>3, LimitsAssumption, PollStep DEF AbiPollIoCompletions
<1>4. ASSUME AbiPollIoCompletion
      PROVE  AbiInv'
  BY <1>4, PollStep DEF AbiPollIoCompletion
<1>. QED
  BY <1>1, <1>2, <1>3, <1>4 DEF AbiNext

-----------------------------------------------------------------------------

(* Across the C ABI the queue holds well-formed completions only, also     *)
(* after an exception has cut a batch short or thrown popped completions   *)
(* away (c_abi_runtime_provider.cpp, SubmitIoBatch and PollIoCompletions). *)
THEOREM AbiInvariant == AbiSpec => []AbiInv
<1>1. AbiInit => AbiInv
  <2>. SUFFICES ASSUME AbiInit
                PROVE  AbiInv
    OBVIOUS
  <2>1. completions = << >> /\ messages_capacity = 0 /\ seen.delivered = << >>
    BY DEF AbiInit, Init, NoResult
  <2>. QED
    BY <2>1 DEF AbiInv, StatusQueue, MessagesIntact
<1>2. AbiInv /\ [AbiNext]_abi_vars => AbiInv'
  <2>1. ASSUME AbiInv, UNCHANGED abi_vars
        PROVE  AbiInv'
    <3>1. completions' = completions /\ messages_capacity' = messages_capacity
          /\ seen' = seen /\ seen_messages' = seen_messages
      BY <2>1 DEF abi_vars, vars
    <3>. QED
      BY <2>1, <3>1 DEF AbiInv, MessagesIntact
  <2>. QED
    BY <2>1, AbiNextStep
<1>. QED
  BY <1>1, <1>2, PTL DEF AbiSpec

(* The message of a delivered completion is the text of its own status:    *)
(* no pointer into completion_status_messages_ dangles when the adapter    *)
(* reads it, for any number of completions in one poll.                    *)
THEOREM NoMessageDangles == AbiSpec => []MessagesIntact
<1>1. AbiInv => MessagesIntact
  BY DEF AbiInv
<1>. QED
  BY <1>1, AbiInvariant, PTL

-----------------------------------------------------------------------------
(* The contract across the ABI.                                            *)

(* A request the adapter lets through comes out of the provider as it was. *)
LEMMA RequestSurvives ==
  ASSUME NEW U, NEW r \in IoRequest(U),
         r.operation \in DOMAIN OperationCode, r.flags \subseteq kKnownIoRequestFlags
  PROVE  from_abi_request(to_abi_request(r)) = r
<1>. DEFINE down == to_abi_request(r)
            op == <<"Read", "Write", "Flush">>[down.operation + 1]
            fl == {f \in DOMAIN BitOf : BitOf[f] \in down.flags}
<1>1. /\ down.id = r.id /\ down.offset = r.offset /\ down.buffer = r.buffer
      /\ down.length = r.length /\ down.user_data = r.user_data
      /\ down.operation = OperationCode[r.operation]
      /\ down.flags = {BitOf[f] : f \in r.flags}
  BY DEF to_abi_request
<1>. HIDE DEF down
<1>2. op = r.operation
  BY <1>1 DEF OperationCode
<1>3. fl = r.flags
  <2>1. /\ DOMAIN BitOf = kKnownIoRequestFlags
        /\ \A f, g \in DOMAIN BitOf : BitOf[f] = BitOf[g] => f = g
    BY DEF BitOf, kKnownIoRequestFlags
  <2>2. \A f \in DOMAIN BitOf : BitOf[f] \in down.flags <=> f \in r.flags
    BY <1>1, <2>1
  <2>. QED
    BY <2>1, <2>2
<1>4. from_abi_request(down) =
        [id |-> r.id, operation |-> op, offset |-> r.offset, buffer |-> r.buffer,
         length |-> r.length, flags |-> fl, user_data |-> r.user_data]
  BY <1>1 DEF from_abi_request
<1>. HIDE DEF op, fl
<1>5. r = [id |-> r.id, operation |-> r.operation, offset |-> r.offset,
           buffer |-> r.buffer, length |-> r.length, flags |-> r.flags,
           user_data |-> r.user_data]
  BY DEF IoRequest
<1>. QED
  BY <1>2, <1>3, <1>4, <1>5 DEF down

(* ... and so does the batch.                                              *)
LEMMA BatchSurvives ==
  ASSUME NEW requests, Typed(requests), Reaches(requests)
  PROVE  RuntimeRequests(requests) = requests
<1>1. PICK U : requests \in Seq(IoRequest(U))
  BY BatchTyped
<1>2. /\ requests = [k \in DOMAIN requests |-> requests[k]]
      /\ \A k \in DOMAIN requests : requests[k] \in IoRequest(U)
  BY <1>1, LenProperties, ElementOfSeq
<1>3. \A k \in DOMAIN requests :
        /\ requests[k].operation \in DOMAIN OperationCode
        /\ requests[k].flags \subseteq kKnownIoRequestFlags
  BY DEF Reaches, AdapterRefuses
<1>4. \A k \in DOMAIN requests : from_abi_request(to_abi_request(requests[k])) = requests[k]
  BY <1>2, <1>3, RequestSurvives
<1>5. RuntimeRequests(requests) =
        [k \in DOMAIN requests |-> from_abi_request(to_abi_request(requests[k]))]
  BY DEF RuntimeRequests, AbiRequests
<1>. QED
  BY <1>2, <1>4, <1>5

(* A completion comes up as it was.                                        *)
LEMMA CompletionSurvives ==
  ASSUME NEW done, NEW k, done[k] \in CompletionType
  PROVE  FromAbiCompletion(ToAbiCompletion(done, k)) = done[k]
<1>. DEFINE c == ToAbiCompletion(done, k)
<1>1. /\ c.id = done[k].id /\ c.code = to_abi_status_code[done[k].status]
      /\ c.bytes_transferred = done[k].bytes_transferred
      /\ c.user_data = done[k].user_data
  BY DEF ToAbiCompletion
<1>. HIDE DEF c
<1>2. done[k].status \in Statuses
  BY DEF CompletionType
<1>3. from_abi_status_code(c.code) = done[k].status
  BY <1>1, <1>2, StatusSurvives
<1>4. done[k] = [id |-> done[k].id, status |-> done[k].status,
                 bytes_transferred |-> done[k].bytes_transferred,
                 user_data |-> done[k].user_data]
  BY DEF CompletionType
<1>. QED
  BY <1>1, <1>3, <1>4 DEF FromAbiCompletion, c

(* The contract seen through the ABI is the hosted runtime's, about `seen' *)
(* in the place of `result'.                                               *)
LEMMA SameContract ==
  /\ \A S : AbiContract!Cardinality(S) = Cardinality(S)
  /\ \A q : AbiContract!ToBag(q) = Contract!ToBag(q)
  /\ \A a, b : /\ AbiContract!(+)(a, b) = Contract!(+)(a, b)
               /\ AbiContract!(-)(a, b) = Contract!(-)(a, b)
               /\ AbiContract!\sqsubseteq(a, b) <=> Contract!\sqsubseteq(a, b)
  /\ \A a : AbiContract!Owed(a) = Contract!Owed(a)
  /\ \A r, c : AbiContract!Matches(r, c) <=> Contract!Matches(r, c)
  /\ AbiContract!EmptyBag = Contract!EmptyBag
<1>1. \A S : AbiContract!Cardinality(S) = Cardinality(S)
  BY DEF AbiContract!Cardinality, Cardinality
<1>2. ASSUME NEW q PROVE AbiContract!ToBag(q) = Contract!ToBag(q)
  BY <1>1, ContractCounts
     DEF AbiContract!ToBag, AbiContract!Range, CountOf, Positions
<1>3. ASSUME NEW a, NEW b PROVE AbiContract!(+)(a, b) = Contract!(+)(a, b)
  BY DEF AbiContract!(+), Contract!(+)
<1>4. ASSUME NEW a, NEW b PROVE AbiContract!(-)(a, b) = Contract!(-)(a, b)
  BY DEF AbiContract!(-), Contract!(-)
<1>5. ASSUME NEW a, NEW b
      PROVE  AbiContract!\sqsubseteq(a, b) <=> Contract!\sqsubseteq(a, b)
  BY DEF AbiContract!\sqsubseteq, Contract!\sqsubseteq
<1>6. ASSUME NEW a PROVE AbiContract!Owed(a) = Contract!Owed(a)
  BY <1>1, ContractCounts DEF AbiContract!Owed, Contract!Owed
<1>7. ASSUME NEW r, NEW c PROVE AbiContract!Matches(r, c) <=> Contract!Matches(r, c)
  BY DEF AbiContract!Matches, Contract!Matches, AbiContract!RequestLength,
         Contract!RequestLength, AbiContract!Transfers, Contract!Transfers
<1>8. AbiContract!EmptyBag = Contract!EmptyBag
  BY DEF AbiContract!EmptyBag, Contract!EmptyBag, AbiContract!SetToBag, Contract!SetToBag
<1>. QED
  BY <1>1, <1>2, <1>3, <1>4, <1>5, <1>6, <1>7, <1>8

LEMMA SameEffect ==
  ASSUME NEW requests, NEW done
  PROVE  AbiContract!BatchEffect(requests, done) <=> Contract!BatchEffect(requests, done)
BY DEF AbiContract!BatchEffect, Contract!BatchEffect, AbiContract!Touches,
       Contract!Touches, AbiContract!RequestLength, Contract!RequestLength

(* A caller that sees what the hosted runtime did sees the contract kept.  *)
LEMMA SeenAccept ==
  ASSUME NEW requests, seen' = result', Contract!Accept(requests)
  PROVE  AbiContract!Accept(requests)
<1>1. /\ AbiContract!ToBag(result'.accepted) = Contract!ToBag(result'.accepted)
      /\ \A a, b : AbiContract!(+)(a, b) = Contract!(+)(a, b)
      /\ \A a : AbiContract!Owed(a) = Contract!Owed(a)
      /\ \A k : AbiContract!Matches(requests[k], result'.accepted[k])
                  <=> Contract!Matches(requests[k], result'.accepted[k])
      /\ AbiContract!BatchEffect(requests, result'.accepted)
           <=> Contract!BatchEffect(requests, result'.accepted)
  BY SameContract, SameEffect
<1>2. AbiContract!Accept(requests) <=>
        /\ seen'.status = "Ok"
        /\ Len(requests) \in 1 .. kHostedMaxIoBatchSize
        /\ DOMAIN seen'.accepted = DOMAIN requests
        /\ \A k \in DOMAIN requests : AbiContract!Matches(requests[k], seen'.accepted[k])
        /\ CountOf(completions') =
             AbiContract!(+)(CountOf(completions), AbiContract!ToBag(seen'.accepted))
        /\ AbiContract!Owed(CountOf(completions')) <= kHostedMaxOutstandingIo
        /\ AbiContract!BatchEffect(requests, seen'.accepted)
  BY DEF AbiContract!Accept, CountOf, Positions
<1>3. Contract!Accept(requests) <=>
        /\ result'.status = "Ok"
        /\ Len(requests) \in 1 .. kHostedMaxIoBatchSize
        /\ DOMAIN result'.accepted = DOMAIN requests
        /\ \A k \in DOMAIN requests : Contract!Matches(requests[k], result'.accepted[k])
        /\ CountOf(completions') =
             Contract!(+)(CountOf(completions), Contract!ToBag(result'.accepted))
        /\ Contract!Owed(CountOf(completions')) <= kHostedMaxOutstandingIo
        /\ Contract!BatchEffect(requests, result'.accepted)
  BY DEF Contract!Accept, CountOf, Positions
<1>. QED
  BY <1>1, <1>2, <1>3

LEMMA SeenDeliver ==
  ASSUME NEW size, seen'.delivered = result'.delivered, Contract!Deliver(size)
  PROVE  AbiContract!Deliver(size)
<1>1. /\ AbiContract!ToBag(result'.delivered) = Contract!ToBag(result'.delivered)
      /\ \A a, b : /\ AbiContract!(-)(a, b) = Contract!(-)(a, b)
                   /\ AbiContract!\sqsubseteq(a, b) <=> Contract!\sqsubseteq(a, b)
      /\ \A a : AbiContract!Owed(a) = Contract!Owed(a)
  BY SameContract
<1>2. AbiContract!Deliver(size) <=>
        LET n == AbiContract!Owed(CountOf(completions)) IN
        /\ Len(seen'.delivered) = IF n < size THEN n ELSE size
        /\ AbiContract!\sqsubseteq(AbiContract!ToBag(seen'.delivered), CountOf(completions))
        /\ CountOf(completions') =
             AbiContract!(-)(CountOf(completions), AbiContract!ToBag(seen'.delivered))
        /\ UNCHANGED <<data, memory>>
  BY DEF AbiContract!Deliver, CountOf, Positions
<1>3. Contract!Deliver(size) <=>
        LET n == Contract!Owed(CountOf(completions)) IN
        /\ Len(result'.delivered) = IF n < size THEN n ELSE size
        /\ Contract!\sqsubseteq(Contract!ToBag(result'.delivered), CountOf(completions))
        /\ CountOf(completions') =
             Contract!(-)(CountOf(completions), Contract!ToBag(result'.delivered))
        /\ UNCHANGED <<data, memory>>
  BY DEF Contract!Deliver, CountOf, Positions
<1>. QED
  BY <1>1, <1>2, <1>3

LEMMA SeenRefuse ==
  ASSUME seen'.status \in {"InvalidArgument", "IoError"},
         UNCHANGED <<data, memory, completions>>
  PROVE  AbiContract!Refuse
BY DEF AbiContract!Refuse

(* The first requests of a batch are requests of callers.                  *)
LEMMA FirstFromCallers ==
  ASSUME NEW requests, FromCallers(requests), NEW m \in 0 .. Len(requests)
  PROVE  /\ FromCallers(SubSeq(requests, 1, m))
         /\ Len(SubSeq(requests, 1, m)) = m
<1>. DEFINE first == SubSeq(requests, 1, m)
<1>1. PICK U : requests \in Seq(IoRequest(U))
  BY BatchTyped DEF FromCallers
<1>2. /\ Len(requests) \in Nat /\ DOMAIN requests = 1 .. Len(requests)
      /\ \A i \in 1 .. Len(requests) : requests[i] \in IoRequest(U)
  BY <1>1, LenProperties, ElementOfSeq
<1>3. /\ first \in Seq(IoRequest(U)) /\ Len(first) = m
      /\ \A i \in 1 .. m : first[i] = requests[i]
  <2>1. /\ first \in Seq(IoRequest(U)) /\ Len(first) = IF 1 <= m THEN m - 1 + 1 ELSE 0
        /\ \A i \in 1 .. m - 1 + 1 : first[i] = requests[1 + i - 1]
    BY <1>2, SubSeqProperties
  <2>. HIDE DEF first
  <2>. QED
    BY <1>2, <2>1
<1>. HIDE DEF first
<1>4. /\ DOMAIN first = 1 .. m /\ m \in Nat
      /\ \A i \in 1 .. m : first[i] \in IoRequest(U)
  BY <1>3, <1>2, LenProperties, ElementOfSeq
<1>. DEFINE D == {first[k].user_data : k \in DOMAIN first}
<1>5. ASSUME NEW i \in 1 .. m PROVE first[i] \in IoRequest(D)
  <2>1. first[i] \in IoRequest(U) /\ first[i].user_data \in D
    BY <1>4
  <2>. HIDE DEF D
  <2>. QED
    BY <2>1 DEF IoRequest
<1>6. first \in Seq(IoRequest(D))
  <2>. HIDE DEF D
  <2>1. first \in [1 .. m -> IoRequest(D)]
    BY <1>3, <1>4, <1>5, LenProperties
  <2>. QED
    BY <1>4, <2>1
<1>7. Typed(first)
  BY <1>6 DEF Typed, IoRequest
<1>8. \A k \in DOMAIN first : first[k].user_data \in UserData
  BY <1>2, <1>3, <1>4 DEF FromCallers
<1>. QED
  BY <1>3, <1>7, <1>8 DEF FromCallers, first

(* An exception in a submission leaves device, buffers and queue well      *)
(* formed, and the queue within its limit; what was queued before stays.   *)
LEMMA ThrowsStep ==
  ASSUME HostedInv, NEW call, NEW requests, FromCallers(requests),
         SubmissionThrows(call, requests)
  PROVE  HostedInv' /\ CaughtException
<1>1. /\ RuntimeRequests(requests) = requests
      /\ SubmissionStatus(requests) = "Ok"
      /\ seen' = Failed(call, "Internal")
  BY BatchSurvives DEF SubmissionThrows, FromCallers
<1>2. PICK n \in 0 .. Len(requests) :
        LET First(m) == SubSeq(requests, 1, m)
            queued == SubSeq(NewCompletions(First(n)), 1, n - 1)
        IN /\ \E m \in {IF n = 0 THEN 0 ELSE n - 1, n} :
                /\ data' = Performed(First(m)).data
                /\ memory' = Performed(First(m)).memory
           /\ next_io_request_id' = next_io_request_id + Cardinality(Unnumbered(First(n)))
           /\ completions' = completions \o queued
           /\ result' = [Failed(call, "Internal") EXCEPT !.accepted = queued]
           /\ UNCHANGED block_device
  BY <1>1 DEF SubmissionThrows
<1>3. Len(requests) \in Nat
  BY BatchTyped DEF FromCallers
<1>4. StateTyped'
  <2>1. PICK m \in {IF n = 0 THEN 0 ELSE n - 1, n} :
               /\ data' = Performed(SubSeq(requests, 1, m)).data
               /\ memory' = Performed(SubSeq(requests, 1, m)).memory
    BY <1>2
  <2>2. m \in 0 .. Len(requests)
    BY <1>3
  <2>3. Performed(SubSeq(requests, 1, m)) \in IoState
    BY <2>2, FirstFromCallers, PerformedTyped DEF FromCallers, HostedInv
  <2>. DEFINE s == Performed(SubSeq(requests, 1, m))
  <2>. HIDE DEF s
  <2>4. s \in IoState /\ s = [data |-> s.data, memory |-> s.memory]
    BY <2>3 DEF IoState, s
  <2>. QED
    BY <2>1, <2>4 DEF StateTyped, s
<1>. DEFINE first == SubSeq(requests, 1, n)
            new == NewCompletions(first)
            queued == SubSeq(new, 1, n - 1)
<1>5. FromCallers(first) /\ Len(first) = n
  BY FirstFromCallers
<1>6. /\ next_io_request_id' = next_io_request_id + Cardinality(Unnumbered(first))
      /\ completions' = completions \o queued
      /\ result' = [Failed(call, "Internal") EXCEPT !.accepted = queued]
      /\ block_device' = block_device
  BY <1>2
<1>. HIDE DEF first
<1>7. next_io_request_id' \in Nat \ {0}
  <2>1. Cardinality(Unnumbered(first)) \in Nat
    BY <1>5, UnnumberedFinite DEF FromCallers
  <2>. QED
    BY <1>6, <2>1 DEF HostedInv
<1>8. new \in Seq(CompletionType) /\ Len(new) = n
  BY <1>5, CompletionsTyped DEF HostedInv
<1>. HIDE DEF new
<1>9. queued \in Seq(CompletionType) /\ Len(queued) \in 0 .. n
  <2>1. \A i \in 1 .. n - 1 : new[i] \in CompletionType
    BY <1>3, <1>8, ElementOfSeq
  <2>2. /\ queued \in Seq(CompletionType)
        /\ Len(queued) = IF 1 <= n - 1 THEN (n - 1) - 1 + 1 ELSE 0
    BY <1>3, <2>1, SubSeqProperties
  <2>. HIDE DEF queued
  <2>. QED
    BY <1>3, <2>2
<1>. HIDE DEF queued
<1>10. completions \in Seq(CompletionType) /\ Len(completions) \in Nat
  BY LenProperties DEF HostedInv
<1>11. /\ completions' \in Seq(CompletionType)
       /\ Len(completions') = Len(completions) + Len(queued)
       /\ \A i \in 1 .. Len(completions) : completions'[i] = completions[i]
  BY <1>6, <1>9, <1>10, ConcatProperties
<1>12. Len(completions') <= kHostedMaxOutstandingIo
  <2>1. ~(Len(requests) > kHostedMaxOutstandingIo - Len(completions))
    BY <1>1 DEF SubmissionStatus
  <2>. QED
    BY <1>3, <1>9, <1>10, <1>11, <2>1, LimitsAssumption
<1>13. result'.status = "Internal" /\ "Internal" \in Statuses
  BY <1>6 DEF Failed, NoResult, Statuses
<1>14. HostedInv'
  BY <1>4, <1>6, <1>7, <1>11, <1>12, <1>13 DEF HostedInv
<1>15. SubSeq(completions', 1, Len(completions)) = completions
  <2>. DEFINE old == Len(completions)
              part == SubSeq(completions', 1, old)
  <2>1. \A i \in 1 .. old : completions'[i] \in CompletionType
    BY <1>10, <1>11, ElementOfSeq
  <2>2. /\ part \in Seq(CompletionType) /\ Len(part) = IF 1 <= old THEN old - 1 + 1 ELSE 0
        /\ \A i \in 1 .. old - 1 + 1 : part[i] = completions'[1 + i - 1]
    BY <1>10, <2>1, SubSeqProperties
  <2>. HIDE DEF part
  <2>3. Len(part) = Len(completions) /\ \A i \in 1 .. Len(part) : part[i] = completions[i]
    BY <1>10, <1>11, <2>2
  <2>4. part = completions
    BY <1>10, <2>2, <2>3, SeqEqual
  <2>. QED
    BY <2>4 DEF part
<1>16. CaughtException
  <2>1. seen'.status = "Internal" /\ seen'.delivered = << >>
    BY <1>1 DEF Failed, NoResult
  <2>2. Len(completions') >= Len(completions)
    BY <1>9, <1>10, <1>11
  <2>. QED
    BY <1>13, <1>15, <2>1, <2>2 DEF CaughtException
<1>. QED
  BY <1>14, <1>16

(* The caller sees the submission the hosted runtime reports.              *)
LEMMA SubmissionSeen ==
  ASSUME HostedInv, NEW call, NEW requests, FromCallers(requests), requests # << >>,
         RuntimeRequests(requests) = requests, AcceptBatch(call, "Ok", requests)
  PROVE  SeenStatus(requests, result') = "Ok"
<1>1. /\ result'.status = "Ok" /\ result'.submitted_count = Len(requests)
      /\ result'.first_request_id = RequestId(requests, 1)
  BY DEF AcceptBatch
<1>2. 1 \in DOMAIN requests /\ Typed(requests)
  <2>1. PICK U : requests \in Seq(IoRequest(U))
    BY BatchTyped DEF FromCallers
  <2>2. Len(requests) \in Nat \ {0} /\ DOMAIN requests = 1 .. Len(requests)
    BY <2>1, EmptySeq, LenProperties
  <2>. QED
    BY <2>2 DEF FromCallers
<1>3. RequestId(requests, 1) # 0
  BY <1>2, RequestIdTyped DEF HostedInv
<1>4. requests[1].id # 0 => RequestId(requests, 1) = requests[1].id
  BY DEF RequestId
<1>5. SubmissionChecked(requests, result') = "Ok"
  BY <1>1, <1>3, <1>4 DEF SubmissionChecked
<1>6. from_abi_status_code(to_abi_status_code["Ok"]) = "Ok"
  BY StatusSurvives DEF Statuses
<1>. QED
  BY <1>1, <1>5, <1>6 DEF SeenStatus

(* What a submission through the ABI is: accepted or refused as the        *)
(* contract says, or ended by an exception.                                *)
LEMMA AbiSubmitKeeps ==
  ASSUME HostedInv, NEW call, NEW requests, FromCallers(requests),
         AbiSubmit(call, requests)
  PROVE  /\ HostedInv'
         /\ \/ CaughtException
            \/ seen'.call = call /\ AbiContract!Refuse
            \/ /\ seen'.call = call /\ AbiContract!Accept(requests)
               /\ seen'.submitted_count = Len(requests)
               /\ seen'.first_request_id = seen'.accepted[1].id
<1>1. CASE RefusedOnTheWay(call, requests)
  <2>1. /\ result' = NoResult /\ seen' = Failed(call, "InvalidArgument")
        /\ UNCHANGED <<block_device, data, memory, next_io_request_id, completions>>
    BY <1>1 DEF RefusedOnTheWay
  <2>2. /\ result'.status \in Statuses
        /\ seen'.call = call /\ seen'.status = "InvalidArgument"
    BY <2>1 DEF NoResult, Failed, Statuses
  <2>3. HostedInv'
    BY <2>1, <2>2 DEF HostedInv, StateTyped
  <2>. QED
    BY <2>1, <2>2, <2>3, SeenRefuse
<1>2. CASE Submitted(call, requests)
  <2>1. RuntimeRequests(requests) = requests /\ requests # << >>
    <3>1. Reaches(requests)
      BY <1>2 DEF Submitted
    <3>. QED
      BY <3>1, BatchSurvives DEF Reaches, AdapterRefuses, FromCallers
  <2>2. seen' = [result' EXCEPT !.status = SeenStatus(requests, result')]
    BY <1>2 DEF Submitted
  <2>3. CASE AcceptBatch(call, "Ok", requests)
    <3>1. SeenStatus(requests, result') = "Ok"
      BY <2>1, <2>3, SubmissionSeen
    <3>2. result' = [call |-> call, status |-> "Ok", submitted_count |-> Len(requests),
                     first_request_id |-> RequestId(requests, 1), delivered |-> << >>,
                     accepted |-> NewCompletions(requests),
                     assigned |-> Unnumbered(requests)]
      BY <2>3 DEF AcceptBatch
    <3>3. seen' = result'
      BY <2>2, <3>1, <3>2
    <3>4. /\ Contract!Accept(requests) /\ result'.call = call
          /\ result'.submitted_count = Len(requests)
          /\ result'.first_request_id = result'.accepted[1].id
      BY <2>3, AcceptKeepsContract
    <3>5. HostedInv'
      <4>1. "Ok" \in Statuses
        BY DEF Statuses
      <4>. QED
        BY <2>3, <4>1, AcceptStep
    <3>. QED
      BY <3>3, <3>4, <3>5, SeenAccept
  <2>4. CASE RefuseBatch(call, requests)
    <3>1. HostedInv'
      BY <2>4, RefuseStep
    <3>2. SubmissionStatus(requests) \in {"InvalidArgument", "IoError"}
      BY <2>4 DEF RefuseBatch, SubmissionStatus
    <3>3. /\ result' = Failed(call, SubmissionStatus(requests))
          /\ UNCHANGED <<data, memory, completions>>
      BY <2>4 DEF RefuseBatch
    <3>4. result'.status = SubmissionStatus(requests) /\ result'.call = call
      BY <3>3 DEF Failed, NoResult
    <3>5. SeenStatus(requests, result') = SubmissionStatus(requests)
      <4>1. from_abi_status_code(to_abi_status_code[SubmissionStatus(requests)]) =
              SubmissionStatus(requests)
        BY <3>2, StatusSurvives DEF Statuses
      <4>. QED
        BY <3>2, <3>4, <4>1 DEF SeenStatus
    <3>6. seen'.status = SubmissionStatus(requests) /\ seen'.call = call
      <4>1. result' = [Failed(call, SubmissionStatus(requests)) EXCEPT !.call = call]
        BY <3>3 DEF Failed, NoResult
      <4>. QED
        BY <2>2, <3>3, <3>4, <3>5 DEF Failed, NoResult
    <3>. QED
      BY <3>1, <3>2, <3>3, <3>6, SeenRefuse
  <2>. QED
    BY <1>2, <2>1, <2>3, <2>4 DEF Submitted
<1>3. CASE SubmissionThrows(call, requests)
  BY <1>3, ThrowsStep
<1>. QED
  BY <1>1, <1>2, <1>3 DEF AbiSubmit

(* A poll that gets through shows the completions the runtime popped.      *)
LEMMA PolledKeeps ==
  ASSUME HostedInv, NEW call, NEW size \in Nat, Polled(call, size)
  PROVE  /\ HostedInv' /\ AbiContract!Deliver(size) /\ seen'.call = call
         /\ seen'.status =
              IF call = "PollIoCompletion" /\ Popped(size) = << >> THEN "NotFound" ELSE "Ok"
<1>. DEFINE done == Popped(size)
<1>1. Pop(call, "Ok", size)
  BY DEF Polled
<1>2. HostedInv' /\ Contract!Deliver(size)
  <2>1. "Ok" \in Statuses
    BY DEF Statuses
  <2>. QED
    BY <1>1, <2>1, PopStep, PopKeepsContract
<1>3. result'.delivered = done
  BY <1>1 DEF Pop, NoResult
<1>4. done \in Seq(CompletionType)
  BY QueueSplit DEF HostedInv
<1>5. /\ done = [k \in DOMAIN done |-> done[k]]
      /\ \A k \in DOMAIN done : done[k] \in CompletionType
  <2>. HIDE DEF done
  <2>. QED
    BY <1>4, LenProperties, ElementOfSeq
<1>6. PollStatus(done) = "Ok"
  <2>1. \A k \in DOMAIN done : done[k].id # 0
    BY <1>5 DEF CompletionType
  <2>. QED
    BY <2>1 DEF PollStatus
<1>7. [k \in DOMAIN done |-> FromAbiCompletion(ToAbiCompletion(done, k))] = done
  <2>1. \A k \in DOMAIN done : FromAbiCompletion(ToAbiCompletion(done, k)) = done[k]
    BY <1>5, CompletionSurvives
  <2>. HIDE DEF done
  <2>. QED
    BY <1>5, <2>1
<1>8. /\ seen'.call = call /\ seen'.delivered = done
      /\ seen'.status = IF call = "PollIoCompletion" /\ done = << >> THEN "NotFound" ELSE "Ok"
  BY <1>6, <1>7 DEF Polled, NoResult
<1>9. AbiContract!Deliver(size)
  BY <1>2, <1>3, <1>8, SeenDeliver
<1>. QED
  BY <1>2, <1>8, <1>9

(* A poll that ends in an exception may lose what it popped, from the      *)
(* front of the queue.                                                     *)
LEMMA PollThrowsStep ==
  ASSUME HostedInv, NEW call, NEW size \in Nat, PollThrows(call, size)
  PROVE  HostedInv' /\ CaughtException
<1>1. seen'.status = "Internal" /\ seen'.delivered = << >>
  BY DEF PollThrows, Failed, NoResult
<1>2. completions \in Seq(CompletionType) /\ Len(completions) \in Nat
  BY LenProperties DEF HostedInv
<1>3. "Internal" \in Statuses
  BY DEF Statuses
<1>4. CASE /\ result' = Failed(call, "Internal")
           /\ UNCHANGED <<block_device, data, memory, next_io_request_id, completions>>
  <2>1. result'.status = "Internal"
    BY <1>4 DEF Failed, NoResult
  <2>2. SubSeq(completions, 1, Len(completions)) = completions
    BY <1>2, SubSeqFull
  <2>3. HostedInv'
    BY <1>3, <1>4, <2>1 DEF HostedInv, StateTyped
  <2>4. completions' = completions /\ Len(completions) >= Len(completions)
    BY <1>2, <1>4
  <2>. QED
    BY <1>1, <2>1, <2>2, <2>3, <2>4 DEF CaughtException
<1>5. CASE Popped(size) # << >> /\ Pop(call, "Internal", size)
  <2>. DEFINE taken == Len(Popped(size))
  <2>1. HostedInv'
    BY <1>3, <1>5, PopStep
  <2>2. /\ completions' = SubSeq(completions, taken + 1, Len(completions))
        /\ result'.status = "Internal"
    BY <1>5 DEF Pop, NoResult
  <2>3. taken \in 1 .. Len(completions)
    <3>1. /\ Popped(size) \in Seq(CompletionType)
          /\ taken = IF Len(completions) < size THEN Len(completions) ELSE size
      BY <1>2, QueueSplit
    <3>2. taken \in Nat \ {0}
      BY <1>5, <3>1, EmptySeq
    <3>. HIDE DEF taken
    <3>. QED
      BY <1>2, <3>1, <3>2
  <2>. HIDE DEF taken
  <2>4. Len(completions') = Len(completions) - taken
    <3>1. \A i \in taken + 1 .. Len(completions) : completions[i] \in CompletionType
      BY <1>2, <2>3, ElementOfSeq
    <3>2. Len(SubSeq(completions, taken + 1, Len(completions))) =
            IF taken + 1 <= Len(completions) THEN Len(completions) - (taken + 1) + 1 ELSE 0
      BY <1>2, <2>3, <3>1, SubSeqProperties
    <3>. QED
      BY <1>2, <2>2, <2>3, <3>2
  <2>5. /\ ~(Len(completions') >= Len(completions))
        /\ Len(completions) - Len(completions') + 1 = taken + 1
    BY <1>2, <2>3, <2>4
  <2>6. CaughtException
    BY <1>1, <2>2, <2>5 DEF CaughtException
  <2>. QED
    BY <2>1, <2>6
<1>. QED
  BY <1>4, <1>5 DEF PollThrows

(* A poll that does not reach the provider.                                *)
LEMMA PollRefusedStep ==
  ASSUME HostedInv, NEW call, NEW size \in Nat, PollRefused(call, size)
  PROVE  /\ HostedInv' /\ seen'.call = call /\ AbiContract!Refuse
         /\ size = 0 \/ InvalidTable
<1>1. /\ result' = NoResult /\ seen' = Failed(call, "InvalidArgument")
      /\ UNCHANGED <<block_device, data, memory, next_io_request_id, completions>>
      /\ ~(Validate = "Ok" /\ size > 0)
  BY DEF PollRefused
<1>2. /\ result'.status \in Statuses
      /\ seen'.call = call /\ seen'.status = "InvalidArgument"
  BY <1>1 DEF NoResult, Failed, Statuses
<1>3. HostedInv'
  BY <1>1, <1>2 DEF HostedInv, StateTyped
<1>4. size = 0 \/ ~table_valid
  BY <1>1 DEF Validate
<1>5. size = 0 \/ InvalidTable
  BY <1>1, <1>2, <1>4 DEF InvalidTable
<1>. QED
  BY <1>1, <1>2, <1>3, <1>5, SeenRefuse

(* Every call through the ABI.                                             *)
LEMMA AbiStepKeepsContract ==
  ASSUME HostedInv, AbiNext
  PROVE  HostedInv' /\ (AbiContract!Next \/ CaughtException \/ InvalidTable)
<1>1. ASSUME NEW requests \in Batches, AbiSubmitIoBatch(requests)
      PROVE  HostedInv' /\ (AbiContract!Next \/ CaughtException)
  <2>1. /\ HostedInv'
        /\ \/ CaughtException
           \/ seen'.call = "SubmitIoBatch" /\ AbiContract!Refuse
           \/ /\ seen'.call = "SubmitIoBatch" /\ AbiContract!Accept(requests)
              /\ seen'.submitted_count = Len(requests)
              /\ seen'.first_request_id = seen'.accepted[1].id
    BY <1>1, BatchFromCallers, AbiSubmitKeeps DEF AbiSubmitIoBatch
  <2>2. CaughtException \/ AbiContract!SubmitIoBatch(requests)
    BY <2>1 DEF AbiContract!SubmitIoBatch
  <2>. QED
    BY <2>1, <2>2 DEF AbiContract!Next
<1>2. ASSUME NEW requests \in Batches, Len(requests) = 1, AbiSubmitIo(requests[1])
      PROVE  HostedInv' /\ (AbiContract!Next \/ CaughtException)
  <2>1. <<requests[1]>> = requests
    BY <1>2, BatchOfOne
  <2>2. /\ HostedInv'
        /\ \/ CaughtException
           \/ seen'.call = "SubmitIo" /\ AbiContract!Refuse
           \/ /\ seen'.call = "SubmitIo" /\ AbiContract!Accept(requests)
              /\ seen'.first_request_id = seen'.accepted[1].id
    BY <1>2, <2>1, BatchFromCallers, AbiSubmitKeeps DEF AbiSubmitIo
  <2>3. CaughtException \/ AbiContract!SubmitIo(requests[1])
    BY <2>1, <2>2 DEF AbiContract!SubmitIo
  <2>. QED
    BY <1>2, <2>2, <2>3 DEF AbiContract!Next
<1>3. ASSUME NEW size \in PollSizes, AbiPollIoCompletions(size)
      PROVE  HostedInv' /\ (AbiContract!Next \/ CaughtException \/ InvalidTable)
  <2>1. size \in Nat
    BY LimitsAssumption
  <2>2. CASE Polled("PollIoCompletions", size)
    <3>1. /\ HostedInv' /\ AbiContract!Deliver(size)
          /\ seen'.call = "PollIoCompletions" /\ seen'.status = "Ok"
      BY <2>1, <2>2, PolledKeeps
    <3>2. size > 0
      BY <2>2 DEF Polled
    <3>3. AbiContract!PollIoCompletions(size)
      BY <3>1, <3>2 DEF AbiContract!PollIoCompletions
    <3>. QED
      BY <3>1, <3>3 DEF AbiContract!Next
  <2>3. CASE PollThrows("PollIoCompletions", size)
    BY <2>1, <2>3, PollThrowsStep
  <2>4. CASE PollRefused("PollIoCompletions", size)
    <3>1. /\ HostedInv' /\ seen'.call = "PollIoCompletions" /\ AbiContract!Refuse
          /\ size = 0 \/ InvalidTable
      BY <2>1, <2>4, PollRefusedStep
    <3>2. AbiContract!PollIoCompletions(size) \/ InvalidTable
      BY <3>1 DEF AbiContract!PollIoCompletions
    <3>. QED
      BY <3>1, <3>2 DEF AbiContract!Next
  <2>. QED
    BY <1>3, <2>2, <2>3, <2>4 DEF AbiPollIoCompletions, AbiPoll
<1>4. ASSUME AbiPollIoCompletion
      PROVE  HostedInv' /\ (AbiContract!Next \/ CaughtException \/ InvalidTable)
  <2>1. CASE Polled("PollIoCompletion", 1)
    <3>1. /\ HostedInv' /\ AbiContract!Deliver(1) /\ seen'.call = "PollIoCompletion"
          /\ seen'.status = IF Popped(1) = << >> THEN "NotFound" ELSE "Ok"
      BY <2>1, PolledKeeps
    <3>2. Popped(1) = << >> <=> CountOf(completions) = AbiContract!EmptyBag
      BY PoppedNone, SameContract
    <3>3. AbiContract!PollIoCompletion
      BY <3>1, <3>2 DEF AbiContract!PollIoCompletion, CountOf, Positions
    <3>. QED
      BY <3>1, <3>3 DEF AbiContract!Next
  <2>2. CASE PollThrows("PollIoCompletion", 1)
    BY <2>2, PollThrowsStep
  <2>3. CASE PollRefused("PollIoCompletion", 1)
    BY <2>3, PollRefusedStep
  <2>. QED
    BY <1>4, <2>1, <2>2, <2>3 DEF AbiPollIoCompletion, AbiPoll
<1>. QED
  BY <1>1, <1>2, <1>3, <1>4 DEF AbiNext

(* Seen through adapter and provider, block I/O keeps the contract of the  *)
(* hosted runtime, but for calls that report an exception or an invalid    *)
(* table: no translation loses an id, user_data, a status or a byte count, *)
(* for any batch and any limit, and an exception only ever adds to the end *)
(* of the queue or takes from its front.                                   *)
THEOREM ContractSurvivesAbi == AbiSpec => ContractAcrossAbi
<1>1. AbiInit => HostedInv /\ AbiContract!Init
  <2>. SUFFICES ASSUME AbiInit PROVE HostedInv /\ AbiContract!Init
    OBVIOUS
  <2>1. HostedInv
    BY HostedInitially DEF AbiInit
  <2>2. completions = << >> /\ seen.call = "None"
    BY DEF AbiInit, Init, NoResult
  <2>3. CountOf(completions) = AbiContract!EmptyBag
    <3>1. << >> \in Seq(Nat)
      OBVIOUS
    <3>. QED
      BY <2>2, <3>1, NothingOwed, SameContract
  <2>. QED
    BY <2>1, <2>2, <2>3 DEF AbiContract!Init, CountOf, Positions
<1>2. HostedInv /\ [AbiNext]_abi_vars => HostedInv'
  <2>1. ASSUME HostedInv, UNCHANGED abi_vars PROVE HostedInv'
    BY <2>1 DEF abi_vars, vars, HostedInv, StateTyped
  <2>. QED
    BY <2>1, AbiStepKeepsContract
<1>3. HostedInv /\ [AbiNext]_abi_vars
        => [AbiContract!Next \/ CaughtException \/ InvalidTable]_<<data, memory, completions, seen>>
  <2>1. ASSUME UNCHANGED abi_vars PROVE UNCHANGED <<data, memory, completions, seen>>
    BY <2>1 DEF abi_vars, vars
  <2>. QED
    BY <2>1, AbiStepKeepsContract
<1>. QED
  BY <1>1, <1>2, <1>3, PTL DEF AbiSpec, ContractAcrossAbi

=============================================================================
