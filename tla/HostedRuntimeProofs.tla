------------------------ MODULE HostedRuntimeProofs ------------------------
(***************************************************************************)
(* Theorems about HostedRuntime for every device geometry, every limit on  *)
(* batches, requests and outstanding completions, and all buffers, batches *)
(* and poll sizes.                                                         *)
(***************************************************************************)
EXTENDS HostedRuntime, FiniteSetTheorems, SequenceTheorems,
        WellFoundedInduction, TLAPS

(* A nonempty set of natural numbers has a least element.                  *)
LEMMA LeastNumber ==
  ASSUME NEW T, T \subseteq Nat, T # {}
  PROVE  \E x \in T : \A y \in T : x <= y
<1>1. PICK x \in T : \A y \in T : ~(<<y, x>> \in OpToRel(<, Nat))
  BY NatLessThanWellFounded, WFMin
<1>2. \A y \in T : ~(y < x)
  BY <1>1 DEF OpToRel
<1>3. \A y \in T : x <= y
  BY <1>2
<1>. QED
  BY <1>3

-----------------------------------------------------------------------------
(* One request.                                                            *)

(* Device and buffers: of the sizes they were made with, and full of       *)
(* bytes.                                                                  *)
IoState ==
  {s \in [data : [DOMAIN InitialData -> Nat], memory : [DOMAIN Buffers -> Seq(Nat)]] :
     \A b \in DOMAIN Buffers : DOMAIN s.memory[b] = DOMAIN Buffers[b]}

TypedRequest(r) ==
  /\ r.id \in Nat /\ r.offset \in Nat /\ r.length \in Nat
  /\ r.buffer \in DOMAIN Buffers

StateTyped == [data |-> data, memory |-> memory] \in IoState

(* The length of a request is a number.                                    *)
LEMMA LengthTyped ==
  ASSUME NEW r, TypedRequest(r), StateTyped
  PROVE  effective_request_length(r) \in Nat
BY DEF effective_request_length, TypedRequest, StateTyped, IoState

(* A request completes with one of the runtime's statuses.                 *)
LEMMA StatusTyped ==
  ASSUME NEW r
  PROVE  CompletionStatus(r) \in Statuses
BY DEF CompletionStatus, validate_buffered_io_request, ValidateAccess, Statuses

(* A successful read or write stays inside its buffer and the device.      *)
LEMMA TransferFits ==
  ASSUME NEW r, TypedRequest(r), StateTyped,
         CompletionStatus(r) = "Ok", r.operation # "Flush"
  PROVE  /\ effective_request_length(r) <= Len(memory[r.buffer])
         /\ r.offset + effective_request_length(r) <= Len(data)
<1>. DEFINE length == effective_request_length(r)
<1>1. length \in Nat
  BY LengthTyped
<1>2. /\ validate_buffered_io_request(r, length) = "Ok"
      /\ ValidateAccess(data, r.offset, length) = "Ok"
  BY DEF CompletionStatus
<1>3. Len(memory[r.buffer]) \in Nat /\ Len(data) \in Nat
  <2>1. data \in Seq(Nat)
    BY GeometryAssumption DEF StateTyped, IoState, InitialData
  <2>. QED
    BY <2>1 DEF TypedRequest, StateTyped, IoState
<1>4. length <= Len(memory[r.buffer])
  BY <1>1, <1>2, <1>3 DEF validate_buffered_io_request
<1>5. r.offset <= Len(data) /\ length <= Len(data) - r.offset
  BY <1>1, <1>2, <1>3 DEF ValidateAccess, TypedRequest
<1>. HIDE DEF length
<1>6. r.offset \in Nat
  BY DEF TypedRequest
<1>. QED
  BY <1>1, <1>3, <1>4, <1>5, <1>6 DEF length

(* A request leaves a device and buffers of the same sizes.                *)
LEMMA PerformTyped ==
  ASSUME NEW r, TypedRequest(r), StateTyped, NEW s \in IoState
  PROVE  Perform(s, r) \in IoState
<1>. DEFINE length == effective_request_length(r)
            b == r.buffer
<1>1. CASE CompletionStatus(r) # "Ok" \/ r.operation = "Flush"
  BY <1>1 DEF Perform
<1>2. CASE CompletionStatus(r) = "Ok" /\ r.operation # "Flush"
  <2>1. /\ length \in Nat /\ r.offset \in Nat /\ b \in DOMAIN Buffers
        /\ length <= Len(memory[b]) /\ r.offset + length <= Len(data)
    BY <1>2, LengthTyped, TransferFits DEF TypedRequest
  <2>2. /\ DOMAIN data = 1 .. Len(data) /\ Len(data) \in Nat
        /\ DOMAIN s.data = 1 .. Len(data)
        /\ s.data \in [1 .. Len(data) -> Nat]
    <3>1. data \in Seq(Nat)
      BY GeometryAssumption DEF StateTyped, IoState, InitialData
    <3>. QED
      BY <3>1 DEF StateTyped, IoState
  <2>3. /\ Len(memory[b]) \in Nat
        /\ s.memory[b] \in [1 .. Len(memory[b]) -> Nat]
    <3>1. memory[b] \in Seq(Nat) /\ s.memory[b] \in Seq(Nat)
      BY <2>1 DEF StateTyped, IoState
    <3>2. DOMAIN memory[b] = DOMAIN s.memory[b]
      BY <2>1 DEF StateTyped, IoState
    <3>. QED
      BY <3>1, <3>2, SMTT(30)
  <2>. HIDE DEF length, b
  <2>4. CASE r.operation = "Read"
    <3>. DEFINE new == DeviceRead(s.data, r.offset, length, s.memory[b])
    <3>1. new \in [1 .. Len(memory[b]) -> Nat]
      BY <2>1, <2>2, <2>3 DEF DeviceRead
    <3>2. new \in Seq(Nat) /\ DOMAIN new = DOMAIN s.memory[b]
      BY <2>3, <3>1
    <3>3. Perform(s, r) = [s EXCEPT !.memory[b] = new]
      BY <1>2, <2>4 DEF Perform, length, b
    <3>. HIDE DEF new
    <3>4. Perform(s, r) = [data |-> s.data, memory |-> [s.memory EXCEPT ![b] = new]]
      <4>1. s = [data |-> s.data, memory |-> s.memory]
        BY DEF IoState
      <4>. QED
        BY <3>3, <4>1
    <3>. DEFINE after == [s.memory EXCEPT ![b] = new]
    <3>5. /\ s.data \in [DOMAIN InitialData -> Nat]
          /\ s.memory \in [DOMAIN Buffers -> Seq(Nat)]
          /\ \A c \in DOMAIN Buffers : DOMAIN s.memory[c] = DOMAIN Buffers[c]
      BY DEF IoState
    <3>6. /\ after \in [DOMAIN Buffers -> Seq(Nat)]
          /\ \A c \in DOMAIN Buffers : DOMAIN after[c] = DOMAIN Buffers[c]
      BY <3>2, <3>5
    <3>. HIDE DEF after
    <3>7. [data |-> s.data, memory |-> after] \in IoState
      BY <3>5, <3>6 DEF IoState
    <3>. QED
      BY <3>4, <3>7 DEF after
  <2>5. CASE r.operation # "Read"
    <3>. DEFINE new == DeviceWrite(s.data, r.offset, length, s.memory[b])
    <3>1. new \in [DOMAIN InitialData -> Nat]
      <4>1. DOMAIN s.data = DOMAIN InitialData
        BY DEF IoState
      <4>. QED
        BY <2>1, <2>2, <2>3, <4>1, SMTT(30) DEF DeviceWrite, Extent
    <3>2. Perform(s, r) = [s EXCEPT !.data = new]
      BY <1>2, <2>5 DEF Perform, length, b
    <3>. HIDE DEF new
    <3>3. Perform(s, r) = [data |-> new, memory |-> s.memory]
      BY <3>2 DEF IoState
    <3>. QED
      BY <3>1, <3>3 DEF IoState
  <2>. QED
    BY <2>4, <2>5
<1>. QED
  BY <1>1, <1>2

(* The addresses a request is about.                                       *)
Touched(r) == r.offset + 1 .. r.offset + effective_request_length(r)

(* A successful write copies the buffer to the device.                     *)
LEMMA PerformWrite ==
  ASSUME NEW r, TypedRequest(r), StateTyped, NEW s \in IoState,
         CompletionStatus(r) = "Ok", r.operation = "Write"
  PROVE  /\ Perform(s, r).memory = s.memory
         /\ Touched(r) \subseteq DOMAIN InitialData
         /\ \A a \in DOMAIN InitialData :
              Perform(s, r).data[a] = IF a \in Touched(r)
                                      THEN s.memory[r.buffer][a - r.offset] ELSE s.data[a]
<1>. DEFINE length == effective_request_length(r)
            new == DeviceWrite(s.data, r.offset, length, s.memory[r.buffer])
<1>1. /\ length \in Nat /\ r.offset \in Nat
      /\ r.offset + length <= Len(data)
  BY LengthTyped, TransferFits DEF TypedRequest
<1>2. DOMAIN data = 1 .. Len(data) /\ Len(data) \in Nat /\ DOMAIN data = DOMAIN InitialData
  <2>1. data \in Seq(Nat) /\ DOMAIN data = DOMAIN InitialData
    BY GeometryAssumption DEF StateTyped, IoState, InitialData
  <2>. QED
    BY <2>1
<1>3. s = [data |-> s.data, memory |-> s.memory] /\ DOMAIN s.data = DOMAIN InitialData
  BY DEF IoState
<1>4. Perform(s, r) = [s EXCEPT !.data = new]
  BY DEF Perform
<1>5. \A a \in DOMAIN InitialData :
        new[a] = IF a \in Touched(r)
                 THEN s.memory[r.buffer][a - r.offset] ELSE s.data[a]
  BY <1>3 DEF DeviceWrite, Extent, Touched
<1>. HIDE DEF new
<1>6. Perform(s, r).data = new /\ Perform(s, r).memory = s.memory
  BY <1>3, <1>4
<1>. HIDE DEF length
<1>7. Touched(r) \subseteq DOMAIN InitialData
  BY <1>1, <1>2 DEF Touched, length
<1>. QED
  BY <1>5, <1>6, <1>7

(* A successful read copies the device to the buffer.                      *)
LEMMA PerformRead ==
  ASSUME NEW r, TypedRequest(r), StateTyped, NEW s \in IoState,
         CompletionStatus(r) = "Ok", r.operation = "Read"
  PROVE  /\ Perform(s, r).data = s.data
         /\ Touched(r) \subseteq DOMAIN InitialData
         /\ \A b \in DOMAIN Buffers : b # r.buffer => Perform(s, r).memory[b] = s.memory[b]
         /\ \A a \in Touched(r) : Perform(s, r).memory[r.buffer][a - r.offset] = s.data[a]
<1>. DEFINE length == effective_request_length(r)
            old == s.memory[r.buffer]
            new == DeviceRead(s.data, r.offset, length, old)
<1>1. /\ length \in Nat /\ r.offset \in Nat /\ r.buffer \in DOMAIN Buffers
      /\ length <= Len(memory[r.buffer])
      /\ r.offset + length <= Len(data)
  BY LengthTyped, TransferFits DEF TypedRequest
<1>2. DOMAIN data = 1 .. Len(data) /\ Len(data) \in Nat /\ DOMAIN data = DOMAIN InitialData
  <2>1. data \in Seq(Nat) /\ DOMAIN data = DOMAIN InitialData
    BY GeometryAssumption DEF StateTyped, IoState, InitialData
  <2>. QED
    BY <2>1
<1>3. DOMAIN old = 1 .. Len(memory[r.buffer]) /\ Len(memory[r.buffer]) \in Nat
  <2>1. memory[r.buffer] \in Seq(Nat) /\ DOMAIN memory[r.buffer] = DOMAIN old
    BY <1>1 DEF StateTyped, IoState
  <2>. QED
    BY <2>1
<1>4. /\ s = [data |-> s.data, memory |-> s.memory]
      /\ s.memory = [b \in DOMAIN Buffers |-> s.memory[b]]
  BY DEF IoState
<1>5. Perform(s, r) = [s EXCEPT !.memory[r.buffer] = new]
  BY DEF Perform
<1>6. \A k \in DOMAIN old : new[k] = IF k <= length THEN s.data[r.offset + k] ELSE old[k]
  BY DEF DeviceRead
<1>. HIDE DEF new, old
<1>7. /\ Perform(s, r).data = s.data
      /\ Perform(s, r).memory = [s.memory EXCEPT ![r.buffer] = new]
  BY <1>4, <1>5
<1>8. /\ Perform(s, r).memory[r.buffer] = new
      /\ \A b \in DOMAIN Buffers : b # r.buffer => Perform(s, r).memory[b] = s.memory[b]
  BY <1>1, <1>4, <1>7
<1>. HIDE DEF length
<1>9. Touched(r) \subseteq DOMAIN InitialData
  BY <1>1, <1>2 DEF Touched, length
<1>10. ASSUME NEW a \in Touched(r) PROVE new[a - r.offset] = s.data[a]
  <2>1. a - r.offset \in 1 .. length /\ r.offset + (a - r.offset) = a
    BY <1>1 DEF Touched, length
  <2>2. a - r.offset \in DOMAIN old
    BY <1>1, <1>3, <2>1
  <2>. QED
    BY <1>1, <1>6, <2>1, <2>2
<1>. QED
  BY <1>7, <1>8, <1>9, <1>10

(* The successful requests of a batch that perform an operation.           *)
Successful(requests, op) ==
  {k \in DOMAIN requests :
     requests[k].operation = op /\ CompletionStatus(requests[k]) = "Ok"}

(* A request that is not a successful write leaves the device alone, one   *)
(* that is not a successful read leaves the buffers alone.                 *)
LEMMA PerformKeeps ==
  ASSUME NEW r, TypedRequest(r), StateTyped, NEW s \in IoState,
         r.operation \in {"Read", "Write", "Flush"}
  PROVE  /\ ~(CompletionStatus(r) = "Ok" /\ r.operation = "Write")
              => Perform(s, r).data = s.data
         /\ ~(CompletionStatus(r) = "Ok" /\ r.operation = "Read")
              => Perform(s, r).memory = s.memory
<1>1. CASE CompletionStatus(r) # "Ok" \/ r.operation = "Flush"
  BY <1>1 DEF Perform
<1>2. CASE CompletionStatus(r) = "Ok" /\ r.operation = "Read"
  BY <1>2, PerformRead
<1>3. CASE CompletionStatus(r) = "Ok" /\ r.operation = "Write"
  BY <1>3, PerformWrite
<1>. QED
  BY <1>1, <1>2, <1>3

-----------------------------------------------------------------------------
(* A batch.                                                                *)

(* The states between the requests of a batch, as Performed computes them. *)
Between(requests, after) ==
  after = [n \in 0 .. Len(requests) |->
             IF n = 0 THEN [data |-> data, memory |-> memory]
             ELSE Perform(after[n - 1], requests[n])]

(* Performed is the last of the states between the requests.               *)
LEMMA PerformedLast ==
  ASSUME NEW requests, Len(requests) \in Nat
  PROVE  \E after : Between(requests, after) /\ Performed(requests) = after[Len(requests)]
<1>. DEFINE start == [data |-> data, memory |-> memory]
            P(f, m) == f = [n \in 0 .. m |-> IF n = 0 THEN start
                                             ELSE Perform(f[n - 1], requests[n])]
            B == {m \in 0 .. Len(requests) : ~ \E f : P(f, m)}
<1>. HIDE DEF P, start
<1>1. B = {}
  <2>1. SUFFICES ASSUME B # {} PROVE FALSE
    OBVIOUS
  <2>2. PICK m \in B : \A j \in B : m <= j
    <3>1. B \subseteq Nat
      OBVIOUS
    <3>. HIDE DEF B
    <3>. QED
      BY <2>1, <3>1, LeastNumber
  <2>3. m # 0
    <3>1. P([n \in 0 .. 0 |-> start], 0)
      BY DEF P
    <3>. QED
      BY <3>1, <2>2
  <2>4. PICK f : P(f, m - 1)
    BY <2>2, <2>3
  <2>5. P([n \in 0 .. m |-> IF n = m THEN Perform(f[m - 1], requests[m]) ELSE f[n]], m)
    BY <2>3, <2>4 DEF P
  <2>. QED
    BY <2>2, <2>5
<1>2. \E f : P(f, Len(requests))
  BY <1>1
<1>. DEFINE g == CHOOSE f : P(f, Len(requests))
<1>3. P(g, Len(requests))
  BY <1>2
<1>4. Performed(requests) = g[Len(requests)]
  BY DEF Performed, P, start
<1>. QED
  BY <1>3, <1>4 DEF P, Between, start

(* An IoRequest with user_data from a set.                                 *)
IoRequest(U) ==
  [id : Nat, operation : STRING, offset : Nat, buffer : DOMAIN Buffers,
   length : Nat, flags : SUBSET STRING, user_data : U]

(* What holds of a typed batch, request by request.                        *)
LEMMA BatchTyped ==
  ASSUME NEW requests, Typed(requests)
  PROVE  /\ Len(requests) \in Nat /\ DOMAIN requests = 1 .. Len(requests)
         /\ \E U : requests \in Seq(IoRequest(U))
         /\ \A k \in 1 .. Len(requests) : TypedRequest(requests[k])
<1>. DEFINE U == {requests[k].user_data : k \in DOMAIN requests}
<1>1. requests \in Seq(IoRequest(U))
  BY DEF Typed, IoRequest
<1>. HIDE DEF U
<1>2. /\ Len(requests) \in Nat /\ DOMAIN requests = 1 .. Len(requests)
      /\ \A k \in 1 .. Len(requests) : requests[k] \in IoRequest(U)
  BY <1>1, LenProperties, ElementOfSeq
<1>3. ASSUME NEW r \in IoRequest(U) PROVE TypedRequest(r)
  BY DEF IoRequest, TypedRequest
<1>. QED
  BY <1>1, <1>2, <1>3

(* The states between the requests of a typed batch.                       *)
LEMMA BetweenTyped ==
  ASSUME NEW requests, Typed(requests), StateTyped,
         NEW after, Between(requests, after)
  PROVE  /\ after[0] = [data |-> data, memory |-> memory]
         /\ \A n \in 1 .. Len(requests) :
              after[n] = Perform(after[n - 1], requests[n])
         /\ \A n \in 0 .. Len(requests) : after[n] \in IoState
<1>1. Len(requests) \in Nat
  BY BatchTyped
<1>2. after[0] = [data |-> data, memory |-> memory]
  BY <1>1 DEF Between
<1>3. \A n \in 1 .. Len(requests) : after[n] = Perform(after[n - 1], requests[n])
  BY <1>1 DEF Between
<1>. DEFINE B == {n \in 0 .. Len(requests) : after[n] \notin IoState}
<1>4. B = {}
  <2>1. SUFFICES ASSUME B # {} PROVE FALSE
    OBVIOUS
  <2>2. PICK m \in B : \A j \in B : m <= j
    <3>1. B \subseteq Nat
      OBVIOUS
    <3>. HIDE DEF B
    <3>. QED
      BY <2>1, <3>1, LeastNumber
  <2>3. m # 0
    BY <1>2 DEF StateTyped
  <2>4. m \in 1 .. Len(requests) /\ m - 1 \in 0 .. Len(requests) /\ after[m - 1] \in IoState
    BY <1>1, <2>2, <2>3
  <2>5. TypedRequest(requests[m])
    BY <2>4, BatchTyped
  <2>6. after[m] \in IoState
    BY <1>3, <2>4, <2>5, PerformTyped
  <2>. QED
    BY <2>6
<1>. QED
  BY <1>2, <1>3, <1>4

(* A batch leaves a device and buffers of the same sizes.                  *)
LEMMA PerformedTyped ==
  ASSUME NEW requests, Typed(requests), StateTyped
  PROVE  Performed(requests) \in IoState
<1>1. Len(requests) \in Nat
  BY BatchTyped
<1>2. PICK after : /\ Between(requests, after)
                   /\ Performed(requests) = after[Len(requests)]
  BY <1>1, PerformedLast
<1>. QED
  BY <1>1, <1>2, BetweenTyped

(* A batch whose operations are known, and the states between its          *)
(* requests.                                                               *)
KnownBatch(requests, after) ==
  /\ Typed(requests) /\ Between(requests, after)
  /\ \A k \in DOMAIN requests : requests[k].operation \in {"Read", "Write", "Flush"}

(* A byte of the device stays until a successful write touches it.         *)
LEMMA DataKept ==
  ASSUME StateTyped, NEW requests, NEW after, KnownBatch(requests, after),
         NEW i \in 0 .. Len(requests), NEW n \in i .. Len(requests),
         NEW a \in DOMAIN InitialData,
         \A k \in Successful(requests, "Write") :
            k > i => k > n \/ a \notin Touched(requests[k])
  PROVE  after[n].data[a] = after[i].data[a]
<1>. DEFINE B == {m \in i .. n : after[m].data[a] # after[i].data[a]}
<1>1. Len(requests) \in Nat /\ DOMAIN requests = 1 .. Len(requests)
  BY BatchTyped DEF KnownBatch
<1>2. B = {}
  <2>1. SUFFICES ASSUME B # {} PROVE FALSE
    OBVIOUS
  <2>2. PICK m \in B : \A j \in B : m <= j
    <3>1. B \subseteq Nat
      BY <1>1
    <3>. HIDE DEF B
    <3>. QED
      BY <2>1, <3>1, LeastNumber
  <2>3. /\ m \in 1 .. Len(requests) /\ m > i /\ ~(m > n)
        /\ m - 1 \in 0 .. Len(requests)
        /\ after[m - 1].data[a] = after[i].data[a]
    BY <1>1, <2>2
  <2>4. /\ after[m] = Perform(after[m - 1], requests[m])
        /\ after[m - 1] \in IoState
        /\ TypedRequest(requests[m])
        /\ requests[m].operation \in {"Read", "Write", "Flush"}
    BY <1>1, <2>3, BetweenTyped, BatchTyped DEF KnownBatch
  <2>5. CASE m \in Successful(requests, "Write")
    <3>1. a \notin Touched(requests[m])
      BY <2>3, <2>5
    <3>2. after[m].data[a] = after[m - 1].data[a]
      BY <2>4, <2>5, <3>1, PerformWrite DEF Successful
    <3>. QED
      BY <2>2, <2>3, <3>2
  <2>6. CASE m \notin Successful(requests, "Write")
    <3>1. after[m].data = after[m - 1].data
      BY <1>1, <2>3, <2>4, <2>6, PerformKeeps DEF Successful
    <3>. QED
      BY <2>2, <2>3, <3>1
  <2>. QED
    BY <2>5, <2>6
<1>3. n \in i .. n
  BY <1>1
<1>. QED
  BY <1>2, <1>3

(* A buffer stays until a successful read fills it.                        *)
LEMMA MemoryKept ==
  ASSUME StateTyped, NEW requests, NEW after, KnownBatch(requests, after),
         NEW i \in 0 .. Len(requests), NEW n \in i .. Len(requests),
         NEW b \in DOMAIN Buffers,
         \A k \in Successful(requests, "Read") :
            k > i => k > n \/ requests[k].buffer # b
  PROVE  after[n].memory[b] = after[i].memory[b]
<1>. DEFINE B == {m \in i .. n : after[m].memory[b] # after[i].memory[b]}
<1>1. Len(requests) \in Nat /\ DOMAIN requests = 1 .. Len(requests)
  BY BatchTyped DEF KnownBatch
<1>2. B = {}
  <2>1. SUFFICES ASSUME B # {} PROVE FALSE
    OBVIOUS
  <2>2. PICK m \in B : \A j \in B : m <= j
    <3>1. B \subseteq Nat
      BY <1>1
    <3>. HIDE DEF B
    <3>. QED
      BY <2>1, <3>1, LeastNumber
  <2>3. /\ m \in 1 .. Len(requests) /\ m > i /\ ~(m > n)
        /\ m - 1 \in 0 .. Len(requests)
        /\ after[m - 1].memory[b] = after[i].memory[b]
    BY <1>1, <2>2
  <2>4. /\ after[m] = Perform(after[m - 1], requests[m])
        /\ after[m - 1] \in IoState
        /\ TypedRequest(requests[m])
        /\ requests[m].operation \in {"Read", "Write", "Flush"}
    BY <1>1, <2>3, BetweenTyped, BatchTyped DEF KnownBatch
  <2>5. CASE m \in Successful(requests, "Read")
    <3>1. requests[m].buffer # b
      BY <2>3, <2>5
    <3>2. after[m].memory[b] = after[m - 1].memory[b]
      BY <2>4, <2>5, <3>1, PerformRead DEF Successful
    <3>. QED
      BY <2>2, <2>3, <3>2
  <2>6. CASE m \notin Successful(requests, "Read")
    <3>1. after[m].memory = after[m - 1].memory
      BY <1>1, <2>3, <2>4, <2>6, PerformKeeps DEF Successful
    <3>. QED
      BY <2>2, <2>3, <3>1
  <2>. QED
    BY <2>5, <2>6
<1>3. n \in i .. n
  BY <1>1
<1>. QED
  BY <1>2, <1>3

(* What a batch does to device and buffers is what IoContract allows: the  *)
(* last successful write to touch a byte decides it, and a read that no    *)
(* later request disturbs shows the bytes the device ends up with.         *)
LEMMA BatchKeepsContract ==
  ASSUME StateTyped, NEW requests, Typed(requests), NEW done,
         \A k \in DOMAIN requests :
            /\ requests[k].operation \in {"Read", "Write", "Flush"}
            /\ done[k].status = CompletionStatus(requests[k]),
         data' = Performed(requests).data, memory' = Performed(requests).memory
  PROVE  Contract!BatchEffect(requests, done)
<1>. DEFINE N == Len(requests)
            W == Successful(requests, "Write")
            R == Successful(requests, "Read")
            T(k) == Touched(requests[k])
            b(k) == requests[k].buffer
            o(k) == requests[k].offset
<1>1. N \in Nat /\ DOMAIN requests = 1 .. N /\ \A k \in 1 .. N : TypedRequest(requests[k])
  BY BatchTyped
<1>2. PICK after : Between(requests, after) /\ Performed(requests) = after[N]
  BY <1>1, PerformedLast
<1>3. KnownBatch(requests, after)
  BY <1>2 DEF KnownBatch
<1>4. /\ after[0] = [data |-> data, memory |-> memory]
      /\ \A n \in 1 .. N : after[n] = Perform(after[n - 1], requests[n])
      /\ \A n \in 0 .. N : after[n] \in IoState
  BY <1>2, BetweenTyped
<1>5. /\ after[0].data = data /\ after[0].memory = memory
      /\ after[N].data = data' /\ after[N].memory = memory'
  BY <1>2, <1>4
<1>6. DOMAIN data = DOMAIN InitialData /\ DOMAIN memory = DOMAIN Buffers
  BY DEF StateTyped, IoState
<1>7. W \subseteq 1 .. N /\ R \subseteq 1 .. N
  BY <1>1 DEF Successful
<1>8. ASSUME NEW k \in W
      PROVE  /\ after[k].memory = after[k - 1].memory
             /\ T(k) \subseteq DOMAIN InitialData
             /\ \A a \in T(k) : after[k].data[a] = after[k - 1].memory[b(k)][a - o(k)]
  <2>1. /\ k \in 1 .. N /\ TypedRequest(requests[k]) /\ after[k - 1] \in IoState
        /\ after[k] = Perform(after[k - 1], requests[k])
        /\ CompletionStatus(requests[k]) = "Ok" /\ requests[k].operation = "Write"
    BY <1>1, <1>4, <1>7 DEF Successful
  <2>. QED
    BY <2>1, PerformWrite
<1>9. ASSUME NEW k \in R
      PROVE  /\ after[k].data = after[k - 1].data
             /\ T(k) \subseteq DOMAIN InitialData
             /\ \A a \in T(k) : after[k].memory[b(k)][a - o(k)] = after[k - 1].data[a]
  <2>1. /\ k \in 1 .. N /\ TypedRequest(requests[k]) /\ after[k - 1] \in IoState
        /\ after[k] = Perform(after[k - 1], requests[k])
        /\ CompletionStatus(requests[k]) = "Ok" /\ requests[k].operation = "Read"
    BY <1>1, <1>4, <1>7 DEF Successful
  <2>. QED
    BY <2>1, PerformRead
<1>10. \A k \in 1 .. N : b(k) \in DOMAIN Buffers
  BY <1>1 DEF TypedRequest
<1>. DEFINE Disjoint(j, k) == ~(T(j) \cap T(k) # {})
<1>. HIDE DEF N, W, R, T, b, o
<1>11. ASSUME NEW a \in DOMAIN InitialData, \A k \in W : a \notin T(k)
       PROVE  data'[a] = data[a]
  <2>1. 0 \in 0 .. N /\ N \in 0 .. N
    BY <1>1
  <2>2. after[N].data[a] = after[0].data[a]
    BY <1>3, <1>11, <2>1, DataKept DEF W, T, N
  <2>. QED
    BY <1>5, <2>2
<1>12. ASSUME NEW c \in DOMAIN Buffers, \A k \in R : b(k) # c
       PROVE  memory'[c] = memory[c]
  <2>1. 0 \in 0 .. N /\ N \in 0 .. N
    BY <1>1
  <2>2. after[N].memory[c] = after[0].memory[c]
    BY <1>3, <1>12, <2>1, MemoryKept DEF R, b, N
  <2>. QED
    BY <1>5, <2>2
<1>13. ASSUME NEW k \in W \cup R, \A j \in W : j > k => Disjoint(j, k), NEW a \in T(k)
       PROVE  data'[a] = after[k].data[a]
  <2>1. k \in 0 .. N /\ N \in k .. N /\ a \in DOMAIN InitialData
    BY <1>1, <1>7, <1>8, <1>9, <1>13
  <2>2. \A j \in W : j > k => j > N \/ a \notin T(j)
    BY <1>13
  <2>3. after[N].data[a] = after[k].data[a]
    <3>. DEFINE n == N
    <3>1. /\ k \in 0 .. Len(requests) /\ n \in k .. Len(requests)
          /\ \A j \in Successful(requests, "Write") :
                j > k => j > n \/ a \notin Touched(requests[j])
      BY <2>1, <2>2 DEF W, T, N
    <3>. HIDE DEF n
    <3>2. after[n].data[a] = after[k].data[a]
      BY <1>3, <2>1, <3>1, DataKept
    <3>. QED
      BY <3>2 DEF n
  <2>. QED
    BY <1>5, <2>3
<1>14. ASSUME NEW k \in W, \A j \in W : j > k => Disjoint(j, k),
              \A j \in R : ~(b(j) = b(k)), NEW a \in T(k)
       PROVE  data'[a] = memory[b(k)][a - o(k)]
  <2>1. 0 \in 0 .. N /\ k - 1 \in 0 .. N /\ b(k) \in DOMAIN Buffers
    BY <1>1, <1>7, <1>10
  <2>2. \A j \in R : j > 0 => j > k - 1 \/ b(j) # b(k)
    BY <1>14
  <2>3. after[k - 1].memory[b(k)] = after[0].memory[b(k)]
    BY <1>3, <2>1, <2>2, MemoryKept DEF R, b, N
  <2>4. data'[a] = after[k].data[a]
    BY <1>13, <1>14
  <2>. QED
    BY <1>5, <1>8, <1>14, <2>3, <2>4
<1>15. ASSUME NEW k \in R, \A j \in W : j > k => Disjoint(j, k),
              \A j \in R : j > k => ~(b(j) = b(k)), NEW a \in T(k)
       PROVE  memory'[b(k)][a - o(k)] = data'[a]
  <2>1. k \in 0 .. N /\ N \in k .. N /\ b(k) \in DOMAIN Buffers
    BY <1>1, <1>7, <1>10
  <2>2. \A j \in R : j > k => j > N \/ b(j) # b(k)
    BY <1>15
  <2>3. after[N].memory[b(k)] = after[k].memory[b(k)]
    BY <1>3, <2>1, <2>2, MemoryKept DEF R, b, N
  <2>4. data'[a] = after[k].data[a]
    BY <1>13, <1>15
  <2>. QED
    BY <1>5, <1>9, <1>15, <2>3, <2>4
<1>16. \A k \in DOMAIN requests : Contract!Touches(requests[k]) = T(k)
  BY DEF Contract!Touches, Contract!RequestLength, T, Touched, effective_request_length
<1>17. /\ W = {k \in DOMAIN requests :
                 requests[k].operation = "Write" /\ done[k].status = "Ok"}
       /\ R = {k \in DOMAIN requests :
                 requests[k].operation = "Read" /\ done[k].status = "Ok"}
  BY DEF W, R, Successful
<1>18. W \subseteq DOMAIN requests /\ R \subseteq DOMAIN requests
  BY <1>1, <1>7
<1>19. Contract!BatchEffect(requests, done) <=>
         /\ \A a \in DOMAIN data : (\A k \in W : a \notin T(k)) => data'[a] = data[a]
         /\ \A c \in DOMAIN memory : (\A k \in R : b(k) # c) => memory'[c] = memory[c]
         /\ \A k \in W :
               /\ \A j \in W : j > k => Disjoint(j, k)
               /\ \A j \in R : ~(b(j) = b(k))
               => \A a \in T(k) : data'[a] = memory[b(k)][a - o(k)]
         /\ \A k \in R :
               /\ \A j \in W : j > k => Disjoint(j, k)
               /\ \A j \in R : j > k => ~(b(j) = b(k))
               => \A a \in T(k) : memory'[b(k)][a - o(k)] = data'[a]
  BY <1>16, <1>17, <1>18 DEF Contract!BatchEffect, b, o
<1>. QED
  BY <1>6, <1>11, <1>12, <1>14, <1>15, <1>19

-----------------------------------------------------------------------------
(* Ids.                                                                    *)

(* The unnumbered requests of a typed batch can be counted.                *)
LEMMA UnnumberedFinite ==
  ASSUME NEW requests, Typed(requests), NEW k \in Nat
  PROVE  /\ IsFiniteSet(Unnumbered(requests))
         /\ Cardinality(Unnumbered(requests)) \in Nat
         /\ IsFiniteSet({j \in Unnumbered(requests) : j < k})
         /\ Cardinality({j \in Unnumbered(requests) : j < k}) \in Nat
<1>1. IsFiniteSet(1 .. Len(requests))
  BY BatchTyped, FS_Interval
<1>2. Unnumbered(requests) \subseteq 1 .. Len(requests)
  BY BatchTyped DEF Unnumbered
<1>3. IsFiniteSet(Unnumbered(requests))
  BY <1>1, <1>2, FS_Subset
<1>4. IsFiniteSet({j \in Unnumbered(requests) : j < k})
  BY <1>3, FS_Subset
<1>. QED
  BY <1>3, <1>4, FS_CardinalityType

(* An unnumbered request gets an id from the range the batch uses up, and  *)
(* a later one gets a larger one.                                          *)
LEMMA AssignedInRange ==
  ASSUME NEW requests, Typed(requests), next_io_request_id \in Nat,
         NEW k \in Unnumbered(requests)
  PROVE  /\ AssignedId(requests, k) \in
              next_io_request_id ..
                next_io_request_id + Cardinality(Unnumbered(requests)) - 1
         /\ \A j \in Unnumbered(requests) :
              j < k => AssignedId(requests, j) < AssignedId(requests, k)
<1>. DEFINE U == Unnumbered(requests)
            Before(i) == {j \in U : j < i}
<1>1. U \subseteq Nat
  BY BatchTyped DEF Unnumbered
<1>2. /\ IsFiniteSet(U) /\ Cardinality(U) \in Nat
      /\ \A i \in Nat : IsFiniteSet(Before(i)) /\ Cardinality(Before(i)) \in Nat
  BY UnnumberedFinite
<1>. HIDE DEF U
<1>3. ASSUME NEW i \in U, NEW S, IsFiniteSet(S), i \in S, Before(i) \subseteq S
      PROVE  Cardinality(Before(i)) < Cardinality(S)
  <2>1. i \notin Before(i)
    BY <1>1, <1>3
  <2>2. Before(i) # S
    BY <1>3, <2>1
  <2>3. /\ Cardinality(Before(i)) <= Cardinality(S)
        /\ Cardinality(Before(i)) = Cardinality(S) => Before(i) = S
    BY <1>3, FS_Subset
  <2>4. Cardinality(Before(i)) \in Nat /\ Cardinality(S) \in Nat
    BY <1>1, <1>2, <1>3, FS_CardinalityType
  <2>. QED
    BY <2>2, <2>3, <2>4
<1>4. k \in U
  BY DEF U
<1>5. Cardinality(Before(k)) < Cardinality(U)
  BY <1>2, <1>3, <1>4
<1>6. \A j \in U : j < k => Cardinality(Before(j)) < Cardinality(Before(k))
  <2>. SUFFICES ASSUME NEW j \in U, j < k
                PROVE  Cardinality(Before(j)) < Cardinality(Before(k))
    OBVIOUS
  <2>1. j \in Before(k) /\ Before(j) \subseteq Before(k)
    <3>1. \A i \in U : i \in Nat
      BY <1>1
    <3>2. \A i \in U : i < j => i < k
      BY <1>4, <3>1
    <3>. QED
      BY <3>2
  <2>2. IsFiniteSet(Before(k))
    <3>. HIDE DEF Before
    <3>. QED
      BY <1>1, <1>2, <1>4
  <2>. QED
    BY <1>3, <2>1, <2>2
<1>7. \A i \in U : AssignedId(requests, i) = next_io_request_id + Cardinality(Before(i))
  BY DEF AssignedId, U
<1>8. \A i \in U : Cardinality(Before(i)) \in Nat
  BY <1>1, <1>2
<1>. DEFINE C(i) == Cardinality(Before(i))
<1>. HIDE DEF Before, C
<1>9. /\ AssignedId(requests, k) \in
           next_io_request_id .. next_io_request_id + Cardinality(U) - 1
      /\ \A j \in U : j < k => AssignedId(requests, j) < AssignedId(requests, k)
  BY <1>2, <1>4, <1>5, <1>6, <1>7, <1>8
<1>. QED
  BY <1>9 DEF U

-----------------------------------------------------------------------------
(* The invariant.                                                          *)

(* What callers attach to their requests.                                  *)
UserData ==
  UNION {{requests[k].user_data : k \in DOMAIN requests} : requests \in Batches}

(* Requests as callers make them; a part of a batch is one, too.           *)
FromCallers(requests) ==
  Typed(requests) /\ \A k \in DOMAIN requests : requests[k].user_data \in UserData

LEMMA BatchFromCallers ==
  ASSUME NEW requests \in Batches
  PROVE  FromCallers(requests)
BY CallersAssumption DEF FromCallers, UserData

CompletionType ==
  [id : Nat \ {0}, status : Statuses, bytes_transferred : Nat, user_data : UserData]

(* The inductive invariant: device and buffers as they were made, a queue  *)
(* of well-formed completions that is not too long, and ids still to come. *)
HostedInv ==
  /\ block_device \in BOOLEAN
  /\ StateTyped
  /\ next_io_request_id \in Nat \ {0}
  /\ completions \in Seq(CompletionType)
  /\ Len(completions) <= kHostedMaxOutstandingIo
  /\ result.status \in Statuses

(* The ids of a batch are numbers other than 0.                            *)
LEMMA RequestIdTyped ==
  ASSUME NEW requests, Typed(requests), next_io_request_id \in Nat \ {0},
         NEW k \in DOMAIN requests
  PROVE  RequestId(requests, k) \in Nat \ {0}
<1>1. requests[k].id \in Nat /\ k \in Nat
  BY BatchTyped DEF TypedRequest
<1>2. Cardinality({j \in Unnumbered(requests) : j < k}) \in Nat
  BY <1>1, UnnumberedFinite
<1>. DEFINE c == Cardinality({j \in Unnumbered(requests) : j < k})
<1>3. AssignedId(requests, k) = next_io_request_id + c
  BY DEF AssignedId
<1>. HIDE DEF c
<1>4. AssignedId(requests, k) \in Nat \ {0}
  BY <1>2, <1>3 DEF c
<1>. QED
  BY <1>1, <1>4 DEF RequestId

(* The completions of a batch.                                             *)
LEMMA CompletionsTyped ==
  ASSUME NEW requests, FromCallers(requests), StateTyped,
         next_io_request_id \in Nat \ {0}
  PROVE  /\ NewCompletions(requests) \in Seq(CompletionType)
         /\ Len(NewCompletions(requests)) = Len(requests)
<1>1. Len(requests) \in Nat /\ DOMAIN requests = 1 .. Len(requests)
  BY BatchTyped DEF FromCallers
<1>2. ASSUME NEW k \in DOMAIN requests
      PROVE  Completion(requests[k], RequestId(requests, k)) \in CompletionType
  <2>1. RequestId(requests, k) \in Nat \ {0}
    BY RequestIdTyped DEF FromCallers
  <2>2. CompletionStatus(requests[k]) \in Statuses
    BY StatusTyped
  <2>3. effective_request_length(requests[k]) \in Nat
    BY <1>1, BatchTyped, LengthTyped DEF FromCallers
  <2>4. requests[k].user_data \in UserData
    BY DEF FromCallers
  <2>. QED
    BY <2>1, <2>2, <2>3, <2>4 DEF Completion, CompletionType
<1>3. NewCompletions(requests) \in [1 .. Len(requests) -> CompletionType]
  BY <1>1, <1>2 DEF NewCompletions
<1>. QED
  BY <1>1, <1>3

(* An accepted batch fits into the queue.                                  *)
LEMMA AcceptStep ==
  ASSUME HostedInv, NEW requests, FromCallers(requests), NEW call, NEW status \in Statuses,
         AcceptBatch(call, status, requests)
  PROVE  HostedInv'
<1>1. Typed(requests)
  BY DEF FromCallers
<1>2. /\ SubmissionStatus(requests) = "Ok"
      /\ data' = Performed(requests).data
      /\ memory' = Performed(requests).memory
      /\ next_io_request_id' = next_io_request_id + Cardinality(Unnumbered(requests))
      /\ completions' = completions \o NewCompletions(requests)
      /\ result'.status = status
      /\ block_device' = block_device
  BY DEF AcceptBatch
<1>3. Performed(requests) \in IoState
  BY <1>1, PerformedTyped DEF HostedInv
<1>4. StateTyped'
  <2>1. Performed(requests) =
          [data |-> Performed(requests).data, memory |-> Performed(requests).memory]
    BY <1>3 DEF IoState
  <2>. QED
    BY <1>2, <1>3, <2>1 DEF StateTyped
<1>5. next_io_request_id' \in Nat \ {0}
  <2>1. Cardinality(Unnumbered(requests)) \in Nat
    BY <1>1, UnnumberedFinite
  <2>. QED
    BY <1>2, <2>1 DEF HostedInv
<1>6. /\ NewCompletions(requests) \in Seq(CompletionType)
      /\ Len(NewCompletions(requests)) = Len(requests)
  BY CompletionsTyped DEF HostedInv
<1>7. completions' \in Seq(CompletionType)
  BY <1>2, <1>6 DEF HostedInv
<1>8. Len(completions') = Len(completions) + Len(requests)
  <2>1. \A S : \A s, t \in Seq(S) : Len(s \o t) = Len(s) + Len(t)
    OBVIOUS
  <2>. QED
    BY <1>2, <1>6, <2>1 DEF HostedInv
<1>9. ~(Len(requests) > kHostedMaxOutstandingIo - Len(completions))
  BY <1>2 DEF SubmissionStatus
<1>10. Len(completions') <= kHostedMaxOutstandingIo
  <2>1. Len(requests) \in Nat /\ Len(completions) \in Nat
    BY <1>1, BatchTyped DEF HostedInv
  <2>. QED
    BY <1>8, <1>9, <2>1, LimitsAssumption
<1>. QED
  BY <1>2, <1>4, <1>5, <1>7, <1>10 DEF HostedInv

(* A refused batch only has a status.                                      *)
LEMMA RefuseStep ==
  ASSUME HostedInv, NEW requests, NEW call, RefuseBatch(call, requests)
  PROVE  HostedInv' /\ result'.assigned = {}
<1>1. /\ result' = Failed(call, SubmissionStatus(requests))
      /\ UNCHANGED <<block_device, data, memory, next_io_request_id, completions>>
  BY DEF RefuseBatch
<1>2. SubmissionStatus(requests) \in Statuses
  BY DEF SubmissionStatus, Statuses
<1>3. result'.status \in Statuses /\ result'.assigned = {}
  BY <1>1, <1>2 DEF Failed, NoResult
<1>. QED
  BY <1>1, <1>3 DEF HostedInv, StateTyped

(* A poll takes a prefix of the queue.                                     *)
LEMMA PopStep ==
  ASSUME HostedInv, NEW call, NEW status \in Statuses, NEW size \in Nat,
         Pop(call, status, size)
  PROVE  HostedInv' /\ result'.assigned = {}
<1>1. /\ completions' = SubSeq(completions, Len(Popped(size)) + 1, Len(completions))
      /\ result'.status = status /\ result'.assigned = {}
      /\ UNCHANGED <<block_device, data, memory, next_io_request_id>>
  BY DEF Pop, NoResult
<1>2. Len(completions) \in Nat /\ completions \in Seq(CompletionType)
  BY DEF HostedInv
<1>3. Len(Popped(size)) \in 0 .. Len(completions)
  BY <1>2 DEF Popped
<1>4. /\ completions' \in Seq(CompletionType)
      /\ Len(completions') <= Len(completions)
  BY <1>1, <1>2, <1>3
<1>. QED
  BY <1>1, <1>2, <1>4, LimitsAssumption DEF HostedInv, StateTyped

(* A batch of one, as SubmitIo makes it.                                   *)
LEMMA BatchOfOne ==
  ASSUME NEW requests \in Batches, Len(requests) = 1
  PROVE  <<requests[1]>> = requests
<1>1. Typed(requests)
  BY CallersAssumption
<1>2. DOMAIN requests = 1 .. 1 /\ requests = [k \in 1 .. 1 |-> requests[k]]
  BY <1>1 DEF Typed
<1>. QED
  BY <1>2

(* Nothing was submitted at first.                                         *)
LEMMA HostedInitially == Init => HostedInv
<1>. SUFFICES ASSUME Init PROVE HostedInv
  OBVIOUS
<1>1. InitialData \in [DOMAIN InitialData -> Nat]
  BY DEF InitialData
<1>2. StateTyped
  BY <1>1, CallersAssumption DEF Init, StateTyped, IoState
<1>3. result.status \in Statuses
  BY DEF Init, NoResult, Statuses
<1>. QED
  BY <1>2, <1>3, LimitsAssumption DEF Init, HostedInv

(* Every call keeps the invariant.                                         *)
LEMMA HostedStep == HostedInv /\ [Next]_vars => HostedInv'
<1>. SUFFICES ASSUME HostedInv, [Next]_vars PROVE HostedInv'
  OBVIOUS
<1>1. ASSUME NEW requests \in Batches, SubmitIoBatch(requests) PROVE HostedInv'
  <2>1. "Ok" \in Statuses
    BY DEF Statuses
  <2>. QED
    BY <1>1, <2>1, BatchFromCallers, AcceptStep, RefuseStep DEF SubmitIoBatch
<1>2. ASSUME NEW requests \in Batches, Len(requests) = 1, SubmitIo(requests[1])
      PROVE  HostedInv'
  <2>. DEFINE status == CheckedStatus(requests[1], RequestId(<<requests[1]>>, 1))
  <2>1. <<requests[1]>> = requests
    BY <1>2, BatchOfOne
  <2>2. status \in Statuses
    BY DEF CheckedStatus, Statuses
  <2>3. \/ AcceptBatch("SubmitIo", status, requests)
        \/ RefuseBatch("SubmitIo", requests)
    BY <1>2, <2>1 DEF SubmitIo
  <2>. HIDE DEF status
  <2>. QED
    BY <2>2, <2>3, BatchFromCallers, AcceptStep, RefuseStep
<1>3. ASSUME NEW size \in PollSizes, PollIoCompletions(size) PROVE HostedInv'
  <2>1. CASE Pop("PollIoCompletions", "Ok", size)
    <3>1. size \in Nat /\ "Ok" \in Statuses
      BY LimitsAssumption DEF Statuses
    <3>. QED
      BY <2>1, <3>1, PopStep
  <2>2. CASE /\ result' = Failed("PollIoCompletions", "InvalidArgument")
             /\ UNCHANGED <<block_device, data, memory, next_io_request_id, completions>>
    BY <2>2 DEF HostedInv, StateTyped, Failed, NoResult, Statuses
  <2>. QED
    BY <1>3, <2>1, <2>2 DEF PollIoCompletions
<1>4. CASE PollIoCompletion
  <2>1. {"Ok", "NotFound"} \subseteq Statuses
    BY DEF Statuses
  <2>. QED
    BY <1>4, <2>1, PopStep DEF PollIoCompletion
<1>5. CASE UNCHANGED vars
  BY <1>5 DEF vars, HostedInv, StateTyped
<1>. QED
  BY <1>1, <1>2, <1>3, <1>4, <1>5 DEF Next

-----------------------------------------------------------------------------
(* The theorems.                                                           *)

(* The inductive invariant holds in every state.                           *)
THEOREM HostedInvariant == Spec => []HostedInv
BY HostedInitially, HostedStep, PTL DEF Spec

(* Whatever batches are submitted, the device and the buffers keep their   *)
(* sizes and hold bytes only, so that no successful request reads or       *)
(* writes out of bounds, and every queued completion has an id and a       *)
(* status.                                                                 *)
THEOREM RuntimeTypeCorrect == Spec => []TypeOK
<1>1. HostedInv => TypeOK
  <2>. SUFFICES ASSUME HostedInv PROVE TypeOK
    OBVIOUS
  <2>1. /\ data \in [DOMAIN InitialData -> Nat]
        /\ memory \in [DOMAIN Buffers -> Seq(Nat)]
        /\ \A b \in DOMAIN Buffers : DOMAIN memory[b] = DOMAIN Buffers[b]
    BY DEF HostedInv, StateTyped, IoState
  <2>2. \A k \in DOMAIN completions : completions[k] \in CompletionType
    BY DEF HostedInv
  <2>3. \A k \in DOMAIN completions :
          completions[k].id \in Nat \ {0} /\ completions[k].status \in Statuses
    BY <2>2 DEF CompletionType
  <2>. QED
    BY <2>1, <2>3 DEF HostedInv, TypeOK
<1>. QED
  BY <1>1, HostedInvariant, PTL

(* The completion queue stays within max_outstanding_io, so that the       *)
(* unsigned subtraction of SubmitIoBatch never wraps around.               *)
THEOREM QueueStaysBounded == Spec => []QueueBounded
<1>1. HostedInv => QueueBounded
  BY DEF HostedInv, QueueBounded
<1>. QED
  BY <1>1, HostedInvariant, PTL

(* What AssignedIdsGrow says of a step.                                    *)
IdsGrow ==
  /\ next_io_request_id <= next_io_request_id'
  /\ \A k \in result'.assigned :
       /\ result'.accepted[k].id \in next_io_request_id .. next_io_request_id' - 1
       /\ \A j \in result'.assigned :
            j < k => result'.accepted[j].id < result'.accepted[k].id

(* An accepted batch takes its ids from the counter, in order.             *)
LEMMA AcceptGrows ==
  ASSUME HostedInv, NEW requests \in Batches, NEW call, NEW status,
         AcceptBatch(call, status, requests)
  PROVE  IdsGrow
<1>1. Typed(requests) /\ next_io_request_id \in Nat
  BY CallersAssumption DEF HostedInv
<1>2. /\ next_io_request_id' = next_io_request_id + Cardinality(Unnumbered(requests))
      /\ result'.accepted = NewCompletions(requests)
      /\ result'.assigned = Unnumbered(requests)
  BY DEF AcceptBatch
<1>3. Cardinality(Unnumbered(requests)) \in Nat
  BY <1>1, UnnumberedFinite
<1>4. \A k \in Unnumbered(requests) :
        NewCompletions(requests)[k].id = AssignedId(requests, k)
  BY DEF NewCompletions, Unnumbered, Completion, RequestId
<1>5. next_io_request_id <= next_io_request_id'
  BY <1>1, <1>2, <1>3
<1>6. ASSUME NEW k \in Unnumbered(requests)
      PROVE  /\ AssignedId(requests, k) \in next_io_request_id .. next_io_request_id' - 1
             /\ \A j \in Unnumbered(requests) :
                  j < k => AssignedId(requests, j) < AssignedId(requests, k)
  <2>1. /\ AssignedId(requests, k) \in
             next_io_request_id ..
               next_io_request_id + Cardinality(Unnumbered(requests)) - 1
        /\ \A j \in Unnumbered(requests) :
             j < k => AssignedId(requests, j) < AssignedId(requests, k)
    BY <1>1, AssignedInRange
  <2>2. next_io_request_id' - 1 =
          next_io_request_id + Cardinality(Unnumbered(requests)) - 1
    BY <1>1, <1>2, <1>3
  <2>. QED
    BY <2>1, <2>2, Zenon
<1>. QED
  BY <1>2, <1>4, <1>5, <1>6 DEF IdsGrow

(* The ids the runtime assigns grow from submission to submission and      *)
(* within a batch: it never hands out one id twice.                        *)
THEOREM AssignedIdsKeepGrowing == Spec => AssignedIdsGrow
<1>1. HostedInv /\ [Next]_vars => [IdsGrow]_vars
  <2>. SUFFICES ASSUME HostedInv, Next PROVE IdsGrow
    OBVIOUS
  <2>1. ASSUME next_io_request_id' = next_io_request_id, result'.assigned = {}
        PROVE  IdsGrow
    BY <2>1 DEF HostedInv, IdsGrow
  <2>2. ASSUME NEW requests \in Batches, SubmitIoBatch(requests) PROVE IdsGrow
    <3>1. CASE RefuseBatch("SubmitIoBatch", requests)
      BY <3>1, <2>1, RefuseStep DEF RefuseBatch
    <3>. QED
      BY <2>2, <3>1, AcceptGrows DEF SubmitIoBatch
  <2>3. ASSUME NEW requests \in Batches, Len(requests) = 1, SubmitIo(requests[1])
        PROVE  IdsGrow
    <3>1. <<requests[1]>> = requests
      BY <2>3, BatchOfOne
    <3>2. CASE RefuseBatch("SubmitIo", requests)
      BY <3>2, <2>1, RefuseStep DEF RefuseBatch
    <3>. QED
      BY <2>3, <3>1, <3>2, AcceptGrows DEF SubmitIo
  <2>4. ASSUME NEW size \in PollSizes, PollIoCompletions(size) PROVE IdsGrow
    BY <2>4, <2>1 DEF PollIoCompletions, Pop, Failed, NoResult
  <2>5. CASE PollIoCompletion
    BY <2>5, <2>1 DEF PollIoCompletion, Pop, NoResult
  <2>. QED
    BY <2>2, <2>3, <2>4, <2>5 DEF Next
<1>. QED
  BY <1>1, HostedInvariant, PTL DEF Spec, AssignedIdsGrow, IdsGrow

-----------------------------------------------------------------------------
(* Bags of completions.                                                    *)

(* Where an element stands in a sequence, and how often each one does.     *)
Positions(q, c) == {k \in DOMAIN q : q[k] = c}

CountOf(q) == [c \in {q[k] : k \in DOMAIN q} |-> Cardinality(Positions(q, c))]

(* IoContract counts as this module does.                                  *)
LEMMA ContractCounts ==
  /\ \A S : Contract!Cardinality(S) = Cardinality(S)
  /\ \A q : Contract!ToBag(q) = CountOf(q)
<1>1. \A S : Contract!Cardinality(S) = Cardinality(S)
  BY DEF Contract!Cardinality, Cardinality
<1>2. ASSUME NEW q PROVE Contract!ToBag(q) = CountOf(q)
  BY <1>1 DEF Contract!ToBag, Contract!Range, CountOf, Positions
<1>. QED
  BY <1>1, <1>2

(* The elements of a sequence occur a positive number of times.            *)
LEMMA CountTyped ==
  ASSUME NEW S, NEW q \in Seq(S), NEW c
  PROVE  /\ IsFiniteSet(Positions(q, c))
         /\ Cardinality(Positions(q, c)) \in Nat
         /\ c \in DOMAIN CountOf(q) <=> Cardinality(Positions(q, c)) # 0
<1>1. Len(q) \in Nat /\ DOMAIN q = 1 .. Len(q)
  BY LenProperties
<1>2. IsFiniteSet(1 .. Len(q))
  BY <1>1, FS_Interval
<1>3. IsFiniteSet(Positions(q, c))
  BY <1>1, <1>2, FS_Subset DEF Positions
<1>4. Cardinality(Positions(q, c)) = 0 <=> Positions(q, c) = {}
  BY <1>3, FS_EmptySet
<1>5. c \in DOMAIN CountOf(q) <=> Positions(q, c) # {}
  BY DEF CountOf, Positions
<1>. QED
  BY <1>3, <1>4, <1>5, FS_CardinalityType

(* Appending adds up the counts.                                           *)
LEMMA CountConcat ==
  ASSUME NEW S, NEW q \in Seq(S), NEW r \in Seq(S), NEW c
  PROVE  Cardinality(Positions(q \o r, c)) =
           Cardinality(Positions(q, c)) + Cardinality(Positions(r, c))
<1>. DEFINE n == Len(q)
            t == q \o r
            new == {n + k : k \in Positions(r, c)}
<1>1. /\ n \in Nat /\ DOMAIN q = 1 .. n
      /\ Len(r) \in Nat /\ DOMAIN r = 1 .. Len(r)
      /\ DOMAIN t = 1 .. n + Len(r)
      /\ \A i \in 1 .. n + Len(r) : t[i] = IF i <= n THEN q[i] ELSE r[i - n]
  BY LenProperties, ConcatProperties
<1>. HIDE DEF n, t
<1>2. Positions(t, c) = Positions(q, c) \cup new
  <2>1. ASSUME NEW i \in Positions(t, c) PROVE i \in Positions(q, c) \cup new
    <3>1. CASE i <= n
      BY <1>1, <2>1, <3>1 DEF Positions
    <3>2. CASE ~(i <= n)
      <4>1. i - n \in Positions(r, c) /\ i = n + (i - n)
        BY <1>1, <2>1, <3>2 DEF Positions
      <4>. QED
        BY <4>1
    <3>. QED
      BY <3>1, <3>2
  <2>2. ASSUME NEW i \in Positions(q, c) PROVE i \in Positions(t, c)
    BY <1>1, <2>2 DEF Positions
  <2>3. ASSUME NEW k \in Positions(r, c) PROVE n + k \in Positions(t, c)
    BY <1>1, <2>3 DEF Positions
  <2>. QED
    BY <2>1, <2>2, <2>3
<1>3. Positions(q, c) \cap new = {}
  BY <1>1 DEF Positions
<1>4. IsFiniteSet(new) /\ Cardinality(new) = Cardinality(Positions(r, c))
  <2>. DEFINE f == [k \in Positions(r, c) |-> n + k]
  <2>1. f \in Bijection(Positions(r, c), new)
    BY <1>1 DEF Bijection, Injection, IsInjective, Surjection, Positions
  <2>. QED
    BY <2>1, CountTyped, FS_Bijection DEF ExistsBijection
<1>. HIDE DEF new
<1>5. /\ IsFiniteSet(Positions(q, c)) /\ Cardinality(Positions(q, c)) \in Nat
      /\ Cardinality(Positions(r, c)) \in Nat
  BY CountTyped
<1>6. Cardinality(Positions(q, c) \cup new) =
        Cardinality(Positions(q, c)) + Cardinality(new)
             - Cardinality(Positions(q, c) \cap new)
  BY <1>4, <1>5, FS_Union
<1>7. Cardinality(Positions(t, c)) =
        Cardinality(Positions(q, c)) + Cardinality(Positions(r, c)) - 0
  BY <1>2, <1>3, <1>4, <1>6, FS_EmptySet
<1>. QED
  BY <1>5, <1>7 DEF t

(* ... and so does the bag of a sequence.                                  *)
LEMMA BagConcat ==
  ASSUME NEW S, NEW q \in Seq(S), NEW r \in Seq(S)
  PROVE  CountOf(q \o r) = Contract!(+)(CountOf(q), CountOf(r))
<1>. DEFINE N(s, c) == Cardinality(Positions(s, c))
<1>1. q \o r \in Seq(S)
  BY ConcatProperties
<1>2. ASSUME NEW c
      PROVE  /\ N(q, c) \in Nat /\ N(r, c) \in Nat /\ N(q \o r, c) = N(q, c) + N(r, c)
             /\ c \in DOMAIN CountOf(q) <=> N(q, c) # 0
             /\ c \in DOMAIN CountOf(r) <=> N(r, c) # 0
             /\ c \in DOMAIN CountOf(q \o r) <=> N(q \o r, c) # 0
  BY <1>1, CountTyped, CountConcat
<1>3. ASSUME NEW s, NEW c \in DOMAIN CountOf(s) PROVE CountOf(s)[c] = N(s, c)
  BY DEF CountOf
<1>4. ASSUME NEW s PROVE CountOf(s) = [c \in DOMAIN CountOf(s) |-> N(s, c)]
  BY DEF CountOf
<1>. HIDE DEF N
<1>5. DOMAIN CountOf(q \o r) = DOMAIN CountOf(q) \cup DOMAIN CountOf(r)
  <2>1. \A c : c \in DOMAIN CountOf(q \o r) <=>
                 c \in DOMAIN CountOf(q) \/ c \in DOMAIN CountOf(r)
    BY <1>2
  <2>. QED
    BY <2>1
<1>6. \A c \in DOMAIN CountOf(q \o r) :
        N(q \o r, c) = (IF c \in DOMAIN CountOf(q) THEN CountOf(q)[c] ELSE 0)
                         + (IF c \in DOMAIN CountOf(r) THEN CountOf(r)[c] ELSE 0)
  BY <1>2, <1>3
<1>. QED
  BY <1>4, <1>5, <1>6 DEF Contract!(+)

(* What a prefix leaves of the bag of a sequence.                          *)
LEMMA BagSplit ==
  ASSUME NEW S, NEW q \in Seq(S), NEW r \in Seq(S)
  PROVE  /\ Contract!\sqsubseteq(CountOf(q), CountOf(q \o r))
         /\ CountOf(r) = Contract!(-)(CountOf(q \o r), CountOf(q))
<1>. DEFINE N(s, c) == Cardinality(Positions(s, c))
            all == CountOf(q \o r)
            rest == [c \in DOMAIN all |->
                       IF c \in DOMAIN CountOf(q) THEN all[c] - CountOf(q)[c] ELSE all[c]]
<1>1. q \o r \in Seq(S)
  BY ConcatProperties
<1>2. ASSUME NEW c
      PROVE  /\ N(q, c) \in Nat /\ N(r, c) \in Nat /\ N(q \o r, c) = N(q, c) + N(r, c)
             /\ c \in DOMAIN CountOf(q) <=> N(q, c) # 0
             /\ c \in DOMAIN CountOf(r) <=> N(r, c) # 0
             /\ c \in DOMAIN all <=> N(q \o r, c) # 0
  BY <1>1, CountTyped, CountConcat
<1>3. /\ \A c \in DOMAIN CountOf(q) : CountOf(q)[c] = N(q, c)
      /\ \A c \in DOMAIN all : all[c] = N(q \o r, c)
      /\ CountOf(r) = [c \in DOMAIN CountOf(r) |-> N(r, c)]
  BY DEF CountOf
<1>. HIDE DEF N, all
<1>4. Contract!\sqsubseteq(CountOf(q), all)
  BY <1>2, <1>3 DEF Contract!\sqsubseteq
<1>5. \A c \in DOMAIN all : rest[c] = N(r, c)
  BY <1>2, <1>3
<1>6. DOMAIN CountOf(r) = {c \in DOMAIN all : rest[c] > 0}
  <2>1. \A c : c \in DOMAIN CountOf(r) <=> c \in DOMAIN all /\ rest[c] > 0
    BY <1>2, <1>5
  <2>. QED
    BY <2>1
<1>7. Contract!(-)(all, CountOf(q)) =
        [c \in {d \in DOMAIN all : rest[d] > 0} |-> rest[c]]
  BY DEF Contract!(-)
<1>. HIDE DEF rest
<1>8. CountOf(r) = Contract!(-)(all, CountOf(q))
  BY <1>3, <1>5, <1>6, <1>7
<1>. QED
  BY <1>4, <1>8 DEF all

(* What a bijection is.                                                    *)
LEMMA BijectionFacts ==
  ASSUME NEW A, NEW B, NEW f \in Bijection(A, B)
  PROVE  /\ \A i \in A : f[i] \in B
         /\ \A i, j \in A : f[i] = f[j] => i = j
         /\ \A k \in B : \E i \in A : f[i] = k
BY DEF Bijection, Injection, IsInjective, Surjection

(* The size of the bag of a sequence is the length of the sequence.        *)
LEMMA BagSize ==
  ASSUME NEW S, NEW q \in Seq(S)
  PROVE  Contract!Owed(CountOf(q)) = Len(q)
<1>. DEFINE bag == CountOf(q)
            copies == UNION {{c} \X (1 .. bag[c]) : c \in DOMAIN bag}
            g == [c \in DOMAIN bag |->
                    CHOOSE f : f \in Bijection(1 .. bag[c], Positions(q, c))]
            h == [x \in copies |-> g[x[1]][x[2]]]
<1>1. Len(q) \in Nat /\ DOMAIN q = 1 .. Len(q)
  BY LenProperties
<1>2. ASSUME NEW c \in DOMAIN bag
      PROVE  g[c] \in Bijection(1 .. bag[c], Positions(q, c))
  <2>1. bag[c] = Cardinality(Positions(q, c))
    BY DEF CountOf
  <2>2. Bijection(1 .. bag[c], Positions(q, c)) # {}
    BY <2>1, CountTyped, FS_CardinalityType DEF ExistsBijection
  <2>. QED
    BY <2>2
<1>3. DOMAIN bag = {q[k] : k \in DOMAIN q}
  BY DEF CountOf
<1>4. \A x : x \in copies <=> \E c \in DOMAIN bag : \E i \in 1 .. bag[c] : x = <<c, i>>
  OBVIOUS
<1>. HIDE DEF bag, g, copies
<1>5. ASSUME NEW c \in DOMAIN bag
      PROVE  /\ \A i \in 1 .. bag[c] : g[c][i] \in DOMAIN q /\ q[g[c][i]] = c
             /\ \A i, j \in 1 .. bag[c] : g[c][i] = g[c][j] => i = j
             /\ \A k \in DOMAIN q : q[k] = c => \E i \in 1 .. bag[c] : g[c][i] = k
  <2>1. /\ \A i \in 1 .. bag[c] : g[c][i] \in Positions(q, c)
        /\ \A i, j \in 1 .. bag[c] : g[c][i] = g[c][j] => i = j
        /\ \A k \in Positions(q, c) : \E i \in 1 .. bag[c] : g[c][i] = k
    <3>. DEFINE A == 1 .. bag[c]
                f == g[c]
    <3>1. f \in Bijection(A, Positions(q, c))
      BY <1>2
    <3>. HIDE DEF A, f
    <3>2. /\ \A i \in A : f[i] \in Positions(q, c)
          /\ \A i, j \in A : f[i] = f[j] => i = j
          /\ \A k \in Positions(q, c) : \E i \in A : f[i] = k
      BY <3>1, BijectionFacts
    <3>. QED
      BY <3>2 DEF A, f
  <2>. QED
    BY <2>1 DEF Positions
<1>6. ASSUME NEW x \in copies
      PROVE  /\ x[1] \in DOMAIN bag /\ x[2] \in 1 .. bag[x[1]] /\ x = <<x[1], x[2]>>
             /\ h[x] \in DOMAIN q /\ q[h[x]] = x[1]
  <2>1. PICK c \in DOMAIN bag : \E i \in 1 .. bag[c] : x = <<c, i>>
    BY <1>4
  <2>. QED
    BY <1>5, <2>1
<1>7. h \in Bijection(copies, DOMAIN q)
  <2>1. h \in [copies -> DOMAIN q]
    BY <1>6
  <2>2. ASSUME NEW x \in copies, NEW y \in copies, h[x] = h[y] PROVE x = y
    <3>1. x[1] = y[1]
      BY <1>6, <2>2
    <3>2. x[2] = y[2]
      <4>1. h[x] = g[x[1]][x[2]] /\ h[y] = g[x[1]][y[2]]
        BY <3>1
      <4>2. x[1] \in DOMAIN bag /\ x[2] \in 1 .. bag[x[1]] /\ y[2] \in 1 .. bag[x[1]]
        BY <1>6, <3>1
      <4>. HIDE DEF h
      <4>3. g[x[1]][x[2]] = g[x[1]][y[2]]
        BY <2>2, <4>1
      <4>. QED
        BY <1>5, <4>2, <4>3
    <3>. QED
      BY <1>6, <3>1, <3>2
  <2>3. ASSUME NEW k \in DOMAIN q PROVE \E x \in copies : h[x] = k
    <3>1. q[k] \in DOMAIN bag
      BY <1>3
    <3>2. PICK i \in 1 .. bag[q[k]] : g[q[k]][i] = k
      BY <1>5, <3>1
    <3>3. <<q[k], i>> \in copies
      BY <1>4, <3>1
    <3>. QED
      BY <3>2, <3>3
  <2>. HIDE DEF h
  <2>. QED
    BY <2>1, <2>2, <2>3 DEF Bijection, Injection, IsInjective, Surjection
<1>. HIDE DEF h
<1>8. Cardinality(copies) = Len(q)
  <2>1. IsFiniteSet(1 .. Len(q)) /\ Cardinality(1 .. Len(q)) = Len(q)
    BY <1>1, FS_Interval
  <2>2. ExistsBijection(copies, 1 .. Len(q))
    BY <1>1, <1>7 DEF ExistsBijection
  <2>3. IsFiniteSet(copies)
    BY <1>1, <1>7, <2>1, FS_Injection DEF Bijection
  <2>. QED
    BY <2>1, <2>2, <2>3, FS_Bijection
<1>. QED
  BY <1>8, ContractCounts DEF Contract!Owed, copies, bag

-----------------------------------------------------------------------------
(* The contract.                                                           *)

(* A completion answers its request.                                       *)
LEMMA CompletionMatches ==
  ASSUME NEW requests, Typed(requests), next_io_request_id \in Nat \ {0},
         NEW k \in DOMAIN requests,
         requests[k].operation \in {"Read", "Write", "Flush"}
  PROVE  Contract!Matches(requests[k], NewCompletions(requests)[k])
<1>. DEFINE r == requests[k]
            id == RequestId(requests, k)
<1>1. NewCompletions(requests)[k] = Completion(r, id)
  BY DEF NewCompletions
<1>2. id # 0 /\ (r.id # 0 => id = r.id)
  BY RequestIdTyped DEF RequestId
<1>3. Contract!RequestLength(r) = effective_request_length(r)
  BY DEF Contract!RequestLength, effective_request_length
<1>4. Contract!Transfers(r) <=> r.operation # "Flush"
  BY DEF Contract!Transfers
<1>. HIDE DEF r, id
<1>5. Contract!Matches(r, Completion(r, id))
  BY <1>2, <1>3, <1>4 DEF Contract!Matches, Completion
<1>. QED
  BY <1>1, <1>5 DEF r

(* What the checks before the first request leave.                         *)
LEMMA AcceptedRequests ==
  ASSUME NEW requests, Typed(requests), SubmissionStatus(requests) = "Ok"
  PROVE  /\ Len(requests) \in 1 .. kHostedMaxIoBatchSize
         /\ \A k \in DOMAIN requests :
              requests[k].operation \in {"Read", "Write", "Flush"}
<1>1. /\ requests # << >> /\ ~(Len(requests) > kHostedMaxIoBatchSize)
      /\ \A k \in DOMAIN requests : ~UnknownRequest(requests[k])
  BY DEF SubmissionStatus
<1>2. Len(requests) # 0
  <2>1. PICK U : requests \in Seq(IoRequest(U))
    BY BatchTyped
  <2>. QED
    BY <1>1, <2>1, EmptySeq
<1>. QED
  BY <1>1, <1>2, BatchTyped, LimitsAssumption DEF UnknownRequest

(* An accepted batch: every request is matched by a completion, which is   *)
(* added to the completions owed.                                          *)
LEMMA AcceptKeepsContract ==
  ASSUME HostedInv, NEW requests, FromCallers(requests), NEW call,
         AcceptBatch(call, "Ok", requests)
  PROVE  /\ Contract!Accept(requests)
         /\ result'.call = call
         /\ result'.submitted_count = Len(requests)
         /\ result'.first_request_id = result'.accepted[1].id
<1>. DEFINE new == NewCompletions(requests)
<1>1. /\ SubmissionStatus(requests) = "Ok"
      /\ data' = Performed(requests).data /\ memory' = Performed(requests).memory
      /\ completions' = completions \o new
      /\ result'.call = call /\ result'.status = "Ok"
      /\ result'.submitted_count = Len(requests)
      /\ result'.first_request_id = RequestId(requests, 1)
      /\ result'.accepted = new
  BY DEF AcceptBatch
<1>2. Typed(requests)
  BY DEF FromCallers
<1>3. /\ Len(requests) \in 1 .. kHostedMaxIoBatchSize
      /\ \A k \in DOMAIN requests : requests[k].operation \in {"Read", "Write", "Flush"}
  BY <1>1, <1>2, AcceptedRequests
<1>4. DOMAIN new = DOMAIN requests
  BY DEF NewCompletions
<1>5. new[1].id = RequestId(requests, 1)
  <2>1. 1 \in DOMAIN requests
    BY <1>2, <1>3, BatchTyped
  <2>. QED
    BY <2>1 DEF NewCompletions, Completion
<1>6. \A k \in DOMAIN requests : Contract!Matches(requests[k], new[k])
  BY <1>2, <1>3, CompletionMatches DEF HostedInv
<1>7. \A k \in DOMAIN requests : new[k].status = CompletionStatus(requests[k])
  BY DEF NewCompletions, Completion
<1>8. new \in Seq(CompletionType) /\ completions \in Seq(CompletionType)
  BY CompletionsTyped DEF HostedInv
<1>9. HostedInv'
  <2>1. "Ok" \in Statuses
    BY DEF Statuses
  <2>. QED
    BY <2>1, AcceptStep
<1>. HIDE DEF new
<1>10. Contract!BatchEffect(requests, new)
  BY <1>1, <1>2, <1>3, <1>7, BatchKeepsContract DEF HostedInv
<1>11. CountOf(completions') = Contract!(+)(CountOf(completions), CountOf(new))
  BY <1>1, <1>8, BagConcat
<1>12. Contract!Owed(CountOf(completions')) <= kHostedMaxOutstandingIo
  <2>1. /\ completions' \in Seq(CompletionType)
        /\ Len(completions') <= kHostedMaxOutstandingIo
    BY <1>9 DEF HostedInv
  <2>2. Contract!Owed(CountOf(completions')) = Len(completions')
    BY <2>1, BagSize
  <2>. QED
    BY <2>1, <2>2
<1>13. Contract!ToBag(new) = CountOf(new)
  BY ContractCounts
<1>14. Contract!Accept(requests)
  BY <1>1, <1>3, <1>4, <1>6, <1>10, <1>11, <1>12, <1>13
     DEF Contract!Accept, CountOf, Positions
<1>. QED
  BY <1>1, <1>5, <1>14

(* A refused batch, and the other calls that change nothing.               *)
LEMMA RefuseKeepsContract ==
  ASSUME result'.status \in {"InvalidArgument", "IoError"},
         UNCHANGED <<data, memory, completions>>
  PROVE  Contract!Refuse
BY DEF Contract!Refuse

LEMMA RefusedStatus ==
  ASSUME NEW requests, NEW call, RefuseBatch(call, requests)
  PROVE  Contract!Refuse /\ result'.call = call
<1>1. SubmissionStatus(requests) \in {"InvalidArgument", "IoError"}
  BY DEF RefuseBatch, SubmissionStatus
<1>2. result' = Failed(call, SubmissionStatus(requests))
  BY DEF RefuseBatch
<1>3. result'.status = SubmissionStatus(requests) /\ result'.call = call
  BY <1>2 DEF Failed, NoResult
<1>. QED
  BY <1>1, <1>3, RefuseKeepsContract DEF RefuseBatch

(* The queue is what a poll takes, followed by what it leaves.             *)
LEMMA QueueSplit ==
  ASSUME NEW C, completions \in Seq(C), NEW size \in Nat
  PROVE  LET rest == SubSeq(completions, Len(Popped(size)) + 1, Len(completions))
         IN /\ Popped(size) \in Seq(C) /\ rest \in Seq(C)
            /\ completions = Popped(size) \o rest
            /\ Len(Popped(size)) = IF Len(completions) < size THEN Len(completions) ELSE size
<1>. DEFINE n == IF Len(completions) < size THEN Len(completions) ELSE size
            front == SubSeq(completions, 1, n)
            rest == SubSeq(completions, n + 1, Len(completions))
<1>1. Len(completions) \in Nat /\ n \in 0 .. Len(completions)
  BY LenProperties
<1>. HIDE DEF n
<1>2. \A i \in 1 .. Len(completions) : completions[i] \in C
  BY ElementOfSeq
<1>3. /\ front \in Seq(C) /\ Len(front) = n
      /\ \A i \in 1 .. n : front[i] = completions[i]
  <2>1. /\ front \in Seq(C) /\ Len(front) = IF 1 <= n THEN n - 1 + 1 ELSE 0
        /\ \A i \in 1 .. n - 1 + 1 : front[i] = completions[1 + i - 1]
    BY <1>1, <1>2, SubSeqProperties
  <2>. HIDE DEF front
  <2>. QED
    BY <1>1, <2>1
<1>4. /\ rest \in Seq(C) /\ Len(rest) = Len(completions) - n
      /\ \A i \in 1 .. Len(completions) - n : rest[i] = completions[n + i]
  <2>1. /\ rest \in Seq(C)
        /\ Len(rest) = IF n + 1 <= Len(completions) THEN Len(completions) - (n + 1) + 1 ELSE 0
        /\ \A i \in 1 .. Len(completions) - (n + 1) + 1 :
              rest[i] = completions[(n + 1) + i - 1]
    BY <1>1, <1>2, SubSeqProperties
  <2>. HIDE DEF rest
  <2>. QED
    BY <1>1, <2>1
<1>. HIDE DEF front, rest
<1>5. completions = front \o rest
  <2>. DEFINE all == front \o rest
  <2>1. /\ all \in Seq(C) /\ Len(all) = Len(front) + Len(rest)
        /\ \A i \in 1 .. Len(front) + Len(rest) :
              all[i] = IF i <= Len(front) THEN front[i] ELSE rest[i - Len(front)]
    BY <1>3, <1>4, ConcatProperties
  <2>. HIDE DEF all
  <2>2. Len(all) = Len(completions)
    BY <1>1, <1>3, <1>4, <2>1
  <2>3. ASSUME NEW i \in 1 .. Len(completions) PROVE completions[i] = all[i]
    <3>1. CASE i <= n
      BY <1>1, <1>3, <1>4, <2>1, <3>1
    <3>2. CASE ~(i <= n)
      <4>1. i - n \in 1 .. Len(completions) - n /\ n + (i - n) = i
        BY <1>1, <3>2
      <4>2. all[i] = rest[i - n]
        BY <1>1, <1>3, <1>4, <2>1, <3>2
      <4>. QED
        BY <1>4, <4>1, <4>2
    <3>. QED
      BY <3>1, <3>2
  <2>4. completions = all
    BY <2>1, <2>2, <2>3, SeqEqual
  <2>. QED
    BY <2>4 DEF all
<1>6. Popped(size) = front
  BY DEF Popped, front, n
<1>. QED
  BY <1>3, <1>4, <1>5, <1>6 DEF rest, n

(* A poll delivers completions that are owed, as many as there is room     *)
(* for, and owes the others from then on.                                  *)
LEMMA PopKeepsContract ==
  ASSUME HostedInv, NEW call, NEW status, NEW size \in Nat, Pop(call, status, size)
  PROVE  /\ Contract!Deliver(size)
         /\ result'.call = call /\ result'.status = status
<1>. DEFINE front == Popped(size)
            rest == SubSeq(completions, Len(front) + 1, Len(completions))
<1>1. /\ completions' = rest
      /\ result'.call = call /\ result'.status = status /\ result'.delivered = front
      /\ UNCHANGED <<data, memory>>
  BY DEF Pop, NoResult
<1>2. completions \in Seq(CompletionType)
  BY DEF HostedInv
<1>3. /\ front \in Seq(CompletionType) /\ rest \in Seq(CompletionType)
      /\ completions = front \o rest
      /\ Len(front) = IF Len(completions) < size THEN Len(completions) ELSE size
  BY <1>2, QueueSplit
<1>. HIDE DEF front, rest
<1>4. /\ Contract!\sqsubseteq(CountOf(front), CountOf(completions))
      /\ CountOf(rest) = Contract!(-)(CountOf(completions), CountOf(front))
  BY <1>3, BagSplit
<1>5. Contract!Owed(CountOf(completions)) = Len(completions)
  BY <1>2, BagSize
<1>6. Contract!ToBag(front) = CountOf(front)
  BY ContractCounts
<1>7. Contract!Deliver(size) <=>
        LET n == Contract!Owed(CountOf(completions)) IN
        /\ Len(result'.delivered) = IF n < size THEN n ELSE size
        /\ Contract!\sqsubseteq(Contract!ToBag(result'.delivered), CountOf(completions))
        /\ CountOf(completions') =
             Contract!(-)(CountOf(completions), Contract!ToBag(result'.delivered))
        /\ UNCHANGED <<data, memory>>
  BY DEF Contract!Deliver, CountOf, Positions
<1>8. Contract!Deliver(size)
  BY <1>1, <1>3, <1>4, <1>5, <1>6, <1>7
<1>. QED
  BY <1>1, <1>8

(* The bag of completions owed is empty when the queue is.                 *)
LEMMA NothingOwed ==
  ASSUME NEW C, NEW q \in Seq(C)
  PROVE  CountOf(q) = Contract!EmptyBag <=> q = << >>
<1>1. DOMAIN Contract!EmptyBag = {}
  BY DEF Contract!EmptyBag, Contract!SetToBag
<1>2. DOMAIN CountOf(q) = {q[k] : k \in DOMAIN q}
  BY DEF CountOf
<1>3. Len(q) \in Nat /\ DOMAIN q = 1 .. Len(q)
  BY LenProperties
<1>4. CASE q = << >>
  <2>1. CountOf(q) = [c \in {} |-> Cardinality(Positions(q, c))]
    BY <1>4 DEF CountOf
  <2>2. Contract!EmptyBag = [e \in {} |-> 1]
    BY DEF Contract!EmptyBag, Contract!SetToBag
  <2>3. CountOf(q) = Contract!EmptyBag
    BY <2>1, <2>2
  <2>. QED
    BY <1>4, <2>3
<1>5. CASE q # << >>
  <2>1. q[1] \in DOMAIN CountOf(q)
    BY <1>2, <1>3, <1>5, EmptySeq
  <2>. QED
    BY <1>1, <1>5, <2>1
<1>. QED
  BY <1>4, <1>5

(* PollIoCompletion comes back empty-handed when nothing is owed.          *)
LEMMA PoppedNone ==
  ASSUME HostedInv
  PROVE  Popped(1) = << >> <=> CountOf(completions) = Contract!EmptyBag
<1>1. completions \in Seq(CompletionType)
  BY DEF HostedInv
<1>2. Popped(1) = << >> <=> completions = << >>
  <2>1. /\ Popped(1) \in Seq(CompletionType) /\ Len(completions) \in Nat
        /\ Len(Popped(1)) = IF Len(completions) < 1 THEN Len(completions) ELSE 1
    BY <1>1, QueueSplit, LenProperties
  <2>2. \A q \in Seq(CompletionType) : q = << >> <=> Len(q) = 0
    BY EmptySeq
  <2>3. /\ Popped(1) = << >> <=> Len(Popped(1)) = 0
        /\ completions = << >> <=> Len(completions) = 0
    BY <1>1, <2>1, <2>2, Zenon
  <2>4. Len(Popped(1)) = 0 <=> Len(completions) = 0
    BY <2>1
  <2>. QED
    BY <2>3, <2>4, Zenon
<1>. QED
  BY <1>1, <1>2, NothingOwed

(* Every call of the runtime is a call the contract allows.                *)
LEMMA StepKeepsContract == HostedInv /\ [Next]_vars => [Contract!Next]_Contract!vars
<1>. SUFFICES ASSUME HostedInv, [Next]_vars PROVE [Contract!Next]_Contract!vars
  OBVIOUS
<1>1. ASSUME NEW requests \in Batches, SubmitIoBatch(requests) PROVE Contract!Next
  <2>1. CASE AcceptBatch("SubmitIoBatch", "Ok", requests)
    <3>1. Contract!SubmitIoBatch(requests)
      BY <2>1, AcceptKeepsContract, BatchFromCallers DEF Contract!SubmitIoBatch
    <3>. QED
      BY <3>1 DEF Contract!Next
  <2>2. CASE RefuseBatch("SubmitIoBatch", requests)
    <3>1. Contract!SubmitIoBatch(requests)
      BY <2>2, RefusedStatus DEF Contract!SubmitIoBatch
    <3>. QED
      BY <3>1 DEF Contract!Next
  <2>. QED
    BY <1>1, <2>1, <2>2 DEF SubmitIoBatch
<1>2. ASSUME NEW requests \in Batches, Len(requests) = 1, SubmitIo(requests[1])
      PROVE  Contract!Next
  <2>1. <<requests[1]>> = requests
    BY <1>2, BatchOfOne
  <2>2. CheckedStatus(requests[1], RequestId(requests, 1)) = "Ok"
    <3>1. Typed(requests) /\ 1 \in DOMAIN requests
      BY <1>2, CallersAssumption, BatchTyped
    <3>2. RequestId(requests, 1) # 0
      BY <3>1, RequestIdTyped DEF HostedInv
    <3>. QED
      BY <3>2 DEF CheckedStatus, RequestId
  <2>3. Contract!SubmitIo(requests[1])
    <3>1. CASE AcceptBatch("SubmitIo", "Ok", requests)
      BY <2>1, <3>1, AcceptKeepsContract, BatchFromCallers DEF Contract!SubmitIo
    <3>2. CASE RefuseBatch("SubmitIo", requests)
      BY <3>2, RefusedStatus DEF Contract!SubmitIo
    <3>. QED
      BY <1>2, <2>1, <2>2, <3>1, <3>2 DEF SubmitIo
  <2>. QED
    BY <1>2, <2>3 DEF Contract!Next
<1>3. ASSUME NEW size \in PollSizes, PollIoCompletions(size) PROVE Contract!Next
  <2>1. size \in Nat
    BY LimitsAssumption
  <2>2. CASE size > 0 /\ Pop("PollIoCompletions", "Ok", size)
    <3>1. Contract!PollIoCompletions(size)
      BY <2>1, <2>2, PopKeepsContract DEF Contract!PollIoCompletions
    <3>. QED
      BY <3>1 DEF Contract!Next
  <2>3. CASE /\ size = 0
             /\ result' = Failed("PollIoCompletions", "InvalidArgument")
             /\ UNCHANGED <<block_device, data, memory, next_io_request_id, completions>>
    <3>1. result'.call = "PollIoCompletions" /\ result'.status = "InvalidArgument"
      BY <2>3 DEF Failed, NoResult
    <3>2. Contract!Refuse
      BY <2>3, <3>1, RefuseKeepsContract
    <3>3. Contract!PollIoCompletions(size)
      BY <2>3, <3>1, <3>2 DEF Contract!PollIoCompletions
    <3>. QED
      BY <3>3 DEF Contract!Next
  <2>. QED
    BY <1>3, <2>2, <2>3 DEF PollIoCompletions
<1>4. CASE PollIoCompletion
  <2>. DEFINE status == IF Popped(1) = << >> THEN "NotFound" ELSE "Ok"
  <2>1. /\ Contract!Deliver(1)
        /\ result'.call = "PollIoCompletion" /\ result'.status = status
    BY <1>4, PopKeepsContract DEF PollIoCompletion
  <2>2. Popped(1) = << >> <=> CountOf(completions) = Contract!EmptyBag
    BY PoppedNone
  <2>3. Contract!PollIoCompletion
    BY <2>1, <2>2 DEF Contract!PollIoCompletion, CountOf, Positions
  <2>. QED
    BY <2>3 DEF Contract!Next
<1>5. CASE UNCHANGED vars
  BY <1>5 DEF vars, Contract!vars
<1>. QED
  BY <1>1, <1>2, <1>3, <1>4, <1>5 DEF Next

(* The hosted runtime keeps the contract of block I/O: it accepts all of a *)
(* batch or nothing of it, completes every accepted request exactly once   *)
(* with its own id and user_data, never owes more than max_outstanding_io  *)
(* completions, and leaves on the device and in the buffers what the       *)
(* successful requests of a batch, in their order, make of them.           *)
THEOREM ImplementsContract == Spec => ContractSpec
<1>1. Init => Contract!Init
  <2>. SUFFICES ASSUME Init PROVE Contract!Init
    OBVIOUS
  <2>1. completions = << >> /\ result.call = "None"
    BY DEF Init, NoResult
  <2>2. CountOf(completions) = Contract!EmptyBag
    <3>1. << >> \in Seq(Nat)
      OBVIOUS
    <3>. QED
      BY <2>1, <3>1, NothingOwed
  <2>. QED
    BY <2>1, <2>2 DEF Contract!Init, CountOf, Positions
<1>. QED
  BY <1>1, StepKeepsContract, HostedInvariant, PTL DEF Spec, ContractSpec, Contract!Spec

=============================================================================
