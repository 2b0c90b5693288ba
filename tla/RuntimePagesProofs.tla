------------------------- MODULE RuntimePagesProofs -------------------------
(***************************************************************************)
(* Theorems about RuntimePages for every set of runtimes, on either side   *)
(* of the C ABI, of handles, of blocks and of requests.                    *)
(***************************************************************************)
EXTENDS RuntimePages, FiniteSetTheorems, TLAPS

(* An allocation that both sides of the ABI accept and leave as it is.     *)
Intact(allocation) ==
  /\ ValidMetadata(allocation)
  /\ CrossAbi(allocation) = allocation

LiveBlocks ==
  /\ live = [b \in DOMAIN live |-> live[b]]
  /\ DOMAIN live \subseteq Blocks
  /\ \A b \in DOMAIN live : live[b].runtime \in Runtimes

(* A handle owns nothing, or an intact allocation it may free.             *)
HandlesOwn ==
  /\ handles = [h \in Handles |-> handles[h]]
  /\ \A h \in Handles :
       \/ handles[h].allocation = NoAllocation
       \/ /\ handles[h].alive
          /\ Intact(handles[h].allocation)
          /\ MayFree(handles[h].runtime, handles[h].allocation)

(* What a caller holds is intact and may be freed with the runtime it came *)
(* from.                                                                   *)
CallersOwn ==
  \A allocation \in raw :
    /\ Intact(allocation)
    /\ MayFree(live[allocation.data].runtime, allocation)

(* No two owners own one block.                                            *)
Exclusive ==
  /\ \A g, h \in Handles :
       handles[g].allocation.data # null
         /\ handles[g].allocation.data = handles[h].allocation.data => g = h
  /\ \A h \in Handles, allocation \in raw :
       handles[h].allocation.data # allocation.data
  /\ \A m, n \in raw : m.data = n.data => m = n

(* Every live block has an owner.                                          *)
NothingLeaks ==
  \A b \in DOMAIN live :
    \/ \E h \in Handles : handles[h].allocation.data = b
    \/ \E allocation \in raw : allocation.data = b

(* The inductive invariant.                                                *)
PagesInv ==
  /\ LiveBlocks /\ HandlesOwn /\ CallersOwn /\ Exclusive /\ NothingLeaks
  /\ released = TRUE

-----------------------------------------------------------------------------
(* Allocations and the ABI.                                                *)

(* RuntimePageAllocation{} has no data.                                    *)
LEMMA NoAllocationData == NoAllocation.data = null
BY DEF NoAllocation

(* An intact allocation has data.                                          *)
LEMMA IntactData ==
  ASSUME NEW a, Intact(a)
  PROVE  a.data # null /\ a # NoAllocation
BY NoAllocationData DEF Intact, ValidMetadata

(* The flags AllocatePages accepts survive their translation to bits and   *)
(* back.                                                                   *)
LEMMA FlagsSurvive ==
  ASSUME NEW flags, flags \subseteq {"Zeroed", "Dma"}
  PROVE  {f \in DOMAIN MemoryFlagBit :
            MemoryFlagBit[f] \in {MemoryFlagBit[g] : g \in flags}} = flags
<1>1. /\ DOMAIN MemoryFlagBit = {"Zeroed", "Dma"}
      /\ \A f, g \in {"Zeroed", "Dma"} : MemoryFlagBit[f] = MemoryFlagBit[g] => f = g
  BY DEF MemoryFlagBit
<1>. QED
  BY <1>1

(* The alignment of an accepted request is a power of two.                 *)
LEMMA AlignmentValid ==
  ASSUME NEW request, AllocateStatus(request) = "Ok"
  PROVE  is_power_of_two(Alignment(request))
<1>. DEFINE P(n) == is_power_of_two(n)
<1>1. P(kDefaultPageSize) /\ P(MaxAlign)
  BY AlignmentAssumption
<1>2. request.alignment = 0 \/ P(request.alignment)
  BY DEF AllocateStatus
<1>. HIDE DEF P
<1>3. P(Alignment(request))
  BY <1>1, <1>2 DEF Alignment
<1>. QED
  BY <1>3 DEF P

(* What the hosted runtime allocates is intact, so that it reaches the     *)
(* caller, behind the ABI too.                                             *)
LEMMA AllocationIntact ==
  ASSUME NEW runtime, NEW block \in Blocks, NEW request,
         AllocateStatus(request) = "Ok"
  PROVE  /\ Intact(HostedAllocation(block, request))
         /\ Returned(runtime, HostedAllocation(block, request)) =
              HostedAllocation(block, request)
<1>. DEFINE a == HostedAllocation(block, request)
<1>1. is_power_of_two(Alignment(request))
  BY AlignmentValid
<1>2. request.page_count # 0 /\ request.flags \subseteq {"Zeroed", "Dma"}
  BY DEF AllocateStatus
<1>3. ValidMetadata(a)
  BY <1>1, <1>2, PagesAssumption DEF ValidMetadata, HostedAllocation, MemoryFlagBit
<1>4. CrossAbi(a) = a
  <2>1. to_abi_page_allocation(a) =
          [data |-> block, page_count |-> request.page_count,
           page_size |-> kDefaultPageSize, alignment |-> Alignment(request),
           flags |-> {MemoryFlagBit[f] : f \in request.flags}]
    BY DEF to_abi_page_allocation, HostedAllocation
  <2>2. CrossAbi(a) =
          [data |-> block, page_count |-> request.page_count,
           page_size |-> kDefaultPageSize, alignment |-> Alignment(request),
           flags |-> {f \in DOMAIN MemoryFlagBit :
                       MemoryFlagBit[f] \in {MemoryFlagBit[g] : g \in request.flags}}]
    BY <2>1, SMTT(30) DEF CrossAbi, from_abi_page_allocation
  <2>. QED
    BY <1>2, <2>2, FlagsSurvive DEF HostedAllocation
<1>5. Intact(a)
  BY <1>3, <1>4 DEF Intact
<1>. QED
  BY <1>3, <1>4, <1>5 DEF Returned

-----------------------------------------------------------------------------
(* Freeing.                                                                *)

Without(block) == [b \in DOMAIN live \ {block} |-> live[b]]

(* FreePages frees an intact allocation through the runtime it came from,  *)
(* behind the ABI too.                                                     *)
LEMMA FreesIntact ==
  ASSUME NEW runtime, NEW a, Intact(a), MayFree(runtime, a), released = TRUE,
         FreePages(runtime, a)
  PROVE  live' = Without(a.data) /\ released' = TRUE
<1>1. Passed(runtime, a) = a
  BY DEF Passed, Intact
<1>2. HostedFreeStatus(a) = "Ok"
  BY DEF HostedFreeStatus, Intact, ValidMetadata
<1>3. FreeStatus(runtime, a) = "Ok"
  BY <1>1, <1>2 DEF FreeStatus, Intact
<1>. QED
  BY <1>1, <1>3 DEF FreePages, Without

(* FreePages refuses an allocation without data.                           *)
LEMMA FreesNothing ==
  ASSUME NEW runtime, FreePages(runtime, NoAllocation)
  PROVE  UNCHANGED <<live, released>>
<1>1. Passed(runtime, NoAllocation).data = null
  BY DEF Passed, CrossAbi, from_abi_page_allocation, to_abi_page_allocation,
         NoAllocation
<1>2. FreeStatus(runtime, NoAllocation) = "InvalidArgument"
  BY <1>1 DEF FreeStatus, HostedFreeStatus
<1>. QED
  BY <1>2 DEF FreePages

(* Reset of a handle frees what it owns, and nothing else.                 *)
LEMMA ResetFrees ==
  ASSUME PagesInv, NEW h \in Handles, ResetEffect(h)
  PROVE  live' = Without(handles[h].allocation.data) /\ released' = TRUE
<1>1. CASE handles[h].allocation = NoAllocation
  <2>1. UNCHANGED <<live, released>>
    BY <1>1, FreesNothing DEF ResetEffect
  <2>2. live = Without(null)
    BY PagesAssumption DEF PagesInv, LiveBlocks, Without
  <2>. QED
    BY <1>1, <2>1, <2>2, NoAllocationData DEF PagesInv
<1>2. CASE handles[h].allocation # NoAllocation
  <2>1. /\ Intact(handles[h].allocation)
        /\ MayFree(handles[h].runtime, handles[h].allocation)
    BY <1>2 DEF PagesInv, HandlesOwn
  <2>2. handles[h].runtime # null
    BY <2>1, PagesAssumption DEF PagesInv, LiveBlocks, MayFree
  <2>3. FreePages(handles[h].runtime, handles[h].allocation)
    BY <2>2 DEF ResetEffect
  <2>. QED
    BY <2>1, <2>3, FreesIntact DEF PagesInv
<1>. QED
  BY <1>1, <1>2

-----------------------------------------------------------------------------
(* Steps.                                                                  *)

(* Handles and callers pass allocations on: what is owned stays owned, and *)
(* each block by one owner, when nothing is allocated or freed.            *)
LEMMA PassedOn ==
  ASSUME PagesInv, UNCHANGED <<live, released>>,
         handles' = [h \in Handles |-> handles'[h]],
         \A h \in Handles :
            \/ handles'[h].allocation = NoAllocation
            \/ /\ handles'[h].alive
               /\ Intact(handles'[h].allocation)
               /\ MayFree(handles'[h].runtime, handles'[h].allocation),
         \A a \in raw' : /\ Intact(a)
                         /\ MayFree(live[a.data].runtime, a),
         Exclusive', NothingLeaks'
  PROVE  PagesInv'
BY DEF PagesInv, LiveBlocks, HandlesOwn, CallersOwn, MayFree

(* A default constructed handle.                                           *)
LEMMA ConstructStep ==
  ASSUME PagesInv, NEW h \in Handles, Construct(h)
  PROVE  PagesInv'
<1>1. /\ handles' = [handles EXCEPT ![h] = Empty]
      /\ UNCHANGED <<live, raw, released>>
      /\ handles[h].allocation = NoAllocation
  BY DEF Construct, PagesInv, HandlesOwn
<1>2. Empty.allocation = NoAllocation
  BY DEF Empty, Dead
<1>3. /\ handles' = [g \in Handles |-> handles'[g]]
      /\ \A g \in Handles : handles'[g].allocation = handles[g].allocation
      /\ \A g \in Handles \ {h} : handles'[g] = handles[g]
      /\ handles'[h].allocation = NoAllocation
  BY <1>1, <1>2 DEF PagesInv, HandlesOwn
<1>4. Exclusive'
  BY <1>1, <1>3 DEF PagesInv, Exclusive
<1>5. NothingLeaks'
  BY <1>1, <1>3 DEF PagesInv, NothingLeaks
<1>6. \A a \in raw' : Intact(a) /\ MayFree(live[a.data].runtime, a)
  BY <1>1 DEF PagesInv, CallersOwn
<1>7. \A g \in Handles :
        \/ handles'[g].allocation = NoAllocation
        \/ /\ handles'[g].alive
           /\ Intact(handles'[g].allocation)
           /\ MayFree(handles'[g].runtime, handles'[g].allocation)
  BY <1>3 DEF PagesInv, HandlesOwn
<1>. QED
  BY <1>1, <1>3, <1>4, <1>5, <1>6, <1>7, PassedOn

(* A handle for what a caller holds.                                       *)
LEMMA AdoptStep ==
  ASSUME PagesInv, NEW h \in Handles, NEW runtime \in Runtimes,
         NEW allocation \in raw \cup {NoAllocation}, Adopt(h, runtime, allocation)
  PROVE  PagesInv'
<1>1. /\ handles' = [handles EXCEPT ![h] = Owner(runtime, allocation)]
      /\ raw' = raw \ {allocation}
      /\ UNCHANGED <<live, released>>
      /\ allocation = NoAllocation \/ (allocation \in raw /\ live[allocation.data].runtime = runtime)
      /\ handles[h].allocation = NoAllocation
  BY DEF Adopt, PagesInv, HandlesOwn
<1>2. /\ handles' = [g \in Handles |-> handles'[g]]
      /\ \A g \in Handles \ {h} : handles'[g] = handles[g]
      /\ handles'[h].allocation = allocation
      /\ handles'[h].runtime = runtime
      /\ handles'[h].alive
  BY <1>1 DEF PagesInv, HandlesOwn, Owner
<1>3. allocation # NoAllocation =>
        Intact(allocation) /\ MayFree(runtime, allocation)
  BY <1>1 DEF PagesInv, CallersOwn
<1>4. Exclusive'
  BY <1>1, <1>2, NoAllocationData, IntactData DEF PagesInv, Exclusive, CallersOwn
<1>5. NothingLeaks'
  BY <1>1, <1>2, NoAllocationData, PagesAssumption
     DEF PagesInv, NothingLeaks, LiveBlocks
<1>6. \A a \in raw' : Intact(a) /\ MayFree(live[a.data].runtime, a)
  BY <1>1 DEF PagesInv, CallersOwn
<1>7. \A g \in Handles :
        \/ handles'[g].allocation = NoAllocation
        \/ /\ handles'[g].alive
           /\ Intact(handles'[g].allocation)
           /\ MayFree(handles'[g].runtime, handles'[g].allocation)
  BY <1>2, <1>3 DEF PagesInv, HandlesOwn
<1>. QED
  BY <1>1, <1>2, <1>4, <1>5, <1>6, <1>7, PassedOn

(* Move construction.                                                      *)
LEMMA MoveConstructStep ==
  ASSUME PagesInv, NEW to \in Handles, NEW from \in Handles,
         MoveConstruct(to, from)
  PROVE  PagesInv'
<1>1. /\ handles' = [handles EXCEPT ![to] = handles[from], ![from] = Empty]
      /\ UNCHANGED <<live, raw, released>>
      /\ to # from
      /\ handles[to].allocation = NoAllocation
  BY DEF MoveConstruct, PagesInv, HandlesOwn
<1>2. Empty.allocation = NoAllocation
  BY DEF Empty, Dead
<1>3. /\ handles' = [g \in Handles |-> handles'[g]]
      /\ \A g \in Handles \ {to, from} : handles'[g] = handles[g]
      /\ handles'[to] = handles[from]
      /\ handles'[from].allocation = NoAllocation
  BY <1>1, <1>2 DEF PagesInv, HandlesOwn
<1>4. Exclusive'
  BY <1>1, <1>3, NoAllocationData, IntactData, ZenonT(60) DEF PagesInv, Exclusive, CallersOwn
<1>5. NothingLeaks'
  <2>. SUFFICES ASSUME NEW b \in DOMAIN live
                PROVE  \/ \E g \in Handles : handles'[g].allocation.data = b
                       \/ \E a \in raw : a.data = b
    BY <1>1 DEF NothingLeaks
  <2>1. CASE \E a \in raw : a.data = b
    BY <2>1
  <2>2. CASE \E g \in Handles : handles[g].allocation.data = b
    <3>1. PICK g \in Handles : handles[g].allocation.data = b
      BY <2>2
    <3>2. g # to
      BY <1>1, <3>1, NoAllocationData, PagesAssumption DEF PagesInv, LiveBlocks
    <3>3. g = from \/ handles'[g] = handles[g]
      BY <1>3, <3>2
    <3>. QED
      BY <1>3, <3>1, <3>3
  <2>. QED
    BY <2>1, <2>2 DEF PagesInv, NothingLeaks
<1>6. \A a \in raw' : Intact(a) /\ MayFree(live[a.data].runtime, a)
  BY <1>1 DEF PagesInv, CallersOwn
<1>7. \A g \in Handles :
        \/ handles'[g].allocation = NoAllocation
        \/ /\ handles'[g].alive
           /\ Intact(handles'[g].allocation)
           /\ MayFree(handles'[g].runtime, handles'[g].allocation)
  BY <1>3 DEF PagesInv, HandlesOwn
<1>. QED
  BY <1>1, <1>3, <1>4, <1>5, <1>6, <1>7, PassedOn

(* Release gives what a handle owns to the caller.                         *)
LEMMA ReleaseStep ==
  ASSUME PagesInv, NEW h \in Handles, Release(h)
  PROVE  PagesInv'
<1>1. /\ handles' = [handles EXCEPT ![h] = Empty]
      /\ raw' = raw \cup ({handles[h].allocation} \ {NoAllocation})
      /\ UNCHANGED <<live, released>>
  BY DEF Release
<1>2. Empty.allocation = NoAllocation
  BY DEF Empty, Dead
<1>3. /\ handles' = [g \in Handles |-> handles'[g]]
      /\ \A g \in Handles \ {h} : handles'[g] = handles[g]
      /\ handles'[h].allocation = NoAllocation
  BY <1>1, <1>2 DEF PagesInv, HandlesOwn
<1>4. Exclusive'
  BY <1>1, <1>3, NoAllocationData, IntactData
     DEF PagesInv, Exclusive, CallersOwn, HandlesOwn
<1>5. NothingLeaks'
  <2>. SUFFICES ASSUME NEW b \in DOMAIN live
                PROVE  \/ \E g \in Handles : handles'[g].allocation.data = b
                       \/ \E a \in raw' : a.data = b
    BY <1>1 DEF NothingLeaks
  <2>1. CASE \E a \in raw : a.data = b
    BY <1>1, <2>1
  <2>2. CASE \E g \in Handles : handles[g].allocation.data = b
    <3>1. PICK g \in Handles : handles[g].allocation.data = b
      BY <2>2
    <3>2. handles[g].allocation # NoAllocation
      BY <3>1, NoAllocationData, PagesAssumption DEF PagesInv, LiveBlocks
    <3>3. g = h \/ handles'[g] = handles[g]
      BY <1>3
    <3>. QED
      BY <1>1, <3>1, <3>2, <3>3
  <2>. QED
    BY <2>1, <2>2 DEF PagesInv, NothingLeaks
<1>6. \A a \in raw' : Intact(a) /\ MayFree(live[a.data].runtime, a)
  <2>1. \A r, a : MayFree(r, a) => MayFree(live[a.data].runtime, a)
    BY DEF MayFree
  <2>2. ASSUME handles[h].allocation # NoAllocation
        PROVE  /\ Intact(handles[h].allocation)
               /\ MayFree(handles[h].runtime, handles[h].allocation)
    BY <2>2 DEF PagesInv, HandlesOwn
  <2>. QED
    BY <1>1, <2>1, <2>2 DEF PagesInv, CallersOwn
<1>7. \A g \in Handles :
        \/ handles'[g].allocation = NoAllocation
        \/ /\ handles'[g].alive
           /\ Intact(handles'[g].allocation)
           /\ MayFree(handles'[g].runtime, handles'[g].allocation)
  BY <1>3 DEF PagesInv, HandlesOwn
<1>. QED
  BY <1>1, <1>3, <1>4, <1>5, <1>6, <1>7, PassedOn

(* One block is freed; the other owners keep theirs.                       *)
LEMMA FreedOne ==
  ASSUME PagesInv, NEW d, live' = Without(d), released' = TRUE,
         handles' = [h \in Handles |-> handles'[h]],
         \A h \in Handles :
            \/ handles'[h].allocation = NoAllocation
            \/ /\ handles'[h].alive
               /\ Intact(handles'[h].allocation)
               /\ MayFree(handles'[h].runtime, handles'[h].allocation)
               /\ handles'[h].allocation.data # d,
         \A a \in raw' : /\ Intact(a)
                         /\ MayFree(live[a.data].runtime, a)
                         /\ a.data # d,
         Exclusive',
         \A b \in DOMAIN live \ {d} :
            \/ \E h \in Handles : handles'[h].allocation.data = b
            \/ \E a \in raw' : a.data = b
  PROVE  PagesInv'
<1>1. DOMAIN live' = DOMAIN live \ {d} /\ \A b \in DOMAIN live' : live'[b] = live[b]
  BY DEF Without
<1>2. LiveBlocks'
  BY <1>1 DEF PagesInv, LiveBlocks, Without
<1>3. HandlesOwn'
  BY <1>1 DEF HandlesOwn, MayFree
<1>4. CallersOwn'
  BY <1>1 DEF CallersOwn, MayFree
<1>5. NothingLeaks'
  BY <1>1 DEF NothingLeaks
<1>. QED
  BY <1>2, <1>3, <1>4, <1>5 DEF PagesInv

(* Reset and the destructor: what the handle owned is freed.               *)
LEMMA EmptiedStep ==
  ASSUME PagesInv, NEW h \in Handles, ResetEffect(h), raw' = raw,
         NEW e, e.allocation = NoAllocation, handles' = [handles EXCEPT ![h] = e]
  PROVE  PagesInv'
<1>. DEFINE d == handles[h].allocation.data
<1>1. live' = Without(d) /\ released' = TRUE
  BY ResetFrees
<1>2. /\ handles' = [g \in Handles |-> handles'[g]]
      /\ \A g \in Handles \ {h} : handles'[g] = handles[g]
      /\ handles'[h].allocation = NoAllocation
  BY DEF PagesInv, HandlesOwn
<1>3. \A g \in Handles \ {h} :
        \/ handles[g].allocation = NoAllocation
        \/ /\ handles[g].alive
           /\ Intact(handles[g].allocation)
           /\ MayFree(handles[g].runtime, handles[g].allocation)
           /\ handles[g].allocation.data # d
  BY IntactData DEF PagesInv, HandlesOwn, Exclusive
<1>4. \A a \in raw' : /\ Intact(a)
                      /\ MayFree(live[a.data].runtime, a)
                      /\ a.data # d
  BY DEF PagesInv, CallersOwn, Exclusive
<1>5. Exclusive'
  BY <1>2, NoAllocationData, IntactData DEF PagesInv, Exclusive, CallersOwn
<1>6. \A b \in DOMAIN live \ {d} :
        \/ \E g \in Handles : handles'[g].allocation.data = b
        \/ \E a \in raw' : a.data = b
  <2>. SUFFICES ASSUME NEW b \in DOMAIN live, b # d,
                       ~ \E a \in raw : a.data = b
                PROVE  \E g \in Handles : handles'[g].allocation.data = b
    OBVIOUS
  <2>1. PICK g \in Handles : handles[g].allocation.data = b
    BY DEF PagesInv, NothingLeaks
  <2>2. g # h
    BY <2>1
  <2>. QED
    BY <1>2, <2>1, <2>2
<1>7. \A g \in Handles :
        \/ handles'[g].allocation = NoAllocation
        \/ /\ handles'[g].alive
           /\ Intact(handles'[g].allocation)
           /\ MayFree(handles'[g].runtime, handles'[g].allocation)
           /\ handles'[g].allocation.data # d
  BY <1>2, <1>3
<1>. HIDE DEF d
<1>. QED
  BY <1>1, <1>2, <1>4, <1>5, <1>6, <1>7, FreedOne

(* Move assignment, onto another handle or onto itself.                    *)
LEMMA MoveAssignStep ==
  ASSUME PagesInv, NEW to \in Handles, NEW from \in Handles, MoveAssign(to, from)
  PROVE  PagesInv'
<1>1. CASE to = from
  BY <1>1 DEF MoveAssign, PagesInv, LiveBlocks, HandlesOwn, CallersOwn, Exclusive,
              NothingLeaks, MayFree
<1>2. CASE to # from
  <2>. DEFINE d == handles[to].allocation.data
  <2>1. /\ ResetEffect(to)
        /\ handles' = [handles EXCEPT ![to] = handles[from], ![from] = Empty]
        /\ raw' = raw
    BY <1>2 DEF MoveAssign
  <2>2. live' = Without(d) /\ released' = TRUE
    BY <2>1, ResetFrees
  <2>3. Empty.allocation = NoAllocation
    BY DEF Empty, Dead
  <2>4. /\ handles' = [g \in Handles |-> handles'[g]]
        /\ \A g \in Handles \ {to, from} : handles'[g] = handles[g]
        /\ handles'[to] = handles[from]
        /\ handles'[from].allocation = NoAllocation
    BY <1>2, <2>1, <2>3 DEF PagesInv, HandlesOwn
  <2>5. \A g \in Handles \ {to} :
          \/ handles[g].allocation = NoAllocation
          \/ /\ handles[g].alive
             /\ Intact(handles[g].allocation)
             /\ MayFree(handles[g].runtime, handles[g].allocation)
             /\ handles[g].allocation.data # d
    BY IntactData DEF PagesInv, HandlesOwn, Exclusive
  <2>6. \A a \in raw' : /\ Intact(a)
                        /\ MayFree(live[a.data].runtime, a)
                        /\ a.data # d
    BY <2>1 DEF PagesInv, CallersOwn, Exclusive
  <2>7. Exclusive'
    BY <1>2, <2>1, <2>4, NoAllocationData, IntactData, ZenonT(60)
       DEF PagesInv, Exclusive, CallersOwn
  <2>8. \A b \in DOMAIN live \ {d} :
          \/ \E g \in Handles : handles'[g].allocation.data = b
          \/ \E a \in raw' : a.data = b
    <3>. SUFFICES ASSUME NEW b \in DOMAIN live, b # d,
                         ~ \E a \in raw : a.data = b
                  PROVE  \E g \in Handles : handles'[g].allocation.data = b
      BY <2>1
    <3>1. PICK g \in Handles : handles[g].allocation.data = b
      BY DEF PagesInv, NothingLeaks
    <3>2. g # to
      BY <3>1
    <3>3. g = from \/ handles'[g] = handles[g]
      BY <2>4, <3>2
    <3>. QED
      BY <2>4, <3>1, <3>3
  <2>9. \A g \in Handles :
          \/ handles'[g].allocation = NoAllocation
          \/ /\ handles'[g].alive
             /\ Intact(handles'[g].allocation)
             /\ MayFree(handles'[g].runtime, handles'[g].allocation)
             /\ handles'[g].allocation.data # d
    <3>. SUFFICES ASSUME NEW g \in Handles, handles'[g].allocation # NoAllocation
                  PROVE  /\ handles'[g].alive
                         /\ Intact(handles'[g].allocation)
                         /\ MayFree(handles'[g].runtime, handles'[g].allocation)
                         /\ handles'[g].allocation.data # d
      OBVIOUS
    <3>. DEFINE source == IF g = to THEN from ELSE g
    <3>1. source \in Handles \ {to} /\ handles'[g] = handles[source]
      BY <1>2, <2>4
    <3>. HIDE DEF source
    <3>. QED
      BY <2>5, <3>1
  <2>. HIDE DEF d
  <2>. QED
    BY <2>2, <2>4, <2>6, <2>7, <2>8, <2>9, FreedOne
<1>. QED
  BY <1>1, <1>2

(* A caller frees what it holds.                                           *)
LEMMA FreeRawStep ==
  ASSUME PagesInv, NEW allocation \in raw, FreeRaw(allocation)
  PROVE  PagesInv'
<1>. DEFINE d == allocation.data
<1>1. Intact(allocation) /\ MayFree(live[allocation.data].runtime, allocation)
  BY DEF PagesInv, CallersOwn
<1>2. live' = Without(d) /\ released' = TRUE
  BY <1>1, FreesIntact DEF FreeRaw, PagesInv
<1>3. raw' = raw \ {allocation} /\ handles' = handles
  BY DEF FreeRaw
<1>4. \A g \in Handles :
        \/ handles'[g].allocation = NoAllocation
        \/ /\ handles'[g].alive
           /\ Intact(handles'[g].allocation)
           /\ MayFree(handles'[g].runtime, handles'[g].allocation)
           /\ handles'[g].allocation.data # d
  BY <1>3 DEF PagesInv, HandlesOwn, Exclusive
<1>5. \A a \in raw' : /\ Intact(a)
                      /\ MayFree(live[a.data].runtime, a)
                      /\ a.data # d
  BY <1>3 DEF PagesInv, CallersOwn, Exclusive
<1>6. Exclusive'
  BY <1>3 DEF PagesInv, Exclusive
<1>7. \A b \in DOMAIN live \ {d} :
        \/ \E g \in Handles : handles'[g].allocation.data = b
        \/ \E a \in raw' : a.data = b
  BY <1>3 DEF PagesInv, NothingLeaks
<1>8. handles' = [g \in Handles |-> handles'[g]]
  BY <1>3 DEF PagesInv, HandlesOwn
<1>. HIDE DEF d
<1>. QED
  BY <1>2, <1>4, <1>5, <1>6, <1>7, <1>8, FreedOne

(* AllocatePages: the caller owns the new block.                           *)
LEMMA AllocatePagesStep ==
  ASSUME PagesInv, NEW runtime \in Runtimes, NEW block \in Blocks \ DOMAIN live,
         NEW request, AllocatePages(runtime, block, request)
  PROVE  PagesInv'
<1>. DEFINE a == HostedAllocation(block, request)
<1>1. /\ AllocateStatus(request) = "Ok"
      /\ live' = [b \in DOMAIN live \cup {block} |->
                    IF b = block
                    THEN [runtime |-> runtime, alignment |-> Alignment(request)]
                    ELSE live[b]]
      /\ UNCHANGED <<handles, released>>
      /\ raw' = raw \cup ({Returned(runtime, a)} \ {NoAllocation})
  BY DEF AllocatePages, Allocated
<1>2. Intact(a) /\ Returned(runtime, a) = a
  BY <1>1, AllocationIntact
<1>3. a # NoAllocation /\ a.data = block /\ a.alignment = Alignment(request)
  BY <1>2, IntactData DEF HostedAllocation
<1>. HIDE DEF a
<1>4. raw' = raw \cup {a}
  BY <1>1, <1>2, <1>3
<1>5. /\ DOMAIN live' = DOMAIN live \cup {block}
      /\ \A b \in DOMAIN live : live'[b] = live[b]
      /\ live'[block] = [runtime |-> runtime, alignment |-> Alignment(request)]
  BY <1>1
<1>6. LiveBlocks'
  BY <1>1, <1>5 DEF PagesInv, LiveBlocks
<1>7. HandlesOwn'
  BY <1>1, <1>5 DEF PagesInv, HandlesOwn, MayFree
<1>8. CallersOwn'
  <2>1. (MayFree(live[a.data].runtime, a))'
    BY <1>3, <1>5 DEF MayFree
  <2>2. \A m \in raw : (MayFree(live[m.data].runtime, m))'
    BY <1>5 DEF PagesInv, CallersOwn, MayFree
  <2>. QED
    BY <1>2, <1>4, <2>1, <2>2 DEF PagesInv, CallersOwn
<1>9. Exclusive'
  <2>1. \A m \in raw : m.data # block
    BY DEF PagesInv, CallersOwn, MayFree
  <2>2. \A h \in Handles : handles[h].allocation.data # block
    BY NoAllocationData, PagesAssumption DEF PagesInv, HandlesOwn, MayFree
  <2>. QED
    BY <1>1, <1>3, <1>4, <2>1, <2>2 DEF PagesInv, Exclusive
<1>10. NothingLeaks'
  BY <1>1, <1>3, <1>4, <1>5 DEF PagesInv, NothingLeaks
<1>. QED
  BY <1>1, <1>6, <1>7, <1>8, <1>9, <1>10 DEF PagesInv

(* AllocatePageSpan: a new handle owns the new block.                      *)
LEMMA AllocatePageSpanStep ==
  ASSUME PagesInv, NEW h \in Handles, NEW runtime \in Runtimes,
         NEW block \in Blocks \ DOMAIN live, NEW request,
         AllocatePageSpan(h, runtime, block, request)
  PROVE  PagesInv'
<1>. DEFINE a == HostedAllocation(block, request)
<1>1. /\ AllocateStatus(request) = "Ok"
      /\ live' = [b \in DOMAIN live \cup {block} |->
                    IF b = block
                    THEN [runtime |-> runtime, alignment |-> Alignment(request)]
                    ELSE live[b]]
      /\ UNCHANGED <<raw, released>>
      /\ handles' = [handles EXCEPT ![h] =
                       IF Returned(runtime, a) = NoAllocation THEN Dead
                       ELSE Owner(runtime, Returned(runtime, a))]
      /\ ~handles[h].alive
  BY DEF AllocatePageSpan, Allocated
<1>2. Intact(a) /\ Returned(runtime, a) = a
  BY <1>1, AllocationIntact
<1>3. a # NoAllocation /\ a.data = block /\ a.alignment = Alignment(request)
  BY <1>2, IntactData DEF HostedAllocation
<1>. HIDE DEF a
<1>4. /\ handles' = [g \in Handles |-> handles'[g]]
      /\ \A g \in Handles \ {h} : handles'[g] = handles[g]
      /\ handles'[h].allocation = a
      /\ handles'[h].runtime = runtime
      /\ handles'[h].alive
      /\ handles[h].allocation = NoAllocation
  BY <1>1, <1>2, <1>3 DEF PagesInv, HandlesOwn, Owner
<1>5. /\ DOMAIN live' = DOMAIN live \cup {block}
      /\ \A b \in DOMAIN live : live'[b] = live[b]
      /\ live'[block] = [runtime |-> runtime, alignment |-> Alignment(request)]
  BY <1>1
<1>6. LiveBlocks'
  BY <1>1, <1>5 DEF PagesInv, LiveBlocks
<1>7. HandlesOwn'
  <2>1. (MayFree(handles[h].runtime, handles[h].allocation))'
    BY <1>3, <1>4, <1>5 DEF MayFree
  <2>2. \A g \in Handles \ {h} :
          \/ handles'[g].allocation = NoAllocation
          \/ /\ handles'[g].alive
             /\ Intact(handles'[g].allocation)
             /\ (MayFree(handles[g].runtime, handles[g].allocation))'
    BY <1>4, <1>5 DEF PagesInv, HandlesOwn, MayFree
  <2>. QED
    BY <1>2, <1>4, <2>1, <2>2 DEF HandlesOwn
<1>8. CallersOwn'
  BY <1>1, <1>5 DEF PagesInv, CallersOwn, MayFree
<1>9. Exclusive'
  <2>1. \A m \in raw : m.data # block
    BY DEF PagesInv, CallersOwn, MayFree
  <2>2. \A g \in Handles : handles[g].allocation.data # block
    BY NoAllocationData, PagesAssumption DEF PagesInv, HandlesOwn, MayFree
  <2>. QED
    BY <1>1, <1>3, <1>4, <2>1, <2>2 DEF PagesInv, Exclusive
<1>10. NothingLeaks'
  <2>. SUFFICES ASSUME NEW b \in DOMAIN live \cup {block},
                       ~ \E m \in raw : m.data = b
                PROVE  \E g \in Handles : handles'[g].allocation.data = b
    BY <1>1, <1>5 DEF NothingLeaks
  <2>1. CASE b = block
    BY <1>3, <1>4, <2>1
  <2>2. CASE b # block
    <3>1. PICK g \in Handles : handles[g].allocation.data = b
      BY <2>2 DEF PagesInv, NothingLeaks
    <3>2. g # h
      BY <1>4, <2>2, <3>1, NoAllocationData, PagesAssumption DEF PagesInv, LiveBlocks
    <3>. QED
      BY <1>4, <3>1, <3>2
  <2>. QED
    BY <2>1, <2>2
<1>. QED
  BY <1>1, <1>6, <1>7, <1>8, <1>9, <1>10 DEF PagesInv

-----------------------------------------------------------------------------
(* The theorems.                                                           *)

(* Nothing is allocated and every handle is dead at first.                 *)
LEMMA PagesInitially == Init => PagesInv
<1>1. Dead.allocation = NoAllocation
  BY DEF Dead
<1>2. \A b \in DOMAIN << >> : FALSE
  OBVIOUS
<1>3. << >> = [b \in DOMAIN << >> |-> << >>[b]]
  OBVIOUS
<1>. QED
  BY <1>1, <1>2, <1>3, NoAllocationData
     DEF Init, PagesInv, LiveBlocks, HandlesOwn, CallersOwn, Exclusive, NothingLeaks

(* Every step keeps the invariant.                                         *)
LEMMA PagesStep == PagesInv /\ [Next]_vars => PagesInv'
<1>. SUFFICES ASSUME PagesInv, [Next]_vars PROVE PagesInv'
  OBVIOUS
<1>1. ASSUME NEW h \in Handles, Construct(h) PROVE PagesInv'
  BY <1>1, ConstructStep
<1>2. ASSUME NEW h \in Handles, Release(h) PROVE PagesInv'
  BY <1>2, ReleaseStep
<1>3. ASSUME NEW h \in Handles, Reset(h) PROVE PagesInv'
  <2>1. Empty.allocation = NoAllocation
    BY DEF Empty, Dead
  <2>. QED
    BY <1>3, <2>1, EmptiedStep DEF Reset
<1>4. ASSUME NEW h \in Handles, Destroy(h) PROVE PagesInv'
  <2>1. Dead.allocation = NoAllocation
    BY DEF Dead
  <2>. QED
    BY <1>4, <2>1, EmptiedStep DEF Destroy
<1>5. ASSUME NEW h \in Handles, NEW runtime \in Runtimes,
             NEW allocation \in raw \cup {NoAllocation},
             Adopt(h, runtime, allocation)
      PROVE  PagesInv'
  BY <1>5, AdoptStep
<1>6. ASSUME NEW to \in Handles, NEW from \in Handles, MoveConstruct(to, from)
      PROVE  PagesInv'
  BY <1>6, MoveConstructStep
<1>7. ASSUME NEW to \in Handles, NEW from \in Handles, MoveAssign(to, from)
      PROVE  PagesInv'
  BY <1>7, MoveAssignStep
<1>8. ASSUME NEW request \in Requests, AllocateFails(request) PROVE PagesInv'
  BY <1>8 DEF AllocateFails, PagesInv, LiveBlocks, HandlesOwn, CallersOwn, Exclusive,
              NothingLeaks, MayFree
<1>9. ASSUME NEW request \in Requests, NEW runtime \in Runtimes,
             NEW block \in Blocks \ DOMAIN live,
             AllocatePages(runtime, block, request)
      PROVE  PagesInv'
  BY <1>9, AllocatePagesStep
<1>10. ASSUME NEW request \in Requests, NEW runtime \in Runtimes,
              NEW block \in Blocks \ DOMAIN live, NEW h \in Handles,
              AllocatePageSpan(h, runtime, block, request)
       PROVE  PagesInv'
  BY <1>10, AllocatePageSpanStep
<1>11. ASSUME NEW allocation \in raw, FreeRaw(allocation) PROVE PagesInv'
  BY <1>11, FreeRawStep
<1>12. CASE UNCHANGED vars
  BY <1>12 DEF vars, PagesInv, LiveBlocks, HandlesOwn, CallersOwn, Exclusive,
               NothingLeaks, MayFree
<1>. QED
  BY <1>1, <1>2, <1>3, <1>4, <1>5, <1>6, <1>7, <1>8, <1>9, <1>10, <1>11, <1>12
     DEF Next

(* The inductive invariant holds in every state: the live blocks, the      *)
(* handles and the allocations callers hold fit together.                  *)
THEOREM PagesInvariant == Spec => []PagesInv
<1>. QED
  BY PagesInitially, PagesStep, PTL DEF Spec

(* The invariant says who owns a block: one handle, or one caller.         *)
LEMMA PagesInvOwners == PagesInv => OneOwner
<1>. SUFFICES ASSUME PagesInv PROVE OneOwner
  OBVIOUS
<1>1. ASSUME NEW block \in DOMAIN live
      PROVE  Cardinality(Owning(block)) + Cardinality(Held(block)) = 1
  <2>1. block # null
    BY PagesAssumption DEF PagesInv, LiveBlocks
  <2>2. CASE \E h \in Handles : handles[h].allocation.data = block
    <3>1. PICK h \in Handles : handles[h].allocation.data = block
      BY <2>2
    <3>2. Owning(block) = {h}
      BY <2>1, <3>1 DEF Owning, PagesInv, Exclusive
    <3>3. Held(block) = {}
      BY <3>1 DEF Held, PagesInv, Exclusive
    <3>4. Cardinality(Owning(block)) = 1 /\ Cardinality(Held(block)) = 0
      BY <3>2, <3>3, FS_Singleton, FS_EmptySet
    <3>. QED
      BY <3>4
  <2>3. CASE ~ \E h \in Handles : handles[h].allocation.data = block
    <3>1. PICK a \in raw : a.data = block
      BY <2>3 DEF PagesInv, NothingLeaks
    <3>2. Held(block) = {a}
      BY <3>1 DEF Held, PagesInv, Exclusive
    <3>3. Owning(block) = {}
      BY <2>3 DEF Owning
    <3>4. Cardinality(Owning(block)) = 0 /\ Cardinality(Held(block)) = 1
      BY <3>2, <3>3, FS_Singleton, FS_EmptySet
    <3>. QED
      BY <3>4
  <2>. QED
    BY <2>2, <2>3
<1>2. ASSUME NEW h \in Handles, handles[h].allocation.data # null
      PROVE  /\ handles[h].alive
             /\ MayFree(handles[h].runtime, handles[h].allocation)
  BY <1>2, NoAllocationData DEF PagesInv, HandlesOwn
<1>3. \A allocation \in raw : allocation.data \in DOMAIN live
  BY DEF PagesInv, CallersOwn, MayFree
<1>. QED
  BY <1>1, <1>2, <1>3 DEF OneOwner

(* Every live block has exactly one owner, a handle or a caller, that      *)
(* knows how to free it, and nobody owns a block that is gone, whatever    *)
(* handles are moved, released, adopted, reset and destroyed and on        *)
(* whichever side of the C ABI the runtimes are.                           *)
THEOREM EveryBlockHasOneOwner == Spec => []OneOwner
BY PagesInvariant, PagesInvOwners, PTL

(* No block reaches operator delete twice, through another runtime or with *)
(* another alignment than it was allocated with.                           *)
THEOREM BlocksAreFreedOnce == Spec => []FreedOnce
<1>1. PagesInv => FreedOnce
  BY DEF PagesInv, FreedOnce
<1>. QED
  BY <1>1, PagesInvariant, PTL

=============================================================================
