---------------------------- MODULE RuntimePages ----------------------------
(***************************************************************************)
(* Page allocation: AllocatePages and FreePages of HostedPlatformRuntime   *)
(* (src/src/runtime/hosted_platform_runtime.cpp) and the owning handle     *)
(* RuntimePageAllocationHandle (src/src/runtime/platform.cpp), of which    *)
(* callers move, release, reset and destroy several, over more than one    *)
(* runtime and an allocator that gives out freed addresses again.          *)
(*                                                                         *)
(* A runtime is the hosted one, or that one behind the C ABI               *)
(* (src/src/runtime/c_abi_platform_runtime.cpp, with a valid table, and    *)
(* c_abi_runtime_provider.cpp), which translates every allocation twice.   *)
(* The host's allocator is external: it is known by its live blocks.       *)
(***************************************************************************)
EXTENDS Naturals, FiniteSets

CONSTANTS Runtimes, Handles,
          AbiRuntimes,       \* the runtimes that are a CAbiPlatformRuntime, over
                             \* the CAbiRuntimeProvider of a hosted runtime
          Blocks,            \* the addresses the host's allocator gives out
          Requests,          \* [page_count, alignment, flags] callers ask for
          null,              \* nullptr
          kDefaultPageSize,
          MaxAlign,          \* alignof(std::max_align_t)
          MaxSize            \* std::numeric_limits<std::size_t>::max()

ASSUME PagesAssumption ==
  /\ kDefaultPageSize \in Nat \ {0} /\ MaxAlign \in Nat \ {0} /\ MaxSize \in Nat
  /\ null \notin Runtimes /\ null \notin Blocks
  /\ AbiRuntimes \subseteq Runtimes

VARIABLES live,      \* block -> [runtime, alignment] of the live blocks
          handles,   \* handle -> [alive, runtime_, allocation_]
          raw,       \* allocations callers hold without a handle
          released,  \* history: every block handed to operator delete was
                     \* live, of that runtime and alignment
          status     \* what the last call returned

vars == <<live, handles, raw, released, status>>

(* RuntimePageAllocation{}.                                                *)
NoAllocation ==
  [data |-> null, page_count |-> 0, page_size |-> kDefaultPageSize,
   alignment |-> kDefaultPageSize, flags |-> {"Zeroed"}]

Dead == [alive |-> FALSE, runtime |-> null, allocation |-> NoAllocation]
Empty == [Dead EXCEPT !.alive = TRUE]

Owner(runtime, allocation) ==
  [alive |-> TRUE, runtime |-> runtime, allocation |-> allocation]

Init ==
  /\ live = << >>
  /\ handles = [h \in Handles |-> Dead]
  /\ raw = {}
  /\ released = TRUE
  /\ status = "Ok"

-----------------------------------------------------------------------------
(* HostedPlatformRuntime.                                                  *)

is_power_of_two(n) == n # 0 /\ \E k \in 0 .. n : 2 ^ k = n

(* 4096, and the alignment of a type.                                      *)
ASSUME AlignmentAssumption ==
  is_power_of_two(kDefaultPageSize) /\ is_power_of_two(MaxAlign)

Alignment(request) ==
  LET asked == IF request.alignment = 0 THEN kDefaultPageSize ELSE request.alignment
  IN IF asked < MaxAlign THEN MaxAlign ELSE asked

AllocateStatus(request) ==
  IF \/ request.page_count = 0
     \/ request.alignment # 0 /\ ~is_power_of_two(request.alignment)
     \/ ~(request.flags \subseteq {"Zeroed", "Dma"})
  THEN "InvalidArgument"
  ELSE IF "Dma" \in request.flags THEN "NotSupported"
  ELSE IF request.page_count > MaxSize \div kDefaultPageSize THEN "InvalidArgument"
  ELSE "Ok"

HostedAllocation(block, request) ==
  [data |-> block, page_count |-> request.page_count,
   page_size |-> kDefaultPageSize, alignment |-> Alignment(request),
   flags |-> request.flags]

HostedFreeStatus(allocation) ==
  IF allocation.data = null \/ ~is_power_of_two(allocation.alignment)
  THEN "InvalidArgument" ELSE "Ok"

-----------------------------------------------------------------------------
(* The C ABI in front of it.                                               *)

MemoryFlagBit == [Zeroed |-> 0, Dma |-> 1]

to_abi_page_allocation(allocation) ==
  [allocation EXCEPT !.flags = {MemoryFlagBit[f] : f \in @}]

from_abi_page_allocation(allocation) ==
  [allocation EXCEPT !.flags = {f \in DOMAIN MemoryFlagBit : MemoryFlagBit[f] \in @}]

(* Up from the provider to the adapter, or down.                           *)
CrossAbi(allocation) == from_abi_page_allocation(to_abi_page_allocation(allocation))

(* What provider and adapter ask of an allocation, on either way.          *)
ValidMetadata(allocation) ==
  /\ allocation.flags \subseteq DOMAIN MemoryFlagBit
  /\ allocation.data # null
  /\ allocation.page_count # 0 /\ allocation.page_size # 0
  /\ is_power_of_two(allocation.alignment)

(* What the caller of AllocatePages gets for an allocation of the hosted   *)
(* runtime; an allocation the ABI refuses is not given back.               *)
Returned(runtime, allocation) ==
  IF runtime \notin AbiRuntimes THEN allocation
  ELSE IF ValidMetadata(allocation) /\ ValidMetadata(CrossAbi(allocation))
       THEN CrossAbi(allocation) ELSE NoAllocation

(* What reaches the hosted runtime's FreePages.                            *)
Passed(runtime, allocation) ==
  IF runtime \in AbiRuntimes THEN CrossAbi(allocation) ELSE allocation

FreeStatus(runtime, allocation) ==
  IF runtime \in AbiRuntimes /\ ~ValidMetadata(allocation)
  THEN "InvalidArgument" ELSE HostedFreeStatus(Passed(runtime, allocation))

(* The block may go to operator delete: it is live, of this runtime, and   *)
(* was allocated with this alignment.                                      *)
MayFree(runtime, allocation) ==
  /\ allocation.data \in DOMAIN live
  /\ live[allocation.data] = [runtime   |-> runtime,
                              alignment |-> allocation.alignment]

FreePages(runtime, allocation) ==
  /\ status' = FreeStatus(runtime, allocation)
  /\ IF FreeStatus(runtime, allocation) = "Ok"
     THEN /\ live' = [b \in DOMAIN live \ {allocation.data} |-> live[b]]
          /\ released' = (released /\ MayFree(runtime, Passed(runtime, allocation)))
     ELSE UNCHANGED <<live, released>>

-----------------------------------------------------------------------------
(* RuntimePageAllocationHandle.                                            *)

(* Reset of handle h, up to the handle's own members.                      *)
ResetEffect(h) ==
  LET handle == handles[h] IN
  IF handle.runtime = null
  THEN /\ status' = IF handle.allocation.data = null THEN "Ok" ELSE "Internal"
       /\ UNCHANGED <<live, released>>
  ELSE FreePages(handle.runtime, handle.allocation)

Construct(h) ==
  /\ ~handles[h].alive
  /\ handles' = [handles EXCEPT ![h] = Empty]
  /\ status' = "Ok"
  /\ UNCHANGED <<live, raw, released>>

(* The handle of an allocation a caller holds, or of no allocation.        *)
Adopt(h, runtime, allocation) ==
  /\ ~handles[h].alive
  /\ \/ allocation = NoAllocation
     \/ allocation \in raw /\ live[allocation.data].runtime = runtime
  /\ handles' = [handles EXCEPT ![h] = Owner(runtime, allocation)]
  /\ raw' = raw \ {allocation}
  /\ status' = "Ok"
  /\ UNCHANGED <<live, released>>

Allocated(runtime, block, request) ==
  /\ AllocateStatus(request) = "Ok"
  /\ live' = [b \in DOMAIN live \cup {block} |->
                IF b = block
                THEN [runtime |-> runtime, alignment |-> Alignment(request)]
                ELSE live[b]]
  /\ status' = IF Returned(runtime, HostedAllocation(block, request)) = NoAllocation
               THEN "Internal" ELSE "Ok"
  /\ UNCHANGED released

AllocatePages(runtime, block, request) ==
  /\ Allocated(runtime, block, request)
  /\ raw' = raw \cup ({Returned(runtime, HostedAllocation(block, request))}
                        \ {NoAllocation})
  /\ UNCHANGED handles

AllocatePageSpan(h, runtime, block, request) ==
  /\ ~handles[h].alive
  /\ Allocated(runtime, block, request)
  /\ LET allocation == Returned(runtime, HostedAllocation(block, request)) IN
     handles' = [handles EXCEPT ![h] =
                   IF allocation = NoAllocation THEN Dead ELSE Owner(runtime, allocation)]
  /\ UNCHANGED raw

(* AllocatePages refuses, or the host has no memory left.                  *)
AllocateFails(request) ==
  /\ status' = IF AllocateStatus(request) = "Ok" THEN "Internal"
               ELSE AllocateStatus(request)
  /\ UNCHANGED <<live, handles, raw, released>>

(* Mutant: the source keeps what it gives away.                            *)
MoveConstruct_Copies(to, from) ==
  /\ ~handles[to].alive /\ handles[from].alive
  /\ handles' = [handles EXCEPT ![to] = handles[from]]
  /\ status' = "Ok"
  /\ UNCHANGED <<live, raw, released>>

MoveConstruct(to, from) ==
  /\ ~handles[to].alive /\ handles[from].alive
  /\ handles' = [handles EXCEPT ![to] = handles[from], ![from] = Empty]
  /\ status' = "Ok"
  /\ UNCHANGED <<live, raw, released>>

(* Mutant: what the target owned is not freed.                             *)
MoveAssign_NoReset(to, from) ==
  /\ handles[to].alive /\ handles[from].alive
  /\ IF to = from
     THEN UNCHANGED handles
     ELSE handles' = [handles EXCEPT ![to] = handles[from], ![from] = Empty]
  /\ status' = "Ok"
  /\ UNCHANGED <<live, released, raw>>

MoveAssign(to, from) ==
  /\ handles[to].alive /\ handles[from].alive
  /\ IF to = from
     THEN status' = "Ok" /\ UNCHANGED <<live, handles, released>>
     ELSE /\ ResetEffect(to)
          /\ handles' = [handles EXCEPT ![to] = handles[from], ![from] = Empty]
  /\ UNCHANGED raw

Release(h) ==
  /\ handles[h].alive
  /\ raw' = raw \cup ({handles[h].allocation} \ {NoAllocation})
  /\ handles' = [handles EXCEPT ![h] = Empty]
  /\ status' = "Ok"
  /\ UNCHANGED <<live, released>>

Reset(h) ==
  /\ handles[h].alive
  /\ ResetEffect(h)
  /\ handles' = [handles EXCEPT ![h] = Empty]
  /\ UNCHANGED raw

Destroy(h) ==
  /\ handles[h].alive
  /\ ResetEffect(h)
  /\ handles' = [handles EXCEPT ![h] = Dead]
  /\ UNCHANGED raw

(* A caller frees what it holds, with the runtime it came from.            *)
FreeRaw(allocation) ==
  /\ FreePages(live[allocation.data].runtime, allocation)
  /\ raw' = raw \ {allocation}
  /\ UNCHANGED handles

Next ==
  \/ \E h \in Handles : Construct(h) \/ Release(h) \/ Reset(h) \/ Destroy(h)
  \/ \E h \in Handles, runtime \in Runtimes, allocation \in raw \cup {NoAllocation} :
       Adopt(h, runtime, allocation)
  \/ \E to, from \in Handles : MoveConstruct(to, from) \/ MoveAssign(to, from)
  \/ \E request \in Requests :
       \/ AllocateFails(request)
       \/ \E runtime \in Runtimes, block \in Blocks \ DOMAIN live :
            \/ AllocatePages(runtime, block, request)
            \/ \E h \in Handles : AllocatePageSpan(h, runtime, block, request)
  \/ \E allocation \in raw : FreeRaw(allocation)

Spec == Init /\ [][Next]_vars

-----------------------------------------------------------------------------
(* Properties.                                                             *)

Owning(block) == {h \in Handles : handles[h].allocation.data = block}
Held(block) == {allocation \in raw : allocation.data = block}

(* Every live block has exactly one owner, a handle or a caller, that      *)
(* knows the runtime and the alignment to free it with; nobody owns a      *)
(* block that is gone.  Nothing leaks, whatever is moved, moved onto       *)
(* itself, released, adopted again, reset or destroyed in which order.     *)
OneOwner ==
  /\ \A block \in DOMAIN live :
       Cardinality(Owning(block)) + Cardinality(Held(block)) = 1
  /\ \A h \in Handles :
       handles[h].allocation.data # null
         => /\ handles[h].alive
            /\ MayFree(handles[h].runtime, handles[h].allocation)
  /\ \A allocation \in raw : allocation.data \in DOMAIN live

(* No block goes to operator delete twice, through the wrong runtime, or   *)
(* with another alignment than it was allocated with.                      *)
FreedOnce == released

=============================================================================
