----------------------------- MODULE MemoryPool -----------------------------
(***************************************************************************)
(* The fixed-capacity object pool (core/include/lob/MemoryPool.h): a block *)
(* of Capacity slots and free_list_, the stack of the slots not handed     *)
(* out.  deallocate() does not check what it is given, so the pool is only *)
(* correct for a client that keeps its contract; the contract is the guard *)
(* of Deallocate here, and OrderBook.tla is shown to keep it.              *)
(***************************************************************************)
EXTENDS Integers, Sequences, FiniteSets

CONSTANT Capacity

ASSUME CapacityAssumption == Capacity \in Nat

\* A slot stands for the address pool_data_ + i * sizeof(T); 0 is nullptr.
Slots == 1 .. Capacity
Null  == 0

VARIABLES
  free_list,  \* free_list_, its back() is the last element
  live        \* the slots a client holds: allocated and not given back

vars == <<free_list, live>>

Init ==
  /\ free_list = [i \in 1 .. Capacity |-> i]
  /\ live = {}

(***************************************************************************)
(* What the operations do to a free list: allocate() takes back() and pops *)
(* it, deallocate() pushes.                                                *)
(***************************************************************************)
\* Mutants: allocate() reads without popping; deallocate() forgets the slot,
\* or pushes the address after it.
PopNothing(list)     == list
PushNothing(list, ptr) == list
PushNext(list, ptr)    == Append(list, ptr + 1)

Back(list)          == list[Len(list)]
PopBack(list)       == SubSeq(list, 1, Len(list) - 1)
PushBack(list, ptr) == Append(list, ptr)

\* The counters of the pool.
AllocatedCount == Capacity - Len(free_list)
FreeCount      == Len(free_list)

\* allocate(): an exhausted pool returns nullptr and changes nothing.
Allocate(ptr) ==
  /\ free_list # << >>
  /\ ptr = Back(free_list)
  /\ free_list' = PopBack(free_list)
  /\ live' = live \cup {ptr}

\* deallocate(ptr) by a client that holds ptr.
Deallocate(ptr) ==
  /\ ptr \in live
  /\ free_list' = PushBack(free_list, ptr)
  /\ live' = live \ {ptr}

Next == \E ptr \in Slots : Allocate(ptr) \/ Deallocate(ptr)

Spec == Init /\ [][Next]_vars

-----------------------------------------------------------------------------
\* The type of the state: whatever the client does, what is free is a slot.
TypeOK ==
  /\ free_list \in Seq(Slots)
  /\ live \in SUBSET Slots

\* No slot is on the free list twice: two allocations in a row can never
\* return the same address.
FreeOnce ==
  \A i, j \in 1 .. Len(free_list) :
    free_list[i] = free_list[j] => i = j

\* The slots on the free list are exactly those no client holds: nothing in
\* use is handed out again, and nothing given back is lost (lines 51-67).
FreeIsNotLive ==
  {free_list[i] : i \in 1 .. Len(free_list)} = Slots \ live

PoolPartition == FreeOnce /\ FreeIsNotLive

\* allocated_count() and free_count() count what they say, whatever the
\* order of the calls, so pool_allocated() of the book is exact (lines 70-74).
CountsAreExact ==
  /\ AllocatedCount = Cardinality(live)
  /\ FreeCount = Cardinality(Slots \ live)

=============================================================================
