-------------------------- MODULE Standalone_proofs -------------------------
(***************************************************************************)
(* Proofs about the parts that stand by themselves: the pool, for every    *)
(* capacity, the arena, for every buffer, size and alignment, trailing     *)
(* stops, for every price, the intrusive lists, for any number of lists    *)
(* and orders: that they are the queues of FifoLists.tla, and the metrics, *)
(* for any number of threads, calls and buckets.                           *)
(***************************************************************************)
EXTENDS MCStandalone, NumberLemmas, FiniteSetTheorems, TLAPS

-----------------------------------------------------------------------------
(***************************************************************************)
(* The pool.                                                               *)
(***************************************************************************)
(***************************************************************************)
(* Popping the back of a list whose elements are distinct takes exactly    *)
(* that element off it.                                                    *)
(***************************************************************************)
LEMMA PopBackProperties ==
  ASSUME NEW S, NEW list \in Seq(S), list # << >>
  PROVE  /\ PopBack(list) \in Seq(S)
         /\ Back(list) \in S
         /\ Len(list) \in Nat \ {0}
         /\ Len(PopBack(list)) = Len(list) - 1
         /\ \A i \in 1 .. Len(list) - 1 : PopBack(list)[i] = list[i]
<1>1. Len(list) \in Nat \ {0}
  OBVIOUS
<1>2. Back(list) \in S
  BY <1>1 DEF Back
<1>3. PopBack(list) = [i \in 1 .. Len(list) - 1 |-> list[i]]
  BY <1>1 DEF PopBack
<1> QED
  BY <1>1, <1>2, <1>3

(***************************************************************************)
(* The free list always holds slots of the pool (lines 21-32, 51-67).      *)
(***************************************************************************)
LEMMA TypeInvariance == Spec => []TypeOK
<1>1. Init => TypeOK
  BY CapacityAssumption DEF Init, TypeOK, Slots
<1>2. TypeOK /\ [Next]_vars => TypeOK'
  <2> SUFFICES ASSUME TypeOK, [Next]_vars
               PROVE  TypeOK'
    OBVIOUS
  <2>1. ASSUME NEW ptr \in Slots, Allocate(ptr)
        PROVE  TypeOK'
    BY <2>1, PopBackProperties DEF TypeOK, Allocate
  <2>2. ASSUME NEW ptr \in Slots, Deallocate(ptr)
        PROVE  TypeOK'
    BY <2>2 DEF TypeOK, Deallocate, PushBack
  <2>3. CASE UNCHANGED vars
    BY <2>3 DEF TypeOK, vars
  <2> QED
    BY <2>1, <2>2, <2>3 DEF Next
<1> QED
  BY <1>1, <1>2, PTL DEF Spec

(***************************************************************************)
(* Two facts about the free list that the steps of the proof of            *)
(* PoolPartition need: what a pop and a push do to the set of its slots.   *)
(***************************************************************************)
LEMMA AllocateKeepsPartition ==
  ASSUME TypeOK, PoolPartition, NEW ptr \in Slots, Allocate(ptr)
  PROVE  PoolPartition'
<1>1. /\ free_list \in Seq(Slots)
      /\ free_list # << >>
      /\ ptr = free_list[Len(free_list)]
      /\ live' = live \cup {ptr}
  BY DEF TypeOK, Allocate, Back
<1>2. /\ Len(free_list) \in Nat \ {0}
      /\ Len(free_list') = Len(free_list) - 1
      /\ \A i \in 1 .. Len(free_list) - 1 : free_list'[i] = free_list[i]
  BY <1>1, PopBackProperties DEF Allocate
<1>3. FreeOnce'
  BY <1>2 DEF FreeOnce, PoolPartition
<1>4. \A i \in 1 .. Len(free_list) - 1 : free_list[i] # ptr
  BY <1>1, <1>2 DEF FreeOnce, PoolPartition
<1>5. {free_list'[i] : i \in 1 .. Len(free_list')}
        = {free_list[i] : i \in 1 .. Len(free_list)} \ {ptr}
  BY <1>1, <1>2, <1>4
<1>6. FreeIsNotLive'
  BY <1>1, <1>5 DEF FreeIsNotLive, PoolPartition
<1> QED
  BY <1>3, <1>6 DEF PoolPartition

LEMMA DeallocateKeepsPartition ==
  ASSUME TypeOK, PoolPartition, NEW ptr \in Slots, Deallocate(ptr)
  PROVE  PoolPartition'
<1>1. /\ free_list \in Seq(Slots)
      /\ ptr \in live
      /\ live' = live \ {ptr}
      /\ free_list' = Append(free_list, ptr)
  BY DEF TypeOK, Deallocate, PushBack
<1>2. /\ Len(free_list) \in Nat
      /\ Len(free_list') = Len(free_list) + 1
      /\ \A i \in 1 .. Len(free_list) : free_list'[i] = free_list[i]
      /\ free_list'[Len(free_list) + 1] = ptr
  BY <1>1
<1>3. \A i \in 1 .. Len(free_list) : free_list[i] # ptr
  BY <1>1 DEF PoolPartition, FreeIsNotLive
<1>4. FreeOnce'
  BY <1>2, <1>3 DEF FreeOnce, PoolPartition
<1>5. {free_list'[i] : i \in 1 .. Len(free_list')}
        = {free_list[i] : i \in 1 .. Len(free_list)} \cup {ptr}
  BY <1>1, <1>2
<1>6. FreeIsNotLive'
  BY <1>1, <1>5 DEF FreeIsNotLive, PoolPartition
<1> QED
  BY <1>4, <1>6 DEF PoolPartition

(***************************************************************************)
(* For a client that gives back only what it holds, the pool never hands   *)
(* out a slot that is in use and never loses one (MemoryPool.h:51-67).     *)
(***************************************************************************)
THEOREM PoolPartitionInvariance == Spec => []PoolPartition
<1>1. Init => PoolPartition
  BY CapacityAssumption
     DEF Init, PoolPartition, FreeOnce, FreeIsNotLive, Slots
<1>2. TypeOK /\ PoolPartition /\ [Next]_vars => PoolPartition'
  <2> SUFFICES ASSUME TypeOK, PoolPartition, [Next]_vars
               PROVE  PoolPartition'
    OBVIOUS
  <2>1. CASE UNCHANGED vars
    BY <2>1 DEF PoolPartition, FreeOnce, FreeIsNotLive, vars
  <2> QED
    BY <2>1, AllocateKeepsPartition, DeallocateKeepsPartition DEF Next
<1> QED
  BY <1>1, <1>2, TypeInvariance, PTL DEF Spec

(***************************************************************************)
(* The pool's statistics are exact: free and allocated slots add up to the *)
(* capacity and allocated_count() is the number of slots in use (lines     *)
(* 70-72).                                                                 *)
(***************************************************************************)
LEMMA SlotsFinite ==
  /\ IsFiniteSet(Slots)
  /\ Cardinality(Slots) = Capacity
BY CapacityAssumption, FS_Interval, 1 \in Int DEF Slots

THEOREM CountsInvariance == Spec => []CountsAreExact
<1> DEFINE Sum == Len(free_list) + Cardinality(live) = Capacity
<1>1. Init => Sum
  BY CapacityAssumption, FS_EmptySet DEF Init
<1>2. TypeOK /\ PoolPartition /\ Sum /\ [Next]_vars => Sum'
  <2> SUFFICES ASSUME TypeOK, PoolPartition, Sum, [Next]_vars
               PROVE  Sum'
    OBVIOUS
  <2>1. IsFiniteSet(live) /\ Cardinality(live) \in Nat
    BY SlotsFinite, FS_Subset, FS_CardinalityType DEF TypeOK
  <2>2. ASSUME NEW ptr \in Slots, Allocate(ptr)
        PROVE  Sum'
    <3>1. ptr \notin live
      <4>1. Len(free_list) \in 1 .. Len(free_list)
        BY <2>2, PopBackProperties DEF TypeOK, Allocate
      <4> QED
        BY <2>2, <4>1 DEF Allocate, Back, PoolPartition, FreeIsNotLive
    <3>2. Cardinality(live') = Cardinality(live) + 1
      BY <2>1, <2>2, <3>1, FS_AddElement DEF Allocate
    <3>3. Len(free_list') = Len(free_list) - 1
      BY <2>2, PopBackProperties DEF TypeOK, Allocate
    <3> QED
      BY <2>1, <3>2, <3>3 DEF TypeOK
  <2>3. ASSUME NEW ptr \in Slots, Deallocate(ptr)
        PROVE  Sum'
    <3>1. Cardinality(live') = Cardinality(live) - 1
      BY <2>1, <2>3, FS_RemoveElement DEF Deallocate
    <3>2. Len(free_list') = Len(free_list) + 1
      BY <2>3 DEF TypeOK, Deallocate, PushBack
    <3> QED
      BY <2>1, <3>1, <3>2 DEF TypeOK
  <2>4. CASE UNCHANGED vars
    BY <2>4 DEF vars
  <2> QED
    BY <2>2, <2>3, <2>4 DEF Next
<1>3. TypeOK /\ Sum => CountsAreExact
  <2> SUFFICES ASSUME TypeOK, Sum
               PROVE  CountsAreExact
    OBVIOUS
  <2>1. IsFiniteSet(live) /\ Cardinality(live) \in Nat
    BY SlotsFinite, FS_Subset, FS_CardinalityType DEF TypeOK
  <2>2. Slots \cap live = live
    BY DEF TypeOK
  <2>3. Cardinality(Slots \ live)
          = Cardinality(Slots) - Cardinality(Slots \cap live)
    BY SlotsFinite, FS_Difference, Zenon
  <2>4. Cardinality(Slots \ live) = Capacity - Cardinality(live)
    <3>1. Cardinality(Slots \cap live) = Cardinality(live)
      BY <2>2
    <3> QED
      BY <2>3, <3>1, SlotsFinite
  <2>5. Len(free_list) \in Nat
    BY DEF TypeOK
  <2> QED
    BY <2>1, <2>4, <2>5, CapacityAssumption
       DEF CountsAreExact, AllocatedCount, FreeCount, TypeOK
<1> QED
  BY <1>1, <1>2, <1>3, TypeInvariance, PoolPartitionInvariance, PTL DEF Spec

-----------------------------------------------------------------------------
(***************************************************************************)
(* The arena.                                                              *)
(***************************************************************************)
\* Rounding up to a multiple: it is one, and not more than one step away.
LEMMA AlignUpProperties ==
  ASSUME NEW at \in Nat, NEW alignment \in Nat \ {0}
  PROVE  /\ Arena!AlignUp(at, alignment) \in Nat
         /\ at <= Arena!AlignUp(at, alignment)
         /\ Arena!AlignUp(at, alignment) < at + alignment
         /\ Arena!AlignUp(at, alignment) % alignment = 0
<1>1. PICK n \in Nat : n = at + alignment - 1
  OBVIOUS
<1>2. /\ n \div alignment \in Nat
      /\ n % alignment \in 0 .. alignment - 1
      /\ n = alignment * (n \div alignment) + (n % alignment)
  BY Division
<1>3. PICK d \in Nat : d = n \div alignment
  BY <1>2
<1>4. PICK r \in 0 .. alignment - 1 : r = n % alignment
  BY <1>2
<1>5. Arena!AlignUp(at, alignment) = d * alignment
  BY <1>1, <1>3 DEF Arena!AlignUp
<1>6. d * alignment = alignment * d /\ d * alignment \in Nat
  BY SMTT(30)
<1>7. n = alignment * d + r
  BY <1>2, <1>3, <1>4
<1>8. PICK m \in Nat : m = d * alignment
  BY <1>6
<1>9. m = n - r
  BY <1>6, <1>7, <1>8
<1>10. (d * alignment) % alignment = 0
  BY MultipleLeavesNothing
<1>11. Arena!AlignUp(at, alignment) % alignment = 0
  BY <1>5, <1>10
<1>12. at <= m /\ m < at + alignment
  BY <1>1, <1>9
<1> QED
  BY <1>5, <1>8, <1>11, <1>12

\* The part of BlocksAreApart that is about addresses follows from what is
\* true of the offsets.
ArenaInv ==
  /\ Arena!TypeOK
  /\ \A a \in blocks : a.from + a.size <= offset /\ a.from % a.alignment = 0
  /\ \A a, b \in blocks : a # b => Arena!Apart(a, b)

\* What the proofs use of the contract of allocate().
LEMMA ArenaContract ==
  /\ capacity \in Nat /\ SizeModulus \in Nat
  /\ Sizes \subseteq Nat /\ Alignments \subseteq Nat \ {0}
  /\ buffer \in Nat /\ BUFFER_ALIGNMENT \in Nat \ {0}
  /\ buffer % BUFFER_ALIGNMENT = 0
  /\ \A bytes \in Sizes, alignment \in Alignments :
       capacity + alignment + bytes < SizeModulus
BY ContractAssumption DEF Arena!ArenaAssumption

\* Leaving no rest is being a multiple.
LEMMA IsMultiple ==
  ASSUME NEW n \in Nat, NEW q \in Nat \ {0}, n % q = 0
  PROVE  \E k \in Nat : n = k * q
<1>1. n \div q \in Nat /\ n = q * (n \div q) + (n % q)
  BY Division
<1>2. PICK k \in Nat : k = n \div q
  BY <1>1
<1>3. q * k \in Nat /\ k * q = q * k
  BY SMTT(30)
<1>4. n = q * k + 0
  BY <1>1, <1>2
<1> QED
  BY <1>3, <1>4

\* What the buffer is aligned to, an aligned offset in it is aligned to.
LEMMA AddressIsAligned ==
  ASSUME NEW from \in Nat, NEW alignment \in Nat \ {0},
         from % alignment = 0, BUFFER_ALIGNMENT % alignment = 0
  PROVE  (buffer + from) % alignment = 0
<1>1. PICK k \in Nat : from = k * alignment
  BY IsMultiple
<1>2. PICK m \in Nat : BUFFER_ALIGNMENT = m * alignment
  BY ArenaContract, IsMultiple
<1>3. PICK j \in Nat : buffer = j * BUFFER_ALIGNMENT
  BY ArenaContract, IsMultiple
<1>4. PICK n \in Nat : n = j * m
  BY SMTT(30)
<1>5. buffer = n * alignment
  <2>1. buffer = j * (m * alignment)
    BY <1>2, <1>3
  <2>2. j * (m * alignment) = (j * m) * alignment
    BY SMTT(30)
  <2> QED
    BY <1>4, <2>1, <2>2
<1>6. buffer + from = (n + k) * alignment
  <2>1. (n + k) * alignment = n * alignment + k * alignment
    BY SMTT(30)
  <2> QED
    BY <1>1, <1>5, <2>1
<1> QED
  BY <1>6, MultipleLeavesNothing

LEMMA ArenaInitial ==
  ASSUME Arena!Init
  PROVE  ArenaInv
BY ArenaContract
   DEF Arena!Init, ArenaInv, Arena!TypeOK

\* A new block lies beyond every other, and the sum that is compared with the
\* capacity does not wrap.
LEMMA AllocateKeepsApart ==
  ASSUME ArenaInv,
         NEW request_size \in Sizes, NEW request_alignment \in Alignments,
         Arena!Allocate(request_size, request_alignment)
  PROVE  /\ offset' \in 0 .. capacity
         /\ blocks' \subseteq Arena!Block
         /\ blocks' = blocks \cup
                        {Arena!NewBlock(request_size, request_alignment)}
         /\ \A a \in blocks' : /\ a.from + a.size <= offset'
                                /\ a.from % a.alignment = 0
         /\ \A a, c \in blocks' : a # c => Arena!Apart(a, c)
<1> DEFINE b == Arena!NewBlock(request_size, request_alignment)
<1>1. /\ offset \in Nat /\ offset <= capacity
      /\ capacity \in Nat /\ SizeModulus \in Nat
      /\ request_size \in Nat /\ request_alignment \in Nat \ {0}
      /\ capacity + request_alignment + request_size < SizeModulus
  BY ArenaContract DEF ArenaInv, Arena!TypeOK
<1>2. PICK from \in Nat : from = Arena!AlignUp(offset, request_alignment)
  BY <1>1, AlignUpProperties
<1>3. /\ offset <= from /\ from < offset + request_alignment
      /\ from % request_alignment = 0
  BY <1>1, <1>2, AlignUpProperties
<1>4. b = [from |-> from, size |-> request_size,
           alignment |-> request_alignment]
  BY <1>2 DEF Arena!NewBlock
<1>5. (from + request_size) % SizeModulus = from + request_size
  BY <1>1, <1>3
<1>6. /\ offset' = from + request_size
      /\ from + request_size <= capacity
      /\ blocks' = blocks \cup {b}
  BY <1>4, <1>5 DEF Arena!Allocate, Arena!Fits
<1>7. offset' \in 0 .. capacity
  BY <1>1, <1>6
<1>8. blocks' \subseteq Arena!Block
  BY <1>1, <1>4, <1>6 DEF ArenaInv, Arena!TypeOK, Arena!Block
<1>9. \A a \in blocks : /\ a.from \in Nat /\ a.size \in Nat
                        /\ a.from + a.size <= offset
                        /\ a.from % a.alignment = 0
  <2>1. ASSUME NEW a \in blocks
        PROVE  a.from \in Nat /\ a.size \in Nat
    <3>1. a \in [from : 0 .. capacity, size : Sizes, alignment : Alignments]
      BY DEF ArenaInv, Arena!TypeOK, Arena!Block
    <3>2. a.from \in 0 .. capacity /\ a.size \in Sizes
      BY <3>1
    <3>3. Sizes \subseteq Nat
      BY ArenaContract
    <3>4. a.size \in Nat
      BY <3>2, <3>3
    <3>5. a.from \in Nat
      BY <1>1, <3>2
    <3> QED
      BY <3>4, <3>5
  <2>2. \A a \in blocks : /\ a.from + a.size <= offset
                          /\ a.from % a.alignment = 0
    BY DEF ArenaInv
  <2> QED
    BY <2>1, <2>2
<1>10. \A a \in blocks : a.from + a.size <= from
  BY <1>1, <1>3, <1>9
<1>11. \A a \in blocks' : /\ a.from + a.size <= offset'
                          /\ a.from % a.alignment = 0
  BY <1>1, <1>3, <1>4, <1>6, <1>9, <1>10
<1>12. \A a, c \in blocks : a # c => Arena!Apart(a, c)
  BY DEF ArenaInv
<1>13. \A a \in blocks : Arena!Apart(a, b) /\ Arena!Apart(b, a)
  BY <1>4, <1>10 DEF Arena!Apart
<1>14. \A a, c \in blocks' : a # c => Arena!Apart(a, c)
  BY <1>6, <1>12, <1>13
<1> QED
  BY <1>6, <1>7, <1>8, <1>11, <1>14

LEMMA ArenaStepKeepsInv ==
  ASSUME ArenaInv, Arena!Next
  PROVE  ArenaInv'
<1>1. ASSUME NEW request_size \in Sizes, NEW request_alignment \in Alignments,
             Arena!Allocate(request_size, request_alignment), UNCHANGED scoped
      PROVE  ArenaInv'
  BY <1>1, AllocateKeepsApart DEF ArenaInv, Arena!TypeOK
<1>2. ASSUME NEW request_size \in Sizes, NEW request_alignment \in Alignments,
             Arena!Enter(request_size, request_alignment)
      PROVE  ArenaInv'
  <2>1. Arena!Allocate(request_size, request_alignment)
    BY <1>2 DEF Arena!Enter
  <2>2. scoped' = scoped \cup
                    {Arena!NewBlock(request_size, request_alignment)}
    BY <1>2 DEF Arena!Enter
  <2> QED
    BY <2>1, <2>2, AllocateKeepsApart DEF ArenaInv, Arena!TypeOK
<1>3. ASSUME NEW block \in scoped, Arena!Leave(block)
      PROVE  ArenaInv'
  BY <1>3 DEF Arena!Leave, ArenaInv, Arena!TypeOK
<1>4. CASE Arena!Reset
  BY <1>4, ArenaContract
     DEF Arena!Reset, ArenaInv, Arena!TypeOK
<1> QED
  BY <1>1, <1>2, <1>3, <1>4 DEF Arena!Next

LEMMA ArenaInvariance == StandaloneSpec => []ArenaInv
<1>1. StandaloneInit => ArenaInv
  BY ArenaInitial DEF StandaloneInit, ContainersInit
<1>2. ArenaInv
        /\ [StandaloneNext]_<<containersVars, metricsVars, orderVars, part>>
        => ArenaInv'
  <2> SUFFICES ASSUME ArenaInv,
               [StandaloneNext]_<<containersVars, metricsVars, orderVars, part>>
               PROVE  ArenaInv'
    OBVIOUS
  <2>1. CASE UNCHANGED arenaVars
    BY <2>1 DEF arenaVars, ArenaInv, Arena!TypeOK
  <2>2. CASE Arena!Next
    BY <2>2, ArenaStepKeepsInv
  <2>3. UNCHANGED arenaVars \/ Arena!Next
    BY DEF StandaloneNext, ContainersStep, PoolStep, ListStep, ArenaStep,
           MetricsStep, OrderStep, containersVars
  <2> QED
    BY <2>1, <2>2, <2>3
<1> QED
  BY <1>1, <1>2, PTL DEF StandaloneSpec

\* Whatever the capacity, the sizes and the alignments, the blocks of the arena
\* lie inside the buffer and no two share a byte; the address of a block has
\* the alignment asked for when it divides that of the buffer
\* (ArenaAllocator.h:19-26, 39-51, 74-92).
THEOREM ArenaBlocksStayApart == StandaloneSpec => []BlocksAreApart
<1>1. ArenaInv => BlocksAreApart
  <2> SUFFICES ASSUME ArenaInv PROVE Arena!BlocksAreApart
    BY DEF BlocksAreApart
  <2>1. ASSUME NEW a \in blocks, BUFFER_ALIGNMENT % a.alignment = 0
        PROVE  Arena!Address(a) % a.alignment = 0
    <3>1. /\ a.from \in 0 .. capacity /\ a.alignment \in Alignments
          /\ a.from % a.alignment = 0
      BY DEF ArenaInv, Arena!TypeOK, Arena!Block
    <3>2. PICK from \in Nat : from = a.from
      BY <3>1, ArenaContract
    <3>3. PICK alignment \in Nat \ {0} : alignment = a.alignment
      BY <3>1, ArenaContract
    <3>4. (buffer + from) % alignment = 0
      BY <2>1, <3>1, <3>2, <3>3, AddressIsAligned
    <3> QED
      BY <3>2, <3>3, <3>4 DEF Arena!Address
  <2> QED
    BY <2>1 DEF ArenaInv, Arena!BlocksAreApart
<1> QED
  BY <1>1, ArenaInvariance, PTL

-----------------------------------------------------------------------------
(***************************************************************************)
(* Trailing stops.  Where the activation price stands is a function of     *)
(* where it started and of the best price since: the invariant says which. *)
(***************************************************************************)
Trailed ==
  IF order.side = "BUY"
    THEN Conditional!Higher(order.activation_price,
                            peak - order.trail_amount)
    ELSE IF order.activation_price = 0 THEN trough + order.trail_amount
         ELSE Conditional!Lower(order.activation_price,
                                trough + order.trail_amount)

\* Either no price counted yet, or the extremes are prices that did.
TrailInv ==
  /\ order \in ConditionalOrders
  /\ \/ peak = 0 /\ trough = 0
     \/ peak \in MarketPrices /\ trough \in MarketPrices
  /\ order.order_type = "TRAILING_STOP" =>
       /\ activation_price =
            IF peak = 0 THEN order.activation_price ELSE Trailed
       /\ price # 0 =>
            /\ is_active => peak # 0
            /\ fired <=>
                 /\ is_active
                 /\ IF order.side = "BUY" THEN price <= Trailed
                    ELSE price >= Trailed

\* What the proofs use of the orders and of the prices.
LEMMA OrderTerms ==
  /\ MarketPrices \subseteq Nat \ {0}
  /\ \A o \in ConditionalOrders : /\ o.trail_amount \in Nat
                                  /\ o.activation_price \in Nat
                                  /\ o.side \in {"BUY", "SELL"}
BY PartsAssumption DEF Conditional!OrdersAssumption

\* Where should_activate() leaves the activation price of a trailing stop that
\* is active.
LEMMA TrailFollowsTheBest ==
  ASSUME TrailInv, order.order_type = "TRAILING_STOP", is_active,
         NEW p \in MarketPrices, Conditional!ShouldActivate(p)
  PROVE  activation_price' = Trailed'
<1>1. PICK trail \in Nat : trail = order.trail_amount
  BY OrderTerms DEF TrailInv
<1>2. PICK start \in Nat : start = order.activation_price
  BY OrderTerms DEF TrailInv
<1>3. /\ p \in Nat /\ p > 0 /\ order' = order
      /\ order.side \in {"BUY", "SELL"}
      /\ activation_price' = Conditional!Trail(p)
      /\ peak' = IF p > peak THEN p ELSE peak
      /\ trough' = IF trough = 0 \/ p < trough THEN p ELSE trough
  <2>1. Conditional!Considered
    BY DEF Conditional!Considered, Conditional!IsConditional
  <2> QED
    BY <2>1, OrderTerms DEF TrailInv, Conditional!ShouldActivate
<1>4. CASE peak = 0 /\ trough = 0 /\ activation_price = start
  <2>1. peak' = p /\ trough' = p
    BY <1>3, <1>4
  <2> QED
    BY <1>1, <1>2, <1>3, <1>4, <2>1
       DEF Conditional!Trail, Trailed, Conditional!Higher, Conditional!Lower
<1>5. CASE /\ peak \in MarketPrices /\ trough \in MarketPrices
           /\ activation_price = Trailed
  <2>1. peak \in Nat /\ peak > 0 /\ trough \in Nat /\ trough > 0
    BY <1>5, OrderTerms
  <2>2. CASE order.side = "BUY"
    <3>1. activation_price = IF start > peak - trail THEN start
                             ELSE peak - trail
      BY <1>1, <1>2, <1>5, <2>2 DEF Trailed, Conditional!Higher
    <3>2. activation_price' = IF p - trail > activation_price THEN p - trail
                              ELSE activation_price
      BY <1>1, <1>3, <2>2 DEF Conditional!Trail
    <3>3. Trailed' = IF start > peak' - trail THEN start ELSE peak' - trail
      BY <1>1, <1>2, <1>3, <2>2 DEF Trailed, Conditional!Higher
    <3> QED
      BY <1>3, <2>1, <3>1, <3>2, <3>3
  <2>3. CASE order.side = "SELL"
    <3>1. activation_price = IF start = 0 \/ trough + trail <= start
                             THEN trough + trail ELSE start
      BY <1>1, <1>2, <1>5, <2>1, <2>3 DEF Trailed, Conditional!Lower
    <3>2. activation_price' =
            IF p + trail < activation_price \/ activation_price = 0
            THEN p + trail ELSE activation_price
      BY <1>1, <1>3, <2>3 DEF Conditional!Trail
    <3>3. Trailed' = IF start = 0 THEN trough' + trail
                     ELSE IF start < trough' + trail THEN start
                          ELSE trough' + trail
      BY <1>1, <1>2, <1>3, <2>3 DEF Trailed, Conditional!Lower
    <3>4. trough' \in Nat
      BY <1>3, <2>1
    <3> QED
      BY <1>3, <2>1, <3>1, <3>2, <3>3, <3>4
  <2> QED
    BY <1>3, <2>2, <2>3
<1> QED
  BY <1>2, <1>4, <1>5, OrderTerms DEF TrailInv

LEMMA ShouldActivateKeepsTrail ==
  ASSUME TrailInv, NEW p \in MarketPrices, Conditional!ShouldActivate(p)
  PROVE  TrailInv'
<1>1. /\ order' = order /\ order \in ConditionalOrders
      /\ price' = p /\ is_active' = is_active
  BY DEF TrailInv, Conditional!ShouldActivate
<1>2. p \in Nat /\ p # 0
  BY OrderTerms
<1>3. CASE ~Conditional!Considered
  <2>1. fired' = FALSE /\ UNCHANGED <<activation_price, peak, trough>>
    BY <1>3 DEF Conditional!ShouldActivate
  <2>2. order.order_type = "TRAILING_STOP" => ~is_active
    BY <1>3 DEF Conditional!Considered, Conditional!IsConditional
  <2>3. Trailed' = Trailed
    BY <1>1, <2>1 DEF Trailed
  <2> QED
    BY <1>1, <2>1, <2>2, <2>3 DEF TrailInv
<1>4. CASE Conditional!Considered
  <2>1. /\ is_active
        /\ peak' = IF p > peak THEN p ELSE peak
        /\ trough' = IF trough = 0 \/ p < trough THEN p ELSE trough
    BY <1>4 DEF Conditional!ShouldActivate, Conditional!Considered
  <2>2. peak' \in MarketPrices /\ trough' \in MarketPrices
    BY <1>2, <2>1 DEF TrailInv
  <2>3. peak' # 0
    BY <2>2, OrderTerms
  <2>4. ASSUME order.order_type = "TRAILING_STOP"
        PROVE  activation_price' = Trailed'
    BY <2>1, <2>4, TrailFollowsTheBest
  <2>5. ASSUME order.order_type = "TRAILING_STOP"
        PROVE  fired' <=> IF order.side = "BUY" THEN p <= Trailed'
                          ELSE p >= Trailed'
    <3>1. fired' = Conditional!Activates(p, activation_price')
      BY <1>4 DEF Conditional!ShouldActivate
    <3>2. Conditional!Activates(p, activation_price') =
            IF order.side = "BUY" THEN p <= activation_price'
            ELSE p >= activation_price'
      BY <2>5 DEF Conditional!Activates
    <3> QED
      BY <2>4, <2>5, <3>1, <3>2
  <2> QED
    BY <1>1, <2>1, <2>2, <2>3, <2>4, <2>5 DEF TrailInv
<1> QED
  BY <1>3, <1>4

LEMMA TrailStepKeepsInv ==
  ASSUME TrailInv, Conditional!Next
  PROVE  TrailInv'
<1>1. CASE Conditional!Switch
  BY <1>1 DEF Conditional!Switch, TrailInv, Trailed
<1>2. ASSUME NEW p \in MarketPrices, Conditional!ShouldActivate(p)
      PROVE  TrailInv'
  BY <1>2, ShouldActivateKeepsTrail
<1> QED
  BY <1>1, <1>2 DEF Conditional!Next

LEMMA TrailInvariance == StandaloneSpec => [](part = "order" => TrailInv)
<1>1. StandaloneInit => (part = "order" => TrailInv)
  BY DEF StandaloneInit, Conditional!Init, TrailInv
<1>2. (part = "order" => TrailInv)
        /\ [StandaloneNext]_<<containersVars, metricsVars, orderVars, part>>
        => (part = "order" => TrailInv)'
  <2> SUFFICES ASSUME part = "order" => TrailInv, part' = "order",
               [StandaloneNext]_<<containersVars, metricsVars, orderVars, part>>
               PROVE  TrailInv'
    OBVIOUS
  <2>1. CASE UNCHANGED orderVars /\ TrailInv
    BY <2>1 DEF orderVars, TrailInv, Trailed
  <2>2. CASE Conditional!Next /\ TrailInv
    BY <2>2, TrailStepKeepsInv
  <2>3. part = "order" /\ (UNCHANGED orderVars \/ Conditional!Next)
    BY DEF StandaloneNext, ContainersStep, PoolStep, ListStep, ArenaStep,
           MetricsStep, OrderStep, containersVars
  <2> QED
    BY <2>1, <2>2, <2>3
<1> QED
  BY <1>1, <1>2, PTL DEF StandaloneSpec

\* For every set of orders and every sequence of prices and of switching off
\* and on, an active trailing stop fires exactly when the market has come back
\* by trail_amount from its best price since, and one switched off never does
\* (OrderTypes.h:79-112).
THEOREM TrailingStopFiresOnReversal == StandaloneSpec => []TrailFiresOnReversal
<1>1. (part = "order" => TrailInv) => TrailFiresOnReversal
  <2> SUFFICES ASSUME TrailInv,
                      order.order_type = "TRAILING_STOP", price # 0
               PROVE  fired <=>
                        /\ is_active
                        /\ IF order.side = "BUY"
                             THEN price <= Conditional!Higher(
                                    order.activation_price,
                                    peak - order.trail_amount)
                             ELSE price >=
                               IF order.activation_price = 0
                                 THEN trough + order.trail_amount
                                 ELSE Conditional!Lower(
                                        order.activation_price,
                                        trough + order.trail_amount)
    BY DEF TrailFiresOnReversal, Conditional!TrailFiresOnReversal
  <2>1. fired <=> /\ is_active
                  /\ IF order.side = "BUY" THEN price <= Trailed
                     ELSE price >= Trailed
    BY DEF TrailInv
  <2> QED
    BY <2>1 DEF Trailed
<1> QED
  BY <1>1, TrailInvariance, PTL

-----------------------------------------------------------------------------
(***************************************************************************)
(* The lists.  The links of an order do not tell which list it is on, and  *)
(* those of an order that clear() left are stale.  What holds is that the  *)
(* orders an iteration meets form a chain, linked both ways and ended on   *)
(* both sides, and that no order is on two chains: so the links that an    *)
(* operation on one list overwrites are of no other.                       *)
(***************************************************************************)
\* The i-th order of a sequence, no order beyond its ends.
At(s, i) == IF i \in 1 .. Len(s) THEN s[i] ELSE NoLink

\* The members of list l are those of s, in this order.
IsChain(l, s) ==
  /\ s \in Seq(Orders)
  /\ \A i, j \in 1 .. Len(s) : s[i] = s[j] => i = j
  /\ size[l] = Len(s)
  /\ head[l] = At(s, 1)
  /\ tail[l] = At(s, Len(s))
  /\ \A i \in 1 .. Len(s) : next[s[i]] = At(s, i + 1)
  /\ \A i \in 1 .. Len(s) : prev[s[i]] = At(s, i - 1)

ListTyped ==
  /\ head \in [Lists -> Orders \cup {NoLink}]
  /\ tail \in [Lists -> Orders \cup {NoLink}]
  /\ size \in [Lists -> Nat]
  /\ next \in [Orders -> Orders \cup {NoLink}]
  /\ prev \in [Orders -> Orders \cup {NoLink}]

NoneShared(s, t) == \A i \in 1 .. Len(s), j \in 1 .. Len(t) : s[i] # t[j]

ListInv ==
  /\ ListTyped
  /\ \A l \in Lists : IsChain(l, List!Traversal(l))
  /\ \A l, m \in Lists :
       l # m => NoneShared(List!Traversal(l), List!Traversal(m))

\* The lists count as this module does.
LEMMA SameCount ==
  /\ \A S : List!Cardinality(S) = Cardinality(S)
  /\ \A S : List!IsFiniteSet(S) <=> IsFiniteSet(S)
BY DEF List!Cardinality, Cardinality, List!IsFiniteSet, IsFiniteSet

LEMMA ListTerms ==
  /\ NoLink \notin Orders
  /\ IsFiniteSet(Orders)
  /\ Cardinality(Orders) \in Nat
  /\ SizeModulus \in Nat
  /\ Cardinality(Orders) < SizeModulus
<1>1. IsFiniteSet(Orders) /\ Cardinality(Orders) \in Nat
  BY ContractAssumption, SameCount, FS_CardinalityType DEF List!ListAssumption
<1> QED
  BY <1>1, ContractAssumption, SameCount DEF List!ListAssumption

LEMMA SeqEqual ==
  ASSUME NEW S, NEW s \in Seq(S), NEW t \in Seq(S), Len(s) = Len(t),
         \A i \in 1 .. Len(s) : s[i] = t[i]
  PROVE  s = t
OBVIOUS

\* A sequence without repetition is not longer than there are orders.
LEMMA InjectiveIsShort ==
  ASSUME NEW s \in Seq(Orders),
         \A i, j \in 1 .. Len(s) : s[i] = s[j] => i = j
  PROVE  Len(s) <= Cardinality(Orders)
<1>1. s \in Injection(1 .. Len(s), Orders)
  BY DEF Injection, IsInjective
<1>2. Cardinality(1 .. Len(s)) <= Cardinality(Orders)
  BY <1>1, FS_Injection, ListTerms
<1>3. Cardinality(1 .. Len(s)) = Len(s)
  <2>1. Len(s) \in Nat
    OBVIOUS
  <2>2. Cardinality(1 .. Len(s)) = IF 1 > Len(s) THEN 0 ELSE Len(s) - 1 + 1
    BY <2>1, FS_Interval
  <2> QED
    BY <2>1, <2>2
<1> QED
  BY <1>2, <1>3

(***************************************************************************)
(* An iteration over a chain meets its members, one after the other.       *)
(***************************************************************************)
LEMMA PositionsOfChain ==
  ASSUME NEW l \in Lists, NEW s, IsChain(l, s)
  PROVE  List!Positions(l) = [i \in 1 .. Cardinality(Orders) |-> At(s, i)]
<1> DEFINE N == Cardinality(Orders)
           Walk(f) == [i \in 1 .. N |->
                         IF i = 1 THEN head[l]
                         ELSE IF f[i - 1] = NoLink THEN NoLink
                         ELSE next[f[i - 1]]]
           g == [i \in 1 .. N |-> At(s, i)]
<1>1. N \in Nat /\ NoLink \notin Orders
  BY ListTerms
<1>2. s \in Seq(Orders) /\ Len(s) \in Nat
  BY DEF IsChain
<1>3. g = Walk(g)
  <2>1. ASSUME NEW i \in 1 .. N
        PROVE  At(s, i) = IF i = 1 THEN head[l]
                          ELSE IF g[i - 1] = NoLink THEN NoLink
                          ELSE next[g[i - 1]]
    <3>1. CASE i = 1
      BY <3>1 DEF IsChain
    <3>2. CASE i # 1
      <4>1. i - 1 \in 1 .. N /\ g[i - 1] = At(s, i - 1)
        BY <1>1, <3>2
      <4>2. CASE i - 1 \in 1 .. Len(s)
        <5>1. g[i - 1] = s[i - 1] /\ s[i - 1] \in Orders
          BY <1>2, <4>1, <4>2 DEF At
        <5>2. next[s[i - 1]] = At(s, (i - 1) + 1)
          BY <4>2 DEF IsChain
        <5>3. (i - 1) + 1 = i
          BY <1>1
        <5> QED
          BY <1>1, <3>2, <5>1, <5>2, <5>3
      <4>3. CASE i - 1 \notin 1 .. Len(s)
        <5>1. g[i - 1] = NoLink
          BY <4>1, <4>3 DEF At
        <5>2. i \notin 1 .. Len(s)
          BY <1>1, <1>2, <3>2, <4>3
        <5> QED
          BY <3>2, <5>1, <5>2 DEF At
      <4> QED
        BY <4>2, <4>3
    <3> QED
      BY <3>1, <3>2
  <2> QED
    BY <2>1
<1>4. List!Positions(l) = CHOOSE f : f = Walk(f)
  BY SameCount DEF List!Positions
<1>5. PICK f : f = Walk(f) /\ f = List!Positions(l)
  BY <1>3, <1>4, Zenon
<1>6. ASSUME NEW i \in 1 .. N, f[i] # g[i]
      PROVE  FALSE
  <2> DEFINE Wrong == {j \in 1 .. N : f[j] # g[j]}
  <2>1. Wrong \in SUBSET Nat /\ Wrong # {}
    BY <1>1, <1>6
  <2>2. PICK j \in Wrong : \A k \in Wrong : j <= k
    BY <2>1, Least
  <2>3. j \in 1 .. N /\ f[j] # g[j]
    BY <2>2
  <2>4. f[j] = IF j = 1 THEN head[l]
               ELSE IF f[j - 1] = NoLink THEN NoLink ELSE next[f[j - 1]]
    BY <1>5, <2>3
  <2>5. g[j] = IF j = 1 THEN head[l]
               ELSE IF g[j - 1] = NoLink THEN NoLink ELSE next[g[j - 1]]
    BY <1>3, <2>3
  <2>6. j # 1 => f[j - 1] = g[j - 1]
    <3>1. j # 1 => j - 1 \in 1 .. N /\ ~(j <= j - 1)
      BY <1>1, <2>3
    <3> QED
      BY <2>2, <3>1
  <2> QED
    BY <2>3, <2>4, <2>5, <2>6
<1>7. f = [i \in 1 .. N |-> f[i]]
  BY <1>5
<1>8. f = g
  BY <1>6, <1>7
<1> QED
  BY <1>5, <1>8

LEMMA TraversalOfChain ==
  \A l \in Lists : \A s : IsChain(l, s) => List!Traversal(l) = s
<1> SUFFICES ASSUME NEW l \in Lists, NEW s, IsChain(l, s)
             PROVE  List!Traversal(l) = s
  OBVIOUS
<1> DEFINE N == Cardinality(Orders)
           position == List!Positions(l)
           met == {i \in 1 .. N : position[i] # NoLink}
<1>1. N \in Nat /\ NoLink \notin Orders
  BY ListTerms
<1>2. s \in Seq(Orders) /\ Len(s) \in Nat /\ Len(s) <= N
  BY InjectiveIsShort DEF IsChain
<1>3. \A i \in 1 .. N : position[i] = At(s, i)
  BY PositionsOfChain
<1>4. met = 1 .. Len(s)
  BY <1>1, <1>2, <1>3 DEF At
<1>5. Cardinality(met) = Len(s)
  <2>1. Cardinality(1 .. Len(s)) = IF 1 > Len(s) THEN 0 ELSE Len(s) - 1 + 1
    BY <1>2, FS_Interval
  <2>2. Cardinality(met) = Cardinality(1 .. Len(s))
    BY <1>4
  <2> QED
    BY <1>2, <2>1, <2>2
<1>6. List!Traversal(l) = [i \in 1 .. Cardinality(met) |-> position[i]]
  BY SameCount DEF List!Traversal
<1>7. List!Traversal(l) = [i \in 1 .. Len(s) |-> s[i]]
  BY <1>1, <1>2, <1>3, <1>5, <1>6 DEF At
<1> QED
  BY <1>2, <1>7

LEMMA TraversalAfterwards ==
  \A l \in Lists : \A s : IsChain(l, s)' => List!Traversal(l)' = s
<1>1. (\A l \in Lists : \A s : IsChain(l, s) => List!Traversal(l) = s)'
  BY TraversalOfChain, PTL
<1> QED
  BY <1>1

\* To keep the invariant a step has to leave chains that share no order.
LEMMA ChainsKeepInv ==
  ASSUME NEW q, ListTyped', \A l \in Lists : IsChain(l, q[l])',
         \A l, m \in Lists : l # m => NoneShared(q[l], q[m])
  PROVE  ListInv'
<1>1. \A l \in Lists : List!Traversal(l)' = q[l]
  BY TraversalAfterwards
<1>2. ASSUME NEW l \in Lists
      PROVE  IsChain(l, List!Traversal(l))'
  <2>1. PICK s : s = q[l]
    OBVIOUS
  <2>2. IsChain(l, s)' /\ List!Traversal(l)' = s
    BY <1>1, <2>1 DEF IsChain, At
  <2> QED
    BY <2>2 DEF IsChain, At
<1>3. ASSUME NEW l \in Lists, NEW m \in Lists, l # m
      PROVE  NoneShared(List!Traversal(l), List!Traversal(m))'
  BY <1>1, <1>3 DEF NoneShared
<1> QED
  BY <1>2, <1>3 DEF ListInv

LEMMA UntouchedChain ==
  ASSUME NEW m \in Lists, NEW s, IsChain(m, s),
         head'[m] = head[m], tail'[m] = tail[m], size'[m] = size[m],
         \A i \in 1 .. Len(s) : next'[s[i]] = next[s[i]],
         \A i \in 1 .. Len(s) : prev'[s[i]] = prev[s[i]]
  PROVE  IsChain(m, s)'
BY DEF IsChain, At

LEMMA InitialChains ==
  ASSUME List!Init
  PROVE  ListInv
<1>1. \A l \in Lists : List!Traversal(l) = << >>
  <2> SUFFICES ASSUME NEW l \in Lists
               PROVE  IsChain(l, << >>)
    BY TraversalOfChain
  <2> QED
    BY DEF List!Init, IsChain, At
<1>2. ListTyped
  BY DEF List!Init, ListTyped
<1>3. ASSUME NEW l \in Lists
      PROVE  IsChain(l, << >>)
  BY DEF List!Init, IsChain, At
<1> QED
  BY <1>1, <1>2, <1>3 DEF ListInv, NoneShared

LEMMA ClearKeepsInv ==
  ASSUME ListInv, NEW l \in Lists, List!Clear(l)
  PROVE  /\ ListInv'
         /\ \A m \in Lists : List!Traversal(m)' =
              IF m = l THEN << >> ELSE List!Traversal(m)
<1>1. PICK q : q = [m \in Lists |-> IF m = l THEN << >>
                                    ELSE List!Traversal(m)]
  OBVIOUS
<1>2. ListTyped'
  BY DEF ListInv, ListTyped, List!Clear
<1>3. ASSUME NEW m \in Lists
      PROVE  IsChain(m, q[m])'
  <2>1. CASE m = l
    <3>1. q[m] = << >>
      BY <1>1, <2>1
    <3>2. head'[l] = NoLink /\ tail'[l] = NoLink /\ size'[l] = 0
      BY DEF List!Clear, ListInv, ListTyped
    <3>3. IsChain(l, << >>)'
      BY <3>2 DEF IsChain, At
    <3> QED
      BY <2>1, <3>1, <3>3 DEF IsChain, At
  <2>2. CASE m # l
    <3>1. q[m] = List!Traversal(m) /\ IsChain(m, q[m])
      BY <1>1, <2>2 DEF ListInv
    <3>2. /\ head'[m] = head[m] /\ tail'[m] = tail[m] /\ size'[m] = size[m]
          /\ next' = next /\ prev' = prev
      BY <2>2 DEF List!Clear, ListInv, ListTyped
    <3> QED
      BY <3>1, <3>2, UntouchedChain
  <2> QED
    BY <2>1, <2>2
<1>4. ASSUME NEW m \in Lists, NEW k \in Lists, m # k
      PROVE  NoneShared(q[m], q[k])
  BY <1>1, <1>4 DEF ListInv, NoneShared
<1>5. ListInv'
  BY <1>2, <1>3, <1>4, ChainsKeepInv
<1>6. \A m \in Lists : List!Traversal(m)' = q[m]
  BY <1>3, TraversalAfterwards
<1> QED
  BY <1>1, <1>5, <1>6

LEMMA PushBackKeepsInv ==
  ASSUME ListInv, NEW l \in Lists, NEW o \in Orders, List!PushBack(l, o)
  PROVE  /\ ListInv'
         /\ \A m \in Lists : List!Traversal(m)' =
              IF m = l THEN Append(List!Traversal(l), o) ELSE List!Traversal(m)
<1>1. PICK s : s = List!Traversal(l)
  OBVIOUS
<1>2. PICK t : t = Append(s, o)
  OBVIOUS
<1>3. PICK q : q = [m \in Lists |-> IF m = l THEN t ELSE List!Traversal(m)]
  OBVIOUS
<1>4. IsChain(l, s) /\ ListTyped
  BY <1>1 DEF ListInv
<1>5. s \in Seq(Orders) /\ Len(s) \in Nat
  BY <1>4 DEF IsChain
<1>6. /\ t \in Seq(Orders) /\ Len(t) = Len(s) + 1
      /\ \A i \in 1 .. Len(s) : t[i] = s[i]
      /\ t[Len(t)] = o
  BY <1>2, <1>5
<1>7. \A m \in Lists : \A i \in 1 .. Len(List!Traversal(m)) :
        List!Traversal(m)[i] # o
  BY DEF List!PushBack, List!Member
<1>8. \A i \in 1 .. Len(s) : s[i] # o
  BY <1>1, <1>7
<1>9. \A i, j \in 1 .. Len(t) : t[i] = t[j] => i = j
  <2>1. \A i, j \in 1 .. Len(s) : s[i] = s[j] => i = j
    BY <1>4 DEF IsChain
  <2>2. \A i \in 1 .. Len(t) : i \in 1 .. Len(s) \/ i = Len(t)
    BY <1>5, <1>6
  <2> QED
    BY <1>6, <1>8, <2>1, <2>2
<1>10. NoLink \notin Orders /\ SizeModulus \in Nat /\ Len(t) < SizeModulus
  <2>1. Len(t) <= Cardinality(Orders)
    BY <1>6, <1>9, InjectiveIsShort
  <2> QED
    BY <1>5, <1>6, <2>1, ListTerms
<1>11. size' = [size EXCEPT ![l] = Len(t)]
  <2>1. size[l] = Len(s)
    BY <1>4 DEF IsChain
  <2>2. (Len(s) + 1) % SizeModulus = Len(t)
    BY <1>5, <1>6, <1>10
  <2> QED
    BY <2>1, <2>2 DEF List!PushBack
<1>12. tail' = [tail EXCEPT ![l] = o]
  BY DEF List!PushBack
<1>13. ASSUME s = << >>
       PROVE  ListTyped' /\ IsChain(l, t)' /\ head'[l] = At(t, 1)
  <2>1. head[l] = NoLink
    BY <1>4, <1>13 DEF IsChain, At
  <2>2. /\ head' = [head EXCEPT ![l] = o]
        /\ next' = [next EXCEPT ![o] = NoLink]
        /\ prev' = [prev EXCEPT ![o] = NoLink]
    BY <2>1 DEF List!PushBack
  <2>3. ListTyped'
    BY <1>4, <1>5, <1>6, <1>11, <1>12, <2>2 DEF ListTyped
  <2>4. Len(t) = 1 /\ t[1] = o
    BY <1>6, <1>13
  <2>5. /\ head'[l] = o /\ tail'[l] = o /\ size'[l] = 1
        /\ next'[o] = NoLink /\ prev'[o] = NoLink
    BY <1>4, <1>11, <1>12, <2>2, <2>4 DEF ListTyped
  <2>6. IsChain(l, t)'
    BY <1>6, <1>9, <2>4, <2>5 DEF IsChain, At
  <2> QED
    BY <2>3, <2>4, <2>5, <2>6 DEF At
<1>14. ASSUME s # << >>
       PROVE  ListTyped' /\ IsChain(l, t)'
  <2>1. Len(s) \in 1 .. Len(s) /\ 1 \in 1 .. Len(s)
    BY <1>5, <1>14
  <2>2. head[l] = s[1] /\ tail[l] = s[Len(s)] /\ head[l] # NoLink
    BY <1>4, <1>5, <1>10, <2>1 DEF IsChain, At
  <2>3. /\ head' = head
        /\ next' = [next EXCEPT ![s[Len(s)]] = o, ![o] = NoLink]
        /\ prev' = [prev EXCEPT ![o] = s[Len(s)]]
    BY <2>2 DEF List!PushBack
  <2>4. s[Len(s)] \in Orders /\ s[Len(s)] # o
    BY <1>5, <1>8, <2>1
  <2>5. next \in [Orders -> Orders \cup {NoLink}]
        /\ prev \in [Orders -> Orders \cup {NoLink}]
    BY <1>4 DEF ListTyped
  <2>6. /\ next' \in [Orders -> Orders \cup {NoLink}]
        /\ \A x \in Orders : next'[x] = IF x = o THEN NoLink
                                        ELSE IF x = s[Len(s)] THEN o
                                        ELSE next[x]
    BY <2>3, <2>4, <2>5
  <2>7. /\ prev' \in [Orders -> Orders \cup {NoLink}]
        /\ \A x \in Orders : prev'[x] = IF x = o THEN s[Len(s)] ELSE prev[x]
    BY <2>3, <2>4, <2>5
  <2>8. ListTyped'
    <3>1. /\ head' \in [Lists -> Orders \cup {NoLink}]
          /\ tail' \in [Lists -> Orders \cup {NoLink}]
      BY <1>4, <1>12, <2>3 DEF ListTyped
    <3>2. size' \in [Lists -> Nat]
      BY <1>4, <1>5, <1>6, <1>11 DEF ListTyped
    <3> QED
      BY <2>6, <2>7, <3>1, <3>2 DEF ListTyped
  <2>9. ASSUME NEW i \in 1 .. Len(t)
        PROVE  next'[t[i]] = At(t, i + 1) /\ prev'[t[i]] = At(t, i - 1)
    <3>1. CASE i = Len(t)
      <4>1. t[i] = o /\ i + 1 \notin 1 .. Len(t)
        BY <1>5, <1>6, <3>1
      <4>2. i - 1 = Len(s) /\ i - 1 \in 1 .. Len(t)
        BY <1>5, <1>6, <2>1, <3>1
      <4>3. t[i - 1] = s[Len(s)]
        BY <1>6, <2>1, <4>2
      <4> QED
        BY <2>6, <2>7, <4>1, <4>2, <4>3 DEF At
    <3>2. CASE i \in 1 .. Len(s)
      <4>1. /\ next[s[i]] = At(s, i + 1) /\ prev[s[i]] = At(s, i - 1)
            /\ s[i] # o /\ t[i] = s[i] /\ s[i] \in Orders
        BY <1>4, <1>5, <1>6, <1>8, <3>2 DEF IsChain
      <4>2. At(t, i - 1) = At(s, i - 1)
        BY <1>5, <1>6, <3>2 DEF At
      <4>3. prev'[t[i]] = At(t, i - 1)
        BY <2>7, <4>1, <4>2
      <4>4. CASE i = Len(s)
        <5>1. At(t, i + 1) = o
          BY <1>5, <1>6, <4>4 DEF At
        <5> QED
          BY <2>6, <4>1, <4>3, <4>4, <5>1
      <4>5. CASE i # Len(s)
        <5>1. s[i] # s[Len(s)]
          BY <1>4, <2>1, <3>2, <4>5 DEF IsChain
        <5>2. At(t, i + 1) = At(s, i + 1)
          BY <1>5, <1>6, <3>2, <4>5 DEF At
        <5> QED
          BY <2>6, <4>1, <4>3, <5>1, <5>2
      <4> QED
        BY <4>4, <4>5
    <3> QED
      BY <1>5, <1>6, <3>1, <3>2
  <2>10. head'[l] = At(t, 1) /\ tail'[l] = At(t, Len(t)) /\ size'[l] = Len(t)
    <3>1. tail'[l] = o /\ size'[l] = Len(t)
      BY <1>4, <1>11, <1>12 DEF ListTyped
    <3> QED
      BY <1>5, <1>6, <2>1, <2>2, <2>3, <3>1 DEF At
  <2>11. IsChain(l, t)'
    BY <1>6, <1>9, <2>9, <2>10 DEF IsChain, At
  <2> QED
    BY <2>8, <2>11
<1>15. ListTyped' /\ IsChain(l, t)'
  BY <1>13, <1>14
<1>16. ASSUME NEW m \in Lists, m # l
       PROVE  IsChain(m, List!Traversal(m)) /\ IsChain(m, q[m])'
  <2>1. PICK u : u = List!Traversal(m)
    OBVIOUS
  <2>2. IsChain(m, u) /\ NoneShared(u, s)
    BY <1>1, <1>16, <2>1 DEF ListInv
  <2>3. u \in Seq(Orders) /\ \A i \in 1 .. Len(u) : u[i] # o
    BY <1>7, <2>1, <2>2 DEF IsChain
  <2>4. /\ head'[m] = head[m] /\ tail'[m] = tail[m] /\ size'[m] = size[m]
    BY <1>4, <1>11, <1>12, <1>16 DEF List!PushBack, ListTyped
  <2>5. tail[l] \in Orders =>
          Len(s) \in 1 .. Len(s) /\ tail[l] = s[Len(s)]
    BY <1>4, <1>10 DEF IsChain, At
  <2>6. ASSUME NEW i \in 1 .. Len(u)
        PROVE  next'[u[i]] = next[u[i]] /\ prev'[u[i]] = prev[u[i]]
    <3>1. u[i] \in Orders /\ u[i] # o /\ u[i] # tail[l]
      BY <2>2, <2>3, <2>5 DEF NoneShared
    <3> QED
      BY <1>4, <3>1 DEF List!PushBack, ListTyped
  <2>7. IsChain(m, u)'
    BY <2>2, <2>4, <2>6, UntouchedChain
  <2>8. q[m] = u
    BY <1>3, <1>16, <2>1
  <2> QED
    BY <2>1, <2>2, <2>7, <2>8 DEF IsChain, At
<1>17. \A m \in Lists : IsChain(m, q[m])'
  <2>1. q[l] = t
    BY <1>3
  <2>2. IsChain(l, q[l])'
    BY <1>15, <2>1 DEF IsChain, At
  <2> QED
    BY <1>16, <2>2
<1>18. ASSUME NEW m \in Lists, NEW k \in Lists, m # k
       PROVE  NoneShared(q[m], q[k])
  <2>1. NoneShared(List!Traversal(m), List!Traversal(k))
    BY <1>18 DEF ListInv
  <2>2. CASE m = l
    <3>1. q[m] = t /\ q[k] = List!Traversal(k)
      BY <1>3, <1>18, <2>2
    <3>2. ASSUME NEW i \in 1 .. Len(t), NEW j \in 1 .. Len(q[k])
          PROVE  t[i] # q[k][j]
      BY <1>1, <1>5, <1>6, <1>7, <2>1, <2>2, <3>1 DEF NoneShared
    <3> QED
      BY <3>1, <3>2 DEF NoneShared
  <2>3. CASE k = l
    <3>1. q[k] = t /\ q[m] = List!Traversal(m)
      BY <1>3, <1>18, <2>3
    <3>2. ASSUME NEW i \in 1 .. Len(q[m]), NEW j \in 1 .. Len(t)
          PROVE  q[m][i] # t[j]
      BY <1>1, <1>5, <1>6, <1>7, <2>1, <2>3, <3>1 DEF NoneShared
    <3> QED
      BY <3>1, <3>2 DEF NoneShared
  <2>4. CASE m # l /\ k # l
    BY <1>3, <2>1, <2>4
  <2> QED
    BY <2>2, <2>3, <2>4
<1>19. ListInv'
  BY <1>15, <1>17, <1>18, ChainsKeepInv
<1>20. \A m \in Lists : List!Traversal(m)' = q[m]
  BY <1>17, TraversalAfterwards
<1> QED
  BY <1>1, <1>2, <1>3, <1>19, <1>20

LEMMA Joined ==
  ASSUME NEW S, NEW a \in Seq(S), NEW b \in Seq(S)
  PROVE  /\ a \o b \in Seq(S) /\ Len(a \o b) = Len(a) + Len(b)
         /\ \A i \in 1 .. Len(a) : (a \o b)[i] = a[i]
         /\ \A i \in 1 .. Len(b) : (a \o b)[Len(a) + i] = b[i]
OBVIOUS

LEMMA SmallRemainder ==
  ASSUME NEW m \in Nat, NEW x \in Nat, x < m
  PROVE  x % m = x
OBVIOUS

\* The sequence without its k-th member.
Without(s, k) ==
  [i \in 1 .. Len(s) - 1 |-> IF i < k THEN s[i] ELSE s[i + 1]]

LEMMA WithoutProperties ==
  ASSUME NEW s \in Seq(Orders), NEW k \in 1 .. Len(s),
         \A i, j \in 1 .. Len(s) : s[i] = s[j] => i = j,
         NEW t, t = Without(s, k)
  PROVE  /\ t \in Seq(Orders) /\ Len(t) = Len(s) - 1 /\ Len(t) \in Nat
         /\ \A i \in 1 .. Len(t) :
              t[i] = IF i < k THEN s[i] ELSE s[i + 1]
         /\ \A i, j \in 1 .. Len(t) : t[i] = t[j] => i = j
         /\ \A i \in 1 .. Len(t) : t[i] # s[k]
<1>1. Len(s) \in Nat /\ k \in Nat /\ 1 <= k /\ k <= Len(s)
  OBVIOUS
<1>2. /\ t \in Seq(Orders) /\ Len(t) = Len(s) - 1 /\ Len(t) \in Nat
      /\ \A i \in 1 .. Len(t) : t[i] = IF i < k THEN s[i] ELSE s[i + 1]
  BY <1>1 DEF Without
<1>3. \A i, j \in 1 .. Len(t) : t[i] = t[j] => i = j
  BY <1>1, <1>2
<1>4. \A i \in 1 .. Len(t) : t[i] # s[k]
  BY <1>1, <1>2
<1> QED
  BY <1>2, <1>3, <1>4

\* Taking a member out leaves what was before it and what was after it.
LEMMA WithoutIsLeave ==
  ASSUME NEW s \in Seq(Orders), NEW k \in 1 .. Len(s)
  PROVE  Without(s, k) = SubSeq(s, 1, k - 1) \o SubSeq(s, k + 1, Len(s))
<1>1. Len(s) \in Nat /\ k \in Nat /\ 1 <= k /\ k <= Len(s)
  OBVIOUS
<1>2. PICK t : t = Without(s, k)
  OBVIOUS
<1>3. /\ t \in Seq(Orders) /\ Len(t) = Len(s) - 1 /\ Len(t) \in Nat
      /\ \A i \in 1 .. Len(t) : t[i] = IF i < k THEN s[i] ELSE s[i + 1]
  BY <1>1, <1>2 DEF Without
<1>4. t = SubSeq(s, 1, k - 1) \o SubSeq(s, k + 1, Len(s))
  <2>1. PICK a : a = SubSeq(s, 1, k - 1)
    OBVIOUS
  <2>2. PICK b : b = SubSeq(s, k + 1, Len(s))
    OBVIOUS
  <2>3. /\ a \in Seq(Orders) /\ Len(a) = k - 1
        /\ \A i \in 1 .. k - 1 : a[i] = s[i]
    BY <1>1, <2>1
  <2>4. /\ b \in Seq(Orders) /\ Len(b) = Len(s) - k
        /\ \A i \in 1 .. Len(s) - k : b[i] = s[k + i]
    <3>1. b = [i \in 1 .. Len(s) - k |-> s[k + i]]
      BY <1>1, <2>2
    <3> QED
      BY <1>1, <3>1
  <2>5. a \o b \in Seq(Orders) /\ Len(a \o b) = Len(t)
    <3>1. a \o b \in Seq(Orders) /\ Len(a \o b) = Len(a) + Len(b)
      BY <2>3, <2>4, Joined
    <3> QED
      BY <1>1, <1>3, <2>3, <2>4, <3>1
  <2>6. ASSUME NEW i \in 1 .. Len(t)
        PROVE  t[i] = (a \o b)[i]
    <3>1. CASE i < k
      <4>1. i \in 1 .. Len(a) /\ a[i] = s[i]
        BY <1>1, <2>3, <3>1
      <4>2. (a \o b)[i] = a[i]
        BY <2>3, <2>4, <4>1, Joined
      <4> QED
        BY <1>3, <3>1, <4>1, <4>2
    <3>2. CASE ~(i < k)
      <4>1. /\ i - (k - 1) \in 1 .. Len(s) - k
            /\ k + (i - (k - 1)) = i + 1
            /\ Len(a) + (i - (k - 1)) = i
        BY SMTT(20), <1>1, <1>3, <2>3, <3>2
      <4>2. (a \o b)[i] = b[i - (k - 1)]
        BY <2>3, <2>4, <4>1, Joined
      <4> QED
        BY <1>3, <2>4, <3>2, <4>1, <4>2
    <3> QED
      BY <3>1, <3>2
  <2>7. t = a \o b
    BY <1>3, <2>5, <2>6, SeqEqual
  <2> QED
    BY <2>1, <2>2, <2>7
<1> QED
  BY <1>2, <1>4

LEMMA RemoveKeepsInv ==
  ASSUME ListInv, NEW l \in Lists, NEW o \in Orders, List!Remove(l, o)
  PROVE  /\ ListInv'
         /\ \E k \in 1 .. Len(List!Traversal(l)) :
              /\ List!Traversal(l)[k] = o
              /\ \A m \in Lists : List!Traversal(m)' =
                   IF m = l THEN Without(List!Traversal(l), k)
                   ELSE List!Traversal(m)
<1>1. PICK s : s = List!Traversal(l)
  OBVIOUS
<1>2. PICK k \in 1 .. Len(s) : s[k] = o
  BY <1>1 DEF List!Remove, List!Member
<1>3. PICK t : t = Without(s, k)
  OBVIOUS
<1>4. PICK q : q = [m \in Lists |-> IF m = l THEN t ELSE List!Traversal(m)]
  OBVIOUS
<1>5. IsChain(l, s) /\ ListTyped
  BY <1>1 DEF ListInv
<1>6. /\ s \in Seq(Orders) /\ Len(s) \in Nat /\ k \in Nat
      /\ 1 <= k /\ k <= Len(s)
      /\ \A i, j \in 1 .. Len(s) : s[i] = s[j] => i = j
      /\ \A i \in 1 .. Len(s) : s[i] \in Orders
  BY <1>5 DEF IsChain
<1>7. /\ t \in Seq(Orders) /\ Len(t) = Len(s) - 1 /\ Len(t) \in Nat
      /\ \A i \in 1 .. Len(t) : t[i] = IF i < k THEN s[i] ELSE s[i + 1]
      /\ \A i, j \in 1 .. Len(t) : t[i] = t[j] => i = j
      /\ \A i \in 1 .. Len(t) : t[i] # s[k]
  <2>1. k \in 1 .. Len(s)
    BY <1>2
  <2>2. /\ s \in Seq(Orders)
        /\ \A i, j \in 1 .. Len(s) : s[i] = s[j] => i = j
    BY <1>6
  <2> QED
    BY <1>3, <2>1, <2>2, WithoutProperties
<1>8. NoLink \notin Orders /\ SizeModulus \in Nat /\ Len(s) < SizeModulus
  <2>1. Len(s) <= Cardinality(Orders)
    BY <1>6, InjectiveIsShort
  <2> QED
    BY <1>6, <2>1, ListTerms
<1>9. prev[o] = At(s, k - 1) /\ next[o] = At(s, k + 1)
  BY <1>2, <1>5 DEF IsChain
<1>10. List!WasLinked(l, o)
  <2>1. CASE k = 1
    BY <1>2, <1>5, <2>1 DEF IsChain, At, List!WasLinked
  <2>2. CASE k # 1
    <3>1. k - 1 \in 1 .. Len(s)
      BY <1>6, <2>2
    <3> QED
      BY <1>6, <1>8, <1>9, <3>1 DEF At, List!WasLinked
  <2> QED
    BY <2>1, <2>2
<1>11. /\ size' = [size EXCEPT ![l] = Len(t)]
       /\ head' = [head EXCEPT ![l] = IF k = 1 THEN next[o] ELSE @]
       /\ tail' = [tail EXCEPT ![l] = IF k = Len(s) THEN prev[o] ELSE @]
  <2>1. size[l] = Len(s)
    BY <1>5 DEF IsChain
  <2>2. (Len(s) - 1) % SizeModulus = Len(t)
    <3>1. Len(s) - 1 = Len(t) /\ Len(t) < SizeModulus
      BY <1>6, <1>7, <1>8
    <3> QED
      BY <1>7, <1>8, <3>1, SmallRemainder
  <2>3. prev[o] = NoLink <=> k = 1
    BY <1>6, <1>8, <1>9 DEF At
  <2>4. next[o] = NoLink <=> k = Len(s)
    BY <1>6, <1>8, <1>9 DEF At
  <2> QED
    BY <1>10, <2>1, <2>2, <2>3, <2>4 DEF List!Remove
<1>12. /\ prev[o] \in Orders \cup {NoLink} /\ next[o] \in Orders \cup {NoLink}
  BY <1>6, <1>9 DEF At
<1>13. /\ next' \in [Orders -> Orders \cup {NoLink}]
       /\ \A x \in Orders :
            next'[x] = IF x = o THEN NoLink
                       ELSE IF x = prev[o] THEN next[o] ELSE next[x]
  BY <1>5, <1>12 DEF List!Remove, ListTyped
<1>14. /\ prev' \in [Orders -> Orders \cup {NoLink}]
       /\ \A x \in Orders :
            prev'[x] = IF x = o THEN NoLink
                       ELSE IF x = next[o] THEN prev[o] ELSE prev[x]
  BY <1>5, <1>12 DEF List!Remove, ListTyped
<1>15. ListTyped'
  <2>1. /\ head' \in [Lists -> Orders \cup {NoLink}]
        /\ tail' \in [Lists -> Orders \cup {NoLink}]
    BY <1>5, <1>11, <1>12 DEF ListTyped
  <2>2. size' \in [Lists -> Nat]
    BY <1>5, <1>7, <1>11 DEF ListTyped
  <2> QED
    BY <1>13, <1>14, <2>1, <2>2 DEF ListTyped
<1>16. ASSUME NEW i \in 1 .. Len(t)
       PROVE  next'[t[i]] = At(t, i + 1)
  <2>1. i \in 1 .. Len(s) /\ i + 1 \in 1 .. Len(s) /\ t[i] # o
    BY <1>2, <1>6, <1>7
  <2>2. CASE i < k
    <3>1. t[i] = s[i] /\ s[i] \in Orders /\ next[s[i]] = At(s, i + 1)
      BY <1>5, <1>6, <1>7, <2>1, <2>2 DEF IsChain
    <3>2. k - 1 \in 1 .. Len(s) /\ prev[o] = s[k - 1]
      BY <1>6, <1>9, <2>1, <2>2 DEF At
    <3>3. CASE i = k - 1
      <4>1. next'[t[i]] = next[o]
        BY <1>13, <2>1, <3>1, <3>2, <3>3
      <4>2. At(s, k + 1) = At(t, i + 1)
        BY <1>6, <1>7, <3>3 DEF At
      <4> QED
        BY <1>9, <4>1, <4>2
    <3>4. CASE i # k - 1
      <4>1. s[i] # s[k - 1]
        BY <1>6, <2>1, <3>2, <3>4
      <4>2. next'[t[i]] = At(s, i + 1)
        BY <1>13, <2>1, <3>1, <3>2, <4>1
      <4>3. At(s, i + 1) = At(t, i + 1)
        BY <1>6, <1>7, <2>1, <2>2, <3>4 DEF At
      <4> QED
        BY <4>2, <4>3
    <3> QED
      BY <3>3, <3>4
  <2>3. CASE ~(i < k)
    <3>1. /\ t[i] = s[i + 1] /\ s[i + 1] \in Orders
          /\ next[s[i + 1]] = At(s, (i + 1) + 1)
      BY <1>5, <1>6, <1>7, <2>1, <2>3 DEF IsChain
    <3>2. s[i + 1] # prev[o]
      <4>1. CASE k - 1 \in 1 .. Len(s)
        BY <1>6, <1>9, <2>1, <2>3, <4>1 DEF At
      <4>2. CASE k - 1 \notin 1 .. Len(s)
        BY <1>8, <1>9, <3>1, <4>2 DEF At
      <4> QED
        BY <4>1, <4>2
    <3>3. next'[t[i]] = At(s, (i + 1) + 1)
      BY <1>13, <2>1, <3>1, <3>2
    <3>4. At(s, (i + 1) + 1) = At(t, i + 1)
      <4>1. i \in Nat /\ Len(s) \in Nat /\ Len(t) = Len(s) - 1
        BY <1>6, <1>7, <2>1
      <4>2. (i + 1) + 1 \in 1 .. Len(s) <=> i + 1 \in 1 .. Len(t)
        BY <4>1
      <4>3. CASE i + 1 \in 1 .. Len(t)
        <5>1. ~(i + 1 < k)
          BY <1>6, <2>3, <4>1
        <5>2. t[i + 1] = s[(i + 1) + 1]
          BY <1>7, <4>3, <5>1
        <5> QED
          BY <4>2, <4>3, <5>2 DEF At
      <4>4. CASE i + 1 \notin 1 .. Len(t)
        BY <4>2, <4>4 DEF At
      <4> QED
        BY <4>3, <4>4
    <3> QED
      BY <3>3, <3>4
  <2> QED
    BY <2>2, <2>3
<1>17. ASSUME NEW i \in 1 .. Len(t)
       PROVE  prev'[t[i]] = At(t, i - 1)
  <2>1. i \in 1 .. Len(s) /\ i + 1 \in 1 .. Len(s) /\ t[i] # o
    BY <1>2, <1>6, <1>7
  <2>2. CASE i < k
    <3>1. t[i] = s[i] /\ s[i] \in Orders /\ prev[s[i]] = At(s, i - 1)
      BY <1>5, <1>6, <1>7, <2>1, <2>2 DEF IsChain
    <3>2. s[i] # next[o]
      <4>1. CASE k + 1 \in 1 .. Len(s)
        BY <1>6, <1>9, <2>1, <2>2, <4>1 DEF At
      <4>2. CASE k + 1 \notin 1 .. Len(s)
        BY <1>8, <1>9, <3>1, <4>2 DEF At
      <4> QED
        BY <4>1, <4>2
    <3>3. At(s, i - 1) = At(t, i - 1)
      BY <1>6, <1>7, <2>1, <2>2 DEF At
    <3> QED
      BY <1>14, <2>1, <3>1, <3>2, <3>3
  <2>3. CASE ~(i < k)
    <3>1. /\ t[i] = s[i + 1] /\ s[i + 1] \in Orders
          /\ prev[s[i + 1]] = At(s, (i + 1) - 1)
      BY <1>5, <1>6, <1>7, <2>1, <2>3 DEF IsChain
    <3>2. k + 1 \in 1 .. Len(s) /\ next[o] = s[k + 1]
      BY <1>6, <1>9, <2>1, <2>3 DEF At
    <3>3. CASE i = k
      <4>1. prev'[t[i]] = prev[o]
        BY <1>14, <2>1, <3>1, <3>2, <3>3
      <4>2. At(s, k - 1) = At(t, i - 1)
        BY <1>6, <1>7, <3>3 DEF At
      <4> QED
        BY <1>9, <4>1, <4>2
    <3>4. CASE i # k
      <4>1. s[i + 1] # s[k + 1]
        BY <1>6, <2>1, <3>2, <3>4
      <4>2. At(s, (i + 1) - 1) = At(t, i - 1)
        BY <1>6, <1>7, <2>1, <2>3, <3>4 DEF At
      <4> QED
        BY <1>14, <2>1, <3>1, <3>2, <4>1, <4>2
    <3> QED
      BY <3>3, <3>4
  <2> QED
    BY <2>2, <2>3
<1>18. head'[l] = At(t, 1)
  <2>1. CASE k = 1
    <3>1. At(s, k + 1) = At(t, 1)
      BY <1>6, <1>7, <2>1 DEF At
    <3> QED
      BY <1>5, <1>9, <1>11, <2>1, <3>1 DEF ListTyped
  <2>2. CASE k # 1
    <3>1. At(s, 1) = At(t, 1)
      BY SMTT(20), <1>6, <1>7, <2>2 DEF At
    <3> QED
      BY <1>5, <1>11, <2>2, <3>1 DEF ListTyped, IsChain
  <2> QED
    BY <2>1, <2>2
<1>19. tail'[l] = At(t, Len(t)) /\ size'[l] = Len(t)
  <2>1. CASE k = Len(s)
    <3>1. At(s, k - 1) = At(t, Len(t))
      BY <1>6, <1>7, <2>1 DEF At
    <3> QED
      BY <1>5, <1>9, <1>11, <2>1, <3>1 DEF ListTyped
  <2>2. CASE k # Len(s)
    <3>1. At(s, Len(s)) = At(t, Len(t))
      BY <1>6, <1>7, <2>2 DEF At
    <3> QED
      BY <1>5, <1>11, <2>2, <3>1 DEF ListTyped, IsChain
  <2> QED
    BY <2>1, <2>2
<1>20. IsChain(l, t)'
  BY <1>7, <1>16, <1>17, <1>18, <1>19 DEF IsChain, At
<1>21. ASSUME NEW m \in Lists, m # l
       PROVE  IsChain(m, q[m])'
  <2>1. PICK u : u = List!Traversal(m)
    OBVIOUS
  <2>2. IsChain(m, u) /\ NoneShared(u, s)
    BY <1>1, <1>21, <2>1 DEF ListInv
  <2>3. u \in Seq(Orders) /\ \A i \in 1 .. Len(u) : u[i] \in Orders
    BY <2>2 DEF IsChain
  <2>4. head'[m] = head[m] /\ tail'[m] = tail[m] /\ size'[m] = size[m]
    BY <1>5, <1>11, <1>21 DEF ListTyped
  <2>5. ASSUME NEW i \in 1 .. Len(u)
        PROVE  next'[u[i]] = next[u[i]] /\ prev'[u[i]] = prev[u[i]]
    <3>1. \A j \in 1 .. Len(s) : u[i] # s[j]
      BY <2>2 DEF NoneShared
    <3>2. u[i] \in Orders /\ u[i] # o /\ u[i] # prev[o] /\ u[i] # next[o]
      BY <1>2, <1>8, <1>9, <2>3, <3>1 DEF At
    <3> QED
      BY <1>13, <1>14, <3>2
  <2>6. IsChain(m, u)'
    BY <2>2, <2>4, <2>5, UntouchedChain
  <2>7. q[m] = u
    BY <1>4, <1>21, <2>1
  <2> QED
    BY <2>6, <2>7 DEF IsChain, At
<1>22. \A m \in Lists : IsChain(m, q[m])'
  <2>1. q[l] = t
    BY <1>4
  <2>2. IsChain(l, q[l])'
    BY <1>20, <2>1 DEF IsChain, At
  <2> QED
    BY <1>21, <2>2
<1>23. \A i \in 1 .. Len(t) : \E j \in 1 .. Len(s) : t[i] = s[j]
  <2>1. ASSUME NEW i \in 1 .. Len(t)
        PROVE  \E j \in 1 .. Len(s) : t[i] = s[j]
    <3>1. i \in 1 .. Len(s) /\ i + 1 \in 1 .. Len(s)
      BY <1>6, <1>7
    <3> QED
      BY <1>7, <3>1
  <2> QED
    BY <2>1
<1>24. ASSUME NEW m \in Lists, NEW n \in Lists, m # n
       PROVE  NoneShared(q[m], q[n])
  <2>1. NoneShared(List!Traversal(m), List!Traversal(n))
    BY <1>24 DEF ListInv
  <2>2. CASE m = l
    <3>1. q[m] = t /\ q[n] = List!Traversal(n)
      BY <1>4, <1>24, <2>2
    <3> QED
      BY <1>1, <1>23, <2>1, <2>2, <3>1 DEF NoneShared
  <2>3. CASE n = l
    <3>1. q[n] = t /\ q[m] = List!Traversal(m)
      BY <1>4, <1>24, <2>3
    <3> QED
      BY <1>1, <1>23, <2>1, <2>3, <3>1 DEF NoneShared
  <2>4. CASE m # l /\ n # l
    BY <1>4, <2>1, <2>4
  <2> QED
    BY <2>2, <2>3, <2>4
<1>25. ListInv'
  BY <1>15, <1>22, <1>24, ChainsKeepInv
<1>26. \A m \in Lists : List!Traversal(m)' = q[m]
  BY <1>22, TraversalAfterwards
<1>27. k \in 1 .. Len(List!Traversal(l)) /\ List!Traversal(l)[k] = o
  BY <1>1, <1>2
<1>28. \A m \in Lists : List!Traversal(m)' =
         IF m = l THEN Without(List!Traversal(l), k) ELSE List!Traversal(m)
  BY <1>1, <1>3, <1>4, <1>26
<1> QED
  BY <1>25, <1>27, <1>28

\* What a step of the lists does to the chains: one of the three operations of
\* a first-in first-out list, or nothing.
LEMMA ListStepEffect ==
  ASSUME ListInv, List!Next
  PROVE  /\ ListInv'
         /\ \E l \in Lists :
              \/ \A m \in Lists : List!Traversal(m)' =
                   IF m = l THEN << >> ELSE List!Traversal(m)
              \/ \E o \in Orders :
                   /\ \A m \in Lists : ~List!Member(m, o)
                   /\ \A m \in Lists : List!Traversal(m)' =
                        IF m = l THEN Append(List!Traversal(l), o)
                        ELSE List!Traversal(m)
              \/ \E k \in 1 .. Len(List!Traversal(l)) :
                   \A m \in Lists : List!Traversal(m)' =
                     IF m = l THEN Without(List!Traversal(l), k)
                     ELSE List!Traversal(m)
<1>1. ASSUME NEW l \in Lists, List!Clear(l)
      PROVE  /\ ListInv'
             /\ \A m \in Lists : List!Traversal(m)' =
                  IF m = l THEN << >> ELSE List!Traversal(m)
  BY <1>1, ClearKeepsInv
<1>2. ASSUME NEW l \in Lists, NEW o \in Orders, List!PushBack(l, o)
      PROVE  /\ ListInv'
             /\ \A m \in Lists : ~List!Member(m, o)
             /\ \A m \in Lists : List!Traversal(m)' =
                  IF m = l THEN Append(List!Traversal(l), o)
                  ELSE List!Traversal(m)
  BY <1>2, PushBackKeepsInv DEF List!PushBack
<1>3. ASSUME NEW l \in Lists, NEW o \in Orders, List!Remove(l, o)
      PROVE  /\ ListInv'
             /\ \E k \in 1 .. Len(List!Traversal(l)) :
                  \A m \in Lists : List!Traversal(m)' =
                    IF m = l THEN Without(List!Traversal(l), k)
                    ELSE List!Traversal(m)
  BY <1>3, RemoveKeepsInv
<1> QED
  BY <1>1, <1>2, <1>3 DEF List!Next

LEMMA ListStands ==
  ASSUME ListInv, UNCHANGED listVars
  PROVE  /\ ListInv'
         /\ \A m \in Lists : List!Traversal(m)' = List!Traversal(m)
<1>1. PICK q : q = [m \in Lists |-> List!Traversal(m)]
  OBVIOUS
<1>2. ASSUME NEW m \in Lists
      PROVE  IsChain(m, q[m])'
  <2>1. IsChain(m, q[m])
    BY <1>1 DEF ListInv
  <2> QED
    BY <2>1, UntouchedChain DEF listVars
<1>3. ListTyped'
  BY DEF ListInv, ListTyped, listVars
<1>4. \A l, m \in Lists : l # m => NoneShared(q[l], q[m])
  BY <1>1 DEF ListInv
<1>5. \A m \in Lists : List!Traversal(m)' = q[m]
  BY <1>2, TraversalAfterwards
<1> QED
  BY <1>1, <1>2, <1>3, <1>4, <1>5, ChainsKeepInv

LEMMA ListSteps ==
  [StandaloneNext]_<<containersVars, metricsVars, orderVars, part>>
  => UNCHANGED listVars \/ List!Next
BY DEF StandaloneNext, ContainersStep, PoolStep, ListStep, ArenaStep,
       MetricsStep, OrderStep, containersVars

LEMMA ListInvariance == StandaloneSpec => []ListInv
<1>1. StandaloneInit => ListInv
  BY InitialChains DEF StandaloneInit, ContainersInit
<1>2. ListInv
        /\ [StandaloneNext]_<<containersVars, metricsVars, orderVars, part>>
        => ListInv'
  BY ListSteps, ListStands, ListStepEffect
<1> QED
  BY <1>1, <1>2, PTL DEF StandaloneSpec

\* For any number of lists and orders, what an iteration meets forwards is met
\* backwards the other way round (IntrusiveList.h:16-25, 39-49).
THEOREM ListLinksMirror == StandaloneSpec => []LinksMirror
<1>1. ListInv => LinksMirror
  <2> SUFFICES ASSUME ListInv, NEW l \in Lists, NEW t,
                      t = List!Traversal(l)
               PROVE  IF t = << >> THEN tail[l] = NoLink
                      ELSE /\ tail[l] = t[Len(t)]
                           /\ prev[t[1]] = NoLink
                           /\ \A i \in 2 .. Len(t) : prev[t[i]] = t[i - 1]
    BY DEF LinksMirror, List!LinksMirror
  <2>1. IsChain(l, t) /\ t \in Seq(Orders) /\ Len(t) \in Nat
    BY DEF ListInv, IsChain
  <2>2. CASE t = << >>
    BY <2>1, <2>2 DEF IsChain, At
  <2>3. CASE t # << >>
    <3>1. 1 \in 1 .. Len(t) /\ Len(t) \in 1 .. Len(t)
      BY <2>1, <2>3
    <3>2. tail[l] = t[Len(t)]
      BY <2>1, <3>1 DEF IsChain, At
    <3>3. prev[t[1]] = NoLink
      BY <2>1, <3>1 DEF IsChain, At
    <3>4. ASSUME NEW i \in 2 .. Len(t)
          PROVE  prev[t[i]] = t[i - 1]
      <4>1. i \in 1 .. Len(t) /\ i - 1 \in 1 .. Len(t)
        BY <2>1
      <4> QED
        BY <2>1, <4>1 DEF IsChain, At
    <3> QED
      BY <2>3, <3>2, <3>3, <3>4
  <2> QED
    BY <2>2, <2>3
<1> QED
  BY <1>1, ListInvariance, PTL

\* size() is the number of orders an iteration meets (IntrusiveList.h:71-78).
THEOREM ListSizeIsCount == StandaloneSpec => []SizeIsCount
<1>1. ListInv => SizeIsCount
  BY DEF SizeIsCount, List!SizeIsCount, ListInv, IsChain
<1> QED
  BY <1>1, ListInvariance, PTL

\* Whatever orders come, leave from the middle and come again, the linked
\* lists are first-in first-out queues, and no order is on two of them
\* (IntrusiveList.h:8-9, 15-58).
THEOREM ListsAreFifo == StandaloneSpec => ImplementsFifo
<1>1. StandaloneInit => List!Fifo!Init
  <2> SUFFICES ASSUME List!Init
               PROVE  List!Fifo!Init
    BY DEF StandaloneInit, ContainersInit
  <2>1. \A l \in Lists : IsChain(l, << >>)
    BY DEF List!Init, IsChain, At
  <2> QED
    BY <2>1, TraversalOfChain DEF List!Fifo!Init
<1>2. ListInv
        /\ [StandaloneNext]_<<containersVars, metricsVars, orderVars, part>>
        => [List!Fifo!Next]_([l \in Lists |-> List!Traversal(l)])
  <2> SUFFICES ASSUME ListInv,
               [StandaloneNext]_<<containersVars, metricsVars, orderVars, part>>
               PROVE  [List!Fifo!Next]_([l \in Lists |-> List!Traversal(l)])
    OBVIOUS
  <2>1. PICK q : q = [l \in Lists |-> List!Traversal(l)]
    OBVIOUS
  <2>2. PICK r : r = [l \in Lists |-> List!Traversal(l)']
    OBVIOUS
  <2>3. CASE UNCHANGED listVars
    <3>1. r = q
      BY <2>1, <2>2, <2>3, ListStands
    <3> QED
      BY <2>1, <2>2, <3>1
  <2>4. CASE List!Next
    <3>1. PICK l \in Lists :
            \/ r = [q EXCEPT ![l] = << >>]
            \/ \E o \in Orders : /\ \A m \in Lists : ~List!Member(m, o)
                                 /\ r = [q EXCEPT ![l] = Append(@, o)]
            \/ \E k \in 1 .. Len(q[l]) :
                  r = [q EXCEPT ![l] = Without(@, k)]
      <4>1. PICK l \in Lists :
              \/ \A m \in Lists : List!Traversal(m)' =
                   IF m = l THEN << >> ELSE List!Traversal(m)
              \/ \E o \in Orders :
                   /\ \A m \in Lists : ~List!Member(m, o)
                   /\ \A m \in Lists : List!Traversal(m)' =
                        IF m = l THEN Append(List!Traversal(l), o)
                        ELSE List!Traversal(m)
              \/ \E k \in 1 .. Len(List!Traversal(l)) :
                   \A m \in Lists : List!Traversal(m)' =
                     IF m = l THEN Without(List!Traversal(l), k)
                     ELSE List!Traversal(m)
        BY <2>4, ListStepEffect
      <4>2. /\ DOMAIN q = Lists
            /\ \A m \in Lists : q[m] = List!Traversal(m)
        BY <2>1
      <4>3. \A v : (\A m \in Lists : List!Traversal(m)' =
                       IF m = l THEN v ELSE List!Traversal(m))
                  => r = [q EXCEPT ![l] = v]
        BY <2>1, <2>2, <4>2
      <4>4. ASSUME \A m \in Lists : List!Traversal(m)' =
                     IF m = l THEN << >> ELSE List!Traversal(m)
            PROVE  r = [q EXCEPT ![l] = << >>]
        BY <4>3, <4>4
      <4>5. ASSUME NEW o \in Orders, \A m \in Lists : ~List!Member(m, o),
                   \A m \in Lists : List!Traversal(m)' =
                     IF m = l THEN Append(List!Traversal(l), o)
                     ELSE List!Traversal(m)
            PROVE  r = [q EXCEPT ![l] = Append(@, o)]
        BY <4>2, <4>3, <4>5
      <4>6. ASSUME NEW k \in 1 .. Len(List!Traversal(l)),
                   \A m \in Lists : List!Traversal(m)' =
                     IF m = l THEN Without(List!Traversal(l), k)
                     ELSE List!Traversal(m)
            PROVE  k \in 1 .. Len(q[l]) /\ r = [q EXCEPT ![l] = Without(@, k)]
        BY <4>2, <4>3, <4>6
      <4>7. \/ r = [q EXCEPT ![l] = << >>]
            \/ \E o \in Orders : /\ \A m \in Lists : ~List!Member(m, o)
                                 /\ r = [q EXCEPT ![l] = Append(@, o)]
            \/ \E k \in 1 .. Len(q[l]) :
                  r = [q EXCEPT ![l] = Without(@, k)]
        BY <4>1, <4>4, <4>5, <4>6
      <4> QED
        BY <4>7
    <3>2. CASE r = [q EXCEPT ![l] = << >>]
      <4>1. List!Fifo!Empty(l)
        BY <2>1, <2>2, <3>2 DEF List!Fifo!Empty
      <4> QED
        BY <4>1 DEF List!Fifo!Next
    <3>3. ASSUME NEW o \in Orders, \A m \in Lists : ~List!Member(m, o),
                 r = [q EXCEPT ![l] = Append(@, o)]
          PROVE  List!Fifo!Next
      <4>1. \A m \in Lists : ~List!Fifo!On(m, o)
        BY <3>3 DEF List!Fifo!On, List!Member
      <4>2. List!Fifo!Join(l, o)
        BY <2>1, <2>2, <3>3, <4>1 DEF List!Fifo!Join
      <4> QED
        BY <4>2 DEF List!Fifo!Next
    <3>4. ASSUME NEW k \in 1 .. Len(q[l]), r = [q EXCEPT ![l] = Without(@, k)]
          PROVE  List!Fifo!Next
      <4>1. q[l] \in Seq(Orders) /\ q[l][k] \in Orders
        BY <2>1, <3>4 DEF ListInv, IsChain
      <4>2. Without(q[l], k) =
              SubSeq(q[l], 1, k - 1) \o SubSeq(q[l], k + 1, Len(q[l]))
        BY <3>4, <4>1, WithoutIsLeave
      <4>3. List!Fifo!Leave(l, q[l][k])
        BY <2>1, <2>2, <3>4, <4>1, <4>2 DEF List!Fifo!Leave
      <4> QED
        BY <4>1, <4>3 DEF List!Fifo!Next
    <3> QED
      BY <3>1, <3>2, <3>3, <3>4
  <2> QED
    BY <2>3, <2>4, ListSteps
<1> QED
  BY <1>1, <1>2, ListInvariance, PTL
     DEF StandaloneSpec, ImplementsFifo, List!ImplementsFifo, List!Fifo!Spec

\* Nothing but the operations of the pool moves its free list.
LEMMA PoolIsUsedAlone == StandaloneSpec => Spec
<1>1. StandaloneInit => Init
  BY DEF StandaloneInit, ContainersInit
<1>2. [StandaloneNext]_<<containersVars, metricsVars, orderVars, part>>
        => [Next]_vars
  BY DEF StandaloneNext, ContainersStep, PoolStep, ListStep, ArenaStep,
         MetricsStep, OrderStep, containersVars
<1> QED
  BY <1>1, <1>2, PTL DEF StandaloneSpec, Spec

\* No slot outside the pool, no size_ or offset_ that wrapped, for any pool,
\* lists and arena (MemoryPool.h, IntrusiveList.h, ArenaAllocator.h).
THEOREM ContainersTypeCorrect == StandaloneSpec => []ContainersTypeOK
<1>1. TypeOK /\ ListInv /\ ArenaInv => ContainersTypeOK
  <2> SUFFICES ASSUME TypeOK, ListInv, ArenaInv
               PROVE  ContainersTypeOK
    OBVIOUS
  <2>1. \A l \in Lists : size[l] \in 0 .. Cardinality(Orders)
    <3> SUFFICES ASSUME NEW l \in Lists
                 PROVE  size[l] \in 0 .. Cardinality(Orders)
      OBVIOUS
    <3>1. PICK s : s = List!Traversal(l)
      OBVIOUS
    <3>2. IsChain(l, s)
      BY <3>1 DEF ListInv
    <3>3. Len(s) \in Nat /\ Len(s) <= Cardinality(Orders) /\ size[l] = Len(s)
      BY <3>2, InjectiveIsShort DEF IsChain
    <3> QED
      BY <3>3, ListTerms
  <2>2. List!TypeOK
    BY <2>1, SameCount
       DEF ListInv, ListTyped, List!TypeOK, List!Pointers
  <2>3. Arena!TypeOK
    BY DEF ArenaInv
  <2> QED
    BY <2>2, <2>3 DEF ContainersTypeOK
<1> QED
  BY <1>1, PoolIsUsedAlone, TypeInvariance, ListInvariance, ArenaInvariance, PTL


-----------------------------------------------------------------------------
(***************************************************************************)
(* The metrics.                                                            *)
(***************************************************************************)
\* What the atomic operations of the calls look like.
Operations == [field : Metric!Fields, add : Nat, store : BOOLEAN]

\* The fields in which every added order is counted once: as received, as
\* accepted or rejected, and in a bucket.
Received == {<<"received">>}
Decided  == {<<"accepted">>, <<"rejected">>}
Sampled  == {"add"} \X Metric!Buckets
Groups   == {Received, Decided, Sampled}

\* What may be left of a record_add_order, of another record and of a reset.
AddTails ==
  LET ops(G) == {Metric!Increment(f, 1) : f \in G}
  IN  {<<h>> : h \in ops(Sampled)}
      \cup {<<v, h>> : v \in ops(Decided), h \in ops(Sampled)}
      \cup {<<r, v, h>> : r \in ops(Received), v \in ops(Decided),
                          h \in ops(Sampled)}

IsOtherTail(ops) ==
  \A i \in 1 .. Len(ops) : ~ops[i].store /\ ops[i].field \notin UNION Groups

IsResetTail(ops) == ops # << >> /\ \A i \in 1 .. Len(ops) : ops[i].store

\* Whether a call still has a group to count in.
Counts(ops, G) ==
  \E i \in 1 .. Len(ops) : ~ops[i].store /\ ops[i].field \in G

Recording  == {t \in Threads : todo[t] \in AddTails}
Resets     == {t \in Threads : IsResetTail(todo[t])}
Pending(G) == {t \in Threads : Counts(todo[t], G)}

\* The fields of what is left of a call.
Left(ops) == {ops[i].field : i \in 1 .. Len(ops)}

\* What one of the resets under way has before it, or nothing.
StillToZero == {{}} \cup {Left(todo[t]) : t \in Resets}

\* What a group will come to when the fields of rem are zeroed and the calls
\* that run have counted their orders.
Visible(rem) == [f \in Metric!Fields |-> IF f \in rem THEN 0 ELSE value[f]]
Expected(rem, G) ==
  SumFunctionOnSet(Visible(rem), G) + Cardinality(Pending(G))

MetricsTyped ==
  /\ value \in [Metric!Fields -> Nat]
  /\ todo \in [Threads -> Seq(Operations)]
  /\ scan \in [at : {"idle", "total", "scan"}, h : Metric!Histograms,
               p : 0 .. 100, next : Metric!Buckets, sum : Nat, target : Nat,
               disturbed : BOOLEAN]
  /\ torn \in Nat

CallsAreTails ==
  \A t \in Threads : \/ todo[t] \in AddTails
                     \/ IsOtherTail(todo[t]) \/ IsResetTail(todo[t])

\* Without a reset under way the groups come to the same, up to what was torn.
\* With one, the groups hold no more than was torn where the latest reset has
\* been, whatever an older one still zeroes.
TornIsBounded ==
  /\ Resets = {} =>
       \A G, H \in Groups : Expected({}, G) <= Expected({}, H) + torn
  /\ Resets # {} =>
       /\ Cardinality(Recording) <= torn
       /\ \E rem \in StillToZero :
            \A G \in Groups : Expected(rem, G) <= torn

CountsInv == MetricsTyped /\ CallsAreTails /\ TornIsBounded

\* The samples of a histogram in the buckets before one, and from it on.
Before(h, b) ==
  SumFunctionOnSet(Metric!Samples(h), {c \in Metric!Buckets : c < b})
From(h, b) ==
  SumFunctionOnSet(Metric!Samples(h), {c \in Metric!Buckets : b <= c})

\* What percentile() has added up is still there, and enough is to come.
ScanIsBounded ==
  scan.at # "idle" /\ ~scan.disturbed =>
    /\ scan.sum <= Before(scan.h, scan.next)
    /\ scan.at = "scan" =>
         /\ scan.sum = 0 \/ scan.sum < scan.target
         /\ scan.target <= scan.sum + From(scan.h, scan.next)

AnswerTyped ==
  /\ answer = Metric!NoAnswer \/ answer.h \in Metric!Histograms
  /\ answer.target \in Nat

PercentileInv == AnswerTyped /\ ScanIsBounded /\ Metric!PercentileIsReached


\* It counts, sums and looks at sequences as this module does.
LEMMA MetricTerms ==
  /\ \A S : Metric!Cardinality(S) = Cardinality(S)
  /\ \A S : Metric!IsFiniteSet(S) <=> IsFiniteSet(S)
  /\ \A s : Metric!Last(s) = s[Len(s)]
BY DEF Metric!Cardinality, Cardinality, Metric!IsFiniteSet, IsFiniteSet,
       Metric!Last

LEMMA SameSum ==
  ASSUME NEW f, NEW S
  PROVE  Metric!SumFunctionOnSet(f, S) = SumFunctionOnSet(f, S)
BY DEF Metric!SumFunctionOnSet, SumFunctionOnSet, Metric!FoldFunctionOnSet,
       FoldFunctionOnSet, Metric!MapThenFoldSet, MapThenFoldSet

LEMMA MetricsContract ==
  /\ IsFiniteSet(Threads)
  /\ NUM_BUCKETS \in Nat \ {0} /\ MAX_LATENCY_NS \in Nat \ {0}
  /\ Latencies \subseteq Nat /\ Percentiles \subseteq 0 .. 100
  /\ Watched \subseteq Metric!Histograms
BY PartsAssumption, MetricTerms DEF Metric!MetricsAssumption, Metric!Histograms

\* The fields and the groups.
LEMMA GroupFacts ==
  /\ \A G \in Groups : G \subseteq Metric!Fields /\ IsFiniteSet(G)
  /\ IsFiniteSet(Metric!Buckets)
  /\ Received \cap Decided = {} /\ Received \cap Sampled = {}
  /\ Decided \cap Sampled = {}
<1>1. IsFiniteSet(Metric!Buckets)
  BY MetricsContract, FS_Interval DEF Metric!Buckets
<1>2. IsFiniteSet(Received) /\ IsFiniteSet(Decided)
  <2>1. IsFiniteSet({}) /\ IsFiniteSet({} \cup {<<"received">>})
        /\ IsFiniteSet(({} \cup {<<"accepted">>}) \cup {<<"rejected">>})
    BY FS_EmptySet, FS_AddElement
  <2>2. /\ Received = {} \cup {<<"received">>}
        /\ Decided = ({} \cup {<<"accepted">>}) \cup {<<"rejected">>}
    BY DEF Received, Decided
  <2> QED
    BY <2>1, <2>2
<1>3. IsFiniteSet(Sampled)
  <2>1. IsFiniteSet({}) /\ IsFiniteSet({} \cup {"add"})
    BY FS_EmptySet, FS_AddElement
  <2>2. {} \cup {"add"} = {"add"}
    OBVIOUS
  <2> QED
    BY <1>1, <2>1, <2>2, FS_Product DEF Sampled
<1>4. \A G \in Groups : G \subseteq Metric!Fields
  BY DEF Groups, Received, Decided, Sampled, Metric!Fields, Metric!Counters,
         Metric!Histograms
<1>5. /\ \A f \in Received : f[1] = "received"
      /\ \A f \in Decided : f[1] = "accepted" \/ f[1] = "rejected"
      /\ \A f \in Sampled : f[1] = "add"
  BY DEF Received, Decided, Sampled
<1>6. /\ Received \cap Decided = {} /\ Received \cap Sampled = {}
      /\ Decided \cap Sampled = {}
  BY <1>5
<1> QED
  BY <1>1, <1>2, <1>3, <1>4, <1>6 DEF Groups

\* A latency falls into one of the buckets.
LEMMA BucketInRange ==
  ASSUME NEW latency \in Latencies
  PROVE  Metric!BucketOf(latency) \in Metric!Buckets
<1>1. PICK n \in Nat, b \in Nat \ {0}, m \in Nat \ {0} :
        n = latency /\ b = NUM_BUCKETS /\ m = MAX_LATENCY_NS
  BY MetricsContract
<1>2. Metric!Buckets = 0 .. b - 1
  BY <1>1 DEF Metric!Buckets
<1>3. CASE n >= m
  BY <1>1, <1>2, <1>3 DEF Metric!BucketOf
<1>4. CASE n < m
  <2>1. PICK a \in Nat : a = n * b
    BY <1>1
  <2>2. /\ a \div m \in Nat /\ a % m \in Nat
        /\ a = m * (a \div m) + (a % m)
    <3>1. a % m \in 0 .. m - 1
      BY Division, Zenon
    <3>2. a \div m \in Nat /\ a = m * (a \div m) + (a % m)
      BY Division, Zenon
    <3> QED
      BY <3>1, <3>2
  <2>7. PICK q \in Nat, r \in Nat : q = a \div m /\ r = a % m
    BY <2>2
  <2>8. a = m * q + r
    BY <2>2, <2>7
  <2>3. n * b <= (m - 1) * b
    BY <1>1, <1>4
  <2>4. (m - 1) * b = m * b - b
    BY <1>1
  <2>5. ASSUME q >= b
        PROVE  FALSE
    <3>1. m * q >= m * b
      BY <2>5
    <3>2. PICK x \in Int, y \in Int : x = m * q /\ y = m * b
      OBVIOUS
    <3> QED
      BY <2>1, <2>8, <2>3, <2>4, <3>1, <3>2
  <2>6. Metric!BucketOf(latency) = q
    BY <1>1, <1>4, <2>1, <2>7 DEF Metric!BucketOf
  <2> QED
    BY <1>1, <1>2, <2>5, <2>6
<1> QED
  BY <1>1, <1>3, <1>4

\* The programs.
LEMMA ProgramFacts ==
  ASSUME NEW latency \in Latencies
  PROVE  /\ \A accepted \in BOOLEAN :
              Metric!RecordAdd(latency, accepted) \in AddTails
         /\ \A ops \in {Metric!RecordCancel(latency),
                        Metric!RecordTrade(latency, 2),
                        Metric!TimerEnds(latency)} :
              ops \in Seq(Operations) /\ IsOtherTail(ops)
<1>1. PICK b \in Metric!Buckets : b = Metric!BucketOf(latency)
  BY BucketInRange
<1>2. ASSUME NEW accepted \in BOOLEAN
      PROVE  Metric!RecordAdd(latency, accepted) \in AddTails
  <2>1. PICK v \in {"accepted", "rejected"} :
          v = IF accepted THEN "accepted" ELSE "rejected"
    OBVIOUS
  <2>2. Metric!RecordAdd(latency, accepted)
          = <<Metric!Increment(<<"received">>, 1), Metric!Increment(<<v>>, 1),
              Metric!Increment(<<"add", b>>, 1)>>
    BY <1>1, <2>1 DEF Metric!RecordAdd
  <2>3. /\ <<"received">> \in Received /\ <<v>> \in Decided
        /\ <<"add", b>> \in Sampled
    BY <1>1 DEF Received, Decided, Sampled
  <2> QED
    BY <2>2, <2>3 DEF AddTails
<1>3. /\ <<"cancelled">> \in Metric!Fields /\ <<"executed">> \in Metric!Fields
      /\ <<"volume">> \in Metric!Fields
      /\ <<"cancel", b>> \in Metric!Fields /\ <<"match", b>> \in Metric!Fields
  BY DEF Metric!Fields, Metric!Counters, Metric!Histograms
<1>4. \A f \in {<<"cancelled">>, <<"executed">>, <<"volume">>, <<"cancel", b>>,
                <<"match", b>>} : f \notin UNION Groups
  BY DEF Groups, Received, Decided, Sampled
<1>5. /\ Metric!RecordCancel(latency) \in Seq(Operations)
      /\ Metric!RecordTrade(latency, 2) \in Seq(Operations)
      /\ Metric!TimerEnds(latency) \in Seq(Operations)
  BY <1>1, <1>3 DEF Metric!RecordCancel, Metric!RecordTrade, Metric!TimerEnds,
                    Metric!Increment, Operations
<1>6. /\ IsOtherTail(Metric!RecordCancel(latency))
      /\ IsOtherTail(Metric!RecordTrade(latency, 2))
      /\ IsOtherTail(Metric!TimerEnds(latency))
  <2>1. \A f, g, h :
          LET ops == <<Metric!Increment(f, 1), Metric!Increment(g, 2),
                       Metric!Increment(h, 1)>>
          IN  f \notin UNION Groups /\ g \notin UNION Groups
              /\ h \notin UNION Groups => IsOtherTail(ops)
    BY DEF Metric!Increment, IsOtherTail
  <2>2. \A f, h :
          f \notin UNION Groups /\ h \notin UNION Groups =>
            IsOtherTail(<<Metric!Increment(f, 1), Metric!Increment(h, 1)>>)
    BY DEF Metric!Increment, IsOtherTail
  <2>3. \A h : h \notin UNION Groups => IsOtherTail(<<Metric!Increment(h, 1)>>)
    BY DEF Metric!Increment, IsOtherTail
  <2> QED
    BY <1>1, <1>4, <2>1, <2>2, <2>3
    DEF Metric!RecordCancel, Metric!RecordTrade, Metric!TimerEnds
<1>7. ASSUME NEW ops, \/ ops = Metric!RecordCancel(latency)
                      \/ ops = Metric!RecordTrade(latency, 2)
                      \/ ops = Metric!TimerEnds(latency)
      PROVE  ops \in Seq(Operations) /\ IsOtherTail(ops)
  BY <1>5, <1>6, <1>7
<1> QED
  BY <1>2, <1>7

\* What is left of a record_add_order counts its order in each group that is
\* still to come, and the next operation in one of them.
LEMMA AddTailFacts ==
  ASSUME NEW ops \in AddTails
  PROVE  /\ ops \in Seq(Operations) /\ ops # << >> /\ Len(ops) > 0
         /\ ~Head(ops).store /\ Head(ops).add = 1
         /\ Head(ops).field \in Metric!Fields
         /\ ops[Len(ops)].field[1] = "add" /\ ~ops[Len(ops)].store
         /\ Tail(ops) = << >> \/ Tail(ops) \in AddTails
         /\ \E G \in Groups :
              /\ Head(ops).field \in G
              /\ Counts(ops, G) /\ ~Counts(Tail(ops), G)
              /\ \A H \in Groups \ {G} :
                   /\ Head(ops).field \notin H
                   /\ Counts(Tail(ops), H) <=> Counts(ops, H)
         /\ ~IsOtherTail(ops) /\ ~IsResetTail(ops)
<1> DEFINE O(f) == Metric!Increment(f, 1)
<1>1. \A f : O(f).field = f /\ O(f).add = 1 /\ O(f).store = FALSE
  BY DEF Metric!Increment
<1>2. \A f \in Metric!Fields : O(f) \in Operations
  BY DEF Metric!Increment, Operations
<1>3. /\ Received \in Groups /\ Decided \in Groups /\ Sampled \in Groups
      /\ \A H \in Groups : H = Received \/ H = Decided \/ H = Sampled
  BY DEF Groups
<1>4. \A f \in Sampled : f[1] = "add"
  BY DEF Sampled
<1> HIDE DEF O
<1>5. CASE \E h \in Sampled : ops = <<O(h)>>
  <2>1. PICK h \in Sampled : ops = <<O(h)>>
    BY <1>5
  <2>2. /\ Len(ops) = 1 /\ ops[1] = O(h) /\ Head(ops) = O(h)
        /\ Tail(ops) = << >>
    BY <2>1
  <2>3. h \notin Received /\ h \notin Decided /\ h \in Metric!Fields
    BY <1>3, GroupFacts
  <2>4. ops \in Seq(Operations)
    BY <2>1, <2>3, <1>2
  <2>5. \A G : Counts(ops, G) <=> h \in G
    BY <1>1, <2>2 DEF Counts
  <2>6. \A G : ~Counts(Tail(ops), G)
    <3>1. \A G : ~Counts(<< >>, G)
      BY DEF Counts
    <3> QED
      BY <2>2, <3>1, Zenon
  <2>7. \A H \in Groups \ {Sampled} : h \notin H
    BY <1>3, <2>3
  <2>8. ~IsOtherTail(ops) /\ ~IsResetTail(ops)
    BY <1>1, <1>3, <2>2 DEF IsOtherTail, IsResetTail
  <2>9. /\ Head(ops).field \in Sampled
        /\ Counts(ops, Sampled) /\ ~Counts(Tail(ops), Sampled)
        /\ \A H \in Groups \ {Sampled} :
             /\ Head(ops).field \notin H
             /\ Counts(Tail(ops), H) <=> Counts(ops, H)
    BY <1>1, <2>2, <2>5, <2>6, <2>7
  <2>10. /\ ops # << >> /\ Len(ops) > 0
         /\ ~Head(ops).store /\ Head(ops).add = 1
         /\ Head(ops).field \in Metric!Fields
         /\ ops[Len(ops)].field[1] = "add" /\ ~ops[Len(ops)].store
    BY <1>1, <1>4, <2>1, <2>2, <2>3
  <2> QED
    BY <1>3, <2>2, <2>4, <2>8, <2>9, <2>10
<1>6. CASE \E v \in Decided, h \in Sampled : ops = <<O(v), O(h)>>
  <2>1. PICK v \in Decided, h \in Sampled : ops = <<O(v), O(h)>>
    BY <1>6
  <2>2. /\ Len(ops) = 2 /\ ops[1] = O(v) /\ ops[2] = O(h) /\ Head(ops) = O(v)
        /\ Tail(ops) = <<O(h)>>
    BY <2>1
  <2>3. /\ h \notin Received /\ h \notin Decided /\ h \in Metric!Fields
        /\ v \notin Received /\ v \notin Sampled /\ v \in Metric!Fields
    BY <1>3, GroupFacts
  <2>4. ops \in Seq(Operations)
    BY <2>1, <2>3, <1>2
  <2>5. \A G : Counts(ops, G) <=> v \in G \/ h \in G
    BY <1>1, <2>2 DEF Counts
  <2>6. \A G : Counts(Tail(ops), G) <=> h \in G
    <3>1. \A G : Counts(<<O(h)>>, G) <=> h \in G
      BY <1>1 DEF Counts
    <3> QED
      BY <2>2, <3>1, Zenon
  <2>7. \A H \in Groups \ {Decided} : v \notin H
    BY <1>3, <2>3
  <2>8. ~IsOtherTail(ops) /\ ~IsResetTail(ops)
    BY <1>1, <1>3, <2>2 DEF IsOtherTail, IsResetTail
  <2>9. /\ Head(ops).field \in Decided
        /\ Counts(ops, Decided) /\ ~Counts(Tail(ops), Decided)
        /\ \A H \in Groups \ {Decided} :
             /\ Head(ops).field \notin H
             /\ Counts(Tail(ops), H) <=> Counts(ops, H)
    BY <1>1, <2>2, <2>3, <2>5, <2>6, <2>7
  <2>10. /\ ops # << >> /\ Len(ops) > 0
         /\ ~Head(ops).store /\ Head(ops).add = 1
         /\ Head(ops).field \in Metric!Fields
         /\ ops[Len(ops)].field[1] = "add" /\ ~ops[Len(ops)].store
    BY <1>1, <1>4, <2>1, <2>2, <2>3
  <2>11. Tail(ops) \in AddTails
    BY <2>2 DEF AddTails, O
  <2> QED
    BY <1>3, <2>4, <2>8, <2>9, <2>10, <2>11
<1>7. CASE \E r \in Received, v \in Decided, h \in Sampled :
             ops = <<O(r), O(v), O(h)>>
  <2>1. PICK r \in Received, v \in Decided, h \in Sampled :
          ops = <<O(r), O(v), O(h)>>
    BY <1>7
  <2>2. /\ Len(ops) = 3 /\ ops[1] = O(r) /\ ops[2] = O(v) /\ ops[3] = O(h)
        /\ Head(ops) = O(r) /\ Tail(ops) = <<O(v), O(h)>>
    BY <2>1
  <2>3. /\ h \notin Received /\ h \notin Decided /\ h \in Metric!Fields
        /\ v \notin Received /\ v \notin Sampled /\ v \in Metric!Fields
        /\ r \notin Decided /\ r \notin Sampled /\ r \in Metric!Fields
    BY <1>3, GroupFacts
  <2>4. ops \in Seq(Operations)
    BY <2>1, <2>3, <1>2
  <2>5. \A G : Counts(ops, G) <=> r \in G \/ v \in G \/ h \in G
    BY <1>1, <2>2 DEF Counts
  <2>6. \A G : Counts(Tail(ops), G) <=> v \in G \/ h \in G
    <3>1. \A G : Counts(<<O(v), O(h)>>, G) <=> v \in G \/ h \in G
      BY <1>1 DEF Counts
    <3> QED
      BY <2>2, <3>1, Zenon
  <2>7. \A H \in Groups \ {Received} : r \notin H
    BY <1>3, <2>3
  <2>8. ~IsOtherTail(ops) /\ ~IsResetTail(ops)
    BY <1>1, <1>3, <2>2 DEF IsOtherTail, IsResetTail
  <2>9. /\ Head(ops).field \in Received
        /\ Counts(ops, Received) /\ ~Counts(Tail(ops), Received)
        /\ \A H \in Groups \ {Received} :
             /\ Head(ops).field \notin H
             /\ Counts(Tail(ops), H) <=> Counts(ops, H)
    BY <1>1, <2>2, <2>3, <2>5, <2>6, <2>7
  <2>10. /\ ops # << >> /\ Len(ops) > 0
         /\ ~Head(ops).store /\ Head(ops).add = 1
         /\ Head(ops).field \in Metric!Fields
         /\ ops[Len(ops)].field[1] = "add" /\ ~ops[Len(ops)].store
    BY <1>1, <1>4, <2>1, <2>2, <2>3
  <2>11. Tail(ops) \in AddTails
    BY <2>2 DEF AddTails, O
  <2> QED
    BY <1>3, <2>4, <2>8, <2>9, <2>10, <2>11
<1> QED
  BY <1>5, <1>6, <1>7 DEF AddTails, O

\* Other records and resets count in no group, and neither do what is left of
\* them.
LEMMA OtherTailFacts ==
  ASSUME NEW ops \in Seq(Operations), IsOtherTail(ops) \/ IsResetTail(ops)
  PROVE  /\ ops \notin AddTails
         /\ \A G \in Groups : ~Counts(ops, G)
         /\ \A G \in Groups : ops # << >> => ~Counts(Tail(ops), G)
         /\ IsOtherTail(ops) => ~IsResetTail(ops)
         /\ IsOtherTail(ops) /\ ops # << >> =>
              /\ IsOtherTail(Tail(ops)) /\ ~Head(ops).store
              /\ Head(ops).field \notin UNION Groups
              /\ ~ops[Len(ops)].store
         /\ IsResetTail(ops) =>
              /\ Head(ops).store /\ ops[Len(ops)].store
              /\ Tail(ops) = << >> \/ IsResetTail(Tail(ops))
              /\ Left(ops) = Left(Tail(ops)) \cup {Head(ops).field}
         /\ ops # << >> => Head(ops) \in Operations
<1>1. ops \notin AddTails
  BY AddTailFacts
<1>2. \A G \in Groups : ~Counts(ops, G)
  BY DEF IsOtherTail, IsResetTail, Counts
<1>3. ops # << >> =>
        /\ Len(ops) \in Nat \ {0} /\ Head(ops) = ops[1]
        /\ Tail(ops) \in Seq(Operations)
        /\ Len(Tail(ops)) = Len(ops) - 1
        /\ \A i \in 1 .. Len(Tail(ops)) : Tail(ops)[i] = ops[i + 1]
  OBVIOUS
<1>4. \A G \in Groups : ops # << >> => ~Counts(Tail(ops), G)
  BY <1>2, <1>3 DEF Counts
<1>5. IsOtherTail(ops) => ~IsResetTail(ops)
  BY <1>3 DEF IsOtherTail, IsResetTail
<1>6. IsOtherTail(ops) /\ ops # << >> =>
        /\ IsOtherTail(Tail(ops)) /\ ~Head(ops).store
        /\ Head(ops).field \notin UNION Groups /\ ~ops[Len(ops)].store
  BY <1>3 DEF IsOtherTail
<1>7. IsResetTail(ops) =>
        /\ Head(ops).store /\ ops[Len(ops)].store
        /\ Tail(ops) = << >> \/ IsResetTail(Tail(ops))
  BY <1>3 DEF IsResetTail
<1>8. ASSUME IsResetTail(ops)
      PROVE  Left(ops) = Left(Tail(ops)) \cup {Head(ops).field}
  <2>1. ops # << >>
    BY <1>8 DEF IsResetTail
  <2>2. PICK n \in Nat : Len(ops) = n + 1
    <3>1. Len(ops) - 1 \in Nat /\ Len(ops) = (Len(ops) - 1) + 1
      BY <2>1, <1>3
    <3> QED
      BY <3>1
  <2>3. \A i \in 1 .. n + 1 : i = 1 \/ i - 1 \in 1 .. n
    OBVIOUS
  <2>4. ASSUME NEW f \in Left(ops)
        PROVE  f \in Left(Tail(ops)) \cup {Head(ops).field}
    <3>1. PICK i \in 1 .. n + 1 : f = ops[i].field
      BY <2>2 DEF Left
    <3>2. CASE i = 1
      BY <3>1, <3>2, <2>1, <1>3
    <3>3. CASE i - 1 \in 1 .. n
      <4>1. Tail(ops)[i - 1] = ops[i]
        BY <3>3, <2>1, <2>2, <1>3
      <4>2. i - 1 \in 1 .. Len(Tail(ops))
        BY <3>3, <2>1, <2>2, <1>3
      <4> QED
        BY <4>1, <4>2, <3>1 DEF Left
    <3> QED
      BY <2>3, <3>2, <3>3
  <2>5. ASSUME NEW f \in Left(Tail(ops)) \cup {Head(ops).field}
        PROVE  f \in Left(ops)
    <3>1. CASE f = Head(ops).field
      BY <3>1, <2>1, <1>3 DEF Left
    <3>2. CASE f \in Left(Tail(ops))
      <4>1. PICK i \in 1 .. Len(Tail(ops)) : f = Tail(ops)[i].field
        BY <3>2 DEF Left
      <4>2. i + 1 \in 1 .. Len(ops) /\ f = ops[i + 1].field
        BY <4>1, <2>1, <1>3
      <4> QED
        BY <4>2 DEF Left
    <3> QED
      BY <2>5, <3>1, <3>2
  <2> QED
    BY <2>4, <2>5
<1>9. ops # << >> => Head(ops) \in Operations
  OBVIOUS
<1> QED
  BY <1>1, <1>2, <1>4, <1>5, <1>6, <1>7, <1>8, <1>9

\* The threads of a kind are finitely many.
LEMMA ThreadSets ==
  ASSUME NEW S \in SUBSET Threads
  PROVE  IsFiniteSet(S) /\ Cardinality(S) \in Nat
BY MetricsContract, FS_Subset, FS_CardinalityType

\* A reset has every group before it when it begins.
LEMMA ResetFacts ==
  /\ Metric!Reset \in Seq(Operations)
  /\ IsResetTail(Metric!Reset)
  /\ \A G \in Groups : G \subseteq Left(Metric!Reset)
<1> DEFINE Zeroes(s) == s \in Seq(Operations)
                        /\ \A i \in 1 .. Len(s) : s[i].store
           Z(f) == Metric!Store0(f)
           counters == <<Z(<<"received">>), Z(<<"accepted">>),
                         Z(<<"rejected">>), Z(<<"cancelled">>),
                         Z(<<"executed">>), Z(<<"volume">>)>>
           H(h) == Metric!ResetHistogram(h)
<1>1. \A f : Z(f).field = f /\ Z(f).store = TRUE
  BY DEF Metric!Store0
<1>2. \A f \in Metric!Fields : Z(f) \in Operations
  BY DEF Metric!Store0, Operations
<1>3. ASSUME NEW h \in Metric!Histograms
      PROVE  /\ Zeroes(H(h))
             /\ \A b \in Metric!Buckets : <<h, b>> \in Left(H(h))
  <2>1. PICK n \in Nat \ {0} : n = NUM_BUCKETS
    BY MetricsContract
  <2>2. H(h) = [i \in 1 .. n |-> Z(<<h, i - 1>>)]
    BY <2>1 DEF Metric!ResetHistogram
  <2>3. \A i \in 1 .. n : i - 1 \in Metric!Buckets
    BY <2>1 DEF Metric!Buckets
  <2>4. \A i \in 1 .. n : <<h, i - 1>> \in Metric!Fields
    BY <2>3 DEF Metric!Fields
  <2> HIDE DEF H, Z
  <2>5. H(h) \in [1 .. n -> Operations]
    BY <1>2, <2>2, <2>4
  <2>6. H(h) \in Seq(Operations) /\ Len(H(h)) = n
    BY <2>5
  <2>7. Zeroes(H(h))
    BY <1>1, <2>2, <2>6
  <2>8. ASSUME NEW b \in Metric!Buckets
        PROVE  <<h, b>> \in Left(H(h))
    <3>1. b \in Nat /\ b + 1 \in 1 .. n /\ (b + 1) - 1 = b
      BY <2>1 DEF Metric!Buckets
    <3>2. H(h)[b + 1].field = <<h, b>>
      BY <1>1, <2>2, <3>1
    <3> QED
      BY <3>1, <3>2, <2>6 DEF Left
  <2> QED
    BY <2>7, <2>8
<1>4. /\ Zeroes(counters) /\ Len(counters) = 6
      /\ \A G \in {Received, Decided} : G \subseteq Left(counters)
  <2>1. /\ <<"received">> \in Metric!Fields /\ <<"accepted">> \in Metric!Fields
        /\ <<"rejected">> \in Metric!Fields /\ <<"cancelled">> \in Metric!Fields
        /\ <<"executed">> \in Metric!Fields /\ <<"volume">> \in Metric!Fields
    BY DEF Metric!Fields, Metric!Counters
  <2> HIDE DEF Z
  <2>2. counters \in Seq(Operations) /\ Len(counters) = 6
    BY <1>2, <2>1
  <2>3. /\ counters[1] = Z(<<"received">>) /\ counters[2] = Z(<<"accepted">>)
        /\ counters[3] = Z(<<"rejected">>) /\ counters[4] = Z(<<"cancelled">>)
        /\ counters[5] = Z(<<"executed">>) /\ counters[6] = Z(<<"volume">>)
    OBVIOUS
  <2> HIDE DEF counters
  <2>4. \A i \in 1 .. 6 : i = 1 \/ i = 2 \/ i = 3 \/ i = 4 \/ i = 5 \/ i = 6
    OBVIOUS
  <2>5. \A i \in 1 .. 6 : counters[i].store = TRUE
    BY <1>1, <2>3, <2>4
  <2>6. /\ <<"received">> \in Left(counters) /\ <<"accepted">> \in Left(counters)
        /\ <<"rejected">> \in Left(counters)
    <3>1. 1 \in 1 .. 6 /\ 2 \in 1 .. 6 /\ 3 \in 1 .. 6
      OBVIOUS
    <3> QED
      BY <1>1, <2>2, <2>3, <3>1 DEF Left
  <2> QED
    BY <2>2, <2>5, <2>6 DEF Received, Decided
<1>5. ASSUME NEW s, NEW r, Zeroes(s), Zeroes(r)
      PROVE  /\ Zeroes(s \o r) /\ Len(s \o r) >= Len(s)
             /\ Left(s) \subseteq Left(s \o r) /\ Left(r) \subseteq Left(s \o r)
  <2>1. PICK m \in Nat, n \in Nat : m = Len(s) /\ n = Len(r)
    BY <1>5
  <2>2. s \o r \in Seq(Operations) /\ Len(s \o r) = m + n
    BY <1>5, <2>1
  <2>3. \A i \in 1 .. m : i \in 1 .. m + n /\ (s \o r)[i] = s[i]
    BY <1>5, <2>1
  <2>4. \A i \in 1 .. n : i + m \in 1 .. m + n /\ (s \o r)[i + m] = r[i]
    BY <1>5, <2>1
  <2>5. \A i \in 1 .. m + n : i \in 1 .. m \/ (i - m \in 1 .. n /\ (i - m) + m = i)
    OBVIOUS
  <2>6. \A i \in 1 .. m + n : (s \o r)[i].store
    BY <1>5, <2>1, <2>3, <2>4, <2>5
  <2>7. Left(s) \subseteq Left(s \o r)
    BY <2>1, <2>2, <2>3 DEF Left
  <2>8. Left(r) \subseteq Left(s \o r)
    BY <2>1, <2>2, <2>4 DEF Left
  <2> QED
    BY <2>1, <2>2, <2>6, <2>7, <2>8
<1>6. Metric!Reset = ((counters \o H("add")) \o H("cancel")) \o H("match")
  BY DEF Metric!Reset
<1>7. {"add", "cancel", "match"} = Metric!Histograms
  BY DEF Metric!Histograms
<1> HIDE DEF Z, counters, H, Zeroes
<1>8. PICK a, c, m, s : a = H("add") /\ c = H("cancel") /\ m = H("match")
                        /\ s = counters
  OBVIOUS
<1>9. /\ Zeroes(a) /\ Zeroes(c) /\ Zeroes(m) /\ Zeroes(s) /\ Len(s) = 6
      /\ \A b \in Metric!Buckets : <<"add", b>> \in Left(a)
  BY <1>3, <1>4, <1>7, <1>8
<1>10. PICK x : x = s \o a
  OBVIOUS
<1>11. Zeroes(x) /\ Len(x) >= 6 /\ Left(s) \subseteq Left(x)
       /\ Left(a) \subseteq Left(x)
  BY <1>5, <1>9, <1>10
<1>12. PICK y : y = x \o c
  OBVIOUS
<1>13. Zeroes(y) /\ Len(y) >= Len(x) /\ Left(x) \subseteq Left(y)
  BY <1>5, <1>9, <1>11, <1>12
<1>14. PICK z : z = y \o m
  OBVIOUS
<1>15. Zeroes(z) /\ Len(z) >= Len(y) /\ Left(y) \subseteq Left(z)
  BY <1>5, <1>9, <1>13, <1>14
<1>16. Metric!Reset = z
  BY <1>6, <1>8, <1>10, <1>12, <1>14
<1>17. z \in Seq(Operations) /\ \A i \in 1 .. Len(z) : z[i].store
  BY <1>15 DEF Zeroes
<1>18. x \in Seq(Operations) /\ y \in Seq(Operations)
  BY <1>11, <1>13 DEF Zeroes
<1>19. Len(z) >= 6
  BY <1>11, <1>13, <1>15, <1>17, <1>18
<1>20. z # << >>
  BY <1>17, <1>19
<1>21. Sampled \subseteq Left(a)
  BY <1>9 DEF Sampled
<1>22. Received \subseteq Left(s) /\ Decided \subseteq Left(s)
  BY <1>4, <1>8
<1>23. \A G \in Groups : G \subseteq Left(z)
  BY <1>11, <1>13, <1>15, <1>21, <1>22 DEF Groups
<1> QED
  BY <1>16, <1>17, <1>20, <1>23 DEF IsResetTail

\* What a new program of a thread changes.
LEMMA TodoChange ==
  ASSUME NEW t \in Threads, NEW ops, NEW G, MetricsTyped,
         todo' = [todo EXCEPT ![t] = ops]
  PROVE  /\ \A u \in Threads \ {t} : todo'[u] = todo[u]
         /\ todo'[t] = ops
         /\ (Counts(ops, G) <=> Counts(todo[t], G)) => Pending(G)' = Pending(G)
         /\ Counts(ops, G) /\ ~Counts(todo[t], G) =>
              Cardinality(Pending(G)') = Cardinality(Pending(G)) + 1
         /\ ~Counts(ops, G) /\ Counts(todo[t], G) =>
              Cardinality(Pending(G)') = Cardinality(Pending(G)) - 1
         /\ Recording' \subseteq Recording \cup {t}
         /\ ops \notin AddTails => Recording' \subseteq Recording
         /\ (IsResetTail(ops) <=> IsResetTail(todo[t])) => Resets' = Resets
         /\ IsResetTail(ops) => Resets' = Resets \cup {t}
         /\ ~IsResetTail(ops) => Resets' = Resets \ {t}
<1>1. /\ \A u \in Threads \ {t} : todo'[u] = todo[u]
      /\ todo'[t] = ops
  BY DEF MetricsTyped
<1>2. (Counts(ops, G) <=> Counts(todo[t], G)) => Pending(G)' = Pending(G)
  BY <1>1 DEF Pending
<1>3. ASSUME Counts(ops, G), ~Counts(todo[t], G)
      PROVE  Cardinality(Pending(G)') = Cardinality(Pending(G)) + 1
  <2>1. Pending(G)' = Pending(G) \cup {t} /\ t \notin Pending(G)
    BY <1>1, <1>3 DEF Pending
  <2>2. IsFiniteSet(Pending(G))
    BY ThreadSets DEF Pending
  <2> QED
    BY <2>1, <2>2, FS_AddElement
<1>4. ASSUME ~Counts(ops, G), Counts(todo[t], G)
      PROVE  Cardinality(Pending(G)') = Cardinality(Pending(G)) - 1
  <2>1. Pending(G)' = Pending(G) \ {t} /\ t \in Pending(G)
    BY <1>1, <1>4 DEF Pending
  <2>2. IsFiniteSet(Pending(G))
    BY ThreadSets DEF Pending
  <2> QED
    BY <2>1, <2>2, FS_RemoveElement
<1>5. /\ Recording' \subseteq Recording \cup {t}
      /\ ops \notin AddTails => Recording' \subseteq Recording
  BY <1>1 DEF Recording
<1>6. /\ (IsResetTail(ops) <=> IsResetTail(todo[t])) => Resets' = Resets
      /\ IsResetTail(ops) => Resets' = Resets \cup {t}
      /\ ~IsResetTail(ops) => Resets' = Resets \ {t}
  BY <1>1 DEF Resets
<1> QED
  BY <1>1, <1>2, <1>3, <1>4, <1>5, <1>6

\* What is expected of a group is a number.
LEMMA ExpectedType ==
  ASSUME NEW G \in Groups, NEW rem, MetricsTyped
  PROVE  /\ \A f \in G : Visible(rem)[f] \in Nat
         /\ SumFunctionOnSet(Visible(rem), G) \in Nat
         /\ Cardinality(Pending(G)) \in Nat
         /\ Expected(rem, G)
              = SumFunctionOnSet(Visible(rem), G) + Cardinality(Pending(G))
         /\ Expected(rem, G) \in Nat
<1>1. \A f \in G : Visible(rem)[f] \in Nat
  BY GroupFacts DEF Visible, MetricsTyped
<1>2. SumFunctionOnSet(Visible(rem), G) \in Nat
  BY <1>1, GroupFacts, SumType
<1>3. Cardinality(Pending(G)) \in Nat
  BY ThreadSets DEF Pending
<1> QED
  BY <1>1, <1>2, <1>3 DEF Expected

\* How the change of one field shows in a group.
LEMMA ValueChange ==
  ASSUME NEW G \in Groups, NEW rem, NEW f \in Metric!Fields, NEW n \in Nat,
         MetricsTyped, value' = [value EXCEPT ![f] = n]
  PROVE  /\ f \notin G \/ f \in rem =>
              SumFunctionOnSet(Visible(rem)', G)
                = SumFunctionOnSet(Visible(rem), G)
         /\ f \in G /\ f \notin rem =>
              SumFunctionOnSet(Visible(rem)', G)
                = (SumFunctionOnSet(Visible(rem), G) - value[f]) + n
<1>1. IsFiniteSet(G) /\ G \subseteq Metric!Fields
  BY GroupFacts
<1>2. PICK v, w : v = Visible(rem) /\ w = Visible(rem)'
  OBVIOUS
<1>3. \A g \in G : v[g] = IF g \in rem THEN 0 ELSE value[g]
  BY <1>1, <1>2 DEF Visible
<1>4. \A g \in G : w[g] = IF g \in rem THEN 0 ELSE value'[g]
  BY <1>1, <1>2 DEF Visible
<1>5. /\ \A g \in G \ {f} : value'[g] = value[g]
      /\ value'[f] = n /\ value[f] \in Nat
      /\ \A g \in G : value[g] \in Nat /\ value'[g] \in Nat
  BY <1>1 DEF MetricsTyped
<1>6. \A g \in G : v[g] \in Nat /\ w[g] \in Nat
  BY <1>3, <1>4, <1>5
<1>7. ASSUME f \notin G \/ f \in rem
      PROVE  SumFunctionOnSet(w, G) = SumFunctionOnSet(v, G)
  <2>1. \A g \in G : w[g] = v[g]
    BY <1>3, <1>4, <1>5, <1>7
  <2> QED
    BY <1>1, <2>1, SumSame
<1>8. ASSUME f \in G, f \notin rem
      PROVE  SumFunctionOnSet(w, G) = (SumFunctionOnSet(v, G) - value[f]) + n
  <2>1. \A g \in G \ {f} : v[g] = w[g]
    BY <1>3, <1>4, <1>5
  <2>4. PICK e \in G : e = f
    BY <1>8
  <2>5. SumFunctionOnSet(w, G) = (SumFunctionOnSet(v, G) - v[e]) + w[e]
    <3>1. IsFiniteSet(G)
      BY <1>1
    <3>2. \A x \in G : v[x] \in Nat /\ w[x] \in Nat
      BY <1>6
    <3>3. \A x \in G \ {e} : v[x] = w[x]
      BY <2>1, <2>4
    <3> QED
      BY <3>1, <3>2, <3>3, SumBump
  <2>2. SumFunctionOnSet(w, G) = (SumFunctionOnSet(v, G) - v[f]) + w[f]
    BY <2>4, <2>5
  <2>3. v[f] = value[f] /\ w[f] = n
    BY <1>3, <1>4, <1>5, <1>8
  <2> QED
    BY <2>2, <2>3
<1> QED
  BY <1>2, <1>7, <1>8

\* Where the threads are, in the terms of Metrics.tla.
LEMMA CallFacts ==
  ASSUME MetricsTyped, CallsAreTails, NEW t \in Threads
  PROVE  /\ Metric!Idle(t) <=> todo[t] = << >>
         /\ t \in Resets <=> t \in Metric!Resetting
         /\ t \in Recording => t \in Metric!Adding
         /\ \A G \in Groups : t \in Pending(G) => t \in Recording
<1>1. PICK ops \in Seq(Operations) : ops = todo[t]
  BY DEF MetricsTyped
<1>2. \/ ops \in AddTails
      \/ IsOtherTail(ops) \/ IsResetTail(ops)
  BY <1>1 DEF CallsAreTails
<1>3. Metric!Idle(t) <=> ops = << >>
  BY <1>1 DEF Metric!Idle
<1>4. t \in Metric!Resetting <=> ops # << >> /\ ops[Len(ops)].store
  BY <1>1, <1>3, MetricTerms DEF Metric!Resetting
<1>5. t \in Metric!Adding <=> ops # << >> /\ ops[Len(ops)].field[1] = "add"
  BY <1>1, <1>3, MetricTerms DEF Metric!Adding
<1>6. /\ t \in Resets <=> IsResetTail(ops)
      /\ t \in Recording <=> ops \in AddTails
      /\ \A G : t \in Pending(G) <=> Counts(ops, G)
  BY <1>1 DEF Resets, Recording, Pending
<1>7. CASE ops \in AddTails
  BY <1>1, <1>3, <1>4, <1>5, <1>6, <1>7, AddTailFacts
<1>8. CASE IsOtherTail(ops) \/ IsResetTail(ops)
  <2>1. ops \notin AddTails /\ \A G \in Groups : ~Counts(ops, G)
    BY <1>8, OtherTailFacts
  <2>2. IsResetTail(ops) => ops # << >> /\ ops[Len(ops)].store
    BY <1>8, OtherTailFacts DEF IsResetTail
  <2>3. IsOtherTail(ops) => ~IsResetTail(ops)
    BY <1>8, OtherTailFacts
  <2>4. IsOtherTail(ops) /\ ops # << >> => ~ops[Len(ops)].store
    BY <1>8, OtherTailFacts
  <2>5. t \in Resets <=> t \in Metric!Resetting
    BY <1>4, <1>6, <1>8, <2>2, <2>3, <2>4
  <2> QED
    BY <1>1, <1>3, <1>6, <2>1, <2>5
<1> QED
  BY <1>2, <1>7, <1>8

\* What one atomic operation does.
LEMMA StepEffect ==
  ASSUME MetricsTyped, CallsAreTails, NEW t \in Threads, Metric!Step(t)
  PROVE  \E ops \in Seq(Operations), f \in Metric!Fields, n \in Nat :
           /\ ops = todo[t] /\ ops # << >>
           /\ \/ ops \in AddTails
              \/ IsOtherTail(ops) \/ IsResetTail(ops)
           /\ Tail(ops) \in Seq(Operations)
           /\ f = Head(ops).field
           /\ Head(ops).add \in Nat
           /\ n = IF Head(ops).store THEN 0 ELSE value[f] + Head(ops).add
           /\ value' = [value EXCEPT ![f] = n]
           /\ todo' = [todo EXCEPT ![t] = Tail(ops)]
           /\ scan' = [scan EXCEPT !.disturbed = @ \/ Head(ops).store]
           /\ answer' = IF Head(ops).store THEN Metric!NoAnswer ELSE answer
           /\ torn' = torn
<1>1. PICK ops \in Seq(Operations) : ops = todo[t]
  BY DEF MetricsTyped
<1>2. ops # << >>
  BY <1>1 DEF Metric!Step, Metric!Idle
<1>3. \/ ops \in AddTails
      \/ IsOtherTail(ops) \/ IsResetTail(ops)
  BY <1>1 DEF CallsAreTails
<1>4. Head(ops) \in Operations /\ Tail(ops) \in Seq(Operations)
  BY <1>2
<1>5. PICK op \in Operations : op = Head(ops)
  BY <1>4
<1>6. PICK f \in Metric!Fields : f = op.field
  BY DEF Operations
<1>7. value[f] \in Nat /\ op.add \in Nat
  BY DEF MetricsTyped, Operations
<1>8. PICK n \in Nat : n = IF op.store THEN 0 ELSE value[f] + op.add
  BY <1>7
<1>9. value' = [value EXCEPT ![f] = n]
  BY <1>1, <1>5, <1>6, <1>8 DEF Metric!Step, Metric!Apply
<1>10. todo' = [todo EXCEPT ![t] = Tail(ops)]
  BY <1>1 DEF Metric!Step
<1>11. /\ scan' = [scan EXCEPT !.disturbed = @ \/ op.store]
       /\ answer' = IF op.store THEN Metric!NoAnswer ELSE answer
       /\ torn' = torn
  BY <1>1, <1>5 DEF Metric!Step
<1> QED
  BY <1>1, <1>2, <1>3, <1>4, <1>5, <1>6, <1>7, <1>8, <1>9, <1>10, <1>11

\* A thread's call stays of its kind.
LEMMA CallsStay ==
  ASSUME NEW t \in Threads, NEW ops \in Seq(Operations), MetricsTyped,
         CallsAreTails, todo' = [todo EXCEPT ![t] = ops],
         \/ ops \in AddTails
         \/ IsOtherTail(ops) \/ IsResetTail(ops)
  PROVE  todo' \in [Threads -> Seq(Operations)] /\ CallsAreTails'
<1>1. todo' \in [Threads -> Seq(Operations)]
  BY DEF MetricsTyped
<1>2. /\ \A u \in Threads \ {t} : todo'[u] = todo[u]
      /\ todo'[t] = ops
  BY DEF MetricsTyped
<1> QED
  BY <1>1, <1>2 DEF CallsAreTails

\* Nothing is left of a call that is over.
LEMMA NothingLeft ==
  /\ IsOtherTail(<< >>) /\ << >> \notin AddTails /\ ~IsResetTail(<< >>)
  /\ << >> \in Seq(Operations) /\ \A G : ~Counts(<< >>, G)
<1>1. << >> \in Seq(Operations) /\ Len(<< >>) = 0
  OBVIOUS
<1>2. IsOtherTail(<< >>) /\ ~IsResetTail(<< >>) /\ \A G : ~Counts(<< >>, G)
  BY DEF IsOtherTail, IsResetTail, Counts
<1> QED
  BY <1>1, <1>2, AddTailFacts

LEMMA MetricsTypeStep ==
  ASSUME MetricsTyped, CallsAreTails, Metric!Next
  PROVE  MetricsTyped' /\ CallsAreTails'
<1>1. ASSUME NEW t \in Threads, Metric!BeginAdd(t)
      PROVE  MetricsTyped' /\ CallsAreTails'
  <2>1. PICK latency \in Latencies, accepted \in BOOLEAN :
          Metric!Begin(t, Metric!RecordAdd(latency, accepted))
    BY <1>1 DEF Metric!BeginAdd
  <2>2. PICK ops : ops = Metric!RecordAdd(latency, accepted)
    OBVIOUS
  <2>3. ops \in AddTails
    BY <2>2, ProgramFacts
  <2>4. ops \in Seq(Operations)
    BY <2>3, AddTailFacts
  <2>5. /\ todo' = [todo EXCEPT ![t] = ops]
        /\ value' = value /\ scan' = scan
    BY <2>1, <2>2 DEF Metric!Begin
  <2>6. torn' \in Nat
    BY <1>1 DEF Metric!BeginAdd, MetricsTyped
  <2> QED
    BY <2>3, <2>4, <2>5, <2>6, CallsStay DEF MetricsTyped
<1>2. ASSUME NEW t \in Threads, Metric!BeginOther(t)
      PROVE  MetricsTyped' /\ CallsAreTails'
  <2>1. PICK latency \in Latencies :
          \/ Metric!Begin(t, Metric!RecordCancel(latency))
          \/ Metric!Begin(t, Metric!RecordTrade(latency, 2))
          \/ Metric!Begin(t, Metric!TimerEnds(latency))
    BY <1>2 DEF Metric!BeginOther
  <2>2. PICK ops \in {Metric!RecordCancel(latency),
                      Metric!RecordTrade(latency, 2),
                      Metric!TimerEnds(latency)} : Metric!Begin(t, ops)
    BY <2>1
  <2>3. ops \in Seq(Operations) /\ IsOtherTail(ops)
    BY ProgramFacts
  <2>4. /\ todo' = [todo EXCEPT ![t] = ops]
        /\ value' = value /\ scan' = scan /\ torn' = torn
    BY <1>2, <2>2 DEF Metric!Begin, Metric!BeginOther
  <2> QED
    BY <2>3, <2>4, CallsStay DEF MetricsTyped
<1>3. ASSUME NEW t \in Threads, Metric!BeginReset(t)
      PROVE  MetricsTyped' /\ CallsAreTails'
  <2>1. PICK ops \in Seq(Operations) : ops = Metric!Reset
    BY ResetFacts
  <2>2. IsResetTail(ops)
    BY <2>1, ResetFacts
  <2>3. /\ todo' = [todo EXCEPT ![t] = ops]
        /\ value' = value /\ scan' = scan
        /\ torn' = Metric!Cardinality(Metric!Adding)
    BY <1>3, <2>1 DEF Metric!BeginReset
  <2>4. Metric!Adding \in SUBSET Threads
    BY DEF Metric!Adding
  <2>5. torn' \in Nat
    BY <2>3, <2>4, ThreadSets, MetricTerms
  <2> QED
    BY <2>2, <2>3, <2>5, CallsStay DEF MetricsTyped
<1>4. ASSUME NEW t \in Threads, Metric!Step(t)
      PROVE  MetricsTyped' /\ CallsAreTails'
  <2>1. PICK ops \in Seq(Operations), f \in Metric!Fields, n \in Nat :
           /\ ops = todo[t] /\ ops # << >>
           /\ \/ ops \in AddTails
              \/ IsOtherTail(ops) \/ IsResetTail(ops)
           /\ Tail(ops) \in Seq(Operations)
           /\ value' = [value EXCEPT ![f] = n]
           /\ todo' = [todo EXCEPT ![t] = Tail(ops)]
           /\ scan' = [scan EXCEPT !.disturbed = @ \/ Head(ops).store]
           /\ torn' = torn
    BY <1>4, StepEffect
  <2>2. PICK rest \in Seq(Operations) : rest = Tail(ops)
    BY <2>1
  <2>3. \/ rest = << >> \/ rest \in AddTails
        \/ IsOtherTail(rest) \/ IsResetTail(rest)
    BY <2>1, <2>2, AddTailFacts, OtherTailFacts
  <2>4. rest \in AddTails \/ IsOtherTail(rest) \/ IsResetTail(rest)
    BY <2>3, NothingLeft
  <2>5. todo' \in [Threads -> Seq(Operations)] /\ CallsAreTails'
    BY <2>1, <2>2, <2>4, CallsStay
  <2>6. value' \in [Metric!Fields -> Nat]
    BY <2>1 DEF MetricsTyped
  <2>7. Head(ops).store \in BOOLEAN
    <3>1. Head(ops) \in Operations
      BY <2>1
    <3> QED
      BY <3>1, Zenon DEF Operations
  <2>8. scan' \in [at : {"idle", "total", "scan"}, h : Metric!Histograms,
                   p : 0 .. 100, next : Metric!Buckets, sum : Nat,
                   target : Nat, disturbed : BOOLEAN]
    BY <2>1, <2>7 DEF MetricsTyped
  <2> QED
    BY <2>1, <2>5, <2>6, <2>8 DEF MetricsTyped
<1>5. ASSUME NEW h \in Watched, NEW p \in Percentiles,
             Metric!BeginPercentile(h, p)
      PROVE  MetricsTyped' /\ CallsAreTails'
  <2>1. /\ value' = value /\ todo' = todo /\ torn' = torn
        /\ scan' = [Metric!NoScan EXCEPT !.at = "total", !.h = h, !.p = p]
    BY <1>5 DEF Metric!BeginPercentile
  <2>2. h \in Metric!Histograms /\ p \in 0 .. 100 /\ 0 \in Metric!Buckets
    BY MetricsContract DEF Metric!Buckets
  <2>3. scan' \in [at : {"idle", "total", "scan"}, h : Metric!Histograms,
                   p : 0 .. 100, next : Metric!Buckets, sum : Nat,
                   target : Nat, disturbed : BOOLEAN]
    BY <2>1, <2>2 DEF Metric!NoScan
  <2> QED
    BY <2>1, <2>3 DEF MetricsTyped, CallsAreTails
<1> DEFINE Scans == [at : {"idle", "total", "scan"}, h : Metric!Histograms,
                     p : 0 .. 100, next : Metric!Buckets, sum : Nat,
                     target : Nat, disturbed : BOOLEAN]
<1>6. Metric!NoScan \in Scans
  <2>1. 0 \in Metric!Buckets /\ "add" \in Metric!Histograms /\ 0 \in 0 .. 100
    BY MetricsContract DEF Metric!Buckets, Metric!Histograms
  <2> QED
    BY <2>1 DEF Metric!NoScan
<1>7. /\ scan \in Scans
      /\ scan.at \in {"idle", "total", "scan"} /\ scan.h \in Metric!Histograms
      /\ scan.p \in 0 .. 100 /\ scan.next \in Metric!Buckets /\ scan.sum \in Nat
      /\ scan.target \in Nat
      /\ value[<<scan.h, scan.next>>] \in Nat
      /\ scan.next + 1 < NUM_BUCKETS => scan.next + 1 \in Metric!Buckets
  <2>1. scan \in Scans
    BY DEF MetricsTyped
  <2>2. /\ scan.at \in {"idle", "total", "scan"} /\ scan.h \in Metric!Histograms
        /\ scan.p \in 0 .. 100 /\ scan.next \in Metric!Buckets
        /\ scan.sum \in Nat /\ scan.target \in Nat
    BY <2>1
  <2>3. <<scan.h, scan.next>> \in Metric!Fields
    BY <2>2 DEF Metric!Fields
  <2>4. value[<<scan.h, scan.next>>] \in Nat
    BY <2>3 DEF MetricsTyped
  <2>5. scan.next + 1 < NUM_BUCKETS => scan.next + 1 \in Metric!Buckets
    BY <2>2, MetricsContract DEF Metric!Buckets
  <2> QED
    BY <2>1, <2>2, <2>4, <2>5
<1>8. ASSUME Metric!LoadForTotal
      PROVE  MetricsTyped' /\ CallsAreTails'
  <2>1. value' = value /\ todo' = todo /\ torn' = torn
    BY <1>8 DEF Metric!LoadForTotal
  <2>2. PICK total \in Nat : total = scan.sum + value[<<scan.h, scan.next>>]
    BY <1>7
  <2>3. (total * scan.p) \div 100 \in Nat
    <3>1. total * scan.p \in Nat
      BY <1>7, SMTT(30)
    <3>2. PICK k \in Nat, c \in Nat \ {0} : k = total * scan.p /\ c = 100
      BY <3>1
    <3>3. k \div c \in Nat
      BY Division
    <3> QED
      BY <3>2, <3>3
  <2>4. PICK goal \in Nat : goal = (total * scan.p) \div 100
    BY <2>3
  <2>5. scan' = IF scan.next + 1 < NUM_BUCKETS
                  THEN [scan EXCEPT !.next = @ + 1, !.sum = total]
                ELSE IF total = 0 THEN Metric!NoScan
                ELSE [scan EXCEPT !.at = "scan", !.next = 0, !.sum = 0,
                                  !.target = goal]
    BY <1>8, <2>2, <2>4 DEF Metric!LoadForTotal
  <2>6. 0 \in Metric!Buckets
    BY MetricsContract DEF Metric!Buckets
  <2>7. [scan EXCEPT !.at = "scan", !.next = 0, !.sum = 0, !.target = goal]
          \in Scans
    BY <1>7, <2>6
  <2>8. scan.next + 1 < NUM_BUCKETS =>
          [scan EXCEPT !.next = @ + 1, !.sum = total] \in Scans
    BY <1>7
  <2>9. scan' \in Scans
    BY <1>6, <2>5, <2>7, <2>8
  <2> QED
    BY <2>1, <2>9 DEF MetricsTyped, CallsAreTails
<1>9. ASSUME Metric!LoadForTarget
      PROVE  MetricsTyped' /\ CallsAreTails'
  <2>1. value' = value /\ todo' = todo /\ torn' = torn
    BY <1>9 DEF Metric!LoadForTarget
  <2>2. PICK total \in Nat : total = scan.sum + value[<<scan.h, scan.next>>]
    BY <1>7
  <2>3. \/ scan' = Metric!NoScan
        \/ /\ scan.next + 1 # NUM_BUCKETS
           /\ scan' = [scan EXCEPT !.next = @ + 1, !.sum = total]
    BY <1>9, <2>2 DEF Metric!LoadForTarget, Metric!Return
  <2>4. scan.next + 1 # NUM_BUCKETS =>
          scan.next + 1 < NUM_BUCKETS
    BY <1>7, MetricsContract DEF Metric!Buckets
  <2>5. scan.next + 1 < NUM_BUCKETS =>
          [scan EXCEPT !.next = @ + 1, !.sum = total] \in Scans
    BY <1>7
  <2>6. scan' \in Scans
    BY <1>6, <2>3, <2>4, <2>5
  <2> QED
    BY <2>1, <2>6 DEF MetricsTyped, CallsAreTails
<1> QED
  BY <1>1, <1>2, <1>3, <1>4, <1>5, <1>8, <1>9 DEF Metric!Next

\* The calls under way other than t's have before them what they had.
LEMMA OthersLeft ==
  ASSUME NEW t \in Threads, \A u \in Threads \ {t} : todo'[u] = todo[u]
  PROVE  /\ t \notin Resets /\ Resets' = Resets => StillToZero' = StillToZero
         /\ \A rem \in StillToZero :
              rem = Left(todo[t]) \/ rem \in StillToZero'
<1>1. \A u \in Threads : u # t => (u \in Resets <=> u \in Resets')
  BY DEF Resets
<1>2. \A u \in Threads \ {t} : Left(todo'[u]) = Left(todo[u])
  BY DEF Left
<1>3. Resets \subseteq Threads /\ Resets' \subseteq Threads
  BY DEF Resets
<1>4. StillToZero' = {{}} \cup {Left(todo'[u]) : u \in Resets'}
  BY DEF StillToZero, Left
<1>5. ASSUME NEW rem \in StillToZero, rem # Left(todo[t])
      PROVE  rem \in StillToZero'
  <2>1. CASE rem = {}
    BY <1>4, <2>1
  <2>2. CASE rem # {}
    <3>1. PICK u \in Resets : rem = Left(todo[u])
      BY <2>2 DEF StillToZero
    <3>2. u # t /\ u \in Threads
      BY <1>3, <1>5, <3>1
    <3>3. u \in Resets' /\ rem = Left(todo'[u])
      BY <1>1, <1>2, <3>1, <3>2
    <3> QED
      BY <1>4, <3>3
  <2> QED
    BY <2>1, <2>2
<1>6. ASSUME t \notin Resets, Resets' = Resets
      PROVE  StillToZero' = StillToZero
  <2>1. \A u \in Resets : Left(todo'[u]) = Left(todo[u])
    BY <1>2, <1>3, <1>6
  <2> QED
    BY <1>4, <1>6, <2>1 DEF StillToZero
<1> QED
  BY <1>5, <1>6

LEMMA BeginAddBounded ==
  ASSUME CountsInv, NEW t \in Threads, Metric!BeginAdd(t)
  PROVE  TornIsBounded'
<1> USE DEF CountsInv
<1>1. PICK latency \in Latencies, accepted \in BOOLEAN :
        Metric!Begin(t, Metric!RecordAdd(latency, accepted))
  BY DEF Metric!BeginAdd
<1>2. PICK ops : ops = Metric!RecordAdd(latency, accepted)
  OBVIOUS
<1>3. ops \in AddTails
  BY <1>2, ProgramFacts
<1>4. /\ todo[t] = << >> /\ todo' = [todo EXCEPT ![t] = ops] /\ value' = value
  BY <1>1, <1>2 DEF Metric!Begin, Metric!Idle
<1>5. Resets = Metric!Resetting
  BY CallFacts DEF Resets, Metric!Resetting
<1>6. torn \in Nat /\ torn' \in Nat
      /\ torn' = IF Resets = {} THEN torn ELSE torn + 1
  BY <1>5 DEF Metric!BeginAdd, MetricsTyped
<1>7. /\ ~IsResetTail(ops) /\ ~IsResetTail(todo[t])
      /\ \A G \in Groups : ~Counts(todo[t], G)
  BY <1>3, <1>4, AddTailFacts, NothingLeft
<1>8. \A G \in Groups : Counts(ops, G)
  BY <1>2, BucketInRange DEF Metric!RecordAdd, Metric!Increment, Counts,
                             Groups, Received, Decided, Sampled
<1>9. /\ Resets' = Resets /\ t \notin Resets
      /\ Recording' \subseteq Recording \cup {t}
      /\ \A u \in Threads \ {t} : todo'[u] = todo[u]
  BY <1>4, <1>7, TodoChange DEF Resets
<1>10. StillToZero' = StillToZero
  BY <1>9, OthersLeft
<1>11. ASSUME NEW G \in Groups, NEW rem
       PROVE  Expected(rem, G) \in Nat /\ Expected(rem, G)' = Expected(rem, G) + 1
  <2>1. Cardinality(Pending(G)') = Cardinality(Pending(G)) + 1
    BY <1>4, <1>7, <1>8, TodoChange
  <2>2. Visible(rem)' = Visible(rem)
    BY <1>4 DEF Visible
  <2>3. Expected(rem, G)' = SumFunctionOnSet(Visible(rem)', G)
                            + Cardinality(Pending(G)')
    BY DEF Expected
  <2>4. PICK s \in Nat, c \in Nat :
          s = SumFunctionOnSet(Visible(rem), G) /\ c = Cardinality(Pending(G))
    BY ExpectedType
  <2>5. Expected(rem, G) = s + c
    BY <2>4, ExpectedType
  <2> QED
    BY <2>1, <2>2, <2>3, <2>4, <2>5
<1>12. CASE Resets = {}
  <2>1. ASSUME NEW G \in Groups, NEW H \in Groups
        PROVE  Expected({}, G)' <= Expected({}, H)' + torn'
    <3>1. Expected({}, G) <= Expected({}, H) + torn
      BY <1>12 DEF TornIsBounded
    <3>2. torn' = torn
      BY <1>6, <1>12
    <3>3. PICK x \in Nat, y \in Nat :
            x = Expected({}, G) /\ y = Expected({}, H)
      BY <1>11
    <3>4. Expected({}, G)' = x + 1 /\ Expected({}, H)' = y + 1
      BY <1>11, <3>3
    <3> QED
      BY <1>6, <3>1, <3>2, <3>3, <3>4
  <2> QED
    BY <1>9, <1>12, <2>1 DEF TornIsBounded
<1>13. CASE Resets # {}
  <2>1. PICK rem \in StillToZero : \A G \in Groups : Expected(rem, G) <= torn
    BY <1>13 DEF TornIsBounded
  <2>2. torn' = torn + 1
    BY <1>6, <1>13
  <2>3. ASSUME NEW G \in Groups
        PROVE  Expected(rem, G)' <= torn'
    <3>1. PICK x \in Nat : x = Expected(rem, G)
      BY <1>11
    <3>2. Expected(rem, G)' = x + 1 /\ x <= torn
      BY <1>11, <2>1, <3>1
    <3> QED
      BY <1>6, <2>2, <3>1, <3>2
  <2>4. Cardinality(Recording') <= torn'
    <3>1. Cardinality(Recording) <= torn
      BY <1>13 DEF TornIsBounded
    <3>2. Recording \in SUBSET Threads /\ t \notin Recording
      BY <1>4, NothingLeft DEF Recording
    <3>3. IsFiniteSet(Recording) /\ Cardinality(Recording) \in Nat
      BY <3>2, ThreadSets
    <3>4. /\ IsFiniteSet(Recording \cup {t})
          /\ Cardinality(Recording \cup {t}) = Cardinality(Recording) + 1
      BY <3>2, <3>3, FS_AddElement
    <3>5. Cardinality(Recording') <= Cardinality(Recording \cup {t})
      BY <1>9, <3>4, FS_Subset
    <3>6. Recording' \in SUBSET Threads
      BY DEF Recording
    <3>7. Cardinality(Recording') \in Nat
      BY <3>6, ThreadSets
    <3> QED
      BY <1>6, <2>2, <3>1, <3>3, <3>4, <3>5, <3>7
  <2>5. \E r \in StillToZero' : \A G \in Groups : Expected(r, G)' <= torn'
    BY <1>10, <2>1, <2>3
  <2> QED
    BY <1>9, <1>13, <2>4, <2>5 DEF TornIsBounded
<1> QED
  BY <1>12, <1>13

LEMMA BeginOtherBounded ==
  ASSUME CountsInv, NEW t \in Threads, Metric!BeginOther(t)
  PROVE  TornIsBounded'
<1> USE DEF CountsInv
<1>1. PICK latency \in Latencies :
        \/ Metric!Begin(t, Metric!RecordCancel(latency))
        \/ Metric!Begin(t, Metric!RecordTrade(latency, 2))
        \/ Metric!Begin(t, Metric!TimerEnds(latency))
  BY DEF Metric!BeginOther
<1>2. PICK ops \in {Metric!RecordCancel(latency),
                    Metric!RecordTrade(latency, 2),
                    Metric!TimerEnds(latency)} : Metric!Begin(t, ops)
  BY <1>1
<1>3. ops \in Seq(Operations) /\ IsOtherTail(ops)
  BY ProgramFacts
<1>4. /\ todo[t] = << >> /\ todo' = [todo EXCEPT ![t] = ops]
      /\ value' = value /\ torn' = torn
  BY <1>2 DEF Metric!Begin, Metric!BeginOther, Metric!Idle
<1>5. /\ ~IsResetTail(ops) /\ ~IsResetTail(todo[t]) /\ ops \notin AddTails
      /\ \A G \in Groups : ~Counts(todo[t], G) /\ ~Counts(ops, G)
  BY <1>3, <1>4, OtherTailFacts, NothingLeft
<1>6. /\ Resets' = Resets /\ t \notin Resets
      /\ Recording' \subseteq Recording
      /\ \A u \in Threads \ {t} : todo'[u] = todo[u]
      /\ \A G \in Groups : Pending(G)' = Pending(G)
  <2>1. MetricsTyped
    OBVIOUS
  <2>2. /\ \A u \in Threads \ {t} : todo'[u] = todo[u]
        /\ ops \notin AddTails => Recording' \subseteq Recording
        /\ ~IsResetTail(ops) => Resets' = Resets \ {t}
    BY <1>4, <2>1, TodoChange
  <2>3. t \notin Resets
    BY <1>5 DEF Resets
  <2>4. ASSUME NEW G \in Groups
        PROVE  Pending(G)' = Pending(G)
    <3>1. Counts(ops, G) <=> Counts(todo[t], G)
      BY <1>5
    <3> QED
      BY <1>4, <2>1, <3>1, TodoChange
  <2> QED
    BY <1>5, <2>2, <2>3, <2>4
<1>7. StillToZero' = StillToZero
  BY <1>6, OthersLeft
<1>8. \A rem : \A G \in Groups : Expected(rem, G)' = Expected(rem, G)
  BY <1>4, <1>6 DEF Expected, Visible
<1>9. Cardinality(Recording') <= Cardinality(Recording)
  BY <1>6, ThreadSets, FS_Subset DEF Recording
<1>10. Cardinality(Recording) \in Nat /\ Cardinality(Recording') \in Nat
       /\ torn \in Nat
  BY ThreadSets DEF Recording, MetricsTyped
<1>11. CASE Resets = {}
  BY <1>4, <1>6, <1>8, <1>11 DEF TornIsBounded
<1>12. CASE Resets # {}
  <2>1. Cardinality(Recording') <= torn'
    BY <1>4, <1>9, <1>10, <1>12 DEF TornIsBounded
  <2>2. \E r \in StillToZero' : \A G \in Groups : Expected(r, G)' <= torn'
    BY <1>4, <1>7, <1>8, <1>12 DEF TornIsBounded
  <2> QED
    BY <1>6, <1>12, <2>1, <2>2 DEF TornIsBounded
<1> QED
  BY <1>11, <1>12

LEMMA BeginResetBounded ==
  ASSUME CountsInv, NEW t \in Threads, Metric!BeginReset(t)
  PROVE  TornIsBounded'
<1> USE DEF CountsInv
<1>1. PICK ops \in Seq(Operations) : ops = Metric!Reset
  BY ResetFacts
<1>2. IsResetTail(ops) /\ \A G \in Groups : G \subseteq Left(ops)
  BY <1>1, ResetFacts
<1>3. /\ todo[t] = << >> /\ todo' = [todo EXCEPT ![t] = ops]
      /\ value' = value /\ torn' = Metric!Cardinality(Metric!Adding)
  BY <1>1 DEF Metric!BeginReset, Metric!Idle
<1>4. /\ ops \notin AddTails /\ \A G \in Groups : ~Counts(ops, G)
      /\ \A G : ~Counts(todo[t], G)
  BY <1>2, <1>3, OtherTailFacts, NothingLeft
<1>5. /\ t \in Resets' /\ todo'[t] = ops
      /\ Recording' \subseteq Recording
      /\ \A G \in Groups : Pending(G)' = Pending(G)
  BY <1>2, <1>3, <1>4, TodoChange
<1>6. Recording \subseteq Metric!Adding
  BY CallFacts DEF Recording
<1>7. Metric!Adding \in SUBSET Threads
  BY DEF Metric!Adding
<1>8. IsFiniteSet(Metric!Adding) /\ torn' = Cardinality(Metric!Adding)
      /\ torn' \in Nat
  BY <1>3, <1>7, ThreadSets, MetricTerms
<1>9. Cardinality(Recording') <= torn'
  BY <1>5, <1>6, <1>8, FS_Subset
<1>10. Left(ops) \in StillToZero'
  <2>1. StillToZero' = {{}} \cup {Left(todo'[u]) : u \in Resets'}
    BY DEF StillToZero, Left
  <2>2. Left(ops) = Left(todo'[t])
    BY <1>5
  <2> QED
    BY <1>5, <2>1, <2>2
<1>11. PICK rem : rem = Left(ops)
  OBVIOUS
<1>12. ASSUME NEW G \in Groups
       PROVE  Expected(rem, G)' <= torn'
  <2>1. \A f \in G : Visible(rem)'[f] = 0
    BY <1>2, <1>11, GroupFacts DEF Visible
  <2>2. SumFunctionOnSet(Visible(rem)', G) = 0
    <3>1. PICK w : w = Visible(rem)'
      OBVIOUS
    <3>2. IsFiniteSet(G) /\ \A f \in G : w[f] = 0
      BY <2>1, <3>1, GroupFacts
    <3>3. SumFunctionOnSet(w, G) = 0
      BY <3>2, SumZero
    <3> QED
      BY <3>1, <3>3
  <2>3. Pending(G) \subseteq Metric!Adding
    BY <1>6, CallFacts DEF Pending
  <2>4. Cardinality(Pending(G)) <= torn' /\ Cardinality(Pending(G)) \in Nat
    BY <1>8, <2>3, FS_Subset, ExpectedType
  <2>5. Expected(rem, G)' = SumFunctionOnSet(Visible(rem)', G)
                            + Cardinality(Pending(G)')
    BY DEF Expected
  <2> QED
    BY <1>5, <2>2, <2>4, <2>5
<1>13. \E r \in StillToZero' : \A G \in Groups : Expected(r, G)' <= torn'
  BY <1>10, <1>11, <1>12
<1> QED
  BY <1>5, <1>9, <1>13 DEF TornIsBounded

\* A step of a record keeps what is expected, or takes one from what a reset
\* is going to zero.
LEMMA RecordStepBounded ==
  ASSUME NEW t \in Threads, CountsInv, StillToZero' = StillToZero,
         Resets' = Resets, Recording' \subseteq Recording, torn' = torn,
         \A rem : \A G \in Groups :
           /\ Expected(rem, G) \in Nat /\ Expected(rem, G)' \in Nat
           /\ Expected(rem, G)' <= Expected(rem, G)
           /\ rem = {} => Expected(rem, G)' = Expected(rem, G)
  PROVE  TornIsBounded'
<1>1. Cardinality(Recording') <= Cardinality(Recording)
  BY ThreadSets, FS_Subset DEF Recording
<1>2. Cardinality(Recording) \in Nat /\ Cardinality(Recording') \in Nat
      /\ torn \in Nat
  BY ThreadSets DEF Recording, MetricsTyped, CountsInv
<1>3. CASE Resets = {}
  <2>1. \A G, H \in Groups : Expected({}, G) <= Expected({}, H) + torn
    BY <1>3 DEF CountsInv, TornIsBounded
  <2>2. \A G \in Groups : Expected({}, G)' = Expected({}, G)
    OBVIOUS
  <2>3. \A G, H \in Groups : Expected({}, G)' <= Expected({}, H)' + torn'
    BY <2>1, <2>2
  <2> QED
    BY <1>3, <2>3 DEF TornIsBounded
<1>4. CASE Resets # {}
  <2>1. Cardinality(Recording') <= torn'
    BY <1>1, <1>2, <1>4 DEF CountsInv, TornIsBounded
  <2>2. PICK rem \in StillToZero : \A G \in Groups : Expected(rem, G) <= torn
    BY <1>4 DEF CountsInv, TornIsBounded
  <2>3. \A G \in Groups : Expected(rem, G)' <= torn'
    BY <1>2, <2>2
  <2>4. \E r \in StillToZero' : \A G \in Groups : Expected(r, G)' <= torn'
    BY <2>2, <2>3
  <2> QED
    BY <1>4, <2>1, <2>4 DEF TornIsBounded
<1> QED
  BY <1>3, <1>4

LEMMA AddStepBounded ==
  ASSUME NEW t \in Threads, CountsInv, Metric!Step(t), todo[t] \in AddTails,
         MetricsTyped'
  PROVE  TornIsBounded'
<1>0. MetricsTyped /\ CallsAreTails
  BY DEF CountsInv
<1>1. PICK ops \in Seq(Operations), f \in Metric!Fields, n \in Nat :
         /\ ops = todo[t]
         /\ f = Head(ops).field
         /\ n = IF Head(ops).store THEN 0 ELSE value[f] + Head(ops).add
         /\ value' = [value EXCEPT ![f] = n]
         /\ todo' = [todo EXCEPT ![t] = Tail(ops)]
         /\ torn' = torn
  BY <1>0, StepEffect
<1>2. ops \in AddTails
  BY <1>1
<1>3. PICK rest : rest = Tail(ops)
  OBVIOUS
<1>4. rest \in AddTails \/ rest = << >>
  BY <1>2, <1>3, AddTailFacts
<1>5. ~IsResetTail(rest) /\ ~IsResetTail(ops)
  BY <1>2, <1>4, AddTailFacts, NothingLeft
<1>6. n = value[f] + 1 /\ value[f] \in Nat
  BY <1>0, <1>1, <1>2, AddTailFacts DEF MetricsTyped
<1>7. PICK G0 \in Groups :
        /\ f \in G0 /\ Counts(ops, G0) /\ ~Counts(rest, G0)
        /\ \A H \in Groups \ {G0} :
             f \notin H /\ (Counts(rest, H) <=> Counts(ops, H))
  BY <1>1, <1>2, <1>3, AddTailFacts
<1>8. todo' = [todo EXCEPT ![t] = rest]
  BY <1>1, <1>3
<1>9. t \notin Resets /\ t \in Recording
  BY <1>1, <1>2, <1>5 DEF Resets, Recording
<1>10. /\ \A u \in Threads \ {t} : todo'[u] = todo[u]
       /\ Recording' \subseteq Recording \cup {t}
       /\ ~IsResetTail(rest) => Resets' = Resets \ {t}
  BY <1>0, <1>8, TodoChange
<1>11. Resets' = Resets /\ Recording' \subseteq Recording
  BY <1>5, <1>9, <1>10
<1>12. StillToZero' = StillToZero
  BY <1>9, <1>10, <1>11, OthersLeft
<1>13. ASSUME NEW rem, NEW G \in Groups
       PROVE  /\ Expected(rem, G) \in Nat /\ Expected(rem, G)' \in Nat
              /\ Expected(rem, G)' <= Expected(rem, G)
              /\ rem = {} => Expected(rem, G)' = Expected(rem, G)
  <2>1. PICK s \in Nat, c \in Nat :
          /\ s = SumFunctionOnSet(Visible(rem), G)
          /\ c = Cardinality(Pending(G))
    BY <1>0, ExpectedType
  <2>2. PICK r \in Nat, d \in Nat :
          /\ r = SumFunctionOnSet(Visible(rem)', G)
          /\ d = Cardinality(Pending(G)')
    <3>1. PICK w, P : w = Visible(rem)' /\ P = Pending(G)'
      OBVIOUS
    <3>6. G \subseteq Metric!Fields
      BY GroupFacts
    <3>2. \A g \in G : w[g] = IF g \in rem THEN 0 ELSE value'[g]
      BY <3>1, <3>6 DEF Visible
    <3>7. \A g \in Metric!Fields : value'[g] \in Nat
      BY DEF MetricsTyped
    <3>3. \A g \in G : w[g] \in Nat
      BY <3>2, <3>6, <3>7
    <3>4. SumFunctionOnSet(w, G) \in Nat
      BY <3>3, GroupFacts, SumType
    <3>5. Cardinality(P) \in Nat
      BY <3>1, ThreadSets DEF Pending
    <3> QED
      BY <3>1, <3>4, <3>5
  <2>3. Expected(rem, G) = s + c /\ Expected(rem, G)' = r + d
    BY <2>1, <2>2 DEF Expected
  <2>4. CASE G = G0
    <3>1. d = c - 1
      <4>1. ~Counts(rest, G) /\ Counts(todo[t], G)
        BY <1>1, <1>7, <2>4
      <4>2. Cardinality(Pending(G)') = Cardinality(Pending(G)) - 1
        BY <1>0, <1>8, <4>1, TodoChange
      <4> QED
        BY <2>1, <2>2, <4>2
    <3>2. CASE f \in rem
      <4>1. SumFunctionOnSet(Visible(rem)', G)
              = SumFunctionOnSet(Visible(rem), G)
        BY <1>0, <1>1, <3>2, ValueChange
      <4>2. r = s
        BY <2>1, <2>2, <4>1
      <4>3. rem # {}
        BY <3>2
      <4> QED
        BY <2>3, <3>1, <4>2, <4>3
    <3>3. CASE f \notin rem
      <4>1. SumFunctionOnSet(Visible(rem)', G)
              = (SumFunctionOnSet(Visible(rem), G) - value[f]) + n
        <5>1. f \in G
          BY <1>7, <2>4
        <5> QED
          BY <1>0, <1>1, <3>3, <5>1, ValueChange
      <4>2. r = s + 1
        BY <1>6, <2>1, <2>2, <4>1
      <4> QED
        BY <2>3, <3>1, <4>2
    <3> QED
      BY <3>2, <3>3
  <2>5. CASE G # G0
    <3>1. Pending(G)' = Pending(G)
      <4>1. Counts(rest, G) <=> Counts(todo[t], G)
        BY <1>1, <1>7, <2>5
      <4> QED
        BY <1>0, <1>8, <4>1, TodoChange
    <3>2. r = s
      <4>1. SumFunctionOnSet(Visible(rem)', G)
              = SumFunctionOnSet(Visible(rem), G)
        BY <1>0, <1>1, <1>7, <2>5, ValueChange
      <4> QED
        BY <2>1, <2>2, <4>1
    <3> QED
      BY <2>1, <2>2, <2>3, <3>1, <3>2
  <2> QED
    BY <2>4, <2>5
<1> QED
  BY <1>1, <1>11, <1>12, <1>13, RecordStepBounded

LEMMA OtherStepBounded ==
  ASSUME NEW t \in Threads, CountsInv, Metric!Step(t), IsOtherTail(todo[t])
  PROVE  TornIsBounded'
<1>0. MetricsTyped /\ CallsAreTails
  BY DEF CountsInv
<1>1. PICK ops \in Seq(Operations), f \in Metric!Fields, n \in Nat :
         /\ ops = todo[t] /\ ops # << >>
         /\ f = Head(ops).field
         /\ value' = [value EXCEPT ![f] = n]
         /\ todo' = [todo EXCEPT ![t] = Tail(ops)]
         /\ Tail(ops) \in Seq(Operations)
         /\ torn' = torn
  BY <1>0, StepEffect
<1>2. IsOtherTail(ops)
  BY <1>1
<1>3. PICK rest \in Seq(Operations) : rest = Tail(ops)
  BY <1>1
<1>4. IsOtherTail(rest) /\ f \notin UNION Groups
  BY <1>1, <1>2, <1>3, OtherTailFacts
<1>5. /\ ~IsResetTail(rest) /\ ~IsResetTail(ops)
      /\ rest \notin AddTails
      /\ \A G \in Groups : ~Counts(ops, G) /\ ~Counts(rest, G)
  BY <1>2, <1>4, OtherTailFacts
<1>6. todo' = [todo EXCEPT ![t] = rest]
  BY <1>1, <1>3
<1>7. t \notin Resets
  BY <1>1, <1>5 DEF Resets
<1>8. /\ \A u \in Threads \ {t} : todo'[u] = todo[u]
      /\ rest \notin AddTails => Recording' \subseteq Recording
      /\ ~IsResetTail(rest) => Resets' = Resets \ {t}
  BY <1>0, <1>6, TodoChange
<1>9. Resets' = Resets /\ Recording' \subseteq Recording
  BY <1>5, <1>7, <1>8
<1>10. StillToZero' = StillToZero
  BY <1>7, <1>8, <1>9, OthersLeft
<1>11. ASSUME NEW rem, NEW G \in Groups
       PROVE  Expected(rem, G) \in Nat /\ Expected(rem, G)' = Expected(rem, G)
  <2>1. Counts(rest, G) <=> Counts(todo[t], G)
    BY <1>1, <1>5
  <2>2. Pending(G)' = Pending(G)
    BY <1>0, <1>6, <2>1, TodoChange
  <2>3. f \notin G
    BY <1>4
  <2>4. SumFunctionOnSet(Visible(rem)', G) = SumFunctionOnSet(Visible(rem), G)
    BY <1>0, <1>1, <2>3, ValueChange
  <2>5. Expected(rem, G) \in Nat
    BY <1>0, ExpectedType
  <2> QED
    BY <2>2, <2>4, <2>5 DEF Expected
<1>12. \A rem : \A G \in Groups :
         /\ Expected(rem, G) \in Nat /\ Expected(rem, G)' \in Nat
         /\ Expected(rem, G)' <= Expected(rem, G)
         /\ rem = {} => Expected(rem, G)' = Expected(rem, G)
  BY <1>11
<1> QED
  BY <1>1, <1>9, <1>10, <1>12, RecordStepBounded

\* Zeroing a field that a reset has before it leaves of it what is expected,
\* and less of the others.
LEMMA ResetStepBounded ==
  ASSUME NEW t \in Threads, CountsInv, Metric!Step(t), IsResetTail(todo[t]),
         MetricsTyped'
  PROVE  TornIsBounded'
<1>0. MetricsTyped /\ CallsAreTails
  BY DEF CountsInv
<1>1. PICK ops \in Seq(Operations), f \in Metric!Fields, n \in Nat :
         /\ ops = todo[t] /\ ops # << >>
         /\ f = Head(ops).field
         /\ n = IF Head(ops).store THEN 0 ELSE value[f] + Head(ops).add
         /\ value' = [value EXCEPT ![f] = n]
         /\ todo' = [todo EXCEPT ![t] = Tail(ops)]
         /\ Tail(ops) \in Seq(Operations)
         /\ torn' = torn
  BY <1>0, StepEffect
<1>2. IsResetTail(ops)
  BY <1>1
<1>3. PICK rest \in Seq(Operations) : rest = Tail(ops)
  BY <1>1
<1>4. /\ rest = << >> \/ IsResetTail(rest)
      /\ Left(ops) = Left(rest) \cup {f}
      /\ n = 0
  BY <1>1, <1>2, <1>3, OtherTailFacts
<1>5. /\ rest \notin AddTails
      /\ \A G \in Groups : ~Counts(ops, G) /\ ~Counts(rest, G)
  BY <1>1, <1>2, <1>3, <1>4, OtherTailFacts, NothingLeft
<1>6. todo' = [todo EXCEPT ![t] = rest]
  BY <1>1, <1>3
<1>7. /\ \A u \in Threads \ {t} : todo'[u] = todo[u]
      /\ todo'[t] = rest
      /\ rest \notin AddTails => Recording' \subseteq Recording
      /\ IsResetTail(rest) => Resets' = Resets \cup {t}
      /\ ~IsResetTail(rest) => Resets' = Resets \ {t}
  BY <1>0, <1>6, TodoChange
<1>8. t \in Resets
  BY <1>1, <1>2 DEF Resets
<1>9. Cardinality(Recording') <= torn' /\ torn \in Nat /\ torn' = torn
  <2>1. Cardinality(Recording) <= torn
    BY <1>8 DEF CountsInv, TornIsBounded
  <2>2. Cardinality(Recording') <= Cardinality(Recording)
    BY <1>5, <1>7, ThreadSets, FS_Subset DEF Recording
  <2>3. Cardinality(Recording) \in Nat /\ Cardinality(Recording') \in Nat
        /\ torn \in Nat
    BY <1>0, ThreadSets DEF Recording, MetricsTyped
  <2> QED
    BY <1>1, <2>1, <2>2, <2>3
<1>10. Left(<< >>) = {}
  BY DEF Left
<1>11. StillToZero' = {{}} \cup {Left(todo'[u]) : u \in Resets'}
  BY DEF StillToZero, Left
<1>12. Left(rest) \in StillToZero'
  BY <1>4, <1>7, <1>10, <1>11
<1>13. PICK rem \in StillToZero : \A G \in Groups : Expected(rem, G) <= torn
  BY <1>8 DEF CountsInv, TornIsBounded
<1>14. PICK now : now = IF rem = Left(ops) THEN Left(rest) ELSE rem
  OBVIOUS
<1>15. now \in StillToZero'
  BY <1>1, <1>7, <1>12, <1>14, OthersLeft
<1>16. ASSUME NEW G \in Groups
       PROVE  Expected(now, G)' \in Nat /\ Expected(now, G)' <= torn
  <2>1. Pending(G)' = Pending(G)
    <3>1. Counts(rest, G) <=> Counts(todo[t], G)
      BY <1>1, <1>5
    <3> QED
      BY <1>0, <1>6, <3>1, TodoChange
  <2>2. PICK v, w : v = Visible(rem) /\ w = Visible(now)'
    OBVIOUS
  <2>3. IsFiniteSet(G) /\ G \subseteq Metric!Fields
    BY GroupFacts
  <2>4. /\ \A g \in G : v[g] = IF g \in rem THEN 0 ELSE value[g]
        /\ \A g \in G : w[g] = IF g \in now THEN 0 ELSE value'[g]
    BY <2>2, <2>3 DEF Visible
  <2>5. /\ \A g \in G : g # f => value'[g] = value[g]
        /\ value'[f] = 0
        /\ \A g \in G : value[g] \in Nat
    BY <1>0, <1>1, <1>4, <2>3 DEF MetricsTyped
  <2>6. ASSUME NEW g \in G
        PROVE  v[g] \in Nat /\ w[g] \in Nat /\ w[g] <= v[g]
    <3>1. v[g] \in Nat /\ value[g] \in Nat
      BY <2>4, <2>5
    <3>2. CASE g \in now \/ g = f
      BY <2>4, <2>5, <3>1, <3>2
    <3>3. CASE g \notin now /\ g # f
      <4>1. g \notin rem
        BY <1>4, <1>14, <3>3
      <4> QED
        BY <2>4, <2>5, <3>1, <3>3, <4>1
    <3> QED
      BY <3>2, <3>3
  <2>7. SumFunctionOnSet(w, G) <= SumFunctionOnSet(v, G)
    <3>1. \A g \in G : w[g] \in Nat /\ v[g] \in Nat /\ w[g] <= v[g]
      BY <2>6
    <3> QED
      BY <2>3, <3>1, SumMonotone
  <2>8. SumFunctionOnSet(w, G) \in Nat /\ SumFunctionOnSet(v, G) \in Nat
    BY <2>3, <2>6, SumType
  <2>9. PICK c \in Nat : c = Cardinality(Pending(G))
    BY <1>0, ExpectedType
  <2>10. Expected(rem, G) = SumFunctionOnSet(v, G) + c
    BY <2>2, <2>9 DEF Expected
  <2>11. Expected(now, G)' = SumFunctionOnSet(w, G) + c
    BY <2>1, <2>2, <2>9 DEF Expected
  <2>12. Expected(rem, G) <= torn
    BY <1>13
  <2> QED
    BY <1>9, <2>7, <2>8, <2>10, <2>11, <2>12
<1>17. \E r \in StillToZero' : \A G \in Groups : Expected(r, G)' <= torn'
  BY <1>9, <1>15, <1>16
<1>18. CASE Resets' # {}
  BY <1>9, <1>17, <1>18 DEF TornIsBounded
<1>19. CASE Resets' = {}
  <2>1. now = {}
    BY <1>11, <1>15, <1>19
  <2>2. \A G \in Groups : Expected({}, G)' \in Nat /\ Expected({}, G)' <= torn'
    BY <1>9, <1>16, <2>1
  <2>3. \A G, H \in Groups : Expected({}, G)' <= Expected({}, H)' + torn'
    BY <1>9, <2>2
  <2> QED
    BY <1>19, <2>3 DEF TornIsBounded
<1> QED
  BY <1>18, <1>19

LEMMA CountsInitial == StandaloneInit => CountsInv
<1> SUFFICES ASSUME StandaloneInit
             PROVE  CountsInv
  OBVIOUS
<1>1. /\ value = [f \in Metric!Fields |-> 0] /\ todo = [t \in Threads |-> << >>]
      /\ scan = Metric!NoScan /\ torn = 0
  BY DEF StandaloneInit, Metric!Init
<1>2. 0 \in Metric!Buckets /\ "add" \in Metric!Histograms
  BY MetricsContract DEF Metric!Buckets, Metric!Histograms
<1>3. MetricsTyped
  BY <1>1, <1>2 DEF MetricsTyped, Metric!NoScan
<1>4. CallsAreTails
  BY <1>1, NothingLeft DEF CallsAreTails
<1>5. Resets = {} /\ \A G : Pending(G) = {}
  BY <1>1, NothingLeft DEF Resets, Pending
<1>6. ASSUME NEW G \in Groups
      PROVE  Expected({}, G) = 0
  <2>1. PICK v : v = Visible({})
    OBVIOUS
  <2>2. G \subseteq Metric!Fields /\ IsFiniteSet(G)
    BY GroupFacts
  <2>3. \A f \in G : v[f] = 0
    BY <1>1, <2>1, <2>2 DEF Visible
  <2>4. SumFunctionOnSet(v, G) = 0
    BY <2>2, <2>3, SumZero
  <2>5. Cardinality(Pending(G)) = 0
    BY <1>5, FS_EmptySet
  <2> QED
    BY <2>1, <2>4, <2>5 DEF Expected
<1>7. TornIsBounded
  BY <1>1, <1>5, <1>6 DEF TornIsBounded
<1> QED
  BY <1>3, <1>4, <1>7 DEF CountsInv

\* Reading a percentile leaves the counts alone.
LEMMA ReadingIsBounded ==
  ASSUME CountsInv, value' = value, todo' = todo, torn' = torn
  PROVE  TornIsBounded'
<1>1. /\ Resets' = Resets /\ Recording' = Recording
      /\ StillToZero' = StillToZero
      /\ \A rem, G : Expected(rem, G)' = Expected(rem, G)
  BY DEF Resets, Recording, StillToZero, Expected, Visible, Pending, Left
<1> QED
  BY <1>1 DEF CountsInv, TornIsBounded

LEMMA CountsStep ==
  ASSUME CountsInv, Metric!Next
  PROVE  CountsInv'
<1>1. MetricsTyped /\ CallsAreTails
  BY DEF CountsInv
<1>2. MetricsTyped' /\ CallsAreTails'
  BY <1>1, MetricsTypeStep
<1>3. ASSUME NEW t \in Threads,
             \/ Metric!BeginAdd(t) \/ Metric!BeginOther(t)
             \/ Metric!BeginReset(t) \/ Metric!Step(t)
      PROVE  TornIsBounded'
  <2>1. CASE Metric!Step(t)
    <3>1. \/ todo[t] \in AddTails
          \/ IsOtherTail(todo[t]) \/ IsResetTail(todo[t])
      BY <1>1 DEF CallsAreTails
    <3> QED
      BY <1>2, <2>1, <3>1, AddStepBounded, OtherStepBounded, ResetStepBounded
  <2> QED
    BY <1>3, <2>1, BeginAddBounded, BeginOtherBounded, BeginResetBounded
<1>4. ASSUME \/ \E h \in Watched, p \in Percentiles :
                  Metric!BeginPercentile(h, p)
             \/ Metric!LoadForTotal \/ Metric!LoadForTarget
      PROVE  TornIsBounded'
  <2>1. value' = value /\ todo' = todo /\ torn' = torn
    BY <1>4 DEF Metric!BeginPercentile, Metric!LoadForTotal,
                Metric!LoadForTarget
  <2> QED
    BY <2>1, ReadingIsBounded
<1>5. TornIsBounded'
  BY <1>3, <1>4 DEF Metric!Next
<1> QED
  BY <1>2, <1>5 DEF CountsInv

LEMMA AddedOrdersInvariance == StandaloneSpec => []CountsInv
<1>1. CountsInv
        /\ [StandaloneNext]_<<containersVars, metricsVars, orderVars, part>>
        => CountsInv'
  <2> SUFFICES ASSUME CountsInv,
               [StandaloneNext]_<<containersVars, metricsVars, orderVars, part>>
               PROVE  CountsInv'
    OBVIOUS
  <2>1. CASE UNCHANGED metricsVars
    <3>1. value' = value /\ todo' = todo /\ torn' = torn /\ scan' = scan
      BY <2>1 DEF metricsVars
    <3>2. MetricsTyped' /\ CallsAreTails'
      BY <3>1 DEF CountsInv, MetricsTyped, CallsAreTails
    <3> QED
      BY <3>1, <3>2, ReadingIsBounded DEF CountsInv
  <2>2. CASE Metric!Next
    BY <2>2, CountsStep
  <2>3. UNCHANGED metricsVars \/ Metric!Next
    BY DEF StandaloneNext, MetricsStep, OrderStep
  <2> QED
    BY <2>1, <2>2, <2>3
<1> QED
  BY <1>1, CountsInitial, PTL DEF StandaloneSpec

\* A histogram sums up to its samples.
LEMMA SumOfSamples ==
  ASSUME NEW h, NEW v, NEW w, \A b \in Metric!Buckets : v[b] \in Nat,
         \A b \in Metric!Buckets : w[<<h, b>>] = v[b]
  PROVE  SumFunctionOnSet(w, {h} \X Metric!Buckets)
           = SumFunctionOnSet(v, Metric!Buckets)
<1> DEFINE B == Metric!Buckets
           Sum(s) == SumFunctionOnSet(v, s)
           Sums(s) == SumFunctionOnSet(w, {h} \X s)
           Wrong == {s \in SUBSET B : Sums(s) # Sum(s)}
<1>1. CASE Wrong = {}
  <2>1. B \in SUBSET B
    OBVIOUS
  <2> QED
    BY <1>1, <2>1
<1>2. CASE Wrong # {}
  <2>0. IsFiniteSet(B) /\ IsFiniteSet({h})
    BY GroupFacts, FS_Singleton
  <2>1. PICK s \in Wrong : \A x \in s : s \ {x} \notin Wrong
    BY <1>2, <2>0, SmallestWrong
  <2>2. s \in SUBSET B /\ IsFiniteSet(s) /\ IsFiniteSet({h} \X s)
    BY <2>0, FS_Subset, FS_Product
  <2>3. s # {}
    <3>1. ASSUME s = {}
          PROVE  FALSE
      <4>1. {h} \X s = {}
        BY <3>1
      <4>2. Sums(s) = 0 /\ Sum(s) = 0
        BY <3>1, <4>1, SumEmpty
      <4> QED
        BY <4>2
    <3> QED
      BY <3>1
  <2>4. PICK x \in s : TRUE
    BY <2>3
  <2>5. Sums(s \ {x}) = Sum(s \ {x})
    BY <2>1, <2>2, <2>4
  <2>6. Sum(s) = v[x] + Sum(s \ {x})
    <3>1. \A b \in s : v[b] \in Nat
      BY <2>2
    <3> QED
      BY <2>2, <3>1, SumRemove
  <2>7. ({h} \X s) \ {<<h, x>>} = {h} \X (s \ {x})
    OBVIOUS
  <2>8. Sums(s) = w[<<h, x>>] + Sums(s \ {x})
    <3>1. PICK P, e : P = {h} \X s /\ e = <<h, x>>
      OBVIOUS
    <3>2. e \in P /\ IsFiniteSet(P)
      BY <2>2, <3>1
    <3>3. \A f \in P : w[f] \in Nat
      BY <2>2, <3>1
    <3>4. SumFunctionOnSet(w, P) = w[e] + SumFunctionOnSet(w, P \ {e})
      BY <3>2, <3>3, SumRemove
    <3> QED
      BY <2>7, <3>1, <3>4
  <2>9. w[<<h, x>>] = v[x]
    BY <2>2
  <2>10. Sums(s) = Sum(s)
    BY <2>5, <2>6, <2>8, <2>9
  <2> QED
    BY <2>10
<1> QED
  BY <1>1, <1>2

\* Whatever threads record and reset side by side, when no call is under way
\* the counters of added orders differ from each other and from the histogram
\* by no more than the calls a reset tore (Metrics.h:119-128, 143-155).
THEOREM MetricsCountersAgree == StandaloneSpec => []CountersAgree
<1>1. CountsInv => CountersAgree
  <2> SUFFICES ASSUME CountsInv, \A t \in Threads : Metric!Idle(t)
               PROVE  /\ Metric!Apart(value[<<"received">>],
                           value[<<"accepted">>] + value[<<"rejected">>]) <= torn
                      /\ Metric!Apart(value[<<"received">>],
                           Metric!Count("add", NUM_BUCKETS - 1)) <= torn
    BY DEF CountersAgree, Metric!CountersAgree
  <2>1. MetricsTyped
    BY DEF CountsInv
  <2>2. \A t \in Threads : todo[t] = << >>
    BY DEF Metric!Idle
  <2>3. Resets = {} /\ \A G : Pending(G) = {}
    BY <2>2, NothingLeft DEF Resets, Pending
  <2>4. PICK v : v = Visible({})
    OBVIOUS
  <2>5. \A f \in Metric!Fields : v[f] = value[f] /\ value[f] \in Nat
    BY <2>1, <2>4 DEF Visible, MetricsTyped
  <2>6. \A G \in Groups : Expected({}, G) = SumFunctionOnSet(v, G)
    <3>1. Cardinality({}) = 0
      BY FS_EmptySet
    <3>2. \A G \in Groups : SumFunctionOnSet(Visible({}), G) \in Nat
      BY <2>1, ExpectedType
    <3> QED
      BY <2>3, <2>4, <3>1, <3>2 DEF Expected
  <2>7. /\ Received \in Groups /\ Decided \in Groups /\ Sampled \in Groups
    BY DEF Groups
  <2>8. PICK r \in Metric!Fields, a \in Metric!Fields, d \in Metric!Fields :
          r = <<"received">> /\ a = <<"accepted">> /\ d = <<"rejected">>
    BY DEF Metric!Fields, Metric!Counters
  <2>9. SumFunctionOnSet(v, Received) = value[r]
    <3>1. IsFiniteSet({}) /\ r \notin {} /\ Received = {} \cup {r}
      BY <2>8, FS_EmptySet DEF Received
    <3>2. \A x \in {} \cup {r} : v[x] \in Nat
      BY <2>5
    <3>3. SumFunctionOnSet(v, {} \cup {r}) = v[r] + SumFunctionOnSet(v, {})
      BY <3>1, <3>2, SumAdd
    <3> QED
      BY <2>5, <3>1, <3>3, SumEmpty
  <2>10. SumFunctionOnSet(v, Decided) = value[a] + value[d]
    <3>1. /\ IsFiniteSet({}) /\ IsFiniteSet({} \cup {a})
          /\ a \notin {} /\ d \notin {} \cup {a}
          /\ Decided = ({} \cup {a}) \cup {d}
      <4>1. a[1] = "accepted" /\ d[1] = "rejected"
        BY <2>8
      <4>2. a # d
        BY <4>1
      <4> QED
        BY <2>8, <4>2, FS_EmptySet, FS_AddElement DEF Decided
    <3>2. /\ \A x \in {} \cup {a} : v[x] \in Nat
          /\ \A x \in ({} \cup {a}) \cup {d} : v[x] \in Nat
      BY <2>5
    <3>3. SumFunctionOnSet(v, {} \cup {a}) = v[a] + SumFunctionOnSet(v, {})
      BY <3>1, <3>2, SumAdd
    <3>4. PICK s : s = {} \cup {a}
      OBVIOUS
    <3>5. SumFunctionOnSet(v, s \cup {d}) = v[d] + SumFunctionOnSet(v, s)
      <4>1. IsFiniteSet(s) /\ d \notin s /\ \A x \in s \cup {d} : v[x] \in Nat
        BY <3>1, <3>2, <3>4
      <4> QED
        BY <4>1, SumAdd
    <3>6. SumFunctionOnSet(v, Decided)
            = v[d] + (v[a] + SumFunctionOnSet(v, {}))
      BY <3>1, <3>3, <3>4, <3>5
    <3>7. SumFunctionOnSet(v, {}) = 0
      BY SumEmpty
    <3>8. v[a] = value[a] /\ v[d] = value[d]
          /\ value[a] \in Nat /\ value[d] \in Nat
      BY <2>5
    <3> QED
      BY <3>6, <3>7, <3>8
  <2>11. SumFunctionOnSet(v, Sampled) = Metric!Count("add", NUM_BUCKETS - 1)
    <3>1. PICK w : w = Metric!Samples("add")
      OBVIOUS
    <3>2. \A b \in Metric!Buckets :
            <<"add", b>> \in Metric!Fields /\ w[b] = value[<<"add", b>>]
      BY <3>1 DEF Metric!Samples, Metric!Fields, Metric!Histograms
    <3>3. /\ \A b \in Metric!Buckets : w[b] \in Nat
          /\ \A b \in Metric!Buckets : v[<<"add", b>>] = w[b]
      BY <2>5, <3>2
    <3>4. SumFunctionOnSet(v, {"add"} \X Metric!Buckets)
            = SumFunctionOnSet(w, Metric!Buckets)
      BY <3>3, SumOfSamples
    <3>5. Metric!Count("add", NUM_BUCKETS - 1)
            = SumFunctionOnSet(w, Metric!Buckets)
      BY <3>1, SameSum DEF Metric!Count, Metric!Buckets
    <3> QED
      BY <3>4, <3>5 DEF Sampled
  <2>12. /\ value[r] \in Nat /\ value[a] \in Nat /\ value[d] \in Nat
         /\ torn \in Nat
    BY <2>1, <2>5 DEF MetricsTyped
  <2>13. PICK x \in Nat, y \in Nat, z \in Nat :
           /\ x = Expected({}, Received) /\ y = Expected({}, Decided)
           /\ z = Expected({}, Sampled)
    BY <2>1, <2>7, ExpectedType
  <2>14. /\ x <= y + torn /\ y <= x + torn /\ x <= z + torn /\ z <= x + torn
    BY <2>3, <2>7, <2>13 DEF CountsInv, TornIsBounded
  <2>15. /\ x = value[<<"received">>]
         /\ y = value[<<"accepted">>] + value[<<"rejected">>]
         /\ z = Metric!Count("add", NUM_BUCKETS - 1)
    BY <2>6, <2>7, <2>8, <2>9, <2>10, <2>11, <2>13
  <2> QED
    BY <2>12, <2>14, <2>15 DEF Metric!Apart
<1> QED
  BY <1>1, AddedOrdersInvariance, PTL

\* The buckets before one, and from it on.
LEMMA BucketsAround ==
  ASSUME NEW h \in Metric!Histograms, NEW b \in Metric!Buckets, MetricsTyped
  PROVE  /\ \A c \in Metric!Buckets : Metric!Samples(h)[c] = value[<<h, c>>]
         /\ \A c \in Metric!Buckets : value[<<h, c>>] \in Nat
         /\ Before(h, 0) = 0 /\ Before(h, b) \in Nat /\ From(h, b) \in Nat
         /\ Metric!Count(h, b) = Before(h, b) + value[<<h, b>>]
         /\ Before(h, b + 1) = Before(h, b) + value[<<h, b>>]
         /\ From(h, b) = value[<<h, b>>] + From(h, b + 1)
         /\ From(h, b + 1) \in Nat
         /\ b + 1 = NUM_BUCKETS =>
              /\ From(h, b + 1) = 0
              /\ From(h, 0) = Before(h, b + 1)
<1> DEFINE B == Metric!Buckets
           Low(k) == {c \in B : c < k}
           High(k) == {c \in B : k <= c}
<1>1. PICK n \in Nat \ {0} : n = NUM_BUCKETS
  BY MetricsContract
<1>2. B = 0 .. n - 1 /\ b \in 0 .. n - 1
  BY <1>1 DEF Metric!Buckets
<1>3. PICK s : s = Metric!Samples(h)
  OBVIOUS
<1>4. \A c \in B : s[c] = value[<<h, c>>]
  BY <1>3 DEF Metric!Samples
<1>5. \A c \in B : value[<<h, c>>] \in Nat
  <2>1. \A c \in B : <<h, c>> \in Metric!Fields
    BY DEF Metric!Fields
  <2> QED
    BY <2>1 DEF MetricsTyped
<1>6. \A c \in B : s[c] \in Nat
  BY <1>4, <1>5
<1>7. \A k : IsFiniteSet(Low(k)) /\ IsFiniteSet(High(k))
  <2>1. \A k : Low(k) \subseteq B /\ High(k) \subseteq B
    OBVIOUS
  <2> QED
    BY <2>1, GroupFacts, FS_Subset
<1>8. /\ \A k : Before(h, k) = SumFunctionOnSet(s, Low(k))
      /\ \A k : From(h, k) = SumFunctionOnSet(s, High(k))
  BY <1>3 DEF Before, From
<1>9. Before(h, 0) = 0
  <2>1. Low(0) = {}
    BY <1>2
  <2> QED
    BY <1>8, <2>1, SumEmpty
<1>10. \A k : Before(h, k) \in Nat /\ From(h, k) \in Nat
  <2> TAKE k
  <2>1. /\ \A c \in Low(k) : s[c] \in Nat
        /\ \A c \in High(k) : s[c] \in Nat
    BY <1>6
  <2> QED
    BY <1>7, <1>8, <2>1, SumType
<1>11. /\ b \notin Low(b) /\ Low(b) \cup {b} = Low(b + 1)
       /\ Low(b + 1) = 0 .. b
       /\ b \notin High(b + 1) /\ High(b + 1) \cup {b} = High(b)
  BY <1>2
<1>12. /\ \A c \in Low(b) \cup {b} : s[c] \in Nat
       /\ \A c \in High(b + 1) \cup {b} : s[c] \in Nat
  BY <1>6
<1>13. Before(h, b + 1) = Before(h, b) + value[<<h, b>>]
  <2>1. SumFunctionOnSet(s, Low(b) \cup {b})
          = s[b] + SumFunctionOnSet(s, Low(b))
    BY <1>7, <1>11, <1>12, SumAdd
  <2> QED
    BY <1>4, <1>5, <1>8, <1>10, <1>11, <2>1
<1>14. From(h, b) = value[<<h, b>>] + From(h, b + 1)
  <2>1. SumFunctionOnSet(s, High(b + 1) \cup {b})
          = s[b] + SumFunctionOnSet(s, High(b + 1))
    BY <1>7, <1>11, <1>12, SumAdd
  <2> QED
    BY <1>4, <1>5, <1>8, <1>10, <1>11, <2>1
<1>15. Metric!Count(h, b) = Before(h, b + 1)
  BY <1>3, <1>8, <1>11, SameSum DEF Metric!Count
<1>16. ASSUME b + 1 = NUM_BUCKETS
       PROVE  From(h, b + 1) = 0 /\ From(h, 0) = Before(h, b + 1)
  <2>1. High(b + 1) = {} /\ High(0) = Low(b + 1)
    BY <1>1, <1>2, <1>16
  <2> QED
    BY <1>8, <2>1, SumEmpty
<1> QED
  BY <1>3, <1>4, <1>5, <1>9, <1>10, <1>13, <1>14, <1>15, <1>16

\* While no field is zeroed, what has been counted stays.
LEMMA CountsGrow ==
  ASSUME NEW h \in Metric!Histograms, MetricsTyped, MetricsTyped',
         \A f \in Metric!Fields : value[f] <= value'[f]
  PROVE  /\ \A b : Before(h, b) <= Before(h, b)' /\ From(h, b) <= From(h, b)'
         /\ \A b \in Metric!Buckets :
              Metric!Count(h, b) <= Metric!Count(h, b)'
         /\ \A b : /\ Before(h, b) \in Nat /\ Before(h, b)' \in Nat
                   /\ From(h, b) \in Nat /\ From(h, b)' \in Nat
         /\ \A b \in Metric!Buckets :
              Metric!Count(h, b) \in Nat /\ Metric!Count(h, b)' \in Nat
<1> DEFINE B == Metric!Buckets
<1>1. PICK s, r : s = Metric!Samples(h) /\ r = Metric!Samples(h)'
  OBVIOUS
<1>2. \A c \in B : <<h, c>> \in Metric!Fields
  BY DEF Metric!Fields
<1>3. \A c \in B : s[c] = value[<<h, c>>] /\ r[c] = value'[<<h, c>>]
  BY <1>1 DEF Metric!Samples
<1>4. \A c \in B : s[c] \in Nat /\ r[c] \in Nat /\ s[c] <= r[c]
  <2>1. \A f \in Metric!Fields : value[f] \in Nat /\ value'[f] \in Nat
    BY DEF MetricsTyped
  <2> QED
    BY <1>2, <1>3, <2>1
<1>5. ASSUME NEW S \in SUBSET B
      PROVE  /\ SumFunctionOnSet(s, S) <= SumFunctionOnSet(r, S)
             /\ SumFunctionOnSet(s, S) \in Nat /\ SumFunctionOnSet(r, S) \in Nat
  <2>1. IsFiniteSet(S)
    BY GroupFacts, FS_Subset
  <2>2. \A x \in S : s[x] \in Nat /\ r[x] \in Nat /\ s[x] <= r[x]
    BY <1>4
  <2>3. SumFunctionOnSet(s, S) <= SumFunctionOnSet(r, S)
    BY <2>1, <2>2, SumMonotone
  <2>4. SumFunctionOnSet(s, S) \in Nat /\ SumFunctionOnSet(r, S) \in Nat
    BY <2>1, <2>2, SumType
  <2> QED
    BY <2>3, <2>4
<1>6. \A b : /\ Before(h, b) = SumFunctionOnSet(s, {c \in B : c < b})
             /\ Before(h, b)' = SumFunctionOnSet(r, {c \in B : c < b})
             /\ From(h, b) = SumFunctionOnSet(s, {c \in B : b <= c})
             /\ From(h, b)' = SumFunctionOnSet(r, {c \in B : b <= c})
  BY <1>1 DEF Before, From
<1>7. \A b \in B : /\ Metric!Count(h, b) = SumFunctionOnSet(s, 0 .. b)
                   /\ Metric!Count(h, b)' = SumFunctionOnSet(r, 0 .. b)
  BY <1>1, SameSum DEF Metric!Count
<1>8. \A b \in B : 0 .. b \in SUBSET B
  BY MetricsContract DEF Metric!Buckets
<1>9. \A b : {c \in B : c < b} \in SUBSET B /\ {c \in B : b <= c} \in SUBSET B
  OBVIOUS
<1> QED
  BY <1>5, <1>6, <1>7, <1>8, <1>9

\* Part of a number is no more than it.
LEMMA PercentageIsPart ==
  ASSUME NEW n \in Nat, NEW p \in 0 .. 100
  PROVE  (n * p) \div 100 \in Nat /\ (n * p) \div 100 <= n
<1>1. n * p \in Nat
  BY SMTT(30)
<1>2. n * p <= n * 100
  <2>1. n * (100 - p) >= 0
    BY SMTT(30)
  <2>2. n * (100 - p) = (n * 100) - (n * p)
    BY SMTT(30)
  <2>3. PICK k \in Int, l \in Int : k = n * p /\ l = n * (100 - p)
    BY SMTT(30)
  <2> QED
    BY <2>1, <2>2, <2>3
<1>3. PICK k \in Nat, c \in Nat \ {0} : k = n * p /\ c = 100
  BY <1>1
<1>4. k \div c \in Nat
  BY Division, Zenon
<1>5. k % c \in 0 .. c - 1 /\ k = c * (k \div c) + (k % c)
  BY Division, Zenon
<1>6. PICK q \in Nat, m \in Nat : q = k \div c /\ m = k % c
  BY <1>3, <1>4, <1>5
<1>7. k = 100 * q + m
  BY <1>3, <1>5, <1>6
<1>8. 100 * q <= 100 * n
  BY <1>2, <1>3, <1>7
<1>9. q <= n
  BY <1>8
<1> QED
  BY <1>3, <1>6, <1>9

\* An answer stands while samples are only added, and so does a scan.
LEMMA RecordKeepsPercentile ==
  ASSUME MetricsTyped, MetricsTyped', PercentileInv,
         answer' = answer, scan' = scan,
         \A f \in Metric!Fields : value[f] <= value'[f]
  PROVE  PercentileInv'
<1>1. AnswerTyped'
  BY DEF PercentileInv, AnswerTyped
<1>2. ScanIsBounded'
  <2> SUFFICES ASSUME scan.at # "idle", ~scan.disturbed
               PROVE  /\ scan.sum <= Before(scan.h, scan.next)'
                      /\ scan.at = "scan" =>
                           /\ scan.sum = 0 \/ scan.sum < scan.target
                           /\ scan.target <= scan.sum
                                             + From(scan.h, scan.next)'
    <3>1. /\ Before(scan.h, scan.next)' = Before(scan.h, scan.next)'
          /\ scan' = scan
      OBVIOUS
    <3> QED
      BY <3>1 DEF ScanIsBounded, Before, From, Metric!Samples
  <2>1. PICK h \in Metric!Histograms, b \in Metric!Buckets, k \in Nat, g \in Nat :
          h = scan.h /\ b = scan.next /\ k = scan.sum /\ g = scan.target
    BY DEF MetricsTyped
  <2>2. /\ k <= Before(h, b)
        /\ scan.at = "scan" =>
             /\ k = 0 \/ k < g
             /\ g <= k + From(h, b)
    BY <2>1 DEF PercentileInv, ScanIsBounded
  <2>3. /\ Before(h, b) <= Before(h, b)' /\ From(h, b) <= From(h, b)'
        /\ Before(h, b) \in Nat /\ Before(h, b)' \in Nat
        /\ From(h, b) \in Nat /\ From(h, b)' \in Nat
    BY CountsGrow
  <2>4. /\ Before(scan.h, scan.next)' = Before(h, b)'
        /\ From(scan.h, scan.next)' = From(h, b)'
    BY <2>1 DEF Before, From, Metric!Samples
  <2> QED
    BY <2>1, <2>2, <2>3, <2>4
<1>3. Metric!PercentileIsReached'
  <2> SUFFICES ASSUME answer # Metric!NoAnswer
               PROVE  /\ answer.bucket \in Metric!Buckets
                      /\ Metric!Count(answer.h, answer.bucket)' >= answer.target
                      /\ answer.target > 0 =>
                           value'[<<answer.h, answer.bucket>>] > 0
    BY DEF Metric!PercentileIsReached, Metric!Count, Metric!Samples
  <2>1. /\ answer.bucket \in Metric!Buckets
        /\ Metric!Count(answer.h, answer.bucket) >= answer.target
        /\ answer.target > 0 => value[<<answer.h, answer.bucket>>] > 0
        /\ answer.h \in Metric!Histograms /\ answer.target \in Nat
    BY DEF PercentileInv, Metric!PercentileIsReached, AnswerTyped
  <2>2. PICK h \in Metric!Histograms, b \in Metric!Buckets, g \in Nat :
          h = answer.h /\ b = answer.bucket /\ g = answer.target
    BY <2>1
  <2>3. /\ Metric!Count(h, b) <= Metric!Count(h, b)'
        /\ Metric!Count(h, b) \in Nat /\ Metric!Count(h, b)' \in Nat
    BY CountsGrow
  <2>4. Metric!Count(answer.h, answer.bucket)' = Metric!Count(h, b)'
    BY <2>2 DEF Metric!Count, Metric!Samples
  <2>5. <<h, b>> \in Metric!Fields
    BY DEF Metric!Fields
  <2>6. value[<<h, b>>] \in Nat /\ value'[<<h, b>>] \in Nat
        /\ value[<<h, b>>] <= value'[<<h, b>>]
    BY <2>5 DEF MetricsTyped
  <2> QED
    BY <2>1, <2>2, <2>3, <2>4, <2>6
<1> QED
  BY <1>1, <1>2, <1>3 DEF PercentileInv

LEMMA StepKeepsPercentile ==
  ASSUME MetricsTyped, CallsAreTails, MetricsTyped', PercentileInv,
         NEW t \in Threads, Metric!Step(t)
  PROVE  PercentileInv'
<1>1. PICK ops \in Seq(Operations), f \in Metric!Fields, n \in Nat :
         /\ ops # << >>
         /\ Head(ops).add \in Nat
         /\ n = IF Head(ops).store THEN 0 ELSE value[f] + Head(ops).add
         /\ value' = [value EXCEPT ![f] = n]
         /\ scan' = [scan EXCEPT !.disturbed = @ \/ Head(ops).store]
         /\ answer' = IF Head(ops).store THEN Metric!NoAnswer ELSE answer
  BY StepEffect
<1>2. CASE Head(ops).store
  <2>1. scan'.disturbed = TRUE
    <3>1. scan.disturbed \in BOOLEAN
      BY DEF MetricsTyped
    <3>2. scan'.disturbed = (scan.disturbed \/ Head(ops).store)
      BY <1>1 DEF MetricsTyped
    <3> QED
      BY <1>2, <3>2
  <2>2. answer' = Metric!NoAnswer
    BY <1>1, <1>2
  <2>3. AnswerTyped'
    BY <2>2 DEF AnswerTyped, Metric!NoAnswer
  <2> QED
    BY <2>1, <2>2, <2>3
    DEF PercentileInv, ScanIsBounded, Metric!PercentileIsReached,
        Metric!NoAnswer
<1>3. CASE ~Head(ops).store
  <2>1. answer' = answer
    BY <1>1, <1>3
  <2>2. scan' = scan
    <3>1. scan.disturbed \in BOOLEAN
          /\ scan = [scan EXCEPT !.disturbed = scan.disturbed]
      BY DEF MetricsTyped
    <3>2. (scan.disturbed \/ Head(ops).store) = scan.disturbed
      BY <1>3, <3>1
    <3> QED
      BY <1>1, <3>1, <3>2
  <2>3. \A g \in Metric!Fields : value[g] <= value'[g]
    BY SMTT(20), <1>1, <1>3 DEF MetricsTyped
  <2> QED
    BY <2>1, <2>2, <2>3, RecordKeepsPercentile
<1> QED
  BY <1>2, <1>3

\* The answer stands while the next percentile is computed.
LEMMA AnswerStands ==
  ASSUME PercentileInv, answer' = answer, value' = value
  PROVE  AnswerTyped' /\ Metric!PercentileIsReached'
BY DEF PercentileInv, AnswerTyped, Metric!PercentileIsReached, Metric!Count,
       Metric!Samples

LEMMA ScanKeepsPercentile ==
  ASSUME MetricsTyped, PercentileInv,
         \/ \E h \in Watched, p \in Percentiles : Metric!BeginPercentile(h, p)
         \/ Metric!LoadForTotal \/ Metric!LoadForTarget
  PROVE  PercentileInv'
<1>1. value' = value
  BY DEF Metric!BeginPercentile, Metric!LoadForTotal, Metric!LoadForTarget
<1>2. PICK n \in Nat \ {0} : n = NUM_BUCKETS
  BY MetricsContract
<1>3. Metric!Buckets = 0 .. n - 1
  BY <1>2 DEF Metric!Buckets
<1>4. \A h, b : Before(h, b)' = Before(h, b) /\ From(h, b)' = From(h, b)
  BY <1>1 DEF Before, From, Metric!Samples
<1>5. ASSUME NEW h \in Watched, NEW p \in Percentiles,
             Metric!BeginPercentile(h, p)
      PROVE  PercentileInv'
  <2>1. /\ scan'.at = "total" /\ scan'.h = h /\ scan'.next = 0
        /\ scan'.sum = 0 /\ answer' = answer
    BY <1>5 DEF Metric!BeginPercentile, Metric!NoScan
  <2>2. Before(h, 0) = 0
    <3>1. h \in Metric!Histograms /\ 0 \in Metric!Buckets
      BY <1>3, MetricsContract
    <3> QED
      BY <3>1, BucketsAround
  <2>3. ScanIsBounded'
    BY <1>4, <2>1, <2>2 DEF ScanIsBounded
  <2> QED
    BY <1>1, <2>1, <2>3, AnswerStands DEF PercentileInv
<1>6. PICK h \in Metric!Histograms, b \in Metric!Buckets, k \in Nat, g \in Nat,
           p \in 0 .. 100, d \in BOOLEAN :
        /\ h = scan.h /\ b = scan.next /\ k = scan.sum /\ g = scan.target
        /\ p = scan.p /\ d = scan.disturbed
  BY DEF MetricsTyped
<1>7. PICK v \in Nat : v = value[<<h, b>>]
  BY BucketsAround
<1>8. /\ Before(h, b) \in Nat /\ From(h, b) \in Nat /\ From(h, b + 1) \in Nat
      /\ Metric!Count(h, b) = Before(h, b) + v
      /\ Before(h, b + 1) = Before(h, b) + v
      /\ From(h, b) = v + From(h, b + 1)
      /\ b + 1 = n => From(h, b + 1) = 0 /\ From(h, 0) = Before(h, b + 1)
  BY <1>2, <1>7, BucketsAround
<1>9. ASSUME Metric!LoadForTotal
      PROVE  PercentileInv'
  <2>1. scan.at = "total" /\ answer' = answer
    BY <1>9 DEF Metric!LoadForTotal
  <2>2. PICK total \in Nat : total = k + v
    BY <1>6, <1>7
  <2>3. d \/ total <= Before(h, b + 1)
    BY <1>6, <1>8, <2>1, <2>2 DEF PercentileInv, ScanIsBounded
  <2>4. PICK goal : goal = (total * p) \div 100
    OBVIOUS
  <2>5. scan' = IF b + 1 < n
                  THEN [scan EXCEPT !.next = @ + 1, !.sum = total]
                ELSE IF total = 0 THEN Metric!NoScan
                ELSE [scan EXCEPT !.at = "scan", !.next = 0, !.sum = 0,
                                  !.target = goal]
    BY <1>2, <1>6, <1>7, <1>9, <2>2, <2>4 DEF Metric!LoadForTotal
  <2>6. CASE b + 1 < n
    <3>1. /\ scan'.at = "total" /\ scan'.h = h /\ scan'.next = b + 1
          /\ scan'.sum = total /\ scan'.disturbed = d
      BY <1>6, <2>1, <2>5, <2>6 DEF MetricsTyped
    <3>2. ScanIsBounded'
      BY <1>4, <2>3, <3>1 DEF ScanIsBounded
    <3> QED
      BY <1>1, <2>1, <3>2, AnswerStands DEF PercentileInv
  <2>7. CASE ~(b + 1 < n) /\ total = 0
    <3>1. ScanIsBounded'
      BY <2>5, <2>7 DEF ScanIsBounded, Metric!NoScan
    <3> QED
      BY <1>1, <2>1, <3>1, AnswerStands DEF PercentileInv
  <2>8. CASE ~(b + 1 < n) /\ total # 0
    <3>1. /\ scan'.at = "scan" /\ scan'.h = h /\ scan'.next = 0
          /\ scan'.sum = 0 /\ scan'.target = goal /\ scan'.disturbed = d
      BY <1>6, <2>5, <2>8 DEF MetricsTyped
    <3>2. goal \in Nat /\ goal <= total
      BY <2>4, PercentageIsPart
    <3>3. b + 1 = n
      BY <1>3, <2>8
    <3>4. Before(h, 0) = 0 /\ From(h, 0) = Before(h, b + 1)
      BY <1>8, <3>3, BucketsAround
    <3>5. d \/ goal <= 0 + From(h, 0)
      BY <1>8, <2>3, <3>2, <3>4
    <3>6. ScanIsBounded'
      BY <1>4, <3>1, <3>4, <3>5 DEF ScanIsBounded
    <3> QED
      BY <1>1, <2>1, <3>6, AnswerStands DEF PercentileInv
  <2> QED
    BY <2>6, <2>7, <2>8
<1>10. ASSUME Metric!LoadForTarget
       PROVE  PercentileInv'
  <2>1. scan.at = "scan"
    BY <1>10 DEF Metric!LoadForTarget
  <2>2. d \/ (/\ k <= Before(h, b)
              /\ k = 0 \/ k < g
              /\ g <= k + From(h, b))
    BY <1>6, <2>1 DEF PercentileInv, ScanIsBounded
  <2>3. PICK reach \in Nat : reach = k + v
    BY <1>6, <1>7
  <2>4. Metric!Reached(reach) <=> reach >= g
    BY <1>6 DEF Metric!Reached
  <2>5. \/ reach >= g /\ Metric!Return(b)
        \/ ~(reach >= g) /\ b + 1 = n /\ Metric!Return(n)
        \/ /\ ~(reach >= g) /\ b + 1 # n
           /\ scan' = [scan EXCEPT !.next = @ + 1, !.sum = reach]
           /\ answer' = answer
    BY <1>2, <1>6, <1>7, <1>10, <2>3, <2>4 DEF Metric!LoadForTarget
  <2>6. ASSUME NEW x, Metric!Return(x)
        PROVE  /\ ScanIsBounded'
               /\ answer' = IF d THEN Metric!NoAnswer
                            ELSE [bucket |-> x, target |-> g, h |-> h]
    BY <1>6, <2>6 DEF Metric!Return, ScanIsBounded, Metric!NoScan
  <2>7. CASE d /\ \E x : Metric!Return(x)
    <3>1. ScanIsBounded' /\ answer' = Metric!NoAnswer
      BY <2>6, <2>7
    <3> QED
      BY <3>1 DEF PercentileInv, AnswerTyped, Metric!PercentileIsReached,
                  Metric!NoAnswer
  <2>8. CASE ~d /\ reach >= g /\ Metric!Return(b)
    <3>1. /\ ScanIsBounded'
          /\ answer' = [bucket |-> b, target |-> g, h |-> h]
      BY <2>6, <2>8
    <3>2. Metric!Count(h, b) >= g
      BY <1>8, <2>2, <2>3, <2>8
    <3>3. g > 0 => v > 0
      BY <2>2, <2>3, <2>8
    <3>4. Metric!Count(h, b)' = Metric!Count(h, b)
      BY <1>1 DEF Metric!Count, Metric!Samples
    <3>5. answer'.bucket = b /\ answer'.target = g /\ answer'.h = h
      BY <3>1
    <3>6. AnswerTyped'
      BY <3>5 DEF AnswerTyped
    <3>7. Metric!Count(answer.h, answer.bucket)' = Metric!Count(h, b)'
      BY <3>5 DEF Metric!Count, Metric!Samples
    <3>8. Metric!PercentileIsReached'
      BY <1>1, <1>7, <3>2, <3>3, <3>4, <3>5, <3>7
      DEF Metric!PercentileIsReached
    <3> QED
      BY <3>1, <3>6, <3>8 DEF PercentileInv
  <2>9. ASSUME ~d, ~(reach >= g), b + 1 = n
        PROVE  FALSE
    BY <1>8, <2>2, <2>3, <2>9
  <2>10. CASE /\ ~(reach >= g) /\ b + 1 # n
              /\ scan' = [scan EXCEPT !.next = @ + 1, !.sum = reach]
              /\ answer' = answer
    <3>1. /\ scan'.at = "scan" /\ scan'.h = h /\ scan'.next = b + 1
          /\ scan'.sum = reach /\ scan'.target = g /\ scan'.disturbed = d
      BY <1>6, <2>1, <2>10 DEF MetricsTyped
    <3>2. d \/ (/\ reach <= Before(h, b + 1)
                /\ reach < g
                /\ g <= reach + From(h, b + 1))
      BY <1>8, <2>2, <2>3, <2>10
    <3>3. ScanIsBounded'
      BY <1>4, <3>1, <3>2 DEF ScanIsBounded
    <3> QED
      BY <1>1, <2>10, <3>3, AnswerStands DEF PercentileInv
  <2> QED
    BY <2>5, <2>7, <2>8, <2>9, <2>10
<1> QED
  BY <1>5, <1>9, <1>10

\* Whatever is recorded while percentile() adds up the buckets, and unless a
\* reset interferes, it returns one of them, and the samples up to it reach the
\* target it computed (Metrics.h:78-93).
THEOREM PercentilesAreReached == StandaloneSpec => []PercentileIsReached
<1>1. StandaloneInit => PercentileInv
  BY DEF StandaloneInit, Metric!Init, PercentileInv, AnswerTyped,
         ScanIsBounded, Metric!PercentileIsReached, Metric!NoScan,
         Metric!NoAnswer
<1>2. CountsInv /\ CountsInv' /\ PercentileInv
        /\ [StandaloneNext]_<<containersVars, metricsVars, orderVars, part>>
        => PercentileInv'
  <2> SUFFICES ASSUME CountsInv, CountsInv', PercentileInv,
               [StandaloneNext]_<<containersVars, metricsVars, orderVars, part>>
               PROVE  PercentileInv'
    OBVIOUS
  <2>1. MetricsTyped /\ CallsAreTails /\ MetricsTyped'
    BY DEF CountsInv
  <2>2. \A f \in Metric!Fields : value[f] <= value[f]
    BY <2>1 DEF MetricsTyped
  <2>3. CASE UNCHANGED metricsVars
    BY <2>1, <2>2, <2>3, RecordKeepsPercentile DEF metricsVars
  <2>4. ASSUME NEW t \in Threads,
               \/ Metric!BeginAdd(t) \/ Metric!BeginOther(t)
               \/ Metric!BeginReset(t)
        PROVE  PercentileInv'
    <3>1. value' = value /\ scan' = scan /\ answer' = answer
      BY <2>4 DEF Metric!BeginAdd, Metric!BeginOther, Metric!BeginReset,
                  Metric!Begin
    <3> QED
      BY <2>1, <2>2, <3>1, RecordKeepsPercentile
  <2>5. ASSUME NEW t \in Threads, Metric!Step(t)
        PROVE  PercentileInv'
    BY <2>1, <2>5, StepKeepsPercentile
  <2>6. CASE \/ \E h \in Watched, p \in Percentiles :
                  Metric!BeginPercentile(h, p)
             \/ Metric!LoadForTotal \/ Metric!LoadForTarget
    BY <2>1, <2>6, ScanKeepsPercentile
  <2>7. CASE Metric!Next
    BY <2>4, <2>5, <2>6, <2>7 DEF Metric!Next
  <2>8. UNCHANGED metricsVars \/ Metric!Next
    BY DEF StandaloneNext, MetricsStep, OrderStep
  <2> QED
    BY <2>3, <2>7, <2>8
<1>3. PercentileInv => PercentileIsReached
  BY DEF PercentileInv, PercentileIsReached
<1> QED
  BY <1>1, <1>2, <1>3, AddedOrdersInvariance, PTL DEF StandaloneSpec

=============================================================================
