---------------------------- MODULE MCContainers ----------------------------
(***************************************************************************)
(* Small instances of the three containers: the object pool, the lists and *)
(* the arena.  They share no state, so MCStandalone.tla explores each of   *)
(* them alone: part says which one a behaviour is about.                   *)
(***************************************************************************)
EXTENDS MemoryPool

CONSTANTS
  Lists, Orders, NoLink,                     \* IntrusiveList.tla
  capacity, buffer, BUFFER_ALIGNMENT, SizeModulus, Sizes,
  Alignments                                 \* ArenaAllocator.tla

VARIABLES
  part,
  head, tail, size, next, prev,  \* IntrusiveList.tla
  offset, blocks, scoped         \* ArenaAllocator.tla

List  == INSTANCE IntrusiveList WITH Null <- NoLink
Arena == INSTANCE ArenaAllocator

listVars  == <<head, tail, size, next, prev>>
arenaVars == <<offset, blocks, scoped>>

ASSUME ContractAssumption == List!ListAssumption /\ Arena!ArenaAssumption

ContainersInit == Init /\ List!Init /\ Arena!Init

PoolStep ==
  /\ part = "pool"
  /\ Next
  /\ UNCHANGED <<listVars, arenaVars, part>>

ListStep ==
  /\ part = "list"
  /\ List!Next
  /\ UNCHANGED <<vars, arenaVars, part>>

ArenaStep ==
  /\ part = "arena"
  /\ Arena!Next
  /\ UNCHANGED <<vars, listVars, part>>

containersVars == <<vars, listVars, arenaVars>>

ContainersStep == PoolStep \/ ListStep \/ ArenaStep

-----------------------------------------------------------------------------
\* The type of each container's state: no slot outside the block, no size_ or
\* offset_ that wrapped (MemoryPool.h, IntrusiveList.h, ArenaAllocator.h).
ContainersTypeOK ==
  /\ part = "pool" => TypeOK
  /\ part = "list" => List!TypeOK
  /\ part = "arena" => Arena!TypeOK

\* IntrusiveList.tla: forward and backward links agree (16-25, 39-49).
LinksMirror == part = "list" => List!LinksMirror

\* IntrusiveList.tla: size() counts what an iteration meets (71-78).
SizeIsCount == part = "list" => List!SizeIsCount

\* IntrusiveList.tla: each list is a first-in first-out queue (8-9).
ImplementsFifo == List!ImplementsFifo

\* ArenaAllocator.tla: blocks are inside the buffer and disjoint, and aligned
\* as far as the buffer is (19-26, 39-51).
BlocksAreApart == part = "arena" => Arena!BlocksAreApart

=============================================================================
