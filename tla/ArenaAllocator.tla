--------------------------- MODULE ArenaAllocator ---------------------------
(***************************************************************************)
(* The bump allocator (core/include/lob/ArenaAllocator.h): one buffer, an  *)
(* offset that only grows, and a reset that takes everything back at once. *)
(* ArenaScoped builds an object in a block of the arena and destroys it at *)
(* the end of a scope, without giving the block back.                      *)
(*                                                                         *)
(* Blocks are kept as offsets; an address is an offset in a buffer that    *)
(* _aligned_malloc has put at a multiple of 64.  Neither class knows of    *)
(* the other's state: that no scoped object is alive when the arena is     *)
(* reset is up to the client, and is the guard of Reset.                   *)
(***************************************************************************)
EXTENDS Integers

CONSTANTS
  capacity,          \* capacity_, in bytes
  buffer,            \* buffer_, an address
  BUFFER_ALIGNMENT,  \* 64, what the buffer is asked to be aligned to
  SizeModulus,       \* 2^64: sizes and offsets are size_t
  Sizes,             \* the sizes clients ask for
  Alignments         \* the alignments they ask for

\* What _aligned_malloc returns, and the contract of allocate(), which checks
\* neither: an alignment is a power of two, and a size is not so large that
\* the sum in line 44 wraps.
ArenaAssumption ==
  /\ capacity \in Nat
  /\ buffer \in Nat
  /\ BUFFER_ALIGNMENT \in Nat \ {0}
  /\ buffer % BUFFER_ALIGNMENT = 0
  /\ SizeModulus \in Nat
  /\ Sizes \subseteq Nat
  /\ Alignments \subseteq Nat \ {0}
  /\ \A alignment \in Alignments : \E k \in 0 .. alignment : alignment = 2 ^ k
  /\ \A size \in Sizes, alignment \in Alignments :
       capacity + alignment + size < SizeModulus

VARIABLES
  offset,  \* offset_
  blocks,  \* the blocks handed out since the last reset, with what was asked
  scoped   \* the blocks of the ArenaScoped objects that are alive

vars == <<offset, blocks, scoped>>

Block == [from : 0 .. capacity, size : Sizes, alignment : Alignments]

Init ==
  /\ offset = 0
  /\ blocks = {}
  /\ scoped = {}

\* Line 41: masking the low bits rounds up to a multiple of a power of two.
AlignUp(at, alignment) ==
  ((at + alignment - 1) \div alignment) * alignment

\* What allocate() hands out for a request.
NewBlock(size, alignment) ==
  [from |-> AlignUp(offset, alignment), size |-> size, alignment |-> alignment]

\* The pointer that allocate() returns: the offset was aligned, not this.
Address(block) == buffer + block.from

Fits(block) == (block.from + block.size) % SizeModulus <= capacity

\* Mutant: only the size is added, not what alignment skipped.
AllocateUnaligned(size, alignment) ==
  LET block == NewBlock(size, alignment)
  IN  /\ Fits(block)
      /\ offset' = offset + size
      /\ blocks' = blocks \cup {block}

\* allocate(): when the block does not fit, nullptr and no change.
Allocate(size, alignment) ==
  LET block == NewBlock(size, alignment)
  IN  /\ Fits(block)
      /\ offset' = (block.from + size) % SizeModulus
      /\ blocks' = blocks \cup {block}

\* The constructor of ArenaScoped, given a block, builds the object in it.
Enter(size, alignment) ==
  /\ Allocate(size, alignment)
  /\ scoped' = scoped \cup {NewBlock(size, alignment)}

\* Its destructor leaves the arena alone.
Leave(block) ==
  /\ block \in scoped
  /\ scoped' = scoped \ {block}
  /\ UNCHANGED <<offset, blocks>>

Reset ==
  /\ scoped = {}
  /\ offset' = 0
  /\ blocks' = {}
  /\ UNCHANGED scoped

Next ==
  \/ \E size \in Sizes, alignment \in Alignments :
       \/ Allocate(size, alignment) /\ UNCHANGED scoped
       \/ Enter(size, alignment)
  \/ \E block \in scoped : Leave(block)
  \/ Reset

Spec == Init /\ [][Next]_vars

-----------------------------------------------------------------------------
\* The type of the state.
TypeOK ==
  /\ offset \in 0 .. capacity
  /\ blocks \subseteq Block
  /\ scoped \subseteq blocks

Apart(a, b) == a.from + a.size <= b.from \/ b.from + b.size <= a.from

\* Whatever mix of sizes and alignments was asked for, the blocks handed out
\* since the last reset lie inside the buffer and below the offset, and no two
\* share a byte, so no object of a scope is written over while it lives.  The
\* address of a block has the alignment asked for when that of the buffer is a
\* multiple of it, so up to 64; beyond, nothing is promised (19-26, 39-51).
BlocksAreApart ==
  /\ \A a \in blocks :
       /\ a.from + a.size <= offset
       /\ BUFFER_ALIGNMENT % a.alignment = 0 =>
            Address(a) % a.alignment = 0
  /\ \A a, b \in blocks : a # b => Apart(a, b)

=============================================================================
