---------------------------- MODULE BumpAllocator ----------------------------
(***************************************************************************)
(* The allocator of temporary memory in a process call                     *)
(* (ct_bump_allocator.cpp).  It hands out blocks of one piece of memory    *)
(* from the bottom up; each block ends in a descriptor with the requested  *)
(* size, from which free finds the block's beginning.  Only the last block *)
(* can be freed.                                                           *)
(*                                                                         *)
(* Sizes are byte counts.  size_t does not wrap: sizes are those of arrays *)
(* of at most a processing block.                                          *)
(***************************************************************************)
EXTENDS Integers, Sequences

CONSTANT DescriptorSize   \* sizeof(descriptor): 8, or 16 with assertions

\* alignof(std::max_align_t), the default alignment.
Align == 16

ASSUME BumpAllocatorAssumption == DescriptorSize \in 1..Align

VARIABLES
  cap,      \* cap_
  top,      \* top_
  blocks    \* live blocks: where each begins and the size its descriptor has

allocator == <<cap, top, blocks>>

\* A block: where it begins and the size in its descriptor.
Block == [at : Nat, size : Nat]

\* (size + mask) & ~mask, for a mask of Align - 1.
pad_size(size) == ((size + Align - 1) \div Align) * Align

\* Mutant: there is no room for the descriptor.
TotalSize_NoDescriptor(size) == pad_size(size)

TotalSize(size) == pad_size(size + DescriptorSize)

AllocatorInit == cap = 0 /\ top = 0 /\ blocks = << >>

\* The constructor; clear() is the same with the capacity it had.
construct(c) ==
  /\ cap' = c /\ top' = 0 /\ blocks' = << >>

Fits(size) == TotalSize(size) <= cap - top

\* alloc; it returns nullptr when the block does not fit.
alloc(size) ==
  IF Fits(size)
  THEN /\ blocks' = Append(blocks, [at |-> top, size |-> size])
       /\ top' = top + TotalSize(size)
       /\ UNCHANGED cap
  ELSE UNCHANGED allocator

\* free of the last block, through the descriptor below the top.
free ==
  /\ blocks # << >>
  /\ top' = top - TotalSize(blocks[Len(blocks)].size)
  /\ blocks' = SubSeq(blocks, 1, Len(blocks) - 1)
  /\ UNCHANGED cap

\* The calls that a user of the allocator may make.
AllocatorNext ==
  \/ \E c \in Nat : construct(c)
  \/ \E size \in Nat : alloc(size)
  \/ free

AllocatorSpec == AllocatorInit /\ [][AllocatorNext]_allocator
-----------------------------------------------------------------------------
\* The types of the allocator's state.
AllocatorOK ==
  /\ cap \in Nat /\ top \in Nat
  /\ blocks \in Seq(Block)

\* The end of block i, its descriptor included.
End(i) == IF i = Len(blocks) THEN top ELSE blocks[i + 1].at

\* No two live blocks share memory, and none reaches over the end of the
\* memory: each is inside 0 .. cap with its payload and, behind that, its
\* descriptor, and ends before a later one begins (alloc after alloc and free
\* in any order).
BlocksApart ==
  /\ top <= cap
  /\ \A i \in 1..Len(blocks) :
       /\ blocks[i].at + blocks[i].size + DescriptorSize <= End(i)
       /\ End(i) <= cap
       /\ \A j \in 1..Len(blocks) : i < j => End(i) <= blocks[j].at

\* Every block is aligned for any type, as the caller's casts need it.
BlocksAligned == \A i \in 1..Len(blocks) : blocks[i].at % Align = 0

\* The descriptor below the top is that of the last block: the memory that
\* free gives back is the memory that alloc took (the assertion ptr == plast).
FreeFindsBlock ==
  blocks # << >> =>
    top - TotalSize(blocks[Len(blocks)].size) = blocks[Len(blocks)].at
=============================================================================
