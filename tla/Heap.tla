--------------------------------- MODULE Heap ---------------------------------
(***************************************************************************)
(* The kernel heap (shared/src/memory/alloc/heap.rs): block sizes with a   *)
(* free list each, filled a chunk at a time, and whole chunks for anything *)
(* larger.  Nothing is ever freed: dealloc does nothing.  The chunks come  *)
(* from the HeapProvider of KernelMemory, which shares the frame allocator *)
(* with the task stacks; chunk c is frame c.                               *)
(***************************************************************************)
EXTENDS KernelMemory, Sequences

CONSTANTS
  CHUNK_SIZE,
  Layouts,      \* [size, align] that are asked for
  MaxIssued     \* bound: allocations

BLOCK_SIZES == << 16, 32, 64, 128, 256 >>
NUM_BLOCK_SIZES == 5
MAXIMAL_BLOCK_SIZE == BLOCK_SIZES[NUM_BLOCK_SIZES]
Keys == 1 .. NUM_BLOCK_SIZES

\* Heap::new asserts that a chunk is a power of two, no smaller than the largest
\* block, so it is a whole number of them.  A Layout's alignment is a power of
\* two, so one that is no larger than the largest block or than a chunk divides it.
ASSUME HeapAssumption ==
  /\ CHUNK_SIZE \in Nat
  /\ CHUNK_SIZE >= MAXIMAL_BLOCK_SIZE
  /\ CHUNK_SIZE % MAXIMAL_BLOCK_SIZE = 0
  /\ \A l \in Layouts :
       /\ l.size \in Nat /\ l.align \in Nat \ {0}
       /\ l.align <= MAXIMAL_BLOCK_SIZE => MAXIMAL_BLOCK_SIZE % l.align = 0
       /\ l.align <= CHUNK_SIZE => CHUNK_SIZE % l.align = 0
  /\ MaxIssued \in Nat

VARIABLES
  free_lists,    \* the free blocks of each size, by address, front first
  issued,        \* the allocations: [address, len, layout, block]
  failed         \* an assertion of allocate_small failed

heapVars == <<free_lists, issued, failed>>

Larger(x, y) == IF x >= y THEN x ELSE y

\* key_for_size_align: the first size that fits, none if there is no such size.
Fitting_sizeOnly(layout) == {k \in Keys : BLOCK_SIZES[k] >= layout.size}
Fitting(layout) == {k \in Keys : BLOCK_SIZES[k] >= Larger(layout.size, layout.align)}

Least(S) == CHOOSE k \in S : \A j \in S : k <= j

Issue(address, len, layout, block) ==
  issued' = issued \cup {[address |-> address, len |-> len, layout |-> layout, block |-> block]}

(***************************************************************************)
(* Large allocations                                                       *)
(***************************************************************************)

ChunksFor_floor(size) == size \div CHUNK_SIZE
ChunksFor(size) == (size + CHUNK_SIZE - 1) \div CHUNK_SIZE

LargeAllocation(layout) ==
  LET n == ChunksFor(layout.size)
  IN  /\ Fitting(layout) = {}
      /\ ProvideChunks(n)
      /\ IF panic' = "no"
         THEN Issue(ret'.range.first * CHUNK_SIZE, n * CHUNK_SIZE, layout, n * CHUNK_SIZE)
         ELSE UNCHANGED issued
      /\ UNCHANGED <<free_lists, failed>>

(***************************************************************************)
(* Small allocations                                                       *)
(***************************************************************************)

\* The block FreeBlock::build cuts off as the i-th of chunk c, counted from 0; all
\* have the largest size.
BlockAt(c, i) == c * CHUNK_SIZE + i * MAXIMAL_BLOCK_SIZE

BlocksOf_strict(c) ==
  LET n == (CHUNK_SIZE - 1) \div MAXIMAL_BLOCK_SIZE
  IN  [i \in 1 .. n |-> BlockAt(c, n - i)]

BlocksOf_half(c) ==
  LET n == 2 * (CHUNK_SIZE \div MAXIMAL_BLOCK_SIZE) - 1
  IN  [i \in 1 .. n |-> c * CHUNK_SIZE + (n - i) * BLOCK_SIZES[NUM_BLOCK_SIZES - 1]]

\* fetch_chunk cuts the chunk from its start and pushes each block at the
\* front: the last block comes first.
BlocksOf(c) ==
  LET n == CHUNK_SIZE \div MAXIMAL_BLOCK_SIZE
  IN  [i \in 1 .. n |-> BlockAt(c, n - i)]

\* Pop a block off the list of size k and hand it out if it fits the layout.
Take(lists, k, layout) ==
  LET address == Head(lists[k])
      fits    == address % layout.align = 0 /\ MAXIMAL_BLOCK_SIZE >= layout.size
  IN  /\ free_lists' = [lists EXCEPT ![k] = Tail(@)]
      /\ failed' = ~fits
      /\ IF fits THEN Issue(address, layout.size, layout, MAXIMAL_BLOCK_SIZE) ELSE UNCHANGED issued

NonEmpty(layout) == {k \in Least(Fitting(layout)) .. NUM_BLOCK_SIZES : free_lists[k] # << >>}

\* From the first non-empty list of the size or a larger one.
SmallAllocation(layout) ==
  /\ panic = "no" /\ Fitting(layout) # {} /\ NonEmpty(layout) # {}
  /\ Take(free_lists, Least(NonEmpty(layout)), layout)
  /\ UNCHANGED <<vars, clients>>

\* When there is none, a chunk is fetched into the last list first.
FetchAndAllocate(layout) ==
  /\ Fitting(layout) # {} /\ NonEmpty(layout) = {}
  /\ ProvideChunks(1)
  /\ IF panic' = "no"
     THEN Take([free_lists EXCEPT ![NUM_BLOCK_SIZES] = BlocksOf(ret'.range.first) \o @],
               NUM_BLOCK_SIZES, layout)
     ELSE UNCHANGED heapVars

HeapInit ==
  /\ KernelInit
  /\ free_lists = [k \in Keys |-> << >>]
  /\ issued = {}
  /\ failed = FALSE

Allocate(layout) ==
  /\ ~failed
  /\ Cardinality(issued) < MaxIssued
  /\ LargeAllocation(layout) \/ SmallAllocation(layout) \/ FetchAndAllocate(layout)

HeapHalted == (failed \/ panic # "no") /\ UNCHANGED <<vars, clients, heapVars>>

HeapNext ==
  \/ ~failed /\ CreateTask /\ UNCHANGED heapVars
  \/ ~failed /\ (\E r \in tasks : DropTask(r)) /\ UNCHANGED heapVars
  \/ \E layout \in Layouts : Allocate(layout)
  \/ HeapHalted

HeapSpec == HeapInit /\ [][HeapNext]_<<vars, clients, heapVars>>

(***************************************************************************)
(* Properties                                                              *)
(***************************************************************************)

FreeBlocks == UNION {{free_lists[k][i] : i \in 1 .. Len(free_lists[k])} : k \in Keys}

ClearOf(x, n, y, m) == x + n <= y \/ y + m <= x

\* No two allocations ever share a byte, and none shares one with a block that
\* is still free and holds the list's header, or with the frames of a task.
AllocationsDisjoint ==
  /\ \A a, b \in issued :
       a # b /\ a.len > 0 /\ b.len > 0 => ClearOf(a.address, a.len, b.address, b.len)
  /\ \A a \in issued, f \in FreeBlocks :
       a.len > 0 => ClearOf(a.address, a.len, f, MAXIMAL_BLOCK_SIZE)
  /\ \A a \in issued, r \in tasks :
       a.len > 0 => \A f \in FramesOf(r) : ClearOf(a.address, a.len, f * CHUNK_SIZE, CHUNK_SIZE)

\* An allocation is as large as its layout asks, and as aligned, up to the
\* alignment of a chunk.
FitsLayout ==
  \A a \in issued :
    /\ a.len >= a.layout.size
    /\ a.layout.align <= CHUNK_SIZE => a.address % a.layout.align = 0

\* The assertions of allocate_small hold: a block popped from a larger size's
\* list fits and is aligned.
BlocksFit == ~failed

\* No block of a chunk taken from the provider is lost: each is still free or
\* has been issued.
ChunksAccounted ==
  \A c \in UNION {SliceFrames(s) : s \in slices},
     i \in 0 .. (CHUNK_SIZE \div MAXIMAL_BLOCK_SIZE - 1) :
    LET at == BlockAt(c, i)
    IN  \/ at \in FreeBlocks
        \/ \E a \in issued : a.address <= at /\ at < a.address + a.block
==============================================================================
