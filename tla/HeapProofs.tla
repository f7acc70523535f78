----------------------------- MODULE HeapProofs -----------------------------
(***************************************************************************)
(* Proofs about the heap, for every amount of memory, every chunk size     *)
(* Heap::new accepts and every mix of layouts and of tasks.  What          *)
(* FrameAllocatorProofs shows of the allocator's clients carries over: the *)
(* heap is one of them.                                                    *)
(***************************************************************************)
EXTENDS Heap, FrameAllocatorProofs

-----------------------------------------------------------------------------
\* What the heap asks HeapProvider for.
HeapRequests == {1} \cup {ChunksFor(layout.size) : layout \in Layouts}

-----------------------------------------------------------------------------
(***************************************************************************)
(* The heap uses its provider as KernelMemory says.                        *)
(***************************************************************************)

LEMMA StepOfKernel ==
  ASSUME HeapRequests \subseteq ChunkRequests, [HeapNext]_<<vars, clients, heapVars>>
  PROVE  [KernelNext]_<<vars, clients>>
<1>1. CASE UNCHANGED <<vars, clients, heapVars>>
  BY <1>1
<1>2. CASE CreateTask \/ \E r \in tasks : DropTask(r)
  BY <1>2 DEF KernelNext
<1>3. ASSUME NEW layout \in Layouts, Allocate(layout)
      PROVE  [KernelNext]_<<vars, clients>>
  <2>1. CASE LargeAllocation(layout)
    <3>1. ChunksFor(layout.size) \in ChunkRequests
      BY DEF HeapRequests
    <3>2. ProvideChunks(ChunksFor(layout.size))
      BY <2>1 DEF LargeAllocation
    <3>3. QED
      BY <3>1, <3>2 DEF KernelNext
  <2>2. CASE SmallAllocation(layout)
    BY <2>2 DEF SmallAllocation
  <2>3. CASE FetchAndAllocate(layout)
    <3>1. 1 \in ChunkRequests
      BY DEF HeapRequests
    <3>2. ProvideChunks(1)
      BY <2>3 DEF FetchAndAllocate
    <3>3. QED
      BY <3>1, <3>2 DEF KernelNext
  <2>4. QED
    BY <1>3, <2>1, <2>2, <2>3 DEF Allocate
<1>4. CASE HeapHalted
  BY <1>4 DEF HeapHalted
<1>5. QED
  BY <1>1, <1>2, <1>3, <1>4 DEF HeapNext

\* The heap and the tasks together are clients of the allocator as KernelMemory
\* describes them: every step of allocate and allocate_small is a call of
\* HeapProvider::allocate or leaves the allocator alone.
THEOREM HeapIsClient ==
  ASSUME HeapRequests \subseteq ChunkRequests
  PROVE  HeapSpec => KernelSpec
<1>1. HeapInit => KernelInit
  BY DEF HeapInit
<1>2. [HeapNext]_<<vars, clients, heapVars>> => [KernelNext]_<<vars, clients>>
  BY StepOfKernel
<1>3. QED
  BY <1>1, <1>2, PTL DEF HeapSpec, KernelSpec

\* So the slices the heap cuts into blocks and hands out whole stay its own.
THEOREM HeapMemoryExclusive ==
  ASSUME HeapRequests \subseteq ChunkRequests,
         ClientOrders \subseteq Orders, 2 \notin Orders
  PROVE  HeapSpec => []SlicesExclusive
BY HeapIsClient, HeapSlicesExclusive, PTL

-----------------------------------------------------------------------------
(***************************************************************************)
(* Blocks fit.                                                             *)
(***************************************************************************)

Multiples == {MAXIMAL_BLOCK_SIZE * q : q \in Nat}

\* Every block on a free list is a largest block, aligned to its size.
ListsInv == free_lists \in [Keys -> Seq(Multiples)]

LEMMA LargestBlock == MAXIMAL_BLOCK_SIZE = 256
BY DEF MAXIMAL_BLOCK_SIZE, NUM_BLOCK_SIZES, BLOCK_SIZES

LEMMA LeastIsMember ==
  ASSUME NEW S \in SUBSET Keys, S # {}
  PROVE  Least(S) \in S
<1>1. \E k \in S : \A j \in S : k <= j
  <2>1. S \subseteq {1, 2, 3, 4, 5}
    BY DEF Keys, NUM_BLOCK_SIZES
  <2>2. 1 \in S \/ 2 \in S \/ 3 \in S \/ 4 \in S \/ 5 \in S
    BY <2>1
  <2>3. QED
    BY <2>1, <2>2
<1>2. QED
  BY <1>1 DEF Least

\* key_for_size_align finds a size only for layouts no larger than a block, and
\* no more aligned.
LEMMA FittingLayout ==
  ASSUME NEW layout \in Layouts, Fitting(layout) # {}
  PROVE  /\ layout.size <= MAXIMAL_BLOCK_SIZE
         /\ layout.align <= MAXIMAL_BLOCK_SIZE
<1>1. PICK k \in Keys : BLOCK_SIZES[k] >= Larger(layout.size, layout.align)
  BY DEF Fitting
<1>2. k \in {1, 2, 3, 4, 5}
  BY DEF Keys, NUM_BLOCK_SIZES
<1>3. BLOCK_SIZES[k] \in {16, 32, 64, 128, 256}
  BY <1>2 DEF BLOCK_SIZES
<1>4. QED
  BY <1>1, <1>3, LargestBlock, HeapAssumption DEF Larger

LEMMA MultipleIsAligned ==
  ASSUME NEW layout \in Layouts, layout.align <= MAXIMAL_BLOCK_SIZE,
         NEW address \in Multiples
  PROVE  address % layout.align = 0
<1> DEFINE a == layout.align
<1>1. a \in Nat \ {0} /\ MAXIMAL_BLOCK_SIZE % a = 0 /\ MAXIMAL_BLOCK_SIZE \in Nat
  BY LargestBlock, HeapAssumption
<1> HIDE DEF a
<1>2. PICK d \in Nat : MAXIMAL_BLOCK_SIZE = a * d
  BY <1>1, MultipleOf
<1>3. PICK q \in Nat : address = MAXIMAL_BLOCK_SIZE * q
  BY DEF Multiples
<1>4. address = a * (d * q) /\ d * q \in Nat
  BY <1>1, <1>2, <1>3
<1>5. QED
  BY <1>1, <1>4, ModOfMultiple DEF a

\* fetch_chunk cuts a chunk into largest blocks only.
LEMMA ChunkIsMultiples ==
  ASSUME NEW c \in Nat
  PROVE  BlocksOf(c) \in Seq(Multiples) /\ BlocksOf(c) # << >>
<1> DEFINE n == CHUNK_SIZE \div MAXIMAL_BLOCK_SIZE
<1>1. n \in Nat /\ n >= 1 /\ CHUNK_SIZE = 256 * n
  BY LargestBlock, HeapAssumption
<1> HIDE DEF n
<1>2. ASSUME NEW i \in 1 .. n
      PROVE  c * CHUNK_SIZE + (n - i) * MAXIMAL_BLOCK_SIZE \in Multiples
  <2>1. c * n + (n - i) \in Nat
    BY <1>1
  <2>2. c * CHUNK_SIZE = 256 * (c * n)
    BY <1>1
  <2>3. c * CHUNK_SIZE + (n - i) * MAXIMAL_BLOCK_SIZE = 256 * (c * n + (n - i))
    BY <1>1, <2>2, LargestBlock
  <2>4. QED
    BY <2>1, <2>3, LargestBlock DEF Multiples
<1>3. BlocksOf(c) = [i \in 1 .. n |-> c * CHUNK_SIZE + (n - i) * MAXIMAL_BLOCK_SIZE]
  BY DEF BlocksOf, BlockAt, n
<1>4. QED
  BY <1>1, <1>2, <1>3

\* Whatever list the block comes from, the assertions of allocate_small hold.
LEMMA TakeStep ==
  ASSUME NEW lists \in [Keys -> Seq(Multiples)], NEW k \in Keys, lists[k] # << >>,
         NEW layout \in Layouts, Fitting(layout) # {}, Take(lists, k, layout)
  PROVE  ListsInv' /\ BlocksFit'
<1>1. Head(lists[k]) \in Multiples /\ Tail(lists[k]) \in Seq(Multiples)
  OBVIOUS
<1>2. layout.size <= MAXIMAL_BLOCK_SIZE /\ Head(lists[k]) % layout.align = 0
  BY <1>1, FittingLayout, MultipleIsAligned
<1>3. MAXIMAL_BLOCK_SIZE >= layout.size
  BY <1>2, LargestBlock, HeapAssumption
<1>4. failed' = FALSE
  BY <1>2, <1>3 DEF Take
<1>5. free_lists' = [lists EXCEPT ![k] = Tail(@)]
  BY DEF Take
<1>6. QED
  BY <1>1, <1>4, <1>5 DEF ListsInv, BlocksFit

LEMMA SmallStep ==
  ASSUME ListsInv, NEW layout \in Layouts, SmallAllocation(layout)
  PROVE  ListsInv' /\ BlocksFit'
<1>1. Fitting(layout) # {} /\ NonEmpty(layout) # {}
  BY DEF SmallAllocation
<1>2. Least(Fitting(layout)) \in Keys
  BY <1>1, LeastIsMember DEF Fitting
<1>3. NonEmpty(layout) \subseteq Keys
  BY <1>2 DEF NonEmpty, Keys
<1> DEFINE k == Least(NonEmpty(layout))
<1>4. k \in Keys /\ free_lists[k] # << >>
  BY <1>1, <1>3, LeastIsMember DEF NonEmpty
<1>5. Take(free_lists, k, layout)
  BY DEF SmallAllocation
<1> HIDE DEF k
<1>6. QED
  BY <1>1, <1>4, <1>5, TakeStep DEF ListsInv

LEMMA FetchStep ==
  ASSUME ListsInv, BlocksFit, KernelInv', NEW layout \in Layouts, FetchAndAllocate(layout)
  PROVE  ListsInv' /\ BlocksFit'
<1>1. CASE panic' = "no"
  <2> DEFINE lists == [free_lists EXCEPT ![NUM_BLOCK_SIZES] = BlocksOf(ret'.range.first) \o @]
  <2>1. [range |-> ret'.range, chunks |-> 1] \in slices'
    BY <1>1 DEF FetchAndAllocate, ProvideChunks, UnwrapPanics, Panic
  <2>2. ret'.range.first \in Nat
    BY <2>1 DEF KernelInv, ClientInv
  <2>3. BlocksOf(ret'.range.first) \in Seq(Multiples) /\ BlocksOf(ret'.range.first) # << >>
    BY <2>2, ChunkIsMultiples
  <2>4. NUM_BLOCK_SIZES \in Keys
    BY DEF NUM_BLOCK_SIZES, Keys
  <2>5. lists \in [Keys -> Seq(Multiples)] /\ lists[NUM_BLOCK_SIZES] # << >>
    BY <2>3, <2>4 DEF ListsInv
  <2>6. Fitting(layout) # {} /\ Take(lists, NUM_BLOCK_SIZES, layout)
    BY <1>1 DEF FetchAndAllocate
  <2> HIDE DEF lists
  <2>7. QED
    BY <2>4, <2>5, <2>6, TakeStep
<1>2. CASE panic' # "no"
  BY <1>2 DEF FetchAndAllocate, heapVars, ListsInv, BlocksFit
<1>3. QED
  BY <1>1, <1>2

\* A block popped from any list of a size that fits, or of a larger one, fits
\* the layout and has its alignment: neither assertion of allocate_small ever
\* fails.
THEOREM BlocksAlwaysFit ==
  ASSUME HeapRequests \subseteq ChunkRequests,
         ClientOrders \subseteq Orders, 2 \notin Orders
  PROVE  HeapSpec => []BlocksFit
<1>1. HeapInit => ListsInv /\ BlocksFit
  BY DEF HeapInit, ListsInv, BlocksFit
<1>2. /\ ListsInv /\ BlocksFit /\ KernelInv'
      /\ [HeapNext]_<<vars, clients, heapVars>>
      => ListsInv' /\ BlocksFit'
  <2> SUFFICES ASSUME ListsInv, BlocksFit, KernelInv',
                      [HeapNext]_<<vars, clients, heapVars>>
               PROVE  ListsInv' /\ BlocksFit'
    OBVIOUS
  <2>1. CASE UNCHANGED heapVars
    BY <2>1 DEF heapVars, ListsInv, BlocksFit
  <2>2. ASSUME NEW layout \in Layouts, Allocate(layout)
        PROVE  ListsInv' /\ BlocksFit'
    <3>1. CASE LargeAllocation(layout)
      BY <3>1 DEF LargeAllocation, ListsInv, BlocksFit
    <3>2. QED
      BY <2>2, <3>1, SmallStep, FetchStep DEF Allocate
  <2>3. QED
    BY <2>1, <2>2 DEF HeapNext, HeapHalted
<1>3. HeapSpec => []KernelInv
  BY HeapIsClient, InvariantHolds, PTL
<1>4. QED
  BY <1>1, <1>2, <1>3, PTL DEF HeapSpec

-----------------------------------------------------------------------------
(***************************************************************************)
(* Where the blocks and the allocations are.                               *)
(***************************************************************************)

\* The n bytes from x lie in the chunks of slice s.
Within(x, n, s) ==
  /\ s.range.first * CHUNK_SIZE <= x
  /\ x + n <= (s.range.first + s.chunks) * CHUNK_SIZE

\* Only the largest size ever has free blocks: fetch_chunk pushes no others.
Blocks(lists) == lists[NUM_BLOCK_SIZES]
Places(lists) == 1 .. Len(Blocks(lists))

\* No block is on the list twice, or is none of the heap's.
ListOwned(lists, sl) ==
  /\ lists \in [Keys -> Seq(Multiples)]
  /\ \A k \in Keys : k # NUM_BLOCK_SIZES => lists[k] = << >>
  /\ \A i, j \in Places(lists) : i # j => Blocks(lists)[i] # Blocks(lists)[j]
  /\ \A i \in Places(lists) : \E s \in sl : Within(Blocks(lists)[i], MAXIMAL_BLOCK_SIZE, s)

IssuedOwned(iss, sl) ==
  \A a \in iss :
    /\ a.address \in Nat /\ a.len \in Nat /\ a.block \in Nat /\ a.len <= a.block
    /\ \E s \in sl : Within(a.address, a.block, s)

IssuedApart(iss) ==
  \A a, b \in iss :
    a # b /\ a.block > 0 /\ b.block > 0 => ClearOf(a.address, a.block, b.address, b.block)

FreeApart(lists, iss) ==
  \A a \in iss, i \in Places(lists) :
    a.block > 0 => ClearOf(a.address, a.block, Blocks(lists)[i], MAXIMAL_BLOCK_SIZE)

PlacedIn(lists, iss, sl) ==
  /\ ListOwned(lists, sl)
  /\ IssuedOwned(iss, sl)
  /\ IssuedApart(iss)
  /\ FreeApart(lists, iss)

\* AllocationsDisjoint speaks of the bytes a layout asked for; what is inductive
\* is that the whole blocks are apart, and that each lies in a slice of its own
\* of the provider.
PlacesInv == PlacedIn(free_lists, issued, slices)

LEMMA ProductGrows ==
  ASSUME NEW x \in Nat, NEW y \in Nat, x <= y
  PROVE  x * CHUNK_SIZE <= y * CHUNK_SIZE
<1>1. CHUNK_SIZE \in Nat
  BY HeapAssumption
<1>2. y * CHUNK_SIZE = x * CHUNK_SIZE + (y - x) * CHUNK_SIZE
  BY <1>1
<1>3. (y - x) * CHUNK_SIZE \in Nat /\ x * CHUNK_SIZE \in Nat
  BY <1>1
<1>4. QED
  BY <1>2, <1>3

\* Different blocks do not overlap: they are aligned to their size.
LEMMA MultiplesApart ==
  ASSUME NEW x \in Multiples, NEW y \in Multiples, x # y
  PROVE  ClearOf(x, MAXIMAL_BLOCK_SIZE, y, MAXIMAL_BLOCK_SIZE)
<1>1. PICK p \in Nat, q \in Nat : x = 256 * p /\ y = 256 * q
  BY LargestBlock DEF Multiples
<1>2. QED
  BY <1>1, LargestBlock DEF ClearOf

\* Two ranges of frames that are apart lie one after the other.
LEMMA RangesOrdered ==
  ASSUME NEW p \in Nat, NEW n \in Nat \ {0}, NEW q \in Nat, NEW m \in Nat \ {0},
         (p .. (p + n - 1)) \cap (q .. (q + m - 1)) = {}
  PROVE  p + n <= q \/ q + m <= p
<1>1. p \in p .. (p + n - 1) /\ q \in q .. (q + m - 1)
  OBVIOUS
<1>2. p \notin q .. (q + m - 1) /\ q \notin p .. (p + n - 1)
  BY <1>1
<1>3. QED
  BY <1>2

\* What KernelMemory's invariant says of the slices.
SlicesApart(sl) ==
  /\ \A s \in sl : /\ s.chunks \in Nat /\ s.range.first \in Nat
                  /\ s.range.count \in Nat /\ s.chunks <= s.range.count
  /\ \A s, u \in sl : s # u => Apart(s.range, u.range)

\* What lies in different slices is apart.
LEMMA SlicesClear ==
  ASSUME NEW sl, SlicesApart(sl), NEW s \in sl, NEW u \in sl, s # u,
         NEW x \in Nat, NEW n \in Nat \ {0}, Within(x, n, s),
         NEW y \in Nat, NEW m \in Nat \ {0}, Within(y, m, u)
  PROVE  ClearOf(x, n, y, m)
<1> DEFINE p == s.range.first
           q == u.range.first
<1>1. /\ p \in Nat /\ s.chunks \in Nat /\ s.range.count \in Nat /\ s.chunks <= s.range.count
      /\ q \in Nat /\ u.chunks \in Nat /\ u.range.count \in Nat /\ u.chunks <= u.range.count
      /\ FramesOf(s.range) \cap FramesOf(u.range) = {}
  BY DEF SlicesApart, Apart
<1>2. /\ p * CHUNK_SIZE <= x /\ x + n <= (p + s.chunks) * CHUNK_SIZE
      /\ q * CHUNK_SIZE <= y /\ y + m <= (q + u.chunks) * CHUNK_SIZE
  BY DEF Within
<1>3. (p .. (p + s.range.count - 1)) \cap (q .. (q + u.range.count - 1)) = {}
  BY <1>1 DEF FramesOf
<1> HIDE DEF p, q
<1>4. CHUNK_SIZE \in Nat /\ p * CHUNK_SIZE \in Nat /\ q * CHUNK_SIZE \in Nat
  BY <1>1, HeapAssumption
<1>5. s.chunks # 0 /\ u.chunks # 0
  BY <1>1, <1>2, <1>4
<1>6. p + s.range.count <= q \/ q + u.range.count <= p
  <2>1. s.range.count \in Nat \ {0} /\ u.range.count \in Nat \ {0}
    BY <1>1, <1>5
  <2>2. QED
    BY <1>1, <1>3, <2>1, RangesOrdered
<1>7. p + s.chunks <= q \/ q + u.chunks <= p
  BY <1>1, <1>6
<1>8. \/ (p + s.chunks) * CHUNK_SIZE <= q * CHUNK_SIZE
      \/ (q + u.chunks) * CHUNK_SIZE <= p * CHUNK_SIZE
  <2>1. p + s.chunks \in Nat /\ q + u.chunks \in Nat
    BY <1>1
  <2>2. ASSUME p + s.chunks <= q PROVE (p + s.chunks) * CHUNK_SIZE <= q * CHUNK_SIZE
    BY <1>1, <2>1, <2>2, ProductGrows
  <2>3. ASSUME q + u.chunks <= p PROVE (q + u.chunks) * CHUNK_SIZE <= p * CHUNK_SIZE
    BY <1>1, <2>1, <2>3, ProductGrows
  <2>4. QED
    BY <1>7, <2>2, <2>3
<1>9. (p + s.chunks) * CHUNK_SIZE \in Nat /\ (q + u.chunks) * CHUNK_SIZE \in Nat
  BY <1>1, <1>4
<1>10. QED
  BY <1>2, <1>4, <1>8, <1>9 DEF ClearOf

\* Blocks and allocations stay where they are when the provider adds a slice.
LEMMA PlacedInMore ==
  ASSUME NEW lists, NEW iss, NEW sl, NEW s, PlacedIn(lists, iss, sl)
  PROVE  PlacedIn(lists, iss, sl \cup {s})
BY DEF PlacedIn, ListOwned, IssuedOwned

\* What popping a block of a list issues.
LEMMA TakeIssues ==
  ASSUME NEW lists \in [Keys -> Seq(Multiples)], NEW k \in Keys, lists[k] # << >>,
         NEW layout \in Layouts, Fitting(layout) # {}, Take(lists, k, layout)
  PROVE  /\ free_lists' = [lists EXCEPT ![k] = Tail(@)]
         /\ issued' = issued \cup {[address |-> Head(lists[k]), len |-> layout.size,
                                    layout |-> layout, block |-> MAXIMAL_BLOCK_SIZE]}
         /\ Head(lists[k]) % layout.align = 0
         /\ layout.size <= MAXIMAL_BLOCK_SIZE
<1>1. Head(lists[k]) \in Multiples
  OBVIOUS
<1>2. layout.size <= MAXIMAL_BLOCK_SIZE /\ Head(lists[k]) % layout.align = 0
  BY <1>1, FittingLayout, MultipleIsAligned
<1>3. MAXIMAL_BLOCK_SIZE >= layout.size
  BY <1>2, LargestBlock, HeapAssumption
<1>4. QED
  BY <1>2, <1>3 DEF Take, Issue

LEMMA TakePlaces ==
  ASSUME NEW lists, NEW sl, PlacedIn(lists, issued, sl), Blocks(lists) # << >>,
         NEW layout \in Layouts, Fitting(layout) # {},
         Take(lists, NUM_BLOCK_SIZES, layout)
  PROVE  PlacedIn(free_lists', issued', sl)
<1> DEFINE k == NUM_BLOCK_SIZES
           B == Blocks(lists)
           new == [address |-> Head(lists[k]), len |-> layout.size,
                   layout |-> layout, block |-> MAXIMAL_BLOCK_SIZE]
<1>1. k \in Keys
  BY DEF Keys, NUM_BLOCK_SIZES
<1>2. lists \in [Keys -> Seq(Multiples)] /\ lists[k] = B
  BY DEF PlacedIn, ListOwned, Blocks
<1>3. /\ free_lists' = [lists EXCEPT ![k] = Tail(@)]
      /\ issued' = issued \cup {new}
      /\ layout.size <= MAXIMAL_BLOCK_SIZE
  BY <1>1, <1>2, TakeIssues
<1>4. /\ new.address = Head(B) /\ new.len = layout.size /\ new.block = 256
      /\ layout.size \in Nat
  BY <1>2, LargestBlock, HeapAssumption
<1>5. Blocks(free_lists') = Tail(B)
  BY <1>1, <1>2, <1>3 DEF Blocks
<1>6. B \in Seq(Multiples) /\ B # << >>
  BY <1>1, <1>2
<1> HIDE DEF B, new, k
<1>7. /\ Tail(B) \in Seq(Multiples) /\ Len(Tail(B)) = Len(B) - 1 /\ Len(B) \in Nat \ {0}
      /\ \A i \in 1 .. (Len(B) - 1) : Tail(B)[i] = B[i + 1]
      /\ Head(B) = B[1]
  BY <1>6
<1>8. /\ \A i, j \in 1 .. Len(B) : i # j => B[i] # B[j]
      /\ \A i \in 1 .. Len(B) : \E s \in sl : Within(B[i], MAXIMAL_BLOCK_SIZE, s)
      /\ \A i \in 1 .. Len(B) : B[i] \in Multiples
      /\ \A a \in issued, i \in 1 .. Len(B) :
           a.block > 0 => ClearOf(a.address, a.block, B[i], MAXIMAL_BLOCK_SIZE)
  BY <1>6 DEF PlacedIn, ListOwned, FreeApart, Places, B
<1>9. ListOwned(free_lists', sl)
  <2>1. free_lists' \in [Keys -> Seq(Multiples)]
    BY <1>1, <1>2, <1>3, <1>7
  <2>2. \A j \in Keys : j # NUM_BLOCK_SIZES => free_lists'[j] = << >>
    BY <1>2, <1>3 DEF PlacedIn, ListOwned, k
  <2>3. \A i, j \in 1 .. Len(Tail(B)) : i # j => Tail(B)[i] # Tail(B)[j]
    BY <1>7, <1>8
  <2>4. \A i \in 1 .. Len(Tail(B)) : \E s \in sl : Within(Tail(B)[i], MAXIMAL_BLOCK_SIZE, s)
    BY <1>7, <1>8
  <2>5. QED
    BY <1>5, <2>1, <2>2, <2>3, <2>4 DEF ListOwned, Places
<1>10. IssuedOwned(issued', sl)
  <2>1. \E s \in sl : Within(new.address, new.block, s)
    BY <1>4, <1>7, <1>8, LargestBlock
  <2>2. new.address \in Nat /\ new.len \in Nat /\ new.block \in Nat /\ new.len <= new.block
    BY <1>3, <1>4, <1>7, <1>8, LargestBlock DEF Multiples
  <2>3. QED
    BY <1>3, <2>1, <2>2 DEF PlacedIn, IssuedOwned
<1>11. \A a \in issued : a.block > 0 => /\ ClearOf(a.address, a.block, new.address, new.block)
                                        /\ ClearOf(new.address, new.block, a.address, a.block)
  BY <1>4, <1>7, <1>8, LargestBlock DEF ClearOf
<1>12. IssuedApart(issued')
  BY <1>3, <1>11 DEF PlacedIn, IssuedApart
<1>13. FreeApart(free_lists', issued')
  <2>1. \A i \in 1 .. Len(Tail(B)) : ClearOf(new.address, new.block, Tail(B)[i], MAXIMAL_BLOCK_SIZE)
    BY <1>4, <1>7, <1>8, MultiplesApart, LargestBlock
  <2>2. \A a \in issued, i \in 1 .. Len(Tail(B)) :
          a.block > 0 => ClearOf(a.address, a.block, Tail(B)[i], MAXIMAL_BLOCK_SIZE)
    BY <1>7, <1>8
  <2>3. QED
    BY <1>3, <1>5, <2>1, <2>2 DEF FreeApart, Places
<1>14. QED
  BY <1>9, <1>10, <1>12, <1>13 DEF PlacedIn

\* fetch_chunk cuts a chunk into blocks that do not overlap and lie in it.
LEMMA ChunkIsCut ==
  ASSUME NEW c \in Nat
  PROVE  LET n == CHUNK_SIZE \div MAXIMAL_BLOCK_SIZE
             C == BlocksOf(c)
         IN  /\ n \in Nat \ {0} /\ Len(C) = n
             /\ \A i \in 1 .. n : /\ C[i] = BlockAt(c, n - i)
                                  /\ c * CHUNK_SIZE <= C[i]
                                  /\ C[i] + MAXIMAL_BLOCK_SIZE <= (c + 1) * CHUNK_SIZE
             /\ \A i, j \in 1 .. n : i # j => C[i] # C[j]
<1> DEFINE n == CHUNK_SIZE \div MAXIMAL_BLOCK_SIZE
           C == BlocksOf(c)
<1>1. n \in Nat \ {0} /\ CHUNK_SIZE = 256 * n
  BY LargestBlock, HeapAssumption
<1>2. C = [i \in 1 .. n |-> BlockAt(c, n - i)]
  BY DEF BlocksOf
<1> HIDE DEF n, C
<1>3. C \in Seq(Int) /\ Len(C) = n
  <2>1. \A i \in 1 .. n : BlockAt(c, n - i) \in Int
    BY <1>1, LargestBlock DEF BlockAt
  <2>2. QED
    BY <1>1, <1>2, <2>1
<1>4. \A i \in 1 .. n : C[i] = BlockAt(c, n - i) /\ C[i] = c * CHUNK_SIZE + (n - i) * 256
  BY <1>2, LargestBlock DEF BlockAt
<1>5. c * CHUNK_SIZE \in Nat /\ (c + 1) * CHUNK_SIZE = c * CHUNK_SIZE + 256 * n
  BY <1>1
<1>6. \A i \in 1 .. n : /\ c * CHUNK_SIZE <= C[i]
                        /\ C[i] + MAXIMAL_BLOCK_SIZE <= (c + 1) * CHUNK_SIZE
  BY <1>1, <1>4, <1>5, LargestBlock
<1>7. \A i, j \in 1 .. n : i # j => C[i] # C[j]
  BY <1>1, <1>4, <1>5
<1>8. QED
  BY <1>1, <1>3, <1>4, <1>6, <1>7 DEF n, C

\* The list with the blocks of a fetched chunk at its front.
Stocked(c) == [free_lists EXCEPT ![NUM_BLOCK_SIZES] = BlocksOf(c) \o @]

LEMMA StockPlaces ==
  ASSUME PlacesInv, NEW c \in Nat, NEW u, u.range.first = c, u.chunks = 1,
         u \notin slices, SlicesApart(slices \cup {u})
  PROVE  PlacedIn(Stocked(c), issued, slices \cup {u}) /\ Blocks(Stocked(c)) # << >>
<1> DEFINE n == CHUNK_SIZE \div MAXIMAL_BLOCK_SIZE
           C == BlocksOf(c)
           B == Blocks(free_lists)
           D == Blocks(Stocked(c))
           sl == slices \cup {u}
<1>1. /\ n \in Nat \ {0} /\ Len(C) = n
      /\ \A i \in 1 .. n : /\ c * CHUNK_SIZE <= C[i]
                           /\ C[i] + MAXIMAL_BLOCK_SIZE <= (c + 1) * CHUNK_SIZE
      /\ \A i, j \in 1 .. n : i # j => C[i] # C[j]
  BY ChunkIsCut
<1>2. C \in Seq(Multiples)
  BY ChunkIsMultiples
<1>3. NUM_BLOCK_SIZES \in Keys
  BY DEF Keys, NUM_BLOCK_SIZES
<1>4. free_lists \in [Keys -> Seq(Multiples)] /\ B \in Seq(Multiples)
  BY <1>3 DEF PlacesInv, PlacedIn, ListOwned, Blocks
<1>5. D = C \o B
  BY <1>3, <1>4 DEF Stocked, Blocks
<1>6. /\ \A i, j \in 1 .. Len(B) : i # j => B[i] # B[j]
      /\ \A i \in 1 .. Len(B) : B[i] \in Multiples
      /\ \A i \in 1 .. Len(B) : \E s \in slices : Within(B[i], MAXIMAL_BLOCK_SIZE, s)
  BY <1>4 DEF PlacesInv, PlacedIn, ListOwned, Places
<1> HIDE DEF n, C, B, D
<1>7. /\ D \in Seq(Multiples) /\ Len(D) = n + Len(B) /\ Len(B) \in Nat
      /\ \A i \in 1 .. n : D[i] = C[i]
      /\ \A i \in 1 .. Len(D) : i > n => D[i] = B[i - n] /\ i - n \in 1 .. Len(B)
  <2>1. D \in Seq(Multiples) /\ Len(D) = Len(C) + Len(B) /\ Len(B) \in Nat
    BY <1>2, <1>4, <1>5
  <2>2. \A i \in 1 .. Len(D) : D[i] = IF i <= Len(C) THEN C[i] ELSE B[i - Len(C)]
    BY <1>2, <1>4, <1>5
  <2>3. n \in Nat /\ Len(C) = n
    BY <1>1
  <2>4. ASSUME NEW i \in 1 .. n PROVE D[i] = C[i]
    BY <2>1, <2>2, <2>3
  <2>5. ASSUME NEW i \in 1 .. Len(D), i > n PROVE D[i] = B[i - n] /\ i - n \in 1 .. Len(B)
    BY <2>1, <2>2, <2>3, <2>5
  <2>6. QED
    BY <2>1, <2>3, <2>4, <2>5
<1>8. \A i \in 1 .. n : Within(C[i], MAXIMAL_BLOCK_SIZE, u) /\ C[i] \in Multiples
  BY <1>1, <1>2 DEF Within
<1>9. ASSUME NEW x \in Nat, NEW m \in Nat \ {0}, NEW s \in slices, Within(x, m, s),
             NEW i \in 1 .. n
      PROVE  ClearOf(x, m, C[i], MAXIMAL_BLOCK_SIZE)
  <2>1. C[i] \in Nat /\ MAXIMAL_BLOCK_SIZE \in Nat \ {0}
    BY <1>8, LargestBlock DEF Multiples
  <2>2. s \in sl /\ u \in sl /\ s # u
    OBVIOUS
  <2>3. QED
    BY <1>8, <1>9, <2>1, <2>2, SlicesClear
<1>10. ListOwned(Stocked(c), sl)
  <2>1. Stocked(c) \in [Keys -> Seq(Multiples)]
    <3>1. C \o B \in Seq(Multiples)
      BY <1>2, <1>4
    <3>2. QED
      BY <1>3, <1>4, <3>1 DEF Stocked, B, C, Blocks
  <2>2. \A k \in Keys : k # NUM_BLOCK_SIZES => Stocked(c)[k] = << >>
    BY <1>4 DEF PlacesInv, PlacedIn, ListOwned, Stocked
  <2>3. \A i \in 1 .. Len(B), j \in 1 .. n : B[i] # C[j]
    <3> SUFFICES ASSUME NEW i \in 1 .. Len(B), NEW j \in 1 .. n PROVE B[i] # C[j]
      OBVIOUS
    <3>1. PICK s \in slices : Within(B[i], MAXIMAL_BLOCK_SIZE, s)
      BY <1>6
    <3>2. B[i] \in Nat /\ MAXIMAL_BLOCK_SIZE \in Nat \ {0}
      BY <1>6, LargestBlock DEF Multiples
    <3>3. ClearOf(B[i], MAXIMAL_BLOCK_SIZE, C[j], MAXIMAL_BLOCK_SIZE)
      BY <1>9, <3>1, <3>2
    <3>4. QED
      BY <3>2, <3>3, LargestBlock DEF ClearOf
  <2>4. ASSUME NEW i \in 1 .. Len(D), NEW j \in 1 .. Len(D), i # j
        PROVE  D[i] # D[j]
    <3>1. i \in 1 .. n \/ i > n
      BY <1>1
    <3>2. j \in 1 .. n \/ j > n
      BY <1>1
    <3>3. CASE i \in 1 .. n /\ j \in 1 .. n
      BY <1>1, <1>7, <2>4, <3>3
    <3>4. CASE i \in 1 .. n /\ j > n
      BY <1>7, <2>3, <3>4
    <3>5. CASE i > n /\ j \in 1 .. n
      BY <1>7, <2>3, <3>5
    <3>6. CASE i > n /\ j > n
      <4>1. /\ D[i] = B[i - n] /\ i - n \in 1 .. Len(B)
            /\ D[j] = B[j - n] /\ j - n \in 1 .. Len(B)
        BY <1>7, <3>6
      <4>2. i - n # j - n
        BY <1>1, <2>4
      <4>3. QED
        BY <1>6, <4>1, <4>2
    <3>7. QED
      BY <3>1, <3>2, <3>3, <3>4, <3>5, <3>6
  <2>5. ASSUME NEW i \in 1 .. Len(D)
        PROVE  \E s \in sl : Within(D[i], MAXIMAL_BLOCK_SIZE, s)
    <3>1. i \in 1 .. n \/ i > n
      BY <1>1
    <3>2. QED
      BY <1>6, <1>7, <1>8, <3>1
  <2>6. QED
    BY <2>1, <2>2, <2>4, <2>5 DEF ListOwned, Places, D
<1>11. FreeApart(Stocked(c), issued)
  <2> SUFFICES ASSUME NEW a \in issued, NEW i \in 1 .. Len(D), a.block > 0
               PROVE  ClearOf(a.address, a.block, D[i], MAXIMAL_BLOCK_SIZE)
    BY DEF FreeApart, Places, D
  <2>1. CASE i <= n
    <3>1. PICK s \in slices : Within(a.address, a.block, s)
      BY DEF PlacesInv, PlacedIn, IssuedOwned
    <3>2. a.address \in Nat /\ a.block \in Nat \ {0}
      BY DEF PlacesInv, PlacedIn, IssuedOwned
    <3>3. QED
      BY <1>1, <1>7, <1>9, <2>1, <3>1, <3>2
  <2>2. CASE ~(i <= n)
    <3>1. D[i] = B[i - n] /\ i - n \in 1 .. Len(B)
      BY <1>1, <1>7, <2>2
    <3>2. QED
      BY <3>1 DEF PlacesInv, PlacedIn, FreeApart, Places, B
  <2>3. QED
    BY <2>1, <2>2
<1>12. PlacedIn(free_lists, issued, sl)
  BY PlacedInMore DEF PlacesInv
<1>13. D # << >>
  BY <1>1, <1>7
<1>14. QED
  BY <1>10, <1>11, <1>12, <1>13 DEF PlacedIn, D

\* What a layout no block fits is given: the chunks of a slice of its own.
LargeIssue(layout, u) ==
  [address |-> u.range.first * CHUNK_SIZE, len |-> u.chunks * CHUNK_SIZE,
   layout |-> layout, block |-> u.chunks * CHUNK_SIZE]

LEMMA LargePlaces ==
  ASSUME PlacesInv, NEW layout, NEW u, u \notin slices, SlicesApart(slices \cup {u}),
         free_lists' = free_lists, issued' = issued \cup {LargeIssue(layout, u)}
  PROVE  PlacedIn(free_lists', issued', slices \cup {u})
<1> DEFINE sl == slices \cup {u}
           x == u.range.first * CHUNK_SIZE
           m == u.chunks * CHUNK_SIZE
           new == LargeIssue(layout, u)
<1>1. u.range.first \in Nat /\ u.chunks \in Nat /\ CHUNK_SIZE \in Nat
  BY HeapAssumption DEF SlicesApart
<1>2. x \in Nat /\ m \in Nat /\ x + m = (u.range.first + u.chunks) * CHUNK_SIZE
  BY <1>1
<1>3. new.address = x /\ new.len = m /\ new.block = m /\ Within(x, m, u)
  BY <1>2 DEF LargeIssue, Within
<1>4. PlacedIn(free_lists, issued, sl)
  BY PlacedInMore DEF PlacesInv
<1> HIDE DEF x, m, new
<1>5. ASSUME NEW y \in Nat, NEW l \in Nat \ {0}, NEW s \in slices, Within(y, l, s), m > 0
      PROVE  ClearOf(x, m, y, l) /\ ClearOf(y, l, x, m)
  <2>1. s \in sl /\ u \in sl /\ s # u /\ m \in Nat \ {0}
    BY <1>2, <1>5
  <2>2. ClearOf(x, m, y, l)
    BY <1>2, <1>3, <1>5, <2>1, SlicesClear
  <2>3. QED
    BY <1>2, <2>2 DEF ClearOf
<1>6. IssuedOwned(issued', sl)
  BY <1>2, <1>3, <1>4 DEF PlacedIn, IssuedOwned, new
<1>7. IssuedApart(issued')
  <2>1. ASSUME NEW a \in issued, a.block > 0, m > 0
        PROVE  ClearOf(x, m, a.address, a.block) /\ ClearOf(a.address, a.block, x, m)
    <3>1. a.address \in Nat /\ a.block \in Nat \ {0}
      BY <2>1 DEF PlacesInv, PlacedIn, IssuedOwned
    <3>2. PICK s \in slices : Within(a.address, a.block, s)
      BY DEF PlacesInv, PlacedIn, IssuedOwned
    <3>3. QED
      BY <1>5, <2>1, <3>1, <3>2
  <2>2. QED
    BY <1>3, <2>1 DEF PlacesInv, PlacedIn, IssuedApart, new
<1>8. FreeApart(free_lists', issued')
  <2> DEFINE B == Blocks(free_lists)
  <2>1. ASSUME NEW i \in 1 .. Len(B), m > 0
        PROVE  ClearOf(x, m, B[i], MAXIMAL_BLOCK_SIZE)
    <3>1. B \in Seq(Multiples)
      BY DEF PlacesInv, PlacedIn, ListOwned, Keys, NUM_BLOCK_SIZES, Blocks
    <3>2. B[i] \in Nat /\ MAXIMAL_BLOCK_SIZE \in Nat \ {0}
      BY <3>1, LargestBlock DEF Multiples
    <3>3. PICK s \in slices : Within(B[i], MAXIMAL_BLOCK_SIZE, s)
      BY DEF PlacesInv, PlacedIn, ListOwned, Places
    <3>4. QED
      BY <1>5, <2>1, <3>2, <3>3
  <2>2. QED
    BY <1>3, <2>1 DEF PlacesInv, PlacedIn, FreeApart, Places, new
<1>9. QED
  BY <1>4, <1>6, <1>7, <1>8 DEF PlacedIn

\* No block of the provider's chunks is lost: ChunksAccounted, on one list.
AccountedIn(lists, iss, sl) ==
  \A s \in sl : \A c \in SliceFrames(s), i \in 0 .. (CHUNK_SIZE \div MAXIMAL_BLOCK_SIZE - 1) :
    \/ \E j \in Places(lists) : Blocks(lists)[j] = BlockAt(c, i)
    \/ \E a \in iss : a.address <= BlockAt(c, i) /\ BlockAt(c, i) < a.address + a.block

AccountedInv == AccountedIn(free_lists, issued, slices)

LEMMA TakeAccounts ==
  ASSUME NEW lists, NEW sl, PlacedIn(lists, issued, sl), AccountedIn(lists, issued, sl),
         Blocks(lists) # << >>, NEW layout \in Layouts, Fitting(layout) # {},
         Take(lists, NUM_BLOCK_SIZES, layout)
  PROVE  AccountedIn(free_lists', issued', sl)
<1> DEFINE k == NUM_BLOCK_SIZES
           B == Blocks(lists)
           new == [address |-> Head(lists[k]), len |-> layout.size,
                   layout |-> layout, block |-> MAXIMAL_BLOCK_SIZE]
<1>1. k \in Keys
  BY DEF Keys, NUM_BLOCK_SIZES
<1>2. lists \in [Keys -> Seq(Multiples)] /\ lists[k] = B
  BY DEF PlacedIn, ListOwned, Blocks
<1>3. free_lists' = [lists EXCEPT ![k] = Tail(@)] /\ issued' = issued \cup {new}
  BY <1>1, <1>2, TakeIssues
<1>4. new.address = Head(B) /\ new.block = 256
  BY <1>2, LargestBlock
<1>5. Blocks(free_lists') = Tail(B)
  BY <1>1, <1>2, <1>3 DEF Blocks
<1>6. B \in Seq(Multiples) /\ B # << >>
  BY <1>1, <1>2
<1> HIDE DEF B, new, k
<1>7. /\ Len(Tail(B)) = Len(B) - 1 /\ Len(B) \in Nat \ {0}
      /\ \A i \in 1 .. (Len(B) - 1) : Tail(B)[i] = B[i + 1]
      /\ Head(B) = B[1] /\ B[1] \in Multiples
  BY <1>6
<1> SUFFICES ASSUME NEW s \in sl, NEW c \in SliceFrames(s),
                    NEW i \in 0 .. (CHUNK_SIZE \div MAXIMAL_BLOCK_SIZE - 1)
             PROVE  \/ \E j \in 1 .. Len(Tail(B)) : Tail(B)[j] = BlockAt(c, i)
                    \/ \E a \in issued' : /\ a.address <= BlockAt(c, i)
                                          /\ BlockAt(c, i) < a.address + a.block
  BY <1>5 DEF AccountedIn, Places
<1>8. CASE \E a \in issued : a.address <= BlockAt(c, i) /\ BlockAt(c, i) < a.address + a.block
  BY <1>3, <1>8
<1>9. CASE \E j \in 1 .. Len(B) : B[j] = BlockAt(c, i)
  <2>1. PICK j \in 1 .. Len(B) : B[j] = BlockAt(c, i)
    BY <1>9
  <2>2. CASE j = 1
    <3>1. new.address = BlockAt(c, i) /\ new.block = 256 /\ new.address \in Nat
      BY <1>4, <1>7, <2>1, <2>2, LargestBlock DEF Multiples
    <3>2. new.address <= BlockAt(c, i) /\ BlockAt(c, i) < new.address + new.block
      BY <3>1
    <3>3. QED
      BY <1>3, <3>2
  <2>3. CASE j # 1
    <3>1. j - 1 \in 1 .. Len(Tail(B)) /\ Tail(B)[j - 1] = B[j]
      BY <1>7, <2>3
    <3>2. QED
      BY <2>1, <3>1
  <2>4. QED
    BY <2>2, <2>3
<1>10. QED
  BY <1>8, <1>9 DEF AccountedIn, Places, B

LEMMA StockAccounts ==
  ASSUME PlacesInv, AccountedInv, NEW c \in Nat, NEW u, u.range.first = c, u.chunks = 1
  PROVE  AccountedIn(Stocked(c), issued, slices \cup {u})
<1> DEFINE n == CHUNK_SIZE \div MAXIMAL_BLOCK_SIZE
           C == BlocksOf(c)
           B == Blocks(free_lists)
           D == Blocks(Stocked(c))
<1>1. /\ n \in Nat \ {0} /\ Len(C) = n
      /\ \A i \in 1 .. n : C[i] = BlockAt(c, n - i)
  BY ChunkIsCut
<1>2. C \in Seq(Multiples)
  BY ChunkIsMultiples
<1>3. NUM_BLOCK_SIZES \in Keys
  BY DEF Keys, NUM_BLOCK_SIZES
<1>4. free_lists \in [Keys -> Seq(Multiples)] /\ B \in Seq(Multiples)
  BY <1>3 DEF PlacesInv, PlacedIn, ListOwned, Blocks
<1>5. D = C \o B
  BY <1>3, <1>4 DEF Stocked, Blocks
<1>6. SliceFrames(u) = {c}
  BY DEF SliceFrames
<1> HIDE DEF C, B, D
<1>7. /\ Len(D) = Len(C) + Len(B) /\ Len(C) \in Nat /\ Len(B) \in Nat
      /\ \A i \in 1 .. Len(D) : D[i] = IF i <= Len(C) THEN C[i] ELSE B[i - Len(C)]
  BY <1>2, <1>4, <1>5
<1> SUFFICES ASSUME NEW s \in slices \cup {u}, NEW f \in SliceFrames(s), NEW i \in 0 .. (n - 1)
             PROVE  \/ \E j \in 1 .. Len(D) : D[j] = BlockAt(f, i)
                    \/ \E a \in issued : /\ a.address <= BlockAt(f, i)
                                         /\ BlockAt(f, i) < a.address + a.block
  BY DEF AccountedIn, Places, D
<1> HIDE DEF n
<1>8. CASE s = u
  <2>1. f = c /\ n - i \in 1 .. n /\ n - (n - i) = i
    BY <1>1, <1>6, <1>8
  <2>2. n - i \in 1 .. Len(D) /\ D[n - i] = C[n - i]
    BY <1>1, <1>7, <2>1
  <2>3. D[n - i] = BlockAt(f, i)
    BY <1>1, <2>1, <2>2
  <2>4. QED
    BY <2>2, <2>3
<1>9. CASE s \in slices
  <2>1. \/ \E j \in 1 .. Len(B) : B[j] = BlockAt(f, i)
        \/ \E a \in issued : a.address <= BlockAt(f, i) /\ BlockAt(f, i) < a.address + a.block
    BY <1>9 DEF AccountedInv, AccountedIn, Places, B, n
  <2>2. ASSUME NEW j \in 1 .. Len(B)
        PROVE  n + j \in 1 .. Len(D) /\ D[n + j] = B[j]
    <3>1. n + j \in 1 .. Len(D) /\ ~(n + j <= Len(C)) /\ (n + j) - Len(C) = j
      BY <1>1, <1>7
    <3>2. QED
      BY <1>7, <3>1
  <2>3. QED
    BY <2>1, <2>2
<1>10. QED
  BY <1>8, <1>9

LEMMA LargeAccounts ==
  ASSUME AccountedInv, NEW layout, NEW u, SlicesApart(slices \cup {u}),
         free_lists' = free_lists, issued' = issued \cup {LargeIssue(layout, u)}
  PROVE  AccountedIn(free_lists', issued', slices \cup {u})
<1> DEFINE n == CHUNK_SIZE \div MAXIMAL_BLOCK_SIZE
           new == LargeIssue(layout, u)
<1>1. u.range.first \in Nat /\ u.chunks \in Nat /\ CHUNK_SIZE \in Nat
  BY HeapAssumption DEF SlicesApart
<1>2. n \in Nat /\ CHUNK_SIZE = 256 * n
  BY LargestBlock, HeapAssumption
<1>3. new.address = u.range.first * CHUNK_SIZE /\ new.block = u.chunks * CHUNK_SIZE
  BY DEF LargeIssue
<1>4. ASSUME NEW c \in SliceFrames(u), NEW i \in 0 .. (n - 1)
      PROVE  new.address <= BlockAt(c, i) /\ BlockAt(c, i) < new.address + new.block
  <2>1. c \in Nat /\ u.range.first <= c /\ c + 1 <= u.range.first + u.chunks
    BY <1>1 DEF SliceFrames
  <2>2. u.range.first * CHUNK_SIZE <= c * CHUNK_SIZE
    BY <1>1, <2>1, ProductGrows
  <2>3. (c + 1) * CHUNK_SIZE <= (u.range.first + u.chunks) * CHUNK_SIZE
    <3>1. c + 1 \in Nat /\ u.range.first + u.chunks \in Nat
      BY <1>1, <2>1
    <3>2. QED
      BY <2>1, <3>1, ProductGrows
  <2>4. (u.range.first + u.chunks) * CHUNK_SIZE = u.range.first * CHUNK_SIZE + u.chunks * CHUNK_SIZE
    BY <1>1
  <2>5. (c + 1) * CHUNK_SIZE = c * CHUNK_SIZE + CHUNK_SIZE
    BY <1>1, <2>1
  <2> HIDE DEF n
  <2>6. BlockAt(c, i) = c * CHUNK_SIZE + 256 * i /\ i >= 0 /\ 256 * i < CHUNK_SIZE
    BY <1>2, LargestBlock DEF BlockAt
  <2>7. /\ c * CHUNK_SIZE \in Nat /\ u.range.first * CHUNK_SIZE \in Nat
        /\ u.chunks * CHUNK_SIZE \in Nat /\ i \in Nat
    BY <1>1, <1>2, <2>1
  <2>8. QED
    BY <1>1, <1>3, <2>2, <2>3, <2>4, <2>5, <2>6, <2>7
<1> HIDE DEF new
<1>5. QED
  BY <1>4 DEF AccountedInv, AccountedIn, new

-----------------------------------------------------------------------------
(***************************************************************************)
(* The theorems on what is allocated.                                      *)
(***************************************************************************)

HeapInv == PlacesInv /\ AccountedInv /\ FitsLayout

LEMMA NewSlice ==
  ASSUME HeapRequests \subseteq ChunkRequests,
         ClientOrders \subseteq Orders, 2 \notin Orders,
         KernelInv, KernelInv', NEW n \in HeapRequests, ProvideChunks(n), panic' = "no"
  PROVE  LET u == [range |-> ret'.range, chunks |-> n]
         IN  /\ slices' = slices \cup {u} /\ u \notin slices
             /\ SlicesApart(slices \cup {u}) /\ ret'.range.first \in Nat
<1> DEFINE u == [range |-> ret'.range, chunks |-> n]
<1>1. slices' = slices \cup {u} /\ (\A s \in slices : s.range # ret'.range)
  BY ProvideIsNew
<1>2. u \notin slices
  BY <1>1
<1>3. SlicesApart(slices')
  BY DEF KernelInv, ClientInv, SlicesApart
<1>4. u.range.first \in Nat
  BY <1>1, <1>3 DEF SlicesApart
<1>5. QED
  BY <1>1, <1>2, <1>3, <1>4

\* A large allocation is large enough, and as aligned as a chunk.
LEMMA LargeFits ==
  ASSUME NEW layout \in Layouts, NEW first \in Nat
  PROVE  /\ ChunksFor(layout.size) * CHUNK_SIZE >= layout.size
         /\ layout.align <= CHUNK_SIZE => (first * CHUNK_SIZE) % layout.align = 0
<1>1. /\ CHUNK_SIZE \in Nat \ {0} /\ layout.size \in Nat /\ layout.align \in Nat \ {0}
      /\ layout.align <= CHUNK_SIZE => CHUNK_SIZE % layout.align = 0
  BY HeapAssumption, LargestBlock
<1>2. ChunksFor(layout.size) * CHUNK_SIZE >= layout.size
  <2> DEFINE x == layout.size + CHUNK_SIZE - 1
             q == x \div CHUNK_SIZE
             r == x % CHUNK_SIZE
  <2>1. x \in Nat
    BY <1>1
  <2> HIDE DEF x
  <2>2. q \in Nat /\ r \in Nat /\ r < CHUNK_SIZE /\ x = CHUNK_SIZE * q + r
    BY <1>1, <2>1
  <2> HIDE DEF q, r
  <2>3. q * CHUNK_SIZE = CHUNK_SIZE * q /\ q * CHUNK_SIZE \in Nat
    BY <1>1, <2>2
  <2>4. q * CHUNK_SIZE >= layout.size
    BY <1>1, <2>2, <2>3 DEF x
  <2>5. QED
    BY <2>4 DEF ChunksFor, q, x
<1>3. ASSUME layout.align <= CHUNK_SIZE
      PROVE  (first * CHUNK_SIZE) % layout.align = 0
  <2> DEFINE a == layout.align
  <2>1. PICK d \in Nat : CHUNK_SIZE = a * d
    BY <1>1, <1>3, MultipleOf
  <2>2. a \in Nat \ {0}
    BY <1>1
  <2> HIDE DEF a
  <2>3. first * CHUNK_SIZE = a * (d * first) /\ d * first \in Nat
    BY <2>1, <2>2
  <2>4. (a * (d * first)) % a = 0
    BY <2>2, <2>3, ModOfMultiple
  <2>5. QED
    BY <2>3, <2>4 DEF a
<1>4. QED
  BY <1>2, <1>3

\* A block popped from a list fits its layout.
LEMMA TakeFits ==
  ASSUME FitsLayout, NEW lists \in [Keys -> Seq(Multiples)], NEW k \in Keys,
         lists[k] # << >>, NEW layout \in Layouts, Fitting(layout) # {},
         Take(lists, k, layout)
  PROVE  FitsLayout'
<1> DEFINE new == [address |-> Head(lists[k]), len |-> layout.size,
                   layout |-> layout, block |-> MAXIMAL_BLOCK_SIZE]
<1>1. issued' = issued \cup {new} /\ Head(lists[k]) % layout.align = 0
  BY TakeIssues
<1>2. new.len >= new.layout.size /\ new.address % new.layout.align = 0
  BY <1>1, HeapAssumption
<1> HIDE DEF new
<1>3. QED
  BY <1>1, <1>2 DEF FitsLayout

LEMMA LargeKeeps ==
  ASSUME HeapRequests \subseteq ChunkRequests,
         ClientOrders \subseteq Orders, 2 \notin Orders,
         KernelInv, KernelInv', HeapInv, NEW layout \in Layouts, LargeAllocation(layout)
  PROVE  HeapInv'
<1> DEFINE n == ChunksFor(layout.size)
           u == [range |-> ret'.range, chunks |-> n]
<1>1. ProvideChunks(n) /\ n \in HeapRequests
  BY DEF LargeAllocation, HeapRequests
<1>2. CASE panic' = "no"
  <2>1. /\ slices' = slices \cup {u} /\ u \notin slices
        /\ SlicesApart(slices \cup {u}) /\ ret'.range.first \in Nat
    BY <1>1, <1>2, NewSlice
  <2>2. free_lists' = free_lists /\ issued' = issued \cup {LargeIssue(layout, u)}
    BY <1>2 DEF LargeAllocation, Issue, LargeIssue
  <2>3. LargeIssue(layout, u) = [address |-> ret'.range.first * CHUNK_SIZE, len |-> n * CHUNK_SIZE,
                                 layout |-> layout, block |-> n * CHUNK_SIZE]
    BY DEF LargeIssue
  <2>4. /\ n * CHUNK_SIZE >= layout.size
        /\ layout.align <= CHUNK_SIZE => (ret'.range.first * CHUNK_SIZE) % layout.align = 0
    BY <2>1, LargeFits
  <2>5. FitsLayout'
    BY <2>2, <2>3, <2>4 DEF HeapInv, FitsLayout
  <2> HIDE DEF u
  <2>6. PlacesInv'
    BY <2>1, <2>2, LargePlaces DEF HeapInv, PlacesInv
  <2>7. AccountedInv'
    BY <2>1, <2>2, LargeAccounts DEF HeapInv, AccountedInv
  <2>8. QED
    BY <2>5, <2>6, <2>7 DEF HeapInv
<1>3. CASE panic' # "no"
  <2>1. UNCHANGED <<free_lists, issued, slices>>
    BY <1>1, <1>3 DEF LargeAllocation, ProvideChunks, UnwrapPanics, clients
  <2>2. QED
    BY <2>1 DEF HeapInv, PlacesInv, AccountedInv, FitsLayout
<1>4. QED
  BY <1>2, <1>3

LEMMA SmallKeeps ==
  ASSUME HeapInv, NEW layout \in Layouts, SmallAllocation(layout)
  PROVE  HeapInv'
<1>1. Fitting(layout) # {} /\ NonEmpty(layout) # {} /\ slices' = slices
  BY DEF SmallAllocation, clients
<1>2. Least(Fitting(layout)) \in Keys
  BY <1>1, LeastIsMember DEF Fitting
<1>3. NonEmpty(layout) \subseteq Keys
  BY <1>2 DEF NonEmpty, Keys
<1> DEFINE k == Least(NonEmpty(layout))
<1>4. k \in Keys /\ free_lists[k] # << >>
  BY <1>1, <1>3, LeastIsMember DEF NonEmpty
<1>5. Take(free_lists, k, layout)
  BY DEF SmallAllocation
<1> HIDE DEF k
<1>6. free_lists \in [Keys -> Seq(Multiples)]
  BY DEF HeapInv, PlacesInv, PlacedIn, ListOwned
<1>7. k = NUM_BLOCK_SIZES /\ Blocks(free_lists) # << >>
  BY <1>4 DEF HeapInv, PlacesInv, PlacedIn, ListOwned, Blocks
<1>8. FitsLayout'
  BY <1>1, <1>4, <1>5, <1>6, TakeFits DEF HeapInv
<1>9. PlacedIn(free_lists', issued', slices)
  BY <1>1, <1>5, <1>7, TakePlaces DEF HeapInv, PlacesInv
<1>10. AccountedIn(free_lists', issued', slices)
  BY <1>1, <1>5, <1>7, TakeAccounts DEF HeapInv, PlacesInv, AccountedInv
<1>11. QED
  BY <1>1, <1>8, <1>9, <1>10 DEF HeapInv, PlacesInv, AccountedInv

LEMMA FetchKeeps ==
  ASSUME HeapRequests \subseteq ChunkRequests,
         ClientOrders \subseteq Orders, 2 \notin Orders,
         KernelInv, KernelInv', HeapInv, NEW layout \in Layouts, FetchAndAllocate(layout)
  PROVE  HeapInv'
<1> DEFINE c == ret'.range.first
           u == [range |-> ret'.range, chunks |-> 1]
<1>1. ProvideChunks(1) /\ 1 \in HeapRequests /\ Fitting(layout) # {}
  BY DEF FetchAndAllocate, HeapRequests
<1>2. CASE panic' = "no"
  <2>1. /\ slices' = slices \cup {u} /\ u \notin slices
        /\ SlicesApart(slices \cup {u}) /\ c \in Nat
    BY <1>1, <1>2, NewSlice
  <2>2. Take(Stocked(c), NUM_BLOCK_SIZES, layout)
    BY <1>2 DEF FetchAndAllocate, Stocked
  <2>3. u.range.first = c /\ u.chunks = 1
    OBVIOUS
  <2> HIDE DEF c, u
  <2>4. PlacedIn(Stocked(c), issued, slices') /\ Blocks(Stocked(c)) # << >>
    BY <2>1, <2>3, StockPlaces DEF HeapInv
  <2>5. AccountedIn(Stocked(c), issued, slices')
    BY <2>1, <2>3, StockAccounts DEF HeapInv
  <2>6. PlacedIn(free_lists', issued', slices')
    BY <1>1, <2>2, <2>4, TakePlaces
  <2>7. AccountedIn(free_lists', issued', slices')
    BY <1>1, <2>2, <2>4, <2>5, TakeAccounts
  <2>8. FitsLayout'
    <3>1. /\ Stocked(c) \in [Keys -> Seq(Multiples)]
          /\ NUM_BLOCK_SIZES \in Keys /\ Stocked(c)[NUM_BLOCK_SIZES] # << >>
      BY <2>4 DEF PlacedIn, ListOwned, Blocks, Keys, NUM_BLOCK_SIZES
    <3>2. QED
      BY <1>1, <2>2, <3>1, TakeFits DEF HeapInv
  <2>9. QED
    BY <2>6, <2>7, <2>8 DEF HeapInv, PlacesInv, AccountedInv
<1>3. CASE panic' # "no"
  <2>1. UNCHANGED <<free_lists, issued, slices>>
    BY <1>1, <1>3 DEF FetchAndAllocate, heapVars, ProvideChunks, UnwrapPanics, clients
  <2>2. QED
    BY <2>1 DEF HeapInv, PlacesInv, AccountedInv, FitsLayout
<1>4. QED
  BY <1>2, <1>3

LEMMA HeapInvariant ==
  ASSUME HeapRequests \subseteq ChunkRequests,
         ClientOrders \subseteq Orders, 2 \notin Orders
  PROVE  HeapSpec => [](HeapInv /\ KernelInv)
<1>1. HeapInit => HeapInv
  <2> SUFFICES ASSUME HeapInit PROVE HeapInv
    OBVIOUS
  <2>1. free_lists = [k \in Keys |-> << >>] /\ issued = {} /\ slices = {}
    BY DEF HeapInit, KernelInit
  <2>2. NUM_BLOCK_SIZES \in Keys
    BY DEF Keys, NUM_BLOCK_SIZES
  <2>3. Blocks(free_lists) = << >> /\ Places(free_lists) = {}
    BY <2>1, <2>2 DEF Blocks, Places
  <2>4. ListOwned(free_lists, slices)
    BY <2>1, <2>3 DEF ListOwned
  <2>5. QED
    BY <2>1, <2>3, <2>4 DEF HeapInv, PlacesInv, PlacedIn, IssuedOwned, IssuedApart, FreeApart,
       AccountedInv, AccountedIn, FitsLayout
<1>2. HeapInv /\ KernelInv /\ KernelInv' /\ [HeapNext]_<<vars, clients, heapVars>> => HeapInv'
  <2> SUFFICES ASSUME HeapInv, KernelInv, KernelInv', [HeapNext]_<<vars, clients, heapVars>>
               PROVE  HeapInv'
    OBVIOUS
  <2>1. CASE UNCHANGED heapVars /\ UNCHANGED slices
    BY <2>1 DEF heapVars, HeapInv, PlacesInv, AccountedInv, FitsLayout
  <2>2. ASSUME NEW layout \in Layouts, Allocate(layout)
        PROVE  HeapInv'
    BY <2>2, LargeKeeps, SmallKeeps, FetchKeeps DEF Allocate
  <2>3. CASE CreateTask /\ UNCHANGED heapVars
    BY <2>1, <2>3 DEF CreateTask, UnwrapPanics, clients
  <2>4. CASE (\E r \in tasks : DropTask(r)) /\ UNCHANGED heapVars
    BY <2>1, <2>4 DEF DropTask
  <2>5. QED
    BY <2>1, <2>2, <2>3, <2>4 DEF HeapNext, HeapHalted, clients
<1>3. HeapSpec => []KernelInv
  BY HeapIsClient, InvariantHolds, PTL
<1>4. QED
  BY <1>1, <1>2, <1>3, PTL DEF HeapSpec

\* However small and large allocations, chunk fetches and the creation and end
\* of tasks interleave, no two allocations share a byte, none shares one with a
\* free block, whose header allocate_small still reads, and none reaches into
\* the frames of a task.
THEOREM AllocationsNeverMeet ==
  ASSUME HeapRequests \subseteq ChunkRequests,
         ClientOrders \subseteq Orders, 2 \notin Orders
  PROVE  HeapSpec => []AllocationsDisjoint
<1>1. HeapInv /\ KernelInv => AllocationsDisjoint
  <2> SUFFICES ASSUME HeapInv, KernelInv PROVE AllocationsDisjoint
    OBVIOUS
  <2>1. \A a \in issued : /\ a.address \in Nat /\ a.len \in Nat /\ a.block \in Nat
                          /\ a.len <= a.block
    BY DEF HeapInv, PlacesInv, PlacedIn, IssuedOwned
  <2>2. \A a, b \in issued :
          a # b /\ a.len > 0 /\ b.len > 0 => ClearOf(a.address, a.len, b.address, b.len)
    <3> SUFFICES ASSUME NEW a \in issued, NEW b \in issued, a # b, a.len > 0, b.len > 0
                 PROVE  ClearOf(a.address, a.len, b.address, b.len)
      OBVIOUS
    <3>1. ClearOf(a.address, a.block, b.address, b.block)
      BY <2>1 DEF HeapInv, PlacesInv, PlacedIn, IssuedApart
    <3>2. QED
      BY <2>1, <3>1 DEF ClearOf
  <2>3. \A a \in issued, f \in FreeBlocks :
          a.len > 0 => ClearOf(a.address, a.len, f, MAXIMAL_BLOCK_SIZE)
    <3> SUFFICES ASSUME NEW a \in issued, NEW f \in FreeBlocks, a.len > 0
                 PROVE  ClearOf(a.address, a.len, f, MAXIMAL_BLOCK_SIZE)
      OBVIOUS
    <3>0. PICK k \in Keys : f \in {free_lists[k][i] : i \in 1 .. Len(free_lists[k])}
      BY DEF FreeBlocks
    <3>1. PICK i \in 1 .. Len(free_lists[k]) : f = free_lists[k][i]
      BY <3>0
    <3>2. free_lists[k] \in Seq(Multiples) /\ f \in Multiples /\ free_lists[k] # << >>
      BY <3>1 DEF HeapInv, PlacesInv, PlacedIn, ListOwned
    <3>3. k = NUM_BLOCK_SIZES
      BY <3>2 DEF HeapInv, PlacesInv, PlacedIn, ListOwned
    <3>4. ClearOf(a.address, a.block, f, MAXIMAL_BLOCK_SIZE)
      <4>1. FreeApart(free_lists, issued)
        BY DEF HeapInv, PlacesInv, PlacedIn
      <4>2. i \in Places(free_lists) /\ f = Blocks(free_lists)[i]
        BY <3>1, <3>3 DEF Places, Blocks
      <4>3. a.block > 0
        BY <2>1
      <4>4. QED
        BY <4>1, <4>2, <4>3 DEF FreeApart
    <3>5. f \in Nat
      BY <3>2, LargestBlock DEF Multiples
    <3>6. QED
      BY <2>1, <3>4, <3>5, LargestBlock DEF ClearOf
  <2>4. ASSUME NEW a \in issued, NEW r \in tasks, a.len > 0, NEW f \in FramesOf(r)
        PROVE  ClearOf(a.address, a.len, f * CHUNK_SIZE, CHUNK_SIZE)
    <3>1. PICK s \in slices : Within(a.address, a.block, s)
      BY DEF HeapInv, PlacesInv, PlacedIn, IssuedOwned
    <3>2. /\ s.chunks \in Nat /\ s.range.first \in Nat
          /\ s.range.count \in Nat /\ s.chunks <= s.range.count
          /\ r.first \in Nat /\ r.count = 2
          /\ FramesOf(s.range) \cap FramesOf(r) = {}
      BY DEF KernelInv, ClientInv, Apart
    <3>3. f \in Nat /\ f \notin FramesOf(s.range)
      BY <3>2 DEF FramesOf
    <3>4. f + 1 <= s.range.first \/ s.range.first + s.chunks <= f
      BY <3>2, <3>3 DEF FramesOf
    <3>5. /\ s.range.first * CHUNK_SIZE <= a.address
          /\ a.address + a.block <= (s.range.first + s.chunks) * CHUNK_SIZE
      BY <3>1 DEF Within
    <3>6. CASE f + 1 <= s.range.first
      <4>1. (f + 1) * CHUNK_SIZE <= s.range.first * CHUNK_SIZE
        <5>1. f + 1 \in Nat
          BY <3>3
        <5>2. QED
          BY <3>2, <3>6, <5>1, ProductGrows
      <4>2. (f + 1) * CHUNK_SIZE = f * CHUNK_SIZE + CHUNK_SIZE
        BY <3>3, HeapAssumption
      <4>3. f * CHUNK_SIZE \in Nat /\ CHUNK_SIZE \in Nat /\ s.range.first * CHUNK_SIZE \in Nat
        BY <3>2, <3>3, HeapAssumption
      <4>4. QED
        BY <2>1, <3>5, <4>1, <4>2, <4>3 DEF ClearOf
    <3>7. CASE s.range.first + s.chunks <= f
      <4>1. (s.range.first + s.chunks) * CHUNK_SIZE <= f * CHUNK_SIZE
        <5>1. s.range.first + s.chunks \in Nat
          BY <3>2
        <5>2. QED
          BY <3>3, <3>7, <5>1, ProductGrows
      <4>2. /\ f * CHUNK_SIZE \in Nat
            /\ (s.range.first + s.chunks) * CHUNK_SIZE \in Nat
        BY <3>2, <3>3, HeapAssumption
      <4>3. QED
        BY <2>1, <3>5, <4>1, <4>2 DEF ClearOf
    <3>8. QED
      BY <3>4, <3>6, <3>7
  <2>5. QED
    BY <2>2, <2>3, <2>4 DEF AllocationsDisjoint
<1>2. QED
  BY <1>1, HeapInvariant, PTL

\* Every allocation has the size its layout asks for and, up to the alignment of
\* a chunk, its alignment: the whole chunks of allocate_large as well as the
\* blocks of allocate_small.
THEOREM LayoutsAreMet ==
  ASSUME HeapRequests \subseteq ChunkRequests,
         ClientOrders \subseteq Orders, 2 \notin Orders
  PROVE  HeapSpec => []FitsLayout
<1>1. HeapInv => FitsLayout
  BY DEF HeapInv
<1>2. QED
  BY <1>1, HeapInvariant, PTL

\* Every block of every chunk the provider handed over is on a free list or in
\* an allocation: fetch_chunk cuts off no block too few and no pop drops one.
THEOREM NoBlockLost ==
  ASSUME HeapRequests \subseteq ChunkRequests,
         ClientOrders \subseteq Orders, 2 \notin Orders
  PROVE  HeapSpec => []ChunksAccounted
<1>1. HeapInv => ChunksAccounted
  <2> SUFFICES ASSUME HeapInv, NEW s \in slices, NEW c \in SliceFrames(s),
                      NEW i \in 0 .. (CHUNK_SIZE \div MAXIMAL_BLOCK_SIZE - 1)
               PROVE  \/ BlockAt(c, i) \in FreeBlocks
                      \/ \E a \in issued : /\ a.address <= BlockAt(c, i)
                                           /\ BlockAt(c, i) < a.address + a.block
    BY DEF ChunksAccounted
  <2>1. ASSUME NEW j \in Places(free_lists)
        PROVE  Blocks(free_lists)[j] \in FreeBlocks
    BY DEF FreeBlocks, Places, Blocks, Keys, NUM_BLOCK_SIZES
  <2>2. QED
    BY <2>1 DEF HeapInv, AccountedInv, AccountedIn
<1>2. QED
  BY <1>1, HeapInvariant, PTL
=============================================================================
