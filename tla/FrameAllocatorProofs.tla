------------------------ MODULE FrameAllocatorProofs ------------------------
(***************************************************************************)
(* Proofs about the frame allocator and its clients, for every bitmap      *)
(* length, every set of requested orders, every initial bitmap and every   *)
(* mix of tasks and requests for chunks: first FrameAllocator, then        *)
(* KernelMemory.  What is shown of one call on the allocator serves both:  *)
(* the calls the clients make are among the calls it speaks of.            *)
(***************************************************************************)
EXTENDS KernelMemory, TLAPS

-----------------------------------------------------------------------------
(***************************************************************************)
(* Sizes: what 1 << order is for the orders allocate_range accepts.        *)
(***************************************************************************)

\* For order >= 3 the size is a positive multiple of eight, ByteLen(order)
\* bytes of the bitmap.
LEMMA LargeSize ==
  ASSUME NEW order \in 3 .. MaxOrder
  PROVE  /\ 2^order \in Nat
         /\ ByteLen(order) \in Nat \ {0}
         /\ 2^order = 8 * ByteLen(order)
<1> DEFINE P(s) == s \in Nat /\ s \div 8 \in Nat \ {0} /\ s = 8 * (s \div 8)
<1>1. /\ P(2^3) /\ P(2^4) /\ P(2^5) /\ P(2^6) /\ P(2^7) /\ P(2^8)
      /\ P(2^9) /\ P(2^10) /\ P(2^11) /\ P(2^12) /\ P(2^13) /\ P(2^14)
      /\ P(2^15) /\ P(2^16) /\ P(2^17) /\ P(2^18) /\ P(2^19)
      /\ P(2^20) /\ P(2^21) /\ P(2^22) /\ P(2^23) /\ P(2^24)
  BY SMT
<1>2. order \in {3, 4, 5, 6, 7, 8, 9, 10, 11, 12, 13, 14, 15, 16, 17, 18, 19,
                 20, 21, 22, 23, 24}
  BY SMT DEF MaxOrder
<1> HIDE DEF P
<1>3. P(2^order)
  BY <1>1, <1>2, Zenon
<1>4. QED
  BY <1>3 DEF P, ByteLen

\* The three sizes below eight.
LEMMA SmallSize ==
  /\ 2^0 = 1
  /\ 2^1 = 2
  /\ 2^2 = 4
BY SMT

\* AllocateSmall serves the orders 0, 1 and 2, AllocateLarge the others.
LEMMA OrderOfSize ==
  ASSUME NEW order \in Nat, order <= MaxOrder
  PROVE  /\ 2^order < 8 => order \in {0, 1, 2}
         /\ 2^order >= 8 => order \in 3 .. MaxOrder
<1>1. order \in {0, 1, 2} \/ order \in 3 .. MaxOrder
  BY SMT DEF MaxOrder
<1>2. CASE order \in 3 .. MaxOrder
  BY <1>2, LargeSize
<1>3. CASE order \in {0, 1, 2}
  <2>1. 2^order \in {1, 2, 4}
    BY <1>3, SmallSize, Zenon
  <2>2. QED
    BY <1>3, <2>1
<1>4. QED
  BY <1>1, <1>2, <1>3

LEMMA SizePositive ==
  ASSUME NEW order \in Nat, order <= MaxOrder
  PROVE  2^order \in Nat \ {0}
<1>1. order \in {0, 1, 2} \/ order \in 3 .. MaxOrder
  BY SMT DEF MaxOrder
<1>2. CASE order \in 3 .. MaxOrder
  BY <1>2, LargeSize
<1>3. CASE order \in {0, 1, 2}
  <2>1. 2^order \in {1, 2, 4}
    BY <1>3, SmallSize, Zenon
  <2>2. QED
    BY <2>1
<1>4. QED
  BY <1>1, <1>2, <1>3

\* Division with remainder, for the alignment of blocks.
LEMMA MultipleOf ==
  ASSUME NEW n \in Nat \ {0}, NEW f \in Nat, f % n = 0
  PROVE  \E k \in Nat : f = n * k
<1>1. f \div n \in Nat
  BY SMT
<1>2. f = n * (f \div n) + (f % n)
  BY SMT
<1>3. QED
  BY <1>1, <1>2, SMT

LEMMA ModOfMultiple ==
  ASSUME NEW n \in Nat \ {0}, NEW k \in Nat
  PROVE  (n * k) % n = 0
BY SMT

-----------------------------------------------------------------------------
(***************************************************************************)
(* Blocks: what the two searches of allocate_range find.                   *)
(***************************************************************************)

\* A group find_bit_group reports lies within the bitmap, even when its mask
\* tests fewer bits than the group has.
LEMMA GroupInBounds ==
  ASSUME TypeOK, NEW order \in {0, 1, 2}, NEW f \in Groups(order)
  PROVE  /\ f \in Frames
         /\ f .. (f + 2^order - 1) \subseteq Frames
<1>1. 2^order \in {1, 2, 4}
  BY SmallSize, Zenon
<1>2. f \in Frames /\ f % 2^order = 0
  BY DEF Groups
<1>3. f + 2^order - 1 < NumFrames
  <2>1. CASE 2^order = 1
    BY <1>2, <2>1, BitmapAssumption DEF Frames, NumFrames
  <2>2. CASE 2^order = 2
    BY <1>2, <2>2, BitmapAssumption DEF Frames, NumFrames
  <2>3. CASE 2^order = 4
    BY <1>2, <2>3, BitmapAssumption DEF Frames, NumFrames
  <2>4. QED
    BY <1>1, <2>1, <2>2, <2>3
<1>4. QED
  BY <1>1, <1>2, <1>3, BitmapAssumption DEF Frames, NumFrames

\* For one and two frames the mask tests every bit of the group.
LEMMA GroupIsFree ==
  ASSUME NEW order \in {0, 1}, NEW f \in Groups(order)
  PROVE  f .. (f + 2^order - 1) \subseteq bitmap
<1>1. f \in Frames /\ \A b \in 0 .. order : f + b \in bitmap
  BY DEF Groups, GroupMask
<1>2. CASE order = 0
  BY <1>1, <1>2, SmallSize DEF Frames
<1>3. CASE order = 1
  BY <1>1, <1>3, SmallSize DEF Frames
<1>4. QED
  BY <1>2, <1>3

\* A run of ByteLen(order) bytes is the aligned block of 2^order frames that
\* offsets_to_frame computes, and every frame of it is free.
LEMMA RunIsFree ==
  ASSUME NEW order \in 3 .. MaxOrder, NEW i \in ByteRuns(order)
  PROVE  LET run == UNION {Byte(j) : j \in i .. (i + ByteLen(order) - 1)}
             r == RangeOf(8 * i, order)
         IN  /\ run = FramesOf(r)
             /\ run \subseteq bitmap
             /\ FramesOf(r) \subseteq Frames
             /\ 8 * i \in Frames
<1> DEFINE n == ByteLen(order)
           run == UNION {Byte(j) : j \in i .. (i + n - 1)}
<1>1. n \in Nat \ {0} /\ 2^order = 8 * n
  BY LargeSize
<1>2. /\ i \in 0 .. (NumBytes - 1)
      /\ i + n <= NumBytes
      /\ \A j \in i .. (i + n - 1) : Byte(j) \subseteq bitmap
  BY DEF ByteRuns, Starts
<1>3. FramesOf(RangeOf(8 * i, order)) = (8 * i) .. (8 * i + 8 * n - 1)
  BY <1>1 DEF FramesOf, RangeOf
<1> HIDE DEF n
<1>4. run = (8 * i) .. (8 * i + 8 * n - 1)
  <2>1. ASSUME NEW j \in i .. (i + n - 1)
        PROVE  Byte(j) \subseteq (8 * i) .. (8 * i + 8 * n - 1)
    BY <1>1, <1>2, BitmapAssumption DEF Byte
  <2>2. ASSUME NEW f \in (8 * i) .. (8 * i + 8 * n - 1)
        PROVE  f \div 8 \in i .. (i + n - 1) /\ f \in Byte(f \div 8)
    BY <1>1, <1>2, BitmapAssumption DEF Byte
  <2>3. QED
    BY <2>1, <2>2
<1>5. run \subseteq bitmap
  BY <1>2
<1>6. (8 * i) .. (8 * i + 8 * n - 1) \subseteq Frames /\ 8 * i \in Frames
  BY <1>1, <1>2, BitmapAssumption DEF Frames, NumFrames
<1>7. QED
  BY <1>3, <1>4, <1>5, <1>6 DEF n

\* Runs start at multiples of the size.
LEMMA RunIsAligned ==
  ASSUME NEW order \in 3 .. MaxOrder, NEW i \in ByteRuns(order)
  PROVE  (8 * i) % 2^order = 0
<1>1. ByteLen(order) \in Nat \ {0} /\ 2^order = 8 * ByteLen(order)
  BY LargeSize
<1>2. i \in Nat /\ i % ByteLen(order) = 0
  BY DEF ByteRuns, Starts
<1>3. PICK k \in Nat : i = ByteLen(order) * k
  BY <1>1, <1>2, MultipleOf
<1>4. 8 * i = (8 * ByteLen(order)) * k /\ 8 * ByteLen(order) \in Nat \ {0}
  BY <1>1, <1>3
<1>5. ((8 * ByteLen(order)) * k) % (8 * ByteLen(order)) = 0
  BY <1>4, ModOfMultiple
<1>6. QED
  BY <1>1, <1>4, <1>5

\* When find_bit_group reports nothing in any byte, no aligned block of the
\* size is free: its mask never tests a bit outside the block.
LEMMA NoGroupNoBlock ==
  ASSUME TypeOK, NEW order \in {0, 1, 2}, Groups(order) = {}
  PROVE  Contract!FreeBlocks(order) = {}
<1> SUFFICES ASSUME NEW r \in Contract!FreeBlocks(order) PROVE FALSE
  OBVIOUS
<1>1. /\ r.first \in bitmap /\ r.first \in Frames
      /\ r.first % 2^order = 0
      /\ r.first .. (r.first + 2^order - 1) \subseteq bitmap
  BY DEF Contract!FreeBlocks, Contract!FramesOf, TypeOK
<1>2. \A b \in 0 .. order : r.first + b \in bitmap
  <2>1. CASE order = 0
    BY <1>1, <2>1, SmallSize DEF Frames
  <2>2. CASE order = 1
    BY <1>1, <2>2, SmallSize DEF Frames
  <2>3. CASE order = 2
    BY <1>1, <2>3, SmallSize DEF Frames
  <2>4. QED
    BY <2>1, <2>2, <2>3
<1>3. r.first \in Groups(order)
  BY <1>1, <1>2 DEF Groups, GroupMask
<1>4. QED
  BY <1>3

\* When no run of bytes is all ones, no aligned block of the size is free.
LEMMA NoRunNoBlock ==
  ASSUME TypeOK, NEW order \in 3 .. MaxOrder, ByteRuns(order) = {}
  PROVE  Contract!FreeBlocks(order) = {}
<1> SUFFICES ASSUME NEW r \in Contract!FreeBlocks(order) PROVE FALSE
  OBVIOUS
<1> DEFINE f == r.first
           n == ByteLen(order)
<1>1. n \in Nat \ {0} /\ 2^order = 8 * n
  BY LargeSize
<1>2. /\ f \in Frames
      /\ f % (8 * n) = 0
      /\ f .. (f + 8 * n - 1) \subseteq bitmap
      /\ bitmap \subseteq Frames
  BY <1>1 DEF Contract!FreeBlocks, Contract!FramesOf, TypeOK
<1> HIDE DEF f, n
<1>3. PICK k \in Nat : f = (8 * n) * k
  BY <1>1, <1>2, MultipleOf DEF Frames
<1> DEFINE i == n * k
<1>4. i \in Nat /\ f = 8 * i /\ i % n = 0
  BY <1>1, <1>3, ModOfMultiple
<1> HIDE DEF i
<1>5. f + 8 * n - 1 \in Frames
  BY <1>1, <1>2 DEF Frames
<1>6. i \in 0 .. (NumBytes - 1) /\ i + n <= NumBytes
  BY <1>1, <1>4, <1>5, BitmapAssumption DEF Frames, NumFrames
<1>7. ASSUME NEW j \in i .. (i + n - 1)
      PROVE  Byte(j) \subseteq bitmap
  <2>1. Byte(j) \subseteq f .. (f + 8 * n - 1)
    BY <1>1, <1>4 DEF Byte
  <2>2. QED
    BY <1>2, <2>1
<1>8. i \in ByteRuns(order)
  BY <1>4, <1>6, <1>7 DEF ByteRuns, Starts, n
<1>9. QED
  BY <1>8

-----------------------------------------------------------------------------
(***************************************************************************)
(* allocate_range as a whole.                                              *)
(***************************************************************************)

\* The step allocate_range takes when it returns the range r: exactly r's bits
\* are cleared.  The bits that were tested are r's bits, except that the last
\* one of a range of four frames is not.
Hands(order, r) ==
  /\ order <= MaxOrder
  /\ r = RangeOf(r.first, order)
  /\ r.first \in Frames
  /\ r.first % 2^order = 0
  /\ FramesOf(r) \subseteq Frames
  /\ order # 2 => FramesOf(r) \subseteq bitmap
  /\ order = 2 => r.first .. (r.first + 2) \subseteq bitmap
  /\ bitmap' = bitmap \ FramesOf(r)
  /\ held' = held \cup {r}
  /\ ret' = Allocated(order, r)
  /\ UNCHANGED <<reserved, unknown, panic>>

\* The step it takes when it returns None or panics.
GivesUp(order) ==
  /\ UNCHANGED <<bitmap, held, reserved, unknown>>
  /\ \/ ret' = Allocated(order, NoRange) /\ panic' = panic
        /\ Contract!FreeBlocks(order) = {}
     \/ panic' = "order" /\ ret' = ret
     \/ panic' = "unreachable" /\ ret' = ret
        /\ order >= 3 /\ Contract!FreeBlocks(order) = {}

LEMMA AllocationStep ==
  ASSUME TypeOK, NEW order \in Orders, AllocateRange(order)
  PROVE  (\E r : Hands(order, r)) \/ GivesUp(order)
<1>0. order \in Nat
  BY BitmapAssumption
<1>1. CASE order > MaxOrder /\ Panic("order") /\ UNCHANGED bitmap
  BY <1>1 DEF GivesUp, Panic
<1>2. CASE order <= MaxOrder /\ AllocateSmall(order)
  <2>1. order \in {0, 1, 2}
    BY <1>0, <1>2, OrderOfSize DEF AllocateSmall
  <2>2. ASSUME NEW f \in Groups(order),
               Return(order, RangeOf(f, order), f .. (f + 2^order - 1))
        PROVE  Hands(order, RangeOf(f, order))
    <3> DEFINE r == RangeOf(f, order)
    <3>1. r.first = f /\ FramesOf(r) = f .. (f + 2^order - 1)
      BY DEF RangeOf, FramesOf
    <3>2. f \in Frames /\ FramesOf(r) \subseteq Frames
      BY <2>1, <3>1, GroupInBounds
    <3>3. order # 2 => FramesOf(r) \subseteq bitmap
      BY <2>1, <3>1, GroupIsFree
    <3>4. order = 2 => f .. (f + 2) \subseteq bitmap
      <4> SUFFICES ASSUME order = 2 PROVE f .. (f + 2) \subseteq bitmap
        OBVIOUS
      <4>1. \A b \in 0 .. 2 : f + b \in bitmap
        BY DEF Groups, GroupMask
      <4>2. QED
        BY <3>2, <4>1 DEF Frames
    <3>5. f % 2^order = 0
      BY DEF Groups
    <3>6. QED
      BY <1>2, <2>2, <3>1, <3>2, <3>3, <3>4, <3>5 DEF Hands, Return
  <2>3. CASE ReturnNone(order) /\ Contract!FreeBlocks(order) = {}
    BY <2>3 DEF GivesUp, ReturnNone
  <2>4. QED
    BY <1>2, <2>1, <2>2, <2>3, NoGroupNoBlock DEF AllocateSmall
<1>3. CASE order <= MaxOrder /\ AllocateLarge(order)
  <2>1. order \in 3 .. MaxOrder
    BY <1>0, <1>3, OrderOfSize DEF AllocateLarge
  <2>2. ASSUME NEW i \in ByteRuns(order),
               Return(order, RangeOf(8 * i, order),
                      UNION {Byte(j) : j \in i .. (i + ByteLen(order) - 1)})
        PROVE  Hands(order, RangeOf(8 * i, order))
    <3> DEFINE r == RangeOf(8 * i, order)
    <3>1. r.first = 8 * i
      BY DEF RangeOf
    <3>2. (8 * i) % 2^order = 0
      BY <2>1, RunIsAligned
    <3>3. QED
      BY <1>3, <2>1, <2>2, <3>1, <3>2, RunIsFree DEF Hands, Return
  <2>3. CASE ReturnNone(order) /\ Contract!FreeBlocks(order) = {}
    BY <2>3 DEF GivesUp, ReturnNone
  <2>4. CASE /\ Panic("unreachable") /\ UNCHANGED bitmap
             /\ Contract!FreeBlocks(order) = {}
    BY <2>1, <2>4 DEF GivesUp, Panic
  <2>5. QED
    BY <1>3, <2>1, <2>2, <2>3, <2>4, NoRunNoBlock DEF AllocateLarge
<1>4. QED
  BY <1>1, <1>2, <1>3 DEF AllocateRange

-----------------------------------------------------------------------------
(***************************************************************************)
(* Type correctness.                                                       *)
(***************************************************************************)

\* No call on the allocator, in whatever state it is, leaves its bitmap.
LEMMA TypeStep ==
  ASSUME TypeOK, [Next]_vars
  PROVE  TypeOK'
<1>1. ASSUME NEW order \in Orders, AllocateRange(order) PROVE TypeOK'
  <2>1. CASE \E r : Hands(order, r)
    <3>1. PICK r : Hands(order, r)
      BY <2>1
    <3>2. r \in Ranges
      BY <3>1 DEF Hands, RangeOf, Ranges
    <3>3. QED
      BY <3>1, <3>2 DEF Hands, TypeOK
  <2>2. CASE GivesUp(order)
    BY <2>2 DEF GivesUp, TypeOK, Causes
  <2>3. QED
    BY <1>1, <2>1, <2>2, AllocationStep
<1>2. ASSUME NEW r \in held, DeallocateRange(r) PROVE TypeOK'
  <2>1. FramesOf(r) \subseteq Frames
    BY DEF TypeOK
  <2>2. ASSUME NEW f \in FramesOf(r)
        PROVE  r.first .. (f - 1) \subseteq Frames
    <3>1. r.first \in Frames /\ f \in Frames
      BY <2>1 DEF TypeOK, Ranges
    <3>2. QED
      BY <3>1, BitmapAssumption DEF Frames, NumFrames
  <2>3. QED
    BY <1>2, <2>1, <2>2 DEF DeallocateRange, Panic, TypeOK, Causes
<1>3. ASSUME NEW f \in Frames \cup {NumFrames}, Reserve(f) PROVE TypeOK'
  BY <1>3 DEF Reserve, Panic, TypeOK, Causes
<1>4. ASSUME NEW f \in reserved, Unreserve(f) PROVE TypeOK'
  BY <1>4 DEF Unreserve, SetFree, Panic, TypeOK, Causes
<1>5. ASSUME NEW f \in unknown, AddNewFrame(f) PROVE TypeOK'
  BY <1>5 DEF AddNewFrame, SetFree, Panic, TypeOK, Causes
<1>6. CASE Halted
  BY <1>6 DEF Halted, vars, TypeOK
<1>7. CASE UNCHANGED vars
  BY <1>7 DEF vars, TypeOK
<1>8. QED
  BY <1>1, <1>2, <1>3, <1>4, <1>5, <1>6, <1>7 DEF Next

\* Whatever is asked of it, order 2 included, the allocator never sets a bit,
\* hands out a range or records a frame outside its bitmap.
THEOREM TypeCorrect == Spec => []TypeOK
<1>1. Init => TypeOK
  BY BitmapAssumption DEF Init, TypeOK, Causes
<1>2. TypeOK /\ [Next]_vars => TypeOK'
  BY TypeStep
<1>3. QED
  BY <1>1, <1>2, PTL DEF Spec

-----------------------------------------------------------------------------
(***************************************************************************)
(* Ownership of frames.                                                    *)
(***************************************************************************)

\* Accounted holds until a panic leaves a call half done; without requests of
\* order 2 the two panics that do so never happen.
OwnershipInv == Accounted /\ AssertsHold

\* A call preserves ownership in a state where frames are accounted for.
LEMMA OwnershipStep ==
  ASSUME 2 \notin Orders, TypeOK, OwnershipInv, [Next]_vars
  PROVE  OwnershipInv'
<1> USE DEF OwnershipInv, Accounted, ExclusiveAt, CoveredAt, AssertsHold
<1>1. ASSUME NEW order \in Orders, AllocateRange(order) PROVE OwnershipInv'
  <2>1. CASE \E r : Hands(order, r)
    <3>1. PICK r : Hands(order, r)
      BY <2>1
    <3>2. FramesOf(r) \subseteq bitmap
      BY <3>1 DEF Hands
    <3>3. AssertsHold'
      BY <3>1 DEF Hands
    <3>4. ASSUME NEW f \in Frames PROVE ExclusiveAt(f)'
      BY <3>1, <3>2 DEF Hands
    <3>5. ASSUME NEW f \in Frames PROVE CoveredAt(f)'
      BY <3>1, <3>2 DEF Hands
    <3>6. QED
      BY <3>3, <3>4, <3>5
  <2>2. CASE GivesUp(order)
    BY <2>2 DEF GivesUp
  <2>3. QED
    BY <1>1, <2>1, <2>2, AllocationStep
<1>2. ASSUME NEW r \in held, DeallocateRange(r) PROVE OwnershipInv'
  <2>1. FramesOf(r) \subseteq Frames
    BY DEF TypeOK
  <2>2. FramesOf(r) \cap bitmap = {}
    BY <2>1
  <2>3. /\ bitmap' = bitmap \cup FramesOf(r)
        /\ held' = held \ {r}
        /\ UNCHANGED <<reserved, unknown, panic>>
    BY <1>2, <2>2 DEF DeallocateRange
  <2>4. ASSUME NEW f \in Frames PROVE ExclusiveAt(f)'
    BY <2>3
  <2>5. ASSUME NEW f \in Frames PROVE CoveredAt(f)'
    BY <2>3
  <2>6. QED
    BY <2>3, <2>4, <2>5
<1>3. ASSUME NEW f \in Frames \cup {NumFrames}, Reserve(f) PROVE OwnershipInv'
  BY <1>3 DEF Reserve, Panic
<1>4. ASSUME NEW f \in reserved, Unreserve(f) PROVE OwnershipInv'
  <2>1. f \notin bitmap /\ f \in Frames
    BY DEF TypeOK
  <2>2. QED
    BY <1>4, <2>1 DEF Unreserve, SetFree, Panic
<1>5. ASSUME NEW f \in unknown, AddNewFrame(f) PROVE OwnershipInv'
  <2>1. f \notin bitmap /\ f \in Frames
    BY DEF TypeOK
  <2>2. QED
    BY <1>5, <2>1 DEF AddNewFrame, SetFree, Panic
<1>6. CASE Halted
  BY <1>6 DEF Halted, vars
<1>7. CASE UNCHANGED vars
  BY <1>7 DEF vars
<1>8. QED
  BY <1>1, <1>2, <1>3, <1>4, <1>5, <1>6, <1>7 DEF Next

\* As long as nobody asks for four frames at once, every frame of every bitmap
\* has exactly one owner after any sequence of calls, and neither
\* deallocate_impl's nor unreserve_impl's assertion ever fails.
THEOREM FramesAccounted ==
  ASSUME 2 \notin Orders
  PROVE  Spec => [](Accounted /\ AssertsHold)
<1>1. Init => OwnershipInv
  BY DEF Init, OwnershipInv, Accounted, ExclusiveAt, CoveredAt, AssertsHold
<1>2. TypeOK /\ OwnershipInv /\ [Next]_vars => OwnershipInv'
  BY OwnershipStep
<1>3. QED
  BY <1>1, <1>2, TypeCorrect, PTL DEF Spec, OwnershipInv

\* Under the same condition the assertions of deallocate_impl and
\* unreserve_impl never fail.
THEOREM AssertionsHold ==
  ASSUME 2 \notin Orders
  PROVE  Spec => []AssertsHold
BY FramesAccounted, PTL

\* As long as nobody asks for four frames at once, a range that is handed out
\* consists of frames that were free (phys.rs:24).
THEOREM AllocationsWereFree ==
  ASSUME 2 \notin Orders
  PROVE  Spec => AllocatesOnlyFree
<1>1. TypeOK /\ [Next]_vars
        => [\A r \in held' \ held : FramesOf(r) \subseteq bitmap]_vars
  <2> SUFFICES ASSUME TypeOK, Next, NEW r \in held' \ held
               PROVE  FramesOf(r) \subseteq bitmap
    OBVIOUS
  <2>1. ASSUME NEW order \in Orders, AllocateRange(order)
        PROVE  FramesOf(r) \subseteq bitmap
    <3>1. CASE GivesUp(order)
      BY <3>1 DEF GivesUp
    <3>2. CASE \E s : Hands(order, s)
      BY <3>2 DEF Hands
    <3>3. QED
      BY <2>1, <3>1, <3>2, AllocationStep
  <2>2. ASSUME NEW s \in held, DeallocateRange(s) PROVE FALSE
    BY <2>2 DEF DeallocateRange, Panic
  <2>3. ASSUME NEW f \in Frames \cup {NumFrames}, Reserve(f) PROVE FALSE
    BY <2>3 DEF Reserve, Panic
  <2>4. ASSUME NEW f \in reserved, Unreserve(f) PROVE FALSE
    BY <2>4 DEF Unreserve, SetFree, Panic
  <2>5. ASSUME NEW f \in unknown, AddNewFrame(f) PROVE FALSE
    BY <2>5 DEF AddNewFrame, SetFree, Panic
  <2>6. CASE Halted
    BY <2>6 DEF Halted, vars
  <2>7. QED
    BY <2>1, <2>2, <2>3, <2>4, <2>5, <2>6 DEF Next
<1>2. QED
  BY <1>1, TypeCorrect, PTL DEF Spec, AllocatesOnlyFree

\* With requests of order 2 included, a frame can get a second owner only if it
\* is the last of an aligned group of four, and no frame is lost.
THEOREM QuadDamage == Spec => []QuadDamageConfined
<1>1. Init => QuadDamageConfined
  BY DEF Init, QuadDamageConfined, ExclusiveAt, CoveredAt
<1>2. TypeOK /\ QuadDamageConfined /\ [Next]_vars => QuadDamageConfined'
  <2> SUFFICES ASSUME TypeOK, QuadDamageConfined, [Next]_vars, panic' = "no",
                      NEW f \in Frames
               PROVE  CoveredAt(f)' /\ (f % 4 # 3 => ExclusiveAt(f)')
    BY DEF QuadDamageConfined
  <2> DEFINE Goal == CoveredAt(f)' /\ (f % 4 # 3 => ExclusiveAt(f)')
  <2>0. panic = "no" => CoveredAt(f) /\ (f % 4 # 3 => ExclusiveAt(f))
    BY DEF QuadDamageConfined
  <2> USE DEF ExclusiveAt, CoveredAt
  <2>1. ASSUME NEW order \in Orders, AllocateRange(order) PROVE Goal
    <3>0. panic = "no"
      BY <2>1 DEF AllocateRange
    <3>1. CASE \E r : Hands(order, r)
      <4>1. PICK r : Hands(order, r)
        BY <3>1
      <4>2. f \in FramesOf(r) /\ f % 4 # 3 => f \in bitmap
        <5>1. CASE order # 2
          BY <4>1, <5>1 DEF Hands
        <5>2. CASE order = 2
          <6>1. /\ r.first \in Frames /\ r.first % 4 = 0
                /\ r.first .. (r.first + 2) \subseteq bitmap
                /\ FramesOf(r) = r.first .. (r.first + 3)
            BY <4>1, <5>2, SmallSize DEF Hands, RangeOf, FramesOf
          <6>2. QED
            BY <6>1 DEF Frames
        <5>3. QED
          BY <5>1, <5>2
      <4>3. QED
        BY <2>0, <3>0, <4>1, <4>2 DEF Hands
    <3>2. CASE GivesUp(order)
      BY <2>0, <3>0, <3>2 DEF GivesUp
    <3>3. QED
      BY <2>1, <3>1, <3>2, AllocationStep
  <2>2. ASSUME NEW r \in held, DeallocateRange(r) PROVE Goal
    BY <2>0, <2>2 DEF DeallocateRange, Panic
  <2>3. ASSUME NEW g \in Frames \cup {NumFrames}, Reserve(g) PROVE Goal
    BY <2>0, <2>3 DEF Reserve, Panic
  <2>4. ASSUME NEW g \in reserved, Unreserve(g) PROVE Goal
    BY <2>0, <2>4 DEF Unreserve, SetFree, Panic
  <2>5. ASSUME NEW g \in unknown, AddNewFrame(g) PROVE Goal
    BY <2>0, <2>5 DEF AddNewFrame, SetFree, Panic
  <2>6. CASE Halted
    BY <2>6 DEF Halted, vars
  <2>7. CASE UNCHANGED vars
    BY <2>0, <2>7 DEF vars
  <2>8. QED
    BY <2>1, <2>2, <2>3, <2>4, <2>5, <2>6, <2>7 DEF Next
<1>3. QED
  BY <1>1, <1>2, TypeCorrect, PTL DEF Spec

-----------------------------------------------------------------------------
(***************************************************************************)
(* Completeness of the search.                                             *)
(***************************************************************************)

\* Whatever orders are requested, a call of allocate_range finds nothing only when
\* no aligned block of the size it asks for is free.
THEOREM SearchComplete == Spec => ExhaustionIsReal
<1>1. ASSUME TypeOK, NEW order \in Orders, FindsNothing(order)
      PROVE  Contract!FreeBlocks(order) = {}
  <2>1. AllocateRange(order) /\ panic = "no"
    BY <1>1 DEF FindsNothing, AllocateRange
  <2>2. ASSUME NEW r, Hands(order, r) PROVE FALSE
    <3>1. r.count = 2^order /\ r # NoRange
      <4>1. 2^order \in Nat \ {0}
        BY <2>2, BitmapAssumption, SizePositive DEF Hands
      <4>2. QED
        BY <2>2, <4>1 DEF Hands, RangeOf, NoRange
    <3>2. ret' = Allocated(order, r) /\ panic' = "no"
      BY <2>1, <2>2 DEF Hands
    <3>3. QED
      BY <1>1, <3>1, <3>2 DEF FindsNothing, Allocated
  <2>3. GivesUp(order)
    BY <1>1, <2>1, <2>2, AllocationStep
  <2>4. QED
    BY <1>1, <2>3 DEF GivesUp, FindsNothing
<1>2. TypeOK /\ [Next]_vars =>
        [\A order \in Orders : FindsNothing(order) => Contract!FreeBlocks(order) = {}]_vars
  BY <1>1
<1>3. QED
  BY <1>2, TypeCorrect, PTL DEF Spec, ExhaustionIsReal

-----------------------------------------------------------------------------
(***************************************************************************)
(* The bitmap allocator implements the trait's contract.                   *)
(***************************************************************************)

\* Without requests of order 2, every call on the bitmap allocator is a step
\* the FrameAllocator trait's contract allows.
THEOREM Refinement ==
  ASSUME 2 \notin Orders
  PROVE  Spec => ImplementsContract
<1>1. Init => Contract!Init
  BY BitmapAssumption DEF Init, Contract!Init, Void, Contract!Void
<1>2. TypeOK /\ Accounted /\ [Next]_vars => [Contract!Next]_(Contract!vars)
  <2> SUFFICES ASSUME TypeOK, Accounted, Next
               PROVE  Contract!Next \/ UNCHANGED Contract!vars
    BY DEF vars, Contract!vars
  <2>1. ASSUME NEW order \in Orders, AllocateRange(order)
        PROVE  Contract!AllocateRange(order) \/ Contract!Stop
    <3>0. panic = "no"
      BY <2>1 DEF AllocateRange
    <3>1. CASE \E r : Hands(order, r)
      <4>1. PICK r : Hands(order, r)
        BY <3>1
      <4>2. FramesOf(r) \subseteq bitmap
        BY <4>1 DEF Hands
      <4>3. r \in Contract!FreeBlocks(order)
        <5>1. 2^order \in Nat \ {0}
          BY <4>1, BitmapAssumption, SizePositive DEF Hands
        <5>2. r.first \in FramesOf(r)
          BY <4>1, <5>1 DEF Hands, RangeOf, FramesOf, Frames
        <5>3. r \in [first : bitmap, count : {2^order}]
          BY <4>1, <4>2, <5>2 DEF Hands, RangeOf
        <5>4. QED
          BY <4>1, <4>2, <5>3
          DEF Hands, FramesOf, Contract!FreeBlocks, Contract!FramesOf
      <4>4. Contract!FramesOf(r) = FramesOf(r)
        BY DEF FramesOf, Contract!FramesOf
      <4>5. QED
        BY <3>0, <4>1, <4>3, <4>4
        DEF Hands, Allocated, Contract!AllocateRange, Contract!Allocated
    <3>2. CASE GivesUp(order)
      BY <3>0, <3>2
      DEF GivesUp, Allocated, NoRange, Contract!AllocateRange,
          Contract!Allocated, Contract!NoRange, Contract!Stop
    <3>3. QED
      BY <2>1, <3>1, <3>2, AllocationStep
  <2>2. ASSUME NEW r \in held, DeallocateRange(r)
        PROVE  Contract!DeallocateRange(r)
    <3>1. FramesOf(r) \cap bitmap = {}
      BY DEF Accounted, ExclusiveAt, TypeOK
    <3>2. QED
      BY <2>2, <3>1
      DEF DeallocateRange, FramesOf, Void, Contract!DeallocateRange,
          Contract!FramesOf, Contract!Void
  <2>3. ASSUME NEW f \in Frames \cup {NumFrames}, Reserve(f)
        PROVE  (f \in Frames /\ Contract!Reserve(f)) \/ Contract!Stop
    <3>1. CASE f \notin Frames /\ Panic("reserve") /\ UNCHANGED bitmap
      BY <2>3, <3>1 DEF Reserve, Panic, Contract!Stop
    <3>2. CASE f \in Frames \ bitmap
      BY <2>3, <3>2
      DEF Reserve, ReserveReply, Contract!Reserve, Contract!ReserveReply
    <3>3. CASE f \in bitmap
      BY <2>3, <3>3
      DEF Reserve, ReserveReply, Contract!Reserve, Contract!ReserveReply, TypeOK
    <3>4. QED
      BY <2>3, <3>1, <3>2, <3>3 DEF Reserve
  <2>4. ASSUME NEW f \in reserved, Unreserve(f) PROVE Contract!Unreserve(f)
    <3>1. f \notin bitmap
      BY DEF Accounted, ExclusiveAt, TypeOK
    <3>2. QED
      BY <2>4, <3>1 DEF Unreserve, SetFree, Void, Contract!Unreserve, Contract!Void
  <2>5. ASSUME NEW f \in unknown, AddNewFrame(f) PROVE Contract!AddNewFrame(f)
    <3>1. f \notin bitmap
      BY DEF Accounted, ExclusiveAt, TypeOK
    <3>2. QED
      BY <2>5, <3>1
      DEF AddNewFrame, SetFree, Void, Contract!AddNewFrame, Contract!Void
  <2>6. CASE Halted
    BY <2>6 DEF Halted, vars, Contract!vars
  <2>7. QED
    BY <2>1, <2>2, <2>3, <2>4, <2>5, <2>6 DEF Next, Contract!Next
<1>3. QED
  BY <1>1, <1>2, TypeCorrect, FramesAccounted, PTL
  DEF Spec, ImplementsContract, Contract!Spec

-----------------------------------------------------------------------------
(***************************************************************************)
(* The order HeapProvider asks for.                                        *)
(***************************************************************************)

\* next_power_of_two is enough: 2^OrderFor(n) chunks hold n.
LEMMA OrderSuffices ==
  ASSUME NEW n \in 0 .. 2^MaxOrder
  PROVE  n <= 2^OrderFor(n)
<1>1. CASE n <= 1
  BY <1>1, SmallSize DEF OrderFor
<1>2. CASE n > 1
  <2> DEFINE Fits(order) == n <= 2^order /\ 2^(order - 1) < n
  <2>1. /\ 2^0 = 1 /\ 2^1 = 2 /\ 2^2 = 4 /\ 2^3 = 8 /\ 2^4 = 16 /\ 2^5 = 32
        /\ 2^6 = 64 /\ 2^7 = 128 /\ 2^8 = 256 /\ 2^9 = 512 /\ 2^10 = 1024
        /\ 2^11 = 2048 /\ 2^12 = 4096 /\ 2^13 = 8192 /\ 2^14 = 16384
        /\ 2^15 = 32768 /\ 2^16 = 65536 /\ 2^17 = 131072 /\ 2^18 = 262144
        /\ 2^19 = 524288 /\ 2^20 = 1048576 /\ 2^21 = 2097152
        /\ 2^22 = 4194304 /\ 2^23 = 8388608 /\ 2^24 = 16777216
    BY SMT
  <2>2. n \in Nat /\ n <= 16777216
    BY <2>1 DEF MaxOrder
  <2>3. \E order \in 1 .. MaxOrder : Fits(order)
    <3>1. \/ Fits(1) \/ Fits(2) \/ Fits(3) \/ Fits(4) \/ Fits(5) \/ Fits(6)
          \/ Fits(7) \/ Fits(8) \/ Fits(9) \/ Fits(10) \/ Fits(11) \/ Fits(12)
          \/ Fits(13) \/ Fits(14) \/ Fits(15) \/ Fits(16) \/ Fits(17)
          \/ Fits(18) \/ Fits(19) \/ Fits(20) \/ Fits(21) \/ Fits(22)
          \/ Fits(23) \/ Fits(24)
      BY <1>2, <2>1, <2>2
    <3> HIDE DEF Fits
    <3>2. QED
      BY <3>1 DEF MaxOrder
  <2>4. Fits(CHOOSE order \in 1 .. MaxOrder : Fits(order))
    <3> HIDE DEF Fits
    <3>1. QED
      BY <2>3
  <2>5. QED
    BY <1>2, <2>2, <2>4 DEF OrderFor
<1>3. QED
  BY <1>1, <1>2

-----------------------------------------------------------------------------
(***************************************************************************)
(* The inductive invariant.                                                *)
(***************************************************************************)

\* The orders the tasks and the heap ask for.
ClientOrders == {StackOrder} \cup {OrderFor(n) : n \in ChunkRequests}

Apart(r, q) == FramesOf(r) \cap FramesOf(q) = {}

\* SlicesExclusive and StacksApart speak of parts of ranges; what is inductive
\* is that whole ranges are apart, which in turn needs the allocator's own
\* invariant.  That one is lost when a client's unwrap panics, and then no
\* range changes hands any more.
ClientInv ==
  /\ HeldByClients
  /\ \A s \in slices : s.chunks \in Nat /\ s.range.first \in Nat
                      /\ s.range.count \in Nat /\ s.chunks <= s.range.count
  /\ \A r \in tasks : r.first \in Nat /\ r.count = 2
  /\ \A s, u \in slices : s # u => Apart(s.range, u.range)
  /\ \A s \in slices, r \in tasks : Apart(s.range, r)
  /\ \A r, q \in tasks : r # q => Apart(r, q)

KernelInv == ClientInv /\ (panic = "no" => TypeOK /\ OwnershipInv)

\* The range allocate_range hands to a client is apart from every other.
LEMMA NewRangeApart ==
  ASSUME TypeOK, OwnershipInv, NEW order, NEW r, Hands(order, r), order # 2,
         NEW q \in held
  PROVE  Apart(r, q) /\ Apart(q, r)
<1>1. FramesOf(r) \subseteq bitmap
  BY DEF Hands
<1>2. FramesOf(q) \subseteq Frames
  BY DEF TypeOK
<1>3. FramesOf(q) \cap bitmap = {}
  BY <1>2 DEF OwnershipInv, Accounted, ExclusiveAt
<1>4. QED
  BY <1>1, <1>3 DEF Apart

\* It is not empty, so it is none of the others.
LEMMA NewRangeIsNew ==
  ASSUME TypeOK, OwnershipInv, NEW order \in Orders, NEW r, Hands(order, r), order # 2
  PROVE  /\ r \notin held
         /\ r.first \in Nat /\ r.count = 2^order /\ 2^order \in Nat \ {0}
         /\ r # NoRange
<1>1. 2^order \in Nat \ {0}
  BY SizePositive, BitmapAssumption DEF Hands
<1>2. r.first \in Nat /\ r.count = 2^order
  BY BitmapAssumption DEF Hands, RangeOf, Frames
<1>3. r.first \in FramesOf(r)
  BY <1>1, <1>2 DEF FramesOf
<1>4. r \notin held
  BY <1>3, NewRangeApart DEF Apart
<1>5. r # NoRange
  BY <1>1, <1>2 DEF NoRange
<1>6. QED
  BY <1>1, <1>2, <1>4, <1>5

-----------------------------------------------------------------------------
(***************************************************************************)
(* The steps.                                                              *)
(***************************************************************************)

\* A call of a client is a call the allocator's invariants survive.
LEMMA CallPreserves ==
  ASSUME 2 \notin Orders, TypeOK, OwnershipInv,
         \/ \E order \in Orders : AllocateRange(order)
         \/ \E r \in held : DeallocateRange(r)
  PROVE  TypeOK' /\ OwnershipInv'
<1>1. Next
  BY DEF Next
<1>2. QED
  BY <1>1, TypeStep, OwnershipStep

\* Two frames fit in one byte: create_task's request never panics inside
\* allocate_range.
LEMMA StackRequestReturns ==
  ASSUME AllocateRange(StackOrder)
  PROVE  panic' = panic
<1>1. StackOrder = 1 /\ StackOrder <= MaxOrder /\ ~(2^StackOrder >= 8)
  BY SmallSize DEF StackOrder, MaxOrder
<1>2. AllocateSmall(StackOrder)
  BY <1>1 DEF AllocateRange, AllocateLarge, MaxOrder
<1>3. QED
  BY <1>2 DEF AllocateSmall, Return, ReturnNone

LEMMA UnwrapStep ==
  ASSUME KernelInv, NEW order, UnwrapPanics(order)
  PROVE  KernelInv'
<1>1. UNCHANGED <<held, tasks, slices>> /\ panic' = "memory"
  BY DEF UnwrapPanics, Panic, clients
<1>2. QED
  BY <1>1 DEF KernelInv, ClientInv, HeldByClients

LEMMA CreateStep ==
  ASSUME ClientOrders \subseteq Orders, 2 \notin Orders, KernelInv, CreateTask
  PROVE  KernelInv'
<1>1. CASE UnwrapPanics(StackOrder)
  BY <1>1, UnwrapStep
<1>2. CASE /\ AllocateRange(StackOrder)
           /\ ret'.range # NoRange
           /\ tasks' = tasks \cup {ret'.range}
           /\ UNCHANGED slices
  <2>1. StackOrder \in Orders /\ StackOrder = 1 /\ 2^StackOrder = 2
    BY SmallSize DEF ClientOrders, StackOrder
  <2>2. panic = "no" /\ panic' = "no"
    BY <1>2, StackRequestReturns DEF AllocateRange
  <2>3. TypeOK /\ OwnershipInv
    BY <2>2 DEF KernelInv
  <2>4. TypeOK' /\ OwnershipInv'
    BY <1>2, <2>1, <2>3, CallPreserves
  <2>5. PICK r : Hands(StackOrder, r)
    <3>1. ~GivesUp(StackOrder)
      BY <1>2, <2>2 DEF GivesUp, Allocated
    <3>2. QED
      BY <1>2, <2>1, <2>3, <3>1, AllocationStep
  <2>6. ret'.range = r /\ held' = held \cup {r}
    BY <2>5 DEF Hands, Allocated
  <2>7. r \notin held /\ r.first \in Nat /\ r.count = 2
    BY <2>1, <2>3, <2>5, NewRangeIsNew
  <2>8. \A q \in held : Apart(r, q) /\ Apart(q, r)
    BY <2>1, <2>3, <2>5, NewRangeApart
  <2>9. held = tasks \cup {s.range : s \in slices}
    BY DEF KernelInv, ClientInv, HeldByClients
  <2>10. HeldByClients'
    BY <1>2, <2>6, <2>7, <2>9 DEF KernelInv, ClientInv, HeldByClients
  <2>11. ClientInv'
    <3> tasks' = tasks \cup {r} /\ slices' = slices
      BY <1>2, <2>6
    <3>1. \A q \in tasks' : q.first \in Nat /\ q.count = 2
      BY <2>7 DEF KernelInv, ClientInv
    <3>2. \A s \in slices', q \in tasks' : Apart(s.range, q)
      BY <2>8, <2>9 DEF KernelInv, ClientInv
    <3>3. \A p, q \in tasks' : p # q => Apart(p, q)
      BY <2>8, <2>9 DEF KernelInv, ClientInv
    <3>4. QED
      BY <2>10, <3>1, <3>2, <3>3 DEF KernelInv, ClientInv, Apart
  <2>12. QED
    BY <2>4, <2>11 DEF KernelInv
<1>3. QED
  BY <1>1, <1>2 DEF CreateTask

LEMMA DropStep ==
  ASSUME 2 \notin Orders, KernelInv, NEW r \in tasks, DropTask(r)
  PROVE  KernelInv'
<1>1. panic = "no" /\ TypeOK /\ OwnershipInv
  BY DEF KernelInv, DropTask, DeallocateRange
<1>2. r \in held
  BY DEF KernelInv, ClientInv, HeldByClients
<1>3. TypeOK' /\ OwnershipInv'
  BY <1>1, <1>2, CallPreserves DEF DropTask
<1>4. FramesOf(r) \cap bitmap = {}
  BY <1>1, <1>2 DEF TypeOK, OwnershipInv, Accounted, ExclusiveAt
<1>5. held' = held \ {r} /\ tasks' = tasks \ {r} /\ slices' = slices
  BY <1>4 DEF DropTask, DeallocateRange
<1>6. HeldByClients'
  BY <1>5 DEF KernelInv, ClientInv, HeldByClients
<1>7. ClientInv'
  BY <1>5, <1>6 DEF KernelInv, ClientInv, Apart
<1>8. QED
  BY <1>3, <1>7 DEF KernelInv

\* What HeapProvider::allocate gives the heap when it returns: a slice of as many
\* chunks as were asked for, in frames no client has.
LEMMA ProvideIsNew ==
  ASSUME ClientOrders \subseteq Orders, 2 \notin Orders, KernelInv,
         NEW n \in ChunkRequests, ProvideChunks(n), panic' = "no"
  PROVE  /\ slices' = slices \cup {[range |-> ret'.range, chunks |-> n]}
         /\ \A s \in slices : s.range # ret'.range
         /\ UNCHANGED tasks
<1> DEFINE order == OrderFor(n)
<1>1. /\ AllocateRange(order)
      /\ ret'.range # NoRange
      /\ slices' = slices \cup {[range |-> ret'.range, chunks |-> n]}
      /\ UNCHANGED tasks
  BY DEF ProvideChunks, UnwrapPanics, Panic
<1>2. order \in Orders /\ order # 2
  BY DEF ClientOrders
<1>3. TypeOK /\ OwnershipInv
  BY <1>1 DEF KernelInv, AllocateRange
<1> HIDE DEF order
<1>4. ~GivesUp(order)
  BY <1>1 DEF GivesUp, Allocated
<1>5. PICK r : Hands(order, r)
  BY <1>1, <1>2, <1>3, <1>4, AllocationStep
<1>6. ret'.range = r
  BY <1>5 DEF Hands, Allocated
<1>7. r \notin held
  BY <1>2, <1>3, <1>5, NewRangeIsNew
<1>8. \A s \in slices : s.range \in held
  BY DEF KernelInv, ClientInv, HeldByClients
<1>9. QED
  BY <1>1, <1>6, <1>7, <1>8

LEMMA ProvideStep ==
  ASSUME ClientOrders \subseteq Orders, 2 \notin Orders, KernelInv,
         NEW n \in ChunkRequests, ProvideChunks(n)
  PROVE  KernelInv'
<1> DEFINE order == OrderFor(n)
<1>1. CASE UnwrapPanics(order)
  BY <1>1, UnwrapStep
<1>2. CASE /\ AllocateRange(order)
           /\ panic' = "no" => ret'.range # NoRange
           /\ slices' = IF panic' = "no"
                        THEN slices \cup {[range |-> ret'.range, chunks |-> n]}
                        ELSE slices
           /\ UNCHANGED tasks
  <2>1. order \in Orders /\ order # 2
    BY DEF ClientOrders
  <2>2. n \in Nat /\ n <= 2^order
    BY OrderSuffices, ChunkAssumption
  <2>3. panic = "no" /\ TypeOK /\ OwnershipInv
    BY <1>2 DEF KernelInv, AllocateRange
  <2>4. TypeOK' /\ OwnershipInv'
    BY <1>2, <2>1, <2>3, CallPreserves
  <2> HIDE DEF order
  <2>5. CASE GivesUp(order)
    <3>1. panic' # "no"
      BY <1>2, <2>3, <2>5 DEF GivesUp, Allocated
    <3>2. UNCHANGED <<held, tasks, slices>>
      BY <1>2, <2>5, <3>1 DEF GivesUp
    <3>3. QED
      BY <3>1, <3>2 DEF KernelInv, ClientInv, HeldByClients
  <2>6. CASE \E r : Hands(order, r)
    <3>1. PICK r : Hands(order, r)
      BY <2>6
    <3> DEFINE new == [range |-> r, chunks |-> n]
    <3>2. ret'.range = r /\ held' = held \cup {r} /\ panic' = "no"
      BY <2>3, <3>1 DEF Hands, Allocated
    <3>3. slices' = slices \cup {new} /\ tasks' = tasks
      BY <1>2, <3>2
    <3>4. /\ r \notin held /\ r.first \in Nat
          /\ r.count \in Nat /\ n <= r.count
      BY <2>1, <2>2, <2>3, <3>1, NewRangeIsNew
    <3>5. \A q \in held : Apart(r, q) /\ Apart(q, r)
      BY <2>1, <2>3, <3>1, NewRangeApart
    <3>6. new.range = r /\ new.chunks = n
      OBVIOUS
    <3> HIDE DEF new
    <3>7. \A s \in slices : s.range \in held
      BY DEF KernelInv, ClientInv, HeldByClients
    <3>8. {s.range : s \in slices'} = {s.range : s \in slices} \cup {r}
      BY <3>3, <3>6
    <3>9. HeldByClients'
      <4>1. held = tasks \cup {s.range : s \in slices}
            /\ tasks \cap {s.range : s \in slices} = {}
        BY DEF KernelInv, ClientInv, HeldByClients
      <4>2. QED
        BY <3>2, <3>3, <3>4, <3>8, <4>1 DEF HeldByClients
    <3>10. \A s \in slices' : s.chunks \in Nat /\ s.range.first \in Nat
                      /\ s.range.count \in Nat /\ s.chunks <= s.range.count
      BY <2>2, <3>3, <3>4, <3>6 DEF KernelInv, ClientInv
    <3>11. \A s, u \in slices' : s # u => Apart(s.range, u.range)
      BY <3>3, <3>5, <3>6, <3>7 DEF KernelInv, ClientInv
    <3>12. \A s \in slices', q \in tasks' : Apart(s.range, q)
      <4>1. tasks \subseteq held
        BY DEF KernelInv, ClientInv, HeldByClients
      <4>2. QED
        BY <3>3, <3>5, <3>6, <4>1 DEF KernelInv, ClientInv
    <3>13. ClientInv'
      BY <3>3, <3>9, <3>10, <3>11, <3>12 DEF KernelInv, ClientInv, Apart
    <3>14. QED
      BY <2>4, <3>13 DEF KernelInv
  <2>7. QED
    BY <1>2, <2>1, <2>3, <2>5, <2>6, AllocationStep
<1>3. QED
  BY <1>1, <1>2 DEF ProvideChunks

-----------------------------------------------------------------------------
(***************************************************************************)
(* The theorems.                                                           *)
(***************************************************************************)

\* The invariant of the composition, for clients that never ask for exactly
\* four frames.
LEMMA InvariantHolds ==
  ASSUME ClientOrders \subseteq Orders, 2 \notin Orders
  PROVE  KernelSpec => []KernelInv
<1>1. KernelInit => KernelInv
  <2> SUFFICES ASSUME KernelInit PROVE KernelInv
    OBVIOUS
  <2>1. TypeOK
    BY BitmapAssumption DEF KernelInit, Init, TypeOK, Causes
  <2>2. OwnershipInv
    BY DEF KernelInit, Init, OwnershipInv, Accounted, ExclusiveAt, CoveredAt,
           AssertsHold
  <2>3. ClientInv
    BY DEF KernelInit, Init, ClientInv, HeldByClients
  <2>4. QED
    BY <2>1, <2>2, <2>3 DEF KernelInv
<1>2. KernelInv /\ [KernelNext]_<<vars, clients>> => KernelInv'
  <2> SUFFICES ASSUME KernelInv, [KernelNext]_<<vars, clients>> PROVE KernelInv'
    OBVIOUS
  <2>1. CASE UNCHANGED <<vars, clients>>
    BY <2>1 DEF vars, clients, KernelInv, ClientInv, HeldByClients, TypeOK,
       OwnershipInv, Accounted, ExclusiveAt, CoveredAt, AssertsHold
  <2>2. CASE KernelHalted
    <3>1. UNCHANGED <<vars, clients>>
      BY <2>2 DEF KernelHalted, Halted
    <3>2. QED
      BY <2>1, <3>1
  <2>3. QED
    BY <2>1, <2>2, CreateStep, DropStep, ProvideStep DEF KernelNext
<1>3. QED
  BY <1>1, <1>2, PTL DEF KernelSpec

\* Tasks can be created and dropped, and the heap grow, in any order and for
\* ever: the ranges the allocator has out are exactly those of the live tasks
\* and of the heap, each with one owner.
THEOREM RangesHaveClients ==
  ASSUME ClientOrders \subseteq Orders, 2 \notin Orders
  PROVE  KernelSpec => []HeldByClients
<1>1. KernelInv => HeldByClients
  BY DEF KernelInv, ClientInv
<1>2. QED
  BY <1>1, InvariantHolds, PTL

\* Every slice HeapProvider returns lies in the frames allocated for it and
\* shares none with another slice or with the frames a task owns.
THEOREM HeapSlicesExclusive ==
  ASSUME ClientOrders \subseteq Orders, 2 \notin Orders
  PROVE  KernelSpec => []SlicesExclusive
<1>1. KernelInv => SlicesExclusive
  <2> SUFFICES ASSUME KernelInv PROVE SlicesExclusive
    OBVIOUS
  <2>1. \A s \in slices : SliceFrames(s) \subseteq FramesOf(s.range)
    BY DEF KernelInv, ClientInv, SliceFrames, FramesOf
  <2>2. /\ \A s, u \in slices : s # u => FramesOf(s.range) \cap FramesOf(u.range) = {}
        /\ \A s \in slices, r \in tasks : FramesOf(s.range) \cap FramesOf(r) = {}
    BY DEF KernelInv, ClientInv, Apart
  <2>3. QED
    BY <2>1, <2>2 DEF SlicesExclusive
<1>2. QED
  BY <1>1, InvariantHolds, PTL

\* Although no task's stack is in the frames it owns, the stacks' top frames of
\* different tasks never meet.
THEOREM TaskStacksApart ==
  ASSUME ClientOrders \subseteq Orders, 2 \notin Orders
  PROVE  KernelSpec => []StacksApart
<1>1. KernelInv => StacksApart
  <2> SUFFICES ASSUME KernelInv, NEW r \in tasks, NEW q \in tasks, r # q
               PROVE  ((TaskFrame(r) - 1) .. TaskFrame(r))
                        \cap ((TaskFrame(q) - 1) .. TaskFrame(q)) = {}
    BY DEF StacksApart
  <2>1. /\ r.first \in Nat /\ r.count = 2
        /\ q.first \in Nat /\ q.count = 2
        /\ FramesOf(r) \cap FramesOf(q) = {}
    BY DEF KernelInv, ClientInv, Apart
  <2>2. /\ r.first \in FramesOf(r) /\ r.first + 1 \in FramesOf(r)
        /\ q.first \in FramesOf(q) /\ q.first + 1 \in FramesOf(q)
    BY <2>1 DEF FramesOf
  <2>3. r.first # q.first /\ r.first + 1 # q.first /\ r.first # q.first + 1
    BY <2>1, <2>2
  <2>4. STACK_FRAMES \in Int
    BY SmallSize DEF STACK_FRAMES, STACK_FRAMES_ORDER
  <2>5. QED
    BY <2>1, <2>3, <2>4 DEF TaskFrame
<1>2. QED
  BY <1>1, InvariantHolds, PTL

==============================================================================
