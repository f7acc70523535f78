--------------------------- MODULE FrameAllocator ---------------------------
(***************************************************************************)
(* BitmapFrameAllocator (shared/src/memory/alloc/phys.rs): one bit per     *)
(* frame of physical memory, 1 for free.  The bitmap is represented by the *)
(* set of its 1 bits: frame f is bit f % 8 of byte f \div 8.  The clients  *)
(* keep the trait's contract: they return what they were given, once.      *)
(* Each call runs under the FRAME_ALLOCATOR lock, so it is one step.       *)
(***************************************************************************)
EXTENDS Integers, FiniteSets

CONSTANTS
  NumBytes,        \* bitmap.len()
  Orders,          \* orders clients ask allocate_range for
  InitialBitmaps,  \* the bitmaps the allocator may be constructed with
  BootFrames,      \* frames used while bootstrapping, to be added later
  MaxHeld,         \* bound: ranges out at the same time
  MaxReserved      \* bound: frames reserved at the same time

NumFrames == 8 * NumBytes
Frames == 0 .. (NumFrames - 1)
MaxOrder == 24

ASSUME BitmapAssumption ==
  /\ NumBytes \in Nat \ {0}
  /\ Orders \subseteq Nat
  /\ InitialBitmaps \subseteq SUBSET Frames

VARIABLES
  bitmap,    \* frames whose bit is 1
  held,      \* ranges returned by allocate_range and not deallocated since
  reserved,  \* frames reserved and not unreserved since
  unknown,   \* frames marked used at construction and not added since
  ret,       \* reply of the latest call
  panic      \* the assertion or panic that stopped the kernel, or "no"

vars == <<bitmap, held, reserved, unknown, ret, panic>>

\* The bits of bitmap[i].
Byte(i) == (8 * i) .. (8 * i + 7)

FramesOf(r) == r.first .. (r.first + r.count - 1)
RangeOf(first, order) == [first |-> first, count |-> 2^order]
NoRange == [first |-> 0, count |-> 0]     \* None: a FrameRange is never empty

Void == [op |-> "void"]
Allocated(order, r) == [op |-> "allocate_range", order |-> order, range |-> r]
ReserveReply(f, ok) == [op |-> "reserve", frame |-> f, ok |-> ok]

Init ==
  /\ bitmap \in InitialBitmaps
  /\ held = {}
  /\ reserved = {}
  /\ unknown = Frames \ bitmap
  /\ ret = Void
  /\ panic = "no"

Panic(cause) ==
  /\ panic' = cause
  /\ UNCHANGED <<held, reserved, unknown, ret>>

(***************************************************************************)
(* allocate_range                                                          *)
(***************************************************************************)

GroupMask_lowBit(order) == {0}

\* The bits of find_bit_group's mask, (len << 1) - 1, for len = 2^order.
GroupMask(order) == 0 .. order

Groups_unaligned(order) ==
  {f \in Frames : \A b \in GroupMask(order) : f + b \in bitmap}

\* Where find_bit_group, tried on each byte in turn, reports a group.
Groups(order) ==
  {f \in Frames : f % 2^order = 0 /\ \A b \in GroupMask(order) : f + b \in bitmap}

ByteLen(order) == 2^order \div 8

\* Bytes at which the loop for sizes >= 8 starts.
Starts(order) == {i \in 0 .. (NumBytes - 1) : i % ByteLen(order) = 0}

\* Stops before the last bytes.
ByteRuns_strict(order) ==
  {i \in Starts(order) :
     /\ i + ByteLen(order) < NumBytes
     /\ \A j \in i .. (i + ByteLen(order) - 1) : Byte(j) \subseteq bitmap}

\* Those from which ByteLen(order) bytes are all u8::MAX.
ByteRuns(order) ==
  {i \in Starts(order) :
     /\ i + ByteLen(order) <= NumBytes
     /\ \A j \in i .. (i + ByteLen(order) - 1) : Byte(j) \subseteq bitmap}

\* The least member of S is x: what a search in increasing order returns.
IsFirst(x, S) == x \in S /\ \A y \in S : x <= y

Return_clearFirst(order, r, cleared) ==
  /\ bitmap' = bitmap \ {r.first}
  /\ held' = held \cup {r}
  /\ ret' = Allocated(order, r)
  /\ UNCHANGED <<reserved, unknown, panic>>

Return(order, r, cleared) ==
  /\ bitmap' = bitmap \ cleared
  /\ held' = held \cup {r}
  /\ ret' = Allocated(order, r)
  /\ UNCHANGED <<reserved, unknown, panic>>

ReturnNone(order) ==
  /\ ret' = Allocated(order, NoRange)
  /\ UNCHANGED <<bitmap, held, reserved, unknown, panic>>

AllocateSmall(order) ==
  /\ 2^order < 8
  /\ \/ \E f \in Groups(order) :
          /\ IsFirst(f, Groups(order))
          /\ Return(order, RangeOf(f, order), f .. (f + 2^order - 1))
     \/ Groups(order) = {} /\ ReturnNone(order)

AllocateLarge(order) ==
  /\ 2^order >= 8
  /\ \/ \E i \in ByteRuns(order) :
          /\ IsFirst(i, ByteRuns(order))
          /\ Return(order, RangeOf(8 * i, order),
                    UNION {Byte(j) : j \in i .. (i + ByteLen(order) - 1)})
     \/ /\ ByteRuns(order) = {}
        /\ \E i \in Starts(order) : i + ByteLen(order) > NumBytes
        /\ ReturnNone(order)
     \/ /\ ByteRuns(order) = {}
        /\ \A i \in Starts(order) : i + ByteLen(order) <= NumBytes
        /\ Panic("unreachable") /\ UNCHANGED bitmap

AllocateRange(order) ==
  /\ panic = "no"
  /\ Cardinality(held) < MaxHeld
  /\ \/ order > MaxOrder /\ Panic("order") /\ UNCHANGED bitmap
     \/ order <= MaxOrder /\ AllocateSmall(order)
     \/ order <= MaxOrder /\ AllocateLarge(order)

(***************************************************************************)
(* deallocate_range, reserve, unreserve, add_new_frame                     *)
(***************************************************************************)

\* Frame by frame, asserting that each bit is 0 before setting it.
DeallocateRange(r) ==
  /\ panic = "no"
  /\ \/ /\ FramesOf(r) \cap bitmap = {}
        /\ bitmap' = bitmap \cup FramesOf(r)
        /\ held' = held \ {r}
        /\ ret' = Void
        /\ UNCHANGED <<reserved, unknown, panic>>
     \/ \E f \in FramesOf(r) \cap bitmap :
          /\ IsFirst(f, FramesOf(r) \cap bitmap)
          /\ bitmap' = bitmap \cup (r.first .. (f - 1))
          /\ Panic("deallocate")

Reserve(f) ==
  /\ panic = "no"
  /\ Cardinality(reserved) < MaxReserved
  /\ \/ f \notin Frames /\ Panic("reserve") /\ UNCHANGED bitmap
     \/ /\ f \in Frames \ bitmap
        /\ ret' = ReserveReply(f, FALSE)
        /\ UNCHANGED <<bitmap, held, reserved, unknown, panic>>
     \/ /\ f \in bitmap
        /\ bitmap' = bitmap \ {f}
        /\ reserved' = reserved \cup {f}
        /\ ret' = ReserveReply(f, TRUE)
        /\ UNCHANGED <<held, unknown, panic>>

\* unreserve_impl: assert that the bit is 0, then set it.
SetFree(f) ==
  /\ f \notin bitmap
  /\ bitmap' = bitmap \cup {f}
  /\ ret' = Void
  /\ UNCHANGED <<held, panic>>

Unreserve(f) ==
  /\ panic = "no"
  /\ \/ SetFree(f) /\ reserved' = reserved \ {f} /\ UNCHANGED unknown
     \/ f \in bitmap /\ Panic("unreserve") /\ UNCHANGED bitmap

AddNewFrame(f) ==
  /\ panic = "no"
  /\ \/ SetFree(f) /\ unknown' = unknown \ {f} /\ UNCHANGED reserved
     \/ f \in bitmap /\ Panic("unreserve") /\ UNCHANGED bitmap

\* The panic handler ends in halt_loop.
Halted ==
  /\ panic # "no"
  /\ UNCHANGED vars

Next ==
  \/ \E order \in Orders : AllocateRange(order)
  \/ \E r \in held : DeallocateRange(r)
  \/ \E f \in Frames \cup {NumFrames} : Reserve(f)
  \/ \E f \in reserved : Unreserve(f)
  \/ \E f \in unknown \cap BootFrames : AddNewFrame(f)
  \/ Halted

Spec == Init /\ [][Next]_vars

(***************************************************************************)
(* Properties                                                              *)
(***************************************************************************)

Contract == INSTANCE FrameContract WITH free <- bitmap, up <- (panic = "no")

Causes == {"no", "order", "unreachable", "deallocate", "reserve", "unreserve"}
Ranges == [first : Frames, count : {2^order : order \in Orders}]

\* Every bit, range and frame number stays inside the bitmap the allocator was
\* constructed with, whatever allocate_range and deallocate_range do to it.
TypeOK ==
  /\ bitmap \subseteq Frames
  /\ held \subseteq Ranges
  /\ \A r \in held : FramesOf(r) \subseteq Frames
  /\ reserved \subseteq Frames
  /\ unknown \subseteq Frames
  /\ panic \in Causes

\* Frame f is in at most one of: the free bitmap, one range handed out, the
\* reserved frames, the frames unknown to the allocator.
ExclusiveAt(f) ==
  /\ \A r \in held : f \in FramesOf(r) => f \notin bitmap \cup reserved \cup unknown
  /\ \A r, s \in held : f \in FramesOf(r) /\ f \in FramesOf(s) => r = s
  /\ f \in bitmap => f \notin reserved \cup unknown
  /\ f \in reserved => f \notin unknown

\* Frame f is in at least one of them.
CoveredAt(f) ==
  \/ f \in bitmap \cup reserved \cup unknown
  \/ \E r \in held : f \in FramesOf(r)

\* Every frame has exactly one owner: no sequence of allocate_range,
\* deallocate_range, reserve, unreserve and add_new_frame hands a frame to two
\* holders or loses one.
Accounted == \A f \in Frames : ExclusiveAt(f) /\ CoveredAt(f)

\* Clients that return exactly what they were given never run into the
\* assertions of deallocate_impl and unreserve_impl.
AssertsHold == panic \notin {"deallocate", "unreserve"}

\* allocate_range(order) finds nothing: it returns None, or runs off the end of
\* its loop into unreachable!().
FindsNothing(order) ==
  /\ \/ panic' = "no" /\ ret' = Allocated(order, NoRange)
     \/ panic' = "unreachable"
  /\ AllocateRange(order)

\* A call of allocate_range finds nothing, in either way, only when no aligned
\* block of the size that this call requests is free.
ExhaustionIsReal ==
  [][\A order \in Orders : FindsNothing(order) => Contract!FreeBlocks(order) = {}]_vars

\* allocate_range hands out only frames that were free before the call
\* (phys.rs:24, "allocations do not return allocated or reserved frames").
AllocatesOnlyFree ==
  [][\A r \in held' \ held : FramesOf(r) \subseteq bitmap]_vars

\* A request that cannot be met is answered with None (phys.rs:32, "if
\* available"); the unreachable!() at the end of allocate_range is not reached.
NeverRunsOffEnd == panic # "unreachable"

\* find_bit_group's mask for four frames tests three bits.  The frames that can
\* get two owners that way are the last of an aligned group of four, and no
\* others; and no frame is ever lost.
QuadDamageConfined ==
  panic = "no" =>
    \A f \in Frames : CoveredAt(f) /\ (f % 4 # 3 => ExclusiveAt(f))

\* The bitmap allocator implements the FrameAllocator trait's contract.
ImplementsContract == Contract!Spec
==============================================================================
