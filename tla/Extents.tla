------------------------------- MODULE Extents -------------------------------
(***************************************************************************)
(* Extents of memory and ranges of frames (shared/src/memory/addr.rs and   *)
(* page.rs): pure arithmetic on unsigned addresses, with the points at     *)
(* which it overflows.                                                     *)
(***************************************************************************)
EXTENDS Integers

CONSTANTS
  MaxAddr,    \* u64::MAX
  PageSize    \* PAGE_SIZE

ASSUME AddressAssumption ==
  /\ MaxAddr \in Nat
  /\ PageSize \in Nat \ {0}
  /\ PageSize <= MaxAddr

Smaller(x, y) == IF x <= y THEN x ELSE y
Larger(x, y) == IF x >= y THEN x ELSE y

AlignDown(x, alignment) == x - (x % alignment)

AlignUp_next(x, alignment) == AlignDown(x + alignment, alignment)
AlignUp(x, alignment) == AlignDown(x + (alignment - 1), alignment)

\* align_u64_up adds before it masks, and overflows near the end.
AlignUpFits(x, alignment) == x + (alignment - 1) <= MaxAddr

(***************************************************************************)
(* Extents                                                                 *)
(***************************************************************************)

Extent(address, length) == [address |-> address, length |-> length]
NoExtent == Extent(0, 0)     \* None: an extent is never empty

\* What new_checked accepts.
Extents ==
  {e \in [address : 0 .. MaxAddr, length : 1 .. MaxAddr] :
     e.length <= MaxAddr - e.address}

FromRangeExclusive(begin, end) == Extent(begin, end - begin)
FromRangeInclusive(start, last) == Extent(start, (last - start) + 1)

EndAddress(e) == e.address + e.length
LastAddress(e) == e.address + e.length - 1

\* overlap, called with a.address <= b.address.
OverlapOrdered(a, b) ==
  IF b.address - a.address >= a.length
  THEN NoExtent
  ELSE Extent(b.address, Smaller(a.length - (b.address - a.address), b.length))

Overlap(a, b) ==
  IF a.address > b.address THEN OverlapOrdered(b, a) ELSE OverlapOrdered(a, b)

HasOverlap(a, b) == Overlap(a, b) # NoExtent

Contains(a, b) == Overlap(a, b) = b

Join(a, b) ==
  FromRangeInclusive(Smaller(a.address, b.address),
                     Larger(LastAddress(a), LastAddress(b)))

\* Without the check that something is left.
LeftDifference_unchecked(a, b) ==
  Extent(a.address, Smaller(a.length, Larger(b.address - a.address, 0)))

LeftDifference(a, b) ==
  IF a.address >= b.address
  THEN NoExtent
  ELSE Extent(a.address, Smaller(a.length, b.address - a.address))

RightDifference_keepLast(a, b) ==
  IF LastAddress(a) <= LastAddress(b)
  THEN NoExtent
  ELSE LET start == Larger(a.address, LastAddress(b))
       IN  Extent(start, a.length - (start - a.address))

RightDifference(a, b) ==
  IF LastAddress(a) <= LastAddress(b)
  THEN NoExtent
  ELSE LET start == Larger(a.address, EndAddress(b))
       IN  Extent(start, a.length - (start - a.address))

ShrinkToAlignment(e, alignment) ==
  LET start == AlignUp(e.address, alignment)
      end   == AlignDown(EndAddress(e), alignment)
  IN  IF end <= start THEN NoExtent ELSE FromRangeExclusive(start, end)

ExpandToAlignment(e, alignment) ==
  FromRangeExclusive(AlignDown(e.address, alignment),
                     AlignUp(EndAddress(e), alignment))

(***************************************************************************)
(* Frame ranges.  A frame is its index: start address \div PageSize.       *)
(***************************************************************************)

FrameRange(first, count) == [first |-> first, count |-> count]
NoFrames == FrameRange(0, 0)     \* None: a range is never empty

FramesIn(r) == r.first .. (r.first + r.count - 1)

\* FrameRange::new: the last frame must be addressable.
NewFrameRange(first, count) ==
  IF count = 0 \/ (first + count - 1) * PageSize > MaxAddr
  THEN NoFrames
  ELSE FrameRange(first, count)

\* Frame::containing
FrameOf(address) == AlignDown(address, PageSize) \div PageSize

BetweenInclusive(first, last) == NewFrameRange(first, last - first + 1)

ContainingExtent(e) == BetweenInclusive(FrameOf(e.address), FrameOf(LastAddress(e)))

\* contained_by_extent's subtraction underflows below the second page, and its
\* rounding overflows near the end of the address space.
ContainedPanics(e) ==
  \/ ~AlignUpFits(e.address, PageSize)
  \/ LastAddress(e) < PageSize

ContainedByExtent_roundOut(e) ==
  LET first == AlignDown(e.address, PageSize)
      last  == AlignDown(LastAddress(e) - PageSize + 1, PageSize)
  IN  IF first >= last
      THEN NoFrames
      ELSE NewFrameRange(first \div PageSize, (last - first) \div PageSize)

ContainedByExtent(e) ==
  LET first == AlignUp(e.address, PageSize)
      last  == AlignDown(LastAddress(e) - PageSize + 1, PageSize)
  IN  IF first >= last
      THEN NoFrames
      ELSE NewFrameRange(first \div PageSize, (last - first) \div PageSize)
==============================================================================
