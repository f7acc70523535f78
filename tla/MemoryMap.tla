------------------------------ MODULE MemoryMap ------------------------------
(***************************************************************************)
(* The physical memory map of shared/src/memory.rs and the frame bitmap    *)
(* built from it (shared/src/memory/alloc/phys.rs), as operators:          *)
(*   - KernelAreaMarker::next, one call of the iterator that splits map    *)
(*     entries where kernel data lies;                                     *)
(*   - one round of the loop of fill_bitmap_from_map.                      *)
(* The bitmap is the set of the frames whose bit is 1 (free).              *)
(***************************************************************************)
EXTENDS Extents, Sequences

FRAMES_PER_ENTRY == 8      \* frames per byte of the bitmap

MemoryTypes == {"Available", "Acpi", "Reserved", "KernelLoad"}

MapEntry(extent, type) == [extent |-> extent, mem_type |-> type]

\* Sorted by address and not overlapping: what Map and mark_kernel_areas ask for.
SortedExtents(s) ==
  \A i, j \in 1 .. Len(s) : i < j => EndAddress(s[i]) <= s[j].address

SortedEntries(s) == SortedExtents([i \in 1 .. Len(s) |-> s[i].extent])

(***************************************************************************)
(* KernelAreaMarker                                                        *)
(***************************************************************************)

\* The loop that drops the kernel areas that lie before cur.
SkipAreas(areas, cur) ==
  LET stays == {i \in 1 .. Len(areas) :
                  HasOverlap(areas[i], cur) \/ areas[i].address >= cur.address}
  IN  IF stays = {}
      THEN << >>
      ELSE SubSeq(areas, CHOOSE i \in stays : \A j \in stays : i <= j, Len(areas))

Optional(extent, type) ==
  IF extent = NoExtent THEN << >> ELSE << MapEntry(extent, type) >>

Marked(parts, regions, areas) ==
  [parts |-> parts, regions |-> regions, areas |-> areas]

\* The area is used up by the region it splits.
SplitAt_consume(cur, kernel, regions, areas) ==
  Marked(Optional(LeftDifference(cur.extent, kernel), cur.mem_type)
           \o << MapEntry(Overlap(cur.extent, kernel), "KernelLoad") >>,
         Optional(RightDifference(cur.extent, kernel), cur.mem_type) \o regions,
         Tail(areas))

\* The kernel part is yielded before the left one.
SplitAt_kernelFirst(cur, kernel, regions, areas) ==
  Marked(<< MapEntry(Overlap(cur.extent, kernel), "KernelLoad") >>
           \o Optional(LeftDifference(cur.extent, kernel), cur.mem_type),
         Optional(RightDifference(cur.extent, kernel), cur.mem_type) \o regions,
         areas)

\* The two parts are yielded, the right one and the area are put back: either
\* may overlap what comes next.
SplitAt(cur, kernel, regions, areas) ==
  Marked(Optional(LeftDifference(cur.extent, kernel), cur.mem_type)
           \o << MapEntry(Overlap(cur.extent, kernel), "KernelLoad") >>,
         Optional(RightDifference(cur.extent, kernel), cur.mem_type) \o regions,
         areas)

\* next() on a non-empty sequence of regions: the parts it yields, and the
\* regions and kernel areas it leaves (put_back is a push at the front).
MarkerNext(regions, areas) ==
  LET cur  == Head(regions)
      left == SkipAreas(areas, cur.extent)
  IN  IF cur.mem_type \notin {"Available", "Acpi"}
      THEN Marked(<< cur >>, Tail(regions), areas)
      ELSE IF left = << >>
      THEN Marked(<< cur >>, Tail(regions), << >>)
      ELSE IF /\ ~HasOverlap(Head(left), cur.extent)
              /\ Head(left).address > cur.extent.address
      THEN Marked(<< cur >>, Tail(regions), left)
      ELSE SplitAt(cur, Head(left), Tail(regions), left)

(***************************************************************************)
(* The bitmap                                                              *)
(***************************************************************************)

\* iter_map_frames on one entry: its whole frames, if it has any.
MapFrames(entry) ==
  LET aligned == ShrinkToAlignment(entry.extent, PageSize)
  IN  IF aligned = NoExtent THEN NoFrames ELSE ContainingExtent(aligned)

CeilDivide_floor(x, divisor) == x \div divisor
CeilDivide(x, divisor) == (x + divisor - 1) \div divisor

\* The length that fill_bitmap_from_map asserts: a byte of the bitmap for
\* every byte's worth of frames up to the end of the last entry.
BitmapLongEnough(numBytes, entries) ==
  numBytes >= CeilDivide(EndAddress(entries[Len(entries)].extent),
                         PageSize * FRAMES_PER_ENTRY)

FirstAligned(r) == AlignUp(r.first, FRAMES_PER_ENTRY)
EndFrame(r) == r.first + r.count
EndAligned(r) == AlignDown(EndFrame(r), FRAMES_PER_ENTRY)

\* set_most_significant_bits and set_least_significant_bits, as the bits
\* they set in the byte that holds `frame`.
MostSignificantBits(frame, n) ==
  LET byte == AlignDown(frame, FRAMES_PER_ENTRY)
  IN  {byte + bit : bit \in (FRAMES_PER_ENTRY - n) .. (FRAMES_PER_ENTRY - 1)}
LeastSignificantBits(frame, n) ==
  LET byte == AlignDown(frame, FRAMES_PER_ENTRY)
  IN  {byte + bit : bit \in 0 .. (n - 1)}

\* `end_aligned - 1` in the assertion on the trailing byte underflows when the
\* range ends inside the first byte of the bitmap.
FillPanics(r) == EndFrame(r) # EndAligned(r) /\ EndAligned(r) = 0

\* The body of the loop for one range of available frames.
FillRange(bitmap, r) ==
  bitmap
    \cup FirstAligned(r) .. (EndAligned(r) - 1)
    \cup MostSignificantBits(r.first, FirstAligned(r) - r.first)
    \cup LeastSignificantBits(EndFrame(r), EndFrame(r) - EndAligned(r))
==============================================================================
