--------------------------- MODULE MarkKernelAreas ---------------------------
(***************************************************************************)
(* mark_kernel_areas as the iterator it returns is run: one step per call  *)
(* of KernelAreaMarker::next, from every sorted memory map and every       *)
(* sorted list of kernel areas of a small address space.  The extents a    *)
(* call compares, which are all pairs there are, are those of ExtentChecks.*)
(***************************************************************************)
EXTENDS MemoryMap, ExtentChecks

CONSTANTS
  MaxRegions,   \* entries of the memory map
  MaxAreas,     \* kernel areas
  Alignments    \* powers of two

VARIABLES
  map,        \* the memory map given to mark_kernel_areas
  kernel,     \* the kernel areas given to it
  regions,    \* KernelAreaMarker::regions: what is left, with what was put back
  areas,      \* KernelAreaMarker::kernel_areas
  out         \* the entries yielded so far

vars == <<map, kernel, regions, areas, out, a, b, alignment>>

UpTo(n, S) == UNION {[1 .. k -> S] : k \in 0 .. n}

Init ==
  /\ map \in {s \in UpTo(MaxRegions, [extent : Extents,
                                      mem_type : {"Available", "Reserved"}]) :
                SortedEntries(s)}
  /\ kernel \in {s \in UpTo(MaxAreas, Extents) : SortedExtents(s)}
  /\ regions = map
  /\ areas = kernel
  /\ out = << >>
  /\ a = Extent(0, 1) /\ b = Extent(0, 1)
  /\ alignment \in Alignments

Step ==
  /\ regions # << >>
  /\ LET m == MarkerNext(regions, areas)
     IN  /\ out' = out \o m.parts
         /\ regions' = m.regions
         /\ areas' = m.areas
  /\ a' = Head(regions).extent
  /\ b' = IF areas = << >> THEN b ELSE Head(areas)
  /\ UNCHANGED <<map, kernel, alignment>>

Exhausted == regions = << >> /\ UNCHANGED vars

Next == Step \/ Exhausted

Spec == Init /\ [][Next]_vars

(***************************************************************************)
(* Properties                                                              *)
(***************************************************************************)

Covers(extent, x) == extent.address <= x /\ x < EndAddress(extent)

\* The types a sequence of entries gives to the byte at x: at most one.
TypesAt(entries, x) ==
  {entries[i].mem_type : i \in {j \in 1 .. Len(entries) : Covers(entries[j].extent, x)}}

\* What the byte at x should be marked as.
MarkedTypesAt(x) ==
  IF /\ "Available" \in TypesAt(map, x)
     /\ \E i \in 1 .. Len(kernel) : Covers(kernel[i], x)
  THEN {"KernelLoad"}
  ELSE TypesAt(map, x)

Yielded(x) == \E i \in 1 .. Len(out) : Covers(out[i].extent, x)

\* At every call, each byte of the map is either yielded with its corrected
\* type or still to come with its original one: no region and no kernel area
\* is lost or applied twice by the skipping and the two put_backs.
MarkedExactly ==
  \A x \in 0 .. MaxAddr :
    IF Yielded(x)
    THEN TypesAt(out, x) = MarkedTypesAt(x) /\ TypesAt(regions, x) = {}
    ELSE TypesAt(regions, x) = TypesAt(map, x)

\* mark_kernel_areas "returns a sorted sequence of corrected regions"
\* (memory.rs:66), which the next pass over it and Map both rely on.
OutputSorted == SortedEntries(out \o regions)

\* A pass adds at most two entries per kernel area, which is what keeps the
\* corrected map within the 128 entries that Map::from_entries asserts.
AtMostTwoMorePerArea == Len(out) + Len(regions) <= Len(map) + 2 * Len(kernel)
==============================================================================
