----------------------------- MODULE ExtentChecks -----------------------------
(***************************************************************************)
(* The arithmetic of Extents against what its doc comments promise, stated *)
(* on sets of addresses, for two extents and an alignment.                 *)
(***************************************************************************)
EXTENDS Extents

VARIABLES
  a, b,         \* two extents
  alignment     \* a power of two

Points(e) == e.address .. (e.address + e.length - 1)

Aligned(x) == x % alignment = 0

\* The frames that lie wholly in e.
WholeFrames(e) ==
  {f \in 0 .. (MaxAddr \div PageSize) :
     f * PageSize >= e.address /\ (f + 1) * PageSize <= EndAddress(e)}

\* overlap is the intersection, left_difference and right_difference are what
\* lies before and after the other extent, so that the three pieces
\* KernelAreaMarker cuts a region into are exactly the region.
DifferencesPartition ==
  /\ Points(Overlap(a, b)) = Points(a) \cap Points(b)
  /\ Overlap(a, b) = Overlap(b, a)
  /\ Points(LeftDifference(a, b)) = {x \in Points(a) : x < b.address}
  /\ Points(RightDifference(a, b)) = {x \in Points(a) : x > LastAddress(b)}
  /\ HasOverlap(a, b) <=> Points(a) \cap Points(b) # {}
  /\ Contains(a, b) <=> Points(b) \subseteq Points(a)

\* join is "the smallest extent that contains `self` and `other`" (addr.rs:282).
JoinIsSmallest ==
  /\ Points(a) \cup Points(b) \subseteq Points(Join(a, b))
  /\ {Join(a, b).address, LastAddress(Join(a, b))} \subseteq Points(a) \cup Points(b)

\* shrink_to_alignment returns "the largest extent completely contained in
\* `self` whose start and end addresses are aligned" (addr.rs:338), and
\* expand_to_alignment the smallest one around it (addr.rs:354), as long as
\* rounding up does not leave the address space.
AlignmentIsTight ==
  /\ AlignUpFits(a.address, alignment) =>
       LET s == ShrinkToAlignment(a, alignment)
       IN  /\ s # NoExtent =>
                Aligned(s.address) /\ Aligned(s.length) /\ Points(s) \subseteq Points(a)
           /\ \A e \in Extents :
                Aligned(e.address) /\ Aligned(e.length) /\ Contains(a, e)
                  => s # NoExtent /\ Points(e) \subseteq Points(s)
  /\ AlignUpFits(EndAddress(a), alignment) =>
       LET s == ExpandToAlignment(a, alignment)
       IN  /\ Aligned(s.address) /\ Aligned(s.length)
           /\ Points(a) \subseteq Points(s)
           /\ a.address - s.address < alignment
           /\ EndAddress(s) - EndAddress(a) < alignment

\* containing_extent is "the minimal range fully containing `extent`"
\* (page.rs:156): every frame of it meets the extent.
ContainingIsMinimal ==
  FramesIn(ContainingExtent(a)) = {FrameOf(x) : x \in Points(a)}

\* contained_by_extent returns the frames wholly inside the extent except the
\* last of them: the frames that another such frame follows.
ContainedLeavesOutLast ==
  ~ContainedPanics(a) =>
    FramesIn(ContainedByExtent(a)) = {f \in WholeFrames(a) : f + 1 \in WholeFrames(a)}

\* What rounding to a boundary keeps, wherever the extent starts and ends, as
\* mm::init uses it.  Extent's alignments and containing_extent lose and add
\* nothing they could do without.  contained_by_extent always loses the last
\* whole frame, which is one more than it must (ContainedIsMaximal is false),
\* and nothing else.
RoundingIsExact == AlignmentIsTight /\ ContainingIsMinimal /\ ContainedLeavesOutLast

\* contained_by_extent is "the maximal range fully contained in `extent`"
\* (page.rs:163).
ContainedIsMaximal ==
  ~ContainedPanics(a) => FramesIn(ContainedByExtent(a)) = WholeFrames(a)
==============================================================================
