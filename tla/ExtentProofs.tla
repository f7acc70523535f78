---------------------------- MODULE ExtentProofs ----------------------------
(***************************************************************************)
(* Proofs for every size of the address space, page size, map and list of  *)
(* kernel areas: the pieces KernelAreaMarker and BootMemory cut regions    *)
(* into, the rounding of extents to an alignment and to frames, and the    *)
(* run of mark_kernel_areas over a whole map.                              *)
(***************************************************************************)
EXTENDS MarkKernelAreas, NaturalsInduction, WellFoundedInduction, TLAPS

\* What every extent satisfies: it is not empty and ends in the address space.
LEMMA ExtentFields ==
  ASSUME NEW e \in Extents
  PROVE  /\ e.address \in Nat /\ e.length \in Nat \ {0}
         /\ e.address + e.length <= MaxAddr
         /\ e = Extent(e.address, e.length)
BY AddressAssumption DEF Extents, Extent

\* An extent and its addresses determine each other, None being no addresses.
LEMMA PointsDetermine ==
  ASSUME NEW p \in Nat, NEW n \in Nat, NEW q \in Nat, NEW m \in Nat \ {0},
         Points(Extent(p, n)) = Points(Extent(q, m))
  PROVE  p = q /\ n = m
<1> DEFINE P == p .. (p + n - 1)
           Q == q .. (q + m - 1)
<1>1. P = Q
  BY DEF Points, Extent
<1>2. q \in Q /\ q + m - 1 \in Q
  OBVIOUS
<1>3. q \in P /\ q + m - 1 \in P
  BY <1>1, <1>2
<1>4. p \in P /\ p + n - 1 \in P
  BY <1>3
<1>5. p \in Q /\ p + n - 1 \in Q
  BY <1>1, <1>4
<1> QED BY <1>3, <1>5

\* overlap is the intersection.
LEMMA OverlapIsIntersection ==
  ASSUME NEW x \in Extents, NEW y \in Extents
  PROVE  Points(Overlap(x, y)) = Points(x) \cap Points(y)
<1>1. /\ x.address \in Nat /\ x.length \in Nat \ {0}
      /\ y.address \in Nat /\ y.length \in Nat \ {0}
  BY ExtentFields
<1> QED BY <1>1 DEF Overlap, OverlapOrdered, Smaller, Points, Extent, NoExtent

LEMMA OverlapCommutes ==
  ASSUME NEW x \in Extents, NEW y \in Extents
  PROVE  Overlap(x, y) = Overlap(y, x)
<1>1. /\ x.address \in Nat /\ x.length \in Nat \ {0}
      /\ y.address \in Nat /\ y.length \in Nat \ {0}
  BY ExtentFields
<1> QED BY <1>1 DEF Overlap, OverlapOrdered, Smaller, Extent, NoExtent

\* overlap answers None or an extent with the later start.
LEMMA OverlapShape ==
  ASSUME NEW x \in Extents, NEW y \in Extents, Overlap(x, y) # NoExtent
  PROVE  \E n \in Nat \ {0} : Overlap(x, y) = Extent(Larger(x.address, y.address), n)
<1>1. /\ x.address \in Nat /\ x.length \in Nat \ {0}
      /\ y.address \in Nat /\ y.length \in Nat \ {0}
  BY ExtentFields
<1>2. CASE x.address > y.address
  <2>1. Overlap(x, y) = Extent(x.address, Smaller(y.length - (x.address - y.address), x.length))
    BY <1>2 DEF Overlap, OverlapOrdered
  <2>2. Smaller(y.length - (x.address - y.address), x.length) \in Nat \ {0}
    BY <1>1, <1>2 DEF Overlap, OverlapOrdered, Smaller
  <2> QED BY <1>1, <1>2, <2>1, <2>2 DEF Larger
<1>3. CASE ~(x.address > y.address)
  <2>1. Overlap(x, y) = Extent(y.address, Smaller(x.length - (y.address - x.address), y.length))
    BY <1>3 DEF Overlap, OverlapOrdered
  <2>2. Smaller(x.length - (y.address - x.address), y.length) \in Nat \ {0}
    BY <1>1, <1>3 DEF Overlap, OverlapOrdered, Smaller
  <2>3. Larger(x.address, y.address) = y.address
    BY <1>1, <1>3 DEF Larger
  <2> QED BY <2>1, <2>2, <2>3
<1> QED BY <1>2, <1>3

LEMMA HasOverlapIsMeeting ==
  ASSUME NEW x \in Extents, NEW y \in Extents
  PROVE  HasOverlap(x, y) <=> Points(x) \cap Points(y) # {}
<1>1. Points(NoExtent) = {}
  BY DEF Points, NoExtent, Extent
<1>2. ASSUME Overlap(x, y) # NoExtent PROVE Points(Overlap(x, y)) # {}
  <2>1. PICK n \in Nat \ {0} : Overlap(x, y) = Extent(Larger(x.address, y.address), n)
    BY <1>2, OverlapShape
  <2>2. Larger(x.address, y.address) \in Nat
    BY ExtentFields DEF Larger
  <2>3. Larger(x.address, y.address) \in Points(Overlap(x, y))
    BY <2>1, <2>2 DEF Points, Extent
  <2> QED BY <2>3
<1> QED BY <1>1, <1>2, OverlapIsIntersection DEF HasOverlap

LEMMA ContainsIsInclusion ==
  ASSUME NEW x \in Extents, NEW y \in Extents
  PROVE  Contains(x, y) <=> Points(y) \subseteq Points(x)
<1>1. Points(Overlap(x, y)) = Points(x) \cap Points(y)
  BY OverlapIsIntersection
<1>2. ASSUME Points(y) \subseteq Points(x) PROVE Overlap(x, y) = y
  <2>1. /\ y.address \in Nat /\ y.length \in Nat \ {0} /\ y = Extent(y.address, y.length)
    BY ExtentFields
  <2>2. y.address \in Points(y)
    BY <2>1 DEF Points
  <2>3. Overlap(x, y) # NoExtent
    BY <1>1, <1>2, <2>2, HasOverlapIsMeeting DEF HasOverlap
  <2>4. PICK n \in Nat \ {0} : Overlap(x, y) = Extent(Larger(x.address, y.address), n)
    BY <2>3, OverlapShape
  <2>5. Larger(x.address, y.address) \in Nat
    BY ExtentFields DEF Larger
  <2>6. Points(Extent(Larger(x.address, y.address), n)) = Points(Extent(y.address, y.length))
    BY <1>1, <1>2, <2>1, <2>4
  <2>7. Larger(x.address, y.address) = y.address /\ n = y.length
    BY <2>1, <2>5, <2>6, PointsDetermine
  <2> QED BY <2>1, <2>4, <2>7
<1> QED BY <1>1, <1>2 DEF Contains

\* What left_difference and right_difference keep.
LEMMA DifferencesAreSides ==
  ASSUME NEW x \in Extents, NEW y \in Extents
  PROVE  /\ Points(LeftDifference(x, y)) = {p \in Points(x) : p < y.address}
         /\ Points(RightDifference(x, y)) = {p \in Points(x) : p > LastAddress(y)}
<1>1. /\ x.address \in Nat /\ x.length \in Nat \ {0}
      /\ y.address \in Nat /\ y.length \in Nat \ {0}
  BY ExtentFields
<1>2. Points(LeftDifference(x, y)) = {p \in Points(x) : p < y.address}
  BY <1>1 DEF LeftDifference, Smaller, Points, Extent, NoExtent
<1>3. Points(RightDifference(x, y)) = {p \in Points(x) : p > LastAddress(y)}
  BY <1>1 DEF RightDifference, Larger, LastAddress, EndAddress, Points, Extent, NoExtent
<1> QED BY <1>2, <1>3

\* The three pieces mark_kernel_areas cuts a region into make up the region, in
\* every address space.
THEOREM PiecesPartition ==
  ASSUME a \in Extents, b \in Extents
  PROVE  DifferencesPartition
BY OverlapIsIntersection, OverlapCommutes, DifferencesAreSides, HasOverlapIsMeeting,
   ContainsIsInclusion DEF DifferencesPartition

\* join answers the smallest extent around two others, in every address space.
THEOREM JoinSmallest ==
  ASSUME a \in Extents, b \in Extents
  PROVE  JoinIsSmallest
<1>1. /\ a.address \in Nat /\ a.length \in Nat \ {0}
      /\ b.address \in Nat /\ b.length \in Nat \ {0}
  BY ExtentFields
<1>2. Points(a) \cup Points(b) \subseteq Points(Join(a, b))
  BY <1>1 DEF Points, Join, FromRangeInclusive, LastAddress, Smaller, Larger, Extent
<1>3. Join(a, b).address \in Points(a) \cup Points(b)
  BY <1>1 DEF Points, Join, FromRangeInclusive, LastAddress, Smaller, Larger, Extent
<1>4. LastAddress(Join(a, b)) \in Points(a) \cup Points(b)
  <2>1. LastAddress(Join(a, b)) = Larger(LastAddress(a), LastAddress(b))
    BY <1>1 DEF Join, FromRangeInclusive, LastAddress, Smaller, Larger, Extent
  <2>2. LastAddress(a) \in Points(a) /\ LastAddress(b) \in Points(b)
    BY <1>1 DEF LastAddress, Points
  <2> QED BY <2>1, <2>2 DEF Larger
<1> QED BY <1>2, <1>3, <1>4 DEF JoinIsSmallest

-----------------------------------------------------------------------------
(***************************************************************************)
(* Rounding.  Everything is said with multiples, n * k, so that no step    *)
(* needs more of division than these first lemmas.                         *)
(***************************************************************************)

\* align_down answers the multiple just at or below x.
LEMMA DownIsMultiple ==
  ASSUME NEW x \in Nat, NEW n \in Nat \ {0}
  PROVE  \E k \in Nat : AlignDown(x, n) = n * k /\ n * k <= x /\ x < n * k + n
<1> DEFINE k == x \div n
           r == x % n
<1>1. k \in Nat /\ r \in Nat /\ r < n /\ x = n * k + r
  OBVIOUS
<1>2. AlignDown(x, n) = x - r
  BY DEF AlignDown
<1> HIDE DEF k, r
<1>3. n * k \in Nat
  BY <1>1
<1>4. AlignDown(x, n) = n * k /\ n * k <= x /\ x < n * k + n
  BY <1>1, <1>2, <1>3
<1>5. QED
  BY <1>1, <1>4

\* align_up answers the multiple just at or above x.
LEMMA UpIsMultiple ==
  ASSUME NEW x \in Nat, NEW n \in Nat \ {0}
  PROVE  \E k \in Nat : AlignUp(x, n) = n * k /\ x <= n * k /\ n * k < x + n
<1>1. x + (n - 1) \in Nat
  OBVIOUS
<1>2. PICK k \in Nat : /\ AlignDown(x + (n - 1), n) = n * k
                       /\ n * k <= x + (n - 1) /\ x + (n - 1) < n * k + n
  BY <1>1, DownIsMultiple
<1>3. n * k \in Nat
  BY <1>2
<1>4. x <= n * k /\ n * k < x + n
  BY <1>2, <1>3
<1>5. QED
  BY <1>2, <1>4 DEF AlignUp

LEMMA MultiplesOrdered ==
  ASSUME NEW n \in Nat \ {0}, NEW j \in Nat, NEW k \in Nat
  PROVE  /\ n * j \in Nat /\ n * k \in Nat
         /\ n * j < n * k + n => j <= k
         /\ j <= k => n * j <= n * k
         /\ (n * k) % n = 0
         /\ (n * k) \div n = k
         /\ j <= k => (n * k - n * j) % n = 0 /\ (n * k - n * j) \div n = k - j
<1>1. n * j \in Nat /\ n * k \in Nat
  OBVIOUS
<1>2. ASSUME j > k PROVE n * j >= n * k + n
  <2>1. n * j = n * k + n + n * (j - k - 1)
    OBVIOUS
  <2>2. j - k - 1 \in Nat /\ n * (j - k - 1) \in Nat
    BY <1>2
  <2>3. QED
    BY <1>1, <2>1, <2>2
<1>3. ASSUME j <= k PROVE n * j <= n * k /\ k - j \in Nat /\ n * k - n * j = n * (k - j)
  <2>1. n * k = n * j + n * (k - j) /\ k - j \in Nat /\ n * (k - j) \in Nat
    BY <1>3
  <2>2. QED
    BY <1>1, <2>1
<1>4. ASSUME NEW i \in Nat PROVE (n * i) % n = 0 /\ (n * i) \div n = i
  BY SMT
<1>5. QED
  BY <1>1, <1>2, <1>3, <1>4

LEMMA MultipleOf ==
  ASSUME NEW n \in Nat \ {0}, NEW y \in Nat, y % n = 0
  PROVE  \E k \in Nat : y = n * k
<1>1. y \div n \in Nat /\ y = n * (y \div n) + (y % n)
  OBVIOUS
<1>2. QED
  BY <1>1

\* No multiple lies between x and what it is rounded to.
LEMMA RoundingStops ==
  ASSUME NEW n \in Nat \ {0}, NEW x \in Nat, NEW y \in Nat, y % n = 0
  PROVE  /\ y <= x => y <= AlignDown(x, n)
         /\ x <= y => AlignUp(x, n) <= y
<1>1. PICK j \in Nat : y = n * j
  BY MultipleOf
<1>2. PICK d \in Nat : AlignDown(x, n) = n * d /\ n * d <= x /\ x < n * d + n
  BY DownIsMultiple
<1>3. PICK u \in Nat : AlignUp(x, n) = n * u /\ x <= n * u /\ n * u < x + n
  BY UpIsMultiple
<1>4. ASSUME y <= x PROVE y <= AlignDown(x, n)
  <2>1. n * j < n * d + n
    BY <1>1, <1>2, <1>4
  <2>2. QED
    BY <1>1, <1>2, <2>1, MultiplesOrdered
<1>5. ASSUME x <= y PROVE AlignUp(x, n) <= y
  <2>1. n * u < n * j + n
    BY <1>1, <1>3, <1>5
  <2>2. QED
    BY <1>1, <1>3, <2>1, MultiplesOrdered
<1>6. QED
  BY <1>4, <1>5

LEMMA InclusionIsOrder ==
  ASSUME NEW x \in Extents, NEW y \in Extents, Points(y) \subseteq Points(x)
  PROVE  x.address <= y.address /\ EndAddress(y) <= EndAddress(x)
<1>1. /\ x.address \in Nat /\ x.length \in Nat \ {0}
      /\ y.address \in Nat /\ y.length \in Nat \ {0}
  BY ExtentFields
<1>2. y.address \in Points(y) /\ y.address + y.length - 1 \in Points(y)
  BY <1>1 DEF Points
<1>3. QED
  BY <1>1, <1>2 DEF Points, EndAddress

\* shrink_to_alignment answers the largest aligned extent inside another.
LEMMA ShrinkIsLargest ==
  ASSUME NEW x \in Extents, NEW n \in Nat \ {0}
  PROVE  LET s == ShrinkToAlignment(x, n)
         IN  /\ s # NoExtent =>
                  s.address % n = 0 /\ s.length % n = 0 /\ Points(s) \subseteq Points(x)
             /\ \A e \in Extents :
                  e.address % n = 0 /\ e.length % n = 0 /\ Contains(x, e)
                    => s # NoExtent /\ Points(e) \subseteq Points(s)
<1> DEFINE start == AlignUp(x.address, n)
           end == AlignDown(EndAddress(x), n)
           s == ShrinkToAlignment(x, n)
<1>1. x.address \in Nat /\ x.length \in Nat \ {0} /\ EndAddress(x) \in Nat
  BY ExtentFields DEF EndAddress
<1>2. PICK u \in Nat : start = n * u /\ x.address <= n * u
  BY <1>1, UpIsMultiple
<1>3. PICK d \in Nat : end = n * d /\ n * d <= EndAddress(x)
  BY <1>1, DownIsMultiple
<1>4. n * u \in Nat /\ n * d \in Nat
  BY MultiplesOrdered
<1>5. s = IF end <= start THEN NoExtent ELSE Extent(start, end - start)
  BY DEF ShrinkToAlignment, FromRangeExclusive
<1> HIDE DEF start, end, s
<1>6. ASSUME s # NoExtent
      PROVE  s.address % n = 0 /\ s.length % n = 0 /\ Points(s) \subseteq Points(x)
  <2>1. n * u < n * d /\ s = Extent(n * u, n * d - n * u)
    BY <1>2, <1>3, <1>4, <1>5, <1>6
  <2>2. s.address = n * u /\ s.length = n * d - n * u
    BY <2>1 DEF Extent
  <2>3. u <= d
    BY <1>4, <2>1, MultiplesOrdered
  <2>4. s.address % n = 0 /\ s.length % n = 0
    BY <2>2, <2>3, MultiplesOrdered
  <2>5. Points(s) \subseteq Points(x)
    BY <1>1, <1>2, <1>3, <1>4, <2>1, <2>2 DEF Points, EndAddress
  <2>6. QED
    BY <2>4, <2>5
<1>7. ASSUME NEW e \in Extents, e.address % n = 0, e.length % n = 0, Contains(x, e)
      PROVE  s # NoExtent /\ Points(e) \subseteq Points(s)
  <2>1. e.address \in Nat /\ e.length \in Nat \ {0} /\ EndAddress(e) \in Nat
    BY ExtentFields DEF EndAddress
  <2>2. x.address <= e.address /\ EndAddress(e) <= EndAddress(x)
    BY <1>7, ContainsIsInclusion, InclusionIsOrder
  <2>3. EndAddress(e) % n = 0
    <3>0. (\E i \in Nat : e.address = n * i) /\ (\E j \in Nat : e.length = n * j)
      <4>1. e.address \in Nat /\ e.length \in Nat
        BY <2>1
      <4>2. \E i \in Nat : e.address = n * i
        BY <1>7, <4>1, MultipleOf
      <4>3. \E j \in Nat : e.length = n * j
        BY <1>7, <4>1, MultipleOf
      <4> QED BY <4>2, <4>3
    <3>1. PICK i \in Nat, j \in Nat : e.address = n * i /\ e.length = n * j
      BY <3>0
    <3>2. e.address + e.length = n * (i + j) /\ i + j \in Nat
      BY <3>1
    <3>3. QED
      BY <3>2, MultiplesOrdered DEF EndAddress
  <2>4. start <= e.address /\ EndAddress(e) <= end
    BY <1>1, <1>7, <2>1, <2>2, <2>3, RoundingStops DEF start, end
  <2>5. start < end
    BY <1>2, <1>3, <1>4, <2>1, <2>4 DEF EndAddress
  <2>6. s = Extent(start, end - start)
    BY <1>2, <1>3, <1>4, <1>5, <2>5
  <2>7. s.address = start /\ s.length = end - start
    BY <2>6 DEF Extent
  <2>8. s # NoExtent
    BY <1>2, <1>3, <1>4, <2>5, <2>7 DEF NoExtent, Extent
  <2>9. Points(e) \subseteq Points(s)
    BY <1>2, <1>3, <1>4, <2>1, <2>4, <2>7 DEF Points, EndAddress
  <2>10. QED
    BY <2>8, <2>9
<1>8. QED
  BY <1>6, <1>7 DEF s

\* expand_to_alignment answers the smallest aligned extent around another.
LEMMA ExpandIsSmallest ==
  ASSUME NEW x \in Extents, NEW n \in Nat \ {0}
  PROVE  LET s == ExpandToAlignment(x, n)
         IN  /\ s.address % n = 0 /\ s.length % n = 0
             /\ Points(x) \subseteq Points(s)
             /\ x.address - s.address < n
             /\ EndAddress(s) - EndAddress(x) < n
<1> DEFINE s == ExpandToAlignment(x, n)
<1>1. /\ x.address \in Nat /\ x.length \in Nat \ {0}
      /\ EndAddress(x) = x.address + x.length /\ EndAddress(x) \in Nat
  BY ExtentFields DEF EndAddress
<1>2. PICK d \in Nat : AlignDown(x.address, n) = n * d /\ n * d <= x.address /\ x.address < n * d + n
  BY <1>1, DownIsMultiple
<1>3. PICK u \in Nat : /\ AlignUp(EndAddress(x), n) = n * u
                       /\ EndAddress(x) <= n * u /\ n * u < EndAddress(x) + n
  BY <1>1, UpIsMultiple
<1>4. n * u \in Nat /\ n * d \in Nat
  BY MultiplesOrdered
<1>5. s.address = n * d /\ s.length = n * u - n * d
  BY <1>2, <1>3 DEF ExpandToAlignment, FromRangeExclusive, Extent
<1>6. d <= u
  <2>1. n * d < n * u + n
    BY <1>1, <1>2, <1>3, <1>4
  <2>2. QED
    BY <2>1, MultiplesOrdered
<1> HIDE DEF s
<1>7. s.address % n = 0 /\ s.length % n = 0
  <2>1. (n * d) % n = 0 /\ (n * u - n * d) % n = 0
    BY <1>6, MultiplesOrdered
  <2>2. QED
    BY <1>5, <2>1
<1>8. Points(x) \subseteq Points(s)
  BY <1>1, <1>2, <1>3, <1>4, <1>5 DEF Points
<1>9. x.address - s.address < n /\ EndAddress(s) - EndAddress(x) < n
  BY <1>1, <1>2, <1>3, <1>4, <1>5 DEF EndAddress
<1>10. QED
  BY <1>7, <1>8, <1>9 DEF s

\* The frame of an address is the one whose bytes include it.
LEMMA FrameOfAddress ==
  ASSUME NEW x \in Nat
  PROVE  /\ FrameOf(x) \in Nat
         /\ PageSize * FrameOf(x) <= x /\ x < PageSize * FrameOf(x) + PageSize
         /\ PageSize * FrameOf(x) \in Nat
<1>1. PageSize \in Nat \ {0}
  BY AddressAssumption
<1>2. PICK k \in Nat : /\ AlignDown(x, PageSize) = PageSize * k
                       /\ PageSize * k <= x /\ x < PageSize * k + PageSize
  BY <1>1, DownIsMultiple
<1>3. FrameOf(x) = k /\ PageSize * k \in Nat
  BY <1>1, <1>2, MultiplesOrdered DEF FrameOf
<1>4. QED
  BY <1>2, <1>3

\* containing_extent answers the frames that meet an extent.
LEMMA ContainingIsMinimalFor ==
  ASSUME NEW x \in Extents
  PROVE  FramesIn(ContainingExtent(x)) = {FrameOf(p) : p \in Points(x)}
<1> DEFINE P == PageSize
           f == FrameOf(x.address)
           l == FrameOf(LastAddress(x))
<1>1. /\ x.address \in Nat /\ x.length \in Nat \ {0} /\ LastAddress(x) \in Nat
      /\ x.address <= LastAddress(x) /\ LastAddress(x) <= MaxAddr
      /\ LastAddress(x) = x.address + x.length - 1
      /\ P \in Nat \ {0} /\ MaxAddr \in Nat
  BY ExtentFields, AddressAssumption DEF LastAddress
<1>2. /\ f \in Nat /\ P * f \in Nat /\ P * f <= x.address /\ x.address < P * f + P
      /\ l \in Nat /\ P * l \in Nat /\ P * l <= LastAddress(x) /\ LastAddress(x) < P * l + P
  BY <1>1, FrameOfAddress
<1>3. f <= l
  <2>1. P * f < P * l + P
    BY <1>1, <1>2
  <2>2. QED
    BY <1>1, <1>2, <2>1, MultiplesOrdered
<1>4. ContainingExtent(x) = FrameRange(f, l - f + 1)
  <2>1. ContainingExtent(x) = NewFrameRange(f, l - f + 1)
    BY DEF ContainingExtent, BetweenInclusive
  <2> HIDE DEF f, l
  <2>2. (f + (l - f + 1) - 1) * PageSize = P * l
    BY <1>1, <1>2
  <2>3. l - f + 1 # 0
    BY <1>2, <1>3
  <2>4. ~((f + (l - f + 1) - 1) * PageSize > MaxAddr)
    BY <1>1, <1>2, <2>2
  <2>5. QED
    BY <2>1, <2>3, <2>4 DEF NewFrameRange
<1> HIDE DEF f, l
<1>5. FramesIn(ContainingExtent(x)) = f .. l
  BY <1>2, <1>3, <1>4 DEF FramesIn, FrameRange
<1>6. ASSUME NEW p \in Points(x) PROVE FrameOf(p) \in f .. l
  <2>1. p \in Nat /\ x.address <= p /\ p <= LastAddress(x)
    BY <1>1 DEF Points
  <2>2. FrameOf(p) \in Nat /\ P * FrameOf(p) <= p /\ p < P * FrameOf(p) + P /\ P * FrameOf(p) \in Nat
    BY <2>1, FrameOfAddress
  <2>3. P * f < P * FrameOf(p) + P /\ P * FrameOf(p) < P * l + P
    BY <1>1, <1>2, <2>1, <2>2
  <2>4. f <= FrameOf(p) /\ FrameOf(p) <= l
    BY <1>1, <1>2, <2>2, <2>3, MultiplesOrdered
  <2>5. QED
    BY <1>2, <2>2, <2>4
<1>7. ASSUME NEW k \in f .. l PROVE \E p \in Points(x) : FrameOf(p) = k
  <2>1. k \in Nat /\ P * k \in Nat /\ P * f <= P * k /\ P * k <= P * l
    BY <1>1, <1>2, MultiplesOrdered
  <2> DEFINE p == IF P * k <= x.address THEN x.address ELSE P * k
  <2>2. p \in Points(x) /\ p \in Nat
    BY <1>1, <1>2, <2>1 DEF Points
  <2>3. P * k <= p /\ p < P * k + P
    BY <1>1, <1>2, <2>1
  <2> HIDE DEF p
  <2>4. FrameOf(p) \in Nat /\ P * FrameOf(p) <= p /\ p < P * FrameOf(p) + P /\ P * FrameOf(p) \in Nat
    BY <2>2, FrameOfAddress
  <2>5. P * FrameOf(p) < P * k + P /\ P * k < P * FrameOf(p) + P
    BY <1>1, <2>1, <2>2, <2>3, <2>4
  <2>6. FrameOf(p) <= k /\ k <= FrameOf(p)
    BY <1>1, <2>1, <2>4, <2>5, MultiplesOrdered
  <2>7. QED
    BY <2>1, <2>2, <2>4, <2>6
<1>8. QED
  BY <1>5, <1>6, <1>7

\* contained_by_extent answers the frames that lie in the extent, all but the
\* last one.
LEMMA ContainedLeavesOutLastFor ==
  ASSUME NEW x \in Extents, ~ContainedPanics(x)
  PROVE  FramesIn(ContainedByExtent(x)) = {f \in WholeFrames(x) : f + 1 \in WholeFrames(x)}
<1> DEFINE P == PageSize
           r == ContainedByExtent(x)
           low == LastAddress(x) - P + 1
<1>1. /\ x.address \in Nat /\ LastAddress(x) \in Nat
      /\ LastAddress(x) <= MaxAddr /\ EndAddress(x) = LastAddress(x) + 1
      /\ P \in Nat \ {0} /\ MaxAddr \in Nat
  BY ExtentFields, AddressAssumption DEF LastAddress, EndAddress
<1>2. low \in Nat
  BY <1>1 DEF ContainedPanics
<1>3. PICK i \in Nat : AlignUp(x.address, P) = P * i /\ x.address <= P * i
  BY <1>1, UpIsMultiple
<1>4. PICK j \in Nat : AlignDown(low, P) = P * j /\ P * j <= low
  BY <1>1, <1>2, DownIsMultiple
<1>5. P * i \in Nat /\ P * j \in Nat
  BY <1>1, MultiplesOrdered
<1>6. FramesIn(r) = i .. (j - 1)
  <2>1. r = IF P * i >= P * j THEN NoFrames
            ELSE NewFrameRange((P * i) \div P, (P * j - P * i) \div P)
    BY <1>3, <1>4 DEF ContainedByExtent
  <2> HIDE DEF r
  <2>2. CASE i >= j
    <3>1. P * i >= P * j
      BY <1>1, <1>5, <2>2, MultiplesOrdered
    <3>2. r = NoFrames
      BY <2>1, <3>1
    <3>3. FramesIn(NoFrames) = {}
      BY DEF FramesIn, NoFrames, FrameRange
    <3>4. QED
      BY <2>2, <3>2, <3>3
  <2>3. CASE i < j
    <3>1. ~(P * i >= P * j)
      <4>1. P * i < P * j
        <5>1. i + 1 <= j /\ i + 1 \in Nat
          BY <2>3
        <5>2. P * (i + 1) <= P * j
          BY <1>1, <5>1, MultiplesOrdered
        <5>3. P * (i + 1) = P * i + P
          BY <1>1
        <5>4. QED
          BY <1>1, <1>5, <5>2, <5>3
      <4>2. QED
        BY <1>5, <4>1
    <3>2. (P * i) \div P = i /\ (P * j - P * i) \div P = j - i
      <4>1. i <= j
        BY <2>3
      <4> HIDE DEF P
      <4>2. (P * i) \div P = i
        BY <1>1, MultiplesOrdered
      <4>3. (P * j - P * i) \div P = j - i
        BY <1>1, <4>1, MultiplesOrdered
      <4>4. QED
        BY <4>2, <4>3
    <3>3. r = NewFrameRange(i, j - i)
      BY <2>1, <3>1, <3>2
    <3>4. (i + (j - i) - 1) * PageSize = P * j - P
      BY <1>1
    <3>5. ~(j - i = 0 \/ (i + (j - i) - 1) * PageSize > MaxAddr)
      BY <1>1, <1>2, <1>4, <1>5, <2>3, <3>4
    <3>6. r = FrameRange(i, j - i)
      BY <3>3, <3>5 DEF NewFrameRange
    <3>7. QED
      BY <3>6 DEF FramesIn, FrameRange
  <2>4. QED
    BY <2>2, <2>3
<1> HIDE DEF r, low
<1>7. ASSUME NEW f \in i .. j PROVE f \in WholeFrames(x)
  <2>1. f \in Nat /\ i <= f /\ f <= j
    OBVIOUS
  <2>2. P * i <= P * f /\ P * f <= P * j /\ P * f \in Nat
    BY <1>1, <2>1, MultiplesOrdered
  <2>3. f * P = P * f /\ (f + 1) * P = P * f + P
    BY <1>1, <2>1
  <2>4. f * P >= x.address /\ (f + 1) * P <= EndAddress(x)
    BY <1>1, <1>2, <1>3, <1>4, <1>5, <2>2, <2>3 DEF low
  <2>5. f <= MaxAddr \div P
    <3>1. P * f <= MaxAddr
      BY <1>1, <1>4, <1>5, <2>2, <2>3 DEF low
    <3>2. MaxAddr \div P \in Nat /\ MaxAddr < P * (MaxAddr \div P) + P
      BY <1>1
    <3>3. P * f < P * (MaxAddr \div P) + P
      BY <1>1, <2>2, <3>1, <3>2
    <3>4. QED
      BY <1>1, <2>1, <3>2, <3>3, MultiplesOrdered
  <2>6. MaxAddr \div P \in Nat
    BY <1>1
  <2>7. QED
    BY <2>1, <2>4, <2>5, <2>6 DEF WholeFrames
<1>8. ASSUME NEW f \in WholeFrames(x) PROVE f \in Nat /\ i <= f /\ f <= j
  <2>1. f \in Nat /\ f * P >= x.address /\ (f + 1) * P <= EndAddress(x)
    BY DEF WholeFrames
  <2>2. f * P = P * f /\ (f + 1) * P = P * f + P /\ P * f \in Nat /\ (P * f) % P = 0
    <3>1. f * P = P * f /\ (f + 1) * P = P * f + P /\ P * f \in Nat
      BY <1>1, <2>1
    <3> HIDE DEF P
    <3>2. (P * f) % P = 0
      BY <1>1, <2>1, MultiplesOrdered
    <3>3. QED
      BY <3>1, <3>2
  <2>3. P * i <= P * f
    BY <1>1, <1>3, <2>1, <2>2, RoundingStops
  <2>4. P * f <= P * j
    <3>1. P * f <= low
      BY <1>1, <2>1, <2>2 DEF low
    <3>2. QED
      BY <1>1, <1>2, <1>4, <2>2, <3>1, RoundingStops
  <2>5. P * i < P * f + P /\ P * f < P * j + P
    BY <1>1, <1>5, <2>2, <2>3, <2>4
  <2>6. QED
    BY <1>1, <2>1, <2>5, MultiplesOrdered
<1>9. ASSUME NEW f \in i .. (j - 1) PROVE f \in WholeFrames(x) /\ f + 1 \in WholeFrames(x)
  BY <1>7
<1>10. ASSUME NEW f \in WholeFrames(x), f + 1 \in WholeFrames(x) PROVE f \in i .. (j - 1)
  <2>1. i <= f /\ f + 1 <= j /\ f \in Nat
    BY <1>8, <1>10
  <2>2. QED
    BY <2>1
<1>11. QED
  BY <1>6, <1>9, <1>10 DEF r

\* In every address space and for every page size, the alignments of extents and
\* containing_extent lose and add no more than they must, and contained_by_extent
\* loses the last whole frame and nothing else.
THEOREM RoundingExact ==
  ASSUME a \in Extents, alignment \in Nat \ {0}
  PROVE  RoundingIsExact
<1>1. AlignmentIsTight
  <2>1. LET s == ShrinkToAlignment(a, alignment)
        IN  /\ s # NoExtent =>
                 Aligned(s.address) /\ Aligned(s.length) /\ Points(s) \subseteq Points(a)
            /\ \A e \in Extents :
                 Aligned(e.address) /\ Aligned(e.length) /\ Contains(a, e)
                   => s # NoExtent /\ Points(e) \subseteq Points(s)
    BY ShrinkIsLargest DEF Aligned
  <2>2. LET s == ExpandToAlignment(a, alignment)
        IN  /\ Aligned(s.address) /\ Aligned(s.length)
            /\ Points(a) \subseteq Points(s)
            /\ a.address - s.address < alignment
            /\ EndAddress(s) - EndAddress(a) < alignment
    BY ExpandIsSmallest DEF Aligned
  <2>3. QED
    BY <2>1, <2>2 DEF AlignmentIsTight
<1>2. ContainingIsMinimal
  BY ContainingIsMinimalFor DEF ContainingIsMinimal
<1>3. ContainedLeavesOutLast
  BY ContainedLeavesOutLastFor DEF ContainedLeavesOutLast
<1>4. QED
  BY <1>1, <1>2, <1>3 DEF RoundingIsExact

-----------------------------------------------------------------------------
(***************************************************************************)
(* KernelAreaMarker.  One call of next() cuts the first region, cur, into  *)
(* the parts it yields and a rest it puts back; the lemmas say what a call *)
(* does to sequences of entries, and the invariant at the end what is left *)
(* of the map and of the kernel areas between two calls.                   *)
(***************************************************************************)

Entries == [extent : Extents, mem_type : MemoryTypes]

\* Every entry of s ends at or before the start of every entry of t.
Before(s, t) ==
  \A i \in 1 .. Len(s), j \in 1 .. Len(t) : EndAddress(s[i].extent) <= t[j].extent.address

\* Every entry of s lies in the extent e.
Inside(s, e) ==
  \A i \in 1 .. Len(s) : /\ e.address <= s[i].extent.address
                         /\ EndAddress(s[i].extent) <= EndAddress(e)

LEMMA EntryFields ==
  ASSUME NEW e \in Entries
  PROVE  /\ e.extent \in Extents /\ e.mem_type \in MemoryTypes
         /\ e.extent.address \in Nat /\ EndAddress(e.extent) \in Nat
         /\ e.extent.address < EndAddress(e.extent)
<1>1. e.extent \in Extents /\ e.mem_type \in MemoryTypes
  BY DEF Entries
<1>2. e.extent.address \in Nat /\ e.extent.length \in Nat \ {0}
  BY <1>1, ExtentFields
<1> QED BY <1>1, <1>2 DEF EndAddress

LEMMA ConcatFacts ==
  ASSUME NEW S, NEW s \in Seq(S), NEW t \in Seq(S)
  PROVE  /\ s \o t \in Seq(S)
         /\ Len(s \o t) = Len(s) + Len(t)
         /\ Len(s) \in Nat /\ Len(t) \in Nat
         /\ \A i \in 1 .. Len(s) : i \in 1 .. Len(s \o t) /\ (s \o t)[i] = s[i]
         /\ \A i \in 1 .. Len(t) : /\ Len(s) + i \in 1 .. Len(s \o t)
                                   /\ (s \o t)[Len(s) + i] = t[i]
         /\ \A k \in 1 .. Len(s \o t) :
              \/ k \in 1 .. Len(s)
              \/ \E i \in 1 .. Len(t) : k = Len(s) + i
<1>1. /\ s \o t \in Seq(S) /\ Len(s \o t) = Len(s) + Len(t)
      /\ Len(s) \in Nat /\ Len(t) \in Nat
  OBVIOUS
<1>2. \A i \in 1 .. Len(s) : i \in 1 .. Len(s \o t) /\ (s \o t)[i] = s[i]
  BY <1>1
<1>3. \A i \in 1 .. Len(t) : /\ Len(s) + i \in 1 .. Len(s \o t)
                             /\ (s \o t)[Len(s) + i] = t[i]
  BY <1>1
<1>4. ASSUME NEW k \in 1 .. Len(s \o t), k \notin 1 .. Len(s)
      PROVE  \E i \in 1 .. Len(t) : k = Len(s) + i
  <2>1. k - Len(s) \in 1 .. Len(t) /\ k = Len(s) + (k - Len(s))
    BY <1>1, <1>4
  <2> QED BY <2>1
<1> QED BY <1>1, <1>2, <1>3, <1>4

LEMMA SortedMeans ==
  ASSUME NEW s \in Seq(Entries)
  PROVE  SortedEntries(s) <=>
           \A i, j \in 1 .. Len(s) : i < j => EndAddress(s[i].extent) <= s[j].extent.address
<1> DEFINE e == [i \in 1 .. Len(s) |-> s[i].extent]
<1>1. Len(s) \in Nat
  OBVIOUS
<1>2. Len(e) = Len(s)
  BY <1>1
<1>3. \A i \in 1 .. Len(s) : e[i] = s[i].extent
  OBVIOUS
<1> HIDE DEF e
<1>4. SortedExtents(e) <=>
        \A i, j \in 1 .. Len(s) : i < j => EndAddress(s[i].extent) <= s[j].extent.address
  BY <1>2, <1>3 DEF SortedExtents
<1> QED BY <1>4 DEF SortedEntries, e

\* A sequence in two parts is sorted when the parts are and one comes first.
LEMMA SortedConcat ==
  ASSUME NEW s \in Seq(Entries), NEW t \in Seq(Entries)
  PROVE  SortedEntries(s \o t) <=> SortedEntries(s) /\ SortedEntries(t) /\ Before(s, t)
<1> DEFINE c == s \o t
           E(x) == EndAddress(x.extent)
<1>1. /\ c \in Seq(Entries)
      /\ Len(c) = Len(s) + Len(t)
      /\ Len(s) \in Nat /\ Len(t) \in Nat
      /\ \A i \in 1 .. Len(s) : i \in 1 .. Len(c) /\ c[i] = s[i]
      /\ \A i \in 1 .. Len(t) : Len(s) + i \in 1 .. Len(c) /\ c[Len(s) + i] = t[i]
      /\ \A k \in 1 .. Len(c) : \/ k \in 1 .. Len(s)
                                \/ \E i \in 1 .. Len(t) : k = Len(s) + i
  BY ConcatFacts
<1> HIDE DEF c, E
<1>2. /\ SortedEntries(c) <=> \A i, j \in 1 .. Len(c) : i < j => E(c[i]) <= c[j].extent.address
      /\ SortedEntries(s) <=> \A i, j \in 1 .. Len(s) : i < j => E(s[i]) <= s[j].extent.address
      /\ SortedEntries(t) <=> \A i, j \in 1 .. Len(t) : i < j => E(t[i]) <= t[j].extent.address
      /\ Before(s, t) <=> \A i \in 1 .. Len(s), j \in 1 .. Len(t) : E(s[i]) <= t[j].extent.address
  BY <1>1, SortedMeans DEF Before, E
<1>3. ASSUME SortedEntries(c) PROVE SortedEntries(s) /\ SortedEntries(t) /\ Before(s, t)
  <2>1. SortedEntries(s)
    BY <1>1, <1>2, <1>3
  <2>2. SortedEntries(t)
    <3>1. SUFFICES ASSUME NEW i \in 1 .. Len(t), NEW j \in 1 .. Len(t), i < j
                   PROVE  E(t[i]) <= t[j].extent.address
      BY <1>2
    <3>2. Len(s) + i < Len(s) + j
      BY <1>1, <3>1
    <3> QED BY <1>1, <1>2, <1>3, <3>2
  <2>3. Before(s, t)
    <3>1. SUFFICES ASSUME NEW i \in 1 .. Len(s), NEW j \in 1 .. Len(t)
                   PROVE  E(s[i]) <= t[j].extent.address
      BY <1>2
    <3>2. i < Len(s) + j
      BY <1>1
    <3> QED BY <1>1, <1>2, <1>3, <3>2
  <2> QED BY <2>1, <2>2, <2>3
<1>4. ASSUME SortedEntries(s), SortedEntries(t), Before(s, t) PROVE SortedEntries(c)
  <2>1. SUFFICES ASSUME NEW k \in 1 .. Len(c), NEW l \in 1 .. Len(c), k < l
                 PROVE  E(c[k]) <= c[l].extent.address
    BY <1>2
  <2>2. CASE l \in 1 .. Len(s)
    <3>1. k \in 1 .. Len(s)
      BY <1>1, <2>1, <2>2
    <3> QED BY <1>1, <1>2, <1>4, <2>1, <2>2, <3>1
  <2>3. ASSUME NEW j \in 1 .. Len(t), l = Len(s) + j
        PROVE  E(c[k]) <= c[l].extent.address
    <3>1. CASE k \in 1 .. Len(s)
      BY <1>1, <1>2, <1>4, <2>3, <3>1
    <3>2. ASSUME NEW i \in 1 .. Len(t), k = Len(s) + i
          PROVE  E(c[k]) <= c[l].extent.address
      <4>1. i < j
        BY <1>1, <2>1, <2>3, <3>2
      <4> QED BY <1>1, <1>2, <1>4, <2>3, <3>2, <4>1
    <3> QED BY <1>1, <3>1, <3>2
  <2> QED BY <1>1, <2>2, <2>3
<1> QED BY <1>3, <1>4 DEF c

LEMMA BeforeConcat ==
  ASSUME NEW s \in Seq(Entries), NEW t \in Seq(Entries), NEW u \in Seq(Entries)
  PROVE  /\ Before(s \o t, u) <=> Before(s, u) /\ Before(t, u)
         /\ Before(u, s \o t) <=> Before(u, s) /\ Before(u, t)
<1> DEFINE c == s \o t
<1>1. /\ \A i \in 1 .. Len(s) : i \in 1 .. Len(c) /\ c[i] = s[i]
      /\ \A i \in 1 .. Len(t) : Len(s) + i \in 1 .. Len(c) /\ c[Len(s) + i] = t[i]
      /\ \A k \in 1 .. Len(c) : \/ k \in 1 .. Len(s)
                                \/ \E i \in 1 .. Len(t) : k = Len(s) + i
  BY ConcatFacts
<1> HIDE DEF c
<1>2. \A k \in 1 .. Len(c) : (\E i \in 1 .. Len(s) : c[k] = s[i]) \/ (\E i \in 1 .. Len(t) : c[k] = t[i])
  BY <1>1
<1>3. Before(c, u) <=> Before(s, u) /\ Before(t, u)
  <2>1. ASSUME Before(c, u) PROVE Before(s, u) /\ Before(t, u)
    BY <1>1, <2>1 DEF Before
  <2>2. ASSUME Before(s, u), Before(t, u) PROVE Before(c, u)
    BY <1>2, <2>2 DEF Before
  <2> QED BY <2>1, <2>2
<1>4. Before(u, c) <=> Before(u, s) /\ Before(u, t)
  <2>1. ASSUME Before(u, c) PROVE Before(u, s) /\ Before(u, t)
    BY <1>1, <2>1 DEF Before
  <2>2. ASSUME Before(u, s), Before(u, t) PROVE Before(u, c)
    BY <1>2, <2>2 DEF Before
  <2> QED BY <2>1, <2>2
<1> QED BY <1>3, <1>4 DEF c

\* The types of a byte in a sequence in two parts are those of the parts.
LEMMA TypesConcat ==
  ASSUME NEW s \in Seq(Entries), NEW t \in Seq(Entries), NEW x
  PROVE  TypesAt(s \o t, x) = TypesAt(s, x) \cup TypesAt(t, x)
<1> DEFINE c == s \o t
<1>1. /\ \A i \in 1 .. Len(s) : i \in 1 .. Len(c) /\ c[i] = s[i]
      /\ \A i \in 1 .. Len(t) : Len(s) + i \in 1 .. Len(c) /\ c[Len(s) + i] = t[i]
      /\ \A k \in 1 .. Len(c) : \/ k \in 1 .. Len(s)
                                \/ \E i \in 1 .. Len(t) : k = Len(s) + i
  BY ConcatFacts
<1> HIDE DEF c
<1>2. \A k \in 1 .. Len(c) : (\E i \in 1 .. Len(s) : c[k] = s[i]) \/ (\E i \in 1 .. Len(t) : c[k] = t[i])
  BY <1>1
<1>3. TypesAt(s, x) \subseteq TypesAt(c, x)
  <2>1. \A i \in 1 .. Len(s) : i \in 1 .. Len(c) /\ c[i] = s[i]
    BY <1>1
  <2> QED BY <2>1 DEF TypesAt
<1>4. TypesAt(t, x) \subseteq TypesAt(c, x)
  <2>1. \A i \in 1 .. Len(t) : Len(s) + i \in 1 .. Len(c) /\ c[Len(s) + i] = t[i]
    BY <1>1
  <2> QED BY <2>1 DEF TypesAt
<1>5. TypesAt(c, x) \subseteq TypesAt(s, x) \cup TypesAt(t, x)
  BY <1>2 DEF TypesAt
<1> QED BY <1>3, <1>4, <1>5 DEF c

LEMMA TypesOfOne ==
  ASSUME NEW e, NEW x
  PROVE  TypesAt(<< e >>, x) = IF Covers(e.extent, x) THEN {e.mem_type} ELSE {}
<1>1. Len(<< e >>) = 1 /\ << e >>[1] = e /\ 1 .. 1 = {1}
  OBVIOUS
<1> QED BY <1>1 DEF TypesAt

LEMMA TypesOfNone ==
  ASSUME NEW x
  PROVE  TypesAt(<< >>, x) = {}
BY DEF TypesAt

LEMMA HeadAndTail ==
  ASSUME NEW R \in Seq(Entries), R # << >>
  PROVE  /\ Head(R) \in Entries /\ Tail(R) \in Seq(Entries)
         /\ R = << Head(R) >> \o Tail(R)
         /\ Len(Tail(R)) \in Nat /\ Len(R) = Len(Tail(R)) + 1
         /\ << Head(R) >> \in Seq(Entries)
<1>1. Head(R) \in Entries /\ Tail(R) \in Seq(Entries) /\ Len(R) \in Nat \ {0}
  OBVIOUS
<1>2. Len(Tail(R)) = Len(R) - 1 /\ \A i \in 1 .. Len(Tail(R)) : Tail(R)[i] = R[i + 1]
  OBVIOUS
<1>3. Head(R) = R[1]
  OBVIOUS
<1> DEFINE H == << Head(R) >>
           c == H \o Tail(R)
<1>4. H \in Seq(Entries) /\ Len(H) = 1 /\ H[1] = R[1]
  BY <1>1, <1>3
<1>5. c \in Seq(Entries) /\ Len(c) = 1 + Len(Tail(R))
  BY <1>1, <1>4
<1>6. c[1] = R[1]
  BY <1>1, <1>4
<1>7. \A i \in 1 .. Len(Tail(R)) : c[1 + i] = Tail(R)[i]
  BY <1>1, <1>4, ConcatFacts
<1>8. \A i \in 1 .. Len(R) : i # 1 => i - 1 \in 1 .. Len(Tail(R)) /\ 1 + (i - 1) = i /\ (i - 1) + 1 = i
  BY <1>1, <1>2
<1> HIDE DEF c, H
<1>9. ASSUME NEW i \in 1 .. Len(R) PROVE c[i] = R[i]
  BY <1>2, <1>6, <1>7, <1>8
<1>10. Len(c) = Len(R)
  BY <1>1, <1>2, <1>5
<1>11. c = R
  BY <1>5, <1>9, <1>10
<1> QED BY <1>1, <1>2, <1>4, <1>11 DEF c, H

\* Every region that is left starts at y or after it.
From(R, y) == \A i \in 1 .. Len(R) : y <= R[i].extent.address

LEMMA FromConcat ==
  ASSUME NEW s \in Seq(Entries), NEW t \in Seq(Entries), NEW y
  PROVE  From(s \o t, y) <=> From(s, y) /\ From(t, y)
<1> DEFINE c == s \o t
<1>1. /\ \A i \in 1 .. Len(s) : i \in 1 .. Len(c) /\ c[i] = s[i]
      /\ \A i \in 1 .. Len(t) : Len(s) + i \in 1 .. Len(c) /\ c[Len(s) + i] = t[i]
      /\ \A k \in 1 .. Len(c) : \/ k \in 1 .. Len(s)
                                \/ \E i \in 1 .. Len(t) : k = Len(s) + i
  BY ConcatFacts
<1> HIDE DEF c
<1>2. ASSUME From(c, y) PROVE From(s, y) /\ From(t, y)
  BY <1>1, <1>2 DEF From
<1>3. ASSUME From(s, y), From(t, y) PROVE From(c, y)
  <2>1. ASSUME NEW k \in 1 .. Len(c)
        PROVE  (\E i \in 1 .. Len(s) : c[k] = s[i]) \/ (\E i \in 1 .. Len(t) : c[k] = t[i])
    BY <1>1
  <2> QED BY <1>3, <2>1 DEF From
<1> QED BY <1>2, <1>3 DEF c

\* What a region and the regions after it have to do with each other.
LEMMA SortedHead ==
  ASSUME NEW R \in Seq(Entries), R # << >>, SortedEntries(R)
  PROVE  /\ SortedEntries(Tail(R)) /\ Before(<< Head(R) >>, Tail(R))
         /\ From(Tail(R), EndAddress(Head(R).extent))
         /\ \A y \in Nat : From(R, y) <=> y <= Head(R).extent.address
<1>1. /\ Head(R) \in Entries /\ Tail(R) \in Seq(Entries)
      /\ R = << Head(R) >> \o Tail(R) /\ << Head(R) >> \in Seq(Entries)
  BY HeadAndTail
<1>2. SortedEntries(Tail(R)) /\ Before(<< Head(R) >>, Tail(R))
  BY <1>1, SortedConcat
<1>3. Len(<< Head(R) >>) = 1 /\ << Head(R) >>[1] = Head(R) /\ 1 \in 1 .. 1
  OBVIOUS
<1>4. From(Tail(R), EndAddress(Head(R).extent))
  BY <1>2, <1>3 DEF Before, From
<1>5. ASSUME NEW y PROVE From(R, y) <=> From(<< Head(R) >>, y) /\ From(Tail(R), y)
  <2>1. From(<< Head(R) >> \o Tail(R), y) <=> From(<< Head(R) >>, y) /\ From(Tail(R), y)
    BY <1>1, FromConcat
  <2> QED BY <1>1, <2>1
<1>6. \A y : From(<< Head(R) >>, y) <=> y <= Head(R).extent.address
  BY <1>3 DEF From
<1>7. ASSUME NEW y \in Nat, y <= Head(R).extent.address PROVE From(Tail(R), y)
  <2>1. /\ Head(R).extent.address \in Nat /\ EndAddress(Head(R).extent) \in Nat
        /\ Head(R).extent.address < EndAddress(Head(R).extent)
    BY <1>1, EntryFields
  <2>2. SUFFICES ASSUME NEW i \in 1 .. Len(Tail(R))
                 PROVE  y <= Tail(R)[i].extent.address
    BY DEF From
  <2>3. Tail(R)[i] \in Entries
    <3>1. Tail(R) \in Seq(Entries)
      BY <1>1
    <3> QED BY <3>1
  <2>4. Tail(R)[i].extent.address \in Nat
    BY <2>3, EntryFields
  <2>5. EndAddress(Head(R).extent) <= Tail(R)[i].extent.address
    BY <1>4 DEF From
  <2> QED BY <1>7, <2>1, <2>4, <2>5
<1> QED BY <1>2, <1>4, <1>5, <1>6, <1>7

LEMMA OverlapMeans ==
  ASSUME NEW x \in Extents, NEW y \in Extents
  PROVE  HasOverlap(x, y) <=> x.address < EndAddress(y) /\ y.address < EndAddress(x)
<1>1. /\ x.address \in Nat /\ x.length \in Nat \ {0}
      /\ y.address \in Nat /\ y.length \in Nat \ {0}
  BY ExtentFields
<1> QED BY <1>1 DEF HasOverlap, Overlap, OverlapOrdered, Smaller, Extent, NoExtent, EndAddress

LEMMA LeastOne ==
  ASSUME NEW S \in SUBSET Nat, S # {}
  PROVE  \E x \in S : \A y \in S : x <= y
<1> DEFINE less == OpToRel(<, Nat)
<1>1. IsWellFoundedOn(less, Nat)
  BY NatLessThanWellFounded
<1>2. less = {ss \in Nat \X Nat : ss[1] < ss[2]}
  BY DEF OpToRel
<1> HIDE DEF less
<1>3. PICK x \in S : \A y \in S : ~(<<y, x>> \in less)
  BY <1>1, WFMin
<1>4. \A y \in S : ~(y < x)
  BY <1>2, <1>3
<1> QED BY <1>4

\* The areas of B are areas of A, in order, and those missing end by y.
LeftOf(B, A, y) ==
  /\ B \in Seq(Extents) /\ SortedExtents(B) /\ Len(B) <= Len(A)
  /\ Len(B) = Len(A) => B = A
  /\ \A i \in 1 .. Len(B) : \E k \in 1 .. Len(A) : A[k] = B[i]
  /\ \A k \in 1 .. Len(A) : (\E i \in 1 .. Len(B) : B[i] = A[k]) \/ EndAddress(A[k]) <= y

\* The loop that skips kernel areas drops only those that end by the region's
\* start, and stops at one that overlaps the region or starts no earlier.
LEMMA SkipKeeps ==
  ASSUME NEW A \in Seq(Extents), SortedExtents(A), NEW x \in Extents
  PROVE  LET B == SkipAreas(A, x)
         IN  /\ LeftOf(B, A, x.address)
             /\ B # << >> => HasOverlap(B[1], x) \/ B[1].address >= x.address
<1> DEFINE stays == {i \in 1 .. Len(A) : HasOverlap(A[i], x) \/ A[i].address >= x.address}
           B == SkipAreas(A, x)
<1>1. Len(A) \in Nat /\ \A i \in 1 .. Len(A) : A[i] \in Extents
  OBVIOUS
<1>2. x.address \in Nat /\ EndAddress(x) \in Nat /\ x.address < EndAddress(x)
  BY ExtentFields DEF EndAddress
<1>3. \A e \in Extents : /\ e.address \in Nat /\ EndAddress(e) \in Nat
                         /\ e.address < EndAddress(e)
  BY ExtentFields DEF EndAddress
<1>4. ASSUME NEW i \in 1 .. Len(A), i \notin stays PROVE EndAddress(A[i]) <= x.address
  <2>1. ~HasOverlap(A[i], x) /\ ~(A[i].address >= x.address)
    BY <1>4
  <2>2. A[i] \in Extents
    BY <1>1
  <2>3. ~(A[i].address < EndAddress(x)) \/ ~(x.address < EndAddress(A[i]))
    BY <2>1, <2>2, OverlapMeans
  <2> QED BY <1>2, <1>3, <2>1, <2>2, <2>3
<1>5. CASE stays = {}
  <2>1. B = << >>
    BY <1>5 DEF SkipAreas
  <2>2. B \in Seq(Extents) /\ Len(B) = 0 /\ 1 .. Len(B) = {}
    BY <2>1
  <2>3. Len(B) = Len(A) => B = A
    BY <2>1, <2>2
  <2>4. LeftOf(B, A, x.address)
    BY <1>1, <1>4, <1>5, <2>2, <2>3 DEF LeftOf, SortedExtents
  <2> QED BY <2>1, <2>4
<1>6. CASE stays # {}
  <2> DEFINE n == CHOOSE i \in stays : \A j \in stays : i <= j
  <2>1. n \in stays /\ \A j \in stays : n <= j
    <3>1. stays \in SUBSET Nat
      BY <1>1
    <3>2. \E i \in stays : \A j \in stays : i <= j
      BY <1>6, <3>1, LeastOne
    <3> QED BY <3>2
  <2>2. B = SubSeq(A, n, Len(A))
    BY <1>6 DEF SkipAreas
  <2>3. n \in 1 .. Len(A) /\ (HasOverlap(A[n], x) \/ A[n].address >= x.address)
    BY <2>1
  <2> HIDE DEF n, stays, B
  <2>4. ASSUME NEW k \in 1 .. Len(A), k < n PROVE EndAddress(A[k]) <= x.address
    <3>1. ~(n <= k)
      BY <1>1, <2>3, <2>4
    <3>2. k \notin stays
      BY <2>1, <3>1
    <3> QED BY <1>4, <3>2
  <2>5. B \in Seq(Extents) /\ Len(B) = Len(A) - n + 1
    <3>1. SubSeq(A, n, Len(A)) = [i \in 1 .. (1 + Len(A) - n) |-> A[i + n - 1]]
      BY <1>1, <2>3
    <3>2. 1 + Len(A) - n \in Nat /\ 1 + Len(A) - n = Len(A) - n + 1
      BY <1>1, <2>3
    <3>3. \A i \in 1 .. (1 + Len(A) - n) : A[i + n - 1] \in Extents
      <4>1. \A i \in 1 .. (1 + Len(A) - n) : i + n - 1 \in 1 .. Len(A)
        BY <1>1, <2>3
      <4> QED BY <1>1, <4>1
    <3> QED BY <2>2, <3>1, <3>2, <3>3
  <2>6. \A i \in 1 .. Len(B) : i + (n - 1) \in 1 .. Len(A) /\ B[i] = A[i + (n - 1)]
    <3>1. ASSUME NEW i \in 1 .. Len(B) PROVE i + (n - 1) \in 1 .. Len(A) /\ B[i] = A[n + i - 1]
      BY <1>1, <2>2, <2>3, <2>5
    <3>2. ASSUME NEW i \in 1 .. Len(B) PROVE n + i - 1 = i + (n - 1)
      BY <1>1, <2>3, <2>5
    <3> QED BY <3>1, <3>2
  <2>7. SortedExtents(B)
    <3>1. SUFFICES ASSUME NEW i \in 1 .. Len(B), NEW j \in 1 .. Len(B), i < j
                   PROVE  EndAddress(B[i]) <= B[j].address
      BY DEF SortedExtents
    <3>2. i + (n - 1) < j + (n - 1)
      BY <1>1, <2>3, <2>5, <3>1
    <3> QED BY <2>6, <3>2 DEF SortedExtents
  <2>8. \A k \in 1 .. Len(A) : (\E i \in 1 .. Len(B) : B[i] = A[k]) \/ EndAddress(A[k]) <= x.address
    <3>1. SUFFICES ASSUME NEW k \in 1 .. Len(A), ~(k < n)
                   PROVE  \E i \in 1 .. Len(B) : B[i] = A[k]
      BY <2>4
    <3>2. k - (n - 1) \in 1 .. Len(B) /\ (k - (n - 1)) + (n - 1) = k
      BY <1>1, <2>3, <2>5, <3>1
    <3>3. B[k - (n - 1)] = A[k]
      BY <2>6, <3>2
    <3> QED BY <3>2, <3>3
  <2>9. ASSUME Len(B) = Len(A) PROVE B = A
    <3>1. n = 1
      BY <1>1, <2>3, <2>5, <2>9
    <3>2. \A i \in 1 .. Len(B) : B[i] = A[i]
      BY <1>1, <2>6, <3>1
    <3> QED BY <2>5, <2>9, <3>2
  <2>10. LeftOf(B, A, x.address)
    <3>1. Len(B) <= Len(A)
      BY <1>1, <2>3, <2>5
    <3> QED BY <2>5, <2>6, <2>7, <2>8, <2>9, <3>1 DEF LeftOf
  <2>11. HasOverlap(B[1], x) \/ B[1].address >= x.address
    <3>1. 1 \in 1 .. Len(B) /\ 1 + (n - 1) = n
      BY <1>1, <2>3, <2>5
    <3>2. B[1] = A[n]
      BY <2>6, <3>1
    <3> QED BY <2>3, <3>2
  <2> QED BY <2>10, <2>11 DEF B
<1> QED BY <1>5, <1>6

\* s is one entry with the bytes of e from low up to high, or no entry when
\* there are none.
IsPiece(s, e, type, low, high) ==
  /\ s \in Seq(Entries) /\ SortedEntries(s) /\ Inside(s, e)
  /\ Len(s) = IF low < high THEN 1 ELSE 0
  /\ \A i \in 1 .. Len(s) : s[i].extent.address = low /\ EndAddress(s[i].extent) = high
  /\ \A x \in Nat : TypesAt(s, x) = IF low <= x /\ x < high THEN {type} ELSE {}

LEMMA NothingFacts ==
  ASSUME NEW e
  PROVE  /\ << >> \in Seq(Entries) /\ Len(<< >>) = 0
         /\ Inside(<< >>, e) /\ SortedEntries(<< >>)
         /\ \A s : Before(<< >>, s) /\ Before(s, << >>)
         /\ \A x : TypesAt(<< >>, x) = {}
         /\ \A y : From(<< >>, y)
BY DEF Inside, SortedEntries, SortedExtents, Before, TypesAt, From

LEMMA OneIsSorted ==
  ASSUME NEW e \in Entries
  PROVE  << e >> \in Seq(Entries) /\ Len(<< e >>) = 1 /\ SortedEntries(<< e >>)
<1>1. << e >> \in Seq(Entries) /\ Len(<< e >>) = 1
  OBVIOUS
<1>2. \A i, j \in 1 .. 1 : ~(i < j)
  OBVIOUS
<1> QED BY <1>1, <1>2, SortedMeans

\* What left_difference, overlap and right_difference answer when a kernel area
\* overlaps a region: the bounds of the three pieces.
LEMMA SplitBounds ==
  ASSUME NEW c \in Extents, NEW h \in Extents, HasOverlap(h, c)
  PROVE  LET low  == Larger(c.address, h.address)
             high == Smaller(EndAddress(c), EndAddress(h))
         IN  /\ LeftDifference(c, h) = IF c.address < low
                                       THEN Extent(c.address, low - c.address) ELSE NoExtent
             /\ Overlap(c, h) = Extent(low, high - low)
             /\ RightDifference(c, h) = IF high < EndAddress(c)
                                        THEN Extent(high, EndAddress(c) - high) ELSE NoExtent
             /\ c.address \in Nat /\ low \in Nat /\ high \in Nat /\ EndAddress(c) \in Nat
             /\ h.address \in Nat /\ EndAddress(h) \in Nat
             /\ c.address <= low /\ low < high /\ high <= EndAddress(c)
<1>1. /\ c.address \in Nat /\ c.length \in Nat \ {0}
      /\ h.address \in Nat /\ h.length \in Nat \ {0}
  BY ExtentFields
<1>2. h.address < EndAddress(c) /\ c.address < EndAddress(h)
  BY OverlapMeans
<1>3. LeftDifference(c, h) = IF c.address < Larger(c.address, h.address)
                             THEN Extent(c.address, Larger(c.address, h.address) - c.address)
                             ELSE NoExtent
  BY <1>1, <1>2 DEF LeftDifference, Larger, Smaller, EndAddress
<1>4. Overlap(c, h) = Extent(Larger(c.address, h.address),
                             Smaller(EndAddress(c), EndAddress(h)) - Larger(c.address, h.address))
  BY <1>1, <1>2 DEF Overlap, OverlapOrdered, Larger, Smaller, EndAddress
<1>5. RightDifference(c, h) = IF Smaller(EndAddress(c), EndAddress(h)) < EndAddress(c)
                              THEN Extent(Smaller(EndAddress(c), EndAddress(h)),
                                          EndAddress(c) - Smaller(EndAddress(c), EndAddress(h)))
                              ELSE NoExtent
  BY <1>1, <1>2 DEF RightDifference, LastAddress, Larger, Smaller, EndAddress
<1> QED BY <1>1, <1>2, <1>3, <1>4, <1>5 DEF Larger, Smaller, EndAddress

LEMMA EntryPiece ==
  ASSUME NEW e \in Extents, NEW type \in MemoryTypes, NEW low \in Nat, NEW high \in Nat,
         low < high, e.address <= low, high <= EndAddress(e)
  PROVE  IsPiece(<< MapEntry(Extent(low, high - low), type) >>, e, type, low, high)
<1> DEFINE p == MapEntry(Extent(low, high - low), type)
<1>1. /\ e.address \in Nat /\ e.length \in Nat \ {0} /\ e.address + e.length <= MaxAddr
      /\ EndAddress(e) = e.address + e.length /\ MaxAddr \in Nat
  BY ExtentFields, AddressAssumption DEF EndAddress
<1>2. Extent(low, high - low) \in Extents
  <2>1. low \in 0 .. MaxAddr /\ high - low \in 1 .. MaxAddr /\ high - low <= MaxAddr - low
    BY <1>1
  <2> QED BY <2>1 DEF Extents, Extent
<1>3. p \in Entries /\ p.mem_type = type
  BY <1>2 DEF Entries, MapEntry
<1>4. p.extent.address = low /\ EndAddress(p.extent) = high
  BY DEF MapEntry, Extent, EndAddress
<1> HIDE DEF p
<1>5. Len(<< p >>) = 1 /\ << p >>[1] = p /\ 1 .. 1 = {1}
  OBVIOUS
<1>6. Inside(<< p >>, e)
  BY <1>4, <1>5 DEF Inside
<1>7. \A x \in Nat : TypesAt(<< p >>, x) = IF low <= x /\ x < high THEN {type} ELSE {}
  BY <1>3, <1>4, TypesOfOne DEF Covers
<1>8. << p >> \in Seq(Entries) /\ SortedEntries(<< p >>)
  BY <1>3, OneIsSorted
<1>9. \A i \in 1 .. Len(<< p >>) :
        << p >>[i].extent.address = low /\ EndAddress(<< p >>[i].extent) = high
  BY <1>4, <1>5
<1>10. IsPiece(<< p >>, e, type, low, high)
  BY <1>5, <1>6, <1>7, <1>8, <1>9 DEF IsPiece
<1> QED BY <1>10 DEF p

\* Optional makes a piece an entry and None no entry.
LEMMA OptionalPiece ==
  ASSUME NEW e \in Extents, NEW type \in MemoryTypes, NEW low \in Nat, NEW high \in Nat,
         low <= high, e.address <= low, high <= EndAddress(e), NEW piece,
         piece = IF low < high THEN Extent(low, high - low) ELSE NoExtent
  PROVE  IsPiece(Optional(piece, type), e, type, low, high)
<1> DEFINE s == Optional(piece, type)
<1>1. CASE low < high
  <2>1. piece # NoExtent
    BY <1>1 DEF NoExtent, Extent
  <2>2. s = << MapEntry(Extent(low, high - low), type) >>
    BY <1>1, <2>1 DEF Optional
  <2> QED BY <1>1, <2>2, EntryPiece
<1>2. CASE ~(low < high)
  <2>1. s = << >>
    BY <1>2 DEF Optional
  <2>2. \A x \in Nat : ~(low <= x /\ x < high)
    BY <1>2
  <2>3. \A i \in 1 .. 0 : FALSE
    OBVIOUS
  <2> HIDE DEF s
  <2>4. IsPiece(s, e, type, low, high)
    BY <1>2, <2>1, <2>2, <2>3, NothingFacts DEF IsPiece
  <2> QED BY <2>4 DEF s
<1> QED BY <1>1, <1>2

\* The three pieces a kernel area cuts a region into.
LEMMA SplitPieces ==
  ASSUME NEW c \in Extents, NEW h \in Extents, HasOverlap(h, c), NEW t \in MemoryTypes
  PROVE  \E low \in Nat : \E high \in Nat :
           /\ IsPiece(Optional(LeftDifference(c, h), t), c, t, c.address, low)
           /\ IsPiece(<< MapEntry(Overlap(c, h), "KernelLoad") >>, c, "KernelLoad", low, high)
           /\ IsPiece(Optional(RightDifference(c, h), t), c, t, high, EndAddress(c))
           /\ c.address <= low /\ low < high /\ high <= EndAddress(c)
           /\ low = h.address \/ (low = c.address /\ h.address < low)
           /\ high = EndAddress(h) \/ (high = EndAddress(c) /\ high < EndAddress(h))
<1> DEFINE low == Larger(c.address, h.address)
           high == Smaller(EndAddress(c), EndAddress(h))
<1>1. /\ LeftDifference(c, h) = IF c.address < low
                                THEN Extent(c.address, low - c.address) ELSE NoExtent
      /\ Overlap(c, h) = Extent(low, high - low)
      /\ RightDifference(c, h) = IF high < EndAddress(c)
                                 THEN Extent(high, EndAddress(c) - high) ELSE NoExtent
  BY SplitBounds
<1>2. /\ c.address \in Nat /\ low \in Nat /\ high \in Nat /\ EndAddress(c) \in Nat
      /\ h.address \in Nat /\ EndAddress(h) \in Nat
      /\ c.address <= low /\ low < high /\ high <= EndAddress(c)
  BY SplitBounds
<1>3. /\ low = h.address \/ (low = c.address /\ h.address < low)
      /\ high = EndAddress(h) \/ (high = EndAddress(c) /\ high < EndAddress(h))
  BY <1>2 DEF Larger, Smaller
<1> HIDE DEF low, high
<1>4. /\ c.address <= c.address /\ low <= EndAddress(c)
      /\ EndAddress(c) <= EndAddress(c) /\ c.address <= high
  BY <1>2
<1>5. IsPiece(Optional(LeftDifference(c, h), t), c, t, c.address, low)
  BY <1>1, <1>2, <1>4, OptionalPiece
<1>6. IsPiece(Optional(RightDifference(c, h), t), c, t, high, EndAddress(c))
  BY <1>1, <1>2, <1>4, OptionalPiece
<1>7. IsPiece(<< MapEntry(Overlap(c, h), "KernelLoad") >>, c, "KernelLoad", low, high)
  BY <1>1, <1>2, EntryPiece DEF MemoryTypes
<1> QED BY <1>2, <1>3, <1>5, <1>6, <1>7

\* Three pieces of e, each starting where the one before it ends.
InOrder(l, m, r, e, t1, t2, t3, first, low, high, end) ==
  /\ first \in Nat /\ low \in Nat /\ high \in Nat /\ end \in Nat
  /\ first <= low /\ low < high /\ high <= end
  /\ IsPiece(l, e, t1, first, low) /\ IsPiece(m, e, t2, low, high) /\ IsPiece(r, e, t3, high, end)

LEMMA PiecesInOrder ==
  ASSUME NEW l, NEW m, NEW r, NEW e, NEW t1, NEW t2, NEW t3,
         NEW first, NEW low, NEW high, NEW end,
         InOrder(l, m, r, e, t1, t2, t3, first, low, high, end)
  PROVE  /\ l \o m \in Seq(Entries) /\ Len(l \o m) = Len(l) + 1
         /\ SortedEntries(l \o m) /\ Before(l \o m, r) /\ Inside(l \o m, e)
         /\ \A x \in Nat : /\ first <= x /\ x < low
                                => TypesAt(l \o m, x) = {t1} /\ TypesAt(r, x) = {}
                           /\ low <= x /\ x < high
                                => TypesAt(l \o m, x) = {t2} /\ TypesAt(r, x) = {}
                           /\ high <= x /\ x < end
                                => TypesAt(l \o m, x) = {} /\ TypesAt(r, x) = {t3}
<1>1. /\ first \in Nat /\ low \in Nat /\ high \in Nat /\ end \in Nat
       /\ first <= low /\ low < high /\ high <= end
       /\ IsPiece(l, e, t1, first, low) /\ IsPiece(m, e, t2, low, high)
       /\ IsPiece(r, e, t3, high, end)
  BY DEF InOrder
<1>2. l \in Seq(Entries) /\ m \in Seq(Entries) /\ r \in Seq(Entries)
  BY <1>1 DEF IsPiece
<1>3. /\ l \o m \in Seq(Entries)
      /\ Len(l \o m) = Len(l) + Len(m)
      /\ Len(l) \in Nat /\ Len(m) \in Nat
      /\ \A i \in 1 .. Len(l) : i \in 1 .. Len(l \o m) /\ (l \o m)[i] = l[i]
      /\ \A i \in 1 .. Len(m) : /\ Len(l) + i \in 1 .. Len(l \o m)
                                /\ (l \o m)[Len(l) + i] = m[i]
      /\ \A k \in 1 .. Len(l \o m) :
           \/ k \in 1 .. Len(l)
           \/ \E i \in 1 .. Len(m) : k = Len(l) + i
  BY <1>2, ConcatFacts
<1>4. /\ Before(l, m) /\ Before(m, r) /\ Before(l, r)
      /\ SortedEntries(l) /\ SortedEntries(m) /\ Len(m) = 1
  BY <1>1 DEF IsPiece, Before
<1>5. l \o m \in Seq(Entries) /\ Len(l \o m) = Len(l) + 1
  BY <1>3, <1>4
<1>6. SortedEntries(l \o m)
  BY <1>4, <1>2, SortedConcat
<1>7. Before(l \o m, r)
  BY <1>4, <1>2, BeforeConcat
<1>8. Inside(l \o m, e)
  <2>1. Inside(l, e) /\ Inside(m, e)
    BY <1>1 DEF IsPiece
  <2> DEFINE q == l \o m
  <2>2. \A k \in 1 .. Len(q) : (\E i \in 1 .. Len(l) : q[k] = l[i]) \/ (\E i \in 1 .. Len(m) : q[k] = m[i])
    BY <1>3
  <2> HIDE DEF q
  <2>3. Inside(q, e)
    BY <2>1, <2>2 DEF Inside
  <2> QED BY <2>3 DEF q
<1>9. ASSUME NEW x \in Nat
      PROVE  TypesAt(l \o m, x) = TypesAt(l, x) \cup TypesAt(m, x)
  BY <1>2, TypesConcat
<1>10. ASSUME NEW x \in Nat
      PROVE  /\ TypesAt(l, x) = IF first <= x /\ x < low THEN {t1} ELSE {}
             /\ TypesAt(m, x) = IF low <= x /\ x < high THEN {t2} ELSE {}
             /\ TypesAt(r, x) = IF high <= x /\ x < end THEN {t3} ELSE {}
  BY <1>1 DEF IsPiece
<1>11. ASSUME NEW x \in Nat, first <= x, x < low
      PROVE  TypesAt(l \o m, x) = {t1} /\ TypesAt(r, x) = {}
  <2>1. ~(low <= x) /\ ~(high <= x)
    BY <1>11, <1>1
  <2> QED BY <1>9, <1>10, <1>11, <2>1
<1>12. ASSUME NEW x \in Nat, low <= x, x < high
       PROVE  TypesAt(l \o m, x) = {t2} /\ TypesAt(r, x) = {}
  <2>1. ~(x < low) /\ ~(high <= x)
    BY <1>12, <1>1
  <2> QED BY <1>9, <1>10, <1>12, <2>1
<1>13. ASSUME NEW x \in Nat, high <= x, x < end
       PROVE  TypesAt(l \o m, x) = {} /\ TypesAt(r, x) = {t3}
  <2>1. ~(x < low) /\ ~(x < high)
    BY <1>13, <1>1
  <2> QED BY <1>9, <1>10, <1>13, <2>1
<1> QED BY <1>5, <1>6, <1>7, <1>8, <1>11, <1>12, <1>13

\* How many entries the area h may still add to the regions R: one where it
\* starts inside one of them, and one where it ends inside one.
Cuts(h, R) ==
  IF From(R, EndAddress(h)) THEN 0 ELSE IF From(R, h.address) THEN 1 ELSE 2

\* The same for all the areas that are left.
Pending(A, R) == IF A = << >> THEN 0 ELSE 2 * (Len(A) - 1) + Cuts(A[1], R)

\* What the bytes of the entry cur are to be marked as.
Marking(cur, A, x) ==
  IF /\ cur.mem_type \in {"Available", "Acpi"}
     /\ \E k \in 1 .. Len(A) : Covers(A[k], x)
  THEN {"KernelLoad"}
  ELSE {cur.mem_type}

\* What a call does: from the regions R and the areas A it yields parts, puts
\* rest back before the other regions, and keeps the areas B.
Splits(R, A, parts, rest, B) ==
  LET cur == Head(R)
      new == rest \o Tail(R)
  IN  /\ parts \in Seq(Entries) /\ SortedEntries(parts) /\ Inside(parts, cur.extent)
      /\ rest \in Seq(Entries) /\ SortedEntries(rest) /\ Inside(rest, cur.extent)
      /\ Before(parts, rest)
      /\ B \in Seq(Extents) /\ SortedExtents(B)
      /\ \A i \in 1 .. Len(B) : \E k \in 1 .. Len(A) : A[k] = B[i]
      /\ \A k \in 1 .. Len(A) :
           (\E i \in 1 .. Len(B) : B[i] = A[k]) \/ From(new, EndAddress(A[k]))
      /\ \A x \in Nat : Covers(cur.extent, x) =>
           \/ TypesAt(parts, x) = Marking(cur, A, x) /\ TypesAt(rest, x) = {}
           \/ TypesAt(parts, x) = {} /\ TypesAt(rest, x) = {cur.mem_type}
      /\ Len(parts) + Len(new) + Pending(B, new) <= Len(R) + Pending(A, R)

LEMMA PendingIsNat ==
  ASSUME NEW A \in Seq(Extents), NEW R
  PROVE  /\ Pending(A, R) \in Nat
         /\ \A h : Cuts(h, R) \in 0 .. 2
         /\ A # << >> => Pending(A, R) = 2 * (Len(A) - 1) + Cuts(A[1], R)
         /\ Len(A) \in Nat /\ (A # << >> => Len(A) # 0)
<1>1. \A h : Cuts(h, R) \in 0 .. 2
  BY DEF Cuts
<1>2. Len(A) \in Nat /\ (A # << >> => Len(A) # 0)
  OBVIOUS
<1>3. A # << >> => Pending(A, R) = 2 * (Len(A) - 1) + Cuts(A[1], R)
  BY DEF Pending
<1>4. A = << >> => Pending(A, R) = 0
  BY DEF Pending
<1> QED BY <1>1, <1>2, <1>3, <1>4

\* Dropping areas, or passing regions, adds no entries to come.
LEMMA PendingFalls ==
  ASSUME NEW A \in Seq(Extents), NEW B \in Seq(Extents), NEW R, NEW N, NEW n \in Nat,
         Len(B) <= Len(A), Len(B) = Len(A) => B = A,
         B # << >> => n + Cuts(B[1], N) <= Cuts(B[1], R),
         B = << >> => n = 0
  PROVE  n + Pending(B, N) <= Pending(A, R)
<1>1. /\ Pending(A, R) \in Nat
      /\ A # << >> => Pending(A, R) = 2 * (Len(A) - 1) + Cuts(A[1], R)
      /\ Len(A) \in Nat /\ (A # << >> => Len(A) # 0)
      /\ \A h : Cuts(h, R) \in 0 .. 2
  BY PendingIsNat
<1>2. /\ Pending(B, N) \in Nat
      /\ B # << >> => Pending(B, N) = 2 * (Len(B) - 1) + Cuts(B[1], N)
      /\ Len(B) \in Nat /\ (B # << >> => Len(B) # 0)
      /\ \A h : Cuts(h, N) \in 0 .. 2
  BY PendingIsNat
<1>3. CASE B = << >>
  BY <1>1, <1>3 DEF Pending
<1>4. CASE B # << >> /\ B = A
  <2>1. n + Cuts(B[1], N) <= Cuts(B[1], R)
    BY <1>4
  <2> QED BY <1>1, <1>2, <1>4, <2>1
<1>5. CASE B # << >> /\ B # A
  <2>1. Len(B) < Len(A) /\ Len(B) >= 1 /\ A # << >>
    <3>1. Len(B) # Len(A) /\ Len(B) # 0
      BY <1>2, <1>5
    <3>2. Len(B) < Len(A) /\ Len(B) >= 1
      BY <1>1, <1>2, <3>1
    <3>3. A # << >>
      <4>1. A = << >> => Len(A) = 0
        OBVIOUS
      <4> QED BY <1>2, <3>2, <4>1
    <3> QED BY <3>2, <3>3
  <2>2. n + Cuts(B[1], N) <= 2
    <3>1. n + Cuts(B[1], N) <= Cuts(B[1], R) /\ Cuts(B[1], R) \in 0 .. 2 /\ Cuts(B[1], N) \in 0 .. 2
      BY <1>1, <1>2, <1>5
    <3> QED BY <3>1
  <2>3. /\ Pending(B, N) = 2 * (Len(B) - 1) + Cuts(B[1], N)
        /\ Pending(A, R) >= 2 * (Len(A) - 1)
    <3>1. Pending(A, R) = 2 * (Len(A) - 1) + Cuts(A[1], R) /\ Cuts(A[1], R) \in 0 .. 2
      BY <1>1, <2>1
    <3> QED BY <1>1, <1>2, <1>5, <3>1
  <2>4. Cuts(B[1], N) \in 0 .. 2
    BY <1>2
  <2> QED BY <1>1, <1>2, <2>1, <2>2, <2>3, <2>4
<1> QED BY <1>3, <1>4, <1>5

\* The first region is yielded as it is: its type is not one to mark, or no
\* area meets it.
LEMMA KeptWhole ==
  ASSUME NEW R \in Seq(Entries), R # << >>, SortedEntries(R),
         NEW A \in Seq(Extents), NEW B,
         LeftOf(B, A, Head(R).extent.address),
         \/ Head(R).mem_type \notin {"Available", "Acpi"}
         \/ \A k \in 1 .. Len(A), x \in Nat : Covers(Head(R).extent, x) => ~Covers(A[k], x)
  PROVE  Splits(R, A, << Head(R) >>, << >>, B)
<1> DEFINE cur == Head(R)
           T == Tail(R)
<1>1. /\ cur \in Entries /\ T \in Seq(Entries) /\ << cur >> \in Seq(Entries)
      /\ Len(T) \in Nat /\ Len(R) = Len(T) + 1
  BY HeadAndTail
<1>2. /\ From(T, EndAddress(cur.extent))
      /\ \A y \in Nat : From(R, y) <=> y <= cur.extent.address
  BY SortedHead
<1>3. /\ cur.extent.address \in Nat /\ EndAddress(cur.extent) \in Nat
      /\ cur.extent.address < EndAddress(cur.extent)
  BY <1>1, EntryFields
<1>4. << >> \o T = T
  BY <1>1
<1> HIDE DEF cur, T
<1>5. /\ << cur >> \in Seq(Entries) /\ Len(<< cur >>) = 1 /\ SortedEntries(<< cur >>)
      /\ Inside(<< cur >>, cur.extent)
  <2>1. \A i \in 1 .. 1 : << cur >>[i] = cur
    OBVIOUS
  <2>2. << cur >> \in Seq(Entries) /\ Len(<< cur >>) = 1 /\ SortedEntries(<< cur >>)
    BY <1>1, OneIsSorted
  <2> QED BY <1>3, <2>1, <2>2 DEF Inside
<1>6. ASSUME NEW y \in Nat, y <= cur.extent.address PROVE From(T, y)
  <2>1. SUFFICES ASSUME NEW i \in 1 .. Len(T) PROVE y <= T[i].extent.address
    BY DEF From
  <2>2. T[i] \in Entries
    BY <1>1
  <2>3. EndAddress(cur.extent) <= T[i].extent.address /\ T[i].extent.address \in Nat
    BY <1>2, <2>2, EntryFields DEF From
  <2> QED BY <1>3, <1>6, <2>3
<1>7. \A e \in Extents : e.address \in Nat /\ EndAddress(e) \in Nat
  BY ExtentFields DEF EndAddress
<1>8. \A k \in 1 .. Len(A) : A[k] \in Extents
  OBVIOUS
<1>9. \A k \in 1 .. Len(A) :
        (\E i \in 1 .. Len(B) : B[i] = A[k]) \/ From(T, EndAddress(A[k]))
  <2>1. SUFFICES ASSUME NEW k \in 1 .. Len(A), EndAddress(A[k]) <= cur.extent.address
                 PROVE  From(T, EndAddress(A[k]))
    BY DEF LeftOf, cur
  <2> QED BY <1>6, <1>7, <1>8, <2>1
<1>10. ASSUME NEW x \in Nat, Covers(cur.extent, x)
       PROVE  TypesAt(<< cur >>, x) = Marking(cur, A, x) /\ TypesAt(<< >>, x) = {}
  <2>1. TypesAt(<< cur >>, x) = {cur.mem_type} /\ TypesAt(<< >>, x) = {}
    BY <1>10, TypesOfOne, TypesOfNone
  <2>2. Marking(cur, A, x) = {cur.mem_type}
    BY <1>10 DEF Marking, cur
  <2> QED BY <2>1, <2>2
<1>11. 0 + Pending(B, T) <= Pending(A, R)
  <2>1. B \in Seq(Extents) /\ Len(B) <= Len(A) /\ (Len(B) = Len(A) => B = A)
    BY DEF LeftOf
  <2>2. ASSUME B # << >> PROVE 0 + Cuts(B[1], T) <= Cuts(B[1], R)
    <3>1. B[1] \in Extents
      BY <2>1, <2>2
    <3>2. B[1].address \in Nat /\ EndAddress(B[1]) \in Nat
      BY <1>7, <3>1
    <3>3. /\ From(R, EndAddress(B[1])) => From(T, EndAddress(B[1]))
          /\ From(R, B[1].address) => From(T, B[1].address)
      BY <1>2, <1>6, <3>2
    <3> QED BY <3>3 DEF Cuts
  <2> QED BY <2>1, <2>2, PendingFalls
<1>12. Len(<< cur >>) + Len(T) + Pending(B, T) <= Len(R) + Pending(A, R)
  <2>1. B \in Seq(Extents)
    BY DEF LeftOf
  <2>2. Pending(A, R) \in Nat /\ Pending(B, T) \in Nat
    BY <2>1, PendingIsNat
  <2> QED BY <1>1, <1>5, <1>11, <2>2
<1>13. /\ << >> \in Seq(Entries) /\ SortedEntries(<< >>) /\ Inside(<< >>, cur.extent)
       /\ Before(<< cur >>, << >>)
  BY NothingFacts
<1>14. /\ B \in Seq(Extents) /\ SortedExtents(B)
       /\ \A i \in 1 .. Len(B) : \E k \in 1 .. Len(A) : A[k] = B[i]
  BY DEF LeftOf
<1> QED
  <2>1. Splits(R, A, << cur >>, << >>, B)
    BY <1>4, <1>5, <1>9, <1>10, <1>12, <1>13, <1>14 DEF Splits, cur, T
  <2> QED BY <2>1 DEF cur

\* The first region is one to mark, and the area h, the first one left in B,
\* overlaps it.
Meeting(R, A, B, h) ==
  /\ R \in Seq(Entries) /\ R # << >> /\ SortedEntries(R)
  /\ A \in Seq(Extents) /\ B # << >> /\ h = B[1]
  /\ LeftOf(B, A, Head(R).extent.address)
  /\ HasOverlap(h, Head(R).extent)
  /\ Head(R).mem_type \in {"Available", "Acpi"}

\* The region is split where the area overlaps it.
LEMMA CutInTwo ==
  ASSUME NEW R, NEW A, NEW B, NEW h, Meeting(R, A, B, h)
  PROVE  Splits(R, A,
                Optional(LeftDifference(Head(R).extent, h), Head(R).mem_type)
                  \o << MapEntry(Overlap(Head(R).extent, h), "KernelLoad") >>,
                Optional(RightDifference(Head(R).extent, h), Head(R).mem_type),
                B)
<1> DEFINE cur == Head(R)
           c == cur.extent
           t == cur.mem_type
           T == Tail(R)
           l == Optional(LeftDifference(c, h), t)
           m == << MapEntry(Overlap(c, h), "KernelLoad") >>
           r == Optional(RightDifference(c, h), t)
           parts == l \o m
<1>1. /\ cur \in Entries /\ T \in Seq(Entries)
      /\ Len(T) \in Nat /\ Len(R) = Len(T) + 1
  BY HeadAndTail DEF Meeting
<1>2. /\ From(T, EndAddress(c))
      /\ \A y \in Nat : From(R, y) <=> y <= c.address
  BY SortedHead DEF Meeting
<1>3. h \in Extents /\ c \in Extents /\ t \in MemoryTypes /\ HasOverlap(h, c)
  BY <1>1, EntryFields DEF Meeting, LeftOf
<1>4. /\ c.address \in Nat /\ EndAddress(c) \in Nat /\ c.address < EndAddress(c)
      /\ h.address \in Nat /\ EndAddress(h) \in Nat /\ h.address < EndAddress(h)
  BY <1>3, ExtentFields DEF EndAddress
<1>5. PICK low \in Nat : \E high \in Nat :
        /\ IsPiece(l, c, t, c.address, low)
        /\ IsPiece(m, c, "KernelLoad", low, high)
        /\ IsPiece(r, c, t, high, EndAddress(c))
        /\ c.address <= low /\ low < high /\ high <= EndAddress(c)
        /\ low = h.address \/ (low = c.address /\ h.address < low)
        /\ high = EndAddress(h) \/ (high = EndAddress(c) /\ high < EndAddress(h))
  BY <1>3, SplitPieces
<1>6. PICK high \in Nat :
        /\ IsPiece(l, c, t, c.address, low)
        /\ IsPiece(m, c, "KernelLoad", low, high)
        /\ IsPiece(r, c, t, high, EndAddress(c))
        /\ c.address <= low /\ low < high /\ high <= EndAddress(c)
        /\ low = h.address \/ (low = c.address /\ h.address < low)
        /\ high = EndAddress(h) \/ (high = EndAddress(c) /\ high < EndAddress(h))
  BY <1>5
<1> HIDE DEF cur, T, l, m, r, c, t
<1>7. /\ c.address <= low /\ low < high /\ high <= EndAddress(c)
      /\ low = h.address \/ (low = c.address /\ h.address < low)
      /\ high = EndAddress(h) \/ (high = EndAddress(c) /\ high < EndAddress(h))
  BY <1>6
<1>8. /\ l \o m \in Seq(Entries) /\ Len(l \o m) = Len(l) + 1
      /\ SortedEntries(l \o m) /\ Before(l \o m, r) /\ Inside(l \o m, c)
      /\ \A x \in Nat : /\ c.address <= x /\ x < low
                             => TypesAt(l \o m, x) = {t} /\ TypesAt(r, x) = {}
                        /\ low <= x /\ x < high
                             => TypesAt(l \o m, x) = {"KernelLoad"} /\ TypesAt(r, x) = {}
                        /\ high <= x /\ x < EndAddress(c)
                             => TypesAt(l \o m, x) = {} /\ TypesAt(r, x) = {t}
  <2>1. InOrder(l, m, r, c, t, "KernelLoad", t, c.address, low, high, EndAddress(c))
    BY <1>4, <1>6 DEF InOrder
  <2> QED BY <2>1, PiecesInOrder
<1>9. \A x \in Nat : /\ c.address <= x /\ x < low
                          => TypesAt(parts, x) = {t} /\ TypesAt(r, x) = {}
                     /\ low <= x /\ x < high
                          => TypesAt(parts, x) = {"KernelLoad"} /\ TypesAt(r, x) = {}
                     /\ high <= x /\ x < EndAddress(c)
                          => TypesAt(parts, x) = {} /\ TypesAt(r, x) = {t}
  BY <1>8
<1>10. /\ parts \in Seq(Entries) /\ Len(parts) = Len(l) + 1
       /\ SortedEntries(parts) /\ Before(parts, r) /\ Inside(parts, c)
  BY <1>8
<1> HIDE DEF parts
<1>11. /\ r \in Seq(Entries) /\ SortedEntries(r) /\ Inside(r, c)
       /\ \A i \in 1 .. Len(r) : r[i].extent.address = high
  BY <1>6 DEF IsPiece
<1>12. /\ Len(l) = 0 \/ (Len(l) = 1 /\ c.address < low)
       /\ Len(r) = 0 \/ (Len(r) = 1 /\ high < EndAddress(c))
  BY <1>6 DEF IsPiece
<1>13. A \in Seq(Extents) /\ B \in Seq(Extents) /\ B # << >> /\ h = B[1]
  BY DEF Meeting, LeftOf
<1>14. LeftOf(B, A, c.address)
  BY DEF Meeting, c, cur
<1>15. \A i \in 1 .. Len(B) : B[i] \in Extents /\ h.address <= B[i].address
  <2>1. SUFFICES ASSUME NEW i \in 1 .. Len(B) PROVE B[i] \in Extents /\ h.address <= B[i].address
    OBVIOUS
  <2>2. B[i] \in Extents /\ 1 \in 1 .. Len(B) /\ i \in Int /\ 1 <= i
    BY <1>13
  <2>3. CASE i = 1
    BY <1>4, <1>13, <2>2, <2>3
  <2>4. CASE i # 1
    <3>1. 1 < i
      BY <2>2, <2>4
    <3>2. EndAddress(h) <= B[i].address
      BY <1>13, <1>14, <2>2, <3>1 DEF LeftOf, SortedExtents
    <3>3. B[i].address \in Nat /\ h.address <= EndAddress(h)
      BY <1>3, <2>2, ExtentFields DEF EndAddress
    <3> QED BY <1>4, <2>2, <3>2, <3>3
  <2> QED BY <2>3, <2>4
<1>16. \A k \in 1 .. Len(A) : A[k] \in Extents /\ A[k].address \in Nat /\ EndAddress(A[k]) \in Nat
  <2>1. SUFFICES ASSUME NEW k \in 1 .. Len(A)
                 PROVE  A[k] \in Extents /\ A[k].address \in Nat /\ EndAddress(A[k]) \in Nat
    OBVIOUS
  <2>2. A[k] \in Extents
    BY <1>13
  <2> QED BY <2>2, ExtentFields DEF EndAddress
<1>17. ASSUME NEW x \in Nat, Covers(c, x)
       PROVE  \/ TypesAt(parts, x) = Marking(cur, A, x) /\ TypesAt(r, x) = {}
              \/ TypesAt(parts, x) = {} /\ TypesAt(r, x) = {t}
  <2>1. c.address <= x /\ x < EndAddress(c)
    BY <1>17 DEF Covers
  <2>2. CASE x < low
    <3>1. TypesAt(parts, x) = {t} /\ TypesAt(r, x) = {}
      BY <1>9, <2>1, <2>2
    <3>2. low = h.address
      BY <1>4, <1>7, <2>1, <2>2
    <3>3. ASSUME NEW k \in 1 .. Len(A), Covers(A[k], x) PROVE FALSE
      <4>1. A[k].address <= x /\ x < EndAddress(A[k])
        BY <3>3 DEF Covers
      <4>2. ~(EndAddress(A[k]) <= c.address)
        BY <1>4, <1>16, <2>1, <4>1
      <4>3. PICK i \in 1 .. Len(B) : B[i] = A[k]
        BY <1>14, <4>2 DEF LeftOf
      <4>4. h.address <= A[k].address
        BY <1>15, <4>3
      <4>5. A[k].address \in Nat
        BY <1>16
      <4> QED BY <1>4, <2>2, <3>2, <4>1, <4>4, <4>5
    <3>4. Marking(cur, A, x) = {t}
      BY <3>3 DEF Marking, t
    <3> QED BY <3>1, <3>4
  <2>3. CASE low <= x /\ x < high
    <3>1. TypesAt(parts, x) = {"KernelLoad"} /\ TypesAt(r, x) = {}
      BY <1>9, <2>3
    <3>2. Covers(h, x)
      BY <1>4, <1>7, <2>3 DEF Covers
    <3>3. PICK k \in 1 .. Len(A) : A[k] = h
      <4>1. 1 \in 1 .. Len(B)
        BY <1>13
      <4> QED BY <1>13, <1>14, <4>1 DEF LeftOf
    <3>4. Marking(cur, A, x) = {"KernelLoad"}
      BY <3>2, <3>3 DEF Marking, Meeting, cur
    <3> QED BY <3>1, <3>4
  <2>4. CASE high <= x
    BY <1>9, <2>1, <2>4
  <2> QED BY <2>2, <2>3, <2>4
<1> DEFINE new == r \o T
<1>18. /\ Len(new) = Len(r) + Len(T)
       /\ \A y : From(new, y) <=> From(r, y) /\ From(T, y)
  <2>1. r \in Seq(Entries) /\ T \in Seq(Entries)
    BY <1>1, <1>11
  <2>2. Len(new) = Len(r) + Len(T)
    BY <2>1, ConcatFacts
  <2>3. ASSUME NEW y PROVE From(new, y) <=> From(r, y) /\ From(T, y)
    BY <2>1, FromConcat
  <2> QED BY <2>2, <2>3
<1> HIDE DEF new
<1>19. ASSUME NEW y \in Nat, y <= EndAddress(c) PROVE From(T, y)
  <2>1. SUFFICES ASSUME NEW i \in 1 .. Len(T) PROVE y <= T[i].extent.address
    BY DEF From
  <2>2. T[i] \in Entries
    BY <1>1
  <2>3. EndAddress(c) <= T[i].extent.address /\ T[i].extent.address \in Nat
    BY <1>2, <2>2, EntryFields DEF From
  <2> QED BY <1>4, <1>19, <2>3
<1>20. ASSUME NEW y \in Nat, y <= high PROVE From(new, y)
  <2>1. y <= EndAddress(c)
    BY <1>4, <1>7, <1>20
  <2>2. From(r, y)
    BY <1>11, <1>20 DEF From
  <2> QED BY <1>18, <1>19, <2>1, <2>2
<1>21. \A k \in 1 .. Len(A) :
         (\E i \in 1 .. Len(B) : B[i] = A[k]) \/ From(new, EndAddress(A[k]))
  <2>1. SUFFICES ASSUME NEW k \in 1 .. Len(A), EndAddress(A[k]) <= c.address
                 PROVE  From(new, EndAddress(A[k]))
    BY <1>14 DEF LeftOf
  <2>2. EndAddress(A[k]) <= high /\ EndAddress(A[k]) \in Nat
    BY <1>4, <1>7, <1>16, <2>1
  <2> QED BY <1>20, <2>2
<1>22. (Len(l) + Len(r)) + Cuts(h, new) <= Cuts(h, R)
  <2>1. ~From(R, EndAddress(h))
    <3>1. ~(EndAddress(h) <= c.address)
      BY <1>4, <1>7
    <3> QED BY <1>2, <1>4, <3>1
  <2>2. From(new, h.address)
    <3>1. h.address <= high
      BY <1>4, <1>7
    <3> QED BY <1>4, <1>20, <3>1
  <2>3. ASSUME Len(r) # 0 PROVE From(new, EndAddress(h))
    <3>1. EndAddress(h) <= high
      BY <1>4, <1>7, <1>12, <2>3
    <3> QED BY <1>4, <1>20, <3>1
  <2>4. ASSUME Len(l) # 0 PROVE ~From(R, h.address)
    <3>1. ~(h.address <= c.address)
      BY <1>4, <1>7, <1>12, <2>4
    <3> QED BY <1>2, <1>4, <3>1
  <2>5. Cuts(h, R) \in {1, 2} /\ (Len(l) # 0 => Cuts(h, R) = 2)
    BY <2>1, <2>4 DEF Cuts
  <2>6. Cuts(h, new) \in {0, 1} /\ (Len(r) # 0 => Cuts(h, new) = 0)
    BY <2>2, <2>3 DEF Cuts
  <2>7. Len(l) \in {0, 1} /\ Len(r) \in {0, 1}
    BY <1>12
  <2> DEFINE u == Cuts(h, new)
             v == Cuts(h, R)
             ll == Len(l)
             rr == Len(r)
  <2>8. /\ ll \in {0, 1} /\ rr \in {0, 1} /\ u \in {0, 1} /\ v \in {1, 2}
        /\ (ll # 0 => v = 2) /\ (rr # 0 => u = 0)
    BY <2>5, <2>6, <2>7
  <2> HIDE DEF u, v, ll, rr
  <2>9. (ll + rr) + u <= v
    BY <2>8
  <2> QED BY <2>9 DEF u, v, ll, rr
<1>23. (Len(l) + Len(r)) + Pending(B, new) <= Pending(A, R)
  <2>1. Len(l) + Len(r) \in Nat
    BY <1>12
  <2>2. Len(B) <= Len(A) /\ (Len(B) = Len(A) => B = A)
    BY <1>14 DEF LeftOf
  <2> DEFINE n == Len(l) + Len(r)
  <2> HIDE DEF n
  <2>3. n \in Nat /\ n + Cuts(B[1], new) <= Cuts(B[1], R)
    BY <1>22, <1>13, <2>1 DEF n
  <2>5. A \in Seq(Extents) /\ B \in Seq(Extents) /\ B # << >>
    BY <1>13
  <2>4. n + Pending(B, new) <= Pending(A, R)
    BY <2>5, <2>2, <2>3, PendingFalls
  <2> QED BY <2>4 DEF n
<1>24. Len(parts) + Len(new) + Pending(B, new) <= Len(R) + Pending(A, R)
  <2>1. Pending(A, R) \in Nat /\ Pending(B, new) \in Nat /\ Len(l) \in Nat /\ Len(r) \in Nat
    BY <1>12, <1>13, PendingIsNat
  <2> QED BY <1>1, <1>10, <1>18, <1>23, <2>1
<1>25. /\ SortedExtents(B)
       /\ \A i \in 1 .. Len(B) : \E k \in 1 .. Len(A) : A[k] = B[i]
  BY <1>13, <1>14 DEF LeftOf
<1>26. Splits(R, A, parts, r, B)
  BY <1>10, <1>11, <1>17, <1>21, <1>24, <1>25, <1>13 DEF Splits, new, cur, c, t, T
<1> QED BY <1>26 DEF parts, l, m, r, c, t, cur

\* What a call of next() does.
LEMMA CallSplits ==
  ASSUME NEW R \in Seq(Entries), R # << >>, SortedEntries(R),
         NEW A \in Seq(Extents), SortedExtents(A)
  PROVE  \E parts, rest, B : /\ MarkerNext(R, A) = Marked(parts, rest \o Tail(R), B)
                             /\ Splits(R, A, parts, rest, B)
<1> DEFINE cur == Head(R)
           c == cur.extent
           left == SkipAreas(A, c)
           whole(B) == Marked(<< cur >>, Tail(R), B)
<1>1. cur \in Entries /\ Tail(R) \in Seq(Entries)
  BY HeadAndTail
<1>2. /\ c \in Extents /\ c.address \in Nat /\ EndAddress(c) \in Nat
      /\ c.address < EndAddress(c)
  BY <1>1, EntryFields
<1>3. << >> \o Tail(R) = Tail(R)
  BY <1>1
<1>4. /\ LeftOf(left, A, c.address)
      /\ left # << >> => HasOverlap(left[1], c) \/ left[1].address >= c.address
  BY <1>2, SkipKeeps
<1>5. \A k \in 1 .. Len(A) : A[k].address \in Nat /\ EndAddress(A[k]) \in Nat
  <2>1. SUFFICES ASSUME NEW k \in 1 .. Len(A)
                 PROVE  A[k].address \in Nat /\ EndAddress(A[k]) \in Nat
    OBVIOUS
  <2>2. A[k] \in Extents
    OBVIOUS
  <2> QED BY <2>2, ExtentFields DEF EndAddress
<1>6. MarkerNext(R, A) =
        IF cur.mem_type \notin {"Available", "Acpi"} THEN whole(A)
        ELSE IF left = << >> THEN whole(<< >>)
        ELSE IF ~HasOverlap(Head(left), c) /\ Head(left).address > c.address THEN whole(left)
        ELSE SplitAt(cur, Head(left), Tail(R), left)
  BY DEF MarkerNext
<1>7. CASE cur.mem_type \notin {"Available", "Acpi"}
  <2>1. LeftOf(A, A, c.address)
    BY DEF LeftOf
  <2>2. Splits(R, A, << cur >>, << >>, A)
    BY <1>7, <2>1, KeptWhole
  <2>3. MarkerNext(R, A) = Marked(<< cur >>, << >> \o Tail(R), A)
    BY <1>3, <1>6, <1>7
  <2> QED BY <2>2, <2>3
<1> HIDE DEF left
<1>8. CASE cur.mem_type \in {"Available", "Acpi"} /\ left = << >>
  <2>1. ASSUME NEW k \in 1 .. Len(A), NEW x \in Nat, Covers(c, x) PROVE ~Covers(A[k], x)
    <3>1. \A i \in 1 .. Len(left) : FALSE
      BY <1>8
    <3>2. EndAddress(A[k]) <= c.address
      BY <1>4, <3>1 DEF LeftOf
    <3>3. EndAddress(A[k]) \in Nat
      BY <1>5
    <3>4. c.address <= x
      BY <2>1 DEF Covers
    <3>5. c.address \in Nat
      BY <1>2
    <3> QED BY <3>2, <3>3, <3>4, <3>5 DEF Covers
  <2>2. Splits(R, A, << cur >>, << >>, left)
    BY <1>4, <2>1, KeptWhole
  <2>3. MarkerNext(R, A) = Marked(<< cur >>, << >> \o Tail(R), left)
    BY <1>3, <1>6, <1>8
  <2> QED BY <2>2, <2>3
<1>9. ASSUME left # << >> PROVE left \in Seq(Extents) /\ Head(left) = left[1] /\ left[1] \in Extents
  <2>1. left \in Seq(Extents)
    BY <1>4 DEF LeftOf
  <2> QED BY <1>9, <2>1
<1>10. CASE /\ cur.mem_type \in {"Available", "Acpi"} /\ left # << >>
            /\ ~HasOverlap(Head(left), c) /\ Head(left).address > c.address
  <2>1. left[1].address \in Nat /\ EndAddress(left[1]) \in Nat /\ left[1].address < EndAddress(left[1])
    BY <1>9, <1>10, ExtentFields DEF EndAddress
  <2>2. EndAddress(c) <= left[1].address
    <3>1. ~(left[1].address < EndAddress(c)) \/ ~(c.address < EndAddress(left[1]))
      BY <1>2, <1>9, <1>10, OverlapMeans
    <3>2. left[1].address > c.address
      BY <1>9, <1>10
    <3> QED BY <1>2, <2>1, <3>1, <3>2
  <2>3. ASSUME NEW k \in 1 .. Len(A), NEW x \in Nat, Covers(c, x) PROVE ~Covers(A[k], x)
    <3>1. CASE EndAddress(A[k]) <= c.address
      BY <1>2, <1>5, <2>3, <3>1 DEF Covers
    <3>2. ASSUME NEW i \in 1 .. Len(left), left[i] = A[k] PROVE ~Covers(A[k], x)
      <4>1. left[1].address <= A[k].address
        <5>1. 1 \in 1 .. Len(left) /\ i \in Int /\ 1 <= i
          BY <1>9, <1>10
        <5>2. CASE i = 1
          BY <2>1, <3>2, <5>2
        <5>3. CASE i # 1
          <6>1. 1 < i
            BY <5>1, <5>3
          <6>2. EndAddress(left[1]) <= left[i].address
            BY <1>4, <5>1, <6>1 DEF LeftOf, SortedExtents
          <6>3. A[k].address \in Nat
            BY <1>5
          <6> QED BY <2>1, <3>2, <6>2, <6>3
        <5> QED BY <5>2, <5>3
      <4>2. A[k].address \in Nat
        BY <1>5
      <4> QED BY <1>2, <2>1, <2>2, <2>3, <4>1, <4>2 DEF Covers
    <3> QED BY <1>4, <3>1, <3>2 DEF LeftOf
  <2>4. Splits(R, A, << cur >>, << >>, left)
    BY <1>4, <2>3, KeptWhole
  <2>5. MarkerNext(R, A) = Marked(<< cur >>, << >> \o Tail(R), left)
    BY <1>3, <1>6, <1>10
  <2> QED BY <2>4, <2>5
<1>11. CASE /\ cur.mem_type \in {"Available", "Acpi"} /\ left # << >>
            /\ ~(~HasOverlap(Head(left), c) /\ Head(left).address > c.address)
  <2> DEFINE h == Head(left)
             parts == Optional(LeftDifference(c, h), cur.mem_type)
                        \o << MapEntry(Overlap(c, h), "KernelLoad") >>
             rest == Optional(RightDifference(c, h), cur.mem_type)
  <2>1. h = left[1] /\ h \in Extents
    BY <1>9, <1>11
  <2>2. h.address \in Nat /\ EndAddress(h) \in Nat /\ h.address < EndAddress(h)
    BY <2>1, ExtentFields DEF EndAddress
  <2>3. HasOverlap(h, c)
    <3>1. HasOverlap(h, c) \/ (h.address >= c.address /\ ~(h.address > c.address))
      BY <1>4, <1>11, <2>1
    <3>2. HasOverlap(h, c) <=> h.address < EndAddress(c) /\ c.address < EndAddress(h)
      BY <1>2, <2>1, OverlapMeans
    <3> HIDE DEF h
    <3> QED BY <1>2, <2>2, <3>1, <3>2
  <2>4. Meeting(R, A, left, h)
    BY <1>4, <1>11, <2>1, <2>3 DEF Meeting
  <2> HIDE DEF h
  <2>5. Splits(R, A, parts, rest, left)
    BY <2>4, CutInTwo
  <2>6. MarkerNext(R, A) = Marked(parts, rest \o Tail(R), left)
    BY <1>6, <1>11 DEF SplitAt, h
  <2> QED BY <2>5, <2>6
<1> QED BY <1>7, <1>8, <1>10, <1>11

LEMMA InsideCovers ==
  ASSUME NEW s \in Seq(Entries), NEW e \in Extents, Inside(s, e), NEW x \in Nat, ~Covers(e, x)
  PROVE  TypesAt(s, x) = {}
<1>1. e.address \in Nat /\ EndAddress(e) \in Nat
  BY ExtentFields DEF EndAddress
<1>2. ASSUME NEW i \in 1 .. Len(s), Covers(s[i].extent, x) PROVE FALSE
  <2>1. s[i] \in Entries
    OBVIOUS
  <2>2. s[i].extent.address \in Nat /\ EndAddress(s[i].extent) \in Nat
    BY <2>1, EntryFields
  <2>3. e.address <= s[i].extent.address /\ EndAddress(s[i].extent) <= EndAddress(e)
    BY DEF Inside
  <2> QED BY <1>1, <1>2, <2>2, <2>3 DEF Covers
<1> QED BY <1>2 DEF TypesAt

LEMMA FromCovers ==
  ASSUME NEW s \in Seq(Entries), NEW y \in Nat, From(s, y), NEW x \in Nat, x < y
  PROVE  TypesAt(s, x) = {}
<1>1. ASSUME NEW i \in 1 .. Len(s), Covers(s[i].extent, x) PROVE FALSE
  <2>1. s[i] \in Entries
    OBVIOUS
  <2>2. s[i].extent.address \in Nat
    BY <2>1, EntryFields
  <2>3. y <= s[i].extent.address
    BY DEF From
  <2> QED BY <1>1, <2>2, <2>3 DEF Covers
<1> QED BY <1>1 DEF TypesAt

\* What a byte of the map M is to be marked as, given the kernel areas K.
WantedAt(M, K, x) ==
  IF /\ TypesAt(M, x) \cap {"Available", "Acpi"} # {}
     /\ \E k \in 1 .. Len(K) : Covers(K[k], x)
  THEN {"KernelLoad"}
  ELSE TypesAt(M, x)

\* A byte is yielded as it should be marked, or still to come as it was.
MarkedAt(M, K, R, O, x) ==
  \/ /\ TypesAt(O, x) # {} /\ TypesAt(O, x) = WantedAt(M, K, x)
     /\ TypesAt(R, x) = {}
  \/ TypesAt(O, x) = {} /\ TypesAt(R, x) = TypesAt(M, x)

\* Between two calls: R and A are the regions and areas that are left of the
\* map M and the kernel areas K, and O is what was yielded.
MarkInv(M, K, R, A, O) ==
  /\ M \in Seq(Entries) /\ K \in Seq(Extents)
  /\ R \in Seq(Entries) /\ A \in Seq(Extents) /\ O \in Seq(Entries)
  /\ SortedExtents(A) /\ SortedEntries(O \o R)
  /\ \A i \in 1 .. Len(A) : \E k \in 1 .. Len(K) : K[k] = A[i]
  /\ \A k \in 1 .. Len(K) :
       (\E i \in 1 .. Len(A) : A[i] = K[k]) \/ From(R, EndAddress(K[k]))
  /\ \A x \in Nat : MarkedAt(M, K, R, O, x)
  /\ Len(O) + Len(R) + Pending(A, R) <= Len(M) + 2 * Len(K)

\* The output stays sorted.
LEMMA CallSorts ==
  ASSUME NEW R \in Seq(Entries), R # << >>, NEW O \in Seq(Entries), SortedEntries(O \o R),
         NEW A, NEW B, NEW parts, NEW rest, Splits(R, A, parts, rest, B)
  PROVE  /\ SortedEntries(R)
         /\ rest \o Tail(R) \in Seq(Entries) /\ O \o parts \in Seq(Entries)
         /\ SortedEntries((O \o parts) \o (rest \o Tail(R)))
<1> DEFINE cur == Head(R)
           T == Tail(R)
<1>1. /\ cur \in Entries /\ T \in Seq(Entries) /\ << cur >> \in Seq(Entries)
      /\ R = << cur >> \o T
  BY HeadAndTail
<1>2. SortedEntries(O) /\ SortedEntries(R) /\ Before(O, R)
  BY SortedConcat
<1>3. SortedEntries(T) /\ Before(<< cur >>, T) /\ From(T, EndAddress(cur.extent))
  BY <1>2, SortedHead
<1>4. Before(O, << cur >>) /\ Before(O, T)
  <2>1. Before(O, << cur >> \o T)
    BY <1>1, <1>2
  <2>2. << cur >> \in Seq(Entries) /\ T \in Seq(Entries)
    BY <1>1
  <2> HIDE DEF cur, T
  <2> QED BY <2>1, <2>2, BeforeConcat
<1>5. /\ parts \in Seq(Entries) /\ SortedEntries(parts) /\ Inside(parts, cur.extent)
      /\ rest \in Seq(Entries) /\ SortedEntries(rest) /\ Inside(rest, cur.extent)
      /\ Before(parts, rest)
  BY DEF Splits
<1>6. T \in Seq(Entries) /\ cur \in Entries
  BY <1>1
<1>7. cur.extent.address \in Nat /\ EndAddress(cur.extent) \in Nat
  BY <1>6, EntryFields
<1>8. \A s \in Seq(Entries) : \A i \in 1 .. Len(s) :
        s[i] \in Entries /\ s[i].extent.address \in Nat /\ EndAddress(s[i].extent) \in Nat
  <2>1. SUFFICES ASSUME NEW s \in Seq(Entries), NEW i \in 1 .. Len(s)
                 PROVE  s[i] \in Entries /\ s[i].extent.address \in Nat
                        /\ EndAddress(s[i].extent) \in Nat
    OBVIOUS
  <2>2. s[i] \in Entries
    OBVIOUS
  <2> QED BY <2>2, EntryFields
<1> HIDE DEF cur, T
<1>9. ASSUME NEW s \in Seq(Entries), Inside(s, cur.extent) PROVE Before(O, s) /\ Before(s, T)
  <2>1. Before(O, s)
    <3>1. SUFFICES ASSUME NEW i \in 1 .. Len(O), NEW j \in 1 .. Len(s)
                   PROVE  EndAddress(O[i].extent) <= s[j].extent.address
      BY DEF Before
    <3>2. EndAddress(O[i].extent) <= cur.extent.address
      <4>1. Len(<< cur >>) = 1 /\ << cur >>[1] = cur /\ 1 \in 1 .. 1
        OBVIOUS
      <4> QED BY <1>4, <4>1 DEF Before
    <3>3. cur.extent.address <= s[j].extent.address
      BY <1>9 DEF Inside
    <3>4. EndAddress(O[i].extent) \in Nat /\ s[j].extent.address \in Nat
      BY <1>8
    <3> QED BY <1>7, <3>2, <3>3, <3>4
  <2>2. Before(s, T)
    <3>1. SUFFICES ASSUME NEW i \in 1 .. Len(s), NEW j \in 1 .. Len(T)
                   PROVE  EndAddress(s[i].extent) <= T[j].extent.address
      BY DEF Before
    <3>2. EndAddress(cur.extent) <= T[j].extent.address
      BY <1>3 DEF From
    <3>3. EndAddress(s[i].extent) <= EndAddress(cur.extent)
      BY <1>9 DEF Inside
    <3>4. EndAddress(s[i].extent) \in Nat /\ T[j].extent.address \in Nat
      BY <1>6, <1>8
    <3> QED BY <1>7, <3>2, <3>3, <3>4
  <2> QED BY <2>1, <2>2
<1>10. Before(O, parts) /\ Before(O, rest) /\ Before(parts, T) /\ Before(rest, T)
  BY <1>5, <1>9
<1>11. SortedEntries(O \o parts) /\ O \o parts \in Seq(Entries)
  BY <1>2, <1>5, <1>10, SortedConcat
<1>12. SortedEntries(rest \o T) /\ rest \o T \in Seq(Entries)
  BY <1>3, <1>5, <1>6, <1>10, SortedConcat
<1>13. Before(O \o parts, rest) /\ Before(O \o parts, T)
  BY <1>4, <1>5, <1>6, <1>10, BeforeConcat
<1>14. Before(O \o parts, rest \o T)
  BY <1>5, <1>6, <1>11, <1>13, BeforeConcat
<1>15. SortedEntries((O \o parts) \o (rest \o T))
  BY <1>11, <1>12, <1>14, SortedConcat
<1> QED BY <1>2, <1>11, <1>12, <1>15 DEF T

\* The bytes a call yields are marked, and the others are left as they were.
LEMMA CallMarks ==
  ASSUME NEW M, NEW K, NEW R, NEW A, NEW O, MarkInv(M, K, R, A, O), R # << >>,
         NEW B, NEW parts, NEW rest, Splits(R, A, parts, rest, B), NEW x \in Nat
  PROVE  MarkedAt(M, K, rest \o Tail(R), O \o parts, x)
<1> DEFINE cur == Head(R)
           T == Tail(R)
<1>1. /\ R \in Seq(Entries) /\ O \in Seq(Entries) /\ SortedEntries(O \o R)
      /\ A \in Seq(Extents) /\ K \in Seq(Extents)
  BY DEF MarkInv
<1>2. SortedEntries(R)
  BY <1>1, SortedConcat
<1>3. /\ cur \in Entries /\ T \in Seq(Entries) /\ << cur >> \in Seq(Entries)
      /\ R = << cur >> \o T
  BY <1>1, HeadAndTail
<1>4. From(T, EndAddress(cur.extent)) /\ \A y \in Nat : From(R, y) <=> y <= cur.extent.address
  BY <1>1, <1>2, SortedHead
<1>5. /\ cur.extent \in Extents
      /\ cur.extent.address \in Nat /\ EndAddress(cur.extent) \in Nat
  BY <1>3, EntryFields
<1>6. /\ parts \in Seq(Entries) /\ Inside(parts, cur.extent)
      /\ rest \in Seq(Entries) /\ Inside(rest, cur.extent)
  BY DEF Splits
<1>7. /\ TypesAt(O \o parts, x) = TypesAt(O, x) \cup TypesAt(parts, x)
      /\ TypesAt(rest \o T, x) = TypesAt(rest, x) \cup TypesAt(T, x)
  <2>1. O \in Seq(Entries) /\ parts \in Seq(Entries) /\ rest \in Seq(Entries) /\ T \in Seq(Entries)
    BY <1>1, <1>3, <1>6
  <2> HIDE DEF cur, T
  <2>2. TypesAt(O \o parts, x) = TypesAt(O, x) \cup TypesAt(parts, x)
    BY <2>1, TypesConcat
  <2>3. TypesAt(rest \o T, x) = TypesAt(rest, x) \cup TypesAt(T, x)
    BY <2>1, TypesConcat
  <2> QED BY <2>2, <2>3
<1>8. TypesAt(R, x) = (IF Covers(cur.extent, x) THEN {cur.mem_type} ELSE {}) \cup TypesAt(T, x)
  <2>1. TypesAt(<< cur >>, x) = IF Covers(cur.extent, x) THEN {cur.mem_type} ELSE {}
    BY TypesOfOne
  <2>2. << cur >> \in Seq(Entries) /\ T \in Seq(Entries)
    BY <1>3
  <2>3. TypesAt(<< cur >> \o T, x) = TypesAt(<< cur >>, x) \cup TypesAt(T, x)
    BY <2>2, TypesConcat
  <2> QED BY <1>3, <2>1, <2>3
<1>9. MarkedAt(M, K, R, O, x)
  BY DEF MarkInv
<1>10. CASE ~Covers(cur.extent, x)
  <2>1. TypesAt(parts, x) = {} /\ TypesAt(rest, x) = {}
    BY <1>5, <1>6, <1>10, InsideCovers
  <2>2. TypesAt(O \o parts, x) = TypesAt(O, x) /\ TypesAt(rest \o T, x) = TypesAt(R, x)
    BY <1>7, <1>8, <1>10, <2>1
  <2> QED BY <1>9, <2>2 DEF MarkedAt
<1>11. CASE Covers(cur.extent, x)
  <2>1. TypesAt(T, x) = {}
    <3>1. x < EndAddress(cur.extent)
      BY <1>11 DEF Covers
    <3> QED BY <1>3, <1>4, <1>5, <3>1, FromCovers
  <2>2. TypesAt(R, x) = {cur.mem_type}
    BY <1>8, <1>11, <2>1
  <2>3. TypesAt(O, x) = {} /\ TypesAt(M, x) = {cur.mem_type}
    BY <1>9, <2>2 DEF MarkedAt
  <2>4. (\E k \in 1 .. Len(A) : Covers(A[k], x)) <=> (\E k \in 1 .. Len(K) : Covers(K[k], x))
    <3>1. ASSUME NEW k \in 1 .. Len(A), Covers(A[k], x)
          PROVE  \E j \in 1 .. Len(K) : Covers(K[j], x)
      BY <3>1 DEF MarkInv
    <3>2. ASSUME NEW j \in 1 .. Len(K), Covers(K[j], x)
          PROVE  \E k \in 1 .. Len(A) : Covers(A[k], x)
      <4>1. K[j] \in Extents
        BY <1>1
      <4>2. EndAddress(K[j]) \in Nat
        BY <4>1, ExtentFields DEF EndAddress
      <4>3. ~From(R, EndAddress(K[j]))
        <5>1. ~(EndAddress(K[j]) <= cur.extent.address)
          BY <1>5, <1>11, <3>2, <4>2 DEF Covers
        <5> QED BY <1>4, <4>2, <5>1
      <4> QED BY <3>2, <4>3 DEF MarkInv
    <3> QED BY <3>1, <3>2
  <2>5. Marking(cur, A, x) = WantedAt(M, K, x)
    <3>1. cur.mem_type \in {"Available", "Acpi"} <=> TypesAt(M, x) \cap {"Available", "Acpi"} # {}
      BY <2>3
    <3>2. CASE /\ cur.mem_type \in {"Available", "Acpi"}
               /\ \E k \in 1 .. Len(A) : Covers(A[k], x)
      BY <2>4, <3>1, <3>2 DEF Marking, WantedAt
    <3>3. CASE ~(/\ cur.mem_type \in {"Available", "Acpi"}
                 /\ \E k \in 1 .. Len(A) : Covers(A[k], x))
      <4>1. Marking(cur, A, x) = {cur.mem_type}
        BY <3>3 DEF Marking
      <4>2. WantedAt(M, K, x) = TypesAt(M, x)
        BY <2>4, <3>1, <3>3 DEF WantedAt
      <4> QED BY <2>3, <4>1, <4>2
    <3> QED BY <3>2, <3>3
  <2>6. \/ TypesAt(parts, x) = Marking(cur, A, x) /\ TypesAt(rest, x) = {}
        \/ TypesAt(parts, x) = {} /\ TypesAt(rest, x) = {cur.mem_type}
    BY <1>11 DEF Splits
  <2>7. CASE TypesAt(parts, x) = Marking(cur, A, x) /\ TypesAt(rest, x) = {}
    <3>1. Marking(cur, A, x) # {}
      BY DEF Marking
    <3>2. /\ TypesAt(O \o parts, x) = WantedAt(M, K, x) /\ TypesAt(O \o parts, x) # {}
          /\ TypesAt(rest \o T, x) = {}
      BY <1>7, <2>1, <2>3, <2>5, <2>7, <3>1
    <3> QED BY <3>2 DEF MarkedAt
  <2>8. CASE TypesAt(parts, x) = {} /\ TypesAt(rest, x) = {cur.mem_type}
    <3>1. TypesAt(O \o parts, x) = {} /\ TypesAt(rest \o T, x) = TypesAt(M, x)
      BY <1>7, <2>1, <2>3, <2>8
    <3> QED BY <3>1 DEF MarkedAt
  <2> QED BY <2>6, <2>7, <2>8
<1> QED BY <1>10, <1>11

\* A call of next() keeps the invariant.
LEMMA CallKeeps ==
  ASSUME NEW M, NEW K, NEW R, NEW A, NEW O, MarkInv(M, K, R, A, O), R # << >>
  PROVE  LET m == MarkerNext(R, A)
         IN  MarkInv(M, K, m.regions, m.areas, O \o m.parts)
<1>1. /\ M \in Seq(Entries) /\ K \in Seq(Extents)
      /\ R \in Seq(Entries) /\ A \in Seq(Extents) /\ O \in Seq(Entries)
      /\ SortedExtents(A) /\ SortedEntries(O \o R)
  BY DEF MarkInv
<1>2. SortedEntries(R)
  BY <1>1, SortedConcat
<1>3. PICK parts, rest, B : /\ MarkerNext(R, A) = Marked(parts, rest \o Tail(R), B)
                            /\ Splits(R, A, parts, rest, B)
  BY <1>1, <1>2, CallSplits
<1> DEFINE N == rest \o Tail(R)
           P == O \o parts
<1>4. N \in Seq(Entries) /\ P \in Seq(Entries) /\ SortedEntries(P \o N)
  BY <1>1, <1>3, CallSorts
<1>5. \A x \in Nat : MarkedAt(M, K, N, P, x)
  BY <1>3, CallMarks
<1>6. /\ B \in Seq(Extents) /\ SortedExtents(B)
      /\ \A i \in 1 .. Len(B) : \E k \in 1 .. Len(A) : A[k] = B[i]
      /\ \A k \in 1 .. Len(A) :
           (\E i \in 1 .. Len(B) : B[i] = A[k]) \/ From(N, EndAddress(A[k]))
      /\ Len(parts) + Len(N) + Pending(B, N) <= Len(R) + Pending(A, R)
  BY <1>3 DEF Splits
<1>7. \A i \in 1 .. Len(B) : \E k \in 1 .. Len(K) : K[k] = B[i]
  <2>1. \A i \in 1 .. Len(A) : \E k \in 1 .. Len(K) : K[k] = A[i]
    BY DEF MarkInv
  <2> QED BY <1>6, <2>1
<1>8. \A k \in 1 .. Len(K) :
        (\E i \in 1 .. Len(B) : B[i] = K[k]) \/ From(N, EndAddress(K[k]))
  <2>1. SUFFICES ASSUME NEW k \in 1 .. Len(K)
                 PROVE  (\E i \in 1 .. Len(B) : B[i] = K[k]) \/ From(N, EndAddress(K[k]))
    OBVIOUS
  <2>2. CASE \E i \in 1 .. Len(A) : A[i] = K[k]
    BY <1>6, <2>2
  <2>3. CASE From(R, EndAddress(K[k]))
    <3>1. K[k] \in Extents
      BY <1>1
    <3>2. EndAddress(K[k]) \in Nat
      BY <3>1, ExtentFields DEF EndAddress
    <3>3. EndAddress(K[k]) <= Head(R).extent.address
      BY <1>1, <1>2, <2>3, <3>2, SortedHead
    <3>4. From(rest, EndAddress(K[k]))
      <4>1. SUFFICES ASSUME NEW i \in 1 .. Len(rest)
                     PROVE  EndAddress(K[k]) <= rest[i].extent.address
        BY DEF From
      <4>2. rest \in Seq(Entries) /\ Inside(rest, Head(R).extent)
        BY <1>3 DEF Splits
      <4>3. rest[i] \in Entries
        BY <4>2
      <4>4. rest[i].extent.address \in Nat
        BY <4>3, EntryFields
      <4>5. Head(R) \in Entries
        BY <1>1, HeadAndTail
      <4>6. Head(R).extent.address \in Nat
        BY <4>5, EntryFields
      <4>7. Head(R).extent.address <= rest[i].extent.address
        BY <4>2 DEF Inside
      <4> QED BY <3>2, <3>3, <4>4, <4>6, <4>7
    <3>5. From(Tail(R), EndAddress(K[k]))
      <4>1. R = << Head(R) >> \o Tail(R) /\ << Head(R) >> \in Seq(Entries) /\ Tail(R) \in Seq(Entries)
        BY <1>1, HeadAndTail
      <4>2. From(<< Head(R) >> \o Tail(R), EndAddress(K[k]))
        BY <2>3, <4>1
      <4>3. << Head(R) >> \in Seq(Entries) /\ Tail(R) \in Seq(Entries)
        BY <4>1
      <4> QED BY <4>2, <4>3, FromConcat
    <3>6. rest \in Seq(Entries) /\ Tail(R) \in Seq(Entries)
      BY <1>1, <1>3, HeadAndTail DEF Splits
    <3> QED BY <3>4, <3>5, <3>6, FromConcat
  <2> QED BY <2>2, <2>3 DEF MarkInv
<1>9. Len(P) + Len(N) + Pending(B, N) <= Len(M) + 2 * Len(K)
  <2>1. parts \in Seq(Entries)
    BY <1>3 DEF Splits
  <2>2. Len(P) = Len(O) + Len(parts) /\ Len(O) \in Nat /\ Len(parts) \in Nat
    BY <1>1, <2>1, ConcatFacts
  <2>3. Len(N) \in Nat /\ Len(R) \in Nat /\ Len(M) \in Nat /\ Len(K) \in Nat
    BY <1>1, <1>4
  <2>4. Pending(A, R) \in Nat /\ Pending(B, N) \in Nat
    BY <1>1, <1>6, PendingIsNat
  <2>5. Len(O) + Len(R) + Pending(A, R) <= Len(M) + 2 * Len(K)
    BY DEF MarkInv
  <2>6. Len(parts) + Len(N) + Pending(B, N) <= Len(R) + Pending(A, R)
    BY <1>6
  <2> HIDE DEF P, N
  <2> QED BY <2>2, <2>3, <2>4, <2>5, <2>6
<1>10. MarkInv(M, K, N, B, P)
  BY <1>1, <1>4, <1>5, <1>6, <1>7, <1>8, <1>9 DEF MarkInv
<1>11. /\ MarkerNext(R, A).regions = N /\ MarkerNext(R, A).areas = B
       /\ O \o MarkerNext(R, A).parts = P
  BY <1>3 DEF Marked
<1> QED BY <1>10, <1>11

\* The map mark_kernel_areas is given has no types but these two.
PlainTypes == \A i \in 1 .. Len(map) : map[i].mem_type \in {"Available", "Reserved"}

MarkerInv == MarkInv(map, kernel, regions, areas, out) /\ PlainTypes

LEMMA UpToIsSeq ==
  ASSUME NEW n, NEW S, NEW s \in UpTo(n, S)
  PROVE  s \in Seq(S) /\ \A i \in 1 .. Len(s) : s[i] \in S
<1>1. PICK k \in 0 .. n : s \in [1 .. k -> S]
  BY DEF UpTo
<1>2. k \in Nat
  BY <1>1
<1>3. s \in Seq(S)
  BY <1>1, <1>2
<1> QED BY <1>3

LEMMA MarkerInit ==
  ASSUME Init
  PROVE  MarkerInv
<1> DEFINE Plain == [extent : Extents, mem_type : {"Available", "Reserved"}]
<1>1. /\ map \in UpTo(MaxRegions, Plain) /\ SortedEntries(map)
      /\ kernel \in UpTo(MaxAreas, Extents) /\ SortedExtents(kernel)
      /\ regions = map /\ areas = kernel /\ out = << >>
  BY DEF Init
<1>2. map \in Seq(Plain) /\ kernel \in Seq(Extents)
  <2> HIDE DEF Plain
  <2> QED BY <1>1, UpToIsSeq
<1>3. \A i \in 1 .. Len(map) : map[i] \in Plain
  <2> HIDE DEF Plain
  <2> QED BY <1>2
<1>4. Plain \subseteq Entries
  BY DEF Entries, MemoryTypes
<1>5. map \in Seq(Entries)
  <2> HIDE DEF Plain
  <2> QED BY <1>2, <1>4
<1>6. PlainTypes
  BY <1>3 DEF PlainTypes
<1>7. /\ << >> \in Seq(Entries) /\ Len(<< >>) = 0
      /\ \A x : TypesAt(<< >>, x) = {}
  BY NothingFacts
<1>8. << >> \o map = map
  BY <1>5
<1>9. \A x \in Nat : MarkedAt(map, kernel, map, << >>, x)
  BY <1>7 DEF MarkedAt
<1>10. Len(<< >>) + Len(map) + Pending(kernel, map) <= Len(map) + 2 * Len(kernel)
  <2>1. /\ Len(map) \in Nat /\ Len(kernel) \in Nat /\ Pending(kernel, map) \in Nat
        /\ Cuts(kernel[1], map) \in 0 .. 2
        /\ kernel # << >> => Pending(kernel, map) = 2 * (Len(kernel) - 1) + Cuts(kernel[1], map)
    <3>1. kernel \in Seq(Extents) /\ Len(map) \in Nat
      BY <1>2, <1>5
    <3> QED BY <3>1, PendingIsNat
  <2>2. kernel = << >> => Pending(kernel, map) = 0
    BY DEF Pending
  <2> QED BY <1>7, <2>1, <2>2
<1>11. MarkInv(map, kernel, map, kernel, << >>)
  BY <1>1, <1>2, <1>5, <1>7, <1>8, <1>9, <1>10 DEF MarkInv
<1> QED BY <1>1, <1>6, <1>11 DEF MarkerInv

LEMMA MarkerInvariant == Spec => []MarkerInv
<1>1. Init => MarkerInv
  BY MarkerInit
<1>2. MarkerInv /\ [Next]_vars => MarkerInv'
  <2> SUFFICES ASSUME MarkerInv, [Next]_vars PROVE MarkerInv'
    OBVIOUS
  <2>1. CASE Step
    <3>1. /\ regions # << >> /\ map' = map /\ kernel' = kernel
          /\ out' = out \o MarkerNext(regions, areas).parts
          /\ regions' = MarkerNext(regions, areas).regions
          /\ areas' = MarkerNext(regions, areas).areas
      BY <2>1 DEF Step
    <3>2. MarkInv(map, kernel, MarkerNext(regions, areas).regions,
                  MarkerNext(regions, areas).areas, out \o MarkerNext(regions, areas).parts)
      BY <3>1, CallKeeps DEF MarkerInv
    <3>3. MarkInv(map', kernel', regions', areas', out')
      BY <3>1, <3>2
    <3> QED BY <3>1, <3>3 DEF MarkerInv, PlainTypes
  <2>2. CASE Exhausted
    BY <2>2 DEF Exhausted, vars, MarkerInv, PlainTypes
  <2>3. CASE UNCHANGED vars
    BY <2>3 DEF vars, MarkerInv, PlainTypes
  <2> QED BY <2>1, <2>2, <2>3 DEF Next
<1> QED BY <1>1, <1>2, PTL DEF Spec

\* mark_kernel_areas marks every byte right, whatever the map and the kernel
\* areas are: between two calls of next() each byte has been yielded, once, as
\* kernel data or as what the map says, or it is still to come as it was.
THEOREM MarksExactly == Spec => []MarkedExactly
<1>1. MarkerInv => MarkedExactly
  <2> SUFFICES ASSUME MarkerInv, NEW x \in 0 .. MaxAddr
               PROVE  IF Yielded(x)
                      THEN TypesAt(out, x) = MarkedTypesAt(x) /\ TypesAt(regions, x) = {}
                      ELSE TypesAt(regions, x) = TypesAt(map, x)
    BY DEF MarkedExactly
  <2>1. x \in Nat
    OBVIOUS
  <2>2. MarkedAt(map, kernel, regions, out, x)
    BY <2>1 DEF MarkerInv, MarkInv
  <2>3. Yielded(x) <=> TypesAt(out, x) # {}
    BY DEF Yielded, TypesAt
  <2>4. TypesAt(map, x) \cap {"Available", "Acpi"} # {} <=> "Available" \in TypesAt(map, x)
    BY DEF MarkerInv, PlainTypes, TypesAt
  <2>5. WantedAt(map, kernel, x) = MarkedTypesAt(x)
    <3>1. CASE /\ "Available" \in TypesAt(map, x)
               /\ \E i \in 1 .. Len(kernel) : Covers(kernel[i], x)
      BY <2>4, <3>1 DEF WantedAt, MarkedTypesAt
    <3>2. CASE ~(/\ "Available" \in TypesAt(map, x)
                 /\ \E i \in 1 .. Len(kernel) : Covers(kernel[i], x))
      BY <2>4, <3>2 DEF WantedAt, MarkedTypesAt
    <3> QED BY <3>1, <3>2
  <2> QED BY <2>2, <2>3, <2>5 DEF MarkedAt
<1> QED BY <1>1, MarkerInvariant, PTL

\* What it yields, followed by what is left, stays sorted and free of overlaps,
\* so that the next pass and Map may rely on it.
THEOREM StaysSorted == Spec => []OutputSorted
<1>1. MarkerInv => OutputSorted
  BY DEF MarkerInv, MarkInv, OutputSorted
<1> QED BY <1>1, MarkerInvariant, PTL

\* A pass adds at most two entries for each kernel area, for any number of
\* them, although an area is put back after every split and may split again.
THEOREM AddsAtMostTwo == Spec => []AtMostTwoMorePerArea
<1>1. MarkerInv => AtMostTwoMorePerArea
  <2> SUFFICES ASSUME MarkerInv PROVE AtMostTwoMorePerArea
    OBVIOUS
  <2>1. /\ out \in Seq(Entries) /\ regions \in Seq(Entries) /\ areas \in Seq(Extents)
        /\ map \in Seq(Entries) /\ kernel \in Seq(Extents)
        /\ Len(out) + Len(regions) + Pending(areas, regions) <= Len(map) + 2 * Len(kernel)
    BY DEF MarkerInv, MarkInv
  <2>2. /\ Len(out) \in Nat /\ Len(regions) \in Nat /\ Len(map) \in Nat /\ Len(kernel) \in Nat
        /\ Pending(areas, regions) \in Nat
    BY <2>1, PendingIsNat
  <2> QED BY <2>1, <2>2 DEF AtMostTwoMorePerArea
<1> QED BY <1>1, MarkerInvariant, PTL
=============================================================================
