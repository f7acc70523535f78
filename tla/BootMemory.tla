------------------------------ MODULE BootMemory ------------------------------
(***************************************************************************)
(* mm::init: from the boot loader's memory map to the bitmap of the frame  *)
(* allocator.  The map is corrected in two passes, a run of frames is set  *)
(* aside for a BumpFrameAllocator, the kernel's page tables are built in   *)
(* it, what is left goes back to the map, the bitmap is filled, and the    *)
(* reserved extents are cut out of it.                                     *)
(*                                                                         *)
(* How many frames the page tables take depends on the layout of the       *)
(* mappings; here it is any number (PageTableTemplate builds the tables).  *)
(***************************************************************************)
EXTENDS MemoryMap, FiniteSets

LOCAL INSTANCE Functions

CONSTANTS
  OneMiB, OneGiB,
  TableRatio,     \* one bump frame per 256 frames
  NumBytes,       \* the length of FRAME_BITMAP, MAX_MEMORY_FRAMES / 8
  MapCapacity,    \* the 128 slots of Map
  Boots,          \* machines: [map, module, kernel, info]
  GarbageSizes    \* what total_size() may read from an overwritten structure

VARIABLES
  boot,       \* the machine: memory map, init module, kernel image, boot_info
  phase,      \* mark_module, mark_kernel, choose, tables, fill, reserve, ready
  regions,    \* KernelAreaMarker::regions of the pass under way
  areas,      \* KernelAreaMarker::kernel_areas
  map,        \* memory_map
  entry,      \* init_alloc_map_ndx, then the entry that fill looks at
  remain,     \* BumpFrameAllocator::remain
  tables,     \* the frames that hold page tables
  bitmap,     \* the frames whose bit is 1
  todo,       \* reserved extents still to be cut out
  panic       \* what failed, or "no"

vars == <<boot, phase, regions, areas, map, entry, remain, tables, bitmap, todo, panic>>

Init ==
  /\ boot \in Boots
  /\ phase = "mark_module"
  /\ regions = boot.map
  /\ areas = << boot.module >>
  /\ map = << >>
  /\ entry = 0
  /\ remain = NoFrames
  /\ tables = {}
  /\ bitmap = {}
  /\ todo = << >>
  /\ panic = "no"

At(p) == phase = p /\ panic = "no"

Panic(cause) ==
  /\ panic' = cause
  /\ UNCHANGED <<boot, phase, regions, areas, map, entry, remain, tables, bitmap, todo>>

\* One entry pulled through mark_kernel_areas.
Mark ==
  /\ At("mark_module") \/ At("mark_kernel")
  /\ regions # << >>
  /\ LET m == MarkerNext(regions, areas)
     IN  /\ map' = map \o m.parts
         /\ regions' = m.regions
         /\ areas' = m.areas
  /\ UNCHANGED <<boot, phase, entry, remain, tables, bitmap, todo, panic>>

\* The kernel is marked in what the first pass yields.
SecondPass ==
  /\ At("mark_module")
  /\ regions = << >>
  /\ phase' = "mark_kernel"
  /\ regions' = map
  /\ areas' = << boot.kernel >>
  /\ map' = << >>
  /\ UNCHANGED <<boot, entry, remain, tables, bitmap, todo, panic>>

\* Map::from_entries collects the result.
Collect ==
  /\ At("mark_kernel")
  /\ regions = << >>
  /\ IF Len(map) > MapCapacity
     THEN Panic("map full")
     ELSE /\ phase' = "choose"
          /\ UNCHANGED <<boot, regions, areas, map, entry, remain, tables, bitmap, todo, panic>>

(***************************************************************************)
(* The frames for the page tables                                          *)
(***************************************************************************)

TotalFrames ==
  FoldFunction(+, 0, [i \in 1 .. Len(map) |-> ContainingExtent(map[i].extent).count])

InitAllocFrames == TotalFrames \div TableRatio

\* contained_by_extent(..).unwrap() on an entry.
Unwraps(i) ==
  /\ ~ContainedPanics(map[i].extent)
  /\ ContainedByExtent(map[i].extent) # NoFrames

\* The entries that the search evaluates its predicate on.
Candidates ==
  {i \in 1 .. Len(map) :
     map[i].extent.address >= OneMiB /\ map[i].mem_type = "Available"}

\* Where the search stops: the first one that is large enough, or on which it
\* panics.
Stops == {i \in Candidates :
            Unwraps(i) => ContainedByExtent(map[i].extent).count >= InitAllocFrames}

Chosen == CHOOSE i \in Stops : \A j \in Stops : i <= j

\* Bump frames are cut from the front of the entry, which starts behind them.
CutFront(i, r) ==
  [map EXCEPT ![i].extent =
     FromRangeExclusive(EndFrame(r) * PageSize, EndAddress(map[i].extent))]

ChooseInitFrames ==
  /\ At("choose")
  /\ IF Stops = {} \/ (Stops # {} /\ ~Unwraps(Chosen)) \/ InitAllocFrames = 0
     THEN Panic("unwrap")
     ELSE LET r == FrameRange(ContainedByExtent(map[Chosen].extent).first, InitAllocFrames)
          IN  IF \/ EndFrame(r) * PageSize > OneGiB
                 \/ r.first * PageSize < EndAddress(boot.kernel)
              THEN Panic("assert")
              ELSE /\ phase' = "tables"
                   /\ entry' = Chosen
                   /\ map' = CutFront(Chosen, r)
                   /\ remain' = r
                   /\ UNCHANGED <<boot, regions, areas, tables, bitmap, todo, panic>>

\* BumpFrameAllocator::allocate, for a page table: the frame is overwritten.
AllocateTable ==
  /\ At("tables")
  /\ IF remain = NoFrames
     THEN Panic("out of bump frames")
     ELSE /\ tables' = tables \cup {remain.first}
          /\ remain' = NewFrameRange(remain.first + 1, remain.count - 1)
          /\ UNCHANGED <<boot, phase, regions, areas, map, entry, bitmap, todo, panic>>

\* Nothing is put back.
RestoreRemaining_never == map

\* What the bump allocator has left is put back in front of the entry.
RestoreRemaining ==
  IF remain = NoFrames
  THEN map
  ELSE [map EXCEPT ![entry].extent =
          FromRangeExclusive(remain.first * PageSize, EndAddress(map[entry].extent))]

TablesBuilt ==
  /\ At("tables")
  /\ tables # {}
  /\ map' = RestoreRemaining
  /\ IF BitmapLongEnough(NumBytes, map')
     THEN phase' = "fill" /\ panic' = panic
     ELSE phase' = phase /\ panic' = "bitmap too short"
  /\ entry' = 1
  /\ UNCHANGED <<boot, regions, areas, remain, tables, bitmap, todo>>

(***************************************************************************)
(* The bitmap                                                              *)
(***************************************************************************)

Bits == 0 .. (NumBytes * FRAMES_PER_ENTRY - 1)

\* fill_bitmap_from_map, one entry of the map.
Fill ==
  /\ At("fill")
  /\ entry <= Len(map)
  /\ LET r == MapFrames(map[entry])
     IN  IF map[entry].mem_type # "Available" \/ r = NoFrames
         THEN entry' = entry + 1 /\ UNCHANGED <<bitmap, panic>>
         ELSE IF FillPanics(r)
         THEN panic' = "underflow" /\ UNCHANGED <<entry, bitmap>>
         ELSE IF ~(FillRange({}, r) \subseteq Bits)
         THEN panic' = "index" /\ UNCHANGED <<entry, bitmap>>
         ELSE entry' = entry + 1 /\ bitmap' = FillRange(bitmap, r) /\ UNCHANGED panic
  /\ UNCHANGED <<boot, phase, regions, areas, map, remain, tables, todo>>

\* boot_info's size is read from the structure itself: once a page table has
\* been written over its first frame it is whatever the table holds there.
BootInfoSizes ==
  IF FrameOf(boot.info.address) \in tables THEN GarbageSizes ELSE {boot.info.length}

ReservedExtents(size) ==
  << boot.module, boot.kernel, Extent(boot.info.address, size), Extent(0, OneMiB) >>

Filled ==
  /\ At("fill")
  /\ entry > Len(map)
  /\ \E size \in BootInfoSizes :
       IF size = 0     \* PhysExtent::from_raw
       THEN Panic("unwrap")
       ELSE /\ phase' = "reserve"
            /\ todo' = ReservedExtents(size)
            /\ UNCHANGED <<boot, regions, areas, map, entry, remain, tables, bitmap, panic>>

\* Only the frames that lie wholly in the extent.
Cleared_inside(extent) == bitmap \ FramesIn(MapFrames(MapEntry(extent, "Reserved")))

\* reserve() on every frame an extent touches; a frame in use is ignored.
Cleared(extent) == bitmap \ FramesIn(ContainingExtent(extent))

Reserve ==
  /\ At("reserve")
  /\ todo # << >>
  /\ bitmap' = Cleared(Head(todo))
  /\ todo' = Tail(todo)
  /\ panic' = IF EndFrame(ContainingExtent(Head(todo))) > NumBytes * FRAMES_PER_ENTRY
              THEN "frame exceeded bitmap size"
              ELSE "no"
  /\ UNCHANGED <<boot, phase, regions, areas, map, entry, remain, tables>>

\* FRAME_ALLOCATOR is set, the page table is installed.
Publish ==
  /\ At("reserve")
  /\ todo = << >>
  /\ phase' = "ready"
  /\ UNCHANGED <<boot, regions, areas, map, entry, remain, tables, bitmap, todo, panic>>

Done == (phase = "ready" \/ panic # "no") /\ UNCHANGED vars

Next ==
  \/ Mark \/ SecondPass \/ Collect
  \/ ChooseInitFrames \/ AllocateTable \/ TablesBuilt
  \/ Fill \/ Filled \/ Reserve \/ Publish
  \/ Done

Spec == Init /\ [][Next]_vars

(***************************************************************************)
(* Properties                                                              *)
(***************************************************************************)

\* The frames whose bytes all lie in one available entry of the boot loader's map.
Usable ==
  UNION {FramesIn(MapFrames(boot.map[i])) :
           i \in {j \in 1 .. Len(boot.map) : boot.map[j].mem_type = "Available"}}

FramesTouching(extent) == FramesIn(ContainingExtent(extent))

\* The frames that hold the init module, the kernel, boot_info or lie below 1 MiB.
Occupied ==
  UNION {FramesTouching(e) :
           e \in {boot.module, boot.kernel, boot.info, Extent(0, OneMiB)}}

\* A page table is only ever built in memory that the boot loader reported
\* available, above the first MiB, and that holds neither the init module nor
\* the kernel, whatever the two passes split and wherever the search stopped.
TablesInFreeMemory ==
  tables \subseteq Usable \ UNION {FramesTouching(e) :
                      e \in {boot.module, boot.kernel, Extent(0, OneMiB)}}

\* The length asserted before the bitmap is filled is enough for every write:
\* fill_bitmap_from_map never indexes past the bitmap.
WritesInBounds == panic # "index"

\* Some available range of the corrected map starts and ends inside the byte of
\* the bitmap that frame f belongs to: the leading and the trailing write of
\* fill_bitmap_from_map then meet and set the whole byte.
SharesByteWithRange(f) ==
  \E i \in 1 .. Len(map) :
    LET r == MapFrames(map[i])
    IN  /\ map[i].mem_type = "Available"
        /\ r # NoFrames
        /\ EndAligned(r) < FirstAligned(r)
        /\ f \div FRAMES_PER_ENTRY = r.first \div FRAMES_PER_ENTRY

\* The frames given to the Mapper are "not in use anywhere else"
\* (paging.rs:147): boot_info is still read when the tables are built.
TablesSpareBootInfo == tables \cap FramesTouching(boot.info) = {}

\* When the allocator is published, no frame of the kernel, the init module,
\* the first MiB or, unless a page table was written over it, the boot
\* information is free; any other free frame is available memory that holds no
\* page table, unless the range of a byte it shares made fill_bitmap_from_map
\* free the whole byte.
FreeFramesAreUnused ==
  phase = "ready" =>
    /\ bitmap \cap UNION {FramesTouching(e) : e \in {boot.module, boot.kernel, Extent(0, OneMiB)}} = {}
    /\ TablesSpareBootInfo => bitmap \cap FramesTouching(boot.info) = {}
    /\ \A f \in bitmap : f \in Usable \ tables \/ SharesByteWithRange(f)

\* No memory is lost on the way: a frame the boot loader reported available
\* that holds neither kernel data nor a page table is free in the end, as long
\* as boot_info's size could still be read.
NothingLost ==
  phase = "ready" /\ TablesSpareBootInfo => Usable \ (Occupied \cup tables) \subseteq bitmap

\* The frames of the page tables "are not known to either `memory_map` or the
\* future allocator" (mm.rs:165).
TablesStayReserved == phase = "ready" => bitmap \cap tables = {}
==============================================================================
