-------------------------- MODULE PageTableTemplate --------------------------
(***************************************************************************)
(* create_page_table_template (src/mm.rs): the kernel's page tables, built *)
(* with the Mapper of Paging in frames of the bump allocator.  One step is *)
(* one call of map; every call's result is unwrapped.                      *)
(***************************************************************************)
EXTENDS Paging

CONSTANTS
  AddressBits,   \* frame -> the bits of its address
  LowPages,      \* pages of the first MiB
  PhysBase,      \* first page of VirtualMap::phys_map
  KernelBase,    \* get_kernel_virt_base
  KernelImage,   \* the range of pages VirtualMap::kernel_image
  MaxFrames,     \* MAX_MEMORY_FRAMES
  TableRatio,    \* one bump frame per 256 frames
  FirstBump,     \* the first frame of the bump allocator
  Layouts        \* machines: [memory, sections]

VARIABLES
  layout,    \* memory: the frames that each map entry touches; sections: the kernel's ELF sections
  item,      \* which of them the loops are at, the first MiB coming in between
  done       \* how many of its pages are mapped

templateVars == <<vars, layout, item, done>>

RangeOf(first, count) == [first |-> first, count |-> count]
Members(range) == range.first .. (range.first + range.count - 1)

\* The frames of all entries, one that two entries touch counted twice.
TotalFrames(memory) ==
  Cardinality(UNION {{i} \X Members(memory[i]) : i \in 1 .. Len(memory)})

Ranges == [first : Nat, count : Nat]
SectionHeaders == [pages : Ranges, flags : SUBSET {"allocated", "writable", "executable"},
                   type : STRING, bootstrap : BOOLEAN]

\* VirtualMap's first_mib, phys_map and kernel_image follow one another, and
\* phys_map has room for MAX_MEMORY_FRAMES.
ASSUME AreasAssumption ==
  /\ LowPages \in Nat /\ PhysBase \in Nat /\ KernelBase \in Nat
  /\ MaxFrames \in Nat /\ FirstBump \in Nat /\ TableRatio \in Nat \ {0}
  /\ KernelImage \in Ranges
  /\ LowPages <= PhysBase
  /\ PhysBase + MaxFrames <= KernelImage.first
  /\ 0 .. (LowPages - 1) \subseteq Pages
  /\ PhysBase .. (PhysBase + MaxFrames - 1) \subseteq Pages
  /\ Members(KernelImage) \subseteq Pages

\* Two frames have different addresses, and only the first has the address 0.
ASSUME AddressAssumption ==
  \A f, g \in DOMAIN AddressBits :
    /\ AddressBits[f] \subseteq 12 .. 47
    /\ AddressBits[f] = AddressBits[g] => f = g
    /\ AddressBits[f] = {} => f = 0

\* The bump allocator's frames are memory, and do not include the first.
ASSUME LayoutsAssumption ==
  \A l \in Layouts :
    /\ l.memory \in Seq(Ranges)
    /\ l.sections \in Seq(SectionHeaders)
    /\ FirstBump .. (FirstBump + (TotalFrames(l.memory) \div TableRatio) - 1)
         \subseteq DOMAIN AddressBits \ {0}

\* total_phys_frames / 256 successive frames.
BumpFrames(memory) ==
  [i \in 1 .. (TotalFrames(memory) \div TableRatio) |-> AddressBits[FirstBump + i - 1]]

MapCall(page, frame, leaf) == [page |-> page, frame |-> frame, leaf |-> leaf]
PanicCall == MapCall(-1, 0, {})

DataFlags == {PRESENT, WRITABLE, EXECUTE_DISABLE}
SharedParentFlags == {PRESENT, GLOBAL, APP_PARENT_FROZEN, WRITABLE}

\* The last frame of an entry is left out.
PhysCalls_exclusive(frames) ==
  [i \in 1 .. (frames.count - 1) |->
     MapCall(PhysBase + frames.first + i - 1, frames.first + i - 1, DataFlags)]

\* The mapping of all physical memory; phys_to_virt asserts the frame's address.
PhysCalls(frames) ==
  [i \in 1 .. frames.count |->
     LET frame == frames.first + i - 1
     IN  IF frame < MaxFrames
         THEN MapCall(PhysBase + frame, frame, DataFlags)
         ELSE PanicCall]

LowCalls == [i \in 1 .. LowPages |-> MapCall(i - 1, i - 1, DataFlags)]

SectionFlags_swapped(s) ==
  {PRESENT} \cup (IF "executable" \in s.flags THEN {EXECUTE_DISABLE} ELSE {})
            \cup (IF "writable" \in s.flags THEN {WRITABLE} ELSE {})

SectionFlags(s) ==
  {PRESENT} \cup (IF "executable" \notin s.flags THEN {EXECUTE_DISABLE} ELSE {})
            \cup (IF "writable" \in s.flags THEN {WRITABLE} ELSE {})

\* An empty extent panics.  Sections that take no memory, belong to the
\* bootstrap code or hold no program data are passed over.
SectionCalls(s) ==
  IF s.pages.count = 0
  THEN << PanicCall >>
  ELSE IF "allocated" \notin s.flags \/ s.bootstrap
  THEN << >>
  ELSE IF ~(Members(s.pages) \subseteq Members(KernelImage))
  THEN << PanicCall >>
  ELSE IF s.type \notin {"ProgramSection", "Uninitialized"}
  THEN << >>
  ELSE IF {"writable", "executable"} \subseteq s.flags
  THEN << PanicCall >>
  ELSE [i \in 1 .. s.pages.count |->
          MapCall(s.pages.first + i - 1, s.pages.first + i - 1 - KernelBase, SectionFlags(s))]

Items == Len(layout.memory) + 1 + Len(layout.sections)

\* The calls of map for one item.
Calls(k) ==
  IF k <= Len(layout.memory)
  THEN PhysCalls(layout.memory[k])
  ELSE IF k = Len(layout.memory) + 1
  THEN LowCalls
  ELSE SectionCalls(layout.sections[k - Len(layout.memory) - 1])

TemplateInit ==
  /\ layout \in Layouts
  /\ item = 1 /\ done = 0
  /\ tables = [t \in {Root} |-> Zero]
  /\ pool = BumpFrames(layout.memory)
  /\ lost = {}
  /\ call = [page |-> 0, set |-> {}, mask |-> {}]
  /\ reply = "ok"

MapNext ==
  /\ reply = "ok"
  /\ item <= Items /\ done < Len(Calls(item))
  /\ LET c == Calls(item)[done + 1]
     IN  IF c = PanicCall
         THEN reply' = "panic" /\ UNCHANGED <<tables, pool, lost, call>>
         ELSE Map(c.page, AddressBits[c.frame], c.leaf, SharedParentFlags, AllFlags, {})
  /\ done' = done + 1
  /\ UNCHANGED <<layout, item>>

NextItem ==
  /\ reply = "ok"
  /\ item <= Items /\ done = Len(Calls(item))
  /\ item' = item + 1
  /\ done' = 0
  /\ UNCHANGED <<vars, layout>>

Finished == (reply # "ok" \/ item > Items) /\ UNCHANGED templateVars

TemplateNext == MapNext \/ NextItem \/ Finished

TemplateSpec == TemplateInit /\ [][TemplateNext]_templateVars

(***************************************************************************)
(* Properties                                                              *)
(***************************************************************************)

Complete == reply = "ok" /\ item > Items

Mapped(s) ==
  /\ "allocated" \in s.flags
  /\ ~s.bootstrap
  /\ s.type \in {"ProgramSection", "Uninitialized"}

\* The sections whose pages are mapped and include the page, the last of which
\* determines its flags.
SectionsAt(page) ==
  {i \in 1 .. Len(layout.sections) :
     Mapped(layout.sections[i]) /\ page \in Members(layout.sections[i].pages)}

Expected(page) ==
  IF page < LowPages
  THEN AddressBits[page] \cup DataFlags
  ELSE IF page - PhysBase \in UNION {Members(layout.memory[i]) : i \in 1 .. Len(layout.memory)}
  THEN AddressBits[page - PhysBase] \cup DataFlags
  ELSE IF SectionsAt(page) # {}
  THEN LET last == CHOOSE i \in SectionsAt(page) : \A j \in SectionsAt(page) : j <= i
       IN  AddressBits[page - KernelBase] \cup SectionFlags(layout.sections[last])
  ELSE {}

\* The finished template maps every frame of the memory map at its offset in
\* phys_map, the first MiB to itself and the kernel's sections with their own
\* permissions, and nothing else, although the three parts share tables.
TemplateIsExact == Complete => \A page \in Pages : Leaf(page) = Expected(page)

\* Code is never writable and data never executable: no page of the template
\* is both.
WritableXorExecutable ==
  \A page \in Pages : WRITABLE \in Leaf(page) => EXECUTE_DISABLE \in Leaf(page)

\* "As a generous overestimate, we can reserve 1 frame for every 256 frames
\* we're mapping" (mm.rs:98): the page tables fit in the bump allocator.
TablesSuffice == reply # "FrameAllocationFailed"
==============================================================================
