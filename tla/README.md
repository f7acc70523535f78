# A TLA+ model of testos

testos is a small x86-64 kernel in Rust: it boots from Multiboot 2, sets up
memory, runs kernel threads that yield to one another, and takes hardware
interrupts through two 8259 controllers. This directory holds TLA+
specifications of its parts, the TLC configurations that check them on small
instances, and TLAPS proofs of their main safety properties for instances of
every size. All line numbers refer to the repository's sources.

## Inventory

There is one CPU. Threads are cooperative: control moves only in
`yield_current` and `quit_current`. The only true concurrency is between the
running code and the devices, whose interrupts are accepted whenever the
interrupt flag is set.

| Part | State | Operations | Interacts with |
|---|---|---|---|
| Frame allocator (`shared/src/memory/alloc/phys.rs`) | one bit per physical frame | `allocate_range`, `deallocate_range`, `reserve`, `unreserve`, `add_new_frame` | boot memory, task stacks, heap |
| Scheduler (`src/sched.rs`) | `CURRENT_TASK`, `IDLE_TASK`, ready list threaded through the `Task`s, saved `rsp` | `init_kernel_main_thread`, `spawn_kthread`, `yield_current`, `quit_current`, `clean_quit_task` | frame allocator (stacks), main thread |
| PIC and IRQ dispatch (`src/pic.rs`) | chip masks, `IRQ_HANDLERS` | `init`, `install_irq_handler`, `handle_irq` | devices, IDT, handlers |
| IDT (`src/idt.rs`) | present vectors | `init`, `install_interrupt_handler`, exception handlers | PIC, panic handler |
| Boot memory map (`shared/src/memory.rs`, `addr.rs`, `page.rs`) | none (pure) | `mark_kernel_areas`, `fill_bitmap_from_map`, extent arithmetic | boot memory |
| Boot memory (`src/mm.rs`, `BumpFrameAllocator`) | memory map, bump range, bitmap | `mm::init` | all memory users |
| Paging (`src/mm/paging.rs`) | four-level tables | `Mapper::map` | boot memory |
| Heap (`shared/src/memory/alloc/heap.rs`) | free lists of five block sizes | `alloc`; `dealloc` does nothing | frame allocator |
| Logging and panic (`shared/src/log.rs`, `src/kmain.rs`) | logger lock | `info!`, the panic handler | everything, interrupts |
| VGA console (`shared/src/vga.rs`) | screen memory, offset | `write_str`, `scroll` | logging |
| GDT, bootstrap assembly, build tools | | | |

What is hard here, and hard to test: ownership of frames over long mixes of
calls of different sizes; links and saved stack pointers that are read long
after they were written; a task that must be freed, but not while its stack is
in use; interrupts arriving between any two steps, some of them spurious;
boundaries inside a bitmap byte. `PROJECT.json` lists each such hazard with
its line and the properties that cover it.

## Modules

| Module | Role |
|---|---|
| `FrameContract` | what the `FrameAllocator` trait promises |
| `FrameAllocator` | the bitmap allocator, with the properties |
| `MCFrameAllocator` | initial bitmaps for TLC |
| `RoundRobin` | what the scheduler promises: a FIFO queue of threads |
| `Sched` | the scheduler's links, statics and stack pointers, with the properties |
| `MCSched` | task slots and `rax` outcomes for TLC |
| `Pic` | interrupt controllers, IDT, handler table, `handle_irq`, with the properties |
| `MCPic` | sets of IRQ lines for TLC |
| `SchedProofs` | proofs for every set of task slots |
| `Extents` | addresses, extents and frame ranges as operators |
| `ExtentChecks` | their properties against sets of addresses |
| `MemoryMap` | one call of the area marker, one round of the bitmap filler, as operators |
| `MarkKernelAreas` | `mark_kernel_areas` run to its end on every map up to a bound, with the properties |
| `ExtentProofs` | proofs about both, for every address space and maps and areas of every length |
| `BootMemory`, `MCBootMemory` | `mm::init`, with the properties; machines for TLC |
| `PageMap` | what `Mapper::map` promises |
| `Paging`, `MCPaging` | page tables and the `Mapper`, with the properties |
| `PagingProofs` | proofs for every size of table and every sequence of calls |
| `PageTableTemplate`, `MCTemplate` | `create_page_table_template` on top of `Paging`, with the properties |
| `TemplateProofs` | proofs for every memory map and kernel layout; counting frames |
| `KernelMemory` | task stacks and the heap's provider on top of `FrameAllocator` |
| `FrameAllocatorProofs` | proofs of `FrameAllocator` and `KernelMemory`, for every bitmap length, order, initial bitmap and sequence of requests |
| `Heap`, `MCHeap` | the kernel heap on top of `KernelMemory`, with the properties |
| `HeapProofs` | proofs of `Heap`, for every memory size, chunk size and set of layouts |
| `KernelLocks` | spin locks, interrupt flag, logging, panics, with the properties |
| `KernelLocksProofs` | proofs for contexts nested to any depth and any number of interrupts |
| `VgaConsole` | the text console against an endless sheet, with the properties |
| `DeviceProofs` | proofs of `Pic`, for every set of IRQ lines, and of `VgaConsole`, for every screen |

Definitions whose name ends in `_something` are broken variants of the
definition that follows them, used to confirm that a property can fail.

### FrameAllocator

The bitmap is the set of frames whose bit is 1; frame `f` is bit `f % 8` of byte
`f \div 8`. Three ghost variables record what clients hold: ranges handed out,
frames reserved, and frames that were never free. Clients keep the trait's
safety conditions: they return exactly what they were given, once. Every call
runs under `FRAME_ALLOCATOR`'s lock and is one action.

* `AllocateSmall` is the loop over bytes with `find_bit_group`: `GroupMask` has
  the bits of `(len << 1) - 1`, so three bits for four frames. `AllocateLarge`
  is the loop over runs of `u8::MAX` bytes, with its three ends: found, `None`
  when a run would pass the end, and `unreachable!()`.
* `DeallocateRange` frees frame by frame and stops at the first bit already
  set, leaving the frames before it freed.
* `panic` holds the failed assertion; a panicked kernel halts.

### Sched

A `Task` is an address from a finite set of slots, reused after it is freed.
`list` has the head and the two link fields of every task; `ReadyList` is the
walk along `next_in_list`. `running` is the task whose stack the CPU is on and
`current` is `CURRENT_TASK`: the two differ after a quit. `rsp[t]` says whether
`t.rsp` holds a value. Spin locks do not appear: each is taken and released
inside one call, and no interrupt handler calls the scheduler.

* `YieldCurrent` adds the current task at the tail, pops the head, returns if
  they are the same, and otherwise switches. `switch_to` stores the old stack
  pointer only if `rax` is not zero; no argument is passed in `rax`, so the
  outcome is any of `RaxOutcomes`.
* `QuitCurrent` leaves `CURRENT_TASK` empty and enters the next task through
  `CleanQuitTask`, whose assertions are part of that action.
* Running out of memory in `create_task` can happen at any creation, since
  other users take frames too.
* `HaltLoop` is the idle task, and any thread that ends as `kernel_main` does.

Mapping to `RoundRobin`: `ready <- ReadyList(list)`, `up <- (panic = "no")`.

### Pic

The 8259s are external: requests (`irr`), lines in service (`isr`), masks
(`imr`), fixed priorities with the secondary on line 2, and a non-specific
end-of-interrupt. Devices raise a request at any moment, or withdraw one as the
CPU responds to it, which produces a spurious interrupt on line 7 of the chip.
`handle_irq` takes three steps, `IsSpurious`, `CallHandler` and
`AcknowledgeIrq`, with interrupts off; devices act between them. `is_spurious`
reads the data port, which on this chip is the mask. Installed functions either
return or panic (`keyboard_handler` does). A spurious IRQ 15 leaves line 2 in
service on the primary, which `IsSpurious` acknowledges. `install_irq_handler`
for a secondary line does not unmask the cascade line, so such a line is served
only while line 2 has a handler too; `FirstPendingIsServed` says so.

### Extents, MemoryMap, MarkKernelAreas

`Extents` has the arithmetic of `addr.rs` and `page.rs`, with the points where
unsigned arithmetic would overflow as predicates (`AlignUpFits`,
`ContainedPanics`). An extent is never empty, so the empty one stands for
`None`. `ExtentChecks` states what the arithmetic should be on sets of addresses.
`MarkKernelAreas` calls `KernelAreaMarker::next` (`MarkerNext`) until the regions
are used up, `put_back` included; the region and the area each call compares
are the extents that `ExtentChecks` looks at. `FillRange` is one round of
`fill_bitmap_from_map`, which `BootMemory` runs: whole bytes, then the leading and
the trailing bits, with its assertions and its index check.
`MemoryTypes` folds the firmware's other
unusable types into `Reserved`, since no code tells them apart.

### BootMemory

`mm::init` in seven phases: two passes of the marker (init module, kernel
image), the choice of an entry for the bump allocator, page tables, filling the
bitmap with what is left, cutting out the reserved extents, publishing. Page
tables take any number of frames the bump allocator has; which calls of `map` are made
is `PageTableTemplate`'s subject. `Fill` is one map entry. If a table was written over the boot
information, the size read from it afterwards is any of `GarbageSizes`.

### Paging, PageTableTemplate

A raw entry is the set of its 1 bits, so `|=` is union and a bit that is never
cleared is visible. One step is one call of `map`, with its three walks down;
allocation and translation can fail at every level, and what was built before
the failure stays. Mapping to `PageMap`: a page's mapping is the leaf entry found
by walking. `PageTableTemplate` makes the calls of
`create_page_table_template` in order: physical memory, the first MiB, the
kernel's sections with flags from their ELF flags. `item` is the entry or section
the loops are at, `done` how many of its pages are mapped. `boot_info`'s sections
are an input, and so is what a frame's address is (`AddressBits`). Switching to the tables is not modelled.

### KernelMemory

`FrameAllocator` with its two clients. `CreateTask` allocates two frames and
puts the `Task` where `create_task` does, at the top of `STACK_FRAMES` frames;
`DropTask` is `OwnedFrameRange`'s drop; `ProvideChunks` is `HeapProvider`.
The model assumes that a `Task` still holds its own `stack_frames` when it is
dropped. The frame it lies in belongs to others, who may overwrite it (see
Known disagreements); what a drop of an overwritten `Task` does is left out.

### Heap

`Heap` extends `KernelMemory`: every chunk comes out of the frame allocator that
the tasks use too, and an allocation that finds no memory panics. A chunk is a
frame, `CHUNK_SIZE` bytes. `free_lists` holds the addresses of free blocks.
`fetch_chunk` cuts a chunk into blocks of the largest size only, so the smaller
lists stay empty and a small request uses a large block. `dealloc` does nothing.
`issued` records what was handed out.

### KernelLocks

Each call of the kernel is the sequence of its lock, unlock, interrupt-flag and
possibly panicking steps. `stack` holds the interrupted contexts. An interrupt
may arrive wherever the flag is set, an exception anywhere, an assertion may
fail wherever there is one. The model starts at `pic::init`; before that
interrupts are off. Handlers return without taking locks or panic, as the
repository's do. The heap uses `try_lock().unwrap()`, a panic rather than a
wait.

### VgaConsole

`sheet` and `pen` are the reference: the same text on paper that does not
scroll. The screen must be the part of the sheet that ends with the pen's line.

## Runs

| Run | Shows |
|---|---|
| `frame_allocator` | one owner per frame, no assertion fails, exhaustion is real, and the trait's contract is implemented, for requests of 1, 2, 8 and 16 frames and an order that is too large |
| `frame_quad_overlap` | *violation*: four frames are handed out of which one was in use |
| `sched` | links, placement of every task, quit assertions, the FIFO refinement; ready threads run and quitting threads are reclaimed |
| `sched_rsp` | *violation*: a suspended task without a saved stack pointer |
| `pic` | no unhandled interrupt, nothing left in service, no genuine interrupt dismissed; no request stays first in line forever |
| `mark_kernel_areas` | the output is the input with exactly the kernel areas marked, in order, at most two entries more per area; overlap and differences cut an extent without gap or overlap; rounding to alignments and frames loses nothing, except that `contained_by_extent` leaves out exactly the last whole frame |
| `boot_memory` | tables lie in free memory, no write outside the bitmap, free frames are unused (up to a byte that a range lies strictly inside, and the boot information if a table was built over it), nothing is lost |
| `paging` | every table has one parent, parents carry the flags asked for, and `PageMap` is implemented, failures included |
| `template` | the finished tables map exactly what they should; nothing is writable and executable |
| `kernel_memory` | every range out has one owner, heap slices are exclusive, stacks stay clear of each other; heap allocations are disjoint from each other, from free blocks and from tasks' frames, fit their layout, and chunks are accounted for |
| `kernel_locks` | no context spins, between calls no lock is held, and every call returns or the kernel halts |
| `vga_console` | the screen shows the latest lines, scrolled or not |

The two violations are disagreements between the code and its own comments;
`PROJECT.json` quotes both sides.

### Known disagreements

These definitions also state what a comment of the repository says, and are
false of the code. None is checked by a run. To see one fail, list it alone, as
INVARIANT or PROPERTY, in the named configuration.

| Definition | Configuration | Code | What happens |
|---|---|---|---|
| `NeverRunsOffEnd` | `FrameAllocator.cfg` | `phys.rs:226` | exhaustion ends in `unreachable!()` instead of `None` (`phys.rs:32`) |
| `CurrentIsRunning` | `Sched.cfg` | `sched.rs:83` | after a quit the next task runs with `CURRENT_TASK` empty (`sched.rs:360`) |
| `CalledOnlyInService` | `Pic.cfg` | `pic.rs:131` | a handler is called for a spurious IRQ (`pic.rs:119`) |
| `ContainedIsMaximal` | `MarkKernelAreas.cfg` | `page.rs:166` | the last whole frame is always left out (`page.rs:163`) |
| `TablesSpareBootInfo` | `BootMemory.cfg` | `mm.rs:113` | a page table is built over the boot information while it is still read (`paging.rs:147`) |
| `TablesStayReserved` | `BootMemory.cfg` | `phys.rs:319` | a fragment inside one bitmap byte frees a page table's frame (`mm.rs:164`) |
| `MaskApplied` (property) | `Paging.cfg` | `paging.rs:257` | `parent_mask_flags` removes nothing (`paging.rs:165`) |
| `FrozenUnmodified` (property) | `Paging.cfg` | `paging.rs:254` | a table below a frozen entry is changed (`paging.rs:108`) |
| `AddressInRange` | `Paging.cfg` | `paging.rs:9` | an address above 2^52 is accepted and its bit 52 stored among the flags (`paging.rs:52`) |
| `TablesSuffice` | `Template.cfg` | `mm.rs:107` | with little memory the bump allocator runs out of frames (`mm.rs:98`) |
| `TaskOnOwnedFrames` | `Heap.cfg` | `sched.rs:372` | a `Task` lies outside its own two frames (`sched.rs:11`) |
| `HeapHasSlice` | `Heap.cfg` | `sched.rs:372` | a `Task` lies inside a slice of the heap (`heap.rs:26`) |

In the unmodified kernel, the empty `CURRENT_TASK` is reached on every boot
(`test_thread` quits while `kernel_main` is ready) and stays unnoticed because
`kernel_main` does not yield again. After the first quit the only calls that do
not panic are spawning and halting; the `sched` properties hold of that kernel,
as it is.

### Bounds

* Three bitmap bytes are the least with both a run that fits and one that
  passes the end (16 frames in 24); the initial bitmaps have free groups that
  straddle bytes, start unaligned, or are missing. `MaxHeld` and `MaxReserved`
  bound what is out at once; `BootFrames` limits which frames are added late.
* Four task slots: idle, one running and two ready, the least at which the ready
  list has a head and another tail, or three tasks once the running one is added;
  `SchedProofs` has every number.
* The lines 1, 2, 7, 9, 15 cover an ordinary line of each chip, the cascade and
  both spurious lines. Requests are level bits, so no counter is needed.
* `MarkKernelAreas`: all maps of two regions and two areas in 7 addresses with
  pages of 2: an area can cross two regions and a region two areas, and all
  pairs of extents, up to the last address, are compared.
* `BootMemory`: a PC's layout scaled down, with ends on and off frames and
  bitmap bytes, and the boot information before, behind and inside what the page
  tables reach. Where a table was written over it, its size is garbage and
  `FreeFramesAreUnused` and `NothingLost` claim less.
* `Paging`: two entries per table and three pages, of which two share all their
  tables and the third the upper two with them; five table frames, exactly what
  the three need, so an allocation fails once a failed translation has lost one. One frame's address is above 2^52
  and one is refused. `PageTableTemplate`: four entries per table, and one machine
  with too little memory for its tables.
* `Heap`: 24 frames in four bitmaps (fragmented, too few, with one and with two
  whole bytes), chunks of two blocks, at most five ranges out (`MaxHeld`) and four
  allocations (`MaxIssued`); layouts around the boundaries. Three of the bitmaps
  are exhausted within these bounds. `FitsLayout` says nothing of alignments above
  a chunk's, which the code does not honour. Nobody asks for four frames
  (`frame_quad_overlap` has that defect).
* `KernelLocks`: `MaxDepth` contexts (a task, an interrupt, a panic and a panic
  in it) and `MaxIrqs` interrupts.
* `VgaConsole`: three rows of two, and paper for more than two screens.

### Fairness

`Sched!FairSpec` assumes only that the CPU keeps executing (weak fairness of
the whole next-state relation): between two calls thread code is finite or
enters `halt_loop`, which is an action and an escape in `ReadyRuns`. Unlimited
spawning is impossible because memory runs out. `Pic!FairSpec` assumes that
boot and `handle_irq` proceed and that an enabled CPU accepts a request that
stays deliverable, which is what the hardware does between two instructions.
`KernelLocks!Spec` assumes that the CPU executes the running context (weak
fairness of `Step`); a context that spins takes only stuttering steps, so
fairness does not hide a deadlock.

## Proofs

`FrameAllocatorProofs` has two parts. The first, about `FrameAllocator`, holds for
every bitmap length, every set of orders and every initial bitmap
(`BitmapAssumption`):

* `TypeCorrect`: inductive as it stands; the lemmas `GroupInBounds` and
  `RunIsFree` carry the arithmetic of aligned blocks.
* `FramesAccounted` and `AllocationsWereFree`, for `2 \notin Orders`: the
  invariant is `OwnershipInv`; `Accounted` needs `TypeOK` and the fact that
  every group found lies in the bitmap (`GroupIsFree`), which is false for
  order 2.
* `QuadDamage`, for all orders: the frames for which that fact fails are those
  with `f % 4 = 3`.
* `SearchComplete`, for all orders: a call of `allocate_range` finds nothing, by
  `None` or by running off its loop, only if no aligned block of the size it was
  asked for is free (`NoGroupNoBlock`, `NoRunNoBlock`).
* `Refinement`, for `2 \notin Orders`: every step is a step of `FrameContract`
  or a stutter.

The second part, about `KernelMemory`, assumes that the orders the clients use
are among `Orders` and that `2 \notin Orders`. It reuses the step lemmas of the
first: `KernelInv` adds to the allocator's invariant, which is claimed only while
nothing has panicked, that the ranges out are those of tasks and slices and lie
apart. `RangesHaveClients`, `HeapSlicesExclusive` and `TaskStacksApart` follow.

`HeapProofs` assumes in addition that `ChunkRequests` has what the layouts lead
to. `HeapIsClient` shows that the heap's steps are steps of `KernelMemory`, so
that its theorems carry over (`HeapMemoryExclusive`). `BlocksAlwaysFit` needs
`ListsInv`, that every block on any list is a multiple of the largest size, and
that alignments up to it divide it (`HeapAssumption`; sizes and alignments are
powers of two). `AllocationsNeverMeet`, `LayoutsAreMet` and `NoBlockLost` follow
from `HeapInv`. It ties every block and every allocation to the slice it was cut
from: that two allocations are apart follows within a slice from
the multiples of the block size, between slices from `KernelInv`. `LayoutsAreMet`
also uses that an alignment up to `CHUNK_SIZE` divides it.

The first part of `DeviceProofs`, about `Pic`, holds for every set of lines that
includes 2, 7 and 15 (`IrqAssumption`). The properties are not inductive: `MaskInv` ties the mask to
the handler table, `InServiceInv` says which lines can be in service at each
step of `handle_irq`, and `FlagInv` that interrupts are taken only in a task.
`InterruptsAreSafe`, `EveryInterruptAcknowledged` and `GenuineNotDismissed`
follow from their conjunction.

`SchedProofs` holds for every set of task slots (`SchedAssumption`). The
invariant `IInv` says that there is a sequence of tasks of which the links are
the image, and which task is where relative to it. The sequence is needed
because `add_task_to_ready_list` walks to the tail: that the walk ends there is
shown with the least-number principle (`LeastNatural`) in place of induction.
From it follow `TypeCorrect`, `ListStaysLinked`, `TasksPlaced`, `QuitAsserts`,
`IdleLast`, `CurrentFresh` and the refinement `SchedulerIsQueue`.
`SavedContext` is false (`sched_rsp`); `ContextDamage` proves what is left of it,
whatever `rax` holds: a stack pointer goes missing only for the task that
`yield_current` switches away from, in that step.

`ExtentProofs` holds for every address space, page size and alignment, and for
sorted maps and lists of kernel areas of every length:

* `PiecesPartition`, `JoinSmallest` and `RoundingExact` are about the
  arithmetic; the last says also what `contained_by_extent` loses. Rounding rests on `DownIsMultiple` and `UpIsMultiple` (what
  rounding answers) and `MultiplesOrdered` (nothing lies between two multiples).
* `MarksExactly`, `StaysSorted` and `AddsAtMostTwo` are about
  `mark_kernel_areas`. The invariant `MarkInv` speaks of one byte at a time:
  it has been yielded, once and with the right type, or it is still in
  `regions`. That is not inductive alone. A call puts the area it has split at
  back, so the areas already dropped must be known to end before the regions
  that are left begin (`From`), and the bound on new entries needs `Pending`, how many cuts
  the areas that are left can still make: two for each but the first,
  which may have made one of its cuts already (`Cuts`).

`PagingProofs` holds for every number of entries per table, every set of pages,
flags and frames, and every sequence of calls of `map`, those that fail half-way
included. `FramesAssumption` says of the allocator that it hands out no frame
twice, not the one of the level 4 table, and only addresses that `get_addr` can
return; `BumpFrameAllocator` does, below 1 GiB.

* `PagingInv` says that the tables can be given levels so that they form a tree
  (`Tree`: every present entry of a table leads one level down, no two lead to
  the same table, and all but the root are below one), and that the frames left
  are not among them. `TablesOwned` counts tables and entries and is not
  inductive: a walk that went from a table back up, or to a leaf entry taken for
  a table, would break it, and only the levels exclude both.
* A call is followed walk by walk: `WalkInv` and `Reached` say where it stands,
  `Passed` that it changes no entry but the one it passes, and `Extended` that a
  new table is seen, empty, only from pages whose way ended above it.
* `FlagsOnThePath` and the refinement `MapIsAtomic` follow. The last needs that
  two pages meet in a leaf entry only if they are the same page, which the
  indices of `l4_index` .. `l1_index` give. `TablesHaveOneOwner` follows too; it
  counts, and is with the other counting in `TemplateProofs`.

`TemplateProofs` holds for every memory map and list of sections, every number of
entries per table and every supply of frames. It assumes that the areas of
`VirtualMap` follow one another and that `phys_map` has room for
`MAX_MEMORY_FRAMES` (`AreasAssumption`), that different frames have different
addresses (`AddressAssumption`), and that the bump allocator's frames have
addresses, not 0 (`LayoutsAssumption`).

* `TemplateInv` says that the tables are a tree and that every page's entry is
  what the last call of `map` for that page made it, or zero if there was none
  (`Reflects`). Neither half stands without the other: that a call leaves the
  other pages alone needs the tree, and what the template maps is the entries.
  The loops over the memory map and the sections are never put together into one
  list, which would need induction over the data: a call is named by the item
  and its place in the item, and `LastCall` orders the calls by the two.
* `TemplateProtects` follows from what the calls ask for (`CallIsProper`), since
  a section that is writable and executable panics before it is mapped.
* `TemplateMapsExactly` needs in addition that the three parts cannot meet in a
  page (`PartsApart`), so that the last call for a page is one of the part
  that the page lies in. An entry of the memory map may meet another one, which asks
  for the same; of two sections that meet in a page the last determines the flags
  (`LastSection`).

`KernelLocksProofs` holds for every `MaxDepth` and `MaxIrqs`, which bound only the
runs. `NeverSpins` looks at the running context; what keeps it true is what the
stopped ones hold. The invariant `LocksInv` gives every context of the stack a
point (the locks it holds, the flags it has saved, the interrupt flag it runs
with) and the locks it may still take, and says:

* its code leads from that point to its end, taking only those (`Runs`; proved of
  every call, of `handle_irq` and of the panic handler from lemmas about `Locked`
  and `WithoutInterrupts`);
* no context beneath holds one of them;
* a context that runs with interrupts on, or will again when a
  `without_interrupts` returns, has none beneath that holds `PIC_REGS` or
  `IRQ_HANDLERS`, the locks of `handle_irq`.

An interrupt finds the flag on, so the third gives the second for its handler; a
panic takes the logger's locks only if `is_locked` finds them free, and no
others. `NoContextSpins` and `CallsLeaveNoLock` follow, and `HeapLockIsFree`: the
`try_lock().unwrap()` of the heap never panics, since nothing that can interrupt
an allocation allocates.

The second part of `DeviceProofs`, about `VgaConsole`, holds for every screen of
at least two rows, every alphabet and any length of paper. `ScreenInv` adds to the property that the paper is blank from
the pen on, without which a scroll could reveal something.

Only proved, without a run: the type invariants, `AllocatesOnlyFree` where nobody
asks for four frames, `QuadDamageConfined`, which bounds what
`frame_quad_overlap` can do, `MissingStoreConfined`, which does so for
`sched_rsp`, `IdleOnlyWhenNoneReady`, `JoinIsSmallest`,
`AssertHolds`, `TablesAreATree`, `TemplateIsReflected` and `HeapLockIsFree`.

Only model-checked:

* `BootMemory`: its four properties combine both marking passes, the choice of an
  entry and the bitmap; only the marker's part is proved.
* All liveness (`ReadyRuns`, `QuitIsReclaimed`, `FirstPendingIsServed`,
  `CallsReturnOrHalt`), which is out of the prover's reach.

## Not modelled

* The GDT and the bootstrap assembly: straight-line code that runs once.
* The processor's use of the page tables (CR3, translation, caches):
  `set_up_initial_page_table` copies and installs the template.
* Multiboot parsing, which belongs to a library, and the listing of the init
  module's sections, which changes nothing.
* The heap's intrusive list links (`FreeBlock`, `BlockAdapter`): the lists are
  modelled by their contents.
* What log messages say; build tools; the empty init program.
