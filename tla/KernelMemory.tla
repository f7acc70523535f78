---------------------------- MODULE KernelMemory ----------------------------
(***************************************************************************)
(* The two clients of the frame allocator once the kernel is up: task      *)
(* stacks (create_task in src/sched.rs), returned when clean_quit_task     *)
(* drops the Task and its OwnedFrameRange, and the heap's HeapProvider     *)
(* (src/mm.rs), which keeps what it gets.  FrameAllocator is composed with *)
(* them: every call of theirs is one of its steps.                         *)
(***************************************************************************)
EXTENDS FrameAllocator

CONSTANT ChunkRequests     \* numbers of chunks the heap asks for

VARIABLES
  tasks,     \* stack_frames of the Tasks that exist
  slices     \* what the provider handed to the heap: [range, chunks]

clients == <<tasks, slices>>

\* Calls that unwrap the None of allocate_range panic.
FoundNone(order) ==
  IF 2^order < 8
  THEN Groups(order) = {}
  ELSE ByteRuns(order) = {} /\ \E i \in Starts(order) : i + ByteLen(order) > NumBytes

UnwrapPanics(order) ==
  /\ panic = "no" /\ FoundNone(order)
  /\ Panic("memory") /\ UNCHANGED <<bitmap, clients>>

(***************************************************************************)
(* Tasks                                                                   *)
(***************************************************************************)

StackOrder_one == 0
StackOrder == 1                   \* create_task's argument to allocate_owned_frames
STACK_FRAMES_ORDER == 2
STACK_FRAMES == 2 * 2^STACK_FRAMES_ORDER

\* The Task object is the first thing pushed, right below
\* stack_top = stack_bottom + STACK_LEN: it is in the last frame of STACK_FRAMES.
TaskFrame(r) == r.first + STACK_FRAMES - 1

CreateTask ==
  \/ /\ AllocateRange(StackOrder)
     /\ ret'.range # NoRange
     /\ tasks' = tasks \cup {ret'.range}
     /\ UNCHANGED slices
  \/ UnwrapPanics(StackOrder)

DropTask_forget(r) ==
  /\ panic = "no"
  /\ tasks' = tasks \ {r}
  /\ UNCHANGED <<slices, vars>>

\* clean_quit_task: OwnedFrameRange::drop.
DropTask(r) == DeallocateRange(r) /\ tasks' = tasks \ {r} /\ UNCHANGED slices

(***************************************************************************)
(* The heap                                                                *)
(***************************************************************************)

\* num_chunks.next_power_of_two().trailing_zeros()
OrderFor_floor(n) ==
  IF n = 0 THEN 0 ELSE CHOOSE order \in 0 .. MaxOrder : 2^order <= n /\ n < 2^(order + 1)
OrderFor(n) ==
  IF n <= 1 THEN 0 ELSE CHOOSE order \in 1 .. MaxOrder : n <= 2^order /\ 2^(order - 1) < n

ASSUME ChunkAssumption == ChunkRequests \subseteq 0 .. 2^MaxOrder

ProvideChunks(n) ==
  LET order == OrderFor(n)
  IN  \/ /\ AllocateRange(order)
         /\ panic' = "no" => ret'.range # NoRange
         /\ slices' = IF panic' = "no"
                      THEN slices \cup {[range |-> ret'.range, chunks |-> n]}
                      ELSE slices
         /\ UNCHANGED tasks
      \/ UnwrapPanics(order)

KernelInit == Init /\ tasks = {} /\ slices = {}

KernelHalted == Halted /\ UNCHANGED clients

KernelNext ==
  \/ CreateTask
  \/ \E r \in tasks : DropTask(r)
  \/ \E n \in ChunkRequests : ProvideChunks(n)
  \/ KernelHalted

KernelSpec == KernelInit /\ [][KernelNext]_<<vars, clients>>

(***************************************************************************)
(* Properties                                                              *)
(***************************************************************************)

SliceFrames(s) == s.range.first .. (s.range.first + s.chunks - 1)

\* Every range the allocator has out belongs to one live task or to the heap,
\* and no dropped Task keeps frames: tasks can come and go for ever.
HeldByClients ==
  /\ held = tasks \cup {s.range : s \in slices}
  /\ tasks \cap {s.range : s \in slices} = {}

\* The slices the heap was given lie in frames allocated for them, and no two
\* share a frame with each other or with the frames a task owns.
SlicesExclusive ==
  /\ \A s \in slices : SliceFrames(s) \subseteq FramesOf(s.range)
  /\ \A s, u \in slices : s # u => SliceFrames(s) \cap SliceFrames(u) = {}
  /\ \A s \in slices, r \in tasks : SliceFrames(s) \cap FramesOf(r) = {}

\* The stacks start STACK_FRAMES above the frames allocated for them, all by
\* the same distance: as long as a task uses no more than the two frames it
\* asked for, it stays clear of every other task's Task object and stack.
StacksApart ==
  \A r, q \in tasks :
    r # q => ((TaskFrame(r) - 1) .. TaskFrame(r)) \cap ((TaskFrame(q) - 1) .. TaskFrame(q)) = {}

\* "Owned frames on which the task's kernel stack resides. This task's `Task`
\* instance itself resides here" (sched.rs:11).
TaskOnOwnedFrames == \A r \in tasks : TaskFrame(r) \in FramesOf(r)

\* "The client of `ChunkProvider` has exclusive access to this slice thereafter"
\* (heap.rs:26): no Task object is written into it.
HeapHasSlice == \A s \in slices, r \in tasks : TaskFrame(r) \notin SliceFrames(s)
==============================================================================
