---------------------------- MODULE FrameContract ----------------------------
(***************************************************************************)
(* What the FrameAllocator trait (shared/src/memory/alloc/phys.rs)         *)
(* promises its clients, with nothing said about how free frames are       *)
(* recorded or which of several suitable blocks is handed out.             *)
(* FrameAllocator.tla, the bitmap allocator, is shown to implement it.     *)
(***************************************************************************)
EXTENDS Naturals

CONSTANTS
  Frames,    \* indices of the frames the allocator manages
  Orders     \* orders clients ask allocate_range for

VARIABLES
  free,      \* frames available for allocation
  held,      \* ranges handed out by allocate_range and not returned since
  reserved,  \* frames reserved by reserve and not unreserved since
  unknown,   \* frames the allocator was not told of when it was constructed
  ret,       \* reply of the latest call
  up         \* FALSE once the kernel has stopped in its panic handler

vars == <<free, held, reserved, unknown, ret, up>>

\* The frames of a FrameRange.
FramesOf(r) == r.first .. (r.first + r.count - 1)

\* Blocks of 2^order frames, aligned to 2^order, that are free as a whole.
FreeBlocks(order) ==
  {r \in [first : free, count : {2^order}] :
     r.first % 2^order = 0 /\ FramesOf(r) \subseteq free}

NoRange == [first |-> 0, count |-> 0]

Void == [op |-> "void"]
Allocated(order, r) == [op |-> "allocate_range", order |-> order, range |-> r]
ReserveReply(f, ok) == [op |-> "reserve", frame |-> f, ok |-> ok]

Init ==
  /\ free \in SUBSET Frames
  /\ held = {}
  /\ reserved = {}
  /\ unknown = Frames \ free
  /\ ret = Void
  /\ up = TRUE

\* "Allocate 2^order frames aligned to 2^order, if available."
AllocateRange(order) ==
  /\ up
  /\ \/ \E r \in FreeBlocks(order) :
          /\ free' = free \ FramesOf(r)
          /\ held' = held \cup {r}
          /\ ret' = Allocated(order, r)
     \/ /\ FreeBlocks(order) = {}
        /\ ret' = Allocated(order, NoRange)
        /\ UNCHANGED <<free, held>>
  /\ UNCHANGED <<reserved, unknown, up>>

DeallocateRange(r) ==
  /\ up
  /\ free' = free \cup FramesOf(r)
  /\ held' = held \ {r}
  /\ ret' = Void
  /\ UNCHANGED <<reserved, unknown, up>>

\* Reserving succeeds exactly on a free frame.
Reserve(f) ==
  /\ up
  /\ \/ /\ f \in free
        /\ free' = free \ {f}
        /\ reserved' = reserved \cup {f}
        /\ ret' = ReserveReply(f, TRUE)
     \/ /\ f \notin free
        /\ ret' = ReserveReply(f, FALSE)
        /\ UNCHANGED <<free, reserved>>
  /\ UNCHANGED <<held, unknown, up>>

Unreserve(f) ==
  /\ up
  /\ free' = free \cup {f}
  /\ reserved' = reserved \ {f}
  /\ ret' = Void
  /\ UNCHANGED <<held, unknown, up>>

AddNewFrame(f) ==
  /\ up
  /\ free' = free \cup {f}
  /\ unknown' = unknown \ {f}
  /\ ret' = Void
  /\ UNCHANGED <<held, reserved, up>>

\* A call that cannot be served stops the kernel, with no frame changing hands.
Stop ==
  /\ up
  /\ up' = FALSE
  /\ UNCHANGED <<free, held, reserved, unknown, ret>>

Next ==
  \/ \E order \in Orders : AllocateRange(order)
  \/ \E r \in held : DeallocateRange(r)
  \/ \E f \in Frames : Reserve(f)
  \/ \E f \in reserved : Unreserve(f)
  \/ \E f \in unknown : AddNewFrame(f)
  \/ Stop

Spec == Init /\ [][Next]_vars
==============================================================================
