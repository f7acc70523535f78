----------------------------- MODULE KernelLocks -----------------------------
(***************************************************************************)
(* The kernel's spin locks on its one CPU.  A call is the sequence of what *)
(* it does to the locks and to the interrupt flag; interrupts, exceptions  *)
(* and panics put a new context on top of the one they stop.  A context    *)
(* that spins on a lock taken beneath it spins for ever.                   *)
(* Sources: src/sched.rs, src/pic.rs, src/idt.rs, src/mm.rs, src/kmain.rs, *)
(* shared/src/log.rs and shared/src/memory/alloc/heap.rs.                  *)
(***************************************************************************)
EXTENDS Naturals, Sequences

CONSTANTS
  MaxDepth,     \* bound: contexts on top of each other
  MaxIrqs       \* bound: interrupts delivered

ASSUME DepthAssumption == MaxDepth \in Nat \ {0} /\ MaxIrqs \in Nat

VARIABLES
  stack,     \* contexts, the running one last: code left, interrupt flags saved
  locked,    \* locks that are held
  flag,      \* the CPU's interrupt flag
  irqs       \* interrupts delivered so far

vars == <<stack, locked, flag, irqs>>

(***************************************************************************)
(* What the calls do                                                       *)
(***************************************************************************)

Do(what) == << [do |-> what, lock |-> "none"] >>
On(what, l) == << [do |-> what, lock |-> l] >>

MayPanic == Do("assert")     \* an assert or unwrap
Locked(l, body) == On("lock", l) \o body \o On("unlock", l)
WithoutInterrupts(body) == Do("cli") \o body \o Do("restore")

\* Both halves of the LogTee, each formatting under its writer's lock.
Log == Locked("DEBUGCON", MayPanic) \o Locked("VGA", MayPanic)

AllocateFrames == Locked("FRAME_ALLOCATOR", MayPanic)
DeallocateFrames == Locked("FRAME_ALLOCATOR", MayPanic)

\* GlobalAlloc::alloc, from a free list or with a call of the provider.
HeapAlloc(provider) == On("try", "HEAP") \o provider \o MayPanic \o On("unlock", "HEAP")

AddTaskToReadyList == WithoutInterrupts(Locked("SCHEDULER", MayPanic))
PopNextReadyTask(idle) == WithoutInterrupts(Locked("SCHEDULER", MayPanic \o idle))
IdleTask == Locked("IDLE_TASK", MayPanic)

SpawnKthread == AllocateFrames \o MayPanic \o AddTaskToReadyList

YieldCurrent_guardKept ==
  On("lock", "CURRENT_TASK") \o MayPanic \o AddTaskToReadyList \o PopNextReadyTask(<< >>)

\* The guard of CURRENT_TASK is dropped before switch_to.
YieldCurrent ==
  Locked("CURRENT_TASK", MayPanic \o AddTaskToReadyList \o PopNextReadyTask(<< >>)) \o MayPanic

\* quit_current, and clean_quit_task on the next task's stack.
QuitCurrent(idle) ==
  Locked("CURRENT_TASK", MayPanic \o PopNextReadyTask(idle) \o MayPanic)
    \o MayPanic \o DeallocateFrames

\* pic::init with install_interrupt_handler, then interrupts::enable.
PicInit ==
  WithoutInterrupts(Locked("PIC_REGS", WithoutInterrupts(Locked("IDT", MayPanic)))) \o Do("sti")

InstallIrqHandler_enabled ==
  MayPanic \o Locked("IRQ_HANDLERS", MayPanic) \o Locked("PIC_REGS", << >>)

InstallIrqHandler ==
  MayPanic \o WithoutInterrupts(Locked("IRQ_HANDLERS", MayPanic) \o Locked("PIC_REGS", << >>))

Operations ==
  {Log, AllocateFrames, HeapAlloc(<< >>), HeapAlloc(AllocateFrames), SpawnKthread,
   YieldCurrent, QuitCurrent(<< >>), QuitCurrent(IdleTask), InstallIrqHandler}

\* keyboard_handler, the "Unhandled IRQ" arm, and a handler that returns.
HandlerBodies == {Do("panic"), << >>}

\* handle_irq.  is_spurious reads the PIC for lines 7 and 15 only.
HandleIrq(line7, spurious, body) ==
  WithoutInterrupts(
    (IF line7 THEN Locked("PIC_REGS", << >>) ELSE << >>) \o
    (IF line7 /\ spurious THEN << >> ELSE Locked("IRQ_HANDLERS", body) \o Locked("PIC_REGS", << >>)))
  \o Do("iret")

Stop == Do("disable") \o Do("halt")

\* LogTee::is_locked.  Nothing comes between its two reads that changes them.
LoggerIsLocked == locked \cap {"DEBUGCON", "VGA"} # {}

\* What the panic handler writes with: the logger, or new writers without locks.
PanicWrites_alwaysLog == Log
PanicWrites == IF LoggerIsLocked THEN MayPanic ELSE Log

(***************************************************************************)
(* Executing them                                                          *)
(***************************************************************************)

depth == Len(stack)
top == stack[depth]
Idle == depth = 1 /\ top.code = << >>
At(what) == top.code # << >> /\ Head(top.code).do = what
Target == Head(top.code).lock

Context(code) == [code |-> code, saved |-> << >>]
Continue(code) == stack' = [stack EXCEPT ![depth].code = code]
Advance == Continue(Tail(top.code))

Init ==
  /\ stack = << Context(PicInit) >>
  /\ locked = {}
  /\ flag = FALSE
  /\ irqs = 0

Call(code) == Idle /\ Continue(code) /\ UNCHANGED <<locked, flag, irqs>>

\* spin::Mutex::lock
Lock ==
  /\ At("lock")
  /\ IF Target \in locked
     THEN UNCHANGED <<stack, locked>>
     ELSE locked' = locked \cup {Target} /\ Advance
  /\ UNCHANGED <<flag, irqs>>

Unlock == At("unlock") /\ locked' = locked \ {Target} /\ Advance /\ UNCHANGED <<flag, irqs>>

StartPanic == Append(stack, Context(Do("report")))

\* try_lock().unwrap()
TryLock ==
  /\ At("try")
  /\ IF Target \in locked
     THEN stack' = StartPanic /\ UNCHANGED locked
     ELSE locked' = locked \cup {Target} /\ Advance
  /\ UNCHANGED <<flag, irqs>>

\* without_interrupts, before and after its body.
Cli ==
  /\ At("cli")
  /\ stack' = [stack EXCEPT ![depth] = [code |-> Tail(@.code), saved |-> <<flag>> \o @.saved]]
  /\ flag' = FALSE
  /\ UNCHANGED <<locked, irqs>>

Restore ==
  /\ At("restore")
  /\ flag' = Head(top.saved)
  /\ stack' = [stack EXCEPT ![depth] = [code |-> Tail(@.code), saved |-> Tail(@.saved)]]
  /\ UNCHANGED <<locked, irqs>>

SetFlag ==
  /\ At("sti") \/ At("disable")
  /\ flag' = At("sti")
  /\ Advance
  /\ UNCHANGED <<locked, irqs>>

\* An assertion holds, or its panic keeps the locks and the interrupt flag.
Assert ==
  /\ At("assert")
  /\ Advance \/ (depth < MaxDepth /\ stack' = StartPanic)
  /\ UNCHANGED <<locked, flag, irqs>>

HandlerPanics ==
  /\ At("panic")
  /\ stack' = StartPanic
  /\ UNCHANGED <<locked, flag, irqs>>

PanicHandler ==
  /\ At("report")
  /\ Continue(PanicWrites \o Stop)
  /\ UNCHANGED <<locked, flag, irqs>>

Interrupt(line7, spurious, body) ==
  /\ flag /\ irqs < MaxIrqs /\ depth < MaxDepth
  /\ stack' = Append(stack, Context(HandleIrq(line7, spurious, body)))
  /\ flag' = FALSE
  /\ irqs' = irqs + 1
  /\ UNCHANGED locked

Iret ==
  /\ At("iret")
  /\ stack' = SubSeq(stack, 1, depth - 1)
  /\ flag' = TRUE
  /\ UNCHANGED <<locked, irqs>>

\* Every exception handler of idt.rs panics; its gate clears the flag.
Exception ==
  /\ top.code # << >> /\ ~At("halt") /\ depth < MaxDepth
  /\ stack' = StartPanic
  /\ flag' = FALSE
  /\ UNCHANGED <<locked, irqs>>

HaltLoop == At("halt") /\ UNCHANGED vars

Step ==
  \/ Lock \/ Unlock \/ TryLock
  \/ Cli \/ Restore \/ SetFlag
  \/ Assert \/ HandlerPanics \/ PanicHandler
  \/ Iret

Next ==
  \/ Step
  \/ \E code \in Operations : Call(code)
  \/ \E line7, spurious \in BOOLEAN, body \in HandlerBodies : Interrupt(line7, spurious, body)
  \/ Exception
  \/ HaltLoop

\* The CPU executes the running context.
Spec == Init /\ [][Next]_vars /\ WF_vars(Step)

(***************************************************************************)
(* Properties                                                              *)
(***************************************************************************)

\* No context ever spins: wherever an interrupt, an exception or a panic
\* strikes, the locks its handlers take are free.
NeverSpins == At("lock") => Target \notin locked

\* Between two calls a task holds no lock, so a switch of tasks carries none
\* over, and interrupts are on again.
IdleIsClean == Idle => locked = {} /\ flag /\ top.saved = << >>

\* Every call returns or the kernel stops for good in the panic handler; in
\* particular a panic while the logger is locked still gets there.
CallsReturnOrHalt == []<>(Idle \/ (At("halt") /\ ~flag))
==============================================================================
