----------------------------- MODULE RoundRobin -----------------------------
(***************************************************************************)
(* What the scheduler (src/sched.rs) promises: kernel threads take turns   *)
(* in first-in first-out order, the idle task runs only when no thread is  *)
(* ready, and a thread that quits is reclaimed by its successor before the *)
(* successor does anything else.  Sched.tla implements it with an          *)
(* intrusive linked list and saved stack pointers.                         *)
(***************************************************************************)
EXTENDS Sequences

CONSTANTS Tasks, None

VARIABLES
  ready,     \* the tasks waiting to run, in order
  running,   \* the task on the CPU
  idle,      \* the idle task
  dying,     \* the task that has quit and is not reclaimed yet
  up         \* FALSE once the kernel has stopped

vars == <<ready, running, idle, dying, up>>

Queued == {ready[i] : i \in DOMAIN ready}
Unused == Tasks \ (Queued \cup {running, idle, dying})

Init ==
  /\ ready = <<>>
  /\ running = None
  /\ idle = None
  /\ dying = None
  /\ up = TRUE

StartMain ==
  /\ up /\ running = None
  /\ running' \in Tasks
  /\ UNCHANGED <<ready, idle, dying, up>>

StartIdle ==
  /\ up /\ running # None /\ idle = None
  /\ idle' \in Unused
  /\ UNCHANGED <<ready, running, dying, up>>

\* A thread, never the idle task, is on the CPU and may call the scheduler.
Acting == up /\ running # None /\ running # idle /\ dying = None

Spawn ==
  /\ Acting
  /\ \E t \in Unused : ready' = Append(ready, t)
  /\ UNCHANGED <<running, idle, dying, up>>

Yield ==
  /\ Acting
  /\ running' = Head(Append(ready, running))
  /\ ready' = Tail(Append(ready, running))
  /\ UNCHANGED <<idle, dying, up>>

Quit ==
  /\ Acting
  /\ dying' = running
  /\ \/ ready # <<>> /\ running' = Head(ready) /\ ready' = Tail(ready)
     \/ ready = <<>> /\ running' = idle /\ UNCHANGED ready
  /\ UNCHANGED <<idle, up>>

Reclaim ==
  /\ up /\ dying # None
  /\ dying' = None
  /\ UNCHANGED <<ready, running, idle, up>>

\* A panic stops the kernel; what it leaves behind is not used again.
Stop == up /\ up' = FALSE

Next ==
  \/ StartMain \/ StartIdle
  \/ Spawn \/ Yield \/ Quit \/ Reclaim
  \/ Stop

\* Once stopped, nothing that could still be observed matters.
Step == Next \/ (~up /\ ~up')

Spec == Init /\ [][Step]_vars
==============================================================================
