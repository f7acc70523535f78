-------------------------------- MODULE Sched --------------------------------
(***************************************************************************)
(* The cooperative scheduler of src/sched.rs on its single CPU: the ready  *)
(* list threaded through the Task objects, CURRENT_TASK, IDLE_TASK, the    *)
(* saved stack pointers and the deferred cleanup of a task that quits.     *)
(* No interrupt handler calls the scheduler, so between two calls only the *)
(* running task acts and each call is one step; clean_quit_task, which     *)
(* runs on the next task's stack, is a step of its own.                    *)
(***************************************************************************)
EXTENDS Naturals, Sequences, FiniteSets

CONSTANTS
  Tasks,        \* addresses at which create_task may place a Task
  None,         \* the absent Option
  RaxOutcomes   \* whether rax may be found non-zero by switch_to's test

ASSUME SchedAssumption ==
  /\ None \notin Tasks
  /\ IsFiniteSet(Tasks)
  /\ RaxOutcomes \in (SUBSET BOOLEAN) \ {{}}

VARIABLES
  list,      \* the ready list: head, and the next and prev links of the tasks
  current,   \* CURRENT_TASK
  idle,      \* IDLE_TASK
  rsp,       \* rsp[t]: does t.rsp hold a saved stack pointer?
  live,      \* Task objects that exist
  running,   \* the task whose stack the CPU is on
  dying,     \* the argument clean_quit_task is about to receive, in rdi
  mode,      \* what the CPU is executing
  panic      \* the unwrap or assertion that stopped the kernel, or "no"

vars == <<list, current, idle, rsp, live, running, dying, mode, panic>>

Option == Tasks \cup {None}

Init ==
  /\ list = [head |-> None,
             next |-> [t \in Tasks |-> None], prev |-> [t \in Tasks |-> None]]
  /\ current = None
  /\ idle = None
  /\ rsp = [t \in Tasks |-> FALSE]
  /\ live = {}
  /\ running = None
  /\ dying = None
  /\ mode = "boot"
  /\ panic = "no"

(***************************************************************************)
(* The ready list                                                          *)
(***************************************************************************)

Chains == UNION {[1 .. n -> Tasks] : n \in 1 .. Cardinality(Tasks)}

\* Following next from the head visits exactly chain.
IsList(l, chain) ==
  /\ chain[1] = l.head
  /\ \A i \in 1 .. (Len(chain) - 1) : l.next[chain[i]] = chain[i + 1]
  /\ l.next[chain[Len(chain)]] = None

ReadyList(l) ==
  IF l.head = None THEN <<>> ELSE CHOOSE chain \in Chains : IsList(l, chain)

Added_noWalk(l, t) ==
  IF l.head = None
  THEN [l EXCEPT !.head = t]
  ELSE [l EXCEPT !.prev[t] = l.head, !.next[l.head] = t]

Added_afterHead(l, t) ==
  IF l.head = None
  THEN [l EXCEPT !.head = t]
  ELSE [l EXCEPT !.prev[t] = l.head, !.next[l.head] = t, !.next[t] = l.next[l.head]]

\* add_task_to_ready_list
Added(l, t) ==
  IF l.head = None
  THEN [l EXCEPT !.head = t]
  ELSE LET tail == ReadyList(l)[Len(ReadyList(l))]
       IN  [l EXCEPT !.prev[t] = tail, !.next[tail] = t]

\* pop_next_ready_task: the task it returns and the list it leaves.
Next_task(l) == IF l.head = None THEN idle ELSE l.head

Popped_keepPrev(l) ==
  IF l.head = None
  THEN l
  ELSE [l EXCEPT !.head = l.next[l.head], !.next[l.head] = None]

Popped(l) ==
  IF l.head = None
  THEN l
  ELSE [l EXCEPT !.head = l.next[l.head],
                 !.next[l.head] = None,
                 !.prev[l.head] = None]

(***************************************************************************)
(* Operations                                                              *)
(***************************************************************************)

Panic(cause) ==
  /\ panic' = cause
  /\ UNCHANGED <<idle, live, running, dying, mode>>

\* create_task's Task in fresh memory, with the stack ready to start it.
Created(l, t) == [l EXCEPT !.next[t] = None, !.prev[t] = None]

OutOfMemory == Panic("memory") /\ UNCHANGED <<list, current, rsp>>

\* init_kernel_main_thread: the saved stack pointer is taken again at once.
InitKernelMainThread ==
  /\ panic = "no" /\ mode = "boot"
  /\ \/ \E t \in Tasks :
          /\ list' = [Created(list, t) EXCEPT !.head = None]
          /\ live' = {t}
          /\ current' = t
          /\ running' = t
          /\ mode' = "init"
          /\ UNCHANGED <<idle, rsp, dying, panic>>
     \/ OutOfMemory

\* kernel_main_init_fn
KernelMainInitFn ==
  /\ panic = "no" /\ mode = "init"
  /\ \/ \E t \in Tasks \ live :
          /\ list' = Created(list, t)
          /\ live' = live \cup {t}
          /\ rsp' = [rsp EXCEPT ![t] = TRUE]
          /\ idle' = t
          /\ mode' = "task"
          /\ UNCHANGED <<current, running, dying, panic>>
     \/ OutOfMemory

\* The running task is a kernel thread between two calls.
Acting == panic = "no" /\ mode = "task" /\ running # idle

SpawnKthread ==
  /\ Acting
  /\ \/ \E t \in Tasks \ live :
          /\ list' = Added(Created(list, t), t)
          /\ live' = live \cup {t}
          /\ rsp' = [rsp EXCEPT ![t] = TRUE]
          /\ UNCHANGED <<current, idle, running, dying, mode, panic>>
     \/ OutOfMemory

\* yield_current.  switch_to stores the old stack pointer only when rax, which
\* none of its arguments is passed in, happens not to be zero.
YieldCurrent ==
  /\ Acting
  /\ \/ current = None /\ Panic("current") /\ UNCHANGED <<list, current, rsp>>
     \/ /\ current # None
        /\ LET added == Added(list, current)
               next  == Next_task(added)
           IN  /\ list' = Popped(added)
               /\ current' = next
               /\ \/ /\ next = current
                     /\ UNCHANGED <<idle, rsp, live, running, dying, mode, panic>>
                  \/ /\ next # current /\ rsp[next]
                     /\ \E stored \in RaxOutcomes :
                          rsp' = [rsp EXCEPT ![next] = FALSE,
                                             ![current] = @ \/ stored]
                     /\ running' = next
                     /\ UNCHANGED <<idle, live, dying, mode, panic>>
                  \/ /\ next # current /\ ~rsp[next]
                     /\ Panic("rsp") /\ UNCHANGED rsp

QuitCurrent_noTake ==
  /\ Acting
  /\ current # None /\ rsp[Next_task(list)]
  /\ list' = Popped(list)
  /\ running' = Next_task(list)
  /\ dying' = current
  /\ mode' = "clean"
  /\ UNCHANGED <<current, idle, rsp, live, panic>>

\* quit_current: CURRENT_TASK is taken and not set again; the next task is
\* entered through clean_quit_task.
QuitCurrent ==
  /\ Acting
  /\ \/ current = None /\ Panic("current") /\ UNCHANGED <<list, current, rsp>>
     \/ /\ current # None
        /\ list' = Popped(list)
        /\ current' = None
        /\ LET next == Next_task(list)
           IN  \/ /\ rsp[next]
                  /\ rsp' = [rsp EXCEPT ![next] = FALSE]
                  /\ running' = next
                  /\ dying' = current
                  /\ mode' = "clean"
                  /\ UNCHANGED <<idle, live, panic>>
               \/ ~rsp[next] /\ Panic("rsp") /\ UNCHANGED rsp

CleanQuitTask_forget ==
  /\ panic = "no" /\ mode = "clean"
  /\ dying' = None
  /\ mode' = "task"
  /\ UNCHANGED <<list, current, idle, rsp, live, running, panic>>

\* clean_quit_task: three assertions, then the Task and its stack are dropped.
CleanQuitTask ==
  /\ panic = "no" /\ mode = "clean"
  /\ LET unlinked == list.next[dying] = None /\ list.prev[dying] = None /\ ~rsp[dying]
     IN  /\ live' = IF unlinked THEN live \ {dying} ELSE live
         /\ panic' = IF unlinked THEN "no" ELSE "quit"
  /\ dying' = None
  /\ mode' = "task"
  /\ UNCHANGED <<list, current, idle, rsp, running>>

\* idle_task_fn, and any thread that ends the way kernel_main does.
HaltLoop ==
  /\ panic = "no" /\ mode = "task"
  /\ mode' = "halt"
  /\ UNCHANGED <<list, current, idle, rsp, live, running, dying, panic>>

\* A halted CPU stays where it is.
Halted ==
  /\ panic # "no" \/ mode = "halt"
  /\ UNCHANGED vars

Next ==
  \/ InitKernelMainThread
  \/ KernelMainInitFn
  \/ SpawnKthread
  \/ YieldCurrent
  \/ QuitCurrent
  \/ CleanQuitTask
  \/ HaltLoop
  \/ Halted

Spec == Init /\ [][Next]_vars

\* The CPU does not stop between two calls.
FairSpec == Spec /\ WF_vars(Next)

(***************************************************************************)
(* Properties                                                              *)
(***************************************************************************)

Ready == {ReadyList(list)[i] : i \in DOMAIN ReadyList(list)}
Stopped == panic # "no" \/ mode = "halt"

\* Links, statics and stack pointers only ever name Task objects, and once
\* kernel_main runs there is an idle task for pop_next_ready_task to unwrap.
TypeOK ==
  /\ list \in [head : Option, next : [Tasks -> Option], prev : [Tasks -> Option]]
  /\ {current, idle, running, dying} \subseteq Option
  /\ rsp \in [Tasks -> BOOLEAN]
  /\ live \subseteq Tasks
  /\ mode \in {"boot", "init", "task", "clean", "halt"}
  /\ mode # "boot" => running # None
  /\ mode \notin {"boot", "init"} => idle # None
  /\ panic \in {"no", "memory", "current", "rsp", "quit"}

\* The links that add_task_to_ready_list and pop_next_ready_task leave: next
\* leads from the head through distinct tasks to None, prev leads back up to the
\* head, and a task off the list has no links.  The head's own prev is not
\* among them: it still names the task popped before it.
ListLinked ==
  /\ list.head # None => \E chain \in Chains : IsList(list, chain)
  /\ LET chain == ReadyList(list)
     IN  /\ \A i, j \in DOMAIN chain : chain[i] = chain[j] => i = j
         /\ \A i \in DOMAIN chain \ {1} : list.prev[chain[i]] = chain[i - 1]
  /\ \A t \in live \ Ready : list.next[t] = None /\ list.prev[t] = None

\* Every Task object that exists is in exactly one place: on the ready list, on
\* the CPU, waiting for clean_quit_task, or the idle task.  So no thread is lost
\* by a yield or a quit, none is queued twice, and clean_quit_task never drops
\* the stack it runs on or that of a task that will run again.
EveryTaskPlaced ==
  panic = "no" =>
    /\ live = (Ready \cup {running, idle, dying}) \ {None}
    /\ Ready \cap {running, idle, dying} = {}
    /\ dying # None => dying \notin {running, idle}

\* clean_quit_task's assertions: a task that quits is off the list and has no
\* saved stack pointer.
QuitAssertsHold == panic # "quit"

\* IDLE_TASK "runs when no other task is ready" (sched.rs:364).
IdleOnlyWhenNoneReady == running # None /\ running = idle => list.head = None

\* CURRENT_TASK never names a task other than the one on the CPU, so no call
\* queues, switches away from or reclaims somebody else.
CurrentNotStale == panic = "no" => current \in {None, running}

\* CURRENT_TASK is "the currently running task.  Null before the scheduling
\* system is initialized" (sched.rs:360), and only then.
CurrentIsRunning == panic = "no" /\ mode = "task" => current = running

\* Task t has a saved stack pointer if it can be switched to, and only then.
SavedAt(t) == rsp[t] <=> t \notin {running, dying}

\* rsp is "the last stack pointer, if the task is not currently running"
\* (sched.rs:15): a task that can be switched to always has one to load, and
\* the one on the CPU has none.
SavedContext == panic = "no" => \A t \in live : SavedAt(t)

\* What the store that switch_to skips can damage: a stack pointer goes missing
\* only when yield_current leaves a task, and only that task's; none is ever
\* left over for the task on the CPU or one that is being reclaimed.
MissingStoreConfined ==
  /\ [](panic = "no" => \A t \in live \cap {running, dying} : ~rsp[t])
  /\ [][panic' = "no" =>
          \A t \in live' :
            \/ SavedAt(t)'
            \/ t \in live /\ ~SavedAt(t)
            \/ YieldCurrent /\ t = running /\ running' # t]_vars

\* A thread on the ready list gets the CPU unless the kernel panics or another
\* thread enters halt_loop for good.
ReadyRuns == \A t \in Tasks : t \in Ready ~> (running = t \/ Stopped)

\* A task that quits is reclaimed, whatever its successor does.
QuitIsReclaimed == \A t \in Tasks : dying = t ~> t \notin live

\* Behind its links the scheduler is a first-in first-out queue of threads.
Queue == INSTANCE RoundRobin WITH ready <- ReadyList(list), up <- (panic = "no")
ImplementsQueue == Queue!Spec
==============================================================================
