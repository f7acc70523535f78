-------------------------- MODULE KernelLocksProofs --------------------------
(***************************************************************************)
(* Proofs about KernelLocks, for contexts nested as deep as one likes and  *)
(* any number of interrupts: no context spins on a lock taken beneath it.  *)
(*                                                                         *)
(* A point is what a context holds, the interrupt flags it has saved and   *)
(* the flag it runs with.  Runs says that code leads from one point to     *)
(* another and takes only locks that it may; it holds of every call's code *)
(* and passes from code to its tail.  The invariant gives every context of *)
(* the stack a point and the set of locks it may take, of which the        *)
(* contexts beneath hold none.                                             *)
(***************************************************************************)
EXTENDS KernelLocks, TLAPS

(***************************************************************************)
(* What code does to the locks and the flag                                *)
(***************************************************************************)

\* What interrupt handlers lock, and what the panic handler may lock.
IrqLocks == {"PIC_REGS", "IRQ_HANDLERS"}
LogLocks == {"DEBUGCON", "VGA"}

Locks ==
  IrqLocks \cup LogLocks
    \cup {"FRAME_ALLOCATOR", "HEAP", "SCHEDULER", "IDLE_TASK", "CURRENT_TASK", "IDT"}

\* "sti", "iret" and "report" in the set of what a context may do allow that
\* instruction; the rest of the set are locks.
BaseMay == Locks \cup {"sti"}
IrqMay == IrqLocks \cup {"iret"}
PanicMay == {"report"}
LocksOf(may) == may \ {"sti", "iret", "report"}

Point(held, saved, on) == [held |-> held, saved |-> saved, on |-> on]
Clean == Point({}, << >>, TRUE)

\* Interrupts are off while a lock of the interrupt handlers is held.
Safe(may, a) ==
  /\ a = Point(a.held, a.saved, a.on)
  /\ a.held \subseteq may
  /\ a.saved \in Seq(BOOLEAN)
  /\ a.on \in BOOLEAN
  /\ a.on => a.held \cap IrqLocks = {}

\* An instruction leads from point a to point b.
Does(may, ins, a, b) ==
  \/ /\ ins.do \in {"lock", "try"} /\ ins.lock \in may \ a.held
     /\ b = Point(a.held \cup {ins.lock}, a.saved, a.on)
  \/ /\ ins.do = "unlock" /\ ins.lock \in a.held
     /\ b = Point(a.held \ {ins.lock}, a.saved, a.on)
  \/ ins.do = "cli" /\ b = Point(a.held, <<a.on>> \o a.saved, FALSE)
  \/ /\ ins.do = "restore" /\ a.saved # << >>
     /\ b = Point(a.held, Tail(a.saved), Head(a.saved))
  \/ ins.do = "sti" /\ "sti" \in may /\ b = Point(a.held, a.saved, TRUE)
  \/ ins.do = "disable" /\ b = Point(a.held, a.saved, FALSE)
  \/ ins.do \in {"assert", "panic", "halt"} /\ b = a
  \/ /\ ins.do \in {"iret", "report"} /\ ins.do \in may /\ a.held = {} /\ a.saved = << >>
     /\ b = a

Deeds ==
  {"lock", "try", "unlock", "cli", "restore", "sti", "disable", "assert", "panic", "report",
   "halt", "iret"}
Instructions == [do : Deeds, lock : Locks \cup {"none"}]

\* The points a run of some code passes.
Passes(may, code, pts) ==
  /\ \A i \in 1 .. (Len(code) + 1) : Safe(may, pts[i])
  /\ \A i \in 1 .. Len(code) : Does(may, code[i], pts[i], pts[i + 1])

Runs(may, code, a, b) ==
  /\ code \in Seq(Instructions)
  /\ \E pts : Passes(may, code, pts) /\ pts[1] = a /\ pts[Len(code) + 1] = b

LEMMA RunsNothing ==
  ASSUME NEW may, NEW a, Safe(may, a)
  PROVE  Runs(may, << >>, a, a)
<1> DEFINE pts == [i \in 1 .. 1 |-> a]
<1>1. Len(<< >>) = 0 /\ << >> \in Seq(Instructions)
  OBVIOUS
<1>2. Passes(may, << >>, pts) /\ pts[1] = a /\ pts[Len(<< >>) + 1] = a
  BY <1>1 DEF Passes
<1>. HIDE DEF pts
<1>. QED BY <1>1, <1>2 DEF Runs

LEMMA RunsEnd ==
  ASSUME NEW may, NEW a, NEW b, Runs(may, << >>, a, b)
  PROVE  a = b /\ Safe(may, a)
<1>1. Len(<< >>) = 0
  OBVIOUS
<1>2. PICK pts : Passes(may, << >>, pts) /\ pts[1] = a /\ pts[Len(<< >>) + 1] = b
  BY DEF Runs
<1>. QED BY <1>1, <1>2 DEF Passes

LEMMA RunsOne ==
  ASSUME NEW may, NEW ins \in Instructions, NEW a, NEW b, Safe(may, a), Safe(may, b),
         Does(may, ins, a, b)
  PROVE  Runs(may, << ins >>, a, b)
<1> DEFINE pts == [i \in 1 .. 2 |-> IF i = 1 THEN a ELSE b]
<1>1. Len(<< ins >>) = 1 /\ << ins >> \in Seq(Instructions) /\ << ins >>[1] = ins
  OBVIOUS
<1>2. pts[1] = a /\ pts[2] = b
  OBVIOUS
<1>. HIDE DEF pts
<1>3. Passes(may, << ins >>, pts)
  <2>1. \A i \in 1 .. (1 + 1) : Safe(may, pts[i])
    BY <1>2
  <2>2. \A i \in 1 .. 1 : Does(may, << ins >>[i], pts[i], pts[i + 1])
    BY <1>1, <1>2
  <2>. QED BY <1>1, <2>1, <2>2 DEF Passes
<1>. QED BY <1>1, <1>2, <1>3 DEF Runs

LEMMA RunsConcat ==
  ASSUME NEW may, NEW c, NEW d, NEW x, NEW y, NEW z, Runs(may, c, x, y), Runs(may, d, y, z)
  PROVE  Runs(may, c \o d, x, z)
<1>1. c \in Seq(Instructions) /\ d \in Seq(Instructions)
  BY DEF Runs
<1>2. PICK p : Passes(may, c, p) /\ p[1] = x /\ p[Len(c) + 1] = y
  BY DEF Runs
<1>3. PICK q : Passes(may, d, q) /\ q[1] = y /\ q[Len(d) + 1] = z
  BY DEF Runs
<1> DEFINE m == Len(c)
           n == Len(d)
           pts == [i \in 1 .. (m + n + 1) |-> IF i <= m THEN p[i] ELSE q[i - m]]
<1>4. /\ m \in Nat /\ n \in Nat /\ Len(c \o d) = m + n /\ c \o d \in Seq(Instructions)
      /\ \A i \in 1 .. (m + n) : (c \o d)[i] = IF i <= m THEN c[i] ELSE d[i - m]
  BY <1>1
<1>. HIDE DEF m, n
<1>5. /\ \A i \in 1 .. (m + 1) : Safe(may, p[i])
      /\ \A i \in 1 .. m : Does(may, c[i], p[i], p[i + 1])
      /\ p[1] = x /\ p[m + 1] = y
  BY <1>2 DEF Passes, m
<1>6. /\ \A i \in 1 .. (n + 1) : Safe(may, q[i])
      /\ \A i \in 1 .. n : Does(may, d[i], q[i], q[i + 1])
      /\ q[1] = y /\ q[n + 1] = z
  BY <1>3 DEF Passes, n
<1>7. \A i \in 1 .. (m + 1) : pts[i] = p[i]
  BY <1>4, <1>5, <1>6
<1>8. \A i \in 1 .. (n + 1) : pts[i + m] = q[i]
  BY <1>4
<1>. HIDE DEF pts
<1>9. ASSUME NEW i \in 1 .. (m + n + 1) PROVE Safe(may, pts[i])
  <2>1. CASE i <= m
    BY <1>4, <1>5, <1>7, <2>1
  <2>2. CASE i > m
    <3>1. i - m \in 1 .. (n + 1) /\ (i - m) + m = i
      BY <1>4, <2>2
    <3>. QED BY <1>6, <1>8, <3>1
  <2>. QED BY <1>4, <2>1, <2>2
<1>10. ASSUME NEW i \in 1 .. (m + n) PROVE Does(may, (c \o d)[i], pts[i], pts[i + 1])
  <2>1. CASE i <= m
    <3>1. i \in 1 .. m /\ i \in 1 .. (m + 1) /\ i + 1 \in 1 .. (m + 1)
      BY <1>4, <2>1
    <3>2. (c \o d)[i] = c[i]
      BY <1>4, <2>1
    <3>. QED BY <1>5, <1>7, <3>1, <3>2
  <2>2. CASE i > m
    <3>1. /\ i - m \in 1 .. n /\ i - m \in 1 .. (n + 1) /\ (i - m) + 1 \in 1 .. (n + 1)
          /\ (i - m) + m = i /\ ((i - m) + 1) + m = i + 1
      BY <1>4, <2>2
    <3>2. (c \o d)[i] = d[i - m]
      BY <1>4, <2>2
    <3>3. pts[i] = q[i - m] /\ pts[i + 1] = q[(i - m) + 1]
      BY <1>8, <3>1
    <3>. QED BY <1>6, <3>1, <3>2, <3>3
  <2>. QED BY <1>4, <2>1, <2>2
<1>11. Passes(may, c \o d, pts)
  BY <1>4, <1>9, <1>10 DEF Passes
<1>12. pts[1] = x /\ pts[Len(c \o d) + 1] = z
  <2>1. 1 \in 1 .. (m + 1) /\ n + 1 \in 1 .. (n + 1) /\ (n + 1) + m = Len(c \o d) + 1
    BY <1>4
  <2>. QED BY <1>5, <1>6, <1>7, <1>8, <2>1
<1>. QED BY <1>4, <1>11, <1>12 DEF Runs

\* The run of the code that is left.
LEMMA RunsStep ==
  ASSUME NEW may, NEW code, NEW a, NEW z, Runs(may, code, a, z), code # << >>
  PROVE  /\ Head(code) \in Instructions
         /\ Safe(may, a)
         /\ \E b : Safe(may, b) /\ Does(may, Head(code), a, b) /\ Runs(may, Tail(code), b, z)
<1>1. code \in Seq(Instructions)
  BY DEF Runs
<1>2. PICK p : Passes(may, code, p) /\ p[1] = a /\ p[Len(code) + 1] = z
  BY DEF Runs
<1> DEFINE n == Len(code)
           pts == [i \in 1 .. n |-> p[i + 1]]
<1>3. /\ n \in Nat /\ n > 0 /\ Head(code) = code[1] /\ Head(code) \in Instructions
      /\ Tail(code) \in Seq(Instructions) /\ Len(Tail(code)) = n - 1
      /\ \A i \in 1 .. (n - 1) : Tail(code)[i] = code[i + 1]
  BY <1>1
<1>. HIDE DEF n
<1>4. /\ \A i \in 1 .. (n + 1) : Safe(may, p[i])
      /\ \A i \in 1 .. n : Does(may, code[i], p[i], p[i + 1])
      /\ p[1] = a /\ p[n + 1] = z
  BY <1>2 DEF Passes, n
<1>5. \A i \in 1 .. n : pts[i] = p[i + 1]
  OBVIOUS
<1>. HIDE DEF pts
<1>6. ASSUME NEW i \in 1 .. ((n - 1) + 1) PROVE Safe(may, pts[i])
  <2>1. i \in 1 .. n /\ i + 1 \in 1 .. (n + 1)
    BY <1>3
  <2>. QED BY <1>4, <1>5, <2>1
<1>7. ASSUME NEW i \in 1 .. (n - 1) PROVE Does(may, Tail(code)[i], pts[i], pts[i + 1])
  <2>1. i \in 1 .. n /\ i + 1 \in 1 .. n
    BY <1>3
  <2>2. pts[i] = p[i + 1] /\ pts[i + 1] = p[(i + 1) + 1]
    BY <1>5, <2>1
  <2>. QED BY <1>3, <1>4, <2>1, <2>2
<1>8. Passes(may, Tail(code), pts)
  BY <1>3, <1>6, <1>7 DEF Passes
<1>9. pts[1] = p[2] /\ pts[(n - 1) + 1] = z
  <2>1. 1 \in 1 .. n /\ n \in 1 .. n /\ (n - 1) + 1 = n
    BY <1>3
  <2>. QED BY <1>4, <1>5, <2>1
<1>10. Runs(may, Tail(code), p[2], z)
  BY <1>3, <1>8, <1>9 DEF Runs
<1>11. Safe(may, a) /\ Safe(may, p[2]) /\ Does(may, Head(code), a, p[2])
  BY <1>3, <1>4
<1>. QED BY <1>3, <1>10, <1>11
(***************************************************************************)
(* What the calls do                                                       *)
(***************************************************************************)

LEMMA AssertRuns ==
  ASSUME NEW may, NEW a, Safe(may, a)
  PROVE  Runs(may, MayPanic, a, a)
<1>1. [do |-> "assert", lock |-> "none"] \in Instructions
  BY DEF Instructions, Deeds
<1>2. Does(may, [do |-> "assert", lock |-> "none"], a, a)
  BY DEF Does
<1>. QED BY <1>1, <1>2, RunsOne DEF MayPanic, Do

\* A point with one more lock.
With(a, l) == Point(a.held \cup {l}, a.saved, a.on)

\* A lock may be taken: the context may, does not hold it, and has interrupts
\* off if it is one of the interrupt handlers'.
Takes(may, a, l) ==
  /\ Safe(may, a) /\ l \in Locks /\ l \in may \ a.held
  /\ l \in IrqLocks => a.on = FALSE

\* Taking the lock leads from a to b, dropping it back.
Brackets(may, a, l, b) ==
  /\ Safe(may, b)
  /\ b.held = a.held \cup {l}
  /\ b = Point(a.held \cup {l}, a.saved, a.on)
  /\ a = Point(b.held \ {l}, b.saved, b.on)

LEMMA WithIsSafe ==
  ASSUME NEW may, NEW a, NEW l, Takes(may, a, l)
  PROVE  Brackets(may, a, l, With(a, l))
<1>1. /\ a = Point(a.held, a.saved, a.on) /\ a.held \subseteq may /\ a.saved \in Seq(BOOLEAN)
      /\ a.on \in BOOLEAN /\ (a.on => a.held \cap IrqLocks = {})
      /\ l \in may /\ l \notin a.held /\ (l \in IrqLocks => a.on = FALSE)
  BY DEF Takes, Safe
<1>2. /\ With(a, l).held = a.held \cup {l}
      /\ With(a, l).saved = a.saved
      /\ With(a, l).on = a.on
  BY DEF With, Point
<1>3. With(a, l) = Point(With(a, l).held, With(a, l).saved, With(a, l).on)
  BY <1>2 DEF With
<1>4. a.on => (a.held \cup {l}) \cap IrqLocks = {}
  BY <1>1
<1>5. Safe(may, With(a, l))
  BY <1>1, <1>2, <1>3, <1>4 DEF Safe
<1>6. (a.held \cup {l}) \ {l} = a.held
  BY <1>1
<1>7. a = Point(With(a, l).held \ {l}, With(a, l).saved, With(a, l).on)
  BY <1>1, <1>2, <1>6
<1>. QED BY <1>2, <1>5, <1>7 DEF Brackets, With

\* lock or try_lock, and the guard's drop.
LEMMA TakeRuns ==
  ASSUME NEW may, NEW a, NEW l, Takes(may, a, l), NEW how \in {"lock", "try"}
  PROVE  /\ Runs(may, On(how, l), a, With(a, l))
         /\ Runs(may, On("unlock", l), With(a, l), a)
<1> DEFINE b == With(a, l)
           in == [do |-> how, lock |-> l]
           out == [do |-> "unlock", lock |-> l]
<1>1. Safe(may, a) /\ l \in may \ a.held /\ in \in Instructions /\ out \in Instructions
  BY DEF Takes, Instructions, Deeds
<1>2. Brackets(may, a, l, b)
  BY WithIsSafe
<1>. HIDE DEF b
<1>3. Does(may, in, a, b)
  BY <1>1, <1>2 DEF Does, Brackets
<1>4. Does(may, out, b, a)
  BY <1>2 DEF Does, Brackets
<1>. HIDE DEF in, out
<1>5. Runs(may, << in >>, a, b) /\ Runs(may, << out >>, b, a)
  BY <1>1, <1>2, <1>3, <1>4, RunsOne DEF Brackets
<1>. QED BY <1>5 DEF On, in, out, b

LEMMA LockedRuns ==
  ASSUME NEW may, NEW a, NEW l, NEW body, Takes(may, a, l), Runs(may, body, With(a, l), With(a, l))
  PROVE  Runs(may, Locked(l, body), a, a)
<1>1. Runs(may, On("lock", l), a, With(a, l)) /\ Runs(may, On("unlock", l), With(a, l), a)
  BY TakeRuns
<1>2. Runs(may, On("lock", l) \o body, a, With(a, l))
  BY <1>1, RunsConcat
<1>3. Runs(may, On("lock", l) \o body \o On("unlock", l), a, a)
  BY <1>1, <1>2, RunsConcat
<1>. QED BY <1>3 DEF Locked

\* A point with interrupts off and the flag saved.
Off(a) == Point(a.held, <<a.on>> \o a.saved, FALSE)

LEMMA OffIsSafe ==
  ASSUME NEW may, NEW a, Safe(may, a)
  PROVE  /\ Safe(may, Off(a))
         /\ Off(a).held = a.held /\ Off(a).on = FALSE
         /\ Off(a).saved # << >>
         /\ Point(Off(a).held, Tail(Off(a).saved), Head(Off(a).saved)) = a
<1>1. a = Point(a.held, a.saved, a.on) /\ a.held \subseteq may /\ a.saved \in Seq(BOOLEAN)
      /\ a.on \in BOOLEAN
  BY DEF Safe
<1>2. Off(a).held = a.held /\ Off(a).saved = <<a.on>> \o a.saved /\ Off(a).on = FALSE
  BY DEF Off, Point
<1>3. /\ <<a.on>> \o a.saved \in Seq(BOOLEAN) /\ <<a.on>> \o a.saved # << >>
      /\ Head(<<a.on>> \o a.saved) = a.on /\ Tail(<<a.on>> \o a.saved) = a.saved
  BY <1>1
<1>4. Off(a) = Point(Off(a).held, Off(a).saved, Off(a).on)
  BY <1>2 DEF Off
<1>5. Safe(may, Off(a))
  BY <1>1, <1>2, <1>3, <1>4 DEF Safe
<1>. QED BY <1>1, <1>2, <1>3, <1>5

LEMMA WithoutRuns ==
  ASSUME NEW may, NEW a, NEW body, Safe(may, a), Runs(may, body, Off(a), Off(a))
  PROVE  Runs(may, WithoutInterrupts(body), a, a)
<1> DEFINE b == Off(a)
           in == [do |-> "cli", lock |-> "none"]
           out == [do |-> "restore", lock |-> "none"]
<1>1. in \in Instructions /\ out \in Instructions
  BY DEF Instructions, Deeds
<1>2. Safe(may, b) /\ b.saved # << >> /\ Point(b.held, Tail(b.saved), Head(b.saved)) = a
  BY OffIsSafe
<1>3. Does(may, in, a, b)
  BY DEF Does, Off
<1>4. Does(may, out, b, a)
  <2>. HIDE DEF b
  <2>. QED BY <1>2 DEF Does
<1>. HIDE DEF b, in, out
<1>5. Runs(may, << in >>, a, b) /\ Runs(may, << out >>, b, a)
  BY <1>1, <1>2, <1>3, <1>4, RunsOne
<1>6. Runs(may, << in >> \o body, a, b)
  BY <1>5, RunsConcat DEF b
<1>7. Runs(may, << in >> \o body \o << out >>, a, a)
  BY <1>5, <1>6, RunsConcat
<1>. QED BY <1>7 DEF WithoutInterrupts, Do, in, out
\* A lock the context may take and does not hold.
Free(may, a, l) == Safe(may, a) /\ l \in Locks /\ l \in may \ a.held

LEMMA FreeIsTaken ==
  ASSUME NEW may, NEW a, NEW l, Free(may, a, l), l \notin IrqLocks
  PROVE  Takes(may, a, l)
BY DEF Free, Takes

LEMMA FreeWith ==
  ASSUME NEW may, NEW a, NEW l, NEW k, Takes(may, a, l), Free(may, a, k), k # l
  PROVE  Free(may, With(a, l), k)
<1>1. Brackets(may, a, l, With(a, l))
  BY WithIsSafe
<1>. QED BY <1>1 DEF Brackets, Free

LEMMA FreeOff ==
  ASSUME NEW may, NEW a, NEW l, Free(may, a, l)
  PROVE  Free(may, Off(a), l) /\ Takes(may, Off(a), l)
<1>1. Safe(may, Off(a)) /\ Off(a).held = a.held /\ Off(a).on = FALSE
  BY OffIsSafe DEF Free
<1>. QED BY <1>1 DEF Free, Takes

LEMMA LockedAsserts ==
  ASSUME NEW may, NEW a, NEW l, Takes(may, a, l)
  PROVE  Runs(may, Locked(l, MayPanic), a, a) /\ Runs(may, Locked(l, << >>), a, a)
<1>1. Safe(may, With(a, l))
  BY WithIsSafe DEF Brackets
<1>2. Runs(may, MayPanic, With(a, l), With(a, l)) /\ Runs(may, << >>, With(a, l), With(a, l))
  BY <1>1, AssertRuns, RunsNothing
<1>. QED BY <1>2, LockedRuns

LEMMA AddTaskRuns ==
  ASSUME NEW may, NEW a, Free(may, a, "SCHEDULER")
  PROVE  Runs(may, AddTaskToReadyList, a, a)
<1>1. Runs(may, Locked("SCHEDULER", MayPanic), Off(a), Off(a))
  BY FreeOff, LockedAsserts
<1>. QED BY <1>1, WithoutRuns DEF AddTaskToReadyList, Free

LEMMA PopTaskRuns ==
  ASSUME NEW may, NEW a, Free(may, a, "SCHEDULER"), Free(may, a, "IDLE_TASK"),
         NEW idle \in {<< >>, IdleTask}
  PROVE  Runs(may, PopNextReadyTask(idle), a, a)
<1> DEFINE b == Off(a)
           c == With(b, "SCHEDULER")
<1>1. Takes(may, b, "SCHEDULER") /\ Free(may, b, "IDLE_TASK")
  BY FreeOff
<1>. HIDE DEF b
<1>2. Free(may, c, "IDLE_TASK")
  BY <1>1, FreeWith
<1>. HIDE DEF c
<1>3. Safe(may, c) /\ Takes(may, c, "IDLE_TASK")
  BY <1>2, FreeIsTaken DEF IrqLocks, Free
<1>4. Runs(may, MayPanic, c, c)
  BY <1>3, AssertRuns
<1>5. Runs(may, idle, c, c)
  <2>1. Runs(may, << >>, c, c)
    BY <1>3, RunsNothing
  <2>2. Runs(may, IdleTask, c, c)
    BY <1>3, LockedAsserts DEF IdleTask
  <2>. QED BY <2>1, <2>2
<1>6. Runs(may, MayPanic \o idle, c, c)
  BY <1>4, <1>5, RunsConcat
<1>7. Runs(may, Locked("SCHEDULER", MayPanic \o idle), b, b)
  BY <1>1, <1>6, LockedRuns DEF c
<1>. QED BY <1>7, WithoutRuns DEF PopNextReadyTask, Free, b
\* The logger, from any point at which its two locks are free.
LEMMA LogRuns ==
  ASSUME NEW may, NEW a, Free(may, a, "DEBUGCON"), Free(may, a, "VGA")
  PROVE  Runs(may, Log, a, a)
<1>1. Takes(may, a, "DEBUGCON") /\ Takes(may, a, "VGA")
  BY FreeIsTaken DEF IrqLocks
<1>2. Runs(may, Locked("DEBUGCON", MayPanic), a, a) /\ Runs(may, Locked("VGA", MayPanic), a, a)
  BY <1>1, LockedAsserts
<1>. QED BY <1>2, RunsConcat DEF Log

LEMMA CleanIsFree ==
  /\ Safe(BaseMay, Clean)
  /\ \A l \in Locks : Free(BaseMay, Clean, l)
<1>1. Clean.held = {} /\ Clean.saved = << >> /\ Clean.on = TRUE
  BY DEF Clean, Point
<1>2. Clean = Point(Clean.held, Clean.saved, Clean.on)
  BY <1>1 DEF Clean
<1>3. << >> \in Seq(BOOLEAN)
  OBVIOUS
<1>4. Safe(BaseMay, Clean)
  BY <1>1, <1>2, <1>3 DEF Safe
<1>. QED BY <1>1, <1>4 DEF Free, BaseMay

\* Every call of a task's code takes only free locks and leaves the task as it was.
LEMMA OperationsRun ==
  ASSUME NEW code \in Operations
  PROVE  Runs(BaseMay, code, Clean, Clean)
<1> DEFINE R(c) == Runs(BaseMay, c, Clean, Clean)
           cur == With(Clean, "CURRENT_TASK")
           heap == With(Clean, "HEAP")
           off == Off(Clean)
<1>1. /\ "DEBUGCON" \in Locks /\ "VGA" \in Locks /\ "FRAME_ALLOCATOR" \in Locks /\ "HEAP" \in Locks
      /\ "SCHEDULER" \in Locks /\ "IDLE_TASK" \in Locks /\ "CURRENT_TASK" \in Locks
      /\ "PIC_REGS" \in Locks /\ "IRQ_HANDLERS" \in Locks
  BY DEF Locks, IrqLocks, LogLocks
<1>2. Safe(BaseMay, Clean) /\ \A l \in Locks : Free(BaseMay, Clean, l)
  BY CleanIsFree
<1>3. ASSUME NEW l \in Locks \ IrqLocks PROVE Takes(BaseMay, Clean, l)
  BY <1>2, FreeIsTaken
<1>4. /\ "FRAME_ALLOCATOR" \notin IrqLocks /\ "HEAP" \notin IrqLocks /\ "CURRENT_TASK" \notin IrqLocks
  BY DEF IrqLocks
<1>. HIDE DEF Clean
<1>5. R(MayPanic)
  BY <1>2, AssertRuns
<1>6. R(Log)
  BY <1>1, <1>2, LogRuns
<1>7. R(AllocateFrames) /\ R(DeallocateFrames)
  BY <1>1, <1>3, <1>4, LockedAsserts DEF AllocateFrames, DeallocateFrames
<1>8. ASSUME NEW provider \in {<< >>, AllocateFrames} PROVE R(HeapAlloc(provider))
  <2>1. Takes(BaseMay, Clean, "HEAP")
    BY <1>1, <1>3, <1>4
  <2>2. /\ Runs(BaseMay, On("try", "HEAP"), Clean, heap)
        /\ Runs(BaseMay, On("unlock", "HEAP"), heap, Clean)
    BY <2>1, TakeRuns
  <2>3. Free(BaseMay, heap, "FRAME_ALLOCATOR")
    BY <1>1, <1>2, <2>1, FreeWith
  <2>. HIDE DEF heap
  <2>4. Safe(BaseMay, heap) /\ Takes(BaseMay, heap, "FRAME_ALLOCATOR")
    BY <1>4, <2>3, FreeIsTaken DEF Free
  <2>5. Runs(BaseMay, provider, heap, heap)
    <3>1. Runs(BaseMay, << >>, heap, heap)
      BY <2>4, RunsNothing
    <3>2. Runs(BaseMay, AllocateFrames, heap, heap)
      BY <2>4, LockedAsserts DEF AllocateFrames
    <3>. QED BY <3>1, <3>2
  <2>6. Runs(BaseMay, MayPanic, heap, heap)
    BY <2>4, AssertRuns
  <2>7. Runs(BaseMay, On("try", "HEAP") \o provider, Clean, heap)
    BY <2>2, <2>5, RunsConcat
  <2>8. Runs(BaseMay, On("try", "HEAP") \o provider \o MayPanic, Clean, heap)
    BY <2>6, <2>7, RunsConcat
  <2>9. Runs(BaseMay, On("try", "HEAP") \o provider \o MayPanic \o On("unlock", "HEAP"), Clean, Clean)
    BY <2>2, <2>8, RunsConcat
  <2>. QED BY <2>9 DEF HeapAlloc
<1>9. R(SpawnKthread)
  <2>1. R(AllocateFrames \o MayPanic)
    BY <1>5, <1>7, RunsConcat
  <2>2. R(AddTaskToReadyList)
    BY <1>1, <1>2, AddTaskRuns
  <2>. QED BY <2>1, <2>2, RunsConcat DEF SpawnKthread
<1>10. /\ Takes(BaseMay, Clean, "CURRENT_TASK") /\ Safe(BaseMay, cur)
       /\ Free(BaseMay, cur, "SCHEDULER") /\ Free(BaseMay, cur, "IDLE_TASK")
  <2>1. Takes(BaseMay, Clean, "CURRENT_TASK")
    BY <1>1, <1>3, <1>4
  <2>2. Free(BaseMay, cur, "SCHEDULER") /\ Free(BaseMay, cur, "IDLE_TASK")
    BY <1>1, <1>2, <2>1, FreeWith
  <2>. HIDE DEF cur
  <2>. QED BY <2>1, <2>2 DEF Free
<1>11. ASSUME NEW body, Runs(BaseMay, body, cur, cur) PROVE R(Locked("CURRENT_TASK", body))
  BY <1>10, <1>11, LockedRuns
<1>. HIDE DEF cur
<1>12. Runs(BaseMay, MayPanic, cur, cur) /\ Runs(BaseMay, AddTaskToReadyList, cur, cur)
  BY <1>10, AssertRuns, AddTaskRuns
<1>13. ASSUME NEW idle \in {<< >>, IdleTask} PROVE Runs(BaseMay, PopNextReadyTask(idle), cur, cur)
  BY <1>10, PopTaskRuns
<1>14. R(YieldCurrent)
  <2>1. Runs(BaseMay, MayPanic \o AddTaskToReadyList, cur, cur)
    BY <1>12, RunsConcat
  <2>2. Runs(BaseMay, PopNextReadyTask(<< >>), cur, cur)
    BY <1>13
  <2>3. Runs(BaseMay, MayPanic \o AddTaskToReadyList \o PopNextReadyTask(<< >>), cur, cur)
    BY <2>1, <2>2, RunsConcat
  <2>4. R(Locked("CURRENT_TASK", MayPanic \o AddTaskToReadyList \o PopNextReadyTask(<< >>)))
    BY <1>11, <2>3
  <2>. QED BY <1>5, <2>4, RunsConcat DEF YieldCurrent
<1>15. ASSUME NEW idle \in {<< >>, IdleTask} PROVE R(QuitCurrent(idle))
  <2>1. Runs(BaseMay, MayPanic \o PopNextReadyTask(idle), cur, cur)
    BY <1>12, <1>13, RunsConcat
  <2>2. Runs(BaseMay, MayPanic \o PopNextReadyTask(idle) \o MayPanic, cur, cur)
    BY <1>12, <2>1, RunsConcat
  <2>3. R(Locked("CURRENT_TASK", MayPanic \o PopNextReadyTask(idle) \o MayPanic))
    BY <1>11, <2>2
  <2>4. R(Locked("CURRENT_TASK", MayPanic \o PopNextReadyTask(idle) \o MayPanic) \o MayPanic)
    BY <1>5, <2>3, RunsConcat
  <2>. QED BY <1>7, <2>4, RunsConcat DEF QuitCurrent
<1>16. R(InstallIrqHandler)
  <2>1. Takes(BaseMay, off, "IRQ_HANDLERS") /\ Takes(BaseMay, off, "PIC_REGS")
    BY <1>1, <1>2, FreeOff
  <2>2. /\ Runs(BaseMay, Locked("IRQ_HANDLERS", MayPanic), off, off)
        /\ Runs(BaseMay, Locked("PIC_REGS", << >>), off, off)
    BY <2>1, LockedAsserts
  <2>3. Runs(BaseMay, Locked("IRQ_HANDLERS", MayPanic) \o Locked("PIC_REGS", << >>), off, off)
    BY <2>2, RunsConcat
  <2>4. R(WithoutInterrupts(Locked("IRQ_HANDLERS", MayPanic) \o Locked("PIC_REGS", << >>)))
    BY <1>2, <2>3, WithoutRuns
  <2>. QED BY <1>5, <2>4, RunsConcat DEF InstallIrqHandler
<1>17. R(HeapAlloc(<< >>)) /\ R(HeapAlloc(AllocateFrames))
  BY <1>8
<1>18. R(QuitCurrent(<< >>)) /\ R(QuitCurrent(IdleTask))
  BY <1>15
<1>19. code \in {Log, AllocateFrames, HeapAlloc(<< >>), HeapAlloc(AllocateFrames), SpawnKthread,
                 YieldCurrent, QuitCurrent(<< >>), QuitCurrent(IdleTask), InstallIrqHandler}
  BY DEF Operations
<1>. HIDE DEF R
<1>20. R(code)
  BY <1>6, <1>7, <1>9, <1>14, <1>16, <1>17, <1>18, <1>19, Zenon
<1>. QED BY <1>20 DEF R
Start(on) == Point({}, << >>, on)

LEMMA StartIsSafe ==
  ASSUME NEW may, NEW on \in BOOLEAN
  PROVE  /\ Safe(may, Start(on))
         /\ Start(on).held = {} /\ Start(on).saved = << >> /\ Start(on).on = on
<1>1. Start(on).held = {} /\ Start(on).saved = << >> /\ Start(on).on = on
  BY DEF Start, Point
<1>2. Start(on) = Point(Start(on).held, Start(on).saved, Start(on).on)
  BY <1>1 DEF Start
<1>3. << >> \in Seq(BOOLEAN)
  OBVIOUS
<1>. QED BY <1>1, <1>2, <1>3 DEF Safe

\* pic::init runs with interrupts off and turns them on at its end.
LEMMA PicInitRuns == Runs(BaseMay, PicInit, Start(FALSE), Clean)
<1> DEFINE a == Start(FALSE)
           b == Off(a)
           c == With(b, "PIC_REGS")
           sti == [do |-> "sti", lock |-> "none"]
<1>1. Safe(BaseMay, a) /\ Free(BaseMay, a, "PIC_REGS") /\ Free(BaseMay, a, "IDT")
  <2>1. Safe(BaseMay, a) /\ a.held = {}
    BY StartIsSafe
  <2>. HIDE DEF a
  <2>. QED BY <2>1 DEF Free, BaseMay, Locks, IrqLocks
<1>2. Does(BaseMay, sti, a, Clean) /\ sti \in Instructions
  <2>1. a.held = {} /\ a.saved = << >>
    BY StartIsSafe
  <2>. HIDE DEF a
  <2>. QED BY <2>1 DEF Does, Clean, BaseMay, Instructions, Deeds
<1>3. Runs(BaseMay, Do("sti"), a, Clean)
  <2>. HIDE DEF a, sti
  <2>. QED BY <1>1, <1>2, CleanIsFree, RunsOne DEF Do, sti
<1>. HIDE DEF a
<1>4. Takes(BaseMay, b, "PIC_REGS") /\ Free(BaseMay, b, "IDT")
  BY <1>1, FreeOff
<1>. HIDE DEF b
<1>5. Free(BaseMay, c, "IDT")
  BY <1>4, FreeWith
<1>. HIDE DEF c
<1>6. Runs(BaseMay, Locked("IDT", MayPanic), Off(c), Off(c))
  BY <1>5, FreeOff, LockedAsserts
<1>7. Runs(BaseMay, WithoutInterrupts(Locked("IDT", MayPanic)), c, c)
  BY <1>5, <1>6, WithoutRuns DEF Free
<1>8. Runs(BaseMay, Locked("PIC_REGS", WithoutInterrupts(Locked("IDT", MayPanic))), b, b)
  BY <1>4, <1>7, LockedRuns DEF c
<1>9. Runs(BaseMay, WithoutInterrupts(
         Locked("PIC_REGS", WithoutInterrupts(Locked("IDT", MayPanic)))), a, a)
  BY <1>1, <1>8, WithoutRuns DEF b
<1>10. Runs(BaseMay, PicInit, a, Clean)
  BY <1>3, <1>9, RunsConcat DEF PicInit
<1>. QED BY <1>10 DEF a

\* handle_irq takes the locks of interrupt handlers only.
LEMMA HandleIrqRuns ==
  ASSUME NEW line7 \in BOOLEAN, NEW spurious \in BOOLEAN, NEW body \in HandlerBodies
  PROVE  Runs(IrqMay, HandleIrq(line7, spurious, body), Start(FALSE), Start(FALSE))
<1> DEFINE a == Start(FALSE)
           b == Off(a)
           c == With(b, "IRQ_HANDLERS")
           check == IF line7 THEN Locked("PIC_REGS", << >>) ELSE << >>
           handle == Locked("IRQ_HANDLERS", body) \o Locked("PIC_REGS", << >>)
           rest == IF line7 /\ spurious THEN << >> ELSE handle
           iret == [do |-> "iret", lock |-> "none"]
<1>1. Safe(IrqMay, a) /\ Free(IrqMay, a, "PIC_REGS") /\ Free(IrqMay, a, "IRQ_HANDLERS")
  <2>1. Safe(IrqMay, a) /\ a.held = {}
    BY StartIsSafe
  <2>. HIDE DEF a
  <2>. QED BY <2>1 DEF Free, IrqMay, Locks, IrqLocks
<1>2. Does(IrqMay, iret, a, a) /\ iret \in Instructions
  <2>1. a.held = {} /\ a.saved = << >>
    BY StartIsSafe
  <2>. HIDE DEF a
  <2>. QED BY <2>1 DEF Does, IrqMay, Instructions, Deeds
<1>3. Runs(IrqMay, Do("iret"), a, a)
  <2>. HIDE DEF a, iret
  <2>. QED BY <1>1, <1>2, RunsOne DEF Do, iret
<1>. HIDE DEF a, iret
<1>4. Takes(IrqMay, b, "PIC_REGS") /\ Takes(IrqMay, b, "IRQ_HANDLERS") /\ Safe(IrqMay, b)
  BY <1>1, FreeOff DEF Free
<1>. HIDE DEF b
<1>5. Runs(IrqMay, Locked("PIC_REGS", << >>), b, b) /\ Runs(IrqMay, << >>, b, b)
  BY <1>4, LockedAsserts, RunsNothing
<1>6. Runs(IrqMay, body, c, c)
  <2>1. Safe(IrqMay, c)
    BY <1>4, WithIsSafe DEF Brackets
  <2> DEFINE panic == [do |-> "panic", lock |-> "none"]
  <2>2. Does(IrqMay, panic, c, c) /\ panic \in Instructions
    BY DEF Does, Instructions, Deeds
  <2>. HIDE DEF c, panic
  <2>3. Runs(IrqMay, << panic >>, c, c)
    BY <2>1, <2>2, RunsOne
  <2>4. Runs(IrqMay, Do("panic"), c, c) /\ Runs(IrqMay, << >>, c, c)
    BY <2>1, <2>3, RunsNothing DEF Do, panic
  <2>. QED BY <2>4 DEF HandlerBodies
<1>7. Runs(IrqMay, Locked("IRQ_HANDLERS", body), b, b)
  BY <1>4, <1>6, LockedRuns
<1>8. Runs(IrqMay, handle, b, b)
  BY <1>5, <1>7, RunsConcat
<1>. HIDE DEF handle
<1>9. Runs(IrqMay, check, b, b) /\ Runs(IrqMay, rest, b, b)
  BY <1>5, <1>8
<1>. HIDE DEF check, rest
<1>10. Runs(IrqMay, check \o rest, b, b)
  BY <1>9, RunsConcat
<1>11. Runs(IrqMay, WithoutInterrupts(check \o rest), a, a)
  BY <1>1, <1>10, WithoutRuns DEF b
<1>12. Runs(IrqMay, WithoutInterrupts(check \o rest) \o Do("iret"), a, a)
  BY <1>3, <1>11, RunsConcat
<1>. QED BY <1>12 DEF HandleIrq, check, rest, handle, a

\* The panic handler takes the locks of the logger, or none.
LEMMA PanicRuns ==
  ASSUME NEW on \in BOOLEAN
  PROVE  /\ Runs(PanicMay, Do("report"), Start(on), Start(on))
         /\ Runs(LogLocks, Log \o Stop, Start(on), Start(FALSE))
         /\ Runs({}, MayPanic \o Stop, Start(on), Start(FALSE))
<1> DEFINE report == [do |-> "report", lock |-> "none"]
           disable == [do |-> "disable", lock |-> "none"]
           halt == [do |-> "halt", lock |-> "none"]
           a == Start(on)
           b == Start(FALSE)
<1>1. \A may : Safe(may, a) /\ a.held = {} /\ a.saved = << >> /\ Safe(may, b)
  BY StartIsSafe
<1>2. report \in Instructions /\ disable \in Instructions /\ halt \in Instructions
  BY DEF Instructions, Deeds
<1>3. b = Point({}, << >>, FALSE)
  BY DEF Start
<1>. HIDE DEF a, b
<1>4. /\ Does(PanicMay, report, a, a)
      /\ \A may : Does(may, disable, a, b) /\ Does(may, halt, b, b)
  BY <1>1, <1>3 DEF Does, PanicMay
<1>. HIDE DEF report, disable, halt
<1>5. ASSUME NEW may PROVE Runs(may, Stop, a, b)
  <2>1. Runs(may, << disable >>, a, b) /\ Runs(may, << halt >>, b, b)
    BY <1>1, <1>2, <1>4, RunsOne
  <2>2. Runs(may, << disable >> \o << halt >>, a, b)
    BY <2>1, RunsConcat
  <2>. QED BY <2>2 DEF Stop, Do, disable, halt
<1>6. Runs(PanicMay, Do("report"), a, a)
  BY <1>1, <1>2, <1>4, RunsOne DEF Do, report
<1>7. Runs({}, MayPanic \o Stop, a, b)
  BY <1>1, <1>5, AssertRuns, RunsConcat
<1>8. Runs(LogLocks, Log, a, a)
  <2>1. Free(LogLocks, a, "DEBUGCON") /\ Free(LogLocks, a, "VGA")
    BY <1>1 DEF Free, Locks, LogLocks
  <2>. QED BY <2>1, LogRuns
<1>9. Runs(LogLocks, Log \o Stop, a, b)
  BY <1>5, <1>8, RunsConcat
<1>. QED BY <1>6, <1>7, <1>9 DEF a, b
(***************************************************************************)
(* The contexts on the stack                                               *)
(***************************************************************************)

Contexts == [code : Seq(Instructions), saved : Seq(BOOLEAN)]

\* Interrupts are on, or are when a without_interrupts returns.
Enables(a) == a.on = TRUE \/ \E n \in 1 .. Len(a.saved) : a.saved[n] = TRUE

\* Context i, at point a, may do what is in m: the contexts beneath it hold no
\* lock that it may take nor, where it can be interrupted, one that an
\* interrupt handler takes.
Placed(st, i, m, a) ==
  /\ Enables(a) => \A j \in 1 .. (i - 1) : st[j].held \cap IrqLocks = {}
  /\ \A j \in 1 .. (i - 1) : st[j].held \cap LocksOf(m) = {}
  /\ "sti" \in m => i = 1
  /\ "iret" \in m => i > 1 /\ st[i - 1].on = TRUE
  /\ "report" \in m => i > 1

\* The code that context c still has to run, which leaves a task clean.
Running(i, m, a, c) ==
  /\ a.saved = c.saved
  /\ \E z : Runs(m, c.code, a, z) /\ (i = 1 => z = Clean)

Holds(st, n) == UNION {st[i].held : i \in 1 .. n}

LocksInvAt(stk, lk, fl, st, may) ==
  /\ stk \in Seq(Contexts)
  /\ Len(stk) >= 1
  /\ \A i \in 1 .. Len(stk) : Placed(st, i, may[i], st[i]) /\ Running(i, may[i], st[i], stk[i])
  /\ fl = st[Len(stk)].on
  /\ lk = Holds(st, Len(stk))

LocksInv == \E st, may : LocksInvAt(stack, locked, flag, st, may)

LEMMA RunsSafe ==
  ASSUME NEW may, NEW code, NEW a, NEW z, Runs(may, code, a, z)
  PROVE  Safe(may, a)
BY RunsEnd, RunsStep

\* A stack cut off or kept below e, with a context placed at e.
Restacked(stk, st, stk2, e, m, a) ==
  /\ stk2 \in Seq(Contexts) /\ Len(stk2) = e
  /\ e >= 1 /\ e <= Len(stk) + 1
  /\ \A i \in 1 .. (e - 1) : stk2[i] = stk[i]
  /\ Placed(st, e, m, a)
  /\ Running(e, m, a, stk2[e])

LEMMA Restack ==
  ASSUME NEW stk, NEW lk, NEW fl, NEW st, NEW may, LocksInvAt(stk, lk, fl, st, may),
         NEW stk2, NEW e \in Nat, NEW m, NEW a, Restacked(stk, st, stk2, e, m, a)
  PROVE  \E st2, may2 :
           LocksInvAt(stk2, Holds(st, e - 1) \cup a.held, a.on, st2, may2)
<1> DEFINE st2 == [i \in 1 .. e |-> IF i = e THEN a ELSE st[i]]
           may2 == [i \in 1 .. e |-> IF i = e THEN m ELSE may[i]]
<1>1. Len(stk2) = e /\ stk2 \in Seq(Contexts) /\ e >= 1
  BY DEF Restacked
<1>2. st2[e] = a /\ may2[e] = m /\ e \in 1 .. e
  BY <1>1
<1>3. \A i \in 1 .. (e - 1) : st2[i] = st[i] /\ may2[i] = may[i]
  OBVIOUS
<1>. HIDE DEF st2, may2
<1>4. ASSUME NEW i \in 1 .. e
      PROVE  Placed(st2, i, may2[i], st2[i]) /\ Running(i, may2[i], st2[i], stk2[i])
  <2>1. \A k, n : Placed(st, i, k, n) => Placed(st2, i, k, n)
    BY <1>3 DEF Placed
  <2>2. CASE i = e
    BY <1>2, <2>1, <2>2 DEF Restacked
  <2>3. CASE i # e
    <3>1. i \in 1 .. (e - 1) /\ i \in 1 .. Len(stk)
      BY <2>3, <1>1 DEF Restacked, LocksInvAt
    <3>2. Placed(st, i, may[i], st[i]) /\ Running(i, may[i], st[i], stk[i]) /\ stk2[i] = stk[i]
      BY <3>1 DEF LocksInvAt, Restacked
    <3>. QED BY <3>1, <3>2, <1>3, <2>1
  <2>. QED BY <2>2, <2>3
<1>5. Holds(st2, e) = Holds(st, e - 1) \cup a.held
  <2>1. 1 .. e = (1 .. (e - 1)) \cup {e}
    BY <1>1
  <2>. QED BY <2>1, <1>2, <1>3 DEF Holds
<1>6. LocksInvAt(stk2, Holds(st, e - 1) \cup a.held, a.on, st2, may2)
  BY <1>1, <1>2, <1>4, <1>5 DEF LocksInvAt
<1>. QED BY <1>6

\* The running context's place, with what it holds apart from the others.
TopAt(stk, lk, fl, st, d, m, a, z) ==
  /\ d \in Nat /\ d >= 1 /\ d = Len(stk)
  /\ stk \in Seq(Contexts) /\ stk[d] \in Contexts
  /\ Placed(st, d, m, a)
  /\ a = st[d] /\ a.saved = stk[d].saved /\ fl = a.on
  /\ Safe(m, a)
  /\ Runs(m, stk[d].code, a, z)
  /\ d = 1 => z = Clean
  /\ lk = Holds(st, d - 1) \cup a.held
  /\ Holds(st, d - 1) \cap LocksOf(m) = {}

LEMMA TopPoint ==
  ASSUME NEW stk, NEW lk, NEW fl, NEW st, NEW may, LocksInvAt(stk, lk, fl, st, may)
  PROVE  \E z : TopAt(stk, lk, fl, st, Len(stk), may[Len(stk)], st[Len(stk)], z)
<1> DEFINE d == Len(stk)
<1>1. d \in Nat /\ d >= 1 /\ stk \in Seq(Contexts)
  BY DEF LocksInvAt
<1>2. d \in 1 .. d /\ stk[d] \in Contexts
  BY <1>1
<1>3. Placed(st, d, may[d], st[d]) /\ Running(d, may[d], st[d], stk[d])
  BY <1>2 DEF LocksInvAt
<1>4. fl = st[d].on /\ lk = Holds(st, d)
  BY DEF LocksInvAt
<1>. HIDE DEF d
<1>5. PICK z : Runs(may[d], stk[d].code, st[d], z) /\ (d = 1 => z = Clean)
  BY <1>3 DEF Running
<1>6. Safe(may[d], st[d])
  BY <1>5, RunsSafe
<1>7. Holds(st, d) = Holds(st, d - 1) \cup st[d].held
  <2>1. 1 .. d = (1 .. (d - 1)) \cup {d}
    BY <1>1
  <2>. QED BY <2>1 DEF Holds
<1>8. Holds(st, d - 1) \cap LocksOf(may[d]) = {}
  BY <1>3 DEF Placed, Holds
<1>9. st[d].saved = stk[d].saved
  BY <1>3 DEF Running
<1>10. TopAt(stk, lk, fl, st, d, may[d], st[d], z)
  BY <1>1, <1>2, <1>3, <1>4, <1>5, <1>6, <1>7, <1>8, <1>9 DEF TopAt, d
<1>. QED BY <1>10 DEF d
\* Only sti turns interrupts on that were off and not to be restored.
LEMMA DoesEnables ==
  ASSUME NEW m, NEW ins, NEW a, NEW b, Safe(m, a), Does(m, ins, a, b), Enables(b), "sti" \notin m
  PROVE  Enables(a)
<1>1. a.saved \in Seq(BOOLEAN) /\ a.on \in BOOLEAN
  BY DEF Safe
<1>2. CASE b.on = a.on /\ b.saved = a.saved
  BY <1>2 DEF Enables
<1>3. CASE b = Point(a.held, <<a.on>> \o a.saved, FALSE)
  <2>1. b.saved = <<a.on>> \o a.saved /\ b.on = FALSE
    BY <1>3 DEF Point
  <2>2. /\ Len(<<a.on>> \o a.saved) = Len(a.saved) + 1
        /\ (<<a.on>> \o a.saved)[1] = a.on
        /\ \A n \in 2 .. (Len(a.saved) + 1) : (<<a.on>> \o a.saved)[n] = a.saved[n - 1]
    BY <1>1
  <2>3. PICK n \in 1 .. (Len(a.saved) + 1) : b.saved[n] = TRUE
    BY <2>1, <2>2 DEF Enables
  <2>4. CASE n = 1
    BY <2>1, <2>2, <2>3, <2>4 DEF Enables
  <2>5. CASE n # 1
    <3>1. n - 1 \in 1 .. Len(a.saved) /\ a.saved[n - 1] = TRUE
      BY <1>1, <2>1, <2>2, <2>3, <2>5
    <3>. QED BY <3>1 DEF Enables
  <2>. QED BY <2>4, <2>5
<1>4. CASE a.saved # << >> /\ b = Point(a.held, Tail(a.saved), Head(a.saved))
  <2>1. b.saved = Tail(a.saved) /\ b.on = Head(a.saved)
    BY <1>4 DEF Point
  <2>2. /\ Len(a.saved) \in Nat /\ Len(a.saved) >= 1
        /\ Len(Tail(a.saved)) = Len(a.saved) - 1 /\ Head(a.saved) = a.saved[1]
        /\ \A n \in 1 .. (Len(a.saved) - 1) : Tail(a.saved)[n] = a.saved[n + 1]
    BY <1>1, <1>4
  <2>3. CASE b.on = TRUE
    BY <2>1, <2>2, <2>3 DEF Enables
  <2>4. CASE b.on # TRUE
    <3>1. PICK n \in 1 .. (Len(a.saved) - 1) : b.saved[n] = TRUE
      BY <2>1, <2>2, <2>4 DEF Enables
    <3>2. n + 1 \in 1 .. Len(a.saved) /\ a.saved[n + 1] = TRUE
      BY <2>1, <2>2, <3>1
    <3>. QED BY <3>2 DEF Enables
  <2>. QED BY <2>3, <2>4
<1>5. CASE b = Point(a.held, a.saved, FALSE)
  BY <1>5 DEF Point, Enables
<1>6. CASE \E h : b = Point(h, a.saved, a.on)
  BY <1>6, <1>2 DEF Point
<1>7. CASE b = a
  BY <1>7
<1>. QED BY <1>3, <1>4, <1>5, <1>6, <1>7 DEF Does

\* The running context does its next instruction.
Advances(stk, st, d, m, a, b) ==
  /\ Head(stk[d].code) \in Instructions
  /\ Safe(m, b)
  /\ Does(m, Head(stk[d].code), a, b)
  /\ Restacked(stk, st, [stk EXCEPT ![d] = [code |-> Tail(stk[d].code), saved |-> b.saved]], d, m, b)

LEMMA Replaced ==
  ASSUME NEW stk \in Seq(Contexts), NEW d \in 1 .. Len(stk), NEW c \in Contexts
  PROVE  /\ [stk EXCEPT ![d] = c] \in Seq(Contexts)
         /\ Len([stk EXCEPT ![d] = c]) = Len(stk)
         /\ [stk EXCEPT ![d] = c][d] = c
         /\ \A i \in 1 .. (d - 1) : [stk EXCEPT ![d] = c][i] = stk[i]
OBVIOUS

LEMMA Advancing ==
  ASSUME NEW stk, NEW lk, NEW fl, NEW st, NEW d, NEW m, NEW a, NEW z,
         TopAt(stk, lk, fl, st, d, m, a, z), stk[d].code # << >>
  PROVE  \E b : Advances(stk, st, d, m, a, b)
<1> DEFINE code == stk[d].code
<1>1. Runs(m, code, a, z) /\ Safe(m, a) /\ Placed(st, d, m, a) /\ (d = 1 => z = Clean)
  BY DEF TopAt
<1>2. PICK b : Safe(m, b) /\ Does(m, Head(code), a, b) /\ Runs(m, Tail(code), b, z)
  BY <1>1, RunsStep
<1>3. Head(code) \in Instructions
  BY <1>1, RunsStep
<1>4. Tail(code) \in Seq(Instructions) /\ b.saved \in Seq(BOOLEAN)
  BY <1>2 DEF Runs, Safe
<1>5. Placed(st, d, m, b)
  <2>1. CASE "sti" \in m
    BY <1>1, <2>1 DEF Placed
  <2>2. CASE "sti" \notin m
    <3>1. Enables(b) => Enables(a)
      BY <1>1, <1>2, <2>2, DoesEnables
    <3>. QED BY <1>1, <3>1 DEF Placed
  <2>. QED BY <2>1, <2>2
<1> DEFINE c == [code |-> Tail(code), saved |-> b.saved]
           stk2 == [stk EXCEPT ![d] = c]
<1>6. c \in Contexts /\ c.code = Tail(code) /\ c.saved = b.saved
  BY <1>4 DEF Contexts
<1>. HIDE DEF c, code
<1>7. Running(d, m, b, c)
  BY <1>1, <1>2, <1>6 DEF Running
<1>8. /\ stk \in Seq(Contexts) /\ d \in 1 .. Len(stk) /\ d = Len(stk) /\ d \in Nat /\ d >= 1
  BY DEF TopAt
<1>9. /\ stk2 \in Seq(Contexts) /\ Len(stk2) = Len(stk) /\ stk2[d] = c
      /\ \A i \in 1 .. (d - 1) : stk2[i] = stk[i]
  BY <1>6, <1>8, Replaced
<1>. HIDE DEF stk2
<1>10. Restacked(stk, st, stk2, d, m, b)
  BY <1>5, <1>7, <1>8, <1>9 DEF Restacked
<1>. QED BY <1>2, <1>3, <1>10 DEF Advances, stk2, c, code

\* The running context reaches point b, the locks and the flag follow it.
LEMMA AdvanceKeeps ==
  ASSUME NEW stk, NEW lk, NEW fl, NEW st, NEW may, LocksInvAt(stk, lk, fl, st, may),
         NEW d \in Nat, NEW m, NEW a, NEW b, Advances(stk, st, d, m, a, b),
         NEW stk2, stk2 = [stk EXCEPT ![d] = [code |-> Tail(stk[d].code), saved |-> b.saved]],
         NEW lk2, lk2 = Holds(st, d - 1) \cup b.held,
         NEW fl2, fl2 = b.on
  PROVE  \E st2, may2 : LocksInvAt(stk2, lk2, fl2, st2, may2)
<1>1. Restacked(stk, st, stk2, d, m, b)
  BY DEF Advances
<1>. QED BY <1>1, Restack
(***************************************************************************)
(* The steps                                                               *)
(***************************************************************************)

Here(st, may, m, a, z) ==
  /\ LocksInvAt(stack, locked, flag, st, may)
  /\ TopAt(stack, locked, flag, st, depth, m, a, z)

LEMMA IsHere ==
  ASSUME LocksInv
  PROVE  \E st, may, m, a, z : Here(st, may, m, a, z)
<1>1. PICK st, may : LocksInvAt(stack, locked, flag, st, may)
  BY DEF LocksInv
<1>2. PICK z : TopAt(stack, locked, flag, st, depth, may[depth], st[depth], z)
  BY <1>1, TopPoint DEF depth
<1>. QED BY <1>1, <1>2 DEF Here

LEMMA HereIs ==
  ASSUME NEW st, NEW may, NEW m, NEW a, NEW z, Here(st, may, m, a, z)
  PROVE  /\ depth \in Nat /\ depth >= 1 /\ depth = Len(stack) /\ depth \in 1 .. Len(stack)
         /\ stack \in Seq(Contexts)
         /\ top \in Contexts
         /\ a.saved = top.saved /\ flag = a.on
         /\ a.on \in BOOLEAN /\ a.saved \in Seq(BOOLEAN) /\ a = Point(a.held, a.saved, a.on)
         /\ locked = Holds(st, depth - 1) \cup a.held
         /\ Holds(st, depth - 1) \cap LocksOf(m) = {}
         /\ a.held \subseteq m
BY DEF Here, TopAt, Safe, top

LEMMA HereDepth ==
  ASSUME NEW st, NEW may, NEW m, NEW a, NEW z, Here(st, may, m, a, z)
  PROVE  /\ depth \in Nat /\ depth >= 1 /\ depth = Len(stack) /\ depth \in 1 .. Len(stack)
         /\ stack \in Seq(Contexts)
BY HereIs

LEMMA HereSaved ==
  ASSUME NEW st, NEW may, NEW m, NEW a, NEW z, Here(st, may, m, a, z)
  PROVE  a.saved = top.saved /\ a.saved \in Seq(BOOLEAN) /\ flag = a.on
BY HereIs

LEMMA HereLocks ==
  ASSUME NEW st, NEW may, NEW m, NEW a, NEW z, Here(st, may, m, a, z)
  PROVE  locked = Holds(st, depth - 1) \cup a.held
BY HereIs

\* A lock about to be taken is free, and one about to be released is held by no
\* context beneath.
LEMMA TargetIsFree ==
  ASSUME NEW st, NEW may, NEW m, NEW a, NEW z, Here(st, may, m, a, z),
         NEW b, Advances(stack, st, depth, m, a, b)
  PROVE  /\ At("lock") \/ At("try") => Target \notin locked
         /\ At("unlock") => Target \notin Holds(st, depth - 1)
<1>1. /\ locked = Holds(st, depth - 1) \cup a.held
      /\ Holds(st, depth - 1) \cap LocksOf(m) = {}
      /\ a.held \subseteq m
  BY HereIs
<1>2. /\ Head(top.code) \in Instructions
      /\ Does(m, Head(top.code), a, b)
  BY DEF Advances, top
<1>3. Target \notin {"sti", "iret", "report"}
  BY <1>2 DEF Instructions, Target, Locks, IrqLocks, LogLocks
<1>4. ASSUME At("lock") \/ At("try") PROVE Target \in m \ a.held
  BY <1>2, <1>4 DEF Does, At, Target
<1>5. ASSUME At("unlock") PROVE Target \in a.held
  BY <1>2, <1>5 DEF Does, At, Target
<1>. QED BY <1>1, <1>3, <1>4, <1>5 DEF LocksOf

LEMMA HereAdvances ==
  ASSUME NEW st, NEW may, NEW m, NEW a, NEW z, Here(st, may, m, a, z), top.code # << >>
  PROVE  \E b : Advances(stack, st, depth, m, a, b)
BY Advancing DEF Here, top

\* What the actions need of the next point.
LEMMA NextPoint ==
  ASSUME NEW st, NEW may, NEW m, NEW a, NEW z, Here(st, may, m, a, z),
         NEW b, Advances(stack, st, depth, m, a, b),
         stack' = [stack EXCEPT ![depth] = [code |-> Tail(top.code), saved |-> b.saved]],
         locked' = Holds(st, depth - 1) \cup b.held,
         flag' = b.on
  PROVE  LocksInv'
<1>1. depth \in Nat /\ LocksInvAt(stack, locked, flag, st, may)
  BY HereIs DEF Here
<1>2. \E st2, may2 : LocksInvAt(stack', locked', flag', st2, may2)
  BY <1>1, AdvanceKeeps DEF top
<1>. QED BY <1>2 DEF LocksInv

LEMMA Continues ==
  ASSUME stack \in Seq(Contexts), depth \in 1 .. Len(stack), NEW c, Continue(c)
  PROVE  stack' = [stack EXCEPT ![depth] = [code |-> c, saved |-> top.saved]]
<1>1. stack[depth] \in Contexts
  OBVIOUS
<1>2. [stack[depth] EXCEPT !.code = c] = [code |-> c, saved |-> top.saved]
  BY <1>1 DEF Contexts, top
<1>3. stack' = [stack EXCEPT ![depth] = [stack[depth] EXCEPT !.code = c]]
  BY DEF Continue
<1>. QED BY <1>2, <1>3

\* Actions that leave the saved flags alone.
LEMMA AdvancePoint ==
  ASSUME NEW st, NEW may, NEW m, NEW a, NEW z, Here(st, may, m, a, z),
         NEW b, Advances(stack, st, depth, m, a, b), Advance, b.saved = a.saved,
         locked' = Holds(st, depth - 1) \cup b.held,
         flag' = b.on
  PROVE  LocksInv'
<1>1. depth \in 1 .. Len(stack) /\ stack \in Seq(Contexts) /\ a.saved = top.saved
  BY HereIs
<1>2. stack' = [stack EXCEPT ![depth] = [code |-> Tail(top.code), saved |-> top.saved]]
  BY <1>1, Continues DEF Advance
<1>3. stack' = [stack EXCEPT ![depth] = [code |-> Tail(top.code), saved |-> b.saved]]
  BY <1>1, <1>2
<1>. QED BY <1>3, NextPoint

LEMMA LockKeeps ==
  ASSUME LocksInv, Lock \/ TryLock
  PROVE  LocksInv'
<1>1. PICK st, may, m, a, z : Here(st, may, m, a, z)
  BY IsHere
<1>2. top.code # << >> /\ (At("lock") \/ At("try"))
  BY DEF Lock, TryLock, At
<1>3. PICK b : Advances(stack, st, depth, m, a, b)
  BY <1>1, <1>2, HereAdvances
<1>4. Target \notin locked
  BY <1>1, <1>2, <1>3, TargetIsFree
<1>5. locked' = locked \cup {Target} /\ Advance /\ flag' = flag
  BY <1>4 DEF Lock, TryLock
<1>6. b = Point(a.held \cup {Target}, a.saved, a.on)
  BY <1>2, <1>3 DEF Advances, Does, At, Target, top
<1>7. b.held = a.held \cup {Target} /\ b.saved = a.saved /\ b.on = a.on
  BY <1>6 DEF Point
<1>8. locked' = Holds(st, depth - 1) \cup b.held /\ flag' = b.on
  BY <1>1, <1>5, <1>7, HereIs
<1>. QED BY <1>1, <1>3, <1>5, <1>7, <1>8, AdvancePoint

LEMMA UnlockKeeps ==
  ASSUME LocksInv, Unlock
  PROVE  LocksInv'
<1>1. PICK st, may, m, a, z : Here(st, may, m, a, z)
  BY IsHere
<1>2. top.code # << >> /\ At("unlock") /\ locked' = locked \ {Target} /\ Advance /\ flag' = flag
  BY DEF Unlock, At
<1>3. PICK b : Advances(stack, st, depth, m, a, b)
  BY <1>1, <1>2, HereAdvances
<1>4. Target \notin Holds(st, depth - 1)
  BY <1>1, <1>2, <1>3, TargetIsFree
<1>5. b = Point(a.held \ {Target}, a.saved, a.on)
  BY <1>2, <1>3 DEF Advances, Does, At, Target, top
<1>6. b.held = a.held \ {Target} /\ b.saved = a.saved /\ b.on = a.on
  BY <1>5 DEF Point
<1>7. locked' = Holds(st, depth - 1) \cup b.held /\ flag' = b.on
  BY <1>1, <1>2, <1>4, <1>6, HereIs
<1>. QED BY <1>1, <1>2, <1>3, <1>6, <1>7, AdvancePoint

LEMMA FlagKeeps ==
  ASSUME LocksInv, Cli \/ Restore \/ SetFlag
  PROVE  LocksInv'
<1>1. PICK st, may, m, a, z : Here(st, may, m, a, z)
  BY IsHere
<1>2. top.code # << >> /\ locked' = locked
  BY DEF Cli, Restore, SetFlag, At
<1>3. PICK b : Advances(stack, st, depth, m, a, b)
  BY <1>1, <1>2, HereAdvances
<1>4. Does(m, Head(top.code), a, b)
  BY <1>3 DEF Advances, top
<1>5. a.saved = top.saved /\ flag = a.on /\ locked = Holds(st, depth - 1) \cup a.held
  BY <1>1, HereIs
<1>6. CASE Cli
  <2>1. b = Point(a.held, <<a.on>> \o a.saved, FALSE)
    BY <1>4, <1>6 DEF Does, Cli, At
  <2>2. b.held = a.held /\ b.saved = <<flag>> \o top.saved /\ b.on = FALSE
    BY <1>5, <2>1 DEF Point
  <2>3. stack' = [stack EXCEPT ![depth] = [code |-> Tail(top.code), saved |-> b.saved]]
    BY <1>6, <2>2 DEF Cli, top
  <2>4. flag' = b.on /\ locked' = Holds(st, depth - 1) \cup b.held
    BY <1>2, <1>5, <1>6, <2>2 DEF Cli
  <2>. QED BY <1>1, <1>3, <2>3, <2>4, NextPoint
<1>7. CASE Restore
  <2>1. b = Point(a.held, Tail(a.saved), Head(a.saved))
    BY <1>4, <1>7 DEF Does, Restore, At
  <2>2. b.held = a.held /\ b.saved = Tail(top.saved) /\ b.on = Head(top.saved)
    BY <1>5, <2>1 DEF Point
  <2>3. stack' = [stack EXCEPT ![depth] = [code |-> Tail(top.code), saved |-> b.saved]]
    BY <1>7, <2>2 DEF Restore, top
  <2>4. flag' = b.on /\ locked' = Holds(st, depth - 1) \cup b.held
    BY <1>2, <1>5, <1>7, <2>2 DEF Restore
  <2>. QED BY <1>1, <1>3, <2>3, <2>4, NextPoint
<1>8. CASE SetFlag
  <2>2. b.held = a.held /\ b.saved = a.saved /\ flag' = b.on
    <3>1. CASE At("sti")
      <4>1. b = Point(a.held, a.saved, TRUE)
        BY <1>4, <3>1 DEF Does, At
      <4>2. flag' = TRUE
        BY <1>8, <3>1 DEF SetFlag
      <4>. QED BY <4>1, <4>2 DEF Point
    <3>2. CASE ~At("sti")
      <4>1. At("disable")
        BY <1>8, <3>2 DEF SetFlag
      <4>2. b = Point(a.held, a.saved, FALSE)
        BY <1>4, <4>1 DEF Does, At
      <4>3. flag' = FALSE
        BY <1>8, <3>2 DEF SetFlag, At
      <4>. QED BY <4>2, <4>3 DEF Point
    <3>. QED BY <3>1, <3>2
  <2>3. Advance /\ locked' = Holds(st, depth - 1) \cup b.held
    BY <1>2, <1>5, <1>8, <2>2 DEF SetFlag
  <2>. QED BY <1>1, <1>3, <2>2, <2>3, AdvancePoint
<1>. QED BY <1>6, <1>7, <1>8
\* While interrupts are on, no context holds a lock of the interrupt handlers.
LEMMA Interruptible ==
  ASSUME NEW st, NEW may, NEW m, NEW a, NEW z, Here(st, may, m, a, z), flag = TRUE
  PROVE  \A j \in 1 .. depth : st[j].held \cap IrqLocks = {}
<1>1. depth \in Nat /\ a = st[depth] /\ a.on = TRUE /\ Placed(st, depth, m, a) /\ Safe(m, a)
  BY HereIs DEF Here, TopAt
<1>2. Enables(a)
  BY <1>1 DEF Enables
<1>3. \A j \in 1 .. (depth - 1) : st[j].held \cap IrqLocks = {}
  BY <1>1, <1>2 DEF Placed
<1>4. st[depth].held \cap IrqLocks = {}
  BY <1>1 DEF Safe
<1>. QED BY <1>1, <1>3, <1>4

\* A new context on top of the running one.
LEMMA PushKeeps ==
  ASSUME NEW st, NEW may, NEW m, NEW a, NEW z, Here(st, may, m, a, z),
         NEW code, NEW n, NEW on \in BOOLEAN, NEW y, Runs(n, code, Start(on), y),
         Placed(st, depth + 1, n, Start(on)),
         stack' = Append(stack, Context(code)), flag' = on, locked' = locked
  PROVE  LocksInv'
<1> DEFINE d == depth
           c == Context(code)
           stk2 == Append(stack, c)
           b == Start(on)
<1>1. d \in Nat /\ d >= 1 /\ d = Len(stack) /\ stack \in Seq(Contexts)
  BY HereIs
<1>2. b.held = {} /\ b.saved = << >> /\ b.on = on
  BY StartIsSafe
<1>3. c \in Contexts /\ c.code = code /\ c.saved = << >>
  BY DEF Runs, Context, Contexts
<1>4. Running(d + 1, n, b, c)
  <2>1. Runs(n, code, b, y)
    OBVIOUS
  <2>. HIDE DEF b, c, d
  <2>2. d + 1 # 1
    BY <1>1
  <2>. QED BY <1>2, <1>3, <2>1, <2>2 DEF Running
<1>5. LocksInvAt(stack, locked, flag, st, may) /\ locked = Holds(st, Len(stack))
  BY DEF Here, LocksInvAt
<1>. HIDE DEF d, c
<1>6. /\ stk2 \in Seq(Contexts) /\ Len(stk2) = d + 1 /\ stk2[d + 1] = c
      /\ \A i \in 1 .. d : stk2[i] = stack[i]
  BY <1>1, <1>3
<1>7. Placed(st, d + 1, n, b)
  BY DEF d
<1>. HIDE DEF stk2, b
<1>8. (d + 1) - 1 = d /\ d + 1 \in Nat /\ d + 1 >= 1 /\ d + 1 <= Len(stack) + 1
  BY <1>1
<1>9. Restacked(stack, st, stk2, d + 1, n, b)
  BY <1>4, <1>6, <1>7, <1>8 DEF Restacked
<1>10. \E st2, may2 : LocksInvAt(stk2, Holds(st, (d + 1) - 1) \cup b.held, b.on, st2, may2)
  BY <1>5, <1>8, <1>9, Restack
<1>11. Holds(st, (d + 1) - 1) \cup b.held = locked' /\ b.on = flag' /\ stk2 = stack'
  BY <1>1, <1>2, <1>5, <1>8 DEF stk2, c
<1>. QED BY <1>10, <1>11 DEF LocksInv

LEMMA PanicKeeps ==
  ASSUME NEW st, NEW may, NEW m, NEW a, NEW z, Here(st, may, m, a, z),
         stack' = StartPanic, flag' = flag \/ flag' = FALSE, locked' = locked
  PROVE  LocksInv'
<1>1. PICK on \in BOOLEAN : flag' = on /\ (on = TRUE => flag = TRUE)
  BY HereIs
<1>2. Runs(PanicMay, Do("report"), Start(on), Start(on))
  BY PanicRuns
<1>3. depth \in Nat /\ depth >= 1
  BY HereIs
<1>4. Placed(st, depth + 1, PanicMay, Start(on))
  <2>1. Start(on).on = on /\ Start(on).saved = << >>
    BY StartIsSafe
  <2>2. Enables(Start(on)) => flag = TRUE
    BY <1>1, <2>1 DEF Enables
  <2>3. (depth + 1) - 1 = depth
    BY <1>3
  <2>4. Enables(Start(on)) => \A j \in 1 .. depth : st[j].held \cap IrqLocks = {}
    BY <2>2, Interruptible
  <2>5. LocksOf(PanicMay) = {} /\ "sti" \notin PanicMay /\ "iret" \notin PanicMay
    BY DEF LocksOf, PanicMay
  <2>. QED BY <1>3, <2>3, <2>4, <2>5 DEF Placed
<1>. QED BY <1>1, <1>2, <1>4, PushKeeps DEF StartPanic

LEMMA AssertKeeps ==
  ASSUME LocksInv, Assert \/ HandlerPanics \/ Exception
  PROVE  LocksInv'
<1>1. PICK st, may, m, a, z : Here(st, may, m, a, z)
  BY IsHere
<1>2. CASE stack' = StartPanic
  <2>1. locked' = locked /\ (flag' = flag \/ flag' = FALSE)
    BY DEF Assert, HandlerPanics, Exception
  <2>. QED BY <1>1, <1>2, <2>1, PanicKeeps
<1>3. CASE At("assert") /\ Advance /\ locked' = locked /\ flag' = flag
  <2>1. PICK b : Advances(stack, st, depth, m, a, b)
    BY <1>1, <1>3, HereAdvances DEF At
  <2>2. b = a
    BY <1>3, <2>1 DEF Advances, Does, At, top
  <2>3. locked' = Holds(st, depth - 1) \cup b.held /\ flag' = b.on
    <3>1. locked = Holds(st, depth - 1) \cup a.held /\ flag = a.on
      BY <1>1, HereIs
    <3>. QED BY <1>3, <2>2, <3>1
  <2>. QED BY <1>1, <1>3, <2>1, <2>2, <2>3, AdvancePoint
<1>. QED BY <1>2, <1>3 DEF Assert, HandlerPanics, Exception

LEMMA InterruptKeeps ==
  ASSUME LocksInv, NEW line7 \in BOOLEAN, NEW spurious \in BOOLEAN, NEW body \in HandlerBodies,
         Interrupt(line7, spurious, body)
  PROVE  LocksInv'
<1> DEFINE code == HandleIrq(line7, spurious, body)
<1>1. PICK st, may, m, a, z : Here(st, may, m, a, z)
  BY IsHere
<1>2. Runs(IrqMay, code, Start(FALSE), Start(FALSE))
  BY HandleIrqRuns
<1>3. flag /\ flag' = FALSE /\ locked' = locked /\ stack' = Append(stack, Context(code))
  BY DEF Interrupt
<1>. HIDE DEF code
<1>4. flag = TRUE /\ depth \in Nat /\ depth >= 1 /\ st[depth].on = TRUE
  <2>1. flag \in BOOLEAN /\ depth \in Nat /\ depth >= 1 /\ st[depth].on = flag
    BY <1>1, HereIs DEF Here, TopAt
  <2>. QED BY <1>3, <2>1
<1>5. \A j \in 1 .. depth : st[j].held \cap IrqLocks = {}
  BY <1>1, <1>4, Interruptible
<1>6. Placed(st, depth + 1, IrqMay, Start(FALSE))
  <2>1. (depth + 1) - 1 = depth /\ depth + 1 > 1
    BY <1>4
  <2>2. LocksOf(IrqMay) = IrqLocks /\ "sti" \notin IrqMay
    BY DEF LocksOf, IrqMay, IrqLocks
  <2>. QED BY <1>4, <1>5, <2>1, <2>2 DEF Placed
<1>. QED BY <1>1, <1>2, <1>3, <1>6, PushKeeps

\* New code for the running context.
LEMMA ContinueKeeps ==
  ASSUME NEW st, NEW may, NEW m, NEW a, NEW z, Here(st, may, m, a, z),
         NEW code, NEW n, NEW y, Runs(n, code, a, y), depth = 1 => y = Clean,
         Placed(st, depth, n, a),
         Continue(code), flag' = flag, locked' = locked
  PROVE  LocksInv'
<1>a. /\ depth \in Nat /\ depth >= 1 /\ depth = Len(stack) /\ depth \in 1 .. Len(stack)
      /\ stack \in Seq(Contexts)
  BY HereDepth
<1>b. a.saved = top.saved /\ a.saved \in Seq(BOOLEAN) /\ flag = a.on
  BY HereSaved
<1>c. locked = Holds(st, depth - 1) \cup a.held
  BY HereLocks
<1> DEFINE d == depth
           c == [code |-> code, saved |-> top.saved]
           stk2 == [stack EXCEPT ![d] = c]
<1>1. /\ d \in Nat /\ d >= 1 /\ d = Len(stack) /\ d \in 1 .. Len(stack) /\ stack \in Seq(Contexts)
      /\ a.saved = top.saved /\ a.saved \in Seq(BOOLEAN) /\ flag = a.on
      /\ locked = Holds(st, d - 1) \cup a.held
  BY <1>a, <1>b, <1>c
<1>2. stack' = stk2
  BY <1>1, Continues
<1>3. c \in Contexts /\ c.code = code /\ c.saved = a.saved
  BY <1>1 DEF Runs, Contexts
<1>4. Running(d, n, a, c)
  BY <1>3 DEF Running
<1>5. LocksInvAt(stack, locked, flag, st, may) /\ Placed(st, d, n, a)
  BY DEF Here
<1>. HIDE DEF d, c
<1>6. /\ stk2 \in Seq(Contexts) /\ Len(stk2) = Len(stack) /\ stk2[d] = c
      /\ \A i \in 1 .. (d - 1) : stk2[i] = stack[i]
  <2>1. stack \in Seq(Contexts) /\ d \in 1 .. Len(stack) /\ c \in Contexts
    BY <1>1, <1>3
  <2>. QED BY <2>1, Replaced
<1>. HIDE DEF stk2
<1>7. Restacked(stack, st, stk2, d, n, a)
  <2>0. d \in Nat /\ d >= 1 /\ d = Len(stack) /\ Len(stk2) = Len(stack)
    BY <1>1, <1>6
  <2>1. d <= Len(stack) + 1 /\ Len(stk2) = d /\ d >= 1
    BY <2>0
  <2>2. Running(d, n, a, stk2[d])
    BY <1>4, <1>6
  <2>. QED BY <1>5, <1>6, <2>1, <2>2 DEF Restacked
<1>8. \E st2, may2 : LocksInvAt(stk2, Holds(st, d - 1) \cup a.held, a.on, st2, may2)
  BY <1>1, <1>5, <1>7, Restack
<1>. QED BY <1>1, <1>2, <1>8 DEF LocksInv

\* The panic handler logs only when no context holds a lock of the logger.
LEMMA PanicHandlerKeeps ==
  ASSUME LocksInv, PanicHandler
  PROVE  LocksInv'
<1>1. PICK st, may, m, a, z : Here(st, may, m, a, z)
  BY IsHere
<1>2. /\ At("report") /\ top.code # << >> /\ Continue(PanicWrites \o Stop)
      /\ flag' = flag /\ locked' = locked
  BY DEF PanicHandler, At
<1>3. PICK b : Advances(stack, st, depth, m, a, b)
  BY <1>1, <1>2, HereAdvances
<1>4. a.held = {} /\ a.saved = << >> /\ "report" \in m
  BY <1>2, <1>3 DEF Advances, Does, At, top
<1>5. /\ a.on \in BOOLEAN /\ a = Point(a.held, a.saved, a.on) /\ Placed(st, depth, m, a)
      /\ depth \in Nat /\ locked = Holds(st, depth - 1) \cup a.held
  <2>1. Placed(st, depth, m, a)
    BY <1>1 DEF Here, TopAt
  <2>2. /\ a.on \in BOOLEAN /\ a = Point(a.held, a.saved, a.on)
        /\ depth \in Nat /\ locked = Holds(st, depth - 1) \cup a.held
    BY <1>1, HereIs
  <2>. QED BY <2>1, <2>2
<1>6. a = Start(a.on)
  BY <1>4, <1>5 DEF Start
<1>7. depth > 1 /\ depth # 1
  BY <1>4, <1>5 DEF Placed
<1>8. CASE LoggerIsLocked
  <2>1. Runs({}, MayPanic \o Stop, a, Start(FALSE))
    BY <1>5, <1>6, PanicRuns
  <2>2. Placed(st, depth, {}, a)
    BY <1>5 DEF Placed, LocksOf
  <2>3. Continue(MayPanic \o Stop)
    BY <1>2, <1>8 DEF PanicWrites
  <2>. QED BY <1>1, <1>2, <1>7, <2>1, <2>2, <2>3, ContinueKeeps
<1>9. CASE ~LoggerIsLocked
  <2>1. Runs(LogLocks, Log \o Stop, a, Start(FALSE))
    BY <1>5, <1>6, PanicRuns
  <2>2. Placed(st, depth, LogLocks, a)
    <3>1. locked \cap LogLocks = {}
      BY <1>9 DEF LoggerIsLocked, LogLocks
    <3>2. \A j \in 1 .. (depth - 1) : st[j].held \cap LogLocks = {}
      BY <1>5, <3>1 DEF Holds
    <3>3. LocksOf(LogLocks) = LogLocks /\ LogLocks \cap {"sti", "iret", "report"} = {}
      BY DEF LocksOf, LogLocks
    <3>. QED BY <1>5, <3>2, <3>3 DEF Placed
  <2>3. Continue(Log \o Stop)
    BY <1>2, <1>9 DEF PanicWrites
  <2>. QED BY <1>1, <1>2, <1>7, <2>1, <2>2, <2>3, ContinueKeeps
<1>. QED BY <1>8, <1>9

\* A task whose call has returned is at the clean point.
LEMMA IdlePoint ==
  ASSUME NEW st, NEW may, NEW m, NEW a, NEW z, Here(st, may, m, a, z), Idle
  PROVE  a = Clean /\ depth = 1
<1>1. depth = 1 /\ top.code = << >>
  BY DEF Idle
<1>2. Runs(m, << >>, a, z) /\ z = Clean
  BY <1>1 DEF Here, TopAt, top
<1>. QED BY <1>1, <1>2, RunsEnd

LEMMA CallKeeps ==
  ASSUME LocksInv, NEW code \in Operations, Call(code)
  PROVE  LocksInv'
<1>1. PICK st, may, m, a, z : Here(st, may, m, a, z)
  BY IsHere
<1>2. Idle /\ Continue(code) /\ flag' = flag /\ locked' = locked
  BY DEF Call
<1>3. a = Clean /\ depth = 1
  BY <1>1, <1>2, IdlePoint
<1>4. Runs(BaseMay, code, a, Clean)
  BY <1>3, OperationsRun
<1>5. Placed(st, depth, BaseMay, a)
  <2>1. "iret" \notin BaseMay /\ "report" \notin BaseMay
    BY DEF BaseMay, Locks, IrqLocks, LogLocks
  <2>. QED BY <1>3, <2>1 DEF Placed
<1>. QED BY <1>1, <1>2, <1>4, <1>5, ContinueKeeps

\* Only a context on top of an interruptible one returns with iret.
LEMMA IretKeeps ==
  ASSUME LocksInv, Iret
  PROVE  LocksInv'
<1>1. PICK st, may, m, a, z : Here(st, may, m, a, z)
  BY IsHere
<1>2. /\ At("iret") /\ top.code # << >> /\ flag' = TRUE /\ locked' = locked
      /\ stack' = SubSeq(stack, 1, depth - 1)
  BY DEF Iret, At
<1>3. PICK b : Advances(stack, st, depth, m, a, b)
  BY <1>1, <1>2, HereAdvances
<1>4. a.held = {} /\ "iret" \in m
  BY <1>2, <1>3 DEF Advances, Does, At, top
<1> DEFINE d == depth
           e == depth - 1
           stk2 == SubSeq(stack, 1, e)
<1>5. /\ LocksInvAt(stack, locked, flag, st, may) /\ Placed(st, d, m, a)
      /\ locked = Holds(st, d - 1) \cup a.held
      /\ d \in Nat /\ d = Len(stack) /\ stack \in Seq(Contexts)
  BY <1>1, HereIs DEF Here, TopAt
<1>6. d > 1 /\ st[e].on = TRUE
  BY <1>4, <1>5 DEF Placed
<1>7. e \in Nat /\ e >= 1 /\ e <= Len(stack) + 1 /\ e \in 1 .. Len(stack) /\ e <= Len(stack)
  <2>1. d \in Nat /\ d = Len(stack) /\ d > 1 /\ e = d - 1
    BY <1>5, <1>6
  <2>. HIDE DEF d, e
  <2>. QED BY <2>1
<1>8. Placed(st, e, may[e], st[e]) /\ Running(e, may[e], st[e], stack[e])
  BY <1>5, <1>7 DEF LocksInvAt
<1>9. Holds(st, d - 1) = Holds(st, e - 1) \cup st[e].held
  <2>1. 1 .. e = (1 .. (e - 1)) \cup {e}
    BY <1>7
  <2>. QED BY <2>1 DEF Holds
<1>10. locked' = Holds(st, e - 1) \cup st[e].held
  BY <1>2, <1>4, <1>5, <1>9
<1>. HIDE DEF d, e
<1>11. /\ stk2 \in Seq(Contexts) /\ Len(stk2) = e /\ stk2[e] = stack[e]
       /\ \A i \in 1 .. (e - 1) : stk2[i] = stack[i]
  BY <1>5, <1>7
<1>12. stack' = stk2
  BY <1>2 DEF e
<1>. HIDE DEF stk2
<1>13. Restacked(stack, st, stk2, e, may[e], st[e])
  BY <1>7, <1>8, <1>11 DEF Restacked
<1>14. \E st2, may2 : LocksInvAt(stk2, Holds(st, e - 1) \cup st[e].held, st[e].on, st2, may2)
  BY <1>5, <1>7, <1>13, Restack
<1>. QED BY <1>2, <1>6, <1>10, <1>12, <1>14 DEF LocksInv
LEMMA LocksInvStarts == Init => LocksInv
<1>. SUFFICES ASSUME Init PROVE LocksInv
  OBVIOUS
<1> DEFINE st == [i \in 1 .. 1 |-> Start(FALSE)]
           may == [i \in 1 .. 1 |-> BaseMay]
           c == Context(PicInit)
<1>1. stack = << c >> /\ locked = {} /\ flag = FALSE
  BY DEF Init
<1>2. st[1] = Start(FALSE) /\ may[1] = BaseMay
  OBVIOUS
<1>3. Start(FALSE).held = {} /\ Start(FALSE).saved = << >> /\ Start(FALSE).on = FALSE
  BY StartIsSafe
<1>4. Runs(BaseMay, PicInit, Start(FALSE), Clean)
  BY PicInitRuns
<1>5. c \in Contexts /\ c.code = PicInit /\ c.saved = << >>
  BY <1>4 DEF Runs, Context, Contexts
<1>. HIDE DEF st, may, c
<1>6. stack \in Seq(Contexts) /\ Len(stack) = 1 /\ stack[1] = c
  BY <1>1, <1>5
<1>7. Running(1, may[1], st[1], stack[1])
  BY <1>2, <1>3, <1>4, <1>5, <1>6 DEF Running
<1>8. Placed(st, 1, may[1], st[1])
  <2>1. "iret" \notin BaseMay /\ "report" \notin BaseMay
    BY DEF BaseMay, Locks, IrqLocks, LogLocks
  <2>. QED BY <1>2, <2>1 DEF Placed
<1>9. Holds(st, 1) = {}
  <2>1. \A i \in 1 .. 1 : st[i].held = {}
    <3>1. st[1].held = {}
      BY <1>2, <1>3, Zenon
    <3>2. \A i \in 1 .. 1 : i = 1
      OBVIOUS
    <3>. QED BY <3>1, <3>2, Zenon
  <2>. QED BY <2>1 DEF Holds
<1>10. LocksInvAt(stack, locked, flag, st, may)
  <2>1. \A i \in 1 .. Len(stack) :
          Placed(st, i, may[i], st[i]) /\ Running(i, may[i], st[i], stack[i])
    <3>1. \A i \in 1 .. Len(stack) : i = 1
      BY <1>6
    <3>. QED BY <1>7, <1>8, <3>1
  <2>2. flag = st[Len(stack)].on /\ locked = Holds(st, Len(stack))
    BY <1>1, <1>2, <1>3, <1>6, <1>9
  <2>. QED BY <1>6, <2>1, <2>2 DEF LocksInvAt
<1>. QED BY <1>10 DEF LocksInv

LEMMA LocksInvKept == LocksInv /\ [Next]_vars => LocksInv'
<1>. SUFFICES ASSUME LocksInv, [Next]_vars PROVE LocksInv'
  OBVIOUS
<1>1. CASE Lock \/ TryLock
  BY <1>1, LockKeeps
<1>2. CASE Unlock
  BY <1>2, UnlockKeeps
<1>3. CASE Cli \/ Restore \/ SetFlag
  BY <1>3, FlagKeeps
<1>4. CASE Assert \/ HandlerPanics \/ Exception
  BY <1>4, AssertKeeps
<1>5. CASE PanicHandler
  BY <1>5, PanicHandlerKeeps
<1>6. CASE Iret
  BY <1>6, IretKeeps
<1>7. CASE \E code \in Operations : Call(code)
  BY <1>7, CallKeeps
<1>8. CASE \E line7, spurious \in BOOLEAN, body \in HandlerBodies :
             Interrupt(line7, spurious, body)
  BY <1>8, InterruptKeeps
<1>9. CASE UNCHANGED vars
  <2>1. stack' = stack /\ locked' = locked /\ flag' = flag
    BY <1>9 DEF vars
  <2>. QED BY <2>1 DEF LocksInv
<1>10. CASE HaltLoop
  BY <1>9, <1>10 DEF HaltLoop
<1>. QED
  BY <1>1, <1>2, <1>3, <1>4, <1>5, <1>6, <1>7, <1>8, <1>9, <1>10 DEF Next, Step

(***************************************************************************)
(* The theorems                                                            *)
(***************************************************************************)

\* Every context of the stack is on a run of its code that takes only locks no
\* context beneath it holds.
THEOREM ContextsKeepApart == Spec => []LocksInv
BY LocksInvStarts, LocksInvKept, PTL DEF Spec

LEMMA LocksFree ==
  ASSUME LocksInv, At("lock") \/ At("try")
  PROVE  Target \notin locked
<1>1. PICK st, may, m, a, z : Here(st, may, m, a, z)
  BY IsHere
<1>2. PICK b : Advances(stack, st, depth, m, a, b)
  BY <1>1, HereAdvances DEF At
<1>. QED BY <1>1, <1>2, TargetIsFree

\* No context ever spins on one of the kernel's locks, however deep interrupts,
\* exceptions and panics nest: spin::Mutex::lock always finds the lock free.
THEOREM NoContextSpins == Spec => []NeverSpins
<1>1. LocksInv => NeverSpins
  BY LocksFree DEF NeverSpins
<1>. QED BY <1>1, ContextsKeepApart, PTL

\* The try_lock of the heap's alloc, which is unwrapped, never fails.
TryLockSucceeds == At("try") => Target \notin locked

\* The heap's try_lock().unwrap() never panics: nothing that can interrupt an
\* allocation allocates.
THEOREM HeapLockIsFree == Spec => []TryLockSucceeds
<1>1. LocksInv => TryLockSucceeds
  BY LocksFree DEF TryLockSucceeds
<1>. QED BY <1>1, ContextsKeepApart, PTL

\* A task between two calls holds no lock and runs with interrupts on, whatever
\* interrupts came and returned during the calls.
THEOREM CallsLeaveNoLock == Spec => []IdleIsClean
<1>1. LocksInv => IdleIsClean
  <2>. SUFFICES ASSUME LocksInv, Idle PROVE locked = {} /\ flag = TRUE /\ top.saved = << >>
    BY DEF IdleIsClean
  <2>1. PICK st, may, m, a, z : Here(st, may, m, a, z)
    BY IsHere
  <2>2. a = Clean /\ depth = 1
    BY <2>1, IdlePoint
  <2>3. a.saved = top.saved /\ flag = a.on /\ locked = Holds(st, depth - 1) \cup a.held
    BY <2>1, HereIs
  <2>4. Holds(st, depth - 1) = {}
    BY <2>2 DEF Holds
  <2>. QED BY <2>2, <2>3, <2>4 DEF Clean, Point
<1>. QED BY <1>1, ContextsKeepApart, PTL
==============================================================================
