----------------------------- MODULE DeviceProofs -----------------------------
(***************************************************************************)
(* Proofs about the kernel's two drivers, which have nothing to do with    *)
(* one another.  First Pic, for every set of IRQ lines: the argument       *)
(* follows the in-service bits through handle_irq.  InServiceInv says      *)
(* which lines can be in service at each of its steps, MaskInv that a line *)
(* is unmasked exactly while it has a handler.  Then VgaConsole, for every *)
(* size of the screen, every character set and every text.                 *)
(***************************************************************************)
EXTENDS Pic, VgaConsole, TLAPS

\* Once the controllers are initialised, install_irq_handler keeps the mask and
\* the handler table in step; before, there is no handler.
MaskInv ==
  /\ at \in {"entry", "idt"} => \A i \in Irqs : handlers[i] = "none"
  /\ at \notin {"entry", "idt"} =>
       /\ gates = Irqs
       /\ \A i \in Irqs : i \in imr <=> handlers[i] = "none"

\* Interrupts are off except in a task.
FlagInv == flag => at = "task"

\* Inside handle_irq a line in service is the one being handled, or the cascade
\* line on its behalf; a line not in service is one of the spurious ones; and
\* past is_spurious the line is one with a handler.
InServiceInv ==
  /\ at \in {"task", "pic"} => isr = {}
  /\ at \in {"check", "handler", "acknowledge"} =>
       /\ irq \in Irqs \ {Cascade}
       /\ irq \in Primary => isr \subseteq {irq}
       /\ irq \in Secondary => isr \subseteq {irq, Cascade}
       /\ irq \in isr => irq \notin imr
       /\ irq \notin isr => irq \in {7, 15}
  /\ at \in {"handler", "acknowledge"} => irq \notin imr

IInv == TypeOK /\ MaskInv /\ FlagInv /\ (panic = "no" => InServiceInv) /\ SafeAfterInit

\* An end-of-interrupt empties a chip that has one line in service.
LEMMA EoiPrimary ==
  ASSUME NEW i \in Primary, NEW s \in SUBSET {i}
  PROVE  Eoi(Primary, s) = {}
<1>1. \A x \in s : x = i /\ x \in Primary /\ \A j \in s \cap Primary : x <= j
  BY DEF Primary
<1> QED BY <1>1 DEF Eoi

LEMMA EoiCascade ==
  ASSUME NEW i \in Secondary, NEW s \in SUBSET {i, Cascade}
  PROVE  /\ Eoi(Primary, s) = s \ {Cascade}
         /\ Eoi(Secondary, s) = s \ {i}
BY DEF Eoi, Primary, Secondary, Cascade

\* Every line belongs to one chip.
LEMMA TwoChips ==
  ASSUME NEW i \in Irqs
  PROVE  /\ i \in Nat
         /\ i \in Primary \/ i \in Secondary
         /\ ~(i \in Primary /\ i \in Secondary)
         /\ i >= 8 <=> i \in Secondary
BY IrqAssumption DEF Primary, Secondary

LEMMA InitInv == Init => IInv
BY DEF Init, IInv, TypeOK, MaskInv, FlagInv, InServiceInv, SafeAfterInit

\* Taking an interrupt, genuine or spurious, finds its gate and enters
\* handle_irq with nothing else in service.
LEMMA InterruptStep ==
  ASSUME IInv, NEW i \in Irqs, Interrupt(i) \/ SpuriousInterrupt(i)
  PROVE  IInv'
<1> USE IrqAssumption DEF IInv, Cascade
<1>1. at = "task" /\ isr = {} /\ gates = Irqs /\ i # 2 /\ i \in irr \ imr
  BY DEF Interrupt, SpuriousInterrupt, FlagInv, MaskInv, InServiceInv, Deliverable, TypeOK
<1>2. i \in Nat /\ (i \in Primary \/ i \in Secondary) /\ ~(i \in Primary /\ i \in Secondary)
  BY TwoChips
<1>3. CASE Interrupt(i)
  <2>1. irq' = i /\ isr' = {i} \cup (IF i \in Secondary THEN {2} ELSE {})
    BY <1>1, <1>3 DEF Interrupt, Enter
  <2>2. TypeOK' /\ MaskInv' /\ FlagInv' /\ SafeAfterInit'
    BY <1>1, <1>3, <2>1 DEF Interrupt, Enter, TypeOK, MaskInv, FlagInv, SafeAfterInit
  <2>3. InServiceInv'
    BY <1>1, <1>2, <1>3, <2>1 DEF Interrupt, Enter, InServiceInv
  <2> QED BY <2>2, <2>3
<1>4. CASE SpuriousInterrupt(i)
  <2>1. /\ irq' = IF i \in Secondary THEN 15 ELSE 7
        /\ isr' = IF i \in Secondary THEN {2} ELSE {}
    BY <1>1, <1>4 DEF SpuriousInterrupt, Enter
  <2>2. irq' \in gates
    BY <1>1, <2>1
  <2>3. TypeOK' /\ MaskInv' /\ FlagInv' /\ SafeAfterInit'
    BY <1>1, <1>4, <2>1, <2>2 DEF SpuriousInterrupt, Enter, TypeOK, MaskInv, FlagInv, SafeAfterInit
  <2>4. InServiceInv'
    BY <1>1, <1>4, <2>1 DEF SpuriousInterrupt, Enter, InServiceInv, Primary, Secondary
  <2> QED BY <2>3, <2>4
<1> QED BY <1>3, <1>4

\* handle_irq's three steps.
LEMMA HandleIrqStep ==
  ASSUME IInv, HandleIrq
  PROVE  IInv'
<1> USE DEF IInv
<1>1. CASE IsSpurious
  <2>1. at = "check" /\ panic = "no" /\ UNCHANGED <<imr, irr, handlers, gates, irq, panic>>
    BY <1>1 DEF IsSpurious
  <2>2. irq \in Irqs /\ (irq \in Primary \/ irq \in Secondary)
    BY <2>1, TwoChips DEF InServiceInv
  <2>3. isr' \subseteq isr /\ (irq = 15 => isr' = isr \ {Cascade})
    <3>1. irq = 15 => irq \in Secondary
      BY DEF Secondary
    <3>2. irq = 15 => isr \in SUBSET {irq, Cascade} /\ isr' = Eoi(Primary, isr)
      BY <1>1, <2>1, <3>1 DEF IsSpurious, InServiceInv
    <3>3. irq # 15 => isr' = isr
      BY <1>1 DEF IsSpurious
    <3>4. irq = 15 => isr' = isr \ {Cascade}
      BY <3>1, <3>2, EoiCascade
    <3> QED BY <3>3, <3>4
  <2>4. irq # 15 => isr' = isr
    BY <1>1 DEF IsSpurious
  <2>5. irq \in isr' <=> irq \in isr
    BY <2>1, <2>3, <2>4 DEF InServiceInv
  <2>6. TypeOK' /\ MaskInv' /\ FlagInv' /\ SafeAfterInit'
    <3>1. (at' = "task" /\ flag' = TRUE) \/ (at' = "handler" /\ flag' = flag)
      BY <1>1 DEF IsSpurious, Return
    <3>2. TypeOK'
      BY <2>1, <2>3, <3>1 DEF TypeOK
    <3>3. MaskInv' /\ SafeAfterInit'
      BY <2>1, <3>1 DEF MaskInv, SafeAfterInit
    <3>4. FlagInv'
      BY <2>1, <3>1 DEF FlagInv
    <3> QED BY <3>2, <3>3, <3>4
  <2>7. CASE ReportedSpurious(irq)
    <3>1. irq \notin isr /\ irq \in {7, 15} /\ at' = "task"
      BY <1>1, <2>1, <2>7 DEF InServiceInv, ReportedSpurious, IsSpurious, Return
    <3>2. isr' = {}
      BY <2>1, <2>2, <2>3, <2>4, <3>1 DEF InServiceInv, Primary, Secondary
    <3> QED BY <2>6, <3>1, <3>2 DEF InServiceInv
  <2>8. CASE ~ReportedSpurious(irq)
    <3>1. at' = "handler" /\ irq \notin imr
      BY <1>1, <2>1, <2>8 DEF IsSpurious, ReportedSpurious, InServiceInv
    <3> QED BY <2>1, <2>3, <2>5, <2>6, <3>1 DEF InServiceInv
  <2> QED BY <2>7, <2>8
<1>2. CASE CallHandler
  <2>1. at = "handler" /\ panic = "no" /\ UNCHANGED <<hardware, handlers, gates, flag, irq>>
    BY <1>2 DEF CallHandler
  <2>2. handlers[irq] # "none"
    BY <2>1 DEF MaskInv, InServiceInv
  <2>3. TypeOK' /\ MaskInv' /\ FlagInv' /\ SafeAfterInit'
    BY <1>2, <2>1, <2>2 DEF CallHandler, hardware, TypeOK, MaskInv, FlagInv, SafeAfterInit
  <2>4. panic' = "no" => at' = "acknowledge"
    BY <1>2, <2>2 DEF CallHandler
  <2> QED BY <2>1, <2>3, <2>4 DEF InServiceInv, hardware
<1>3. CASE AcknowledgeIrq
  <2>1. /\ at = "acknowledge" /\ panic = "no" /\ at' = "task"
        /\ UNCHANGED <<imr, irr, handlers, gates, irq, panic>>
    BY <1>3 DEF AcknowledgeIrq, Return
  <2>2. irq \in Irqs /\ (irq \in Primary \/ irq \in Secondary) /\ (irq >= 8 <=> irq \in Secondary)
    BY <2>1, TwoChips DEF InServiceInv
  <2>3. CASE irq \in Primary
    <3>1. isr' = Eoi(Primary, isr)
      BY <1>3, <2>2, <2>3, TwoChips DEF AcknowledgeIrq
    <3>2. isr' = {}
      BY <2>1, <2>3, <3>1, EoiPrimary DEF InServiceInv
    <3> QED BY <1>3, <2>1, <3>2 DEF AcknowledgeIrq, Return, TypeOK, MaskInv, FlagInv, SafeAfterInit, InServiceInv
  <2>4. CASE irq \in Secondary
    <3>1. isr' = Eoi(Primary, Eoi(Secondary, isr))
      BY <1>3, <2>2, <2>4 DEF AcknowledgeIrq
    <3>2. isr \in SUBSET {irq, Cascade}
      BY <2>1, <2>4 DEF InServiceInv
    <3>3. Eoi(Secondary, isr) = isr \ {irq}
      BY <2>4, <3>2, EoiCascade
    <3>4. isr \ {irq} \in SUBSET {Cascade} /\ Cascade \in Primary
      BY <3>2 DEF Cascade, Primary
    <3>5. isr' = {}
      BY <3>1, <3>3, <3>4, EoiPrimary
    <3> QED BY <1>3, <2>1, <3>5 DEF AcknowledgeIrq, Return, TypeOK, MaskInv, FlagInv, SafeAfterInit, InServiceInv
  <2> QED BY <2>2, <2>3, <2>4
<1> QED BY <1>1, <1>2, <1>3 DEF HandleIrq

\* Every other action.
LEMMA StepInv == IInv /\ [Next]_vars => IInv'
<1> SUFFICES ASSUME IInv, [Next]_vars PROVE IInv'
  OBVIOUS
<1> USE DEF IInv
<1>1. CASE IdtInit
  BY <1>1 DEF IdtInit, hardware, TypeOK, MaskInv, FlagInv, InServiceInv, SafeAfterInit
<1>2. CASE PicInit
  BY <1>2 DEF PicInit, TypeOK, MaskInv, FlagInv, InServiceInv, SafeAfterInit
<1>3. CASE EnableInterrupts
  BY <1>3 DEF EnableInterrupts, hardware, TypeOK, MaskInv, FlagInv, InServiceInv, SafeAfterInit
<1>4. ASSUME NEW i \in Irqs, NEW h \in {"none", "returns", "panics"}, InstallIrqHandler(i, h)
      PROVE  IInv'
  <2>1. TypeOK' /\ FlagInv' /\ SafeAfterInit' /\ InServiceInv'
    BY <1>4 DEF InstallIrqHandler, Masked, TypeOK, FlagInv, InServiceInv, SafeAfterInit
  <2>2. MaskInv'
    BY <1>4 DEF InstallIrqHandler, Masked, TypeOK, MaskInv
  <2> QED BY <2>1, <2>2
<1>5. ASSUME NEW i \in Irqs, RaiseIrq(i)
      PROVE  IInv'
  BY <1>5 DEF RaiseIrq, kernel, TypeOK, MaskInv, FlagInv, InServiceInv, SafeAfterInit
<1>6. CASE CpuException
  BY <1>6 DEF CpuException, hardware, TypeOK, MaskInv, FlagInv, InServiceInv, SafeAfterInit
<1>7. CASE Halted \/ UNCHANGED vars
  BY <1>7 DEF Halted, vars, hardware, kernel, TypeOK, MaskInv, FlagInv, InServiceInv, SafeAfterInit
<1> QED
  BY <1>1, <1>2, <1>3, <1>4, <1>5, <1>6, <1>7, InterruptStep, HandleIrqStep
  DEF Next, Boot, AcceptInterrupt

LEMMA Invariance == Spec => []IInv
BY InitInv, StepInv, PTL DEF Spec

\* install_irq_handler and handle_irq stay within the lines of the two chips,
\* for every set of lines.
THEOREM TypeCorrect == Spec => []TypeOK
<1>1. IInv => TypeOK
  BY DEF IInv
<1> QED BY <1>1, Invariance, PTL

\* However devices raise and withdraw requests and kernel code installs and
\* removes handlers, no interrupt finds its IDT entry missing or its handler
\* absent, for every set of lines.
THEOREM InterruptsAreSafe == Spec => []SafeAfterInit
<1>1. IInv => SafeAfterInit
  BY DEF IInv
<1> QED BY <1>1, Invariance, PTL

\* handle_irq leaves no line in service on either chip, for every set of lines.
THEOREM EveryInterruptAcknowledged == Spec => []NothingLeftInService
<1>1. IInv => NothingLeftInService
  BY DEF IInv, InServiceInv, NothingLeftInService
<1> QED BY <1>1, Invariance, PTL

\* No genuine interrupt is taken for a spurious one, for every set of lines.
THEOREM GenuineNotDismissed == Spec => DismissesOnlySpurious
<1>1. IInv /\ [Next]_vars => [at = "check" /\ at' = "task" => irq \notin isr]_vars
  <2> SUFFICES ASSUME IInv, Next, at = "check", at' = "task"
               PROVE  irq \notin isr
    BY DEF vars
  <2>1. (IsSpurious /\ ReportedSpurious(irq)) \/ panic # "no"
    BY DEF Next, Boot, IdtInit, PicInit, EnableInterrupts, InstallIrqHandler, RaiseIrq,
           SpuriousInterrupt, AcceptInterrupt, Interrupt, Enter, HandleIrq, IsSpurious,
           CallHandler, AcknowledgeIrq, CpuException, Halted, vars, kernel
  <2>2. panic = "no"
    BY DEF Next, Boot, IdtInit, PicInit, EnableInterrupts, InstallIrqHandler, RaiseIrq,
           SpuriousInterrupt, AcceptInterrupt, Interrupt, HandleIrq, IsSpurious,
           CallHandler, AcknowledgeIrq, CpuException, Halted, vars, kernel
  <2> QED BY <2>1, <2>2 DEF IInv, InServiceInv, ReportedSpurious
<1> QED BY <1>1, Invariance, PTL DEF Spec, DismissesOnlySpurious

-----------------------------------------------------------------------------

-----------------------------------------------------------------------------
(***************************************************************************)
(* Lines: multiples of COLS.                                               *)
(***************************************************************************)

\* A screen has room for at least two lines.
LEMMA ScreenSize == Size \in Nat /\ Size >= 2 * COLS /\ COLS \in Nat \ {0}
<1>1. ROWS \in Nat /\ COLS \in Nat \ {0} /\ ROWS >= 2
  BY ScreenAssumption
<1>2. QED
  BY <1>1 DEF Size

\* Every position is in one column of one line.
LEMMA LineAndColumn ==
  ASSUME NEW x \in Nat
  PROVE  \E q \in Nat, r \in 0 .. (COLS - 1) : x = q * COLS + r
<1>1. COLS \in Nat \ {0}
  BY ScreenAssumption
<1>2. x \div COLS \in Nat /\ x % COLS \in 0 .. (COLS - 1)
  BY <1>1
<1>3. x = (x \div COLS) * COLS + (x % COLS)
  BY <1>1
<1>4. QED
  BY <1>2, <1>3

LEMMA StartOfLine ==
  ASSUME NEW q \in Nat
  PROVE  (q * COLS) % COLS = 0
BY ScreenAssumption

\* Within a line only its start is a multiple of COLS.
LEMMA OnlyStart ==
  ASSUME NEW q \in Nat, NEW r \in 0 .. (COLS - 1), (q * COLS + r) % COLS = 0
  PROVE  r = 0
<1>1. COLS \in Nat \ {0}
  BY ScreenAssumption
<1>2. (q * COLS + r) % COLS = r
  BY <1>1
<1>3. QED
  BY <1>2

\* What newline does to the offset: the start of the next line.
LEMMA NewlineOffset ==
  ASSUME NEW q \in Nat, NEW r \in 0 .. (COLS - 1)
  PROVE  Newline(q * COLS + r) = (q + 1) * COLS
<1>1. COLS \in Nat \ {0}
  BY ScreenAssumption
<1>2. (q * COLS + r) + COLS = (q + 1) * COLS + r
  BY <1>1
<1>3. ((q + 1) * COLS + r) \div COLS = q + 1
  BY <1>1
<1>4. QED
  BY <1>2, <1>3 DEF Newline

\* And to the pen.
LEMMA NewlinePen ==
  ASSUME NEW q \in Nat, NEW r \in 0 .. (COLS - 1)
  PROVE  LET x == q * COLS + r
         IN  (CHOOSE p \in (x + 1) .. (x + COLS) : p % COLS = 0) = (q + 1) * COLS
<1> DEFINE x == q * COLS + r
           y == (q + 1) * COLS
<1>1. COLS \in Nat \ {0}
  BY ScreenAssumption
<1>2. x \in Nat /\ y \in Nat /\ y = q * COLS + COLS /\ y = x + COLS - r
  BY <1>1
<1>3. y \in (x + 1) .. (x + COLS) /\ y % COLS = 0
  BY <1>1, <1>2, StartOfLine
<1>4. ASSUME NEW p \in (x + 1) .. (x + COLS), p % COLS = 0
      PROVE  p = y
  <2>1. CASE p < y
    <3>1. p - q * COLS \in 1 .. (COLS - 1) /\ p = q * COLS + (p - q * COLS)
      BY <1>1, <1>2, <2>1
    <3>2. PICK d \in 1 .. (COLS - 1) : p = q * COLS + d
      BY <3>1
    <3>3. (q * COLS + d) % COLS = 0 /\ d \in 0 .. (COLS - 1)
      BY <1>1, <1>4, <3>2
    <3>4. d = 0
      BY <3>3, OnlyStart
    <3>5. QED
      BY <3>4
  <2>2. CASE p > y
    <3>1. p - y \in 1 .. (COLS - 1) /\ p = (q + 1) * COLS + (p - y)
      BY <1>1, <1>2, <2>2
    <3>2. PICK d \in 1 .. (COLS - 1) : p = (q + 1) * COLS + d
      BY <3>1
    <3>3. ((q + 1) * COLS + d) % COLS = 0 /\ d \in 0 .. (COLS - 1) /\ q + 1 \in Nat
      BY <1>1, <1>4, <3>2
    <3>4. d = 0
      BY <3>3, OnlyStart
    <3>5. QED
      BY <3>4
  <2>3. QED
    BY <1>2, <2>1, <2>2
<1>5. QED
  <2> HIDE DEF x, y
  <2>1. (CHOOSE p \in (x + 1) .. (x + COLS) : p % COLS = 0) = y
    BY <1>3, <1>4
  <2>2. QED
    BY <2>1 DEF x, y

-----------------------------------------------------------------------------
(***************************************************************************)
(* The inductive invariant.                                                *)
(***************************************************************************)

OnSheet(j) == IF j \in DOMAIN sheet THEN sheet[j] ELSE Blank

\* The screen m with its offset o is the window on the paper that starts o
\* before the pen.
Window(m, o) ==
  /\ m = [i \in Cells |-> m[i]]
  /\ \E q \in Nat : pen = q * COLS + o
  /\ \A i \in Cells : m[i] = OnSheet(pen - o + i)

\* ShowsLatestLines needs that the paper is still blank from the pen on, which
\* is what the line that scrolling clears shows.
ScreenInv ==
  /\ pen \in Nat
  /\ sheet = [j \in 0 .. (Paper - 1) |-> sheet[j]]
  /\ \A j \in DOMAIN sheet : j >= pen => sheet[j] = Blank
  /\ offset \in 0 .. Size
  /\ Window(vmem, offset)
  /\ pen = offset \/ offset > Size - COLS
  /\ consolePanic = "no"

\* What write_str works on after the test whether the screen is full.
Scrolled(m, o) ==
  /\ m = IF offset >= Size THEN Up ELSE vmem
  /\ o = IF offset >= Size THEN ScrolledOffset(offset) ELSE offset

\* Scrolling makes room and moves the window by a line.
LEMMA ScrollMovesWindow ==
  ASSUME ScreenInv, NEW m, NEW o, Scrolled(m, o)
  PROVE  /\ o \in 0 .. (Size - 1)
         /\ Window(m, o)
         /\ pen = o \/ o >= Size - COLS
<1>1. Size \in Nat /\ Size >= 2 * COLS /\ COLS \in Nat \ {0}
  BY ScreenSize
<1>2. CASE offset < Size
  <2>1. m = vmem /\ o = offset
    BY <1>1, <1>2 DEF Scrolled, ScreenInv
  <2>2. QED
    BY <1>1, <1>2, <2>1 DEF ScreenInv
<1>3. CASE offset = Size
  <2>1. m = Up /\ o = Size - COLS
    BY <1>1, <1>3 DEF Scrolled, ScrolledOffset
  <2>2. PICK q \in Nat : pen = q * COLS + Size
    BY <1>3 DEF ScreenInv, Window
  <2>3. pen = (q + 1) * COLS + o /\ q + 1 \in Nat
    BY <1>1, <2>1, <2>2
  <2>4. ASSUME NEW i \in Cells PROVE m[i] = OnSheet(pen - o + i)
    <3>1. pen - o + i = pen - offset + (i + COLS) /\ pen \in Nat
      BY <1>1, <1>3, <2>1 DEF ScreenInv, Cells
    <3>2. CASE i + COLS \in Cells
      BY <2>1, <3>1, <3>2 DEF Up, ScreenInv, Window
    <3>3. CASE i + COLS \notin Cells
      <4>1. m[i] = Blank
        BY <2>1, <3>3 DEF Up
      <4>2. pen - o + i >= pen
        BY <1>1, <2>1, <3>1, <3>3 DEF Cells
      <4>3. OnSheet(pen - o + i) = Blank
        BY <4>2 DEF OnSheet, ScreenInv
      <4>4. QED
        BY <4>1, <4>3
    <3>4. QED
      BY <3>2, <3>3
  <2>5. m = [i \in Cells |-> m[i]]
    BY <2>1 DEF Up
  <2>6. Window(m, o)
    BY <2>3, <2>4, <2>5 DEF Window
  <2>7. QED
    BY <1>1, <2>1, <2>6
<1>4. QED
  BY <1>1, <1>2, <1>3 DEF ScreenInv

-----------------------------------------------------------------------------
(***************************************************************************)
(* The steps.                                                              *)
(***************************************************************************)

\* A character other than a newline appears at the same place of the paper
\* and of the window.
LEMMA CharStep ==
  ASSUME ScreenInv, NEW c \in Ascii \cup {"other"}, Write(c)
  PROVE  ScreenInv'
<1> PICK m, o : Scrolled(m, o)
  BY DEF Scrolled
<1>1. /\ o \in 0 .. (Size - 1) /\ o \in Nat
      /\ Window(m, o)
      /\ pen = o \/ o >= Size - COLS
  BY ScrollMovesWindow, ScreenSize
<1>2. c # "newline"
  BY ScreenAssumption
<1>3. /\ consolePanic' = "no"
      /\ vmem' = [m EXCEPT ![o] = Glyph(c)]
      /\ offset' = o + 1
  BY <1>1, <1>2, ScreenSize DEF Write, WriteChar, Scrolled, ScreenInv
<1>4. /\ pen' = pen + 1 /\ pen + COLS < Paper
      /\ sheet' = [sheet EXCEPT ![pen] = IF c = "other" THEN "?" ELSE c]
  BY <1>2 DEF Write, WriteOnPaper
<1>5. (IF c = "other" THEN "?" ELSE c) = Glyph(c)
  BY ScreenAssumption DEF Glyph
<1>6. /\ pen \in Nat /\ DOMAIN sheet = 0 .. (Paper - 1) /\ pen \in DOMAIN sheet
      /\ DOMAIN sheet' = DOMAIN sheet
  BY <1>4, ScreenAssumption DEF ScreenInv
<1>7. /\ sheet'[pen] = Glyph(c)
      /\ \A j \in DOMAIN sheet : j # pen => sheet'[j] = sheet[j]
  BY <1>4, <1>5, <1>6
<1>8. sheet' = [j \in 0 .. (Paper - 1) |-> sheet'[j]]
  BY <1>4, <1>6
<1>9. \A j \in DOMAIN sheet' : j >= pen' => sheet'[j] = Blank
  BY <1>4, <1>6, <1>7 DEF ScreenInv
<1>10. /\ DOMAIN m = Cells /\ o \in Cells
       /\ vmem'[o] = Glyph(c)
       /\ \A i \in Cells : i # o => vmem'[i] = m[i]
       /\ vmem' = [i \in Cells |-> vmem'[i]]
  BY <1>1, <1>3 DEF Window, Cells
<1>11. PICK w : w = pen - o
  OBVIOUS
<1>12. ASSUME NEW i \in Cells PROVE vmem'[i] = OnSheet(w + i)'
  <2>1. i \in Nat /\ w \in Int
    BY <1>1, <1>6, <1>11, ScreenSize DEF Cells
  <2>2. CASE i = o
    <3>1. w + i = pen
      BY <1>1, <1>6, <1>11, <2>2
    <3>2. QED
      BY <1>6, <1>7, <1>10, <2>2, <3>1 DEF OnSheet
  <2>3. CASE i # o
    <3>1. w + i # pen
      BY <1>1, <1>6, <1>11, <2>1, <2>3
    <3>2. m[i] = OnSheet(w + i)
      BY <1>1, <1>11 DEF Window
    <3>3. QED
      BY <1>6, <1>7, <1>10, <2>3, <3>1, <3>2 DEF OnSheet
  <2>4. QED
    BY <2>2, <2>3
<1>13. Window(vmem, offset)'
  <2>1. PICK q \in Nat : pen = q * COLS + o
    BY <1>1 DEF Window
  <2>2. pen' = q * COLS + offset'
    BY <1>1, <1>3, <1>4, <2>1, ScreenSize
  <2>3. pen' - offset' = w
    BY <1>1, <1>3, <1>4, <1>6, <1>11
  <2>4. \A i \in Cells : vmem'[i] = OnSheet(pen - offset + i)'
    BY <1>12, <2>3 DEF OnSheet
  <2>5. QED
    BY <1>10, <2>2, <2>4 DEF Window
<1>14. offset' \in 0 .. Size /\ (pen' = offset' \/ offset' > Size - COLS)
  BY <1>1, <1>3, <1>4, <1>6, ScreenSize
<1>15. QED
  BY <1>3, <1>4, <1>6, <1>8, <1>9, <1>13, <1>14 DEF ScreenInv

\* A newline moves the offset and the pen to the start of the next line.
LEMMA NewlineStep ==
  ASSUME ScreenInv, Write("newline")
  PROVE  ScreenInv'
<1> PICK m, o : Scrolled(m, o)
  BY DEF Scrolled
<1>1. /\ o \in 0 .. (Size - 1) /\ o \in Nat
      /\ Window(m, o)
      /\ pen = o \/ o >= Size - COLS
  BY ScrollMovesWindow, ScreenSize
<1>2. consolePanic' = "no" /\ vmem' = m /\ offset' = Newline(o)
  BY <1>1, ScreenSize DEF Write, WriteChar, Scrolled, ScreenInv
<1>3. /\ pen' = CHOOSE p \in (pen + 1) .. (pen + COLS) : p % COLS = 0
      /\ sheet' = sheet
  BY DEF Write, WriteOnPaper
<1>4. PICK k \in Nat : pen = k * COLS + o
  BY <1>1 DEF Window
<1>5. PICK q \in Nat, r \in 0 .. (COLS - 1) : o = q * COLS + r
  BY <1>1, LineAndColumn
<1>6. offset' = (q + 1) * COLS
  BY <1>2, <1>5, NewlineOffset
<1>7. pen = (k + q) * COLS + r /\ k + q \in Nat
  BY <1>4, <1>5, ScreenSize
<1>8. pen' = (k + q + 1) * COLS
  BY <1>3, <1>7, NewlinePen
<1>9. pen' = k * COLS + offset' /\ pen' \in Nat /\ offset' \in Nat
  BY <1>6, <1>8, ScreenSize
<1>10. offset' <= Size
  <2>1. q * COLS < ROWS * COLS /\ ROWS \in Nat /\ COLS \in Nat \ {0}
    BY <1>1, <1>5, ScreenSize, ScreenAssumption DEF Size
  <2>2. q < ROWS
    BY <2>1
  <2>3. (q + 1) * COLS <= ROWS * COLS
    BY <2>1, <2>2
  <2>4. QED
    BY <1>6, <2>3 DEF Size
<1>11. offset' > o /\ pen' > pen /\ pen' - offset' = pen - o
  BY <1>1, <1>4, <1>5, <1>6, <1>8, <1>9, ScreenSize
<1>12. pen' = offset' \/ offset' > Size - COLS
  <2>1. /\ pen' \in Nat /\ offset' \in Nat /\ pen \in Nat /\ o \in Nat
        /\ pen' - offset' = pen - o
    BY <1>1, <1>9, <1>11 DEF ScreenInv
  <2>2. CASE pen = o
    <3>1. pen - o = 0
      BY <2>1, <2>2
    <3>2. \A x, y \in Nat : x - y = 0 => x = y
      OBVIOUS
    <3>3. pen' = offset'
      BY <2>1, <3>1, <3>2
    <3>4. QED
      BY <3>3
  <2>3. CASE o >= Size - COLS
    BY <1>1, <1>11, <2>1, <2>3, ScreenSize
  <2>4. QED
    BY <1>1, <2>2, <2>3
<1>13. Window(vmem, offset)'
  BY <1>1, <1>2, <1>3, <1>9, <1>11 DEF Window, OnSheet
<1>14. \A j \in DOMAIN sheet' : j >= pen' => sheet'[j] = Blank
  BY <1>3, <1>9, <1>11 DEF ScreenInv
<1>15. offset' \in 0 .. Size
  BY <1>9, <1>10, ScreenSize
<1>16. QED
  BY <1>2, <1>3, <1>9, <1>12, <1>13, <1>14, <1>15 DEF ScreenInv

\* A new writer starts with a blank screen and a blank sheet.
BlankScreen ==
  /\ vmem = [i \in Cells |-> Blank] /\ offset = 0
  /\ sheet = [j \in 0 .. (Paper - 1) |-> Blank] /\ pen = 0
  /\ consolePanic = "no"

LEMMA BlankWindow == BlankScreen => ScreenInv
<1> SUFFICES ASSUME BlankScreen PROVE ScreenInv
  OBVIOUS
<1> USE DEF BlankScreen
<1>1. pen = 0 * COLS + offset
  BY ScreenSize
<1>2. \A i \in Cells : OnSheet(pen - offset + i) = Blank
  BY DEF OnSheet
<1>3. Window(vmem, offset)
  BY <1>1, <1>2 DEF Window
<1>4. QED
  BY <1>3, ScreenSize DEF ScreenInv

-----------------------------------------------------------------------------
(***************************************************************************)
(* The theorems.                                                           *)
(***************************************************************************)

LEMMA InvariantHolds == ConsoleSpec => []ScreenInv
<1>1. ConsoleInit => ScreenInv
  BY BlankWindow DEF ConsoleInit, BlankScreen
<1>2. ScreenInv /\ [ConsoleNext]_consoleVars => ScreenInv'
  <2> SUFFICES ASSUME ScreenInv, [ConsoleNext]_consoleVars PROVE ScreenInv'
    OBVIOUS
  <2>1. CASE NewWriter
    <3>1. BlankScreen'
      BY <2>1 DEF NewWriter, ScreenInv, BlankScreen
    <3>2. BlankScreen' => ScreenInv'
      BY BlankWindow, PTL
    <3>3. QED
      BY <3>1, <3>2
  <2>2. CASE UNCHANGED consoleVars
    BY <2>2 DEF consoleVars, ScreenInv, Window, OnSheet
  <2>3. QED
    BY <2>1, <2>2, CharStep, NewlineStep DEF ConsoleNext
<1>3. QED
  BY <1>1, <1>2, PTL DEF ConsoleSpec

\* For every size of the screen and any text, the screen shows the latest
\* lines, each character where it belongs.
THEOREM ScreenIsWindow == ConsoleSpec => []ShowsLatestLines
<1>1. ScreenInv => ShowsLatestLines
  <2> SUFFICES ASSUME ScreenInv PROVE ShowsLatestLines
    OBVIOUS
  <2>1. PICK q \in Nat : pen = q * COLS + offset
    BY DEF ScreenInv, Window
  <2>2. pen - offset = q * COLS /\ pen - offset \in Nat
    <3>1. q * COLS \in Nat /\ pen \in Nat /\ offset \in Nat
      BY ScreenSize DEF ScreenInv
    <3>2. QED
      BY <2>1, <3>1
  <2>3. (pen - offset) % COLS = 0
    BY <2>2, StartOfLine
  <2>4. pen - offset = 0 \/ (pen - offset > 0 /\ offset > Size - COLS)
    BY <2>2, ScreenSize DEF ScreenInv
  <2>5. QED
    BY <2>3, <2>4 DEF ScreenInv, ShowsLatestLines, Window, OnSheet
<1>2. QED
  BY <1>1, InvariantHolds, PTL

\* For every size of the screen and any text, write_str's assertion holds: no
\* character is written outside the screen's memory.
THEOREM NeverOffScreen == ConsoleSpec => []AssertHolds
<1>1. ScreenInv => AssertHolds
  BY DEF ScreenInv, AssertHolds
<1>2. QED
  BY <1>1, InvariantHolds, PTL
=============================================================================
