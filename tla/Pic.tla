--------------------------------- MODULE Pic ---------------------------------
(***************************************************************************)
(* Hardware interrupts, from the two cascaded 8259 controllers to the      *)
(* handlers kernel code installs (src/pic.rs, src/idt.rs): bringing up the *)
(* IDT and the controllers, install_irq_handler, and handle_irq with its   *)
(* spurious-interrupt test and acknowledgement.  The kernel acts one call  *)
(* at a time, with interrupts off; the devices raise and withdraw requests *)
(* between any two of its steps.                                           *)
(***************************************************************************)
EXTENDS Naturals, FiniteSets

CONSTANT Irqs    \* the IRQ lines in use

ASSUME IrqAssumption == Irqs \subseteq 0 .. 15 /\ {2, 7, 15} \subseteq Irqs

VARIABLES
  imr,        \* masked lines: what the data ports read and write
  irr,        \* lines with a request pending
  isr,        \* lines in service
  handlers,   \* IRQ_HANDLERS: what the installed function does, or "none"
  gates,      \* lines whose vector has a present IDT entry
  flag,       \* the CPU's interrupt flag
  at,         \* where the kernel is: booting, in a task, or in handle_irq
  irq,        \* the irq_num handle_irq was called with
  panic       \* what stopped the kernel, or "no"

hardware == <<imr, irr, isr>>
kernel == <<handlers, gates, flag, at, irq, panic>>
vars == <<hardware, kernel>>

Primary == 0 .. 7
Secondary == 8 .. 15
Chip(i) == i \div 8
Cascade == 2          \* the primary's line that the secondary is wired to

Init ==
  /\ imr = {} /\ irr = {} /\ isr = {}
  /\ handlers = [i \in Irqs |-> "none"]
  /\ gates = {}
  /\ flag = FALSE
  /\ at = "entry"
  /\ irq = 0
  /\ panic = "no"

(***************************************************************************)
(* The controllers and the devices (hardware)                              *)
(***************************************************************************)

\* Lower lines first; the secondary's lines rank where the cascade line does.
Rank(i) == IF i \in Secondary THEN 10 * Cascade + (i - 8) ELSE 10 * i
Before(i, j) == Rank(i) < Rank(j)

Deliverable(i) ==
  /\ i \in irr \ imr
  /\ i \in Secondary => Cascade \notin imr
  /\ \A j \in isr : Before(i, j)

\* A non-specific end-of-interrupt: the chip's highest line leaves service.
Eoi(chip, s) == {i \in s : ~(i \in chip /\ \A j \in s \cap chip : i <= j)}

RaiseIrq(i) ==
  /\ panic = "no"
  /\ i # Cascade
  /\ irr' = irr \cup {i}
  /\ UNCHANGED <<imr, isr, kernel>>

Enter(i) ==
  /\ flag' = FALSE
  /\ at' = "check"
  /\ irq' = i
  /\ panic' = IF i \in gates THEN "no" ELSE "gate"
  /\ UNCHANGED <<imr, handlers, gates>>

\* handle_irq0 to handle_irq15: the request the controllers rank first.
Interrupt(i) ==
  /\ panic = "no" /\ flag
  /\ Deliverable(i)
  /\ \A j \in irr : Deliverable(j) => ~Before(j, i)
  /\ irr' = irr \ {i}
  /\ isr' = isr \cup {i} \cup (IF i \in Secondary THEN {Cascade} ELSE {})
  /\ Enter(i)

\* The request is withdrawn while the CPU responds to it: the chip reports its
\* line 7 and puts nothing in service, except that the primary has already
\* taken the secondary's request.
SpuriousInterrupt(i) ==
  /\ panic = "no" /\ flag
  /\ Deliverable(i)
  /\ \A j \in irr : Deliverable(j) => i = j \/ (Before(i, j) /\ Chip(i) # Chip(j))
  /\ irr' = irr \ {i}
  /\ isr' = isr \cup (IF i \in Secondary THEN {Cascade} ELSE {})
  /\ Enter(IF i \in Secondary THEN 15 ELSE 7)

(***************************************************************************)
(* Bringing interrupts up                                                  *)
(***************************************************************************)

\* idt::init, from kernel_entry: exceptions get handlers, nothing else does.
IdtInit ==
  /\ panic = "no" /\ at = "entry"
  /\ gates' = {}
  /\ at' = "idt"
  /\ UNCHANGED <<hardware, handlers, flag, irq, panic>>

PicInit_unmasked ==
  /\ panic = "no" /\ at = "idt"
  /\ imr' = {} /\ irr' = {} /\ isr' = {}
  /\ gates' = Irqs
  /\ at' = "pic"
  /\ UNCHANGED <<handlers, flag, irq, panic>>

\* init_impl: the initialisation words clear the controllers, every line is
\* masked, and each gets its vector's handler.
PicInit ==
  /\ panic = "no" /\ at = "idt"
  /\ imr' = Irqs /\ irr' = {} /\ isr' = {}
  /\ gates' = Irqs
  /\ at' = "pic"
  /\ UNCHANGED <<handlers, flag, irq, panic>>

\* interrupts::enable, from kernel_main.
EnableInterrupts ==
  /\ panic = "no" /\ at = "pic"
  /\ flag' = TRUE
  /\ at' = "task"
  /\ UNCHANGED <<hardware, handlers, gates, irq, panic>>

\* Every exception handler of idt.rs panics.
CpuException ==
  /\ panic = "no" /\ at # "entry"
  /\ panic' = "exception"
  /\ UNCHANGED <<hardware, handlers, gates, flag, at, irq>>

(***************************************************************************)
(* install_irq_handler                                                     *)
(***************************************************************************)

\* set_mask
Masked(i, h) == IF h = "none" THEN imr \cup {i} ELSE imr \ {i}

InstallIrqHandler(i, h) ==
  /\ panic = "no" /\ at = "task"
  /\ \/ /\ h = "none" \/ handlers[i] = "none"
        /\ handlers' = [handlers EXCEPT ![i] = h]
        /\ imr' = Masked(i, h)
        /\ UNCHANGED panic
     \/ /\ h # "none" /\ handlers[i] # "none"
        /\ panic' = "installed"
        /\ UNCHANGED <<handlers, imr>>
  /\ UNCHANGED <<irr, isr, gates, flag, at, irq>>

(***************************************************************************)
(* handle_irq                                                              *)
(***************************************************************************)

ReportedSpurious_noMask(i) == i \in {7, 15}

\* is_spurious: bit 7 of the data port, which reads the mask.
ReportedSpurious(i) == i \in {7, 15} /\ i \in imr

Return ==
  /\ at' = "task"
  /\ flag' = TRUE

IsSpurious_noEoi ==
  /\ panic = "no" /\ at = "check"
  /\ isr' = isr
  /\ \/ ReportedSpurious(irq) /\ Return
     \/ ~ReportedSpurious(irq) /\ at' = "handler" /\ UNCHANGED flag
  /\ UNCHANGED <<imr, irr, handlers, gates, irq, panic>>

IsSpurious ==
  /\ panic = "no" /\ at = "check"
  /\ isr' = IF irq = 15 THEN Eoi(Primary, isr) ELSE isr
  /\ \/ ReportedSpurious(irq) /\ Return
     \/ ~ReportedSpurious(irq) /\ at' = "handler" /\ UNCHANGED flag
  /\ UNCHANGED <<imr, irr, handlers, gates, irq, panic>>

CallHandler ==
  /\ panic = "no" /\ at = "handler"
  /\ \/ handlers[irq] = "returns" /\ at' = "acknowledge" /\ UNCHANGED panic
     \/ /\ handlers[irq] # "returns"
        /\ panic' = IF handlers[irq] = "none" THEN "unhandled" ELSE "handler"
        /\ UNCHANGED at
  /\ UNCHANGED <<hardware, handlers, gates, flag, irq>>

AcknowledgeIrq_cascadeOnly ==
  /\ panic = "no" /\ at = "acknowledge"
  /\ isr' = IF irq >= 8 THEN Eoi(Primary, Eoi(Secondary, isr)) ELSE isr
  /\ Return
  /\ UNCHANGED <<imr, irr, handlers, gates, irq, panic>>

AcknowledgeIrq ==
  /\ panic = "no" /\ at = "acknowledge"
  /\ isr' = Eoi(Primary, IF irq >= 8 THEN Eoi(Secondary, isr) ELSE isr)
  /\ Return
  /\ UNCHANGED <<imr, irr, handlers, gates, irq, panic>>

Halted ==
  /\ panic # "no"
  /\ UNCHANGED vars

Boot == IdtInit \/ PicInit \/ EnableInterrupts
HandleIrq == IsSpurious \/ CallHandler \/ AcknowledgeIrq
AcceptInterrupt == \E i \in Irqs : Interrupt(i)

Next ==
  \/ Boot
  \/ \E i \in Irqs, h \in {"none", "returns", "panics"} : InstallIrqHandler(i, h)
  \/ \E i \in Irqs : RaiseIrq(i) \/ SpuriousInterrupt(i)
  \/ AcceptInterrupt
  \/ HandleIrq
  \/ CpuException
  \/ Halted

Spec == Init /\ [][Next]_vars

\* The CPU keeps executing, and takes an interrupt that stays pending.
FairSpec ==
  /\ Spec
  /\ WF_vars(Boot)
  /\ WF_vars(HandleIrq)
  /\ WF_vars(AcceptInterrupt)

(***************************************************************************)
(* Properties                                                              *)
(***************************************************************************)

\* Masks, requests and handlers stay within the lines of the two controllers:
\* install_irq_handler addresses the chip and the line its argument names.
TypeOK ==
  /\ imr \subseteq Irqs
  /\ irr \subseteq Irqs \ {Cascade}
  /\ isr \subseteq Irqs
  /\ handlers \in [Irqs -> {"none", "returns", "panics"}]
  /\ gates \in {{}, Irqs}
  /\ flag \in BOOLEAN
  /\ at \in {"entry", "idt", "pic", "task", "check", "handler", "acknowledge"}
  /\ panic \in {"no", "gate", "exception", "installed", "unhandled", "handler"}

\* "It is safe to enable interrupts after init()" (pic.rs:32): no interrupt,
\* spurious ones included, finds its IDT entry missing or reaches handle_irq's
\* "Unhandled IRQ" panic, however devices and install_irq_handler interleave.
SafeAfterInit == panic \notin {"gate", "unhandled"}

\* Each chip is told the end of every interrupt it has in service, those that
\* turn out spurious included: back in a task, no line blocks the lines below.
NothingLeftInService == panic = "no" /\ at = "task" => isr = {}

\* is_spurious never dismisses an interrupt that is in service, which would
\* lose the device's request and its end-of-interrupt.
DismissesOnlySpurious ==
  [][at = "check" /\ at' = "task" => irq \notin isr]_vars

\* A spurious IRQ is one "we shouldn't respond to" (pic.rs:119): a handler is
\* called only for a line in service.
CalledOnlyInService == at = "handler" => irq \in isr

\* The pending request the controllers would deliver next.
FirstPending(i) ==
  /\ i \in irr \ imr
  /\ i \in Secondary => Cascade \notin imr
  /\ \A j \in irr \ imr : ~Before(j, i)

\* No request stays first in line forever: handle_irq always returns with
\* interrupts on and the line out of service, so the next one gets through.
FirstPendingIsServed == \A i \in Irqs : []<>(FirstPending(i) => panic # "no")
==============================================================================
