----------------------------- MODULE Interrupts -----------------------------
(***************************************************************************)
(* From rust_entry to the shell, as far as interrupts go: the IDT and TSS   *)
(* (kernel/src/idt.rs, tss.rs), the 8259 (pic.rs), the PIT, timer_demo and  *)
(* run_shell (boot/src/main.rs), the dispatch of IRQs to their handlers,    *)
(* and faults and panics on the way.  Composed with Ps2, whose output       *)
(* buffer drives IRQ1.  One CPU; devices run beside it.                    *)
(***************************************************************************)
EXTENDS Ps2, FiniteSets, FiniteSetsExt

CONSTANT TIMER_DEMO_TICKS

ASSUME InterruptsConstants == TIMER_DEMO_TICKS \in Nat \ {0} /\ MAX_Q \in Nat \ {0}

VARIABLES
    pc,         \* the stage of the boot program, then "shell" or "halt"
    gates,      \* what is in place: "sink", "idt", "tss", "uart" (INIT of main.rs), "pic"
    handlers,   \* IRQ_HANDLERS
    imr, irr, isr,  \* the 8259: masked, requested, in service
    IF_,        \* RFLAGS.IF
    frame,      \* the IRQ being handled and how far: <<irq, stage>>, or << >>
    ticks,      \* TICKS, up to TIMER_DEMO_TICKS
    locked,     \* the serial lock is held
    machine     \* "up", "parked" after a report, "silent" without one; "reset" by a fault,
                \* "stackless" by one that found no stack

pic == <<imr, irr, isr>>
cpu == <<IF_, frame, machine, locked>>
vars == <<ps2, pc, gates, handlers, pic, cpu, ticks>>

Irq == {0, 1, 7}    \* the PIT, the keyboard, and the input spurious requests show as

Init ==
    /\ Ps2Init
    /\ pc = "sink" /\ gates = {} /\ handlers = {}
    /\ imr \in {{}, Irq} /\ irr = {} /\ isr = {}
    /\ IF_ = FALSE /\ frame = << >> /\ ticks = 0 /\ locked = FALSE /\ machine = "up"

Running == machine = "up" /\ frame = << >>
At(stage) == Running /\ pc = stage
Then(stage) == pc' = stage

----------------------------------------------------------------------------
(* The request lines *)

\* IRQ1 follows the output buffer.  An edge is latched, masked or not; whether the
\* 8259 forgets a request whose line drops depends on the chip.
Line(c) == c.obf # none /\ c.int
LineMoves ==
    \/ ~Line(ctl) /\ Line(ctl') /\ irr' = irr \cup {1}
    \/ Line(ctl) /\ ~Line(ctl') /\ irr' \in {irr, irr \ {1}}
    \/ (Line(ctl) <=> Line(ctl')) /\ UNCHANGED irr

Pulse ==
    /\ machine \notin {"reset", "stackless"} /\ 0 \notin irr
    /\ irr' = irr \cup {0}
    /\ UNCHANGED <<ps2, pc, gates, handlers, imr, isr, cpu, ticks>>

Device ==
    /\ Hardware
    /\ LineMoves
    /\ UNCHANGED <<pc, gates, handlers, imr, isr, cpu, ticks>>

----------------------------------------------------------------------------
(* The descriptor tables *)

DF_VECTOR == 8
IRQ_BASE == 32
SYSCALL_VECTOR == 128

\* What idt::init puts at a vector: gates that clear IF, the one of #DF with a stack
\* from the TSS, the one of system calls open to ring 3; the others stay missing.
Gate(v) ==
    IF "idt" \notin gates THEN "missing"
    ELSE IF v = DF_VECTOR THEN "ist"
    ELSE IF v < 32 THEN "exception"
    ELSE IF v \in IRQ_BASE .. IRQ_BASE + 15 THEN "irq"
    ELSE IF v = SYSCALL_VECTOR THEN "user" ELSE "missing"

\* Where the 8259 sends IRQ i: at power-on, among the exceptions.
Vector(i) == i + IF "pic" \in gates THEN IRQ_BASE ELSE 8

----------------------------------------------------------------------------
(* The boot program, interrupts off but in "spin" *)

\* rust_entry: the sink for fault reports, then the IDT, then the TSS with the stack
\* of the #DF gate; the first line printed programs the UART.
Install(part, stage) ==
    /\ At(part)
    /\ gates' = gates \cup {part}
    /\ Then(stage)
    /\ UNCHANGED <<ps2, handlers, pic, cpu, ticks>>

set_fault_sink == Install("sink", "idt")
idt_init == Install("idt", "tss")
tss_init == Install("tss", "uart")
first_print == Install("uart", "remap")

mask_all == imr' = Irq
unmask(irqs) == imr' = imr \ irqs

\* timer_demo: remap resets the 8259 and ends with mask_all ...
Remap ==
    /\ At("remap")
    /\ gates' = gates \cup {"pic"}
    /\ mask_all /\ irr' = {} /\ isr' = {}
    /\ Then("timer")
    /\ UNCHANGED <<ps2, handlers, cpu, ticks>>

\* ... set_frequency, set_irq_handler(0), unmask(0) ...
StartTimer ==
    /\ At("timer")
    /\ handlers' = handlers \cup {0}
    /\ unmask({0})
    /\ Then("sti")
    /\ UNCHANGED <<ps2, gates, irr, isr, cpu, ticks>>

EnableInterrupts ==
    /\ \/ At("sti") /\ Then("spin")
       \/ At("sti_shell") /\ Then("shell")
    /\ IF_' = TRUE
    /\ UNCHANGED <<ps2, gates, handlers, pic, frame, machine, locked, ticks>>

\* ... and waits; then cli and mask_all, with a tick perhaps in between.
SpinDone ==
    /\ At("spin") /\ ticks >= TIMER_DEMO_TICKS
    /\ Then("cli")
    /\ UNCHANGED <<ps2, gates, handlers, pic, cpu, ticks>>

StopTimer ==
    /\ At("cli")
    /\ IF_' = FALSE
    /\ mask_all
    /\ Then("kbd")
    /\ UNCHANGED <<ps2, gates, handlers, irr, isr, frame, machine, locked, ticks>>

\* run_shell: keyboard::init polls the 8042; the shell comes up whatever it says.
KeyboardInit ==
    /\ At("kbd")
    /\ \/ Init8042 /\ LineMoves /\ UNCHANGED pc
       \/ ready # "running" /\ Then("handlers") /\ UNCHANGED <<ps2, irr>>
    /\ UNCHANGED <<gates, handlers, imr, isr, cpu, ticks>>

\* Mutant: IRQ0 stays masked.
UnmaskKeyboard ==
    /\ At("unmask")
    /\ unmask({1})
    /\ Then("sti_shell")
    /\ UNCHANGED <<ps2, gates, handlers, irr, isr, cpu, ticks>>

SetKeyboardHandler ==
    /\ At("handlers")
    /\ handlers' = handlers \cup {1}
    /\ Then("unmask")
    /\ UNCHANGED <<ps2, gates, pic, cpu, ticks>>

UnmaskBoth ==
    /\ At("unmask")
    /\ unmask({1, 0})
    /\ Then("sti_shell")
    /\ UNCHANGED <<ps2, gates, handlers, irr, isr, cpu, ticks>>

\* The shell, the kernel calls of processes and everything that prints: stretches
\* under irq_save, some with the serial lock.
IrqSave ==
    /\ At("shell") /\ IF_
    /\ IF_' = FALSE
    /\ locked' \in BOOLEAN
    /\ UNCHANGED <<ps2, pc, gates, handlers, pic, frame, machine, ticks>>

IrqRestore ==
    /\ At("shell") /\ ~IF_
    /\ IF_' = TRUE
    /\ locked' = FALSE
    /\ UNCHANGED <<ps2, pc, gates, handlers, pic, frame, machine, ticks>>

----------------------------------------------------------------------------
(* Delivery *)

\* Requests the 8259 may present: not masked, above everything in service.
Pending == {i \in irr \ imr : \A j \in isr : i < j}

\* The CPU takes the first one through its interrupt gate, which clears IF.
Deliver(i) ==
    /\ machine = "up" /\ IF_ /\ frame = << >> /\ Gate(Vector(i)) = "irq"
    /\ Pending # {} /\ i = Min(Pending)
    /\ irr' = irr \ {i}
    /\ isr' = isr \cup {i}
    /\ IF_' = FALSE
    /\ frame' = <<i, "eoi">>
    /\ UNCHANGED <<ps2, pc, gates, handlers, imr, machine, locked, ticks>>

\* A request that went away shows as IRQ7, with nothing in service for it.
Spurious ==
    /\ machine = "up" /\ IF_ /\ frame = << >> /\ Gate(Vector(7)) = "irq"
    /\ IF_' = FALSE
    /\ frame' = <<7, "eoi">>
    /\ UNCHANGED <<ps2, pc, gates, handlers, pic, machine, locked, ticks>>

\* Mutant: the EOI comes after the handler, and the timer's switches away.
EoiAfterSwitch ==
    /\ frame # << >> /\ frame[2] = "eoi" /\ machine = "up"
    /\ isr' = IF frame[1] = 0 \/ isr = {} THEN isr ELSE isr \ {Min(isr)}
    /\ frame' = <<frame[1], "call">>
    /\ UNCHANGED <<ps2, pc, gates, handlers, imr, irr, IF_, machine, locked, ticks>>

\* handle_irq: first send_eoi, which ends the highest in service ...
SendEoi ==
    /\ frame # << >> /\ frame[2] = "eoi" /\ machine = "up"
    /\ isr' = IF isr = {} THEN {} ELSE isr \ {Min(isr)}
    /\ frame' = <<frame[1], "call">>
    /\ UNCHANGED <<ps2, pc, gates, handlers, imr, irr, IF_, machine, locked, ticks>>

\* Mutant: the handler leaves the byte where it is.
HandlerNoRead == UNCHANGED <<ps2, irr, ticks>>

\* The keyboard handler reads the data port without a look at the status (what
\* the byte does to the key state is Keyboard.tla's).
ReadScancode ==
    /\ ctl' = Taken
    /\ LineMoves
    /\ UNCHANGED <<kb, wired, step, phase, ready, ticks>>

Tick ==
    /\ ticks' = IF ticks < TIMER_DEMO_TICKS THEN ticks + 1 ELSE ticks
    /\ UNCHANGED <<ps2, irr>>

\* ... then the registered handler, if any; back in this context or in the one
\* the scheduler chose (Sched.tla), interrupts are on.
Dispatch ==
    /\ frame # << >> /\ frame[2] = "call" /\ machine = "up"
    /\ \/ frame[1] = 0 /\ 0 \in handlers /\ Tick
       \/ frame[1] = 1 /\ 1 \in handlers /\ ReadScancode
       \/ frame[1] \notin handlers /\ UNCHANGED <<ps2, irr, ticks>>
    /\ frame' = << >>
    /\ IF_' = TRUE
    /\ UNCHANGED <<pc, gates, handlers, imr, isr, machine, locked>>

----------------------------------------------------------------------------
(* Faults and panics *)

\* Mutant: the sink takes the serial lock.
ReportLocked == IF "sink" \in gates /\ ~locked THEN {"parked"} ELSE {"silent"}

\* handle_exception through the sink, which writes to the port past the lock; what
\* becomes of it on a port nobody has programmed is the firmware's affair.
Report ==
    IF "sink" \notin gates THEN {"silent"}
    ELSE {"parked"} \cup (IF "uart" \in gates THEN {} ELSE {"silent"})

\* An exception v: through its gate on the current stack, through the #DF gate on
\* the TSS's when that stack is unusable; with neither the machine resets.
Fault ==
    /\ machine = "up"
    /\ \E v \in {6, 14, DF_VECTOR}, usable \in BOOLEAN :
         LET own == usable /\ Gate(v) = "exception"
             df == Gate(DF_VECTOR) = "ist" /\ "tss" \in gates
         IN  machine' \in IF own \/ df THEN Report
                          ELSE {IF usable /\ v # DF_VECTOR THEN "reset" ELSE "stackless"}
    /\ IF_' = FALSE
    /\ UNCHANGED <<ps2, pc, gates, handlers, pic, frame, locked, ticks>>

\* panic reports past the lock too, and halts with IF as it is: a tick still
\* runs the scheduler.
Panic ==
    /\ Running
    /\ Then("halt")
    /\ UNCHANGED <<ps2, gates, handlers, pic, cpu, ticks>>

----------------------------------------------------------------------------

Program ==
    \/ set_fault_sink \/ idt_init \/ tss_init \/ first_print \/ Remap \/ StartTimer
    \/ EnableInterrupts \/ SpinDone \/ StopTimer
    \/ KeyboardInit \/ SetKeyboardHandler \/ UnmaskBoth

Next ==
    \/ Program \/ IrqSave \/ IrqRestore
    \/ (\E i \in Irq : Deliver(i)) \/ Spurious \/ SendEoi \/ Dispatch
    \/ Pulse \/ Device \/ Fault \/ Panic

Spec == Init /\ [][Next]_vars

\* The CPU executes (interrupts leave the program some instructions in between), ends
\* its critical stretches and takes a pending interrupt in one of the windows in
\* which it can; the PIT pulses.  Nothing is assumed of the 8042 and the keyboard.
FairSpec ==
    /\ Spec
    /\ SF_vars(Program) /\ WF_vars(IrqRestore) /\ WF_vars(SendEoi) /\ WF_vars(Dispatch)
    /\ WF_vars(Pulse)
    /\ \A i \in {0, 1} : SF_vars(Deliver(i))

----------------------------------------------------------------------------
(* Properties *)

TypeOK ==
    /\ ctl.obf \in {none, "key", "55", "bad", "cfg", "FA", "AA"}
    /\ step \in DOMAIN Script /\ phase \in {"wait", "out", "read"}
    /\ ready \in {"running", "true", "false"}
    /\ imr \subseteq Irq /\ irr \subseteq Irq /\ isr \subseteq Irq /\ handlers \subseteq Irq
    /\ ticks \in 0 .. TIMER_DEMO_TICKS
    /\ locked => ~IF_

\* Whenever interrupts are on, every IRQ, a spurious one too, meets a gate of its own
\* and every unmasked one a handler: the promise of the two comments in front of sti
\* (main.rs:401-402, main.rs:430-431).
ArmedWhenOn ==
    IF_ /\ machine = "up" =>
        \A i \in Irq :
            /\ Gate(Vector(i)) = "irq"
            /\ i \notin imr => i \in handlers

\* Whenever interrupts are on nothing is in service, so no EOI is ever spent on
\* another IRQ and none holds back the ones below it, although the timer's handler
\* may leave for another process and a spurious IRQ7 is acknowledged without
\* having been in service (idt.rs:615-617).
NothingInService == IF_ => isr = {}

\* Every interrupt the CPU can take, it can take safely (main.rs:401-402,
\* main.rs:430-431, idt.rs:615-617).
SafeWhenOn == TypeOK /\ ArmedWhenOn /\ NothingInService

\* From idt::init on no fault resets the machine but one that finds no stack, from
\* tss::init on not that one either (main.rs:604-610); and from the first line
\* printed on every fault parks it with a report, although the faulting code may
\* hold the serial lock (serial.rs:73-77).
FaultReported ==
    /\ machine = "reset" => "idt" \notin gates
    /\ machine = "stackless" => "tss" \notin gates
    /\ machine = "silent" => "uart" \notin gates

\* init returns true only for a keyboard that scans in set 1 with its interrupt on,
\* and only when every answer has been matched with its question: no late BAT or
\* ACK is left to be taken for a key (keyboard.rs:260-344).
TrueMeansUp ==
    ready = "true" =>
        /\ ctl.kbd /\ ctl.int /\ ~ctl.xlate /\ kb.set = 1 /\ kb.scanning
        /\ ctl.ibf = none /\ ctl.obf \in {none, "key"}
        /\ \A i \in DOMAIN kb.q : kb.q[i] = "key"

Alive == machine = "up" /\ pc # "halt"

\* init returns, whatever the hardware does or does not answer, and the shell
\* comes up (keyboard.rs:352-376, main.rs:417-419). Reading the data port clears
\* the output-full bit, which the flush at keyboard.rs:276 waits for.
ShellComesUp == <>(pc = "shell" \/ ~Alive)

\* The PIT keeps ticking: neither a handler that does not return, nor a keyboard
\* that never stops, nor a stretch under irq_save ends the ticks (main.rs:422-423).
TicksKeepComing == []<>(frame = <<0, "call">> \/ ~Alive)

\* No byte is stuck in the output buffer after a successful init: the edge that
\* announced it is not lost, masked or not, provided ticks leave time in between.
KeysServed ==
    []<>(IF_ /\ 0 \notin irr) =>
        [](ready = "true" /\ ctl.obf # none => <>(ctl.obf = none \/ ~Alive))
=============================================================================
