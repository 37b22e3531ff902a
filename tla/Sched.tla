------------------------------- MODULE Sched -------------------------------
(***************************************************************************)
(* Preemptive round-robin multitasking on one CPU (kernel/src/sched.rs),   *)
(* driven by the PIT tick and the `int 0x80' syscalls, with the shell      *)
(* (process 0, ring 0) and the lock of the serial port (boot/src/main.rs). *)
(*                                                                         *)
(* An interrupt handler runs with IF = 0 and is one step; so is a section  *)
(* the shell runs under irq_save.  Where the shell runs with IF = 1 a tick *)
(* may come between any two of its steps.                                  *)
(*                                                                         *)
(* A context is named by its process and by which start of the slot it     *)
(* belongs to.  A kernel stack holds one saved context: an interrupt entry *)
(* on the same stack destroys the one saved there before.                  *)
(***************************************************************************)
EXTENDS Integers

CONSTANTS
    MAX_PROCESSES,      \* sched.rs: 16
    TIMER_DEMO_TICKS,   \* main.rs: 100
    MAX_LIFE            \* bound: how often a slot is started

ASSUME SchedConstants ==
    /\ MAX_PROCESSES \in Nat \ {0, 1}
    /\ TIMER_DEMO_TICKS \in Nat \ {0} /\ MAX_LIFE \in Nat

Slot == 0 .. MAX_PROCESSES - 1
TSS_STACK == MAX_PROCESSES          \* tss.rs KERNEL_STACK, the boot value of rsp0
Stack == Slot \cup {TSS_STACK}      \* slot 0's stack is the boot stack
NULL == -1
Garbage == [pid |-> NULL, life |-> 0]

VARIABLES
    state, ctx,     \* PROCESSES: the state, and the stack `ctx' points into
    kstack,         \* the context saved on each kernel stack
    current,        \* CURRENT
    rsp0,           \* TSS.rsp0
    cpu,            \* the context the CPU executes
    life,           \* how often each slot was started
    shell, victim,  \* where the shell is; the pid `kill' works on
    IF1,            \* the shell runs with interrupts enabled
    serial,         \* the WRITER lock is held by the shell
    machine,        \* "up", "hung" (spins with IF = 0) or "panic"
    ticks           \* TICKS, up to TIMER_DEMO_TICKS

table == <<state, ctx, kstack, life>>
hw == <<current, rsp0, cpu>>
boot == <<shell, victim, IF1, serial>>
vars == <<table, hw, boot, machine, ticks>>

State == {"Unused", "Ready", "Running", "Zombie"}
Context(p) == [pid |-> p, life |-> life[p]]

Init ==
    /\ state = [p \in Slot |-> "Unused"]
    /\ ctx = [p \in Slot |-> NULL]
    /\ kstack = [s \in Stack |-> Garbage]
    /\ life = [p \in Slot |-> 0]
    /\ current = 0 /\ rsp0 = TSS_STACK
    /\ cpu = [pid |-> 0, life |-> 0]
    /\ shell = "demo" /\ victim = 0 /\ IF1 = TRUE /\ serial = FALSE
    /\ machine = "up" /\ ticks = 0

InShell == machine = "up" /\ cpu.pid = 0
InUser == machine = "up" /\ cpu.pid # 0

----------------------------------------------------------------------------
(* The switch *)

\* Where the CPU pushes the InterruptFrame: from ring 3 on the stack in
\* TSS.rsp0, from ring 0 on the stack it is running on.
EntryStack == IF cpu.pid = 0 THEN 0 ELSE rsp0

\* The distances from CURRENT at which pick_next_other finds a Ready process.
ReadyAt(st) == {i \in 1 .. MAX_PROCESSES - 1 : st[(current + i) % MAX_PROCESSES] = "Ready"}

\* Mutant: the process with the lowest pid.
PickLowest(st) ==
    LET pids == {(current + i) % MAX_PROCESSES : i \in ReadyAt(st)}
    IN  CHOOSE p \in pids : \A q \in pids : p <= q

\* pick_next_other: the nearest one, in slot order after CURRENT.
PickNextOther(st) ==
    (current + CHOOSE i \in ReadyAt(st) : \A j \in ReadyAt(st) : i <= j) % MAX_PROCESSES

\* sched_switch: the CPU continues with the frame that process n's ctx points to.
SchedSwitch(cx, ks, n) == cpu' = IF cx[n] = NULL THEN Garbage ELSE ks[cx[n]]

\* Mutant: rsp0 keeps pointing to another stack.
SwitchKeepRsp0(st, cx, ks, n) ==
    /\ state' = [st EXCEPT ![n] = "Running"] /\ current' = n /\ rsp0' = rsp0
    /\ SchedSwitch(cx, ks, n)

\* do_switch: process n becomes the current one, on its own kernel stack.
DoSwitch(st, cx, ks, n) ==
    /\ state' = [st EXCEPT ![n] = "Running"]
    /\ current' = n
    /\ rsp0' = n
    /\ SchedSwitch(cx, ks, n)

\* on_tick and yield_now: save the interrupted context in the table, switch to
\* another Ready process if there is one, keep running otherwise.
Preempt ==
    LET st == [state EXCEPT ![current] = "Ready"]
        cx == [ctx EXCEPT ![current] = EntryStack]
        ks == [kstack EXCEPT ![EntryStack] = cpu]
    IN  /\ ctx' = cx
        /\ kstack' = ks
        /\ IF ReadyAt(st) # {}
           THEN DoSwitch(st, cx, ks, PickNextOther(st))
           ELSE /\ state' = [st EXCEPT ![current] = "Running"]
                /\ UNCHANGED hw
        /\ UNCHANGED <<life, boot, machine>>

\* IRQ0: timer_handler counts the tick and calls on_tick.
Tick ==
    /\ machine = "up"
    /\ InShell => IF1
    /\ ticks' = IF ticks < TIMER_DEMO_TICKS THEN ticks + 1 ELSE ticks
    /\ Preempt

\* SYS_YIELD
YieldNow == InUser /\ Preempt /\ UNCHANGED ticks

\* SYS_EXIT: exit_current marks the process dead and switches away; it panics
\* when no process is Ready.
ExitCurrent ==
    LET st == [state EXCEPT ![current] = "Zombie"]
        ks == [kstack EXCEPT ![EntryStack] = cpu]
    IN  /\ InUser
        /\ kstack' = ks
        /\ IF ReadyAt(st) # {}
           THEN DoSwitch(st, ctx, ks, PickNextOther(st)) /\ UNCHANGED machine
           ELSE state' = st /\ machine' = "panic" /\ UNCHANGED hw
        /\ UNCHANGED <<ctx, life, boot, ticks>>

\* SYS_PUTC takes and drops the serial lock with IF = 0, on the frame of its own
\* entry; were the lock held by the preempted shell, it would spin forever.
PutC ==
    /\ InUser
    /\ kstack' = [kstack EXCEPT ![EntryStack] = cpu]
    /\ machine' = IF serial THEN "hung" ELSE machine
    /\ UNCHANGED <<state, ctx, life, hw, boot, ticks>>

----------------------------------------------------------------------------
(* The boot flow and the shell, which becomes process 0 *)

\* init_idle: the boot flow is process 0.
InitIdle ==
    /\ state' = [state EXCEPT ![0] = "Ready"]
    /\ ctx' = [ctx EXCEPT ![0] = NULL]
    /\ current' = 0

\* timer_demo has seen its ticks and turned interrupts off; run_shell calls
\* init_idle and turns them on for good.
RunShell ==
    /\ InShell
    /\ shell = "demo"
    /\ ticks = TIMER_DEMO_TICKS
    /\ InitIdle
    /\ shell' = "ready"
    /\ UNCHANGED <<kstack, life, rsp0, cpu, victim, IF1, serial, machine, ticks>>

\* Mutant: `lock' instead of `lock_irqsave'.
NoIrqSave == IF1' = IF1

\* with_serial: lock_irqsave turns interrupts off, then takes the lock.
IrqSave == IF1' = FALSE

PrintBegin ==
    /\ InShell
    /\ shell = "ready"
    /\ IrqSave
    /\ serial' = TRUE
    /\ shell' = "print"
    /\ UNCHANGED <<table, hw, victim, machine, ticks>>

PrintEnd ==
    /\ InShell
    /\ shell = "print"
    /\ serial' = FALSE
    /\ IF1' = TRUE
    /\ shell' = "ready"
    /\ UNCHANGED <<table, hw, victim, machine, ticks>>

FreeSlots == {p \in Slot \ {0} : state[p] \in {"Unused", "Zombie"}}

\* start_process: a fresh frame on the slot's own kernel stack.
StartProcess(p) ==
    /\ state' = [state EXCEPT ![p] = "Ready"]
    /\ ctx' = [ctx EXCEPT ![p] = p]
    /\ life' = [life EXCEPT ![p] = @ + 1]
    /\ kstack' = [kstack EXCEPT ![p] = [pid |-> p, life |-> life[p] + 1]]

\* Mutant: any free slot, not the lowest.
SpawnAnyFree(p) ==
    /\ InShell /\ shell = "ready"
    /\ p \in FreeSlots /\ life[p] < MAX_LIFE
    /\ StartProcess(p) /\ UNCHANGED <<hw, boot, machine, ticks>>

\* `spawn': free_slot and start_process, all under irq_save (what it does to
\* memory is the subject of Spawn.tla).
SpawnAt(p) ==
    /\ InShell
    /\ shell = "ready"
    /\ p \in FreeSlots /\ \A q \in FreeSlots : p <= q
    /\ life[p] < MAX_LIFE
    /\ StartProcess(p)
    /\ UNCHANGED <<hw, boot, machine, ticks>>

\* `kill' runs with IF = 1: it checks the state of the process ...
KillCheck(p) ==
    /\ InShell
    /\ shell = "ready"
    /\ p # 0
    /\ state[p] \notin {"Unused", "Zombie"}
    /\ shell' = "kill"
    /\ victim' = p
    /\ UNCHANGED <<table, hw, IF1, serial, machine, ticks>>

\* ... and marks it dead.
KillMark ==
    /\ InShell
    /\ shell = "kill"
    /\ state' = [state EXCEPT ![victim] = "Zombie"]
    /\ shell' = "ready"
    /\ victim' = 0
    /\ UNCHANGED <<ctx, kstack, life, hw, IF1, serial, machine, ticks>>

Next ==
    \/ Tick \/ YieldNow \/ ExitCurrent \/ PutC
    \/ RunShell \/ PrintBegin \/ PrintEnd \/ KillMark
    \/ \E p \in Slot : SpawnAt(p) \/ KillCheck(p)

Spec == Init /\ [][Next]_vars

----------------------------------------------------------------------------
(* Properties *)

TypeOK ==
    /\ state \in [Slot -> State]
    /\ ctx \in [Slot -> Stack \cup {NULL}]
    /\ kstack \in [Stack -> [pid : Slot \cup {NULL}, life : Nat]]
    /\ life \in [Slot -> Nat]
    /\ current \in Slot /\ rsp0 \in Stack
    /\ cpu \in [pid : Slot \cup {NULL}, life : Nat]
    /\ shell \in {"demo", "ready", "print", "kill"} /\ victim \in Slot
    /\ IF1 \in BOOLEAN /\ serial \in BOOLEAN
    /\ machine \in {"up", "hung", "panic"}
    /\ ticks \in 0 .. TIMER_DEMO_TICKS

\* The CPU executes the process CURRENT names, in its latest incarnation, from
\* the context it was interrupted in: no switch loads a stale, clobbered or
\* foreign frame (the contract of do_switch, sched.rs:297-303).
CpuIsCurrent == cpu = Context(current)

\* exit_current finds a process to switch to (sched.rs:359, `expect').
ExitHasFallback == machine # "panic"

\* No process spins on the serial lock the preempted shell holds
\* (main.rs:78-80).
NeverHung == machine # "hung"

\* Neither a panic in the scheduler nor a spin on the lock ends the scheduling,
\* whatever is started, killed and printed (sched.rs:359, main.rs:78-80).
StaysUp == ExitHasFallback /\ NeverHung

\* Dead processes stay dead: neither a tick nor a kill that was overtaken by
\* the process's own exit brings one back; only a new start reuses the slot
\* (sched.rs:229-230).
DeadStaysDead ==
    [][\A p \in Slot : state[p] = "Zombie" /\ state'[p] # "Zombie" => life'[p] = life[p] + 1]_vars

\* How far process p is ahead of slot c in the order of pick_next_other.
Ahead(c, p) == IF p > c THEN p - c ELSE p + MAX_PROCESSES - c

\* A switch passes over no waiting process: it brings every other Ready process
\* nearer to its turn (sched.rs:278-295).
RoundRobin ==
    [][current' # current =>
         \A p \in Slot \ {current} :
            state[p] = "Ready" /\ p # current' => Ahead(current', p) < Ahead(current, p)]_vars

\* At most one process is marked Running, and after the first tick of the
\* shell it is the one on the CPU (what `ps' prints, sched.rs:268).
OneRunning ==
    /\ \A p \in Slot : state[p] = "Running" => p = current
    /\ current # 0 => state[current] = "Running"

\* kill marks a live process: it answers true for no process that is already
\* dead (sched.rs:228-229).
KillsLive ==
    [][shell = "kill" /\ shell' = "ready" => state[victim] \notin {"Unused", "Zombie"}]_vars
=============================================================================
