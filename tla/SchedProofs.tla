---------------------------- MODULE SchedProofs ----------------------------
(***************************************************************************)
(* Theorems about Sched, for every size of the process table: alone, and    *)
(* when `spawn' is composed with the memory it takes (Spawn.tla); and that  *)
(* enough memory at boot is enough forever.                                 *)
(***************************************************************************)
EXTENDS Spawn, FiniteSetTheorems, WellFoundedInduction, TLAPS

\* Every nonempty set of natural numbers has a least element.
LEMMA LeastNat ==
    ASSUME NEW S, S \subseteq Nat, S # {}
    PROVE  \E x \in S : \A y \in S : x <= y
<1>1. \E x \in S : \A y \in S : ~(<<y, x>> \in OpToRel(<, Nat))
  BY Zenon, NatLessThanWellFounded, WFMin
<1>2. PICK x \in S : \A y \in S : ~(<<y, x>> \in OpToRel(<, Nat))
  BY Zenon, <1>1
<1>3. \A y \in S : ~(y < x)
  BY Zenon, <1>2 DEF OpToRel
<1>. QED  BY <1>3

\* The slot at distance k after slot c.
LEMMA Wrap ==
    ASSUME NEW c \in Slot, NEW k \in 1 .. MAX_PROCESSES - 1
    PROVE  (c + k) % MAX_PROCESSES = IF c + k < MAX_PROCESSES THEN c + k ELSE c + k - MAX_PROCESSES
BY SchedConstants DEF Slot

\* Slot p is at distance Ahead(c, p) after slot c.
LEMMA AheadWraps ==
    ASSUME NEW c \in Slot, NEW p \in Slot, c # p
    PROVE  Ahead(c, p) \in 1 .. MAX_PROCESSES - 1 /\ (c + Ahead(c, p)) % MAX_PROCESSES = p
<1>1. Ahead(c, p) \in 1 .. MAX_PROCESSES - 1
  BY SchedConstants DEF Slot, Ahead
<1>2. (c + Ahead(c, p)) % MAX_PROCESSES =
        IF c + Ahead(c, p) < MAX_PROCESSES THEN c + Ahead(c, p) ELSE c + Ahead(c, p) - MAX_PROCESSES
  BY <1>1, Wrap
<1>. QED  BY <1>1, <1>2, SchedConstants DEF Slot, Ahead

\* pick_next_other returns the nearest other Ready process.
LEMMA PickNearest ==
    ASSUME NEW st, current \in Slot, ReadyAt(st) # {}
    PROVE  /\ PickNextOther(st) \in Slot /\ PickNextOther(st) # current
           /\ st[PickNextOther(st)] = "Ready"
           /\ \A p \in Slot \ {current, PickNextOther(st)} :
                st[p] = "Ready" => Ahead(PickNextOther(st), p) < Ahead(current, p)
<1>1. PICK k \in ReadyAt(st) : k = CHOOSE x \in ReadyAt(st) : \A j \in ReadyAt(st) : x <= j
  <2>1. ReadyAt(st) \subseteq Nat
    BY DEF ReadyAt
  <2>2. \E x \in ReadyAt(st) : \A j \in ReadyAt(st) : x <= j
    BY <2>1, LeastNat
  <2>. QED BY <2>2
<1>2. \A j \in ReadyAt(st) : k <= j
  <2>1. ReadyAt(st) \subseteq Nat
    BY DEF ReadyAt
  <2>2. \E x \in ReadyAt(st) : \A j \in ReadyAt(st) : x <= j
    BY <2>1, LeastNat
  <2>. QED BY <1>1, <2>2
<1>3. PICK n : n = PickNextOther(st)
  OBVIOUS
<1>4. k \in 1 .. MAX_PROCESSES - 1 /\ n = (current + k) % MAX_PROCESSES /\ st[n] = "Ready"
  BY Zenon, <1>1, <1>3 DEF PickNextOther, ReadyAt
<1>5. n = IF current + k < MAX_PROCESSES THEN current + k ELSE current + k - MAX_PROCESSES
  BY <1>4, Wrap
<1>6. n \in Slot /\ n # current
  BY <1>4, <1>5, SchedConstants DEF Slot
<1>7. ASSUME NEW p \in Slot \ {current, n}, st[p] = "Ready" PROVE Ahead(n, p) < Ahead(current, p)
  <2>1. Ahead(current, p) \in ReadyAt(st)
    BY <1>7, AheadWraps DEF ReadyAt
  <2>2. k <= Ahead(current, p)
    BY <1>2, <2>1
  <2>. QED BY <1>4, <1>5, <1>6, <1>7, <2>2, SchedConstants DEF Ahead, Slot
<1>. QED  BY <1>3, <1>4, <1>6, <1>7

\* A Ready process other than CURRENT is found.
LEMMA PickFinds ==
    ASSUME NEW st, current \in Slot, NEW p \in Slot, p # current, st[p] = "Ready"
    PROVE  ReadyAt(st) # {}
BY AheadWraps DEF ReadyAt

----------------------------------------------------------------------------
(* The inductive invariant.  CpuIsCurrent alone is not inductive: that the  *)
(* next switch loads the right frame needs every waiting process's context  *)
(* to be intact on its own stack, and that needs rsp0 to be CURRENT's.      *)

Saved(p) == ctx[p] = p /\ kstack[p] = Context(p)

SInv ==
    /\ TypeOK
    /\ machine = "up"
    /\ CpuIsCurrent
    /\ OneRunning
    /\ state[current] # "Zombie"
    /\ current # 0 => rsp0 = current /\ state[0] = "Ready" /\ shell # "demo"
    /\ \A p \in Slot \ {current} : state[p] = "Ready" => Saved(p)
    /\ shell = "demo" => \A p \in Slot \ {0} : state[p] = "Unused"
    /\ shell = "kill" => victim # 0
    /\ serial => current = 0 /\ ~IF1
    /\ serial <=> shell = "print"

LEMMA InitSInv == Init => SInv
<1> SUFFICES ASSUME Init PROVE SInv
  OBVIOUS
<1>1. 0 \in Slot /\ TSS_STACK \in Stack /\ NULL \notin Slot
  BY SchedConstants DEF Slot, Stack, NULL
<1>2. Garbage \in [pid : Slot \cup {NULL}, life : Nat] /\ cpu \in [pid : Slot \cup {NULL}, life : Nat]
  BY <1>1 DEF Init, Garbage
<1>3. TypeOK
  <2>1. kstack \in [Stack -> [pid : Slot \cup {NULL}, life : Nat]]
    BY <1>2 DEF Init
  <2>2. /\ state \in [Slot -> State] /\ ctx \in [Slot -> Stack \cup {NULL}] /\ life \in [Slot -> Nat]
        /\ current \in Slot /\ rsp0 \in Stack /\ victim \in Slot
    BY <1>1 DEF Init, State
  <2>3. ticks \in 0 .. TIMER_DEMO_TICKS
    BY SchedConstants DEF Init
  <2>. QED BY Zenon, <1>2, <2>1, <2>2, <2>3 DEF Init, TypeOK
<1>4. CpuIsCurrent /\ OneRunning /\ state[current] # "Zombie"
  BY <1>1 DEF Init, CpuIsCurrent, OneRunning, Context
<1>. QED  BY <1>3, <1>4 DEF Init, SInv

\* In a state of the invariant an interrupt entry saves CURRENT on its own stack.
LEMMA EntryOwnStack ==
    ASSUME SInv
    PROVE  EntryStack = current /\ current \in Slot /\ current \in Stack /\ cpu.pid = current
BY DEF SInv, TypeOK, CpuIsCurrent, Context, EntryStack, Stack

\* do_switch to a Ready process whose context is saved.
LEMMA SwitchKeeps ==
    ASSUME SInv, ~serial, shell # "demo",
           NEW st \in [Slot -> State], NEW cx, NEW ks, NEW n \in Slot \ {current}, st[n] = "Ready",
           \A p \in Slot \ {current} : st[p] = state[p],
           st[current] \in {"Ready", "Zombie"}, current = 0 => st[current] = "Ready",
           cx \in [Slot -> Stack \cup {NULL}], ks \in [Stack -> [pid : Slot \cup {NULL}, life : Nat]],
           \A p \in Slot : st[p] = "Ready" => cx[p] = p /\ ks[p] = Context(p),
           DoSwitch(st, cx, ks, n), ctx' = cx, kstack' = ks,
           UNCHANGED <<life, boot, machine>>, ticks' \in 0 .. TIMER_DEMO_TICKS
    PROVE  SInv'
<1>1. /\ state' = [st EXCEPT ![n] = "Running"] /\ current' = n /\ rsp0' = n
      /\ cpu' = IF cx[n] = NULL THEN Garbage ELSE ks[cx[n]]
      /\ UNCHANGED <<shell, victim, IF1, serial>>
  BY DEF DoSwitch, SchedSwitch, boot
<1>2. cx[n] = n /\ ks[n] = Context(n) /\ n # NULL /\ n \in Stack
  BY DEF Slot, Stack, NULL
<1>3. cpu' = Context(n) /\ cpu' \in [pid : Slot \cup {NULL}, life : Nat]
  BY <1>1, <1>2 DEF SInv, TypeOK, Context
<1>4. TypeOK'
  BY <1>1, <1>2, <1>3 DEF SInv, TypeOK, State, Stack
<1>5. \A p \in Slot : state'[p] = IF p = n THEN "Running" ELSE st[p]
  BY <1>1
<1>6. CpuIsCurrent' /\ state'[current'] # "Zombie"
  BY <1>1, <1>3, <1>5 DEF CpuIsCurrent, Context
<1>7. OneRunning'
  BY <1>1, <1>5 DEF SInv, OneRunning
<1>8. current' # 0 => rsp0' = current' /\ state'[0] = "Ready" /\ shell' # "demo"
  <2>1. 0 \in Slot
    BY SchedConstants DEF Slot
  <2>2. st[0] = "Ready" \/ current = 0
    BY <2>1 DEF SInv
  <2>. QED BY <1>1, <1>5, <2>1, <2>2
<1>9. \A p \in Slot \ {current'} : state'[p] = "Ready" => Saved(p)'
  BY <1>1, <1>5 DEF Saved, Context
<1>. QED  BY <1>1, <1>4, <1>6, <1>7, <1>8, <1>9 DEF SInv

LEMMA PreemptKeeps ==
    ASSUME SInv, ~serial, shell = "demo" => current = 0, Preempt, ticks' \in 0 .. TIMER_DEMO_TICKS
    PROVE  SInv'
<1>1. PICK st, cx, ks : /\ st = [state EXCEPT ![current] = "Ready"]
                        /\ cx = [ctx EXCEPT ![current] = current]
                        /\ ks = [kstack EXCEPT ![current] = cpu]
  BY Zenon
<1>2. /\ ctx' = cx /\ kstack' = ks /\ UNCHANGED <<life, boot, machine>>
      /\ ReadyAt(st) # {} => DoSwitch(st, cx, ks, PickNextOther(st))
      /\ ReadyAt(st) = {} => state' = [st EXCEPT ![current] = "Running"] /\ UNCHANGED hw
  BY Zenon, <1>1, EntryOwnStack DEF Preempt
<1>3. /\ st \in [Slot -> State] /\ cx \in [Slot -> Stack \cup {NULL}]
      /\ ks \in [Stack -> [pid : Slot \cup {NULL}, life : Nat]]
  BY <1>1, EntryOwnStack DEF SInv, TypeOK, State, Stack
<1>4. /\ \A p \in Slot \ {current} : st[p] = state[p] /\ cx[p] = ctx[p] /\ ks[p] = kstack[p]
      /\ st[current] = "Ready" /\ cx[current] = current /\ ks[current] = cpu
  BY <1>1, EntryOwnStack DEF SInv, TypeOK, Stack
<1>5. \A p \in Slot : st[p] = "Ready" => cx[p] = p /\ ks[p] = Context(p)
  BY <1>4 DEF SInv, Saved, CpuIsCurrent
<1>6. CASE ReadyAt(st) # {}
  <2>1. PICK n : n = PickNextOther(st)
    OBVIOUS
  <2>2. n \in Slot \ {current} /\ st[n] = "Ready"
    BY <1>6, <2>1, PickNearest, EntryOwnStack
  <2>3. shell # "demo"
    BY <1>4, <2>2 DEF SInv
  <2>. QED BY <1>2, <1>3, <1>4, <1>5, <1>6, <2>1, <2>2, <2>3, SwitchKeeps
<1>7. CASE ReadyAt(st) = {}
  <2>1. /\ state' = [st EXCEPT ![current] = "Running"] /\ UNCHANGED <<current, rsp0, cpu>>
        /\ UNCHANGED <<shell, victim, IF1, serial, life, machine>>
    BY <1>2, <1>7 DEF hw, boot
  <2>2. \A p \in Slot : state'[p] = IF p = current THEN "Running" ELSE state[p]
    BY <1>3, <1>4, <2>1
  <2>3. current = 0
    <3>1. 0 \in Slot
      BY SchedConstants DEF Slot
    <3>. QED BY <1>4, <1>7, <3>1, PickFinds, EntryOwnStack DEF SInv
  <2>4. TypeOK'
    BY <1>2, <1>3, <2>1 DEF SInv, TypeOK, State
  <2>5. CpuIsCurrent' /\ OneRunning' /\ state'[current'] # "Zombie"
    BY <2>1, <2>2, EntryOwnStack DEF SInv, CpuIsCurrent, Context, OneRunning
  <2>6. \A p \in Slot \ {current'} : state'[p] = "Ready" => Saved(p)'
    BY <1>2, <1>4, <2>1, <2>2 DEF SInv, Saved, Context
  <2>7. shell' = "demo" => \A p \in Slot \ {0} : state'[p] = "Unused"
    BY <2>1, <2>2, <2>3 DEF SInv
  <2>. QED BY <2>1, <2>3, <2>4, <2>5, <2>6, <2>7 DEF SInv
<1>. QED  BY <1>6, <1>7

LEMMA ExitKeeps ==
    ASSUME SInv, ExitCurrent
    PROVE  SInv' /\ machine' = "up"
<1>1. PICK st, ks : /\ st = [state EXCEPT ![current] = "Zombie"]
                    /\ ks = [kstack EXCEPT ![current] = cpu]
  BY Zenon
<1>2. current # 0 /\ shell # "demo" /\ ~serial /\ 0 \in Slot
  BY EntryOwnStack, SchedConstants DEF ExitCurrent, InUser, SInv, Slot
<1>3. /\ st \in [Slot -> State] /\ ks \in [Stack -> [pid : Slot \cup {NULL}, life : Nat]]
      /\ ctx \in [Slot -> Stack \cup {NULL}]
  BY <1>1, EntryOwnStack DEF SInv, TypeOK, State, Stack
<1>4. /\ \A p \in Slot \ {current} : st[p] = state[p] /\ ks[p] = kstack[p]
      /\ st[current] = "Zombie"
  BY <1>1, EntryOwnStack DEF SInv, TypeOK, Stack
<1>5. ReadyAt(st) # {}
  BY <1>2, <1>4, PickFinds, EntryOwnStack DEF SInv
<1>6. PICK n : n = PickNextOther(st)
  OBVIOUS
<1>7. n \in Slot \ {current} /\ st[n] = "Ready"
  BY <1>5, <1>6, PickNearest, EntryOwnStack
<1>8. /\ DoSwitch(st, ctx, ks, n) /\ ctx' = ctx /\ kstack' = ks
      /\ UNCHANGED <<life, boot, machine>> /\ ticks' \in 0 .. TIMER_DEMO_TICKS
  BY Zenon, <1>1, <1>5, <1>6, EntryOwnStack DEF ExitCurrent, SInv, TypeOK
<1>9. \A p \in Slot : st[p] = "Ready" => ctx[p] = p /\ ks[p] = Context(p)
  BY <1>4 DEF SInv, Saved
<1>10. st[current] \in {"Ready", "Zombie"} /\ (current = 0 => st[current] = "Ready")
  BY <1>2, <1>4
<1>11. SInv'
  BY <1>2, <1>3, <1>4, <1>7, <1>8, <1>9, <1>10, SwitchKeeps
<1>. QED  BY <1>11 DEF SInv
LEMMA StartKeeps ==
    ASSUME SInv, NEW p \in Slot, SpawnAt(p)
    PROVE  SInv'
<1>1. /\ p # 0 /\ state[p] \in {"Unused", "Zombie"} /\ shell = "ready" /\ p # current
      /\ state' = [state EXCEPT ![p] = "Ready"] /\ ctx' = [ctx EXCEPT ![p] = p]
      /\ life' = [life EXCEPT ![p] = @ + 1]
      /\ kstack' = [kstack EXCEPT ![p] = [pid |-> p, life |-> life[p] + 1]]
      /\ UNCHANGED <<current, rsp0, cpu, shell, victim, IF1, serial, machine, ticks>>
  BY EntryOwnStack DEF SpawnAt, StartProcess, FreeSlots, InShell, hw, boot
<1>2. p \in Stack /\ life[p] + 1 \in Nat
  BY DEF SInv, TypeOK, Stack
<1>3. [pid |-> p, life |-> life[p] + 1] \in [pid : Slot \cup {NULL}, life : Nat]
  BY <1>2
<1>4. TypeOK'
  BY <1>1, <1>2, <1>3 DEF SInv, TypeOK, State
<1>5. /\ \A q \in Slot : state'[q] = IF q = p THEN "Ready" ELSE state[q]
      /\ \A q \in Slot \ {p} : ctx'[q] = ctx[q] /\ life'[q] = life[q] /\ kstack'[q] = kstack[q]
      /\ ctx'[p] = p /\ life'[p] = life[p] + 1 /\ kstack'[p] = [pid |-> p, life |-> life[p] + 1]
  BY <1>1, <1>2 DEF SInv, TypeOK, Stack
<1>6. CpuIsCurrent' /\ OneRunning' /\ state'[current'] # "Zombie"
  BY <1>1, <1>5, EntryOwnStack DEF SInv, CpuIsCurrent, Context, OneRunning
<1>7. \A q \in Slot \ {current'} : state'[q] = "Ready" => Saved(q)'
  BY <1>1, <1>5 DEF SInv, Saved, Context
<1>8. current' # 0 => rsp0' = current' /\ state'[0] = "Ready" /\ shell' # "demo"
  BY <1>1, <1>5, SchedConstants DEF SInv, Slot
<1>. QED  BY <1>1, <1>4, <1>6, <1>7, <1>8 DEF SInv

LEMMA KillKeeps ==
    ASSUME SInv, KillMark
    PROVE  SInv'
<1>1. /\ victim # 0 /\ victim \in Slot /\ current = 0 /\ shell = "kill" /\ ~serial
      /\ state' = [state EXCEPT ![victim] = "Zombie"] /\ shell' = "ready" /\ victim' = 0
      /\ UNCHANGED <<ctx, kstack, life, current, rsp0, cpu, IF1, serial, machine, ticks>>
  BY EntryOwnStack DEF KillMark, InShell, SInv, TypeOK, hw
<1>2. TypeOK'
  BY <1>1, EntryOwnStack DEF SInv, TypeOK, State
<1>3. \A q \in Slot : state'[q] = IF q = victim THEN "Zombie" ELSE state[q]
  BY <1>1 DEF SInv, TypeOK
<1>4. CpuIsCurrent' /\ OneRunning' /\ state'[current'] # "Zombie"
  BY <1>1, <1>3, EntryOwnStack DEF SInv, CpuIsCurrent, Context, OneRunning
<1>5. \A q \in Slot \ {current'} : state'[q] = "Ready" => Saved(q)'
  BY <1>1, <1>3 DEF SInv, Saved, Context
<1>. QED  BY <1>1, <1>2, <1>4, <1>5 DEF SInv

LEMMA RunShellKeeps ==
    ASSUME SInv, RunShell
    PROVE  SInv'
<1>1. /\ current = 0 /\ shell = "demo" /\ 0 \in Slot /\ ~serial
      /\ state' = [state EXCEPT ![0] = "Ready"] /\ ctx' = [ctx EXCEPT ![0] = NULL]
      /\ current' = 0 /\ shell' = "ready"
      /\ UNCHANGED <<kstack, life, rsp0, cpu, victim, IF1, serial, machine, ticks>>
  BY EntryOwnStack DEF RunShell, InitIdle, InShell, SInv
<1>2. TypeOK'
  BY <1>1 DEF SInv, TypeOK, State
<1>3. \A q \in Slot : state'[q] = IF q = 0 THEN "Ready" ELSE "Unused"
  BY <1>1 DEF SInv, TypeOK
<1>4. CpuIsCurrent' /\ OneRunning' /\ state'[current'] # "Zombie"
  BY <1>1, <1>3 DEF SInv, CpuIsCurrent, Context, OneRunning
<1>5. \A q \in Slot \ {current'} : state'[q] = "Ready" => Saved(q)'
  BY <1>1, <1>3
<1>. QED  BY <1>1, <1>2, <1>4, <1>5 DEF SInv

\* The steps of the shell that leave the process table alone.
LEMMA ShellKeeps ==
    ASSUME SInv, UNCHANGED <<table, hw, machine, ticks>>, shell # "demo", current = 0,
           shell' \in {"ready", "print", "kill"}, victim' \in Slot, shell' = "kill" => victim' # 0,
           IF1' \in BOOLEAN, serial' \in BOOLEAN, serial' => ~IF1', serial' <=> shell' = "print"
    PROVE  SInv'
<1>1. UNCHANGED <<state, ctx, kstack, life, current, rsp0, cpu, machine, ticks>>
  BY DEF table, hw
<1>2. TypeOK'
  BY <1>1 DEF SInv, TypeOK
<1>3. CpuIsCurrent' /\ OneRunning' /\ state'[current'] # "Zombie"
  BY <1>1 DEF SInv, CpuIsCurrent, OneRunning, Context
<1>4. \A q \in Slot \ {current'} : state'[q] = "Ready" => Saved(q)'
  BY <1>1 DEF SInv, Saved, Context
<1>. QED  BY <1>1, <1>2, <1>3, <1>4 DEF SInv

LEMMA StepSInv == SInv /\ [Next]_vars => SInv'
<1> SUFFICES ASSUME SInv, [Next]_vars PROVE SInv'
  OBVIOUS
<1>1. CASE Tick
  <2>1. ~serial /\ (shell = "demo" => current = 0) /\ Preempt
    BY <1>1, EntryOwnStack DEF Tick, InShell, SInv
  <2>2. ticks' \in 0 .. TIMER_DEMO_TICKS
    BY <1>1, SchedConstants DEF Tick, SInv, TypeOK
  <2>. QED BY <2>1, <2>2, PreemptKeeps
<1>2. CASE YieldNow
  <2>1. ~serial /\ (shell = "demo" => current = 0) /\ Preempt /\ ticks' \in 0 .. TIMER_DEMO_TICKS
    BY <1>2, EntryOwnStack DEF YieldNow, InUser, SInv, TypeOK
  <2>. QED BY <2>1, PreemptKeeps
<1>3. CASE ExitCurrent
  BY <1>3, ExitKeeps
<1>4. CASE PutC
  <2>1. /\ UNCHANGED <<state, ctx, life, current, rsp0, cpu, shell, victim, IF1, serial, machine, ticks>>
        /\ kstack' = [kstack EXCEPT ![current] = cpu]
    BY Zenon, <1>4, EntryOwnStack DEF PutC, InUser, SInv, hw, boot
  <2>2. TypeOK' /\ \A p \in Slot \ {current} : kstack'[p] = kstack[p]
    BY <2>1, EntryOwnStack DEF SInv, TypeOK, Stack
  <2>3. \A p \in Slot \ {current'} : state'[p] = "Ready" => Saved(p)'
    BY <2>1, <2>2 DEF SInv, Saved, Context
  <2>. QED BY <2>1, <2>2, <2>3 DEF SInv, CpuIsCurrent, OneRunning, Context
<1>10. CASE UNCHANGED vars
  <2>1. UNCHANGED <<state, ctx, kstack, life, current, rsp0, cpu, shell, victim, IF1, serial, machine, ticks>>
    BY <1>10 DEF vars, table, hw, boot
  <2>. QED BY <2>1 DEF SInv, TypeOK, CpuIsCurrent, OneRunning, Saved, Context
<1>5. CASE RunShell
  BY <1>5, RunShellKeeps
<1>6. CASE PrintBegin \/ PrintEnd
  BY Zenon, <1>6, ShellKeeps, EntryOwnStack DEF PrintBegin, PrintEnd, IrqSave, InShell, SInv, TypeOK
<1>7. CASE KillMark
  BY <1>7, KillKeeps
<1>8. ASSUME NEW p \in Slot, SpawnAt(p) PROVE SInv'
  BY <1>8, StartKeeps
<1>9. ASSUME NEW p \in Slot, KillCheck(p) PROVE SInv'
  BY <1>9, ShellKeeps, EntryOwnStack DEF KillCheck, InShell, SInv, TypeOK
<1>. QED  BY <1>1, <1>2, <1>3, <1>4, <1>5, <1>6, <1>7, <1>8, <1>9, <1>10 DEF Next

LEMMA SchedInvariance == Spec => []SInv
BY InitSInv, StepSInv, PTL DEF Spec

----------------------------------------------------------------------------
(* Theorems *)

\* The scheduler's state keeps its types: every index it computes is a slot of
\* the table, and no context it resumes is one of a process that never was.
THEOREM SchedTypes == Spec => []TypeOK
<1>1. SInv => TypeOK
  BY DEF SInv
<1>. QED  BY <1>1, SchedInvariance, PTL

\* For every table size: the CPU always executes the process CURRENT names,
\* from the frame it was interrupted in (sched.rs do_switch, on_tick, yield_now).
THEOREM RunsCurrent == Spec => []CpuIsCurrent
<1>1. SInv => CpuIsCurrent
  BY DEF SInv
<1>. QED  BY <1>1, SchedInvariance, PTL

\* exit_current's `expect' never fails: the shell is Ready whenever a user
\* process runs (sched.rs exit_current).
THEOREM ExitSafe == Spec => []ExitHasFallback
<1>1. SInv => ExitHasFallback
  BY DEF SInv, ExitHasFallback
<1>. QED  BY <1>1, SchedInvariance, PTL

\* SYS_PUTC never waits for the shell: the serial lock is only held with
\* interrupts off (main.rs with_serial).
THEOREM SerialSafe == Spec => []NeverHung
<1>1. SInv => NeverHung
  BY DEF SInv, NeverHung
<1>. QED  BY <1>1, SchedInvariance, PTL

\* No scheduling step panics or hangs the machine (sched.rs exit_current, main.rs
\* with_serial).
THEOREM MachineStaysUp == Spec => []StaysUp
<1>1. ExitHasFallback /\ NeverHung => StaysUp
  BY DEF StaysUp
<1>. QED  BY <1>1, ExitSafe, SerialSafe, PTL

\* At most one process is marked Running, the one on the CPU (sched.rs State).
THEOREM RunningUnique == Spec => []OneRunning
<1>1. SInv => OneRunning
  BY DEF SInv
<1>. QED  BY <1>1, SchedInvariance, PTL

\* Neither a tick nor an overtaken kill revives a dead process (sched.rs on_tick,
\* kill, start_process).
THEOREM NoRevival == Spec => DeadStaysDead
<1>1. ASSUME SInv, [Next]_vars
      PROVE  [\A p \in Slot : state[p] = "Zombie" /\ state'[p] # "Zombie" => life'[p] = life[p] + 1]_vars
  <2> SUFFICES ASSUME NEW p \in Slot, state[p] = "Zombie", state'[p] # "Zombie" PROVE life'[p] = life[p] + 1
    OBVIOUS
  <2>1. p # current /\ state \in [Slot -> State] /\ life \in [Slot -> Nat] /\ current \in Slot
    BY <1>1 DEF SInv, TypeOK
  <2>2. ASSUME NEW st, st[p] = "Zombie", st \in [Slot -> State], NEW cx, NEW ks, ReadyAt(st) # {},
               DoSwitch(st, cx, ks, PickNextOther(st))
        PROVE  FALSE
    BY <2>1, <2>2, PickNearest DEF DoSwitch, SchedSwitch
  <2>3. ~Preempt
    BY Zenon, <2>1, <2>2 DEF Preempt, State
  <2>4. ~ExitCurrent
    BY Zenon, <2>1, <2>2 DEF ExitCurrent, State
  <2>5. state' # state /\ ~(\E q \in Slot : state' = [state EXCEPT ![q] = "Zombie"])
    BY <2>1
  <2>6. ~RunShell
    <3>1. RunShell => p = 0 /\ current = 0
      BY <2>1, EntryOwnStack, <1>1, SchedConstants DEF RunShell, InitIdle, InShell, Slot
    <3>. QED BY <2>1, <3>1
  <2>7. PICK q \in Slot : SpawnAt(q)
    BY <1>1, <2>3, <2>4, <2>5, <2>6 DEF Next, Tick, YieldNow, PutC, PrintBegin, PrintEnd, KillMark,
         KillCheck, vars, table, SInv, TypeOK
  <2>. QED BY <2>1, <2>7 DEF SpawnAt, StartProcess
<1>. QED  BY <1>1, SchedInvariance, PTL DEF Spec, DeadStaysDead

\* No switch passes over a waiting process, so each waits for at most
\* MAX_PROCESSES - 1 switches (sched.rs pick_next_other).
THEOREM Fair == Spec => RoundRobin
<1>1. ASSUME SInv, [Next]_vars
      PROVE  [current' # current =>
                \A p \in Slot \ {current} :
                   state[p] = "Ready" /\ p # current' => Ahead(current', p) < Ahead(current, p)]_vars
  <2> SUFFICES ASSUME current' # current, NEW p \in Slot \ {current}, state[p] = "Ready", p # current'
               PROVE  Ahead(current', p) < Ahead(current, p)
    OBVIOUS
  <2>1. state \in [Slot -> State] /\ current \in Slot
    BY <1>1 DEF SInv, TypeOK
  <2>2. ASSUME NEW l \in State, NEW cx, NEW ks, ReadyAt([state EXCEPT ![current] = l]) # {},
               DoSwitch([state EXCEPT ![current] = l], cx, ks, PickNextOther([state EXCEPT ![current] = l]))
        PROVE  Ahead(current', p) < Ahead(current, p)
    <3>1. PICK st : st = [state EXCEPT ![current] = l]
      BY Zenon
    <3>2. st[p] = "Ready" /\ current' = PickNextOther(st) /\ ReadyAt(st) # {}
      BY Zenon, <2>1, <2>2, <3>1 DEF DoSwitch, SchedSwitch
    <3>. QED BY <2>1, <3>2, PickNearest
  <2>3. Preempt \/ ExitCurrent
    BY SMTT(30), <1>1, EntryOwnStack DEF Next, Tick, YieldNow, PutC, PrintBegin, PrintEnd, KillMark, KillCheck, SpawnAt,
         RunShell, InitIdle, InShell, vars, hw
  <2>. QED BY Zenon, <2>2, <2>3 DEF Preempt, ExitCurrent, hw, State
<1>. QED  BY <1>1, SchedInvariance, PTL DEF Spec, RoundRobin

----------------------------------------------------------------------------
(* The scheduler composed with the memory spawn takes. *)

LEMMA StepSched ==
    ASSUME [SpawnNext]_spawnVars
    PROVE  [Next]_vars
<1>1. CASE Others
  BY <1>1 DEF Others, Next
<1>2. ASSUME NEW p \in Slot, SpawnAt(p) PROVE Next
  BY <1>2 DEF Next
<1>3. CASE UNCHANGED spawnVars
  BY <1>3 DEF spawnVars
<1>. QED
  BY <1>1, <1>2, <1>3 DEF SpawnNext, SpawnReuse, SpawnFresh, SpawnNone, SpawnPanic, UserFault

LEMMA ComposedInvariance == SpawnSpec => []SInv
<1>1. SpawnInit => SInv
  BY InitSInv DEF SpawnInit
<1>2. SInv /\ [SpawnNext]_spawnVars => SInv'
  BY StepSched, StepSInv
<1>. QED  BY <1>1, <1>2, PTL DEF SpawnSpec

\* With memory in the picture too the CPU runs what CURRENT names, from an intact
\* context, whichever slot a spawn takes over, is refused or panics in (do_switch,
\* sched.rs:297-303, under spawn_process_locked, main.rs:486-527).
THEOREM ComposedRunsCurrent == SpawnSpec => []CpuIsCurrent
<1>1. SInv => CpuIsCurrent
  BY DEF SInv
<1>. QED  BY <1>1, ComposedInvariance, PTL

----------------------------------------------------------------------------
(* Enough memory is enough.  What the proof needs beside the scheduler's    *)
(* invariant: as long as nothing went wrong the regions are absent or       *)
(* complete, and the pool covers all the absent ones.                       *)

MappedSlots == {p \in Slot : code[p] > 0}

\* The frames the regions that are still absent will take.
Due == (IF pd THEN 0 ELSE 1) + (CODE_FRAMES + 2) * (MAX_PROCESSES - 1 - Cardinality(MappedSlots))

Whole == \A p \in Slot : code[p] = 0 \/ (code[p] = CODE_FRAMES /\ p \in stack)

MInv ==
    /\ pool0 \in Nat /\ pool \in Nat /\ pd \in BOOLEAN
    /\ code \in [Slot -> 0 .. CODE_FRAMES]
    /\ shell = "kill" => state[victim] # "Unused"
    /\ pool0 >= Enough =>
         /\ halted = "no" /\ Whole
         /\ pt = MappedSlots /\ 0 \notin MappedSlots
         /\ \A p \in Slot \ {0} : state[p] # "Unused" => p \in MappedSlots
         /\ pool >= Due

\* Only start_process takes a slot other than the shell's out of Unused.
LEMMA OthersUnused ==
    ASSUME SInv, Others, shell = "kill" => state[victim] # "Unused", NEW p \in Slot
    PROVE  /\ state[p] # "Unused" => state'[p] # "Unused"
           /\ state[p] = "Unused" /\ p # 0 => state'[p] = "Unused"
<1>1. /\ state \in [Slot -> State] /\ current \in Slot /\ victim \in Slot
      /\ current # 0 => state[current] = "Running"
  BY DEF SInv, TypeOK, OneRunning
<1>2. ASSUME NEW l \in {"Ready", "Zombie"}, NEW cx, NEW ks, ReadyAt([state EXCEPT ![current] = l]) # {},
             DoSwitch([state EXCEPT ![current] = l], cx, ks, PickNextOther([state EXCEPT ![current] = l]))
      PROVE  /\ state[p] # "Unused" => state'[p] # "Unused"
             /\ state[p] = "Unused" /\ p # 0 => state'[p] = "Unused"
  <2>1. PICK st, n : st = [state EXCEPT ![current] = l] /\ n = PickNextOther(st)
    BY Zenon
  <2>2. st \in [Slot -> State] /\ ReadyAt(st) # {} /\ state' = [st EXCEPT ![n] = "Running"]
    BY Zenon, <1>1, <1>2, <2>1 DEF DoSwitch, SchedSwitch, State
  <2>3. n \in Slot /\ st[n] = "Ready"
    BY Zenon, <1>1, <2>1, <2>2, PickNearest
  <2>. QED BY <1>1, <2>1, <2>2, <2>3
<1>3. CASE Preempt
  BY Zenon, <1>1, <1>2, <1>3 DEF Preempt
<1>4. CASE ExitCurrent
  BY Zenon, <1>1, <1>2, <1>4, EntryOwnStack DEF ExitCurrent, InUser
<1>5. CASE RunShell
  BY <1>1, <1>5 DEF RunShell, InitIdle
<1>6. CASE KillMark
  BY <1>1, <1>6 DEF KillMark
<1>7. CASE state' = state
  BY <1>7
<1>. QED  BY <1>3, <1>4, <1>5, <1>6, <1>7
     DEF Others, Tick, YieldNow, PutC, PrintBegin, PrintEnd, KillCheck, table

LEMMA OthersKill ==
    ASSUME SInv, Others, shell = "kill" => state[victim] # "Unused"
    PROVE  shell' = "kill" => state'[victim'] # "Unused"
<1>1. \A p \in Slot : state[p] # "Unused" => state'[p] # "Unused"
  BY OthersUnused
<1>2. victim \in Slot
  BY DEF SInv, TypeOK
<1>3. ASSUME NEW p \in Slot, KillCheck(p) PROVE victim' = p /\ state[p] # "Unused"
  BY SMTT(30), <1>3 DEF KillCheck
<1>4. UNCHANGED <<shell, victim>> \/ shell' # "kill" \/ \E p \in Slot : KillCheck(p)
  BY DEF Others, Tick, YieldNow, Preempt, ExitCurrent, PutC, RunShell, InitIdle, PrintBegin, PrintEnd, KillMark, boot
<1>. QED  BY <1>1, <1>2, <1>3, <1>4

LEMMA Times ==
    ASSUME NEW k \in Nat, NEW a \in Nat, a > 0
    PROVE  k * a >= k /\ k * (a - 1) = k * a - k
OBVIOUS

\* A slot without a region is still in the pool's budget.
LEMMA DueCovers ==
    ASSUME code \in [Slot -> 0 .. CODE_FRAMES], pool \in Nat, pd \in BOOLEAN, pool >= Due,
           pt = MappedSlots, 0 \notin MappedSlots,
           NEW p \in Slot \ {0}, code[p] = 0
    PROVE  pool >= RegionFrames(p) /\ ~MapPanics(p)
<1>1. PICK n, I : n = MAX_PROCESSES - 1 /\ I = 1 .. n
  OBVIOUS
<1>2. n \in Nat \ {0} /\ MappedSlots \subseteq I \ {p} /\ p \in I
  BY <1>1, SchedConstants DEF MappedSlots, Slot
<1>3. IsFiniteSet(I) /\ Cardinality(I) = n
  <2>1. 1 \in Int /\ n \in Int /\ ~(1 > n)
    BY <1>2
  <2>2. IsFiniteSet(1 .. n) /\ Cardinality(1 .. n) = n - 1 + 1
    BY Zenon, <2>1, FS_Interval
  <2>. QED BY <1>1, <1>2, <2>2
<1>4. Cardinality(MappedSlots) \in Nat /\ Cardinality(MappedSlots) <= n - 1
  <2>1. IsFiniteSet(I \ {p}) /\ Cardinality(I \ {p}) = n - 1
    BY <1>2, <1>3, FS_RemoveElement
  <2>. QED BY <1>2, <2>1, FS_Subset, FS_CardinalityType
<1>5. PICK a : a = MAX_PROCESSES - 1 - Cardinality(MappedSlots)
  OBVIOUS
<1>6. a \in Nat /\ a > 0
  BY <1>1, <1>2, <1>4, <1>5
<1>7. (CODE_FRAMES + 2) * a >= CODE_FRAMES + 2
  BY <1>6, Times, SpawnConstants
<1>8. NewTables(p) = (IF pd THEN 0 ELSE 1) + 1
  BY DEF NewTables, MappedSlots
<1>. QED  BY <1>5, <1>6, <1>7, <1>8, SpawnConstants DEF Due, RegionFrames, MapPanics

LEMMA MappedFinite == IsFiniteSet(MappedSlots) /\ Cardinality(MappedSlots) \in Nat
<1>1. 0 \in Int /\ MAX_PROCESSES - 1 \in Int
  BY SchedConstants
<1>2. IsFiniteSet(Slot)
  BY <1>1, FS_Interval DEF Slot
<1>3. MappedSlots \in SUBSET Slot
  BY DEF MappedSlots
<1>. QED  BY <1>2, <1>3, FS_Subset, FS_CardinalityType

\* Mapping a region takes its frames out of the pool and out of what is due.
LEMMA DueFresh ==
    ASSUME MInv, pool0 >= Enough, NEW p \in Slot \ {0}, code[p] = 0,
           pool >= RegionFrames(p), pool' = pool - RegionFrames(p), pd' = TRUE,
           code' = [code EXCEPT ![p] = CODE_FRAMES]
    PROVE  pool' >= Due' /\ MappedSlots' = MappedSlots \cup {p}
<1>1. MappedSlots' = MappedSlots \cup {p} /\ p \notin MappedSlots
  BY SpawnConstants DEF MInv, MappedSlots
<1>2. Cardinality(MappedSlots') = Cardinality(MappedSlots) + 1
  BY Zenon, <1>1, MappedFinite, FS_AddElement
<1>3. pool >= Due /\ pt = MappedSlots /\ pool \in Nat /\ pd \in BOOLEAN
  BY DEF MInv
<1>4. RegionFrames(p) = CODE_FRAMES + 2 + (IF pd THEN 0 ELSE 1)
  BY <1>1, <1>3, SpawnConstants DEF RegionFrames, NewTables
<1>5. PICK k, m, a : k = CODE_FRAMES + 2 /\ m = Cardinality(MappedSlots) /\ a = MAX_PROCESSES - 1 - m
  OBVIOUS
<1>6. k \in Nat /\ m \in Nat /\ a \in Int /\ k * (a - 1) = k * a - k /\ k * a \in Int
  BY <1>5, MappedFinite, SpawnConstants, SchedConstants
<1>7. Due = (IF pd THEN 0 ELSE 1) + k * a /\ MAX_PROCESSES - 1 - (m + 1) = a - 1
  BY <1>5, <1>6, SchedConstants DEF Due
<1>8. Due' = k * (a - 1)
  BY <1>2, <1>5, <1>6, <1>7 DEF Due
<1>. QED  BY <1>1, <1>3, <1>4, <1>5, <1>6, <1>7, <1>8

LEMMA InitMInv == SpawnInit => MInv
<1> SUFFICES ASSUME SpawnInit PROVE MInv
  OBVIOUS
<1>1. MappedSlots = {}
  BY DEF SpawnInit, MappedSlots
<1>2. Cardinality(MappedSlots) = 0
  BY <1>1, FS_EmptySet
<1>3. pool0 \in Nat /\ pool = pool0 /\ pd = FALSE
  BY SpawnConstants DEF SpawnInit
<1>4. pool >= Enough => pool >= Due
  BY <1>2, <1>3, SpawnConstants, SchedConstants DEF Due, Enough
<1>5. code \in [Slot -> 0 .. CODE_FRAMES] /\ Whole /\ pt = MappedSlots
  BY <1>1, SpawnConstants DEF SpawnInit, Whole
<1>6. shell # "kill" /\ halted = "no" /\ \A p \in Slot : state[p] = "Unused"
  BY DEF SpawnInit, Init
<1>. QED  BY Zenon, <1>1, <1>3, <1>4, <1>5, <1>6 DEF MInv

LEMMA StepMInv ==
    ASSUME SInv, MInv, [SpawnNext]_spawnVars
    PROVE  MInv'
<1>0. current \in Slot /\ CpuIsCurrent /\ 0 \in Slot /\ state \in [Slot -> State]
  BY SchedConstants DEF SInv, TypeOK, Slot
<1>1. CASE Others /\ UNCHANGED <<memory, halted>>
  <2>1. MappedSlots' = MappedSlots /\ Due' = Due /\ (Whole' <=> Whole)
    BY <1>1 DEF memory, MappedSlots, Due, Whole
  <2>2. shell' = "kill" => state'[victim'] # "Unused"
    BY <1>1, OthersKill DEF MInv
  <2>3. \A p \in Slot \ {0} : state'[p] # "Unused" => state[p] # "Unused"
    BY <1>1, OthersUnused DEF MInv
  <2>. QED BY <1>1, <2>1, <2>2, <2>3 DEF MInv, memory
<1>2. CASE \E p \in Slot : SpawnReuse(p) \/ SpawnFresh(p)
  <2>1. PICK p \in Slot : SpawnReuse(p) \/ SpawnFresh(p)
    BY <1>2
  <2>2. SpawnAt(p)
    BY <2>1 DEF SpawnReuse, SpawnFresh
  <2>3. shell' # "kill" /\ p # 0 /\ state' = [state EXCEPT ![p] = "Ready"]
    BY <2>2 DEF SpawnAt, StartProcess, FreeSlots, boot
  <2>4. CASE SpawnReuse(p)
    <3>1. UNCHANGED <<pool, pool0, pd, pt, code, stack, halted>> /\ p \in MappedSlots
      BY <2>4 DEF SpawnReuse, memory, Mapped, MappedSlots
    <3>2. MappedSlots' = MappedSlots /\ Due' = Due /\ (Whole' <=> Whole)
      BY <3>1 DEF MappedSlots, Due, Whole
    <3>. QED BY <1>0, <2>3, <3>1, <3>2 DEF MInv
  <2>5. CASE SpawnFresh(p)
    <3>1. /\ code[p] = 0 /\ pool >= RegionFrames(p) /\ pool' = pool - RegionFrames(p)
          /\ pd' = TRUE /\ pt' = pt \cup {p} /\ code' = [code EXCEPT ![p] = CODE_FRAMES]
          /\ stack' = stack \cup {p} /\ pool0' = pool0 /\ halted' = halted
      BY <2>5 DEF SpawnFresh, Mapped, MInv
    <3>2. pool' \in Nat /\ code' \in [Slot -> 0 .. CODE_FRAMES]
      BY <3>1, SpawnConstants DEF MInv, RegionFrames, NewTables
    <3>3. pool0 >= Enough => pool' >= Due' /\ MappedSlots' = MappedSlots \cup {p}
      BY Zenon, <2>3, <3>1, DueFresh
    <3>4. Whole => Whole'
      BY <3>1 DEF MInv, Whole
    <3>5. pool0 >= Enough => \A q \in Slot \ {0} : state'[q] # "Unused" => q \in MappedSlots'
      BY <1>0, <2>3, <3>3 DEF MInv
    <3>. QED BY <2>3, <3>1, <3>2, <3>3, <3>4, <3>5 DEF MInv
  <2>. QED BY <2>1, <2>4, <2>5
<1>3. CASE \E p \in Slot : SpawnNone(p) \/ SpawnPanic(p)
  <2>1. PICK p \in Slot : SpawnNone(p) \/ SpawnPanic(p)
    BY <1>3
  <2>2. code[p] = 0 /\ p # 0 /\ (MapPanics(p) \/ pool < RegionFrames(p))
    BY <2>1 DEF SpawnNone, SpawnPanic, Mapped, FreeSlot, FreeSlots, MInv
  <2>3. ~(pool0 >= Enough)
    <3>1. SUFFICES ASSUME pool0 >= Enough PROVE FALSE
      OBVIOUS
    <3>2. pool >= RegionFrames(p) /\ ~MapPanics(p)
      BY <2>2, <3>1, DueCovers DEF MInv
    <3>. QED BY <2>2, <3>2, SpawnConstants DEF RegionFrames, NewTables, MInv
  <2>4. UNCHANGED <<vars, pool0>> /\ pool' = 0 /\ pd' \in BOOLEAN
    BY Zenon, <2>1 DEF SpawnNone, SpawnPanic, MInv
  <2>5. code' \in [Slot -> 0 .. CODE_FRAMES]
    <3>1. CASE SpawnPanic(p)
      BY <3>1 DEF SpawnPanic, MInv
    <3>2. CASE SpawnNone(p)
      <4>1. (IF pool > 0 THEN pool - NewTables(p) ELSE 0) \in 0 .. CODE_FRAMES
        BY <3>2, SpawnConstants DEF SpawnNone, MapPanics, RegionFrames, NewTables, MInv
      <4>. QED BY <3>2, <4>1 DEF SpawnNone, MInv
    <3>. QED BY <2>1, <3>1, <3>2
  <2>6. (shell' = "kill" => state'[victim'] # "Unused") /\ pool0' = pool0 /\ pool0 \in Nat
    BY <2>4 DEF MInv, vars, table, boot
  <2>7. Enough' = Enough
    BY DEF Enough
  <2>. QED BY <2>3, <2>4, <2>5, <2>6, <2>7 DEF MInv
<1>4. CASE UserFault
  <2>1. UNCHANGED <<vars, memory>> /\ InUser /\ (cpu.pid \notin stack \/ code[cpu.pid] < CODE_FRAMES)
    BY <1>4 DEF UserFault
  <2>2. cpu.pid = current /\ current # 0 /\ state[current] = "Running"
    BY <1>0, <2>1 DEF InUser, CpuIsCurrent, Context, SInv, OneRunning
  <2>3. ~(pool0 >= Enough)
    <3>1. SUFFICES ASSUME pool0 >= Enough PROVE FALSE
      OBVIOUS
    <3>2. current \in MappedSlots /\ Whole
      BY <1>0, <2>2, <3>1 DEF MInv
    <3>. QED BY <1>0, <2>1, <2>2, <3>2, SpawnConstants DEF Whole, MappedSlots
  <2>4. (shell' = "kill" => state'[victim'] # "Unused") /\ UNCHANGED <<pool0, pool, pd, code>>
    BY <2>1 DEF MInv, vars, table, boot, memory
  <2>. QED BY <2>3, <2>4 DEF MInv, Enough
<1>5. CASE UNCHANGED spawnVars
  <2>1. UNCHANGED <<state, shell, victim, pool0, pool, pd, pt, code, stack, halted>>
    BY <1>5 DEF spawnVars, vars, table, boot, memory
  <2>2. MappedSlots' = MappedSlots /\ Due' = Due /\ (Whole' <=> Whole)
    BY <2>1 DEF MappedSlots, Due, Whole
  <2>. QED BY <2>1, <2>2 DEF MInv
<1>. QED  BY <1>1, <1>2, <1>3, <1>4, <1>5 DEF SpawnNext

\* With frames for every region at boot the machine never stops for want of
\* memory or of a stack page, whatever is spawned, killed or preempted
\* (main.rs:499-521): the inductive invariant MInv keeps the pool above Due.
THEOREM AmpleSafe == SpawnSpec => []AmpleIsSafe
<1>1. MInv => AmpleIsSafe
  BY DEF MInv, AmpleIsSafe
<1>2. SInv /\ MInv /\ [SpawnNext]_spawnVars => MInv'
  BY StepMInv
<1>. QED  BY <1>1, <1>2, ComposedInvariance, InitMInv, PTL DEF SpawnSpec
----------------------------------------------------------------------------
(* However little memory there is.  What FramesSound needs beside the       *)
(* scheduler's invariant: a slot that was ever used keeps its region, a     *)
(* region is incomplete only with nothing left, and only a mapped region    *)
(* has a stack.                                                             *)

FInv ==
    /\ SpawnTypeOK /\ FramesAccounted
    /\ shell = "kill" => state[victim] # "Unused"
    /\ \A p \in Slot \ {0} : state[p] # "Unused" => code[p] > 0
    /\ \A p \in Slot : code[p] > 0 /\ (p \notin stack \/ code[p] < CODE_FRAMES) => pool = 0
    /\ stack \subseteq MappedSlots
LEMMA SlotFinite ==
    ASSUME NEW S \in SUBSET Slot
    PROVE  IsFiniteSet(S) /\ Cardinality(S) \in Nat
<1>1. 0 \in Int /\ MAX_PROCESSES - 1 \in Int
  BY SchedConstants
<1>2. IsFiniteSet(Slot)
  BY <1>1, FS_Interval DEF Slot
<1>. QED  BY <1>2, FS_Subset, FS_CardinalityType

\* Adding a slot to a set of slots counts it once.
LEMMA SlotAdded ==
    ASSUME NEW S \in SUBSET Slot, NEW p \in Slot
    PROVE  Cardinality(S \cup {p}) = Cardinality(S) + IF p \in S THEN 0 ELSE 1
<1>1. CASE p \in S
  <2>1. S \cup {p} = S
    BY <1>1
  <2>. QED BY <1>1, <2>1, SlotFinite
<1>2. CASE p \notin S
  BY <1>2, SlotFinite, FS_AddElement
<1>. QED  BY <1>1, <1>2

LEMMA PagesFinite == IsFiniteSet(Pages) /\ Cardinality(Pages) \in Nat
<1>1. IsFiniteSet(Slot) /\ IsFiniteSet(1 .. CODE_FRAMES)
  <2>1. 1 \in Int /\ CODE_FRAMES \in Int
    BY SpawnConstants
  <2>2. IsFiniteSet(1 .. CODE_FRAMES)
    BY Zenon, <2>1, FS_Interval
  <2>. QED BY <2>2, SlotFinite
<1>2. IsFiniteSet(Slot \X (1 .. CODE_FRAMES))
  BY Zenon, <1>1, FS_Product
<1>3. Pages \in SUBSET (Slot \X (1 .. CODE_FRAMES))
  BY DEF Pages
<1>. QED  BY ONLY <1>2, <1>3, FS_Subset, FS_CardinalityType, Zenon

\* Mapping k pages of a slot that had none adds k pages.
LEMMA PagesAdded ==
    ASSUME code \in [Slot -> 0 .. CODE_FRAMES], NEW p \in Slot, code[p] = 0,
           NEW k \in 0 .. CODE_FRAMES, code' = [code EXCEPT ![p] = k]
    PROVE  Cardinality(Pages') = Cardinality(Pages) + k
<1>1. PICK new : new = {p} \X (1 .. k)
  BY Zenon
<1>2. Pages' = Pages \cup new /\ Pages \cap new = {}
  <2>1. \A x : x \in new <=> x \in Slot \X (1 .. CODE_FRAMES) /\ x[1] = p /\ x[2] <= k
    BY <1>1, SpawnConstants
  <2>2. \A x \in Slot \X (1 .. CODE_FRAMES) : x \in Pages' <=> IF x[1] = p THEN x[2] <= k ELSE x[2] <= code[x[1]]
    BY DEF Pages
  <2>3. \A x \in Slot \X (1 .. CODE_FRAMES) : x \in Pages <=> x[1] # p /\ x[2] <= code[x[1]]
    BY SpawnConstants DEF Pages
  <2>4. Pages \subseteq Slot \X (1 .. CODE_FRAMES) /\ Pages' \subseteq Slot \X (1 .. CODE_FRAMES)
    BY DEF Pages
  <2>. QED BY <2>1, <2>2, <2>3, <2>4
<1>3. IsFiniteSet(new) /\ Cardinality(new) = k
  <2>1. IsFiniteSet(1 .. k) /\ Cardinality(1 .. k) = k
    <3>1. 1 \in Int /\ k \in Int /\ (1 > k <=> k = 0) /\ k - 1 + 1 = k
      BY SpawnConstants
    <3>. QED BY <3>1, FS_Interval
  <2>2. IsFiniteSet({p}) /\ Cardinality({p}) = 1
    BY ZenonT(40), FS_Singleton
  <2>3. IsFiniteSet(new) /\ Cardinality(new) = 1 * k
    BY <1>1, <2>1, <2>2, FS_Product
  <2>. QED BY <2>3, SpawnConstants
<1>4. Cardinality(Pages') = Cardinality(Pages) + Cardinality(new) - Cardinality({})
  BY <1>2, <1>3, PagesFinite, FS_Union
<1>. QED  BY <1>3, <1>4, PagesFinite, FS_EmptySet, SpawnConstants
LEMMA InitFInv == SpawnInit => FInv
<1> SUFFICES ASSUME SpawnInit PROVE FInv
  OBVIOUS
<1>1. MappedSlots = {} /\ Pages = {}
  BY SpawnConstants DEF SpawnInit, MappedSlots, Pages
<1>2. Cardinality({}) = 0
  BY FS_EmptySet
<1>3. /\ pool0 \in 0 .. MAX_POOL /\ pool = pool0 /\ pd = FALSE /\ pt = {} /\ stack = {} /\ halted = "no"
      /\ code = [p \in Slot |-> 0] /\ shell # "kill" /\ \A p \in Slot : state[p] = "Unused"
  BY DEF SpawnInit, Init
<1>4. SpawnTypeOK
  <2>1. pool \in 0 .. pool0 /\ 0 \in 0 .. CODE_FRAMES
    BY <1>3, SpawnConstants
  <2>. QED BY Zenon, <1>3, <2>1 DEF SpawnTypeOK
<1>5. FramesAccounted
  BY <1>1, <1>2, <1>3, SpawnConstants DEF FramesAccounted
<1>. QED  BY <1>3, <1>4, <1>5 DEF FInv

\* spawn_process_locked: a new region, all of it or as much as there is memory for.
LEMMA RegionStep ==
    ASSUME FInv, halted = "no", NEW p \in Slot \ {0}, SpawnFresh(p) \/ SpawnNone(p)
    PROVE  SpawnTypeOK' /\ FramesAccounted' /\ stack' \subseteq MappedSlots'
           /\ (\A q \in Slot : code[q] > 0 => code'[q] > 0)
           /\ (SpawnFresh(p) => code'[p] > 0)
           /\ (\A q \in Slot : code'[q] > 0 /\ (q \notin stack' \/ code'[q] < CODE_FRAMES) => pool' = 0)
<1>1. PICK d, t, f : /\ d = (IF pd THEN 0 ELSE 1) /\ t = (IF p \in pt THEN 0 ELSE 1) /\ f = CODE_FRAMES
  OBVIOUS
<1>2. /\ pool0 \in 0 .. MAX_POOL /\ pool \in 0 .. pool0 /\ pd \in BOOLEAN /\ pt \in SUBSET Slot
      /\ code \in [Slot -> 0 .. CODE_FRAMES] /\ stack \in SUBSET Slot /\ stack \subseteq MappedSlots
      /\ f \in Nat \ {0} /\ d \in {0, 1} /\ t \in {0, 1} /\ MAX_POOL \in Nat
  BY <1>1, SpawnConstants DEF FInv, SpawnTypeOK
<1>3. NewTables(p) = d + t /\ RegionFrames(p) = f + (d + t) + 1
  BY <1>1 DEF NewTables, RegionFrames
<1>4. code[p] = 0 /\ p \notin stack
  BY <1>2 DEF SpawnFresh, SpawnNone, Mapped, MappedSlots
<1>5. PICK a, b, c : a = Cardinality(pt) /\ b = Cardinality(Pages) /\ c = Cardinality(stack)
  OBVIOUS
<1>6. a \in Nat /\ b \in Nat /\ c \in Nat
  BY <1>2, <1>5, SlotFinite, PagesFinite
<1>7. pool0 = pool + (IF pd THEN 1 ELSE 0) + a + b + c
  BY <1>5 DEF FInv, FramesAccounted
<1>8. (IF pd THEN 1 ELSE 0) = 1 - d
  BY <1>1, <1>2
<1>9. CASE SpawnFresh(p)
  <2>1. /\ pool >= f + (d + t) + 1 /\ pool' = pool - (f + (d + t) + 1) /\ pd' = TRUE
        /\ pt' = pt \cup {p} /\ code' = [code EXCEPT ![p] = f] /\ stack' = stack \cup {p}
        /\ pool0' = pool0 /\ halted' = halted
    BY <1>1, <1>3, <1>9 DEF SpawnFresh
  <2>2. Cardinality(pt') = a + t /\ Cardinality(stack') = c + 1 /\ Cardinality(Pages') = b + f
    <3>1. Cardinality(Pages') = b + f
      <4>1. f \in 0 .. CODE_FRAMES
        BY <1>1, <1>2
      <4>. QED BY Zenon, <1>2, <1>4, <1>5, <2>1, <4>1, PagesAdded
    <3>2. Cardinality(pt') = a + t
      BY <1>1, <1>2, <1>5, <2>1, SlotAdded
    <3>3. Cardinality(stack') = c + 1
      BY <1>2, <1>4, <1>5, <2>1, SlotAdded
    <3>. QED BY <3>1, <3>2, <3>3
  <2>3. pool' \in 0 .. pool0 /\ pool0 = pool' + 1 + (a + t) + (b + f) + (c + 1)
    BY ONLY <1>2, <1>6, <1>7, <1>8, <2>1
  <2>4. code' \in [Slot -> 0 .. CODE_FRAMES] /\ code'[p] = f /\ \A q \in Slot \ {p} : code'[q] = code[q]
    BY SMTT(30), <1>1, <1>2, <2>1
  <2>5. SpawnTypeOK'
    BY <1>2, <2>1, <2>3, <2>4 DEF SpawnTypeOK, FInv
  <2>6. FramesAccounted'
    BY <2>1, <2>2, <2>3 DEF FramesAccounted
  <2>7. stack' \subseteq MappedSlots'
    BY <1>2, <2>1, <2>4 DEF MappedSlots
  <2>8. pool # 0
    BY ONLY <1>2, <2>1
  <2>9. \A q \in Slot : code'[q] > 0 => q \in stack' /\ ~(code'[q] < CODE_FRAMES)
    BY <1>1, <1>2, <2>1, <2>4, <2>8 DEF FInv
  <2>. QED BY SMTT(30), <1>2, <1>4, <2>4, <2>5, <2>6, <2>7, <2>9
<1>10. CASE SpawnNone(p)
  <2>1. PICK k : k = IF pool > 0 THEN pool - (d + t) ELSE 0
    OBVIOUS
  <2>2. /\ pool' = 0 /\ pd' = (pd \/ pool > 0) /\ pt' = (IF pool > 0 THEN pt \cup {p} ELSE pt)
        /\ code' = [code EXCEPT ![p] = k] /\ pool0' = pool0 /\ stack' = stack /\ halted' = halted
        /\ pool < f + (d + t) + 1 /\ (pool > 0 => pool >= 1 + (d + t))
    <3>1. /\ pool' = 0 /\ pd' = (pd \/ pool > 0) /\ pt' = (IF pool > 0 THEN pt \cup {p} ELSE pt)
          /\ code' = [code EXCEPT ![p] = IF pool > 0 THEN pool - NewTables(p) ELSE 0]
          /\ UNCHANGED <<pool0, stack, halted>> /\ pool < RegionFrames(p) /\ ~MapPanics(p)
      BY Zenon, <1>10 DEF SpawnNone
    <3>2. pool > 0 => pool >= 1 + (d + t)
      BY ONLY <1>2, <1>3, <3>1 DEF MapPanics
    <3>. QED BY ONLY <1>3, <2>1, <3>1, <3>2
  <2>3. k \in 0 .. f /\ (pool > 0 => k > 0) /\ 0 \in 0 .. pool0
    BY ONLY <1>2, <2>1, <2>2
  <2>4. Cardinality(Pages') = b + k
    BY Zenon, <1>1, <1>2, <1>4, <1>5, <2>2, <2>3, PagesAdded
  <2>5. code' \in [Slot -> 0 .. CODE_FRAMES] /\ code'[p] = k /\ \A q \in Slot \ {p} : code'[q] = code[q]
    BY SMTT(30), <1>1, <1>2, <2>2, <2>3
  <2>6. SpawnTypeOK'
    BY <1>2, <2>2, <2>3, <2>5 DEF SpawnTypeOK, FInv
  <2>7. FramesAccounted'
    <3>1. CASE pool > 0
      <4>1. Cardinality(pt') = a + t /\ pd' = TRUE
        BY ZenonT(40), <1>1, <1>2, <1>5, <2>2, <3>1, SlotAdded
      <4>2. pool0 = 0 + 1 + (a + t) + (b + k) + c
        BY ONLY SMTT(30), <1>2, <1>6, <1>7, <1>8, <2>1, <3>1
      <4>. QED BY ZenonT(40), <1>5, <2>2, <2>4, <4>1, <4>2 DEF FramesAccounted
    <3>2. CASE pool = 0
      <4>1. k = 0 /\ pt' = pt /\ pd' = pd
        BY <1>2, <2>1, <2>2, <3>2
      <4>. QED BY SMTT(30), <1>5, <1>6, <1>7, <2>2, <2>4, <3>2, <4>1 DEF FramesAccounted
    <3>. QED BY <1>2, <3>1, <3>2
  <2>8. stack' \subseteq MappedSlots'
    BY <1>2, <1>4, <2>2, <2>5 DEF MappedSlots
  <2>9. ~SpawnFresh(p)
    BY <1>3, <2>2 , <1>2 DEF SpawnFresh
  <2>. QED BY <1>4, <2>2, <2>5, <2>6, <2>7, <2>8, <2>9
<1>. QED  BY <1>9, <1>10
LEMMA StepFInv ==
    ASSUME SInv, FInv, [SpawnNext]_spawnVars
    PROVE  FInv'
<1>0. 0 \in Slot /\ state \in [Slot -> State]
  BY SMTT(30), SchedConstants DEF SInv, TypeOK, Slot
<1>1. ASSUME UNCHANGED <<pool, pool0, pd, pt, code, stack>>, halted' \in {halted, "panic", "fault"}, halted' # halted => halted' # "no"
      PROVE  SpawnTypeOK' /\ FramesAccounted' /\ MappedSlots' = MappedSlots
  BY <1>1 DEF FInv, SpawnTypeOK, FramesAccounted, Pages, MappedSlots
<1>2. CASE Others /\ UNCHANGED <<memory, halted>>
  <2>1. UNCHANGED <<pool, pool0, pd, pt, code, stack, halted>>
    BY <1>2 DEF memory
  <2>2. shell' = "kill" => state'[victim'] # "Unused"
    BY <1>2, OthersKill DEF FInv
  <2>3. \A p \in Slot \ {0} : state'[p] # "Unused" => state[p] # "Unused"
    BY <1>2, OthersUnused DEF FInv
  <2>. QED BY <1>1, <2>1, <2>2, <2>3 DEF FInv
<1>3. ASSUME NEW p \in Slot, SpawnReuse(p) \/ SpawnFresh(p), halted = "no" PROVE FInv'
  <2>1. SpawnAt(p)
    BY <1>3 DEF SpawnReuse, SpawnFresh
  <2>2. shell' # "kill" /\ p # 0 /\ state' = [state EXCEPT ![p] = "Ready"]
    BY <2>1 DEF SpawnAt, StartProcess, FreeSlots, boot
  <2>3. CASE SpawnReuse(p)
    <3>1. UNCHANGED <<pool, pool0, pd, pt, code, stack, halted>> /\ code[p] > 0
      BY <2>3 DEF SpawnReuse, memory, Mapped
    <3>. QED BY <1>0, <1>1, <2>2, <3>1 DEF FInv
  <2>4. CASE SpawnFresh(p)
    <3>1. /\ SpawnTypeOK' /\ FramesAccounted' /\ stack' \subseteq MappedSlots' /\ code'[p] > 0
          /\ \A q \in Slot : code[q] > 0 => code'[q] > 0
          /\ \A q \in Slot : code'[q] > 0 /\ (q \notin stack' \/ code'[q] < CODE_FRAMES) => pool' = 0
      BY <1>3, <2>2, <2>4, RegionStep
    <3>. QED BY <1>0, <2>2, <3>1 DEF FInv
  <2>. QED BY <1>3, <2>3, <2>4
<1>4. ASSUME NEW p \in Slot, SpawnNone(p), halted = "no" PROVE FInv'
  <2>1. p # 0 /\ UNCHANGED <<state, shell, victim>>
    BY <1>4 DEF SpawnNone, FreeSlot, FreeSlots, vars, table, boot
  <2>2. /\ SpawnTypeOK' /\ FramesAccounted' /\ stack' \subseteq MappedSlots'
        /\ \A q \in Slot : code[q] > 0 => code'[q] > 0
        /\ \A q \in Slot : code'[q] > 0 /\ (q \notin stack' \/ code'[q] < CODE_FRAMES) => pool' = 0
    BY <1>4, <2>1, RegionStep
  <2>. QED BY <2>1, <2>2 DEF FInv
<1>5. ASSUME NEW p \in Slot, SpawnPanic(p) PROVE FInv'
  <2>1. UNCHANGED <<state, shell, victim, pool0, pt, code, stack>> /\ pool' = 0 /\ pd' = (pd \/ pool > 1) /\ halted' = "panic"
    BY <1>5 DEF SpawnPanic, vars, table, boot
  <2>2. SpawnTypeOK' /\ FramesAccounted' /\ MappedSlots' = MappedSlots
    BY <2>1 DEF FInv, SpawnTypeOK, FramesAccounted, MappedSlots
  <2>. QED BY <2>1, <2>2 DEF FInv
<1>6. CASE UserFault
  <2>1. UNCHANGED <<state, shell, victim, pool, pool0, pd, pt, code, stack>> /\ halted' = "fault"
    BY <1>6 DEF UserFault, vars, table, boot, memory
  <2>. QED BY <1>1, <2>1 DEF FInv
<1>7. CASE UNCHANGED spawnVars
  <2>1. UNCHANGED <<state, shell, victim, pool, pool0, pd, pt, code, stack, halted>>
    BY <1>7 DEF spawnVars, vars, table, boot, memory
  <2>. QED BY <1>1, <2>1 DEF FInv
<1>. QED  BY <1>2, <1>3, <1>4, <1>5, <1>6, <1>7 DEF SpawnNext

\* However little memory there is, and wherever a spawn runs out of it, every frame
\* is in the pool or in exactly one place of the tables and regions, a live process
\* has its first page, and a region is incomplete only because the pool ran dry
\* (main.rs:486-527).
THEOREM FramesKept == SpawnSpec => []FramesSound
<1>1. FInv => FramesSound
  BY DEF FInv, FramesSound, PartialMeansEmpty, Mapped
<1>2. SInv /\ FInv /\ [SpawnNext]_spawnVars => FInv'
  BY StepFInv
<1>. QED  BY <1>1, <1>2, ComposedInvariance, InitFInv, PTL DEF SpawnSpec
----------------------------------------------------------------------------
(* Leftover regions.  That the lowest free slot has a region when any free   *)
(* slot has is not inductive: the regions of live slots count too, because   *)
(* they may be free tomorrow.                                                *)

Dense == \A p, q \in Slot \ {0} : p < q /\ code[q] > 0 => code[p] > 0

\* A new region comes at the lowest free slot, and every slot below is in use.
LEMMA DenseGrows ==
    ASSUME FInv, Dense, state \in [Slot -> State], NEW p \in Slot, FreeSlot(p), NEW k,
           code' = [code EXCEPT ![p] = k], code[p] = 0
    PROVE  Dense'
<1>1. \A q \in Slot \ {0} : q < p => code[q] > 0
  <2>1. SUFFICES ASSUME NEW q \in Slot \ {0}, q < p PROVE code[q] > 0
    OBVIOUS
  <2>2. q \notin FreeSlots
    BY <2>1 DEF FreeSlot, Slot
  <2>. QED BY <2>1, <2>2 DEF FInv, FreeSlots
<1>2. code \in [Slot -> 0 .. CODE_FRAMES]
  BY DEF FInv, SpawnTypeOK
<1>3. \A q \in Slot \ {p} : code'[q] = code[q]
  BY <1>2
<1>4. \A q \in Slot \ {0} : p < q => code[q] = 0
  BY <1>2, SpawnConstants DEF Dense, FreeSlot, FreeSlots
<1>. QED  BY <1>1, <1>2, <1>3, <1>4 DEF Dense, Slot

LEMMA StepDense ==
    ASSUME SInv, FInv, Dense, [SpawnNext]_spawnVars
    PROVE  Dense'
<1>0. state \in [Slot -> State]
  BY DEF SInv, TypeOK
<1>1. ASSUME NEW p \in Slot, SpawnFresh(p) \/ SpawnNone(p) PROVE Dense'
  <2>1. FreeSlot(p)
    BY <1>1 DEF SpawnFresh, SpawnNone, SpawnAt, FreeSlot
  <2>2. code[p] = 0
    BY <1>1 DEF SpawnFresh, SpawnNone, Mapped, FInv, SpawnTypeOK
  <2>3. \E k : code' = [code EXCEPT ![p] = k]
    BY Zenon, <1>1 DEF SpawnFresh, SpawnNone
  <2>. QED BY Zenon, <1>0, <2>1, <2>2, <2>3, DenseGrows
<1>2. CASE UNCHANGED code
  BY Zenon, <1>2 DEF Dense
<1>. QED
  BY Zenon, <1>1, <1>2 DEF SpawnNext, SpawnReuse, SpawnPanic, UserFault, spawnVars, memory

\* No spawn takes a frame, is refused or panics while a dead process's region lies
\* idle: free_slot and the test of the mapping (main.rs:492-499) find the leftovers
\* first, after every sequence of spawns, exits and kills.
THEOREM RegionsReused == SpawnSpec => []LeftoversFirst
<1>1. SpawnInit => Dense
  BY DEF SpawnInit, Dense
<1>2. SInv /\ FInv /\ [SpawnNext]_spawnVars => FInv'
  BY StepFInv
<1>3. SInv /\ FInv /\ Dense /\ [SpawnNext]_spawnVars => Dense'
  BY StepDense
<1>4. Dense => LeftoversFirst
  BY DEF Dense, LeftoversFirst, FreeSlot, FreeSlots, Slot
<1>. QED  BY <1>1, <1>2, <1>3, <1>4, InitFInv, ComposedInvariance, PTL DEF SpawnSpec
=============================================================================
