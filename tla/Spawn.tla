------------------------------- MODULE Spawn -------------------------------
(***************************************************************************)
(* `spawn' with its memory: spawn_process_locked (boot/src/main.rs) takes  *)
(* frames from the allocator and maps them with PageTable::map             *)
(* (kernel/src/vmm.rs) before it starts the process (Sched.tla).  Nothing  *)
(* ever unmaps them: a killed or finished process leaves its region mapped *)
(* and the next process of the slot takes it over.                         *)
(*                                                                         *)
(* The user regions lie above the identity window, one page table (2 MiB)  *)
(* apart, under one page directory: mapping the first page of any region   *)
(* takes a frame for the directory, the first page of each region one for  *)
(* its page table.                                                         *)
(***************************************************************************)
EXTENDS Sched, FiniteSets

CONSTANTS
    MAX_POOL,       \* bound: the most frames alloc_frame has left when the shell starts
    CODE_FRAMES     \* frames of the image user_prog.s (1 in this build)

ASSUME SpawnConstants == MAX_POOL \in Nat /\ CODE_FRAMES \in Nat \ {0}

VARIABLES
    pool, pool0,    \* frames alloc_frame can still hand out; what it had at first
    pd, pt,         \* the page directory exists; the slots that have a page table
    code, stack,    \* code pages mapped per slot; the slots with a stack page
    halted          \* "no", "panic" (an `expect' of spawn) or "fault" (handle_exception)

memory == <<pool, pool0, pd, pt, code, stack>>
spawnVars == <<vars, memory, halted>>

SpawnInit ==
    /\ Init
    /\ pool0 \in 0 .. MAX_POOL /\ pool = pool0
    /\ pd = FALSE /\ pt = {}
    /\ code = [p \in Slot |-> 0] /\ stack = {}
    /\ halted = "no"

----------------------------------------------------------------------------

\* Mutants: the test finds nothing, or finds a directory and stops there.
MappedNever(p) == FALSE
MappedShallow(p) == pd

\* PageTable::translate(code_va) finds the first code page.
Mapped(p) == code[p] > 0

\* Tables PageTable::map has to create on the way to a page of slot p.
NewTables(p) == (IF pd THEN 0 ELSE 1) + (IF p \in pt THEN 0 ELSE 1)

\* The first code page: one frame for it, then the tables; map's AllocFailed is
\* an `expect' (the frames it got by then are lost).
MapPanics(p) == pool > 0 /\ pool < 1 + NewTables(p)

\* All the frames of a new region: code, tables, stack.
RegionFrames(p) == CODE_FRAMES + NewTables(p) + 1

FreeSlot(p) == p \in FreeSlots /\ \A q \in FreeSlots : p <= q

\* A region left by an earlier process of the slot is taken as it is.
SpawnReuse(p) == Mapped(p) /\ SpawnAt(p) /\ UNCHANGED <<memory, halted>>

\* A new region, and enough frames for all of it.
SpawnFresh(p) ==
    /\ ~Mapped(p)
    /\ pool >= RegionFrames(p)
    /\ SpawnAt(p)
    /\ pool' = pool - RegionFrames(p)
    /\ pd' = TRUE
    /\ pt' = pt \cup {p}
    /\ code' = [code EXCEPT ![p] = CODE_FRAMES]
    /\ stack' = stack \cup {p}
    /\ UNCHANGED <<pool0, halted>>

\* alloc_frame()? fails: spawn_process returns None, what is mapped stays mapped.
SpawnNone(p) ==
    /\ InShell /\ shell = "ready"
    /\ FreeSlot(p)
    /\ ~Mapped(p)
    /\ pool < RegionFrames(p) /\ ~MapPanics(p)
    /\ pool' = 0
    /\ pd' = (pd \/ pool > 0)
    /\ pt' = IF pool > 0 THEN pt \cup {p} ELSE pt
    /\ code' = [code EXCEPT ![p] = IF pool > 0 THEN pool - NewTables(p) ELSE 0]
    /\ UNCHANGED <<vars, pool0, stack, halted>>

\* map(..).expect("map user code") fails.
SpawnPanic(p) ==
    /\ InShell /\ shell = "ready"
    /\ FreeSlot(p)
    /\ ~Mapped(p)
    /\ MapPanics(p)
    /\ pool' = 0
    /\ pd' = (pd \/ pool > 1)
    /\ halted' = "panic"
    /\ UNCHANGED <<vars, pool0, pt, code, stack>>

\* The program uses its stack (it calls print_dec): without a stack page, or
\* past the last code page, this is a page fault, which halts the machine.
UserFault ==
    /\ InUser
    /\ cpu.pid \notin stack \/ code[cpu.pid] < CODE_FRAMES
    /\ halted' = "fault"
    /\ UNCHANGED <<vars, memory>>

\* The steps of Sched.tla other than `spawn'.
Others ==
    \/ Tick \/ YieldNow \/ ExitCurrent \/ PutC
    \/ RunShell \/ PrintBegin \/ PrintEnd \/ KillMark
    \/ \E p \in Slot : KillCheck(p)

SpawnNext ==
    /\ halted = "no"
    /\ \/ Others /\ UNCHANGED <<memory, halted>>
       \/ \E p \in Slot : SpawnReuse(p) \/ SpawnFresh(p) \/ SpawnNone(p) \/ SpawnPanic(p)
       \/ UserFault

SpawnSpec == SpawnInit /\ [][SpawnNext]_spawnVars

\* The PIT never stops, and a tick that comes while interrupts are off stays
\* latched in the PIC until they are on again; code with IF = 0 runs on.
Runs(A) == halted = "no" /\ A /\ UNCHANGED <<memory, halted>>
SpawnFairSpec ==
    /\ SpawnSpec
    /\ SF_spawnVars(Runs(Tick))
    /\ WF_spawnVars(Runs(PrintEnd)) /\ WF_spawnVars(Runs(RunShell))

----------------------------------------------------------------------------
(* Properties *)

SpawnTypeOK ==
    /\ pool0 \in 0 .. MAX_POOL /\ pool \in 0 .. pool0
    /\ pd \in BOOLEAN /\ pt \subseteq Slot
    /\ code \in [Slot -> 0 .. CODE_FRAMES] /\ stack \subseteq Slot
    /\ halted \in {"no", "panic", "fault"}

\* A Ready process gets the CPU or is killed, unless a spawn that ran out of memory
\* stops the machine (sched.rs:3-4).
EveryoneRuns ==
    \A p \in Slot :
        state[p] = "Ready" ~> (current = p \/ state[p] = "Zombie" \/ halted # "no")

\* What the regions of all processes need at most.
Enough == 1 + (MAX_PROCESSES - 1) * (CODE_FRAMES + 2)

\* With enough frames at boot no sequence of spawn, exit and kill, however
\* long, runs out of memory: the machine never stops (regions are reused and
\* never freed, main.rs:499-501).
AmpleIsSafe == pool0 >= Enough => halted = "no"

\* However little memory there is, every live process has its first code page,
\* and one without a complete region has it only because the pool ran dry
\* (main.rs:503-521).
PartialMeansEmpty ==
    \A p \in Slot \ {0} : state[p] \in {"Ready", "Running"} =>
        Mapped(p) /\ (p \notin stack \/ code[p] < CODE_FRAMES => pool = 0)

\* The code pages that are mapped, each with its slot.
Pages == {x \in Slot \X (1 .. CODE_FRAMES) : x[2] <= code[x[1]]}

\* Frames are neither lost nor used twice as long as the machine runs: each is
\* in the pool, a table, a code page or a stack page (main.rs:507-520).
FramesAccounted ==
    halted = "no" =>
        pool0 = pool + (IF pd THEN 1 ELSE 0) + Cardinality(pt) + Cardinality(Pages) + Cardinality(stack)

\* Memory stays consistent with the regions while the machine runs, whatever fails
\* half-way (main.rs:486-527).
FramesSound == SpawnTypeOK /\ PartialMeansEmpty /\ FramesAccounted

\* What dead processes left behind is used before anything new is taken: whenever a
\* free slot has a region, so has the one free_slot returns, and `spawn' needs no
\* frame.  Memory follows the largest number of processes alive at once, not the
\* number of spawns, and none is refused while a region lies idle (main.rs:492,
\* main.rs:499).
LeftoversFirst == \A p, q \in FreeSlots : FreeSlot(p) /\ code[q] > 0 => code[p] > 0

\* A region that is already mapped is complete: "nothing to do, the image is
\* still there" (main.rs:500-501), so no process runs into a page fault.
ReusedIsComplete == halted # "fault"
=============================================================================
