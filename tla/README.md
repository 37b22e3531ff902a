# rolnix: TLA+ models of the kernel

rolnix is a small x86-64 kernel in Rust: a kernel crate (`kernel/src`) and a
boot harness (`boot/src`) that brings the machine up, runs self tests and hands
over to a shell. This directory holds TLA+ models of the parts where order
matters, TLC configurations that check them on small instances, and proofs that
TLAPS checks for every value of the constants. `PROJECT.json` lists components,
runs, mutants, the map from definitions to source lines, findings, hazards and
theorems.

Paths below are relative to `kernel/src` unless they start with `boot`.

## The system

| part | code | state | operations |
|---|---|---|---|
| frame table | `frame.rs` | owner, pins, mappings, generation of each frame | owner compare-exchange, pin, unpin, map, unmap |
| frame allocator | `allocator.rs`, `owned.rs`, `spinlock.rs` | a list per shard and a global list, threaded through the free frames | `alloc_frame`, `refill_shard`, `release_frame`, `drain_if_ready` |
| untyped capabilities | `untyped.rs` | capabilities with a shared cursor | `split`, `retype_frame` |
| boot memory setup | `boot.rs`, `boot/src/multiboot.rs`, `boot/src/main.rs` | region list, bump cursor | `parse`, `fill_regions`, `pmm_init`, `carve_untyped_region` |
| virtual memory | `vmm.rs` | page tables | `map`, `unmap`, `translate`, `map_window` |
| scheduler | `sched.rs`, `tss.rs`, `arch.rs` | process table, `CURRENT`, kernel stacks, `TSS.rsp0` | tick, yield, exit, start, kill |
| process loading | `boot/src/main.rs` | the user regions | `spawn_process` |
| system calls | `user.rs` | the console sink | putc, getc, getpid, yield, exit |
| interrupts | `idt.rs`, `tss.rs`, `pic.rs`, `pit.rs` | gates, handler registry, masks | dispatch, EOI, mask, fault reports |
| heap | `heap.rs` | free list in the heap itself | `heap_alloc`, `heap_free` |
| keyboard | `keyboard.rs` | ring buffer, `SHIFT`, `CAPS`, `EXTENDED` | IRQ1 handler, `poll_char`, `init` |
| shell | `boot/src/shell.rs` | the line being edited | edit, commands |
| serial port | `boot/src/serial.rs`, `boot/src/main.rs` | the `WRITER` lock | print |

How they interact: the shell is process 0 and runs in ring 0; `spawn` takes
frames from the allocator, maps them through the VMM and starts a process; the
PIT tick and system calls enter the scheduler on the kernel stack that
`TSS.rsp0` names; shell and processes share the serial lock and the keyboard
ring; untyped frames and allocator frames share the frame table. Before all
that, one thread turns the bootloader's memory map into the frame pool, builds
the address space, and brings interrupts up while devices already run.

What is hard: the allocator reads reference counts without the lock under which
it acts on them, and moves batches in two critical sections; the scheduler swaps
stacks under the feet of the code it interrupts; the shell is preempted between
any two instructions it runs with interrupts on; spawn fails half-way; the heap
keeps its bookkeeping in the memory it manages; an unmapped page may be freed
before the TLB forgets it; requests are latched while they are masked, and the
8042 is polled although it may be absent, silent or talkative. The list of hazards, each with
its line and the properties that watch over it, is in `PROJECT.json`.

Today one thread on one CPU uses the allocator. Its documentation is written
for several, so it is modelled with any number of threads; the runs with one
thread (`pmm_uni`) describe the kernel as it is, those with more describe what
the code would do under the use its documentation announces.

## Modules

**Pmm** models the frame table and the allocator. A critical section is one step
where all it touches is protected by the lock; in `release_frame` and
`drain_if_ready`, which read the atomics of `FrameInfo`, each load and each
compare-exchange is a step. The list links live inside the frames (`next`); the
word is forgotten when a frame gets an owner. `refill_shard` is `RefillBegin`,
one `RefillWalk` per round of its loop, `RefillCut` and, in the second critical
section, `RefillSplice`. A failing assertion is a `pc` value (`list_panic`,
`owner_panic`, `release_panic`) at which the thread stops. Clients
(`held`, `pins`, `maps`) follow the rules of the API: they release what they
hold, and drop each reference once.

**FramePool** is what the allocator promises: a frame is free, raw, held by one
client, or in limbo, and leaves limbo without references only. `Pmm!Pool`
instantiates it with a refinement mapping. **Chains** defines a linked chain
through numbered positions, which both properties and proofs use.

**Untyped** models capabilities, `split` and `retype_frame`, the load of the
cursor, the look at a frame, the compare-exchange and the store of the cursor
each a step. Regions, unlike in Pmm, have identities. `split` counts frames
modulo `COUNT_MOD` (2^32), so a length that is a multiple of it gives an empty
capability.

**Sched** models the process table, the CPU and the kernel stacks. A context is
a process and the incarnation of its slot; a kernel stack holds one saved
context, which the next interrupt entry on it destroys. A handler, and a section
under `irq_save`, is one step; where the shell runs with interrupts on (the kill
command, between its prints) a tick may come between two of its steps.
`MAX_LIFE` bounds how often a slot is started.

**Spawn** composes the scheduler with the memory `spawn_process` takes: pool,
page directory, page table per region, code and stack pages. A region that is
already mapped is taken as it is (`SpawnReuse`); otherwise the frames suffice
(`SpawnFresh`), run out at a page (`SpawnNone`) or at a page table
(`SpawnPanic`). A process in an incomplete region ends in `UserFault`.

**Heap** models the heap as an array of words, two to a unit of 16 bytes:
headers, links and stashed bases are words, and clients scribble over their
payloads. Each round of the walk along the list is a step, though the lock is
held; only one call is in progress at a time. The base address is a constant, so
payloads need padding for alignments above 16. `FreeBlocks` is what can be
reached from the head along the links: the least set that holds the head and,
with a block, the next one.

**Keyboard** models the keyboard (bytes, extended keys, shift keys held), the
IRQ1 handler, the ring, the shell's loop with the line editor and `SYS_GETC`. The
shell reads COM1 after it found the ring empty; keys come in between the two
looks, so `ReadSerial` has no guard on the ring. Remembering which look the shell
is at doubles the states and rules none of the others out.
**CharQueue** is the bounded queue the ring implements.

**Vmm** models the kernel address space: `new_kernel` with its two windows of
2 MiB pages, `activate`, `map`, `unmap` and `translate` over a four-level tree
of tables that live in frames, and beside it the frames (free, held, Pending,
their mapping counts) and the TLB. A call is a step, but for `unmap`, which frees
the frame in one and flushes in the next; the CPU fills and evicts TLB entries at
any time. A frame that is no table holds bytes that would pass for entries, so a
table that is not cleared, or a walk through a huge page, shows. Of the flags only
USER is kept. **AddressSpace** is what it implements: a partial function from
pages to a frame and a right.

**Boot** models what happens to the memory map: `multiboot::parse`,
`fill_regions` and `pick_untyped_spec` of the harness, and the stages of
`pmm_init` (`build_effective`, frame table, heap, marking, carving), one step
each with their error returns. One thread runs it and nothing varies but the
input, so the properties compare the result with definitions read off the
bootloader's entries.

**Ps2** models `keyboard::init` as the list of exchanges it makes with the 8042
and the keyboard (`Script`), and the hardware behind: commands, answers, a reset
with or without BAT, scanning on or off at boot and after a reset, keys at any
time while it is on, no keyboard, no 8042. A poll that gives
up after 100,000 turns may give up whenever the bit is not there.
**Interrupts** extends it with the way from `rust_entry` to the shell: fault
sink, IDT, TSS, the first print, which programs the port, remapping, `timer_demo`, `run_shell`, stretches under `irq_save`;
the 8259 with its request, mask and service registers; delivery, `handle_irq`
(EOI, then the handler); exceptions and panics at every point. What a scancode
does is in Keyboard, what a tick does to processes in Sched.

**MC...** modules instantiate these for TLC. **PmmChain**, **PmmStep**,
**PmmProofs** and **PmmPool** (each extends the one before), **SchedProofs**
(with Spawn), **InterruptsProofs** (with Ps2), **HeapProofs** and
**ComponentProofs** (Untyped and Keyboard) hold the proofs.
Operators marked "Mutant" are plausible bugs; each property is violated when the
mutant listed for it in `PROJECT.json` takes the place of the definition.

## Runs

Passing:

| run | bounds | shows |
|---|---|---|
| `pmm_uni` | 1 thread, 4 frames, batch 2 | the allocator as the harness uses it: `NoPanic`, no Pending frame forgotten (`PendingIsAwaited`), `None` only on empty lists (`NoneMeansEmpty`), and it implements `FramePool` |
| `pmm_smp` | 2 threads, 2 free frames, generations modulo 2, pins and mappings shared | `FreeListsSound` and `FreshGeneration` survive every interleaving, the ones that break other properties included |
| `pmm_unshared` | 3 threads, 2 free and 1 untyped frame, no references | without pins and mappings nothing panics, every lock is released, and it implements `FramePool`: frames are uniquely owned |
| `untyped` | 2 threads, regions of 3 and 1 frames, 4 capabilities, counts modulo 8 | capabilities stay in their regions and each frame is retyped once (`CapsSound`), `Exhausted` is true, every call returns, also with capabilities that a truncated count made empty |
| `spawn` | 5 slots, each started twice, 2 code pages, 0 to 18 frames | the scheduler in its composition with memory. Right context on every switch (`CpuIsCurrent`), no panic of exit and no deadlock on the serial lock (`StaysUp`), every Ready process runs or is killed; enough frames at boot are enough for ever; partial regions only when the pool is dry, no frame lost (`FramesSound`); a new region is begun only when no dead process has left one (`LeftoversFirst`) |
| `heap` | 9 units, three sizes, three alignments | blocks tile the heap and the counter is exact (`HeapSound`), payloads apart, free neighbours merged, null means full, calls return |
| `keyboard` | ring of 3, one key of each kind | ring is a queue; in step with extended keys, shift never sticks (`InStep`) |
| `vmm` | 18 frames, 4 entries a table, 7 addresses, 4 initial pools | the tables are a tree apart from all other frames (`TreeSound`), mapping counts exact, user rights decided by the leaf, TLB coherent and a free frame out of reach (`TlbSound`); implements AddressSpace |
| `boot` | maps of up to 3 of 13 entries in every order, 3 places of the image, 3 heap sizes | the pool is exactly the RAM nothing else uses (`PoolExact`); regions in address order and within their array, table and heap apart (`LayoutSound`); the image stays mapped; refusals have a cause, the one for want of heap included |
| `irq` | 3 bytes queued in the keyboard, 2 ticks in the demo | with interrupts on every IRQ has its gate and handler and nothing is in service (`SafeWhenOn`); faults are reported, and what keeps one from it is a part not yet installed (`FaultReported`); `init` returns true only for a working keyboard; the shell comes up, ticks keep coming, no byte is stuck |

A property of a run that bundles facts names each as a definition of its own
(`TypeOK` is one of them). `TypeOK` of Pmm and of Sched, `PopNeverPanics`,
`OneRunning`, `DeadStaysDead` and `RoundRobin` are in no run: they are proved.

Why the bounds are enough: two threads are the fewest for the races on a frame
and three let two of them race while a third refills; two free frames make a
batch, a list with more than one element and an empty list; five slots and two
starts give a slot reused while others wait; the pool in `spawn` ranges over
every amount from none to more than all regions need (17); nine heap units hold
three blocks, so that a block is freed between two free neighbours; a ring of
three is full with two characters and wraps. The narrow generation counter
wraps, and so does the frame count of `split`. In `vmm` the addresses include
two pages of one table, pages of both windows, one whose top table a window
shares, an unaligned and a non-canonical one, and the pools run out at the root,
in the windows, in a `map`, and not at all. In `boot` the entries include low
memory, holes, partial frames, overlaps, an end past the address space, one up to the last frame index,
reserved and malformed ones. Three bytes in the keyboard let keys queue up behind an
answer that `init` waits for.

Runs that end in a violation. Each quotes a line of the repository that the code
does not live up to (`findings` in `PROJECT.json`):

| run | what happens |
|---|---|
| `sched_kill` | process exits between kill's check and mark: kill says it killed it |
| `spawn_fault` | a half-loaded region is taken for complete by the next spawn |

Four properties of `pmm_uni` hold for one thread and not for two that share
references; giving `Thread` a second element in its configuration shows how.
`NoPanic`: the last pin and the last mapping of a Pending frame are dropped by
two threads, both find it drained and release it, and the second release panics.
`PendingIsAwaited`: the last pin is dropped after `release_frame` read the
counter and before it sets Pending, so nobody drains the frame.
`ImplementsPool`: a pin is taken after the counter was read, and the frame is
freed under it. `NoneMeansEmpty`: another thread takes the batch a refill
brought before the refilling one pops again.

More places where comment and code part, visible in the models: `init_idle`
says it runs before the PIT handler can, and `timer_demo` lets the handler tick
first (harmless, the table is empty; `Sched!Init` starts there); `spawn_process`
says it returns `None` when a frame cannot be allocated, and panics when the
frame it misses is one for a page table (`SpawnPanic`); `SHIFT` is one flag for
two keys, so releasing one shift key while the other is held resets it
(`Keyboard!ShiftAfter`); `ADDR_MASK_4K` keeps bits 12..35 and its comment says
12..51 (with `MASK` below `RAM` in `MCVmm.cfg`, `MappingsCounted` fails); the
keyboard handler takes IRQ1 to mean that the output buffer has a byte, which a
request latched while `init` was polling need not (`Interrupts!ReadScancode`);
`panic` halts with interrupts as they are, and `raw_write` expects them off
(`Interrupts!Panic`); the IDT is installed so that "every exception is reported
over COM1" (`boot/src/main.rs:604-605`), but the port is programmed by the first
print, and a report before it goes where the firmware left the port
(`Interrupts!Report`); an overlap of two usable entries is an error except inside
the frames of table and heap, where it goes unnoticed (`Boot!MarkFree`), which is
why `CarvesApart` is stated for maps without overlap; and table or heap may lie
in the low megabyte `LEGACY_END` keeps out of the pool, when a usable region
there has the room (`Boot!alloc`).

**Deadlock** is checked in `pmm_uni`, `pmm_unshared`, `untyped`, `heap` and
`keyboard`. It is off for runs of Pmm with shared references, where a panicking
thread stops and may keep its lock; for Spawn and Interrupts, where a panic or a
fault halts the machine; for Vmm, where the kernel does not come up without
tables; and for Boot, which ends.

**Fairness.** Pmm and Untyped: weak fairness of each thread's steps inside a
call; a thread holding a lock has interrupts off, one that spins retries. Heap:
weak fairness of the steps of a call, which runs with interrupts off. Spawn:
strong fairness of the tick, since the PIT never stops and the PIC latches a
tick that comes while interrupts are off; weak fairness of the end of a print
and of the end of the boot flow, which nothing blocks. Interrupts: weak fairness
of the PIT, of the end of a stretch under `irq_save` and of the steps of
`handle_irq`; strong fairness of the delivery of IRQ0 and IRQ1, which the 8259
keeps latched until the CPU has interrupts on; strong fairness of the boot
program, since ticks leave it instructions in between. `KeysServed` adds the
premise that ticks do not take all of that time. No fairness is assumed of the
8042, the keyboard, clients, processes or the user.

## Proofs

**The allocator (Pmm)**, for any number of threads, frames, shards and any batch
size:

* `TypeCorrect`: the types.
* `ListsSound`: `FreeListsSound`. Every Free frame is on one list, in the batch
  of one refill or in the hands of one release, and every list is a chain of
  exactly `count` frames.
* `PopSafe`: `pop_shard` never meets a frame that is not Free.
* `StaleDetected`: `FreshGeneration`, when `GEN_MOD > 1`. The counter is a `u32`,
  and with a single value no reuse could be told from the use before it.
* `NeverPanics`, `PendingAwaited` and `ImplementsFramePool`: `NoPanic`,
  `PendingIsAwaited` and the refinement of FramePool, under `Unshared`: there is
  one thread, or there are no pins and mappings. The kernel as it stands is the
  first case: it boots one CPU, and no interrupt handler allocates. For threads
  that share references the three are false (see Runs), so the hypothesis is
  where the code stops promising them.
* `NoneIsTrue`: `NoneMeansEmpty`, for one thread; false for two.

`FreeListsSound` is not inductive. `IInv` in PmmChain adds: who holds which lock
at each `pc` (`LockInv`); what the loop of `refill_shard` has reached
(`Peeling`: after i rounds the tail is the i-th frame of the global list); that
reference counts equal the numbers of clients that hold references, so that they
do not go below zero; and positions bounded only by being positive. A witness
pair (`place`, `pos`) names where each Free frame is; per operation one lemma of
PmmChain gives the next witness, from the facts about chains at its head (cut a
chain, join two, push, pop). PmmStep goes through the actions, PmmProofs through
the initial state, where the position of a frame is the number of free frames at
or above it.

The later theorems rest on `IInv` and on what they add. Generations (`GenInv`): a
frame with an owner has its owner's stamp, and a Free frame differs from it
unless its release is just about to bump the counter. `None` (`ShardInv`): the
one thread fills no shard but its own, and tries again only with a frame in it
or after it found the global list empty. Custody (`CInv` in PmmPool): a frame is
held by one thread or worked on by one release, never both (`Exclusive`); what a
release has read of owner and counters still holds when it acts on it
(`LoadsHold`, the fact that sharing breaks); a Pending frame has a reference left
or a call that will see to it (`Awaited`). These proofs sort the
steps by what they do to owners and holders (`NextCases`) before they open an
action. In the refinement the pop is Take, a retype Retype, the start of a
release GiveBack, the store of Free Reclaim, and a pin or a mapping one reference
more or less; everything else stutters.

**Untyped capabilities**, for any number of threads, regions and capabilities:
`RegionsSound` (`CapsSound`) and `ExhaustedSound` (`ExhaustedIsTrue`). The
invariant `UInv` keeps a capability within its region, its base included also
when a split left it empty, and follows each search: every frame it has passed,
going round from where it began, is retyped (`Visited`). Since a frame once
retyped stays so, the search may report Exhausted when it has passed them all,
whatever other threads did to the shared cursor meanwhile.

**The keyboard**, for any ring size and any sets of keys: `FlagsInStep`
(`InStep`) and `ImplementsCharQueue` (`RingIsQueue`). `InStep` looks at one byte
and is not inductive: `KInv` adds which bytes can be on their way (one, or an E0
and the byte behind it) and what SHIFT will be once a shift key's own byte has
come (`ShiftFollows`). The refinement maps the slots from tail to head, going
round, to a sequence (`Typed`): a push appends to it, a pop takes its head, and a
push into a full ring, which is dropped, stutters. The assumption that no key is
called E0 is a fact about scancodes: 0xE0 would be the break code of 0x60, which
no key has.

**The heap**, for any size of it and any sets of sizes and alignments:
`BlocksTile` (`HeapSound`: blocks tile the heap and the counter is exact),
`FreedIsMerged` (`Coalesced`), `ClientsApart` (`PayloadsApart`) and
`FirstFitMissesNothing` (`NullMeansFull`). None of the four is inductive, and no
one of them can be had without the others: a link or a header is just a word, so
that a write stays off the other blocks only because blocks tile, the merged
block is one only because its neighbour in the list is its neighbour in memory,
and the base that `heap_free` reads is right only because no client could reach
it. `HInv(F)` has them together, for a set F of blocks that the list goes through
in ascending order (`ListOf`: the link of a block is the least block of F above
it), with what a walk knows: it stands between two neighbours of the list, no
block up to there has room (for an allocation), the block to insert lies above
(for a release). That F is `FreeBlocks` follows from the order
(`ListIsFree`), by a least block that the links would not reach. The lemmas about
tilings are one for each thing a call does to them (`TilesSplit`, `TilesJoin`,
and moving a block between free and taken, `UnitsMove`, which also gives the
counter); a release is followed through its three writes, the blocks that may
still touch the next one in a set (`Mending`) that each write makes smaller.

**The scheduler**, for any size of the process table (Sched): `SchedTypes`,
`RunsCurrent`, `MachineStaysUp` (from `ExitSafe` and `SerialSafe`),
`RunningUnique` (one Running process), `NoRevival` (the dead stay dead), `Fair`
(no switch passes over a waiting process). The invariant `SInv` says that `rsp0`
is the stack of the current process when it is in ring 3, that every Ready
process but the current one has its own context saved on its own stack, that
process 0 is Ready whenever another runs, and that the serial lock is held only
with interrupts off.

**Process loading**, for any number of processes and any image size (Spawn):
`ComposedRunsCurrent`, since `SInv` is also an invariant of the composition
(`ComposedInvariance`); `RegionsReused` (`LeftoversFirst`), by an invariant that
the slots with code pages are a stretch from slot 1 on (`Dense`), which holds
because `free_slot` takes the lowest dead slot and a slot that was ever alive has
its pages;
`AmpleSafe`, by an invariant that regions are absent or complete and that the
pool covers what the absent ones will take (`MInv`); and `FramesKept`
(`FramesSound`) for every amount of memory, by one that lets regions be partial
only with an empty pool and counts pages as a set of pairs, so that each
allocation adds one element (`FInv`).

**The boot flow and the keyboard's start** (Interrupts, Ps2), for any length of
the demo and any bound on the keyboard's queue: `InterruptsSafe` (`SafeWhenOn`),
`FaultsReported` and `TrueIsUp` (`TrueMeansUp`). `BootInv` has the order in which
the parts are installed, that a handler is registered before its IRQ is unmasked,
and that what is in service is the IRQ whose EOI is still to come. `Ps2Inv` says
for each of the twelve exchanges of `init` which bytes can still be on their way:
while the keyboard is silenced, the answers of the 8042 only; after a command to
the keyboard at most one ACK, with nothing but keys (after a reset, keys and a
late BAT) behind it. So the byte that matches is the answer to the question that
was asked, and the ACK of a command means that it has taken effect.

The assumptions are the named `ASSUME`s on the constants: finite sets of
threads, natural bounds, at least one shard, at least two slots, regions that lie
within the frames, positive sizes and alignments, a heap that does not start at
address 0. Every inductive invariant was model-checked on the bounds of
its component's run before it was proved.

Only model-checked: the liveness properties and everything with fairness, which
the prover does not handle; the properties of Boot, whose pool, layout and
refusals are what folds over the memory map compute, so that they would need
induction over data; and those of Vmm, whose `new_kernel` fills its windows by a
recursion over the pages, so that already the first state with a kernel in it
would need the same.

## Taken for granted

What the models assume of the machine and of callers, beside the constants:

* Boot: no entry of the map starts in the last frame of the 64-bit address space
  (`PhysicalAddresses`; physical addresses have at most 52 bits), so rounding a
  start up does not wrap. `FRAME_LIMIT` is `u32::MAX`: a carved region that reaches
  it is refused, as in the code. That frame indices of RAM beyond 16 TiB would be
  truncated while marking is not modelled.
* Spawn: the user regions lie above the identity window, as they do with less than
  2 GiB of RAM (the harness runs with 512 MiB). With more (`PROC_BASE` is 2 GiB), `translate` would find
  the window's pages where it looks for a region.
* Vmm: a client maps frames that it holds; `map` does not look at the owner.
* Vmm: there is no more RAM than `ADDR_MASK_4K` tells apart.
* Ps2: reading the data port clears the output-full bit. On a machine where the
  bit is stuck the flush of `keyboard::init` would not end, and `ShellComesUp` would
  not hold.

## Not modelled

* The assembly entry, the bits of descriptors, gates and page-table entries, the
  register frames, the registers of the UART and console formatting: straight-line
  code without state that another part reads back.
* The shell commands that only print, and the self tests and demos other than
  `timer_demo`: they run once, in sequence, on operations that are modelled.
* `PageTable::new` as an operation of its own (only `new_kernel` is used), and an
  image of length 0, which the linker script never makes.
* The slave 8259 beyond its mask, `pic::mask` and the PIT's divisor: no driver
  uses the first two, nothing depends on the third.
* A Reserved entry that overlaps a Usable one is ignored by the code, and by Boot:
  no property is about it.
* Entries of the map past the 64th, which `parse` drops, are dropped by Boot too;
  nothing is claimed of the memory they describe.
* Host test stubs.

Worth doing next: Pmm with several shards in TLC; `TreeSound`, `MappingsCounted`
and `TlbSound` (Vmm) proved for the steps of `map` and `unmap`, from a kernel
address space that is taken to satisfy them.
