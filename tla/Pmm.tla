-------------------------------- MODULE Pmm --------------------------------
(***************************************************************************)
(* The physical memory manager: the frame table (kernel/src/frame.rs) and  *)
(* the sharded free-list allocator (kernel/src/allocator.rs), used by a    *)
(* set of execution contexts ("threads": CPUs, or contexts that preempt    *)
(* each other).  A section under a SpinLock is one step where everything   *)
(* it reads and writes is protected by that lock; where it also reads the  *)
(* atomics of FrameInfo, each load and each compare-exchange is a step of  *)
(* its own.                                                                *)
(*                                                                         *)
(* The free lists live inside the free frames: `next' is the first word of *)
(* a frame.  Once a frame has an owner the word is the owner's: it is      *)
(* forgotten (LIST_END) until the frame is pushed on a list again.         *)
(***************************************************************************)
EXTENDS Integers, FiniteSets, Chains

CONSTANTS
    Thread,             \* execution contexts
    NumFrames,          \* entries of the frame table
    FreeAtBoot,         \* frames pmm_init marked Free
    UntypedAtBoot,      \* frames pmm_init stamped Untyped(id)
    SHARD_COUNT,        \* arch.rs: 64
    SHARD_REFILL_BATCH, \* arch.rs: 64
    Cpu,                \* the CPU of a thread (current_cpu() is 0 today)
    GEN_MOD,            \* 2^32 in the code: FrameInfo.gen is a u32
    Refs,               \* the kinds of reference clients take: "pin", "map"
    NONE                \* no thread, no frame

Frame == 0 .. NumFrames - 1
LIST_END == NumFrames           \* u32::MAX in the code: no frame's index
Shards == 0 .. SHARD_COUNT - 1
Global == SHARD_COUNT           \* the global list, beside the shards
Lists == Shards \cup {Global}

ASSUME ThreadFinite == IsFiniteSet(Thread)

ASSUME ConstantsOK ==
    /\ NumFrames \in Nat
    /\ FreeAtBoot \subseteq Frame /\ UntypedAtBoot \subseteq Frame
    /\ FreeAtBoot \cap UntypedAtBoot = {}
    /\ SHARD_COUNT \in Nat \ {0} /\ SHARD_REFILL_BATCH \in Nat \ {0}
    /\ Cpu \in [Thread -> Nat]
    /\ GEN_MOD \in Nat \ {0}
    /\ Refs \subseteq {"pin", "map"}
    /\ NONE \notin Thread \cup Frame
    /\ Thread \cap Lists = {}

\* OwnerTag.  The id of an Untyped or Domain owner is left out: nothing here
\* tells two regions or two domains apart (Untyped.tla keeps the region id).
Owner == {"Reserved", "Free", "Kernel", "Pending", "Untyped", "Domain"}

VARIABLES
    owner, pinned, mappings, gen,   \* FrameInfo, per frame
    next,                           \* the link word inside each frame
    head, count,                    \* ALLOCATOR: of each list
    lock,                           \* the thread holding each list's SpinLock
    pc, frame, seen, batch, bhead, tail, cur, i,    \* per thread
    held, pins, maps,               \* per thread: the client's bookkeeping
    stamp                           \* gen a frame had when it got its owner

table == <<owner, pinned, mappings, gen>>
freelists == <<next, head, count>>
refill == <<batch, bhead, tail, cur, i>>
clients == <<held, pins, maps, stamp>>
vars == <<table, freelists, lock, pc, frame, seen, refill, clients>>

PC == {"idle", "refill", "peel", "splice", "pop_again",
       "release", "read_pinned", "read_mappings", "set_pending", "set_free",
       "push", "drain_owner", "drain_pinned", "drain_mappings",
       "list_panic", "owner_panic", "release_panic"}

Shard(t) == Cpu[t] % SHARD_COUNT

Goto(t, label) == pc' = [pc EXCEPT ![t] = label]
Unlocked(l) == lock[l] = NONE
Lock(t, l) == lock' = [lock EXCEPT ![l] = t]
Unlock(l) == lock' = [lock EXCEPT ![l] = NONE]

MinOf(a, b) == IF a < b THEN a ELSE b

\* The links build_global_freelist writes: each Free frame to the next one up.
NextFreeAtBoot(f) ==
    LET above == {g \in FreeAtBoot : g > f}
    IN  IF above = {} THEN LIST_END ELSE CHOOSE g \in above : \A h \in above : g <= h

HeadAtBoot ==
    IF FreeAtBoot = {} THEN LIST_END
    ELSE CHOOSE g \in FreeAtBoot : \A h \in FreeAtBoot : g <= h

Init ==
    /\ owner = [f \in Frame |-> IF f \in FreeAtBoot THEN "Free"
                                ELSE IF f \in UntypedAtBoot THEN "Untyped"
                                ELSE "Reserved"]
    /\ pinned = [f \in Frame |-> 0]
    /\ mappings = [f \in Frame |-> 0]
    /\ gen = [f \in Frame |-> 0]
    /\ next = [f \in Frame |-> IF f \in FreeAtBoot THEN NextFreeAtBoot(f) ELSE LIST_END]
    /\ head = [l \in Lists |-> IF l = Global THEN HeadAtBoot ELSE LIST_END]
    /\ count = [l \in Lists |-> IF l = Global THEN Cardinality(FreeAtBoot) ELSE 0]
    /\ lock = [l \in Lists |-> NONE]
    /\ pc = [t \in Thread |-> "idle"]
    /\ frame = [t \in Thread |-> NONE]
    /\ seen = [t \in Thread |-> "Reserved"]
    /\ batch = [t \in Thread |-> 0]
    /\ bhead = [t \in Thread |-> LIST_END]
    /\ tail = [t \in Thread |-> LIST_END]
    /\ cur = [t \in Thread |-> LIST_END]
    /\ i = [t \in Thread |-> 0]
    /\ held = [t \in Thread |-> {}]
    /\ pins = [t \in Thread |-> {}]
    /\ maps = [t \in Thread |-> {}]
    /\ stamp = [f \in Frame |-> GEN_MOD - 1]

----------------------------------------------------------------------------
(* alloc_frame: pop the own shard; when it is empty refill it and pop again. *)

\* pop_shard on a non-empty shard.  Its set_owner(FREE -> KERNEL) panics, with
\* the lock held, when the listed frame is not Free.
PopFrame(t) ==
    LET s == Shard(t)
        f == head[s]
    IN  /\ Unlocked(s)
        /\ f # LIST_END
        /\ head' = [head EXCEPT ![s] = next[f]]
        /\ count' = [count EXCEPT ![s] = @ - 1]
        /\ IF owner[f] = "Free"
           THEN /\ owner' = [owner EXCEPT ![f] = "Kernel"]
                /\ held' = [held EXCEPT ![t] = @ \cup {f}]
                /\ stamp' = [stamp EXCEPT ![f] = gen[f]]
                /\ next' = [next EXCEPT ![f] = LIST_END]
                /\ Goto(t, "idle")
                /\ UNCHANGED lock
           ELSE /\ Goto(t, "list_panic")
                /\ Lock(t, s)
                /\ UNCHANGED <<owner, held, stamp, next>>
        /\ UNCHANGED <<pinned, mappings, gen, frame, seen, refill, pins, maps>>

\* pop_shard on an empty shard.
PopNothing(t, continue) ==
    /\ Unlocked(Shard(t))
    /\ head[Shard(t)] = LIST_END
    /\ Goto(t, continue)
    /\ UNCHANGED <<table, freelists, lock, frame, seen, refill, clients>>

Alloc(t) == pc[t] = "idle" /\ (PopFrame(t) \/ PopNothing(t, "refill"))

\* Mutant: the second pop is forgotten.
AllocNoRetry(t) ==
    /\ pc[t] = "pop_again" /\ Goto(t, "idle")
    /\ UNCHANGED <<table, freelists, lock, frame, seen, refill, clients>>

AllocRetry(t) == pc[t] = "pop_again" /\ (PopFrame(t) \/ PopNothing(t, "idle"))

\* refill_shard up to the loop: the batch is sized under the global lock.
RefillBegin(t) ==
    LET n == MinOf(count[Global], SHARD_REFILL_BATCH)
        h == head[Global]
    IN  /\ pc[t] = "refill"
        /\ Unlocked(Global)
        /\ IF n = 0
           THEN /\ Goto(t, "pop_again")
                /\ UNCHANGED <<lock, refill>>
           ELSE /\ Goto(t, "peel")
                /\ Lock(t, Global)
                /\ batch' = [batch EXCEPT ![t] = n]
                /\ bhead' = [bhead EXCEPT ![t] = h]
                /\ tail' = [tail EXCEPT ![t] = h]
                /\ cur' = [cur EXCEPT ![t] = next[h]]
                /\ i' = [i EXCEPT ![t] = 1]
        /\ UNCHANGED <<table, freelists, frame, seen, clients>>

\* One round of the loop that walks `batch' links down the global list.
RefillWalk(t) ==
    /\ pc[t] = "peel"
    /\ i[t] < batch[t]
    /\ tail' = [tail EXCEPT ![t] = cur[t]]
    /\ cur' = [cur EXCEPT ![t] = next[cur[t]]]
    /\ i' = [i EXCEPT ![t] = @ + 1]
    /\ UNCHANGED <<table, freelists, lock, pc, frame, seen, batch, bhead, clients>>

\* Mutant: the global lock is kept.
RefillKeepLock(t) ==
    /\ pc[t] = "peel" /\ i[t] = batch[t] /\ Goto(t, "splice")
    /\ head' = [head EXCEPT ![Global] = cur[t]]
    /\ count' = [count EXCEPT ![Global] = @ - batch[t]]
    /\ UNCHANGED <<table, next, lock, frame, seen, refill, clients>>

\* The loop is done: cut the chain off the global list and drop its lock.
RefillCut(t) ==
    /\ pc[t] = "peel"
    /\ i[t] = batch[t]
    /\ head' = [head EXCEPT ![Global] = cur[t]]
    /\ count' = [count EXCEPT ![Global] = @ - batch[t]]
    /\ Unlock(Global)
    /\ Goto(t, "splice")
    /\ UNCHANGED <<table, next, frame, seen, refill, clients>>

\* Mutant: the tail of the batch is not linked to what the shard holds by now.
RefillReplace(t) ==
    /\ pc[t] = "splice" /\ Unlocked(Shard(t))
    /\ head' = [head EXCEPT ![Shard(t)] = bhead[t]]
    /\ count' = [count EXCEPT ![Shard(t)] = @ + batch[t]]
    /\ Goto(t, "pop_again")
    /\ batch' = [batch EXCEPT ![t] = 0] /\ i' = [i EXCEPT ![t] = 0]
    /\ bhead' = [bhead EXCEPT ![t] = LIST_END] /\ tail' = [tail EXCEPT ![t] = LIST_END]
    /\ cur' = [cur EXCEPT ![t] = LIST_END]
    /\ UNCHANGED <<table, next, lock, frame, seen, clients>>

\* The second critical section: splice the chain onto the front of the shard.
RefillSplice(t) ==
    LET s == Shard(t)
    IN  /\ pc[t] = "splice"
        /\ Unlocked(s)
        /\ next' = [next EXCEPT ![tail[t]] = head[s]]
        /\ head' = [head EXCEPT ![s] = bhead[t]]
        /\ count' = [count EXCEPT ![s] = @ + batch[t]]
        /\ Goto(t, "pop_again")
        /\ batch' = [batch EXCEPT ![t] = 0]
        /\ bhead' = [bhead EXCEPT ![t] = LIST_END]
        /\ tail' = [tail EXCEPT ![t] = LIST_END]
        /\ cur' = [cur EXCEPT ![t] = LIST_END]
        /\ i' = [i EXCEPT ![t] = 0]
        /\ UNCHANGED <<table, lock, frame, seen, clients>>

----------------------------------------------------------------------------
(* release_frame, called by a frame's holder or by drain_if_ready. *)

\* Mutant: the generation is not bumped.
BumpGenLost(f) == gen' = gen

\* FrameInfo::bump_gen: a wrapping increment.
BumpGen(f) == gen' = [gen EXCEPT ![f] = (@ + 1) % GEN_MOD]

\* release_frame(f) up to its two assertions: take the own shard's lock, load
\* the owner, panic when the frame is Reserved or Free.
ReleaseBegin(t, f) ==
    /\ Unlocked(Shard(t))
    /\ Lock(t, Shard(t))
    /\ seen' = [seen EXCEPT ![t] = owner[f]]
    /\ Goto(t, IF owner[f] \in {"Reserved", "Free"} THEN "release_panic" ELSE "read_pinned")
    /\ UNCHANGED <<table, freelists, refill, pins, maps, stamp>>

\* The holder gives its frame back (OwnedFrame's Drop does the same).
ReleaseHeld(t, f) ==
    /\ pc[t] = "idle"
    /\ f \in held[t]
    /\ held' = [held EXCEPT ![t] = @ \ {f}]
    /\ frame' = [frame EXCEPT ![t] = f]
    /\ ReleaseBegin(t, f)

\* drain_if_ready found the frame drained and releases it.
ReleaseDrained(t) ==
    /\ pc[t] = "release"
    /\ ReleaseBegin(t, frame[t])
    /\ UNCHANGED <<frame, held>>

\* Mutant: pins are ignored.
ReleaseSkipPinned(t) ==
    /\ pc[t] = "read_pinned" /\ Goto(t, "read_mappings")
    /\ UNCHANGED <<table, freelists, lock, frame, seen, refill, clients>>

\* The condition `pinned() != 0 || mappings() != 0': two loads, the second one
\* only when the first finds zero.
ReleaseReadPinned(t) ==
    /\ pc[t] = "read_pinned"
    /\ Goto(t, IF pinned[frame[t]] # 0 THEN "set_pending" ELSE "read_mappings")
    /\ UNCHANGED <<table, freelists, lock, frame, seen, refill, clients>>

ReleaseReadMappings(t) ==
    /\ pc[t] = "read_mappings"
    /\ Goto(t, IF mappings[frame[t]] # 0 THEN "set_pending" ELSE "set_free")
    /\ UNCHANGED <<table, freelists, lock, frame, seen, refill, clients>>

\* Return from release_frame or drain_if_ready; the locals are dead.
Return(t) ==
    /\ Goto(t, "idle")
    /\ frame' = [frame EXCEPT ![t] = NONE]
    /\ seen' = [seen EXCEPT ![t] = "Reserved"]

\* set_owner(seen -> PENDING), skipped when the frame already is Pending.
ReleaseSetPending(t) ==
    LET f == frame[t]
    IN  /\ pc[t] = "set_pending"
        /\ IF owner[f] = seen[t] \/ seen[t] = "Pending"
           THEN /\ owner' = [owner EXCEPT ![f] = IF seen[t] = "Pending" THEN @ ELSE "Pending"]
                /\ Unlock(Shard(t))
                /\ Return(t)
           ELSE /\ Goto(t, "owner_panic")
                /\ UNCHANGED <<owner, lock, frame, seen>>
        /\ UNCHANGED <<pinned, mappings, gen, freelists, refill, clients>>

\* Mutant: the frame is listed with its old owner.
ReleaseKeepOwner(t) ==
    /\ pc[t] = "set_free" /\ Goto(t, "push")
    /\ UNCHANGED <<table, freelists, lock, frame, seen, refill, clients>>

\* set_owner(seen -> FREE).
ReleaseSetFree(t) ==
    LET f == frame[t]
    IN  /\ pc[t] = "set_free"
        /\ IF owner[f] = seen[t]
           THEN owner' = [owner EXCEPT ![f] = "Free"] /\ Goto(t, "push")
           ELSE owner' = owner /\ Goto(t, "owner_panic")
        /\ UNCHANGED <<pinned, mappings, gen, freelists, lock, frame, seen, refill, clients>>

\* Bump the generation, push the frame on the shard, drop the lock.
ReleasePush(t) ==
    LET f == frame[t]
        s == Shard(t)
    IN  /\ pc[t] = "push"
        /\ BumpGen(f)
        /\ next' = [next EXCEPT ![f] = head[s]]
        /\ head' = [head EXCEPT ![s] = f]
        /\ count' = [count EXCEPT ![s] = @ + 1]
        /\ Unlock(s)
        /\ Return(t)
        /\ UNCHANGED <<owner, pinned, mappings, refill, clients>>

----------------------------------------------------------------------------
(* Pins and mappings.  A client takes a reference on a frame somebody holds, *)
(* or on one it already has a reference to, and drops only its own.          *)

MayRef(t, f) == f \in pins[t] \cup maps[t] \cup UNION {held[u] : u \in Thread}

PinFrame(t, f) ==
    /\ "pin" \in Refs
    /\ pc[t] = "idle"
    /\ MayRef(t, f) /\ f \notin pins[t]
    /\ pinned' = [pinned EXCEPT ![f] = @ + 1]
    /\ pins' = [pins EXCEPT ![t] = @ \cup {f}]
    /\ UNCHANGED <<owner, mappings, gen, freelists, lock, pc, frame, seen, refill,
                   held, maps, stamp>>

AddMapping(t, f) ==
    /\ "map" \in Refs
    /\ pc[t] = "idle"
    /\ MayRef(t, f) /\ f \notin maps[t]
    /\ mappings' = [mappings EXCEPT ![f] = @ + 1]
    /\ maps' = [maps EXCEPT ![t] = @ \cup {f}]
    /\ UNCHANGED <<owner, pinned, gen, freelists, lock, pc, frame, seen, refill,
                   held, pins, stamp>>

\* unpin_frame and remove_mapping: the decrement, then drain_if_ready.
UnpinFrame(t, f) ==
    /\ pc[t] = "idle"
    /\ f \in pins[t]
    /\ pinned' = [pinned EXCEPT ![f] = @ - 1]
    /\ pins' = [pins EXCEPT ![t] = @ \ {f}]
    /\ frame' = [frame EXCEPT ![t] = f]
    /\ Goto(t, "drain_owner")
    /\ UNCHANGED <<owner, mappings, gen, freelists, lock, seen, refill, held, maps, stamp>>

RemoveMapping(t, f) ==
    /\ pc[t] = "idle"
    /\ f \in maps[t]
    /\ mappings' = [mappings EXCEPT ![f] = @ - 1]
    /\ maps' = [maps EXCEPT ![t] = @ \ {f}]
    /\ frame' = [frame EXCEPT ![t] = f]
    /\ Goto(t, "drain_owner")
    /\ UNCHANGED <<owner, pinned, gen, freelists, lock, seen, refill, held, pins, stamp>>

\* Mutants: a drain that looks at nothing, and one that never finds a frame ready.
DrainAlways(t, label, ready, continue) ==
    /\ pc[t] = label /\ Goto(t, continue)
    /\ UNCHANGED <<table, freelists, lock, frame, seen, refill, clients>>
DrainNever(t, label, ready, continue) ==
    /\ pc[t] = label /\ Return(t)
    /\ UNCHANGED <<table, freelists, lock, refill, clients>>

\* drain_if_ready: three unlocked loads, each of which may end it.
DrainLoad(t, label, ready, continue) ==
    /\ pc[t] = label
    /\ IF ready THEN Goto(t, continue) /\ UNCHANGED <<frame, seen>> ELSE Return(t)
    /\ UNCHANGED <<table, freelists, lock, refill, clients>>

DrainIfReady(t) ==
    \/ DrainLoad(t, "drain_owner", owner[frame[t]] = "Pending", "drain_pinned")
    \/ DrainLoad(t, "drain_pinned", pinned[frame[t]] = 0, "drain_mappings")
    \/ DrainLoad(t, "drain_mappings", mappings[frame[t]] = 0, "release")

\* Mutant: the new owner is not stored, so the next search finds the frame again.
RetypeTwice(t, f) ==
    /\ pc[t] = "idle" /\ owner[f] = "Untyped"
    /\ held' = [held EXCEPT ![t] = @ \cup {f}]
    /\ UNCHANGED <<table, freelists, lock, pc, frame, seen, refill, pins, maps, stamp>>

\* retype_frame's compare-exchange Untyped -> Domain (its search for the frame
\* is the subject of Untyped.tla).
Retype(t, f) ==
    /\ pc[t] = "idle"
    /\ owner[f] = "Untyped"
    /\ owner' = [owner EXCEPT ![f] = "Domain"]
    /\ held' = [held EXCEPT ![t] = @ \cup {f}]
    /\ stamp' = [stamp EXCEPT ![f] = gen[f]]
    /\ UNCHANGED <<pinned, mappings, gen, freelists, lock, pc, frame, seen, refill, pins, maps>>

----------------------------------------------------------------------------
\* The steps a thread takes inside a call; they need nothing from a client.
Step(t) ==
    \/ AllocRetry(t)
    \/ RefillBegin(t) \/ RefillWalk(t) \/ RefillCut(t) \/ RefillSplice(t)
    \/ ReleaseDrained(t)
    \/ ReleaseReadPinned(t) \/ ReleaseReadMappings(t)
    \/ ReleaseSetPending(t) \/ ReleaseSetFree(t) \/ ReleasePush(t)
    \/ DrainIfReady(t)

\* The calls a client may make.
Call(t) ==
    \/ Alloc(t)
    \/ \E f \in Frame :
         \/ ReleaseHeld(t, f) \/ Retype(t, f)
         \/ PinFrame(t, f) \/ UnpinFrame(t, f)
         \/ AddMapping(t, f) \/ RemoveMapping(t, f)

Next == \E t \in Thread : Step(t) \/ Call(t)

Spec == Init /\ [][Next]_vars

\* A thread inside a call keeps running (interrupts are off while it holds a
\* lock, and a spinning thread retries).
FairSpec == Spec /\ \A t \in Thread : WF_vars(Step(t))

----------------------------------------------------------------------------
(* Properties *)

TypeOK ==
    /\ owner \in [Frame -> Owner]
    /\ pinned \in [Frame -> Nat] /\ mappings \in [Frame -> Nat]
    /\ gen \in [Frame -> 0 .. GEN_MOD - 1] /\ stamp \in [Frame -> 0 .. GEN_MOD - 1]
    /\ next \in [Frame -> 0 .. LIST_END]
    /\ head \in [Lists -> 0 .. LIST_END] /\ count \in [Lists -> Nat]
    /\ lock \in [Lists -> Thread \cup {NONE}]
    /\ pc \in [Thread -> PC]
    /\ frame \in [Thread -> Frame \cup {NONE}]
    /\ seen \in [Thread -> Owner]
    /\ batch \in [Thread -> Nat] /\ i \in [Thread -> Nat]
    /\ bhead \in [Thread -> 0 .. LIST_END] /\ tail \in [Thread -> 0 .. LIST_END]
    /\ cur \in [Thread -> 0 .. LIST_END]
    /\ held \in [Thread -> SUBSET Frame]
    /\ pins \in [Thread -> SUBSET Frame] /\ maps \in [Thread -> SUBSET Frame]

Free == {f \in Frame : owner[f] = "Free"}

\* The Free frames at a place: a list, or a thread that is moving them.
At(place, p) == {f \in Free : place[f] = p}

ListChain(place, pos, l) ==
    IsList(At(place, l), pos, next, head[l], count[l], LIST_END)

\* What thread t has in hand: a chain it cut off the global list and has not
\* spliced onto a shard yet, a frame it is about to push, or nothing.
InHand(place, pos, t) ==
    /\ pc[t] = "splice" => /\ IsChain(At(place, t), pos, next, bhead[t], batch[t])
                           /\ tail[t] \in At(place, t) /\ pos[tail[t]] = 1
    /\ pc[t] = "push" => At(place, t) = {frame[t]} /\ pos[frame[t]] = 1
    /\ pc[t] \notin {"splice", "push"} => At(place, t) = {}

Linked(place, pos) ==
    /\ \A l \in Lists : ListChain(place, pos, l)
    /\ \A t \in Thread : InHand(place, pos, t)

\* Every Free frame is in exactly one place: on one list, in the chain one
\* refill is moving, or about to be pushed by the one release that freed it;
\* and every list is a chain of exactly `count' Free frames.  This is what the
\* code maintains at every step of any number of threads (allocator.rs:127-129).
FreeListsSound ==
    \E place \in [Free -> Lists \cup Thread], pos \in [Free -> 1 .. NumFrames] :
        Linked(place, pos)

\* A Free frame that can be handed out again has a generation other than the
\* one its last owner saw: a stale stamp is detected (frame.rs, FrameInfo::gen).
FreshGeneration ==
    \A f \in Free : (\A t \in Thread : ~(pc[t] = "push" /\ frame[t] = f)) => gen[f] # stamp[f]

\* No assertion of the allocator fails: no listed frame that is not Free, no
\* release of a Free or Reserved frame, no failing owner transition.
NoPanic == \A t \in Thread : pc[t] \notin {"list_panic", "owner_panic", "release_panic"}

\* pop_shard's set_owner(FREE -> KERNEL) never panics, whatever the clients and
\* however many threads: a listed frame is Free, and no step takes it away.
PopNeverPanics == \A t \in Thread : pc[t] # "list_panic"

\* alloc_frame returns None only when the free lists are empty
\* (allocator.rs:60-61).
NoneMeansEmpty ==
    [][\A t \in Thread : pc[t] = "pop_again" /\ pc'[t] = "idle" /\ head' = head
           => \A l \in Lists : count[l] = 0]_vars

\* A Pending frame is waiting for somebody: when no call is in progress some
\* pin or mapping of it is left, whose removal will drain it
\* (allocator.rs:123-125, frame.rs:244-245).
PendingIsAwaited ==
    (\A t \in Thread : pc[t] = "idle") =>
        \A f \in Frame : owner[f] = "Pending" => pinned[f] + mappings[f] > 0

\* The allocator implements the abstract pool: whatever has an owner or is
\* Pending and that no client holds is in limbo until its owner word says Free.
Pool == INSTANCE FramePool WITH
    Client <- Thread,
    free <- Free,
    raw <- {f \in Frame : owner[f] = "Untyped"},
    limbo <- {f \in Frame : /\ owner[f] \in {"Kernel", "Domain", "Pending"}
                            /\ \A t \in Thread : f \notin held[t]},
    refs <- [f \in Frame |-> pinned[f] + mappings[f]]

\* Frames are uniquely owned, and a frame is free again only without pins and
\* mappings (lib.rs:26-30): every behaviour of the allocator is one of FramePool.
ImplementsPool == Pool!Spec

\* Every lock that is taken is released again: no path through a critical
\* section keeps it, and no thread waits inside one (the locks are never nested).
LocksReleased == \A l \in Lists : lock[l] # NONE ~> lock[l] = NONE
=============================================================================
