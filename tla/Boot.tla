-------------------------------- MODULE Boot --------------------------------
(***************************************************************************)
(* Memory setup at boot: the multiboot map (boot/src/multiboot.rs), the     *)
(* regions and the untyped request the harness derives from it              *)
(* (boot/src/main.rs), and pmm_init (kernel/src/boot.rs), which places the  *)
(* frame table and the heap with the bump allocator, marks the free frames  *)
(* and carves the capability.  One thread, one step per stage; what varies  *)
(* is the map.  Sizes are in bytes, scaled down.                           *)
(***************************************************************************)
EXTENDS Integers, FiniteSets, FiniteSetsExt, SequencesExt

CONSTANTS
    FRAME_SIZE, LARGE_PAGE,                 \* 4096, 2 MiB
    INFO_SIZE,                              \* size_of::<FrameInfo>(): 24
    LEGACY_END, UNTYPED_LEN,                \* 1 MiB, 64 MiB
    MAX_REGIONS, MAX_EFFECTIVE_REGIONS,     \* 64, 128
    ADDR_LIMIT, FRAME_LIMIT,                \* 2^64, u32::MAX
    Infos,                                  \* what the bootloader may report
    Images,                                 \* where the kernel may be linked
    HeapLens                                \* heap_len

ASSUME BootConstants ==
    /\ {FRAME_SIZE, LARGE_PAGE, INFO_SIZE, UNTYPED_LEN, MAX_REGIONS, ADDR_LIMIT, FRAME_LIMIT} \subseteq Nat \ {0}
    /\ LARGE_PAGE % FRAME_SIZE = 0 /\ LEGACY_END \in Nat
    /\ MAX_EFFECTIVE_REGIONS = 2 * MAX_REGIONS
    /\ \A len \in HeapLens : len \in Nat /\ len % FRAME_SIZE = 0

\* A physical address has at most 52 bits: no entry starts in the last frame of the
\* address space, where rounding it up would overflow.
ASSUME PhysicalAddresses ==
    \A i \in Infos : \A j \in DOMAIN i.mmap : i.mmap[j].start + FRAME_SIZE <= ADDR_LIMIT

VARIABLES
    info,       \* the multiboot information
    image,      \* [start, end) of the kernel image
    heap_len,
    pc,         \* the next stage; "done", or "halted" with err
    err,
    regions,    \* the harness's map
    spec,       \* UntypedSpec
    effective,  \* regions without the image
    bump,       \* BootAllocator: next_region and cursor
    ft, heap,   \* the frame table and the heap: [start, end)
    owner       \* FrameInfo.owner of the frames below total

vars == <<info, image, heap_len, pc, err, regions, spec, effective, bump, ft, heap, owner>>

----------------------------------------------------------------------------
(* Ranges *)

round_down(x) == (x \div FRAME_SIZE) * FRAME_SIZE
align_up(x) == round_down(x + FRAME_SIZE - 1)
ceil_div(a, b) == (a + b - 1) \div b

Span(start, end) == [start |-> start, end |-> end]
Nowhere == Span(0, 0)
Meet(a, b) == a.start < b.end /\ b.start < a.end
Inside(a, b) == b.start <= a.start /\ a.end <= b.end
Bytes(f) == Span(f * FRAME_SIZE, (f + 1) * FRAME_SIZE)

Region(start, end, usable) == [start |-> start, end |-> end, usable |-> usable]
Usable(rs) == {rs[i] : i \in {j \in DOMAIN rs : rs[j].usable}}

----------------------------------------------------------------------------
(* The map the harness builds *)

\* multiboot::parse: the entries up to the array's end or a malformed one; with
\* none, the memory mem_upper tells of.
parse ==
    LET bad == {i \in DOMAIN info.mmap : info.mmap[i].malformed}
        n == Min({Len(info.mmap), MAX_REGIONS} \cup {i - 1 : i \in bad})
    IN  IF n > 0 THEN SubSeq(info.mmap, 1, n)
        ELSE IF info.mem_upper = 0 THEN << >>
        ELSE <<[start |-> LEGACY_END, len |-> info.mem_upper, usable |-> TRUE, malformed |-> FALSE]>>

\* The whole frames of a usable entry; an end past the address space is none.
Whole(e) ==
    LET end == IF e.start + e.len < ADDR_LIMIT THEN e.start + e.len ELSE e.start
    IN  IF e.usable THEN Region(align_up(e.start), round_down(end), TRUE)
        ELSE Region(e.start, e.start + e.len, FALSE)

\* One turn of the insertion sort.
Insert(rs, key) ==
    LET before == SelectSeq(rs, LAMBDA r : r.start <= key.start)
        after == SelectSeq(rs, LAMBDA r : r.start > key.start)
    IN  before \o <<key>> \o after

fill_regions ==
    LET whole == [i \in DOMAIN parse |-> Whole(parse[i])]
        kept == SelectSeq(whole, LAMBDA r : r.usable => r.end > r.start)
    IN  FoldLeft(Insert, << >>, kept)

\* pick_untyped_spec: the first of the usable regions with the highest end.
pick_untyped_spec(rs) ==
    LET top == {i \in DOMAIN rs : rs[i].usable /\ \A q \in Usable(rs) : q.end <= rs[i].end}
        best == rs[Min(top)]
    IN  Span(best.end - Min({UNTYPED_LEN, best.end - best.start}), best.end)

----------------------------------------------------------------------------
(* pmm_init *)

\* A region of build_effective: a usable one without the frames of the image.
Split(r) ==
    LET hole == Span(round_down(image.start), align_up(image.end))
        parts == <<Region(r.start, hole.start, TRUE), Region(hole.end, r.end, TRUE)>>
    IN  IF ~r.usable \/ ~Meet(r, hole) THEN <<r>>
        ELSE SelectSeq(parts, LAMBDA p : p.start < p.end)

build_effective == FlattenSeq([i \in DOMAIN regions |-> Split(regions[i])])

\* Mutant: the cursor is not looked at.
StartFresh(i) == align_up(effective[i].start)

\* BootAllocator::alloc: the first region from next_region on with room; the
\* cursor counts in the current one only.
Start(i) ==
    align_up(IF i = bump.next THEN Max({bump.cursor, effective[i].start}) ELSE effective[i].start)

\* Mutant: a region that is just large enough is not.
RoomStrict(size) ==
    {i \in bump.next .. Len(effective) : effective[i].usable /\ Start(i) + size < effective[i].end}

Room(size) ==
    {i \in bump.next .. Len(effective) :
        effective[i].usable /\ Start(i) + size <= effective[i].end}

alloc(size) ==
    LET i == Min(Room(size))
        end == Start(i) + size
    IN  [at |-> Span(Start(i), end),
         bump |-> IF end = effective[i].end THEN [next |-> i + 1, cursor |-> 0]
                  ELSE [next |-> i, cursor |-> end]]

max_end == Max({0} \cup {r.end : r \in Usable(effective)})
total == ceil_div(max_end, FRAME_SIZE)
Frame == 0 .. total - 1

\* Mutant: the heap is not skipped.
SkipTable(f) == f * FRAME_SIZE < LEGACY_END \/ (f * FRAME_SIZE >= ft.start /\ f * FRAME_SIZE < ft.end)

\* The frames the marking loop leaves Reserved.
Skip(f) ==
    \/ f * FRAME_SIZE < LEGACY_END
    \/ f * FRAME_SIZE >= ft.start /\ f * FRAME_SIZE < heap.end

FramesOf(r) == ceil_div(r.start, FRAME_SIZE) .. ceil_div(r.end, FRAME_SIZE) - 1
Listed(f) == {i \in DOMAIN effective : effective[i].usable /\ f \in FramesOf(effective[i])}

----------------------------------------------------------------------------
(* Stages *)

Init ==
    /\ info \in Infos /\ image \in Images /\ heap_len \in HeapLens
    /\ \E i \in DOMAIN info.mmap :  \* the bootloader loaded the kernel into RAM
         info.mmap[i].usable /\ Inside(image, Span(info.mmap[i].start, info.mmap[i].start + info.mmap[i].len))
    /\ pc = "parse" /\ err = "none"
    /\ regions = << >> /\ spec = Nowhere /\ effective = << >>
    /\ bump = [next |-> 1, cursor |-> 0] /\ ft = Nowhere /\ heap = Nowhere
    /\ owner = << >>

inputs == <<info, image, heap_len>>
Halt(why) == pc' = "halted" /\ err' = why
Go(next) == pc' = next /\ err' = err

FillRegions ==
    /\ pc = "parse"
    /\ regions' = fill_regions
    /\ IF parse = << >> THEN Halt("no usable memory map") ELSE Go("pick")
    /\ UNCHANGED <<inputs, spec, effective, bump, ft, heap, owner>>

PickUntyped ==
    /\ pc = "pick"
    /\ IF Usable(regions) = {} THEN Halt("no usable region") /\ UNCHANGED spec
       ELSE Go("effective") /\ spec' = pick_untyped_spec(regions)
    /\ UNCHANGED <<inputs, regions, effective, bump, ft, heap, owner>>

\* build_effective gives up on a list as long as the array.
BuildEffective ==
    /\ pc = "effective"
    /\ effective' = build_effective
    /\ IF Len(build_effective) >= MAX_EFFECTIVE_REGIONS THEN Halt("too many memory regions")
       ELSE IF Usable(build_effective) = {} THEN Halt("no usable memory")
       ELSE Go("table")
    /\ UNCHANGED <<inputs, regions, spec, bump, ft, heap, owner>>

\* The frame table, all Reserved.
PlaceTable ==
    LET size == total * INFO_SIZE
    IN  /\ pc = "table"
        /\ IF Room(size) = {}
           THEN Halt("cannot allocate frame table") /\ UNCHANGED <<bump, ft, owner>>
           ELSE /\ Go("heap")
                /\ ft' = alloc(size).at
                /\ bump' = alloc(size).bump
                /\ owner' = [f \in Frame |-> "Reserved"]
        /\ UNCHANGED <<inputs, regions, spec, effective, heap>>

\* The heap; without one it ends where the table does.
PlaceHeap ==
    /\ pc = "heap"
    /\ IF heap_len = 0 THEN Go("mark") /\ heap' = Span(ft.end, ft.end) /\ UNCHANGED bump
       ELSE IF Room(heap_len) = {} THEN Halt("cannot allocate kernel heap") /\ UNCHANGED <<heap, bump>>
       ELSE Go("mark") /\ heap' = alloc(heap_len).at /\ bump' = alloc(heap_len).bump
    /\ UNCHANGED <<inputs, regions, spec, effective, ft, owner>>

\* Reserved -> Free, which fails for a frame of two regions (the marks made by
\* then are not told apart: the harness halts).
MarkFree ==
    /\ pc = "mark"
    /\ owner' = [f \in Frame |-> IF Listed(f) # {} /\ ~Skip(f) THEN "Free" ELSE "Reserved"]
    /\ IF \E f \in Frame : Cardinality(Listed(f)) > 1 /\ ~Skip(f)
       THEN Halt("overlapping memory map entries")
       ELSE Go("carve")
    /\ UNCHANGED <<inputs, regions, spec, effective, bump, ft, heap>>

\* Mutant: frames that are not Free are passed over.
CarveLoose ==
    /\ pc = "carve"
    /\ owner' = [f \in Frame |-> IF f \in FramesOf(spec) /\ owner[f] = "Free" THEN "Untyped" ELSE owner[f]]
    /\ Go("done")
    /\ UNCHANGED <<inputs, regions, spec, effective, bump, ft, heap>>

\* carve_untyped_region: a request for the last frame an index can name is refused;
\* else up to the first frame that is not Free or not in the
\* table; then build_global_freelist takes the frames that are still Free.
Carve ==
    LET wanted == FramesOf(spec)
        far == Max(wanted) + 1 >= FRAME_LIMIT
        stop == Min({Max(wanted) + 1} \cup {f \in wanted : f >= total \/ owner[f] # "Free"})
    IN  /\ pc = "carve"
        /\ owner' = [f \in Frame |-> IF ~far /\ f \in wanted /\ f < stop THEN "Untyped" ELSE owner[f]]
        /\ IF far THEN Halt("untyped spec has invalid range")
           ELSE IF stop > Max(wanted) THEN Go("done")
           ELSE IF stop >= total THEN Halt("frame index out of range")
           ELSE Halt("untyped spec overlaps")
        /\ UNCHANGED <<inputs, regions, spec, effective, bump, ft, heap>>

Next ==
    \/ FillRegions \/ PickUntyped \/ BuildEffective
    \/ PlaceTable \/ PlaceHeap \/ MarkFree \/ Carve

Spec == Init /\ [][Next]_vars

----------------------------------------------------------------------------
(* Properties *)

\* Types; and pmm_init finds the usable regions frame-aligned, as it asks.
TypeOK ==
    /\ \A r \in Usable(regions) : r.start % FRAME_SIZE = 0 /\ r.end % FRAME_SIZE = 0
    /\ spec.start \in Nat /\ spec.end \in Nat
    /\ DOMAIN owner \subseteq Nat
    /\ \A f \in DOMAIN owner : owner[f] \in {"Reserved", "Free", "Untyped"}
    /\ pc = "halted" <=> err # "none"

Disjoint ==
    \A i, j \in DOMAIN regions :
        i # j /\ regions[i].usable /\ regions[j].usable => ~Meet(regions[i], regions[j])

\* The frames of RAM, read off the bootloader's entries.
Backed(f) ==
    \E i \in DOMAIN parse :
        LET e == parse[i]
        IN  /\ e.usable /\ e.start + e.len < ADDR_LIMIT
            /\ Inside(Bytes(f), Span(e.start, e.start + e.len))

\* The pool pmm_init hands over has no frame that is not RAM, is low memory, or
\* holds a byte of the image, the frame table, the heap or the capability; and
\* it has every other frame, but for what lies between table and heap when they
\* are in different regions (boot.rs:192-201, boot.rs:265-292).
PoolExact ==
    pc = "done" =>
        \A f \in Frame :
            LET taken == {image, ft, heap, spec}
                lost == f * FRAME_SIZE >= ft.end /\ (f + 1) * FRAME_SIZE <= heap.start
            IN  owner[f] = "Free" <=>
                    /\ Backed(f) /\ f * FRAME_SIZE >= LEGACY_END
                    /\ \A t \in taken : ~Meet(Bytes(f), t)
                    /\ ~lost

\* Unless the map lists RAM twice, the table and the heap lie in RAM, apart from
\* each other and from the image (boot.rs:245-263).
CarvesApart ==
    Disjoint =>
        /\ \A c \in {ft, heap} \ {Nowhere} :
             /\ \E r \in Usable(regions) : Inside(c, r)
             /\ ~Meet(c, image)
        /\ ~Meet(ft, heap)

\* When boot succeeds the image lies in the window new_kernel maps, although
\* ram_end is computed without the image: the capability at the top of RAM could
\* not have been carved otherwise (main.rs:642-645, boot.rs:232-238).
ImageMapped ==
    pc = "done" /\ (\E r \in Usable(regions) : Inside(image, r)) =>
        image.end <= ceil_div(max_end, LARGE_PAGE) * LARGE_PAGE

\* A refusal has a reason in the map: no region has room for the table, or none above
\* the table for the heap (room below it is passed over); RAM is listed twice; the
\* capability asked for is not all free RAM (boot.rs:160, boot.rs:247, boot.rs:254,
\* boot.rs:281, boot.rs:321).
RefusedForCause ==
    LET reserved == {image, Span(0, LEGACY_END), Span(ft.start, heap.end)}
    IN  /\ err = "cannot allocate frame table" =>
             \A r \in Usable(effective) : r.end - r.start < total * INFO_SIZE
        /\ err = "cannot allocate kernel heap" /\ Disjoint =>
             \A r \in Usable(effective) : r.end - Max({r.start, align_up(ft.end)}) < heap_len
        /\ err \in {"too many memory regions", "overlapping memory map entries"} => ~Disjoint
        /\ err = "untyped spec overlaps" => \E r \in reserved : Meet(r, spec)
        /\ err = "frame index out of range" => Meet(image, spec)

\* The effective regions are in address order, as the bump allocator needs, and
\* fit their array, whatever the order of the entries (boot.rs:129, boot.rs:160).
AddressOrder ==
    /\ Len(effective) <= MAX_EFFECTIVE_REGIONS
    /\ Disjoint =>
         \A i, j \in DOMAIN effective :
            i < j /\ effective[i].usable /\ effective[j].usable => effective[i].end <= effective[j].start

\* What the stages hand on: regions in order and within their array, and in them,
\* where they may, the table and the heap (boot.rs:129, boot.rs:160, boot.rs:245-263).
LayoutSound == TypeOK /\ AddressOrder /\ CarvesApart
=============================================================================
