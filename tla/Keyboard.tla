------------------------------ MODULE Keyboard ------------------------------
(***************************************************************************)
(* The PS/2 keyboard driver (kernel/src/keyboard.rs) from the device's     *)
(* scancode bytes to the shell's line buffer (boot/src/shell.rs).  Both    *)
(* the IRQ1 handler and poll_char run with interrupts off: each is a step. *)
(*                                                                         *)
(* A scancode byte is named by its key; a character by its key and whether *)
(* shift or caps-lock changed it.                                          *)
(***************************************************************************)
EXTENDS Integers, Sequences

CONSTANTS
    RING_SIZE,      \* keyboard.rs: 64
    MAX_LINE,       \* shell.rs: 127
    Letters,        \* keys translated to a letter
    Symbols,        \* keys with a shifted symbol
    Controls,       \* keys whose character shift leaves alone (enter, space, escape, ...)
    Unmapped        \* make codes that are not in BASE_CHARS

Shifts == {"lshift", "rshift"}
Keys == Letters \cup Symbols \cup Controls \cup Unmapped \cup Shifts \cup {"caps"}

ASSUME KeyboardConstants ==
    /\ RING_SIZE \in Nat \ {0} /\ MAX_LINE \in Nat
    /\ "bksp" \notin Letters \cup Symbols /\ "enter" \notin Letters \cup Symbols
    /\ "E0" \notin Keys            \* 0xE0 would be the break code of 0x60, which no key has
    /\ "none" \notin Keys

\* `second' marks a byte the device sends behind an E0; the driver cannot see it.
E0 == [key |-> "E0", break |-> TRUE, second |-> FALSE]      \* 0xE0 has the break bit set
Make(k) == [key |-> k, break |-> FALSE, second |-> FALSE]
Break(k) == [key |-> k, break |-> TRUE, second |-> FALSE]
Char == [key : Letters \cup Symbols \cup Controls, shifted : BOOLEAN]
NoChar == [key |-> "none", shifted |-> FALSE]

VARIABLES
    bytes, down,            \* the device: bytes to come, shift keys held down
    ring, rhead, rtail,     \* RING, RING_HEAD, RING_TAIL
    extended, shift, capsLock,  \* EXTENDED, SHIFT, CAPS
    read, line              \* the shell: the character read last, the line so far

device == <<bytes, down>>
ringVars == <<ring, rhead, rtail>>
flags == <<extended, shift, capsLock>>
shell == <<read, line>>
kbdVars == <<device, ringVars, flags, shell>>

KbdInit ==
    /\ bytes = <<>> /\ down = {}
    /\ ring = [i \in 0 .. RING_SIZE - 1 |-> NoChar] /\ rhead = 0 /\ rtail = 0
    /\ extended = FALSE /\ shift = FALSE /\ capsLock = FALSE
    /\ read = NoChar /\ line = <<>>

----------------------------------------------------------------------------
(* The device: scancode set 1.  A held key repeats its make code; the keys  *)
(* of the extended block send E0 first, and some of them (print screen) a   *)
(* shift code behind the E0.                                                *)

Press(k) ==
    /\ bytes = <<>>
    /\ bytes' = <<Make(k)>>
    /\ down' = down \cup (Shifts \cap {k})
    /\ UNCHANGED <<ringVars, flags, shell>>

Release(k) ==
    /\ bytes = <<>>
    /\ bytes' = <<Break(k)>>
    /\ down' = down \ {k}
    /\ UNCHANGED <<ringVars, flags, shell>>

PressExtended(k) ==
    /\ bytes = <<>>
    /\ \E b \in BOOLEAN : bytes' = <<E0, [key |-> k, break |-> b, second |-> TRUE]>>
    /\ UNCHANGED <<down, ringVars, flags, shell>>

----------------------------------------------------------------------------
(* irq_handler *)

\* Mutant: a full ring is overwritten.
PushOverwrite(c) == ring' = [ring EXCEPT ![rhead] = c] /\ rhead' = (rhead + 1) % RING_SIZE

\* push_char: a full ring (one slot is always empty) drops the character.
PushChar(c) ==
    LET next == (rhead + 1) % RING_SIZE
    IN  IF next # rtail
        THEN ring' = [ring EXCEPT ![rhead] = c] /\ rhead' = next
        ELSE UNCHANGED <<ring, rhead>>

\* translate: letters by shift xor caps-lock, symbols by shift, the rest unchanged.
Translate(k) ==
    [key |-> k, shifted |-> \/ k \in Letters /\ shift # capsLock
                            \/ k \in Symbols /\ shift]

\* Mutant: only the left key's release counts.
ShiftAfterLeft(b) == IF b.key = "lshift" \/ (b.key = "rshift" /\ ~b.break) THEN ~b.break ELSE shift

\* A shift key's make code sets SHIFT, its break code resets it.
ShiftAfter(b) == IF b.key \in Shifts THEN ~b.break ELSE shift

\* A byte that is not part of an extended sequence.
PlainByte(b) ==
    /\ shift' = ShiftAfter(b)
    /\ capsLock' = IF b.key = "caps" /\ ~b.break THEN ~capsLock ELSE capsLock
    /\ IF ~b.break /\ b.key \in Letters \cup Symbols \cup Controls
       THEN PushChar(Translate(b.key))
       ELSE UNCHANGED <<ring, rhead>>

ExtendedAfter(b) == ~extended /\ b.key = "E0"

Irq1 ==
    /\ bytes # <<>>
    /\ bytes' = Tail(bytes)
    /\ extended' = ExtendedAfter(Head(bytes))
    /\ IF extended \/ Head(bytes).key = "E0"
       THEN UNCHANGED <<shift, capsLock, ring, rhead>>
       ELSE PlainByte(Head(bytes))
    /\ UNCHANGED <<down, rtail, shell>>

----------------------------------------------------------------------------
(* The consumers: the shell's loop, and processes through SYS_GETC *)

\* edit_line; the line of a completed command is cleared.
EditLine(c) ==
    IF c.key = "enter" THEN <<>>
    ELSE IF c.key = "bksp" THEN SubSeq(line, 1, Len(line) - 1)
    ELSE IF c.key \in Letters \cup Symbols \cup {"space"} /\ Len(line) < MAX_LINE THEN Append(line, c)
    ELSE line

\* poll_char on a non-empty ring.
Pop == rhead # rtail /\ read' = ring[rtail] /\ rtail' = (rtail + 1) % RING_SIZE

PollChar ==
    /\ Pop
    /\ line' = EditLine(ring[rtail])
    /\ UNCHANGED <<device, ring, rhead, flags>>

\* A byte from COM1, which the shell polls after it found the ring empty. A key
\* may come between the two looks, so the ring is in any state by now; that the
\* shell is past the first look need not be remembered.
ReadSerial(c) ==
    /\ line' = EditLine(c)
    /\ UNCHANGED <<device, ringVars, flags, read>>

\* SYS_GETC takes the character from the same ring, past the shell.
GetC ==
    /\ Pop
    /\ UNCHANGED <<device, ring, rhead, flags, line>>

----------------------------------------------------------------------------
KbdNext ==
    \/ Irq1 \/ PollChar \/ GetC
    \/ \E c \in Char : ReadSerial(c)
    \/ \E k \in Keys : Press(k) \/ Release(k) \/ PressExtended(k)

KbdSpec == KbdInit /\ [][KbdNext]_kbdVars

----------------------------------------------------------------------------
(* Properties *)

KbdTypeOK ==
    /\ bytes \in Seq([key : Keys \cup {"E0"}, break : BOOLEAN, second : BOOLEAN]) /\ Len(bytes) <= 2
    /\ down \subseteq Shifts
    /\ ring \in [0 .. RING_SIZE - 1 -> Char \cup {NoChar}]
    /\ rhead \in 0 .. RING_SIZE - 1 /\ rtail \in 0 .. RING_SIZE - 1
    /\ extended \in BOOLEAN /\ shift \in BOOLEAN /\ capsLock \in BOOLEAN
    /\ read \in Char \cup {NoChar}
    /\ line \in Seq(Char) /\ Len(line) <= MAX_LINE

Queued == (rhead - rtail + RING_SIZE) % RING_SIZE

Queue == INSTANCE CharQueue WITH
    CAPACITY <- RING_SIZE - 1,
    queue <- [i \in 1 .. Queued |-> ring[(rtail + i - 1) % RING_SIZE]],
    last <- read

\* The ring is a bounded first-in first-out queue: whatever the interleaving of
\* handler and poller, characters are read in the order they were typed, and
\* none is read twice or overwritten (keyboard.rs:55-101).
RingIsQueue == Queue!Spec

\* The handler never loses step with the device: it waits for the second byte
\* of an extended key exactly when that byte is next (keyboard.rs:127-134).
ExtendedInStep == extended <=> bytes # <<>> /\ Head(bytes).second

\* Shift never sticks: once the device has nothing more to say, SHIFT is set
\* only while a shift key is held (keyboard.rs:135-143).
NoStuckShift == bytes = <<>> /\ shift => down # {}

\* The handler's flags follow the device through every sequence of keys
\* (keyboard.rs:126-143).
InStep == KbdTypeOK /\ ExtendedInStep /\ NoStuckShift
=============================================================================
