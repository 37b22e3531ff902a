-------------------------------- MODULE Ps2 ---------------------------------
(***************************************************************************)
(* Bringing the keyboard up: keyboard::init (kernel/src/keyboard.rs), which *)
(* talks to the 8042 and to the keyboard behind it by polling, against      *)
(* hardware that may be absent, slow, may answer wrongly or send keys in    *)
(* between.  A poll that gives up after 100_000 turns gives up at any time  *)
(* the bit it waits for is not there.                                      *)
(***************************************************************************)
EXTENDS Naturals, Sequences

CONSTANT MAX_Q      \* bound: bytes the keyboard has to send

VARIABLES
    ctl,    \* the 8042: input and output buffer, configuration
    kb,     \* the keyboard: bytes to send, scancode set, scanning
    wired,  \* whether there are an 8042 and a keyboard
    step,   \* init: which exchange it is at
    phase,  \* "wait", "out" or "read"
    ready   \* what init returned, or "running"

ps2 == <<ctl, kb, wired, step, phase, ready>>

none == "none"
Send(byte) == [wait |-> TRUE, byte |-> byte, expect |-> none]
Ask(byte, answer) == [wait |-> TRUE, byte |-> byte, expect |-> answer]

\* The exchanges of init after the first.  "flush" sends nothing and empties the output
\* buffer; the BAT is read without a command, and may be missing.
Exchanges == <<
    Send("flush"), [Ask("self_test", "55") EXCEPT !.wait = FALSE],
    Ask("read_config", "any"), Send("write_config"), Send("config"), Send("enable"),
    Ask("reset", "FA"), [Ask(none, "maybe") EXCEPT !.wait = FALSE],
    Ask("set_scancode_set", "FA"), Ask("set_1", "FA"), Ask("enable_scanning", "FA") >>

\* Mutant: the keyboard goes on sending while init flushes.
ScriptNoDisable == Exchanges

\* The keyboard is silenced first.
Script == <<Send("disable")>> \o Exchanges

\* Mutant: any answer will do.
MatchesAny(expect, byte) == TRUE

Matches(expect, byte) == expect \in {"any", "maybe", byte}

Ps2Init ==
    /\ wired \in {[ctl |-> TRUE, kb |-> TRUE], [ctl |-> TRUE, kb |-> FALSE], [ctl |-> FALSE, kb |-> FALSE]}
    /\ ctl \in [ibf : {none}, obf : {none, "key"},
                kbd : {TRUE}, int : BOOLEAN, xlate : BOOLEAN, param : {FALSE}]
    /\ ctl.obf # none => wired.kb
    /\ kb \in [q : {<< >>}, set : {2}, scanning : BOOLEAN, param : {FALSE}]
    /\ step = 1 /\ phase = "wait" /\ ready = "running"

----------------------------------------------------------------------------
(* init *)

Return(result) == ready' = result /\ UNCHANGED <<step, phase>>
Advance ==
    IF step = Len(Script) THEN Return("true")
    ELSE /\ step' = step + 1
         /\ phase' = IF Script[step + 1].wait THEN "wait"
                     ELSE IF Script[step + 1].byte = none THEN "read" ELSE "out"
         /\ ready' = ready

\* wait_input_clear: an absent 8042 reads as busy.
WaitInputClear ==
    /\ phase = "wait"
    /\ IF wired.ctl /\ ctl.ibf = none
       THEN phase' = "out" /\ UNCHANGED <<step, ready>>
       ELSE Return("false")
    /\ UNCHANGED <<ctl, kb, wired>>

Out ==
    /\ phase = "out" /\ Script[step].byte # "flush"
    /\ ctl' = [ctl EXCEPT !.ibf = Script[step].byte]
    /\ IF Script[step].expect = none THEN Advance
       ELSE phase' = "read" /\ UNCHANGED <<step, ready>>
    /\ UNCHANGED <<kb, wired>>

Taken == [ctl EXCEPT !.obf = none]

Flush ==
    /\ phase = "out" /\ Script[step].byte = "flush"
    /\ IF ctl.obf # none THEN ctl' = Taken /\ UNCHANGED <<step, phase, ready>>
       ELSE Advance /\ UNCHANGED ctl
    /\ UNCHANGED <<kb, wired>>

\* read_byte, with an answer and without.
ReadByte ==
    /\ phase = "read" /\ ctl.obf # none
    /\ ctl' = Taken
    /\ IF Matches(Script[step].expect, ctl.obf) THEN Advance ELSE Return("false")
    /\ UNCHANGED <<kb, wired>>

ReadTimeout ==
    /\ phase = "read" /\ ctl.obf = none
    /\ IF Script[step].expect = "maybe" THEN Advance ELSE Return("false")
    /\ UNCHANGED <<ctl, kb, wired>>

Init8042 == ready = "running" /\ (WaitInputClear \/ Out \/ Flush \/ ReadByte \/ ReadTimeout)

----------------------------------------------------------------------------
(* The hardware *)

Commands == {"disable", "enable", "self_test", "read_config", "write_config"}

\* The 8042 executes a command; a self test may fail.
CtlCommand ==
    LET c == [ctl EXCEPT !.ibf = none]
    IN  /\ wired.ctl /\ ctl.ibf \in Commands
        /\ \/ ctl.ibf = "disable" /\ ctl' = [c EXCEPT !.kbd = FALSE]
           \/ ctl.ibf = "enable" /\ ctl' = [c EXCEPT !.kbd = TRUE]
           \/ ctl.ibf = "write_config" /\ ctl' = [c EXCEPT !.param = TRUE]
           \/ /\ ctl.ibf = "self_test" /\ ctl.obf = none
              /\ \E answer \in {"55", "bad"} : ctl' = [c EXCEPT !.obf = answer]
           \/ ctl.ibf = "read_config" /\ ctl.obf = none /\ ctl' = [c EXCEPT !.obf = "cfg"]
        /\ UNCHANGED <<kb, wired, step, phase, ready>>

\* The value init writes: interrupts on, translation off.
CtlConfig ==
    /\ ctl.ibf = "config" /\ ctl.param
    /\ ctl' = [ctl EXCEPT !.ibf = none, !.param = FALSE, !.int = TRUE, !.xlate = FALSE]
    /\ UNCHANGED <<kb, wired, step, phase, ready>>

\* The keyboard executes a command.  It may drop what it had to send; it may ask
\* for a resend; after a reset it is in set 2, scanning or not, and may not report
\* its BAT.
KbCommand ==
    /\ ctl.ibf \in {"reset", "set_scancode_set", "set_1", "enable_scanning"}
    /\ wired.kb
    /\ ctl' = [ctl EXCEPT !.ibf = none]
    /\ IF ctl.ibf = "reset"
       THEN \E q \in {<<"FA">>, <<"FA", "AA">>, <<"bad">>}, scanning \in BOOLEAN :
              kb' = [q |-> q, set |-> 2, scanning |-> scanning, param |-> FALSE]
       ELSE \E q \in {<< >>, kb.q} :
              \/ kb' = [kb EXCEPT !.q = Append(q, "bad")]
              \/ kb' = [q |-> Append(q, "FA"),
                        set |-> IF ctl.ibf = "set_1" /\ kb.param THEN 1 ELSE kb.set,
                        scanning |-> kb.scanning \/ ctl.ibf = "enable_scanning",
                        param |-> ctl.ibf = "set_scancode_set"]
    /\ UNCHANGED <<wired, step, phase, ready>>

\* A byte for a keyboard that is not there is lost.
KbAbsent ==
    /\ wired.ctl /\ ~wired.kb /\ ctl.ibf \notin Commands \cup {none, "config"}
    /\ ctl' = [ctl EXCEPT !.ibf = none]
    /\ UNCHANGED <<kb, wired, step, phase, ready>>

KbSend ==
    /\ ctl.kbd /\ ctl.obf = none /\ kb.q # << >>
    /\ ctl' = [ctl EXCEPT !.obf = Head(kb.q)]
    /\ kb' = [kb EXCEPT !.q = Tail(@)]
    /\ UNCHANGED <<wired, step, phase, ready>>

KeyPress ==
    /\ wired.kb /\ kb.scanning /\ Len(kb.q) < MAX_Q
    /\ kb' = [kb EXCEPT !.q = Append(@, "key")]
    /\ UNCHANGED <<ctl, wired, step, phase, ready>>

Hardware == CtlCommand \/ CtlConfig \/ KbCommand \/ KbAbsent \/ KbSend \/ KeyPress
=============================================================================
