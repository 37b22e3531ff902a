-------------------------- MODULE InterruptsProofs --------------------------
(***************************************************************************)
(* Theorems about Interrupts, for every length of the timer demo and of    *)
(* the keyboard's queue: interrupts are on only when every one of them can *)
(* be taken, faults are reported, and keyboard::init returns true only     *)
(* for a keyboard that is up.                                              *)
(***************************************************************************)
EXTENDS Interrupts, Integers, TLAPS

----------------------------------------------------------------------------
(* What keyboard::init and the hardware keep between them: which bytes can *)
(* be on their way at which exchange, so that an answer is never taken for *)
(* another question's.                                                     *)

\* What the keyboard sends, and what init finds in the output buffer.
Bytes == {"key", "FA", "AA", "bad"}
Answers == {"key", "55", "bad", "cfg", "FA", "AA"}
Questions == Commands \cup {"config", "reset", "set_scancode_set", "set_1", "enable_scanning"}

Ps2Type ==
    /\ ctl \in [ibf : Questions \cup {none}, obf : Answers \cup {none},
                kbd : BOOLEAN, int : BOOLEAN, xlate : BOOLEAN, param : BOOLEAN]
    /\ kb \in [q : Seq(Bytes), set : {1, 2}, scanning : BOOLEAN, param : BOOLEAN]
    /\ step \in 1 .. 12 /\ phase \in {"wait", "out", "read"}
    /\ ready \in {"running", "true", "false"}

\* What is on its way from the keyboard: o in the output buffer, then q.
Only(S, o, q) == o \in S \cup {none} /\ \A i \in DOMAIN q : q[i] \in S
Ack(o, q) == o = "FA" \/ \E i \in DOMAIN q : q[i] = "FA"
Behind(S, o, q) ==
    /\ o = "FA" => \A i \in DOMAIN q : q[i] \in S
    /\ \A i, j \in DOMAIN q : q[i] = "FA" /\ i < j => q[j] \in S

KEY == {"key"}
LATE == {"key", "AA"}

Coming(S) == Only(S, ctl.obf, kb.q)
Acked == Ack(ctl.obf, kb.q)
AckThen(S) == Behind(S, ctl.obf, kb.q)

\* The keyboard is silenced: its bytes stay in its queue, and init talks to the 8042.
Silenced == ~ctl.kbd /\ \A i \in DOMAIN kb.q : kb.q[i] = "key"
Configured == ctl.int /\ ~ctl.xlate

\* A question to the 8042, and its answer.
Asked(question, answers) ==
    /\ phase # "read" => ctl.ibf = none /\ ctl.obf = none
    /\ phase = "read" => /\ ctl.ibf \in {question, none} /\ ctl.obf \in answers \cup {none}
                         /\ ctl.obf # none => ctl.ibf = none

\* A command to the keyboard: until it executes it no ACK is on its way, and what
\* follows the ACK is in S; an ACK means that the command had its effect.
Told(command, before, S, effect) ==
    /\ ctl.kbd
    /\ phase # "read" => ctl.ibf = none /\ Coming(before)
    /\ phase = "read" => \/ ctl.ibf = command /\ Coming(before)
                         \/ ctl.ibf = none /\ AckThen(S) /\ (Acked => effect)

\* Where the exchanges are, step by step.
Progress ==
    /\ step = 1 => phase # "read" /\ ctl.ibf = none /\ Coming(KEY)
    /\ step = 2 => /\ phase # "read" /\ Coming(KEY)
                   /\ \/ ctl.ibf = "disable" /\ phase = "wait"
                      \/ ctl.ibf = none /\ ~ctl.kbd
    /\ step \in 3 .. 7 => Silenced
    /\ step = 3 => phase # "wait" /\ Asked("self_test", {"55", "bad"})
    /\ step = 4 => Asked("read_config", {"cfg"})
    /\ step \in 5 .. 7 => phase # "read" /\ ctl.obf = none
    /\ step = 5 => ctl.ibf = none
    /\ step = 6 => \/ ctl.ibf = "write_config" /\ phase = "wait"
                   \/ ctl.ibf = none /\ ctl.param
    /\ step = 7 => \/ ctl.ibf = "config" /\ phase = "wait" /\ ctl.param
                   \/ ctl.ibf = none /\ Configured
    /\ step \in 8 .. 12 => Configured
    /\ step = 8 => \/ ctl.ibf = "enable" /\ phase = "wait" /\ Coming(KEY)
                   \/ Told("reset", KEY, LATE, kb.set = 2)
    /\ step = 9 => phase = "read" /\ ctl.kbd /\ ctl.ibf = none /\ Coming(LATE)
    /\ step = 10 => Told("set_scancode_set", LATE, KEY, kb.param)
    /\ step = 11 => Told("set_1", KEY, KEY, kb.set = 1) /\ (ctl.ibf # none \/ phase # "read" => kb.param)
    /\ step = 12 => Told("enable_scanning", KEY, KEY, kb.scanning) /\ kb.set = 1

Up == ctl.kbd /\ Configured /\ kb.set = 1 /\ kb.scanning /\ ctl.ibf = none /\ Coming(KEY)

Ps2Inv ==
    /\ Ps2Type
    /\ ready = "running" => Progress
    /\ ready = "true" => Up

----------------------------------------------------------------------------
(* Bytes on their way from the keyboard. *)

LEMMA SendBytes ==
    ASSUME NEW q \in Seq(Bytes), q # << >>, NEW S
    PROVE  /\ Head(q) \in Bytes /\ Tail(q) \in Seq(Bytes)
           /\ Only(S, none, q) => Only(S, Head(q), Tail(q))
           /\ Ack(Head(q), Tail(q)) => Ack(none, q)
           /\ Behind(S, none, q) => Behind(S, Head(q), Tail(q))
<1>1. /\ Head(q) \in Bytes /\ Tail(q) \in Seq(Bytes) /\ Head(q) = q[1] /\ Len(q) \in Nat \ {0}
      /\ DOMAIN q = 1 .. Len(q) /\ DOMAIN Tail(q) = 1 .. Len(q) - 1
      /\ \A i \in 1 .. Len(q) - 1 : Tail(q)[i] = q[i + 1]
  OBVIOUS
<1>2. 1 \in DOMAIN q /\ \A i \in DOMAIN Tail(q) : i \in Int /\ i + 1 \in DOMAIN q /\ Tail(q)[i] = q[i + 1] /\ 1 < i + 1
  BY <1>1
<1>3. Only(S, none, q) => Only(S, Head(q), Tail(q))
  BY <1>1, <1>2 DEF Only
<1>4. Ack(Head(q), Tail(q)) => Ack(none, q)
  BY <1>1, <1>2 DEF Ack
<1>5. ASSUME Behind(S, none, q) PROVE Behind(S, Head(q), Tail(q))
  <2>1. Head(q) = "FA" => \A i \in DOMAIN Tail(q) : Tail(q)[i] \in S
    BY <1>1, <1>2, <1>5 DEF Behind
  <2>2. ASSUME NEW i \in DOMAIN Tail(q), NEW j \in DOMAIN Tail(q), Tail(q)[i] = "FA", i < j
        PROVE  Tail(q)[j] \in S
    <3>1. i + 1 < j + 1
      BY <1>2, <2>2
    <3>. QED BY <1>2, <1>5, <2>2, <3>1 DEF Behind
  <2>. QED BY <2>1, <2>2 DEF Behind
<1>. QED BY <1>1, <1>3, <1>4, <1>5

LEMMA AppendBytes ==
    ASSUME NEW q \in Seq(Bytes), NEW b \in Bytes
    PROVE  /\ Append(q, b) \in Seq(Bytes)
           /\ DOMAIN Append(q, b) = 1 .. Len(q) + 1 /\ DOMAIN q = 1 .. Len(q) /\ Len(q) \in Nat
           /\ Append(q, b)[Len(q) + 1] = b
           /\ \A i \in 1 .. Len(q) : Append(q, b)[i] = q[i]
  OBVIOUS

LEMMA KeyBytes ==
    ASSUME NEW q \in Seq(Bytes), NEW o, NEW S, "key" \in S
    PROVE  /\ Append(q, "key") \in Seq(Bytes)
           /\ Only(S, o, q) => Only(S, o, Append(q, "key"))
           /\ Ack(o, Append(q, "key")) => Ack(o, q)
           /\ Behind(S, o, q) => Behind(S, o, Append(q, "key"))
<1> DEFINE r == Append(q, "key")
<1>1. /\ r \in Seq(Bytes) /\ DOMAIN r = 1 .. Len(q) + 1 /\ DOMAIN q = 1 .. Len(q) /\ Len(q) \in Nat
      /\ r[Len(q) + 1] = "key" /\ \A i \in 1 .. Len(q) : r[i] = q[i]
  BY AppendBytes DEF Bytes
<1> HIDE DEF r
<1>2. \A i \in DOMAIN r : r[i] = "key" \/ (i \in DOMAIN q /\ r[i] = q[i])
  BY <1>1
<1>3. Only(S, o, q) => Only(S, o, r)
  BY <1>2 DEF Only
<1>4. Ack(o, r) => Ack(o, q)
  BY <1>2 DEF Ack
<1>5. Behind(S, o, q) => Behind(S, o, r)
  BY <1>2 DEF Behind
<1>. QED BY <1>1, <1>3, <1>4, <1>5 DEF r

\* Without an ACK nothing is behind one.
LEMMA NoAck ==
    ASSUME NEW q, NEW o, NEW S, NEW T, Only(S, o, q), "FA" \notin S
    PROVE  ~Ack(o, q) /\ Behind(T, o, q)
  BY DEF Only, Ack, Behind, none

\* A command is answered behind what was on its way.
LEMMA AnswerBytes ==
    ASSUME NEW q \in Seq(Bytes), NEW o, NEW S, NEW T, Only(S, o, q), "FA" \notin S, NEW r \in {<< >>, q}
    PROVE  /\ Append(r, "FA") \in Seq(Bytes) /\ Append(r, "bad") \in Seq(Bytes)
           /\ Behind(T, o, Append(r, "FA"))
           /\ ~Ack(o, Append(r, "bad")) /\ Behind(T, o, Append(r, "bad"))
<1>1. r \in Seq(Bytes) /\ Only(S, o, r)
  <2>1. << >> \in Seq(Bytes) /\ DOMAIN << >> = {}
    OBVIOUS
  <2>. QED BY Zenon, <2>1 DEF Only
<1>2. ASSUME NEW b \in {"FA", "bad"}
      PROVE  /\ Append(r, b) \in Seq(Bytes) /\ Len(r) \in Nat
             /\ \A i \in DOMAIN Append(r, b) : i \in 1 .. Len(r) + 1
             /\ \A i \in DOMAIN Append(r, b) : i # Len(r) + 1 => Append(r, b)[i] # "FA"
             /\ Append(r, b)[Len(r) + 1] = b
  BY <1>1, AppendBytes DEF Only, Bytes
<1>3. o # "FA"
  BY DEF Only, none
<1>4. Behind(T, o, Append(r, "FA"))
  BY <1>2, <1>3 DEF Behind
<1>5. \A i \in DOMAIN Append(r, "bad") : Append(r, "bad")[i] # "FA"
  BY <1>2
<1>. QED BY <1>2, <1>3, <1>4, <1>5 DEF Ack, Behind

LEMMA ResetBytes ==
    ASSUME NEW o, o # "FA", NEW q \in {<<"FA">>, <<"FA", "AA">>, <<"bad">>}
    PROVE  q \in Seq(Bytes) /\ Behind(LATE, o, q)
<1>1. CASE q \in {<<"FA">>, <<"bad">>}
  <2>1. PICK b \in Bytes : q = <<b>>
    BY <1>1 DEF Bytes
  <2>2. q \in Seq(Bytes) /\ DOMAIN q = {1}
    BY <2>1
  <2>. QED BY <2>2 DEF Behind
<1>2. CASE q = <<"FA", "AA">>
  <2>1. q \in Seq(Bytes) /\ DOMAIN q = {1, 2} /\ q[2] = "AA"
    BY <1>2 DEF Bytes
  <2>. QED BY <2>1 DEF Behind, LATE
<1>. QED BY <1>1, <1>2

LEMMA ReadAck ==
    ASSUME NEW q, NEW S, Behind(S, "FA", q)
    PROVE  Only(S, none, q)
  BY DEF Behind, Only

----------------------------------------------------------------------------
(* The exchanges of init. *)

LEMMA Joined ==
    ASSUME NEW S, NEW s \in Seq(S), NEW r \in Seq(S)
    PROVE  /\ s \o r \in Seq(S) /\ Len(s \o r) = Len(s) + Len(r)
           /\ \A i \in 1 .. Len(s) + Len(r) : (s \o r)[i] = IF i <= Len(s) THEN s[i] ELSE r[i - Len(s)]
  OBVIOUS

LEMMA ScriptFacts ==
    /\ DOMAIN Script = 1 .. 12 /\ Len(Script) = 12
    /\ \A i \in 1 .. 12 : (Script[i].wait <=> i \notin {3, 9})
    /\ Script[1].byte = "disable" /\ Script[2].byte = "flush" /\ Script[3].byte = "self_test"
    /\ Script[4].byte = "read_config" /\ Script[5].byte = "write_config" /\ Script[6].byte = "config"
    /\ Script[7].byte = "enable" /\ Script[8].byte = "reset" /\ Script[9].byte = none
    /\ Script[10].byte = "set_scancode_set" /\ Script[11].byte = "set_1" /\ Script[12].byte = "enable_scanning"
    /\ \A i \in {1, 2, 5, 6, 7} : Script[i].expect = none
    /\ Script[3].expect = "55" /\ Script[4].expect = "any" /\ Script[9].expect = "maybe"
    /\ \A i \in {8, 10, 11, 12} : Script[i].expect = "FA"
<1>1. PICK a, b, c, d, e, f, g, h, j, k, l :
         /\ Exchanges = <<a, b, c, d, e, f, g, h, j, k, l>>
         /\ a = Send("flush") /\ b = [Ask("self_test", "55") EXCEPT !.wait = FALSE]
         /\ c = Ask("read_config", "any") /\ d = Send("write_config") /\ e = Send("config")
         /\ f = Send("enable") /\ g = Ask("reset", "FA") /\ h = [Ask(none, "maybe") EXCEPT !.wait = FALSE]
         /\ j = Ask("set_scancode_set", "FA") /\ k = Ask("set_1", "FA") /\ l = Ask("enable_scanning", "FA")
  BY Zenon DEF Exchanges
<1>2. PICK x, S : x = Send("disable") /\ S = {x, a, b, c, d, e, f, g, h, j, k, l}
  BY Zenon
<1>3. PICK s : s = <<a, b, c, d, e, f, g, h, j, k, l>>
  BY Zenon
<1>4. /\ s \in Seq(S) /\ Len(s) = 11
      /\ s[1] = a /\ s[2] = b /\ s[3] = c /\ s[4] = d /\ s[5] = e /\ s[6] = f /\ s[7] = g /\ s[8] = h
      /\ s[9] = j /\ s[10] = k /\ s[11] = l
  BY ONLY <1>2, <1>3
<1>5. Script = <<x>> \o s
  BY <1>1, <1>2, <1>3 DEF Script
<1>0. x \in S /\ s \in Seq(S) /\ Len(s) = 11
  BY ONLY <1>2, <1>4
<1>6. /\ Len(Script) = 12 /\ DOMAIN Script = 1 .. 12 /\ Script[1] = x
      /\ \A n \in 2 .. 12 : Script[n] = s[n - 1]
  <2>1. PICK y : y = <<x>>
    BY Zenon
  <2>2. y \in Seq(S) /\ Len(y) = 1 /\ y[1] = x
    BY <1>0, <2>1
  <2>3. Script = y \o s
    BY <1>5, <2>1
  <2>4. /\ Script \in Seq(S) /\ Len(Script) = Len(y) + Len(s)
        /\ \A i \in 1 .. Len(y) + Len(s) : Script[i] = IF i <= Len(y) THEN y[i] ELSE s[i - Len(y)]
    BY ONLY <1>0, <2>2, <2>3, Joined, Zenon
  <2>5. Len(Script) = 12 /\ \A i \in 1 .. 12 : Script[i] = IF i <= 1 THEN x ELSE s[i - 1]
    BY <1>0, <2>2, <2>4
  <2>6. DOMAIN Script = 1 .. Len(Script)
    BY ONLY <2>4
  <2>. QED BY ONLY <2>5, <2>6
<1>7. /\ Script[1] = x /\ Script[2] = a /\ Script[3] = b /\ Script[4] = c /\ Script[5] = d /\ Script[6] = e
      /\ Script[7] = f /\ Script[8] = g /\ Script[9] = h /\ Script[10] = j /\ Script[11] = k /\ Script[12] = l
  BY ONLY <1>4, <1>6
<1>8. /\ x.wait /\ x.byte = "disable" /\ x.expect = none /\ a.wait /\ a.byte = "flush" /\ a.expect = none
      /\ ~b.wait /\ b.byte = "self_test" /\ b.expect = "55" /\ c.wait /\ c.byte = "read_config" /\ c.expect = "any"
      /\ d.wait /\ d.byte = "write_config" /\ d.expect = none /\ e.wait /\ e.byte = "config" /\ e.expect = none
  BY <1>1, <1>2 DEF Send, Ask
<1>9. /\ f.wait /\ f.byte = "enable" /\ f.expect = none /\ g.wait /\ g.byte = "reset" /\ g.expect = "FA"
      /\ ~h.wait /\ h.byte = none /\ h.expect = "maybe"
      /\ j.wait /\ j.byte = "set_scancode_set" /\ j.expect = "FA"
      /\ k.wait /\ k.byte = "set_1" /\ k.expect = "FA"
      /\ l.wait /\ l.byte = "enable_scanning" /\ l.expect = "FA"
  BY <1>1 DEF Send, Ask
<1>10. \A i \in 1 .. 12 : i \in {1, 2, 3, 4, 5, 6, 7, 8, 9, 10, 11, 12}
  OBVIOUS
<1>11. \A i \in 1 .. 12 : (Script[i].wait <=> i \notin {3, 9})
  BY ONLY <1>7, <1>8, <1>9, <1>10
<1>. QED BY ONLY <1>6, <1>7, <1>8, <1>9, <1>11

LEMMA AdvanceStep ==
    ASSUME step \in 1 .. 12, Advance
    PROVE  /\ step = 12 => ready' = "true" /\ UNCHANGED <<step, phase>>
           /\ step # 12 => /\ step' = step + 1 /\ ready' = ready
                           /\ phase' = IF step = 2 THEN "out" ELSE IF step = 8 THEN "read" ELSE "wait"
<1>1. CASE step = 12
  BY <1>1, ScriptFacts DEF Advance, Return
<1>2. CASE step # 12
  <2>0. PICK n : n = step + 1
    OBVIOUS
  <2>1. n \in 2 .. 12 /\ (Script[n].wait <=> n \notin {3, 9})
    BY <1>2, <2>0, ScriptFacts
  <2>2. Script[3].byte # none /\ Script[9].byte = none
    BY ScriptFacts DEF none
  <2>3. step' = n /\ phase' = (IF n = 3 THEN "out" ELSE IF n = 9 THEN "read" ELSE "wait") /\ ready' = ready
    BY <1>2, <2>0, <2>1, <2>2, ScriptFacts DEF Advance
  <2>. QED BY <1>2, <2>0, <2>3
<1>. QED BY <1>1, <1>2

\* Bytes that only move on, or come as keys, disturb no exchange.
LEMMA BytesMove ==
    ASSUME Progress, UNCHANGED <<step, phase>>,
           /\ ctl'.ibf = ctl.ibf /\ ctl'.int = ctl.int /\ ctl'.xlate = ctl.xlate
           /\ ctl'.kbd = ctl.kbd /\ ctl'.param = ctl.param,
           kb'.set = kb.set /\ kb'.param = kb.param /\ kb'.scanning = kb.scanning,
           Coming(KEY) => Coming(KEY)', Coming(LATE) => Coming(LATE)',
           AckThen(KEY) => AckThen(KEY)', AckThen(LATE) => AckThen(LATE)', Acked' => Acked,
           Silenced => Silenced' /\ ctl'.obf = ctl.obf
    PROVE  Progress'
<1>1. Configured' <=> Configured
  BY DEF Configured
<1>2. ASSUME Silenced
      PROVE  /\ Asked("self_test", {"55", "bad"}) => Asked("self_test", {"55", "bad"})'
             /\ Asked("read_config", {"cfg"}) => Asked("read_config", {"cfg"})'
  BY <1>2 DEF Asked
<1>3. /\ Told("reset", KEY, LATE, kb.set = 2) => Told("reset", KEY, LATE, kb.set = 2)'
      /\ Told("set_scancode_set", LATE, KEY, kb.param) => Told("set_scancode_set", LATE, KEY, kb.param)'
      /\ Told("set_1", KEY, KEY, kb.set = 1) => Told("set_1", KEY, KEY, kb.set = 1)'
      /\ Told("enable_scanning", KEY, KEY, kb.scanning) => Told("enable_scanning", KEY, KEY, kb.scanning)'
  BY DEF Told
<1>4. /\ step = 1 => phase' # "read" /\ ctl'.ibf = none /\ Coming(KEY)'
      /\ step = 2 => /\ phase' # "read" /\ Coming(KEY)'
                     /\ \/ ctl'.ibf = "disable" /\ phase' = "wait"
                        \/ ctl'.ibf = none /\ ~ctl'.kbd
      /\ step = 9 => phase' = "read" /\ ctl'.kbd /\ ctl'.ibf = none /\ Coming(LATE)'
  BY DEF Progress
<1>. QED BY <1>1, <1>2, <1>3, <1>4 DEF Progress

\* The hardware keeps to the exchange that is under way.
LEMMA HardwareStep ==
    ASSUME Ps2Inv, Hardware
    PROVE  Ps2Inv'
<1> USE DEF Ps2Inv
<1> USE DEF none
<1>0. UNCHANGED <<step, phase, ready>>
  BY DEF Hardware, CtlCommand, CtlConfig, KbCommand, KbAbsent, KbSend, KeyPress
<1>1. CASE CtlCommand
  <2>1. /\ kb' = kb /\ ctl.ibf \in Commands /\ ctl'.ibf = none /\ ctl'.int = ctl.int /\ ctl'.xlate = ctl.xlate
        /\ ctl'.kbd = IF ctl.ibf = "disable" THEN FALSE ELSE IF ctl.ibf = "enable" THEN TRUE ELSE ctl.kbd
        /\ ctl'.param = IF ctl.ibf = "write_config" THEN TRUE ELSE ctl.param
        /\ ctl.ibf \notin {"self_test", "read_config"} => ctl'.obf = ctl.obf
        /\ ctl.ibf = "self_test" => ctl.obf = none /\ ctl'.obf \in {"55", "bad"}
        /\ ctl.ibf = "read_config" => ctl.obf = none /\ ctl'.obf = "cfg"
    BY ZenonT(40), <1>1 DEF CtlCommand, Commands, Ps2Type
  <2>2. Ps2Type'
    BY Zenon, <1>0, <1>1, <2>1 DEF CtlCommand, Ps2Type, Answers
  <2>3. ASSUME ready = "running" PROVE Progress'
    BY <1>0, <2>1, <2>3 DEF Ps2Type, Progress, Coming, Silenced, Asked, Told, Configured, Commands
  <2>4. ready # "true"
    BY <2>1 DEF Up, Commands
  <2>. QED BY <1>0, <2>2, <2>3, <2>4
<1>2. CASE CtlConfig
  <2>1. /\ kb' = kb /\ ctl.ibf = "config" /\ ctl'.ibf = none /\ ctl'.int /\ ~ctl'.xlate
        /\ ctl'.kbd = ctl.kbd /\ ctl'.obf = ctl.obf
    BY <1>2 DEF CtlConfig, Ps2Type
  <2>2. Ps2Type'
    BY Zenon, <1>0, <1>2 DEF CtlConfig, Ps2Type
  <2>3. ASSUME ready = "running" PROVE Progress'
    BY <1>0, <2>1, <2>3 DEF Ps2Type, Progress, Coming, Silenced, Asked, Told, Configured
  <2>. QED BY <1>0, <2>1, <2>2, <2>3 DEF Up
<1>3. CASE KbCommand
  <2>1. /\ ctl.ibf \in {"reset", "set_scancode_set", "set_1", "enable_scanning"}
        /\ ctl'.ibf = none /\ ctl'.int = ctl.int /\ ctl'.xlate = ctl.xlate /\ ctl'.kbd = ctl.kbd
        /\ ctl'.obf = ctl.obf
        /\ ctl' \in [ibf : Questions \cup {none}, obf : Answers \cup {none},
                     kbd : BOOLEAN, int : BOOLEAN, xlate : BOOLEAN, param : BOOLEAN]
    BY <1>3 DEF KbCommand, Ps2Type
  <2>2. CASE ctl.ibf = "reset"
    <3>1. PICK q \in {<<"FA">>, <<"FA", "AA">>, <<"bad">>}, m \in BOOLEAN :
            kb' = [q |-> q, set |-> 2, scanning |-> m, param |-> FALSE]
      BY <1>3, <2>2 DEF KbCommand
    <3>2. Ps2Type'
      BY Zenon, <1>0, <2>1, <3>1, ResetBytes DEF Ps2Type, Bytes
    <3>3. ASSUME ready = "running" PROVE Progress'
      <4>1. step = 8 /\ phase = "read" /\ Coming(KEY) /\ ctl.kbd /\ Configured
        BY <2>2, <3>3 DEF Ps2Type, Progress, Asked, Told
      <4>2. AckThen(LATE)'
        BY <2>1, <3>1, <4>1, ResetBytes DEF Coming, Only, KEY, AckThen
      <4>3. kb'.set = 2
        BY <3>1
      <4>. QED BY <1>0, <2>1, <4>1, <4>2, <4>3 DEF Progress, Told, Configured
    <3>. QED BY <1>0, <2>2, <3>2, <3>3 DEF Up
  <2>3. CASE ctl.ibf # "reset"
    <3>1. PICK q \in {<< >>, kb.q} :
              \/ kb' = [kb EXCEPT !.q = Append(q, "bad")]
              \/ kb' = [q |-> Append(q, "FA"),
                        set |-> IF ctl.ibf = "set_1" /\ kb.param THEN 1 ELSE kb.set,
                        scanning |-> kb.scanning \/ ctl.ibf = "enable_scanning",
                        param |-> ctl.ibf = "set_scancode_set"]
      BY <1>3, <2>3 DEF KbCommand
    <3>2. kb.q \in Seq(Bytes) /\ q \in Seq(Bytes) /\ "bad" \in Bytes /\ "FA" \in Bytes
      <4>1. kb.q \in Seq(Bytes)
        BY DEF Ps2Type
      <4>2. "bad" \in Bytes /\ "FA" \in Bytes
        BY DEF Bytes
      <4>3. << >> \in Seq(Bytes)
        OBVIOUS
      <4>. QED BY <4>1, <4>2, <4>3, Zenon
    <3>3. Append(q, "bad") \in Seq(Bytes) /\ Append(q, "FA") \in Seq(Bytes)
      BY ONLY <3>2, AppendBytes, Zenon
    <3>4. /\ kb'.q \in {Append(q, "bad"), Append(q, "FA")} /\ kb'.param \in BOOLEAN
          /\ kb' \in [q : Seq(Bytes), set : {1, 2}, scanning : BOOLEAN, param : BOOLEAN]
          /\ ctl.ibf = "enable_scanning" => kb'.set = kb.set
          /\ \/ kb'.q = Append(q, "bad")
             \/ /\ ctl.ibf = "set_1" /\ kb.param => kb'.set = 1
                /\ ctl.ibf = "enable_scanning" => kb'.scanning
                /\ ctl.ibf = "set_scancode_set" => kb'.param
      <4>1. kb \in [q : Seq(Bytes), set : {1, 2}, scanning : BOOLEAN, param : BOOLEAN]
        BY Zenon DEF Ps2Type
      <4>2. CASE kb' = [kb EXCEPT !.q = Append(q, "bad")]
        BY ONLY Zenon, <3>3, <4>1, <4>2
      <4>3. CASE kb' # [kb EXCEPT !.q = Append(q, "bad")]
        <5>1. PICK n, m : /\ n = IF ctl.ibf = "set_1" /\ kb.param THEN 1 ELSE kb.set
                          /\ m = (kb.scanning \/ ctl.ibf = "enable_scanning")
          OBVIOUS
        <5>2. n \in {1, 2} /\ m \in BOOLEAN /\ (ctl.ibf = "enable_scanning" => m)
          BY Zenon, <4>1, <5>1
        <5>3. kb' = [q |-> Append(q, "FA"), set |-> n, scanning |-> m, param |-> ctl.ibf = "set_scancode_set"]
          BY <3>1, <4>3, <5>1
        <5>4. /\ kb' \in [q : Seq(Bytes), set : {1, 2}, scanning : BOOLEAN, param : BOOLEAN]
              /\ kb'.q = Append(q, "FA") /\ (ctl.ibf = "enable_scanning" => kb'.scanning) /\ kb'.set = n /\ (kb'.param <=> ctl.ibf = "set_scancode_set")
          BY ONLY Zenon, <3>3, <5>2, <5>3
        <5>. QED BY Zenon, <5>1, <5>4
      <4>. QED BY Zenon, <4>2, <4>3
    <3>5. Ps2Type'
      BY Zenon, <1>0, <2>1, <3>4 DEF Ps2Type
    <3>6. ASSUME ready = "running" PROVE Progress'
      <4>1. /\ step \in {10, 11, 12} /\ phase = "read" /\ ctl.kbd /\ Configured /\ Coming(LATE)
            /\ step = 10 => ctl.ibf = "set_scancode_set"
            /\ step = 11 => ctl.ibf = "set_1" /\ kb.param
            /\ step = 12 => ctl.ibf = "enable_scanning" /\ kb.set = 1
        BY <2>1, <2>3, <3>6 DEF Ps2Type, Progress, Asked, Told, Coming, Only, KEY, LATE
      <4>2. PICK o : o = ctl.obf
        OBVIOUS
      <4>3. Only(LATE, o, kb.q) /\ "FA" \notin LATE
        BY <4>1, <4>2 DEF Coming, LATE
      <4>4. /\ Behind(KEY, o, Append(q, "FA")) /\ Behind(KEY, o, Append(q, "bad"))
            /\ ~Ack(o, Append(q, "bad"))
        BY ONLY Zenon, <3>1, <3>2, <4>3, AnswerBytes
      <4>5. AckThen(KEY)' /\ (kb'.q = Append(q, "bad") => ~Acked')
        BY ZenonT(40), <2>1, <3>4, <4>2, <4>4 DEF AckThen, Acked
      <4>6. ctl'.kbd /\ Configured' /\ ctl'.ibf = none
        BY <2>1, <4>1 DEF Configured
      <4>7. CASE step = 10
        BY SMTT(30), <1>0, <3>4, <4>1, <4>5, <4>6, <4>7 DEF Progress, Told
      <4>8. CASE step = 11
        BY SMTT(30), <1>0, <3>4, <4>1, <4>5, <4>6, <4>8 DEF Progress, Told
      <4>9. CASE step = 12
        BY <1>0, <3>4, <4>1, <4>5, <4>6, <4>9 DEF Progress, Told
      <4>. QED BY <4>1, <4>7, <4>8, <4>9
    <3>. QED BY <1>0, <2>1, <3>5, <3>6 DEF Up
  <2>. QED BY <2>2, <2>3
<1>4. CASE KbAbsent
  <2>1. /\ kb' = kb /\ ctl.ibf \notin Commands \cup {none, "config"}
        /\ ctl'.ibf = none /\ ctl'.int = ctl.int /\ ctl'.xlate = ctl.xlate /\ ctl'.kbd = ctl.kbd
        /\ ctl'.obf = ctl.obf
    BY <1>4 DEF KbAbsent, Ps2Type
  <2>2. Ps2Type'
    BY ZenonT(40), <1>0, <1>4 DEF KbAbsent, Ps2Type
  <2>3. ASSUME ready = "running" PROVE Progress'
    <3>1. /\ step \in {8, 10, 11, 12} /\ phase = "read" /\ ctl.kbd /\ Configured /\ Coming(LATE)
          /\ step = 12 => kb.set = 1
      BY <2>1, <2>3 DEF Ps2Type, Progress, Asked, Told, Coming, Only, KEY, LATE, Commands
    <3>2. ~Acked' /\ AckThen(KEY)' /\ AckThen(LATE)'
      BY <2>1, <3>1, NoAck DEF Coming, LATE, Acked, AckThen
    <3>. QED BY <1>0, <2>1, <3>1, <3>2 DEF Progress, Told, Configured
  <2>. QED BY <1>0, <2>1, <2>2, <2>3 DEF Up
<1>5. CASE KbSend
  <2>1. /\ ctl.kbd /\ ctl.obf = none /\ kb.q # << >> /\ kb.q \in Seq(Bytes)
        /\ ctl'.ibf = ctl.ibf /\ ctl'.int = ctl.int /\ ctl'.xlate = ctl.xlate /\ ctl'.kbd /\ ctl'.param = ctl.param
        /\ ctl'.obf = Head(kb.q) /\ kb'.q = Tail(kb.q)
        /\ kb'.set = kb.set /\ kb'.param = kb.param /\ kb'.scanning = kb.scanning
    BY <1>5 DEF KbSend, Ps2Type, Bytes
  <2>2. Ps2Type'
    <3>1. Head(kb.q) \in Bytes /\ Tail(kb.q) \in Seq(Bytes)
      BY <2>1, SendBytes
    <3>2. /\ ctl' \in [ibf : Questions \cup {none}, obf : Answers \cup {none},
                       kbd : BOOLEAN, int : BOOLEAN, xlate : BOOLEAN, param : BOOLEAN]
      BY ZenonT(40), <1>5, <3>1 DEF KbSend, Ps2Type, Bytes, Answers
    <3>. QED BY Zenon, <1>0, <1>5, <3>1, <3>2 DEF KbSend, Ps2Type, Bytes
  <2>3. /\ Coming(KEY) => Coming(KEY)'
        /\ Coming(LATE) => Coming(LATE)'
        /\ AckThen(KEY) => AckThen(KEY)'
        /\ AckThen(LATE) => AckThen(LATE)'
        /\ Acked' => Acked
    BY <2>1, SendBytes DEF Coming, AckThen, Acked
  <2>4. ASSUME ready = "running" PROVE Progress'
    <3>1. ~Silenced /\ ctl'.kbd = ctl.kbd
      BY Zenon, <1>5, <2>1 DEF Silenced, KbSend, Ps2Type
    <3>. QED BY <1>0, <2>1, <2>3, <2>4, <3>1, BytesMove
  <2>. QED BY <1>0, <2>1, <2>2, <2>3, <2>4 DEF Up, Configured
<1>6. CASE KeyPress
  <2>1. /\ ctl' = ctl /\ kb.q \in Seq(Bytes)
        /\ kb'.q = Append(kb.q, "key")
        /\ kb'.set = kb.set /\ kb'.param = kb.param /\ kb'.scanning = kb.scanning
    BY Zenon, <1>6 DEF KeyPress, Ps2Type, Bytes
  <2>2. Ps2Type'
    BY Zenon, <1>0, <1>6, <2>1, AppendBytes DEF KeyPress, Ps2Type, Bytes
  <2>3. /\ Coming(KEY) => Coming(KEY)'
        /\ Coming(LATE) => Coming(LATE)'
        /\ AckThen(KEY) => AckThen(KEY)'
        /\ AckThen(LATE) => AckThen(LATE)'
        /\ Acked' => Acked
    BY <2>1, KeyBytes DEF Coming, AckThen, Acked, KEY, LATE
  <2>4. Silenced => Silenced'
    BY <2>1, KeyBytes DEF Silenced, Only, KEY
  <2>5. ASSUME ready = "running" PROVE Progress'
    BY <1>0, <2>1, <2>3, <2>4, <2>5, BytesMove
  <2>. QED BY <1>0, <2>1, <2>2, <2>3, <2>5 DEF Up, Configured
<1>. QED BY <1>1, <1>2, <1>3, <1>4, <1>5, <1>6 DEF Hardware

\* So does init, which gives up or goes on to the next exchange.
LEMMA Init8042Step ==
    ASSUME Ps2Inv, Init8042
    PROVE  Ps2Inv'
<1> USE DEF Ps2Inv
<1> USE DEF none
<1>0. kb' = kb /\ ready = "running" /\ Progress /\ Ps2Type
  BY DEF Init8042, WaitInputClear, Out, Flush, ReadByte, ReadTimeout
<1>f. ASSUME Return("false"), ctl' \in {ctl, Taken} PROVE Ps2Inv'
  BY Zenon, <1>0, <1>f DEF Return, Taken, Ps2Type
<1>1. CASE WaitInputClear
  <2>1. CASE phase' = "out" /\ ctl.ibf = none /\ UNCHANGED <<ctl, step, ready>>
    <3>1. Ps2Type' /\ phase = "wait"
      BY Zenon, <1>0, <1>1, <2>1 DEF Ps2Type, WaitInputClear
    <3>2. Progress'
      BY ZenonT(40), <1>0, <2>1, <3>1 DEF Progress, Coming, Silenced, Asked, Told, Configured
    <3>. QED BY <1>0, <2>1, <3>1, <3>2
  <2>. QED BY <1>1, <2>1, <1>f DEF WaitInputClear
<1>2. CASE Out
  <2>1. PICK b : b = Script[step].byte
    OBVIOUS
  <2>2. /\ step \in {1, 3, 4, 5, 6, 7, 8, 10, 11, 12} /\ phase = "out" /\ ctl.ibf = none
        /\ b \in Questions
        /\ step = 1 => b = "disable" /\ Script[step].expect = none
        /\ step = 3 => b = "self_test" /\ Script[step].expect # none
        /\ step = 4 => b = "read_config" /\ Script[step].expect # none
        /\ step = 5 => b = "write_config" /\ Script[step].expect = none
        /\ step = 6 => b = "config" /\ Script[step].expect = none
        /\ step = 7 => b = "enable" /\ Script[step].expect = none
        /\ step = 8 => b = "reset" /\ Script[step].expect # none
        /\ step = 10 => b = "set_scancode_set" /\ Script[step].expect # none
        /\ step = 11 => b = "set_1" /\ Script[step].expect # none
        /\ step = 12 => b = "enable_scanning" /\ Script[step].expect # none
    BY SMTT(30), <1>0, <1>2, <2>1, ScriptFacts DEF Out, Ps2Type, Progress, Asked, Told, Questions, Commands
  <2>3. /\ ctl' \in [ibf : Questions \cup {none}, obf : Answers \cup {none},
                     kbd : BOOLEAN, int : BOOLEAN, xlate : BOOLEAN, param : BOOLEAN]
        /\ ctl'.ibf = b /\ ctl'.obf = ctl.obf /\ ctl'.kbd = ctl.kbd /\ ctl'.int = ctl.int
        /\ ctl'.xlate = ctl.xlate /\ ctl'.param = ctl.param
    BY SMTT(30), <1>0, <1>2, <2>1, <2>2 DEF Out, Ps2Type
  <2>4. /\ Coming(KEY)' <=> Coming(KEY)
        /\ Coming(LATE)' <=> Coming(LATE)
        /\ Silenced' <=> Silenced
        /\ Configured' <=> Configured
    BY <1>0, <2>3 DEF Coming, Silenced, Configured
  <2>5. CASE step \in {1, 5, 6, 7}
    <3>1. step' = step + 1 /\ phase' = "wait" /\ ready' = ready
      BY <1>0, <1>2, <2>2, <2>5, AdvanceStep DEF Out, Ps2Type
    <3>2. step' \in {2, 6, 7, 8} /\ step' \in 1 .. 12
      BY ONLY <2>5, <3>1
    <3>3. Ps2Type'
      BY Zenon, <1>0, <2>3, <3>1, <3>2 DEF Ps2Type
    <3>4. CASE step = 1
      <4>1. step' = 2
        BY SMTT(30), <3>1, <3>4
      <4>. QED BY <1>0, <2>2, <2>3, <2>4, <3>1, <3>3, <3>4, <4>1 DEF Progress
    <3>5. CASE step = 5
      <4>1. step' = 6
        BY SMTT(30), <3>1, <3>5
      <4>. QED BY <1>0, <2>2, <2>3, <2>4, <3>1, <3>3, <3>5, <4>1 DEF Progress
    <3>6. CASE step = 6
      <4>1. step' = 7
        BY SMTT(30), <3>1, <3>6
      <4>. QED BY <1>0, <2>2, <2>3, <2>4, <3>1, <3>3, <3>6, <4>1 DEF Progress
    <3>7. CASE step = 7
      <4>1. step' = 8
        BY SMTT(30), <3>1, <3>7
      <4>2. Silenced /\ ctl.obf = none /\ Configured
        BY <1>0, <2>2, <3>7 DEF Progress
      <4>3. Coming(KEY)
        BY <4>2 DEF Coming, Only, KEY, Silenced
      <4>. QED BY <1>0, <2>2, <2>3, <2>4, <3>1, <3>3, <3>7, <4>1, <4>2, <4>3 DEF Progress
    <3>. QED BY <2>5, <3>4, <3>5, <3>6, <3>7
  <2>6. CASE step \in {3, 4, 8, 10, 11, 12}
    <3>1. step' = step /\ phase' = "read" /\ ready' = ready
      BY <1>2, <2>2, <2>6 DEF Out
    <3>2. Ps2Type'
      BY Zenon, <1>0, <2>3, <3>1 DEF Ps2Type
    <3>3. /\ step \in {3, 4} => Silenced /\ ctl.obf = none
          /\ step \in {8, 10, 11, 12} => Configured /\ ctl.kbd
          /\ step \in {8, 11, 12} => Coming(KEY)
          /\ step = 10 => Coming(LATE)
          /\ step = 11 => kb.param
          /\ step = 12 => kb.set = 1
      BY <1>0, <2>2, <2>6 DEF Progress, Asked, Told
    <3>4. /\ step = 3 => Asked("self_test", {"55", "bad"})'
          /\ step = 4 => Asked("read_config", {"cfg"})'
      BY <2>2, <2>3, <3>1, <3>3 DEF Asked
    <3>5. /\ step = 8 => Told("reset", KEY, LATE, kb.set = 2)'
          /\ step = 10 => Told("set_scancode_set", LATE, KEY, kb.param)'
          /\ step = 11 => Told("set_1", KEY, KEY, kb.set = 1)'
          /\ step = 12 => Told("enable_scanning", KEY, KEY, kb.scanning)'
      BY <2>2, <2>3, <2>4, <3>1, <3>3 DEF Told
    <3>6. Progress'
      <4>3. CASE step = 3
        BY ONLY <2>4, <3>1, <3>3, <3>4, <4>3 DEF Progress
      <4>4. CASE step = 4
        BY ONLY <2>4, <3>1, <3>3, <3>4, <4>4 DEF Progress
      <4>8. CASE step = 8
        BY ONLY <2>4, <3>1, <3>3, <3>5, <4>8 DEF Progress
      <4>10. CASE step = 10
        BY ONLY SMTT(30), <2>4, <3>1, <3>3, <3>5, <4>10 DEF Progress
      <4>11. CASE step = 11
        BY ONLY SMTT(30), <1>0, <2>4, <3>1, <3>3, <3>5, <4>11 DEF Progress
      <4>12. CASE step = 12
        BY ONLY <1>0, <2>4, <3>1, <3>3, <3>5, <4>12 DEF Progress
      <4>. QED BY <2>6, <4>3, <4>4, <4>8, <4>10, <4>11, <4>12
    <3>. QED BY <1>0, <3>1, <3>2, <3>6
  <2>. QED BY <2>2, <2>5, <2>6
<1>3. CASE Flush
  <2>1. step = 2 /\ phase = "out" /\ ctl.ibf = none /\ ~ctl.kbd /\ Coming(KEY)
    BY <1>0, <1>3, ScriptFacts DEF Flush, Ps2Type, Progress, Asked, Told
  <2>2. CASE ctl.obf # none
    <3>1. ctl'.obf = none /\ ctl'.ibf = none /\ ~ctl'.kbd /\ UNCHANGED <<step, phase, ready>>
      BY <1>0, <1>3, <2>1, <2>2 DEF Flush, Taken, Ps2Type
    <3>2. Ps2Type'
      BY Zenon, <1>0, <1>3, <2>2 DEF Flush, Taken, Ps2Type
    <3>3. Coming(KEY)'
      BY <1>0, <2>1, <3>1 DEF Coming, Only
    <3>4. Progress'
      BY ONLY <2>1, <3>1, <3>3 DEF Progress
    <3>. QED BY <1>0, <3>1, <3>2, <3>4
  <2>3. CASE ctl.obf = none
    <3>1. ctl' = ctl /\ step' = 3 /\ phase' = "out" /\ ready' = ready
      BY <1>3, <2>1, <2>3, AdvanceStep DEF Flush
    <3>2. Ps2Type'
      <4>1. step' \in 1 .. 12 /\ phase' \in {"wait", "out", "read"}
        BY <3>1
      <4>. QED BY Zenon, <1>0, <3>1, <4>1 DEF Ps2Type
    <3>3. Silenced'
      BY <1>0, <2>1, <3>1 DEF Silenced, Coming, Only, KEY
    <3>4. Asked("self_test", {"55", "bad"})'
      BY <2>1, <2>3, <3>1 DEF Asked
    <3>5. Progress'
      BY ONLY <3>1, <3>3, <3>4 DEF Progress
    <3>. QED BY <1>0, <3>1, <3>2, <3>5
  <2>. QED BY SMTT(30), <2>2, <2>3
<1>4. CASE ReadByte
  <2>1. /\ phase = "read" /\ step \in {3, 4, 8, 9, 10, 11, 12} /\ ctl.obf # none
        /\ ctl' = Taken /\ ctl'.obf = none /\ ctl'.ibf = ctl.ibf /\ ctl'.kbd = ctl.kbd /\ ctl'.int = ctl.int
        /\ ctl'.xlate = ctl.xlate
    BY <1>0, <1>4, ScriptFacts DEF ReadByte, Taken, Ps2Type, Progress
  <2>2. CASE Matches(Script[step].expect, ctl.obf)
    <3>1. Advance
      BY <1>4, <2>2 DEF ReadByte
    <3>2. Ps2Type'
      <4>1. step \in 1 .. 12
        BY <1>0 DEF Ps2Type
      <4>2. step' \in 1 .. 12 /\ phase' \in {phase, "wait", "out", "read"} /\ ready' \in {ready, "true"}
        BY <3>1, <4>1, AdvanceStep
      <4>3. ctl' \in [ibf : Questions \cup {none}, obf : Answers \cup {none},
                     kbd : BOOLEAN, int : BOOLEAN, xlate : BOOLEAN, param : BOOLEAN]
        BY <1>0, <2>1 DEF Ps2Type, Taken
      <4>. QED BY ZenonT(40), <1>0, <4>2, <4>3 DEF Ps2Type
    <3>3. CASE step \in {3, 4, 9}
      <4>1. step' = step + 1 /\ phase' = "wait" /\ ready' = ready
        BY SMTT(30), <3>1, <3>3, AdvanceStep
      <4>2. step = 9 => Coming(LATE)'
        BY <1>0, <2>1, <3>3 DEF Progress, Coming, Only
      <4>3. CASE step = 3
        <5>1. Silenced' /\ ctl'.ibf = none
          BY <1>0, <2>1, <4>3 DEF Progress, Silenced, Asked
        <5>2. Asked("read_config", {"cfg"})'
          BY <2>1, <4>1, <5>1 DEF Asked
        <5>3. Progress'
          BY ONLY SMTT(30), <4>1, <4>3, <5>1, <5>2 DEF Progress
        <5>. QED BY SMTT(30), <1>0, <3>2, <4>1, <5>3
      <4>4. CASE step = 4
        <5>1. Silenced' /\ ctl'.ibf = none
          BY SMTT(30), <1>0, <2>1, <4>4 DEF Progress, Silenced, Asked
        <5>2. Progress'
          BY ONLY SMTT(30), <2>1, <4>1, <4>4, <5>1 DEF Progress
        <5>. QED BY <1>0, <3>2, <4>1, <5>2
      <4>5. CASE step = 9
        <5>1. ctl'.kbd /\ ctl'.ibf = none /\ Configured'
          BY <1>0, <2>1, <4>5 DEF Progress, Configured
        <5>2. Told("set_scancode_set", LATE, KEY, kb.param)'
          BY <4>1, <4>2, <4>5, <5>1 DEF Told
        <5>3. Progress'
          BY ONLY <4>1, <4>5, <5>1, <5>2 DEF Progress
        <5>. QED BY <1>0, <3>2, <4>1, <5>3
      <4>. QED BY <3>3, <4>3, <4>4, <4>5
    <3>4. CASE step \in {8, 10, 11, 12}
      <4>1. ctl.obf = "FA"
        BY SMTT(30), <2>1, <2>2, <3>4, ScriptFacts DEF Matches
      <4>2. /\ ctl.kbd /\ Configured /\ ctl.ibf = none
            /\ step = 8 => AckThen(LATE)
            /\ step # 8 => AckThen(KEY)
            /\ step = 10 => kb.param
            /\ step \in {11, 12} => kb.set = 1
            /\ step = 12 => kb.scanning
        BY SMTT(30), <1>0, <2>1, <3>4, <4>1 DEF Progress, Told, Coming, Only, Acked, Ack, KEY, LATE
      <4>3. (step = 8 => Coming(LATE)') /\ (step # 8 => Coming(KEY)')
        BY <1>0, <2>1, <4>1, <4>2, ReadAck DEF AckThen, Coming
      <4>4. CASE step = 12
        BY <1>0, <2>1, <3>1, <3>2, <4>2, <4>3, <4>4, AdvanceStep DEF Up, Configured
      <4>5. CASE step # 12
        <5>1. step' = step + 1 /\ phase' = (IF step = 8 THEN "read" ELSE "wait") /\ ready' = ready
          BY <3>1, <3>4, <4>5, AdvanceStep
        <5>2. ctl'.kbd /\ ctl'.ibf = none /\ Configured'
          BY <2>1, <4>2 DEF Configured
        <5>3. /\ step = 10 => Told("set_1", KEY, KEY, kb.set = 1)'
              /\ step = 11 => Told("enable_scanning", KEY, KEY, kb.scanning)'
          BY <4>3, <5>1, <5>2 DEF Told
        <5>4. Progress'
          <6>1. CASE step = 8
            BY ONLY SMTT(30), <4>3, <5>1, <5>2, <6>1 DEF Progress
          <6>2. CASE step = 10
            BY ONLY SMTT(30), <1>0, <4>2, <5>1, <5>2, <5>3, <6>2 DEF Progress
          <6>3. CASE step = 11
            BY ONLY <1>0, <4>2, <5>1, <5>2, <5>3, <6>3 DEF Progress
          <6>. QED BY <3>4, <4>5, <6>1, <6>2, <6>3
        <5>. QED BY <1>0, <3>2, <5>1, <5>4
      <4>. QED BY <4>4, <4>5
    <3>. QED BY <2>1, <3>3, <3>4
  <2>. QED BY <1>4, <2>1, <2>2, <1>f DEF ReadByte
<1>5. CASE ReadTimeout
  <2>1. CASE step = 9
    <3>1. ctl' = ctl /\ step' = 10 /\ phase' = "wait" /\ ready' = ready
      BY <1>5, <2>1, AdvanceStep, ScriptFacts DEF ReadTimeout
    <3>2. Ps2Type'
      <4>1. step' \in 1 .. 12 /\ phase' \in {"wait", "out", "read"}
        BY <3>1
      <4>. QED BY Zenon, <1>0, <3>1, <4>1 DEF Ps2Type
    <3>3. phase = "read" /\ ctl.kbd /\ ctl.ibf = none /\ Coming(LATE) /\ Configured
      BY <1>0, <2>1 DEF Progress
    <3>4. Told("set_scancode_set", LATE, KEY, kb.param)' /\ Configured'
      BY <1>0, <3>1, <3>3 DEF Told, Coming, Configured
    <3>5. Progress'
      BY ONLY <3>1, <3>4 DEF Progress
    <3>. QED BY <1>0, <3>1, <3>2, <3>5
  <2>2. CASE step # 9
    <3>1. Return("false") /\ ctl' = ctl
      BY <1>0, <1>5, <2>2, ScriptFacts DEF ReadTimeout, Progress, Ps2Type
    <3>. QED BY SMTT(30), <3>1, <1>f
  <2>. QED BY <2>1, <2>2
<1>. QED BY <1>1, <1>2, <1>3, <1>4, <1>5 DEF Init8042

----------------------------------------------------------------------------
(* The boot program *)

\* The stages, in order, from the one where the TSS is in place on.
AfterTimer == {"sti", "spin", "cli", "kbd", "handlers", "unmask", "sti_shell", "shell"}
AfterPic == {"timer"} \cup AfterTimer
AfterTss == {"uart", "remap"} \cup AfterPic
AfterKbd == {"unmask", "sti_shell", "shell"}
Stage == {"sink", "idt", "tss", "halt"} \cup AfterTss

BootType ==
    /\ pc \in Stage
    /\ imr \subseteq Irq /\ irr \subseteq Irq /\ isr \subseteq Irq /\ handlers \subseteq Irq
    /\ IF_ \in BOOLEAN /\ locked \in BOOLEAN
    /\ frame \in {<< >>} \cup (Irq \X {"eoi", "call"})
    /\ ticks \in 0 .. TIMER_DEMO_TICKS

\* Each part is put in place after the ones it rests on.
GatesInv ==
    /\ "idt" \in gates => "sink" \in gates
    /\ "tss" \in gates => "idt" \in gates
    /\ "pic" \in gates => "tss" \in gates
    /\ pc = "idt" => "sink" \in gates
    /\ pc = "tss" => "idt" \in gates
    /\ pc \in AfterTss => "tss" \in gates
    /\ pc \in AfterPic => "pic" \in gates

\* A handler is registered before its IRQ is unmasked, the keyboard's when init has
\* returned.
HandlersInv ==
    /\ "pic" \in gates => Irq \ imr \subseteq handlers
    /\ pc \in AfterTimer => 0 \in handlers
    /\ pc \in AfterKbd => 1 \in handlers
    /\ pc = "handlers" \/ 1 \in handlers => ready # "running"

\* Interrupts are on only with the 8259 remapped, no handler running and the serial
\* lock free; what is in service is the IRQ whose EOI is still to come.
ServiceInv ==
    /\ IF_ => frame = << >>
    /\ IF_ \/ frame # << >> => "pic" \in gates /\ ~locked
    /\ locked => pc \in {"shell", "halt"}
    /\ isr # {} => frame # << >> /\ frame[2] = "eoi" /\ isr = {frame[1]}

BootInv == BootType /\ GatesInv /\ HandlersInv /\ ServiceInv /\ FaultReported

\* With what init and the hardware keep between them.
IntInv == BootInv /\ Ps2Inv

----------------------------------------------------------------------------
(* The boot program and the interrupts keep their invariant. *)

LEMMA MinSingle ==
    ASSUME NEW x \in Nat
    PROVE  Min({x}) = x
  BY DEF Min

LEMMA LineType ==
    ASSUME LineMoves, irr \subseteq Irq
    PROVE  irr' \subseteq Irq
  BY Zenon DEF LineMoves, Irq

\* Initially nothing is in place and interrupts are off.
LEMMA BootInit ==
    ASSUME Init
    PROVE  BootInv
<1>1. /\ pc = "sink" /\ gates = {} /\ handlers = {} /\ imr \in {{}, Irq} /\ irr = {} /\ isr = {}
      /\ IF_ = FALSE /\ frame = << >> /\ ticks = 0 /\ locked = FALSE /\ machine = "up" /\ ready = "running"
  BY DEF Init, Ps2Init
<1>2. 0 \in 0 .. TIMER_DEMO_TICKS /\ imr \subseteq Irq
  BY <1>1, InterruptsConstants
<1>3. BootType
  BY Zenon, <1>1, <1>2 DEF BootType, Stage
<1>4. GatesInv /\ HandlersInv
  BY <1>1 DEF GatesInv, HandlersInv, AfterTss, AfterPic, AfterTimer, AfterKbd
<1>. QED BY <1>1, <1>3, <1>4 DEF BootInv, ServiceInv, FaultReported

\* What delivers and serves an interrupt.
LEMMA ServiceStep ==
    ASSUME BootInv,
           (\E i \in Irq : Deliver(i)) \/ Spurious \/ SendEoi \/ Dispatch
    PROVE  BootInv'
<1> USE DEF BootInv
<1>1. CASE (\E i \in Irq : Deliver(i)) \/ Spurious
  <2>1. PICK i \in Irq : /\ frame' = <<i, "eoi">> /\ isr' \in {isr, isr \cup {i}} /\ irr' \in {irr, irr \ {i}}
                         /\ IF_ /\ frame = << >> /\ ~IF_'
                         /\ UNCHANGED <<pc, gates, handlers, imr, machine, locked, ticks, ready>>
    BY <1>1 DEF Deliver, Spurious, Irq, ps2, pic
  <2>2. isr = {} /\ "pic" \in gates /\ ~locked
    BY <2>1 DEF ServiceInv
  <2>3. BootType'
    <3>1. irr' \subseteq Irq /\ isr' \subseteq Irq /\ frame' \in Irq \X {"eoi", "call"} /\ IF_' \in BOOLEAN
      BY Zenon, <1>1, <2>1 DEF BootType, Deliver, Spurious
    <3>. QED BY <2>1, <3>1 DEF BootType
  <2>4. ServiceInv'
    BY <2>1, <2>2 DEF ServiceInv
  <2>. QED BY <2>1, <2>3, <2>4 DEF GatesInv, HandlersInv, FaultReported
<1>2. CASE SendEoi
  <2>1. frame # << >> /\ frame[2] = "eoi" /\ frame' = <<frame[1], "call">> /\ frame[1] \in Irq
        /\ UNCHANGED <<pc, gates, handlers, imr, irr, IF_, machine, locked, ticks, ready>>
    BY <1>2 DEF SendEoi, BootType, ps2
  <2>2. isr' = {}
    <3>1. CASE isr = {}
      BY <1>2, <3>1 DEF SendEoi
    <3>2. CASE isr # {}
      <4>1. isr = {frame[1]} /\ frame[1] \in Nat
        BY <2>1, <3>2 DEF ServiceInv, Irq
      <4>. QED BY <1>2, <4>1, MinSingle DEF SendEoi
    <3>. QED BY <3>1, <3>2
  <2>3. BootType'
    BY <2>1, <2>2 DEF BootType
  <2>4. ServiceInv'
    BY <2>1, <2>2 DEF ServiceInv
  <2>. QED BY <2>1, <2>3, <2>4 DEF GatesInv, HandlersInv, FaultReported
<1>3. CASE Dispatch
  <2>1. /\ frame # << >> /\ frame[2] = "call" /\ frame' = << >> /\ IF_'
        /\ UNCHANGED <<pc, gates, handlers, imr, isr, machine, locked, ready>>
    BY <1>3 DEF Dispatch, Tick, ReadScancode, ps2
  <2>2. isr = {}
    BY <2>1 DEF ServiceInv
  <2>3. irr' \subseteq Irq /\ ticks' \in 0 .. TIMER_DEMO_TICKS
    BY <1>3, LineType, InterruptsConstants DEF Dispatch, Tick, ReadScancode, BootType
  <2>4. BootType'
    BY <2>1, <2>3 DEF BootType
  <2>5. ServiceInv'
    BY <2>1, <2>2 DEF ServiceInv
  <2>. QED BY <2>1, <2>4, <2>5 DEF GatesInv, HandlersInv, FaultReported
<1>. QED BY <1>1, <1>2, <1>3

\* What rust_entry, timer_demo and run_shell do.
LEMMA ProgramStep ==
    ASSUME BootInv, Program \/ IrqSave \/ IrqRestore
    PROVE  BootInv'
<1> USE DEF BootInv
<1> USE DEF Stage, AfterTss, AfterPic, AfterTimer, AfterKbd
<1>1. ASSUME NEW part \in {"sink", "idt", "tss", "uart"}, NEW stage \in {"idt", "tss", "uart", "remap"},
             Install(part, stage),
             <<part, stage>> \in {<<"sink", "idt">>, <<"idt", "tss">>, <<"tss", "uart">>, <<"uart", "remap">>}
      PROVE  BootInv'
  <2>1. /\ pc = part /\ pc' = stage /\ gates' = gates \cup {part} /\ machine = "up" /\ frame = << >>
        /\ UNCHANGED <<handlers, imr, irr, isr, IF_, frame, machine, locked, ticks, ready>>
    BY <1>1 DEF Install, At, Running, Then, pic, cpu, ps2
  <2>2. BootType' /\ ServiceInv'
    BY <1>1, <2>1 DEF BootType, ServiceInv
  <2>3. GatesInv'
    BY <1>1, <2>1 DEF GatesInv
  <2>4. HandlersInv' /\ FaultReported'
    BY <1>1, <2>1 DEF HandlersInv, FaultReported
  <2>. QED BY <2>2, <2>3, <2>4
<1>2. CASE Remap
  <2>1. /\ pc = "remap" /\ pc' = "timer" /\ gates' = gates \cup {"pic"} /\ imr' = Irq /\ irr' = {} /\ isr' = {}
        /\ machine = "up" /\ frame = << >>
        /\ UNCHANGED <<handlers, IF_, frame, machine, locked, ticks, ready>>
    BY <1>2 DEF Remap, At, Running, Then, mask_all, cpu, ps2
  <2>2. BootType' /\ ServiceInv'
    BY <2>1 DEF BootType, ServiceInv
  <2>3. GatesInv' /\ HandlersInv' /\ FaultReported'
    BY <2>1 DEF GatesInv, HandlersInv, FaultReported
  <2>. QED BY <2>2, <2>3
<1>3. CASE StartTimer \/ StopTimer \/ SetKeyboardHandler \/ UnmaskBoth
  <2>1. /\ machine = "up" /\ frame = << >> /\ UNCHANGED <<gates, irr, isr, frame, machine, locked, ticks, ready>>
        /\ \/ pc = "timer" /\ pc' = "sti" /\ handlers' = handlers \cup {0} /\ imr' = imr \ {0} /\ IF_' = IF_
           \/ pc = "cli" /\ pc' = "kbd" /\ handlers' = handlers /\ imr' = Irq /\ IF_' = FALSE
           \/ pc = "handlers" /\ pc' = "unmask" /\ handlers' = handlers \cup {1} /\ imr' = imr /\ IF_' = IF_
           \/ pc = "unmask" /\ pc' = "sti_shell" /\ handlers' = handlers /\ imr' = imr \ {1, 0} /\ IF_' = IF_
    BY <1>3 DEF StartTimer, StopTimer, SetKeyboardHandler, UnmaskBoth, At, Running, Then, mask_all, unmask, cpu, pic, ps2
  <2>2. BootType'
    <3>1. 0 \in Irq /\ 1 \in Irq /\ imr \subseteq Irq /\ handlers \subseteq Irq
      BY DEF Irq, BootType
    <3>2. imr' \subseteq Irq /\ handlers' \subseteq Irq
      BY <2>1, <3>1
    <3>3. pc' \in Stage /\ IF_' \in BOOLEAN
      BY Zenon, <2>1 DEF BootType
    <3>. QED BY <2>1, <3>2, <3>3 DEF BootType
  <2>0. ServiceInv'
    BY <2>1 DEF ServiceInv
  <2>3. GatesInv' /\ FaultReported'
    BY <2>1 DEF GatesInv, FaultReported
  <2>4. HandlersInv'
    BY <2>1 DEF HandlersInv, GatesInv
  <2>. QED BY <2>0, <2>2, <2>3, <2>4
<1>4. CASE EnableInterrupts \/ SpinDone \/ IrqSave \/ IrqRestore
  <2>1. /\ machine = "up" /\ frame = << >>
        /\ UNCHANGED <<gates, handlers, imr, irr, isr, frame, machine, ticks, ready>>
        /\ \/ pc = "sti" /\ pc' = "spin" /\ IF_' = TRUE /\ locked' = locked
           \/ pc = "sti_shell" /\ pc' = "shell" /\ IF_' = TRUE /\ locked' = locked
           \/ pc = "spin" /\ pc' = "cli" /\ UNCHANGED <<IF_, locked>>
           \/ pc = "shell" /\ pc' = pc /\ IF_' = FALSE /\ locked' \in BOOLEAN
           \/ pc = "shell" /\ pc' = pc /\ IF_' = TRUE /\ locked' = FALSE
    BY <1>4 DEF EnableInterrupts, SpinDone, IrqSave, IrqRestore, At, Running, Then, cpu, pic, ps2
  <2>2. BootType'
    BY Zenon, <2>1 DEF BootType
  <2>3. ServiceInv'
    BY <2>1 DEF ServiceInv, GatesInv
  <2>4. GatesInv' /\ HandlersInv' /\ FaultReported'
    BY <2>1 DEF GatesInv, HandlersInv, FaultReported
  <2>. QED BY <2>2, <2>3, <2>4
<1>5. CASE KeyboardInit
  <2>1. /\ pc = "kbd" /\ machine = "up" /\ frame = << >>
        /\ UNCHANGED <<gates, handlers, imr, isr, IF_, frame, machine, locked, ticks>>
        /\ \/ pc' = pc /\ ready = "running" /\ LineMoves
           \/ pc' = "handlers" /\ ready # "running" /\ UNCHANGED <<ready, irr>>
    BY <1>5 DEF KeyboardInit, Init8042, At, Running, Then, cpu, ps2
  <2>2. BootType'
    BY <2>1, LineType DEF BootType
  <2>3. ServiceInv'
    BY <2>1 DEF ServiceInv
  <2>4. GatesInv' /\ HandlersInv' /\ FaultReported'
    BY <2>1 DEF GatesInv, HandlersInv, FaultReported
  <2>. QED BY <2>2, <2>3, <2>4
<1>. QED BY <1>1, <1>2, <1>3, <1>4, <1>5 DEF Program, set_fault_sink, idt_init, tss_init, first_print

\* Requests, faults and panics.
LEMMA FaultStep ==
    ASSUME BootInv, Pulse \/ Device \/ Fault \/ Panic
    PROVE  BootInv'
<1> USE DEF BootInv
<1> USE DEF Stage, AfterTss, AfterPic, AfterTimer, AfterKbd
<1>1. CASE Pulse \/ Device
  <2>1. UNCHANGED <<pc, gates, handlers, imr, isr, IF_, frame, machine, locked, ticks, ready>>
    BY <1>1 DEF Pulse, Device, Hardware, CtlCommand, CtlConfig, KbCommand, KbAbsent, KbSend, KeyPress, cpu, ps2
  <2>2. irr' \subseteq Irq
    BY Zenon, <1>1, LineType DEF Pulse, Device, BootType, Irq
  <2>. QED BY <2>1, <2>2 DEF BootType, ServiceInv, GatesInv, HandlersInv, FaultReported
<1>2. CASE Fault
  <2>1. /\ UNCHANGED <<pc, gates, handlers, imr, irr, isr, frame, locked, ticks, ready>>
        /\ IF_' = FALSE
    BY <1>2 DEF Fault, pic, ps2
  <2>2. FaultReported'
    <3>1. PICK v \in {6, 14, 8}, usable \in BOOLEAN :
            machine' \in IF (usable /\ Gate(v) = "exception") \/ (Gate(8) = "ist" /\ "tss" \in gates) THEN Report
                         ELSE {IF usable /\ v # 8 THEN "reset" ELSE "stackless"}
      BY Zenon, <1>2 DEF Fault, DF_VECTOR
    <3>2. (Gate(8) = "ist" <=> "idt" \in gates) /\ (v # 8 => (Gate(v) = "exception" <=> "idt" \in gates))
          /\ (Gate(v) = "exception" => "idt" \in gates)
      BY DEF Gate, DF_VECTOR
    <3>3. "idt" \in gates => Report \subseteq {"parked", "silent"} /\ ("silent" \in Report => "uart" \notin gates)
      BY DEF Report, GatesInv
    <3>4. CASE (usable /\ Gate(v) = "exception") \/ (Gate(8) = "ist" /\ "tss" \in gates)
      <4>1. machine' \in Report /\ "idt" \in gates
        BY <3>1, <3>2, <3>4
      <4>. QED BY <2>1, <3>3, <4>1 DEF FaultReported
    <3>5. CASE ~((usable /\ Gate(v) = "exception") \/ (Gate(8) = "ist" /\ "tss" \in gates))
      <4>1. machine' = IF usable /\ v # 8 THEN "reset" ELSE "stackless"
        BY <3>1, <3>5
      <4>2. "tss" \notin gates /\ (usable /\ v # 8 => "idt" \notin gates)
        BY <3>2, <3>5 DEF GatesInv
      <4>. QED BY <2>1, <4>1, <4>2 DEF FaultReported
    <3>. QED BY <3>4, <3>5
  <2>3. BootType'
    BY Zenon, <2>1 DEF BootType
  <2>4. ServiceInv'
    BY <2>1 DEF ServiceInv
  <2>. QED BY <2>1, <2>2, <2>3, <2>4 DEF GatesInv, HandlersInv
<1>3. CASE Panic
  <2>1. /\ pc' = "halt" /\ UNCHANGED <<gates, handlers, imr, irr, isr, IF_, frame, machine, locked, ticks, ready>>
    BY <1>3 DEF Panic, Then, cpu, pic, ps2
  <2>. QED BY <2>1 DEF BootType, ServiceInv, GatesInv, HandlersInv, FaultReported
<1>. QED BY <1>1, <1>2, <1>3

LEMMA BootStep ==
    ASSUME BootInv, [Next]_vars
    PROVE  BootInv'
<1>1. CASE UNCHANGED vars
  BY <1>1 DEF vars, pic, cpu, ps2, BootInv, BootType, ServiceInv, GatesInv, HandlersInv, FaultReported
<1>. QED BY SMTT(30), <1>1, ServiceStep, ProgramStep, FaultStep DEF Next

----------------------------------------------------------------------------
(* The theorems *)

LEMMA IntInitial ==
    ASSUME Init
    PROVE  IntInv
<1>1. /\ step = 1 /\ phase = "wait" /\ ready = "running" /\ ctl.ibf = none
      /\ ctl.obf \in {none, "key"} /\ kb.q = << >>
  BY DEF Init, Ps2Init
<1>2. kb \in [q : Seq(Bytes), set : {1, 2}, scanning : BOOLEAN, param : BOOLEAN]
  <2>1. << >> \in Seq(Bytes) /\ 2 \in {1, 2}
    OBVIOUS
  <2>. QED BY Zenon, <2>1 DEF Init, Ps2Init
<1>3. ctl \in [ibf : Questions \cup {none}, obf : Answers \cup {none},
              kbd : BOOLEAN, int : BOOLEAN, xlate : BOOLEAN, param : BOOLEAN]
  BY Zenon DEF Init, Ps2Init, Answers
<1>4. Ps2Type
  <2>1. step \in 1 .. 12 /\ phase \in {"wait", "out", "read"} /\ ready \in {"running", "true", "false"}
    BY <1>1
  <2>. QED BY Zenon, <1>2, <1>3, <2>1 DEF Ps2Type
<1>5. DOMAIN << >> = {}
  OBVIOUS
<1>6. Coming(KEY)
  BY <1>1, <1>5 DEF Coming, Only, KEY
<1>7. Progress
  BY <1>1, <1>6 DEF Progress
<1>. QED BY <1>1, <1>4, <1>7, BootInit DEF IntInv, Ps2Inv

LEMMA IntStep ==
    ASSUME IntInv, [Next]_vars
    PROVE  IntInv'
<1>1. BootInv'
  BY BootStep DEF IntInv
<1>2. CASE UNCHANGED ps2
  <2>1. Ps2Type' <=> Ps2Type
    BY SMTT(30), <1>2 DEF ps2, Ps2Type
  <2>0. /\ Coming(KEY)' <=> Coming(KEY)
        /\ Coming(LATE)' <=> Coming(LATE)
        /\ AckThen(KEY)' <=> AckThen(KEY)
        /\ AckThen(LATE)' <=> AckThen(LATE)
        /\ Acked' <=> Acked
        /\ Silenced' <=> Silenced
        /\ Configured' <=> Configured
    BY <1>2 DEF ps2, Coming, Acked, AckThen, Silenced, Configured
  <2>4. UNCHANGED <<ctl, kb, step, phase>>
    BY <1>2 DEF ps2
  <2>2. Progress => Progress'
    BY <2>0, <2>4, BytesMove
  <2>3. Up' <=> Up
    BY <1>2 DEF ps2, Up, Coming, Configured
  <2>. QED BY <1>1, <1>2, <2>1, <2>2, <2>3 DEF ps2, IntInv, Ps2Inv
<1>3. CASE Hardware
  BY <1>1, <1>3, HardwareStep DEF IntInv
<1>4. CASE Init8042
  BY <1>1, <1>4, Init8042Step DEF IntInv
<1>5. CASE Dispatch /\ 1 \in handlers /\ ReadScancode
  <2>1. /\ ready # "running" /\ UNCHANGED <<kb, step, phase, ready>> /\ ctl' = [ctl EXCEPT !.obf = none]
    BY <1>5 DEF IntInv, BootInv, HandlersInv, ReadScancode, Taken
  <2>2. Ps2Type'
    BY Zenon, <2>1 DEF IntInv, Ps2Inv, Ps2Type
  <2>3. ready = "true" => Up'
    BY <2>1 DEF IntInv, Ps2Inv, Ps2Type, Up, Configured, Coming, Only
  <2>. QED BY <1>1, <2>1, <2>2, <2>3 DEF IntInv, Ps2Inv
<1>. QED
  <2>1. UNCHANGED ps2 \/ Hardware \/ Init8042 \/ (Dispatch /\ 1 \in handlers /\ ReadScancode)
    BY DEF Next, vars, Program, set_fault_sink, idt_init, tss_init, first_print, Install, Remap, StartTimer,
       EnableInterrupts,
       SpinDone, StopTimer, KeyboardInit, SetKeyboardHandler, UnmaskBoth, IrqSave, IrqRestore, Deliver, Spurious,
       SendEoi, Dispatch, Tick, Pulse, Device, Fault, Panic
  <2>. QED BY SMTT(30), <1>1, <1>2, <1>3, <1>4, <1>5, <2>1 DEF IntInv

LEMMA IntAlways == Spec => []IntInv
<1>1. Init => IntInv
  BY IntInitial
<1>2. IntInv /\ [Next]_vars => IntInv'
  BY IntStep
<1>. QED BY <1>1, <1>2, PTL DEF Spec

\* Whenever interrupts are on, every IRQ meets its gate and every unmasked one its
\* handler, and nothing is in service (main.rs:401-402, main.rs:430-431,
\* idt.rs:615-617), at every point of the boot and of the shell.
THEOREM InterruptsSafe == Spec => []SafeWhenOn
<1>1. IntInv => SafeWhenOn
  <2>1. IntInv => TypeOK
    BY ScriptFacts DEF IntInv, BootInv, BootType, ServiceInv, Ps2Inv, Ps2Type, TypeOK, Answers
  <2>2. IntInv => ArmedWhenOn
    <3>1. IntInv /\ IF_ => "pic" \in gates /\ "idt" \in gates /\ Irq \ imr \subseteq handlers
      BY DEF IntInv, BootInv, ServiceInv, GatesInv, HandlersInv
    <3>. QED BY <3>1 DEF ArmedWhenOn, Irq, Gate, Vector, DF_VECTOR, IRQ_BASE, SYSCALL_VECTOR
  <2>3. IntInv => NothingInService
    BY DEF IntInv, BootInv, ServiceInv, NothingInService
  <2>. QED BY SMTT(30), <2>1, <2>2, <2>3 DEF SafeWhenOn
<1>. QED BY <1>1, IntAlways, PTL

\* From idt::init on a fault resets the machine only when it finds no stack, from
\* tss::init on never (main.rs:604-610), and from the first line printed on it is
\* reported, with or without the serial lock held (serial.rs:73-77).
THEOREM FaultsReported == Spec => []FaultReported
<1>1. IntInv => FaultReported
  BY DEF IntInv, BootInv
<1>. QED BY <1>1, IntAlways, PTL

\* init returns true only when every answer has been matched with its question and
\* the keyboard scans in set 1 with its interrupt on (keyboard.rs:260-344), whatever
\* keys come in between and however many bytes the keyboard can queue.
THEOREM TrueIsUp == Spec => []TrueMeansUp
<1>1. IntInv => TrueMeansUp
  BY Zenon DEF IntInv, Ps2Inv, Ps2Type, Up, Configured, Coming, Only, KEY, TrueMeansUp
<1>. QED BY <1>1, IntAlways, PTL

=============================================================================
