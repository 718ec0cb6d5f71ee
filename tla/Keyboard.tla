------------------------------- MODULE Keyboard -------------------------------
(***************************************************************************)
(* The keyboard driver, keyboard.c: the TCA8418 scanner puts key events in *)
(* a FIFO and pulls a line low, an interrupt handler sets a flag, and      *)
(* kbd_poll, called over and over by the screens, takes events out and     *)
(* translates presses with the modifiers it has seen go down.              *)
(*                                                                         *)
(* kbd_poll talks to the chip over I2C between its steps, so keys go down  *)
(* and up in the middle of a call.  Each event in the FIFO carries, for    *)
(* the properties only, the modifiers that were held before it.            *)
(***************************************************************************)
EXTENDS Integers, Sequences

CONSTANTS
    Codes,       \* key codes that occur, within 1 .. 80
    Legend,      \* keymap: what is printed at each [row, column] in use
    NoName,      \* no such legend, or a legend kbd_poll has no event for
    FifoSize,    \* events the chip holds (10)
    PerCall,     \* events one call of kbd_poll looks at (8)
    MaxEvents,   \* bound: key events in a run
    MaxFaults    \* bound: failed I2C transfers in a run

\* remap_raw after the decoding of read_event: the [row, column] of a code.
Position(code) ==
    LET raw_row == (code - 1) \div 10
        raw_col == (code - 1) % 10
    IN  <<(raw_col + 4) % 4, raw_row * 2 + (IF raw_col > 3 THEN 1 ELSE 0)>>

OnKeymap(code) == Position(code)[1] < 4 /\ Position(code)[2] < 14

ModifierAt == [ctrl |-> <<3, 0>>, shift |-> <<2, 1>>, fn |-> <<2, 0>>]
Mods == DOMAIN ModifierAt
IsMod(code, m) == Position(code) = ModifierAt[m]
IsModifier(code) == \E m \in Mods : IsMod(code, m)

ASSUME KeyboardAssumption ==
    /\ Codes \subseteq 1 .. 80
    /\ FifoSize \in Nat \ {0} /\ PerCall \in Nat \ {0}
    /\ MaxEvents \in Nat /\ MaxFaults \in Nat
    /\ \A c \in Codes : OnKeymap(c) /\ ~IsModifier(c) =>
           {"first", "second", "fn"} \subseteq DOMAIN Legend[Position(c)]

\* The name of a key under the modifiers held: Fn where the key has an Fn
\* legend, else shift.
Translate(code, held) ==
    LET key == Legend[Position(code)]
    IN  IF "fn" \in held /\ key.fn # NoName THEN key.fn
        ELSE IF "shift" \in held THEN key.second ELSE key.first

VARIABLES
    fifo,     \* the chip's event FIFO
    kint,     \* K_INT, the key bit of INT_STAT; the line is low while it is set
    flag,     \* s_int_flag
    mods,     \* s_shift, s_fn and s_ctrl
    pc,       \* where kbd_poll is
    looked,   \* events this call has looked at
    key,      \* the event the last call returned, with what it was made of
    down,     \* keys held down
    lost,     \* modifiers whose last change the driver cannot have seen
    events,   \* key events so far
    faults    \* failed transfers so far

chip == <<fifo, kint, down, events>>
vars == <<fifo, kint, flag, mods, pc, looked, key, down, lost, events, faults>>

NoKey == [name |-> NoName]

Held == {m \in Mods : \E c \in down : IsMod(c, m)}

\* After kbd_init: the FIFO drained, the flag set "once on boot".  Keys may be
\* held down already, modifiers among them.
Init ==
    /\ fifo = <<>> /\ kint = FALSE /\ flag = TRUE
    /\ mods = {} /\ pc = "idle" /\ looked = 0 /\ key = NoKey
    /\ down \in SUBSET Codes
    /\ lost = Held
    /\ events = 0 /\ faults = 0

(***************************************************************************)
(* The chip and the interrupt                                              *)
(***************************************************************************)

\* CFG_OVR_FLOW_M: a new event pushes out the oldest one of a full FIFO.
Queued(e) == Append(IF Len(fifo) = FifoSize THEN Tail(fifo) ELSE fifo, e)

PushedOut == {m \in Mods : Len(fifo) = FifoSize /\ IsMod(Head(fifo).code, m)}

\* A key goes down or up.  The line falls, and isr_handler runs, only when
\* K_INT was clear.
KeyEvent(code) ==
    /\ events < MaxEvents
    /\ events' = events + 1
    /\ down' = IF code \in down THEN down \ {code} ELSE down \cup {code}
    /\ fifo' = Queued([code |-> code, pressed |-> code \notin down, held |-> Held])
    /\ lost' = lost \cup PushedOut
    /\ kint' = TRUE
    /\ flag' = (flag \/ ~kint)
    /\ UNCHANGED <<mods, pc, looked, key, faults>>

(***************************************************************************)
(* kbd_poll                                                                *)
(***************************************************************************)

Fault == faults < MaxFaults /\ faults' = faults + 1
NoFault == UNCHANGED faults

\* Mutant: the interrupt handler alone sets the flag.
FlagOfInterrupt == NoFault /\ UNCHANGED flag

\* INT_STAT is read in every call, interrupt or not.
FlagSeen == (NoFault /\ flag' = (flag \/ kint)) \/ (Fault /\ UNCHANGED flag)

PollStart ==
    /\ pc = "idle"
    /\ FlagSeen
    /\ pc' = IF flag' THEN "drain" ELSE "idle"
    /\ looked' = 0
    /\ key' = NoKey
    /\ UNCHANGED <<chip, mods, lost>>

\* Mutants: a modifier works like a lock key; a release is taken for nothing.
ModsAfterToggle(e) == {m \in Mods : IF IsMod(e.code, m) /\ e.pressed
                                    THEN m \notin mods ELSE m \in mods}
ModsAfterPress(e) == mods \cup {m \in Mods : IsMod(e.code, m) /\ e.pressed}

\* What reading event e does to the modifiers, and to what is known of them.
ModsAfter(e) == {m \in Mods : IF IsMod(e.code, m) THEN e.pressed ELSE m \in mods}
LostAfter(e) == {m \in lost : ~IsMod(e.code, m)}

\* A press with a name ends the call; modifiers, releases and codes off the
\* keymap let it look at the next event.
Yields(e) ==
    /\ OnKeymap(e.code) /\ ~IsModifier(e.code) /\ e.pressed
    /\ Translate(e.code, mods) # NoName

\* Mutant: the loop runs once more.
LastLookLate == looked = PerCall

LastLook == looked + 1 = PerCall

ReadEvent ==
    /\ pc = "drain" /\ fifo # <<>>
    /\ LET e == Head(fifo)
       IN  /\ fifo' = Tail(fifo)
           /\ mods' = ModsAfter(e)
           /\ lost' = LostAfter(e)
           /\ looked' = looked + 1
           /\ pc' = IF Yields(e) \/ LastLook THEN "idle" ELSE "drain"
           /\ key' = IF Yields(e) THEN [name |-> Translate(e.code, mods), code |-> e.code,
                                        held |-> e.held, sure |-> lost = {}]
                                  ELSE NoKey
    /\ UNCHANGED <<kint, flag, down, events, faults>>

\* Nothing to read, or the read failed: go and acknowledge.
ReadNothing ==
    /\ pc = "drain"
    /\ (fifo = <<>> /\ NoFault) \/ Fault
    /\ pc' = "ack"
    /\ UNCHANGED <<chip, flag, mods, looked, key, lost>>

\* The chip keeps K_INT set while events are pending.
Acknowledge ==
    /\ pc = "ack"
    /\ (NoFault /\ kint' = (kint /\ fifo # <<>>)) \/ (Fault /\ UNCHANGED kint)
    /\ pc' = "check"
    /\ UNCHANGED <<fifo, flag, mods, looked, key, down, lost, events>>

Check ==
    /\ pc = "check"
    /\ \/ NoFault /\ pc' = IF kint THEN "idle" ELSE "clear"
       \/ Fault /\ pc' = "idle"
    /\ UNCHANGED <<chip, flag, mods, looked, key, lost>>

\* The flag is cleared after the read that allowed it.
ClearFlag ==
    /\ pc = "clear"
    /\ flag' = FALSE
    /\ pc' = "idle"
    /\ UNCHANGED <<chip, mods, looked, key, lost, faults>>

PollStep == PollStart \/ ReadEvent \/ ReadNothing \/ Acknowledge \/ Check \/ ClearFlag

Next == PollStep \/ \E code \in Codes : KeyEvent(code)

\* Every screen calls kbd_poll in a loop, and a call ends.
Spec == Init /\ [][Next]_vars /\ WF_vars(PollStep)

(***************************************************************************)
(* Properties                                                              *)
(***************************************************************************)

Events == [code : Codes, pressed : BOOLEAN, held : SUBSET Mods]

\* Types; the chip holds at most FifoSize events, and a call that still drains
\* has looked fewer than PerCall times.
KeyboardTypeOK ==
    /\ fifo \in Seq(Events) /\ Len(fifo) <= FifoSize
    /\ kint \in BOOLEAN /\ flag \in BOOLEAN
    /\ mods \in SUBSET Mods /\ lost \in SUBSET Mods
    /\ pc \in {"idle", "drain", "ack", "check", "clear"}
    /\ pc = "drain" => looked < PerCall
    /\ looked \in 0 .. PerCall
    /\ down \in SUBSET Codes
    /\ events \in 0 .. MaxEvents /\ faults \in 0 .. MaxFaults

\* kbd_poll returns a key under the modifiers that were held when it was
\* pressed, however late it is read and whatever was pressed and released in
\* between, unless an overflow of the FIFO (or the boot) has swallowed the
\* last change of a modifier.
TypedAsHeld == key # NoKey /\ key.sure => key.name = Translate(key.code, key.held)

\* The driver never believes a modifier held or free that is not, once it has
\* read all events: a modifier does not stick when its own events came through.
NoStuckModifier ==
    fifo = <<>> => \A m \in Mods \ lost : m \in mods <=> m \in Held

\* An event never stays in the chip for want of an interrupt: keys go down
\* between any two I2C transfers of a call, and the handler's flag is
\* overwritten, but the FIFO is emptied in the end.
NoStranding == fifo # <<>> ~> fifo = <<>>
================================================================================
