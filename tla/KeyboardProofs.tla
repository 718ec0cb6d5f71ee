---------------------------- MODULE KeyboardProofs -----------------------------
(***************************************************************************)
(* Proofs about Keyboard, for any set of keys and any size of the FIFO.    *)
(***************************************************************************)
EXTENDS Keyboard, SequenceTheorems, TLAPS

\* remap_raw gives each of the 7 x 8 positions of the scanner a place of its own
\* on the keymap: no two keys of the matrix are taken for one another.
THEOREM RemapInjective ==
    ASSUME NEW c \in 1 .. 80, NEW d \in 1 .. 80,
           (c - 1) \div 10 <= 6, (c - 1) % 10 <= 7,
           (d - 1) \div 10 <= 6, (d - 1) % 10 <= 7
    PROVE  /\ OnKeymap(c)
           /\ Position(c) = Position(d) => c = d
  BY DEF OnKeymap, Position

\* One code only is shift, one Fn and one ctrl.
LEMMA ModifierUnique ==
    ASSUME NEW c \in Codes, NEW d \in Codes, NEW m \in Mods, IsMod(c, m), IsMod(d, m)
    PROVE  c = d
  BY KeyboardAssumption DEF IsMod, Mods, ModifierAt, Position

(***************************************************************************)
(* The inductive invariant                                                 *)
(***************************************************************************)

\* Whether m is held after event e.
HeldAfter(e, m) == IF IsMod(e.code, m) THEN e.pressed ELSE m \in e.held

\* The events in the FIFO tell one story without gaps: what is held before an
\* event is what is held after the one before it, up to what is held now.
Chained == \A i \in 1 .. Len(fifo) - 1, m \in Mods :
               m \in fifo[i + 1].held <=> HeldAfter(fifo[i], m)
UpToNow == fifo # <<>> => \A m \in Mods : m \in Held <=> HeldAfter(fifo[Len(fifo)], m)

\* The driver stands where the oldest event stands.
Follows == \A m \in Mods \ lost :
               m \in mods <=> m \in (IF fifo = <<>> THEN Held ELSE fifo[1].held)

Story == Chained /\ UpToNow /\ Follows

KeyTyped == key = NoKey \/ key \in [name : {key.name}, code : Codes,
                                    held : SUBSET Mods, sure : BOOLEAN]

LEMMA HeldType == Held \in SUBSET Mods
  BY DEF Held

LEMMA HeldMoves ==
    ASSUME KeyboardTypeOK, NEW code \in Codes,
           down' = IF code \in down THEN down \ {code} ELSE down \cup {code},
           NEW m \in Mods
    PROVE  m \in Held' <=> IF IsMod(code, m) THEN code \notin down ELSE m \in Held
  <1>1. down \in SUBSET Codes
    BY DEF KeyboardTypeOK
  <1>2. CASE IsMod(code, m)
    <2>1. \A c \in down : IsMod(c, m) => c = code
      BY <1>1, <1>2, ModifierUnique
    <2> QED
      BY <1>2, <2>1 DEF Held, IsMod
  <1>3. CASE ~IsMod(code, m)
    BY <1>3 DEF Held, IsMod
  <1> QED
    BY <1>2, <1>3

KeyboardInv == KeyboardTypeOK /\ KeyTyped /\ Story /\ TypedAsHeld

LEMMA InitKeyboardInv == Init => KeyboardInv
  <1> SUFFICES ASSUME Init PROVE KeyboardInv
    OBVIOUS
  <1>1. KeyboardTypeOK
    <2>1. fifo \in Seq(Events) /\ Len(fifo) = 0
      BY EmptySeq DEF Init
    <2>2. Len(fifo) <= FifoSize /\ looked \in 0 .. PerCall
          /\ events \in 0 .. MaxEvents /\ faults \in 0 .. MaxFaults
      BY <2>1, KeyboardAssumption DEF Init
    <2>3. mods \in SUBSET Mods /\ lost \in SUBSET Mods /\ down \in SUBSET Codes
      BY HeldType DEF Init
    <2> QED
      BY <2>1, <2>2, <2>3 DEF Init, KeyboardTypeOK
  <1>2. KeyTyped /\ TypedAsHeld
    BY DEF Init, KeyTyped, TypedAsHeld
  <1>3. Story
    BY DEF Init, Story, Chained, UpToNow, Follows
  <1> QED
    BY <1>1, <1>2, <1>3 DEF KeyboardInv

\* A step that leaves the FIFO, the keys and the driver's modifiers alone, and
\* returns no key, keeps the story.
LEMMA FrameStory ==
    ASSUME Story, UNCHANGED <<fifo, down, mods, lost>> PROVE Story'
  BY DEF Story, Chained, UpToNow, Follows, Held, HeldAfter

LEMMA KeyEventStory ==
    ASSUME KeyboardTypeOK, Story, NEW code \in Codes, KeyEvent(code) PROVE Story'
  <1> DEFINE e == [code |-> code, pressed |-> code \notin down, held |-> Held]
             kept == IF Len(fifo) = FifoSize THEN Tail(fifo) ELSE fifo
  <1>1. /\ fifo \in Seq(Events) /\ FifoSize \in Nat \ {0} /\ Len(fifo) <= FifoSize
        /\ fifo' = Append(kept, e)
        /\ mods' = mods
        /\ lost' = lost \cup PushedOut
    BY KeyboardAssumption DEF KeyboardTypeOK, KeyEvent, Queued
  <1>2. e \in Events
    BY HeldType DEF Events
  <1>3. \A m \in Mods : m \in Held' <=> HeldAfter(e, m)
    BY HeldMoves DEF KeyEvent, HeldAfter
  <1>4. kept \in Seq(Events)
    BY <1>1
  <1>5. \A i \in 1 .. Len(kept) - 1, m \in Mods : m \in kept[i + 1].held <=> HeldAfter(kept[i], m)
    <2>1. CASE Len(fifo) = FifoSize
      <3>1. Len(kept) = Len(fifo) - 1 /\ \A i \in 1 .. Len(kept) : kept[i] = fifo[i + 1]
        BY <1>1, <2>1
      <3> QED
        BY <1>1, <3>1 DEF Story, Chained
    <2>2. CASE Len(fifo) # FifoSize
      BY <2>2 DEF Story, Chained
    <2> QED
      BY <2>1, <2>2
  <1>6. kept # <<>> => \A m \in Mods : m \in Held <=> HeldAfter(kept[Len(kept)], m)
    <2>1. CASE Len(fifo) = FifoSize
      <3>1. Len(kept) = Len(fifo) - 1 /\ \A i \in 1 .. Len(kept) : kept[i] = fifo[i + 1]
        BY <1>1, <2>1
      <3>2. kept # <<>> => kept[Len(kept)] = fifo[Len(fifo)] /\ fifo # <<>>
        BY <1>1, <1>4, <3>1
      <3> QED
        BY <3>2 DEF Story, UpToNow
    <2>2. CASE Len(fifo) # FifoSize
      BY <2>2 DEF Story, UpToNow
    <2> QED
      BY <2>1, <2>2
  <1>7. \A m \in Mods \ lost' : m \in mods <=> m \in (IF kept = <<>> THEN Held ELSE kept[1].held)
    <2> SUFFICES ASSUME NEW m \in Mods, m \notin lost, m \notin PushedOut
                 PROVE  m \in mods <=> m \in (IF kept = <<>> THEN Held ELSE kept[1].held)
      BY <1>1
    <2>1. CASE Len(fifo) = FifoSize
      <3>1. /\ fifo # <<>> /\ fifo[1] = Head(fifo)
            /\ Len(kept) = Len(fifo) - 1 /\ \A i \in 1 .. Len(kept) : kept[i] = fifo[i + 1]
        BY <1>1, <2>1
      <3>2. ~IsMod(fifo[1].code, m)
        BY <2>1, <3>1 DEF PushedOut
      <3>3. m \in mods <=> HeldAfter(fifo[1], m)
        BY <3>1, <3>2 DEF Story, Follows, HeldAfter
      <3>4. CASE kept = <<>>
        BY <1>1, <3>1, <3>3, <3>4 DEF Story, UpToNow
      <3>5. CASE kept # <<>>
        <4>1. Len(kept) \in Nat \ {0}
          BY <1>4, <3>5, EmptySeq, LenProperties
        <4>2. 1 \in 1 .. Len(fifo) - 1 /\ kept[1] = fifo[1 + 1]
          <5> HIDE DEF kept
          <5>1. 1 \in 1 .. Len(kept)
            BY <4>1
          <5> QED
            BY <3>1, <5>1
        <4> QED
          BY <3>3, <3>5, <4>2 DEF Story, Chained
      <3> QED
        BY <3>4, <3>5
    <2>2. CASE Len(fifo) # FifoSize
      BY <2>2 DEF Story, Follows
    <2> QED
      BY <2>1, <2>2
  <1>8. /\ Len(fifo') = Len(kept) + 1 /\ fifo' # <<>>
        /\ \A i \in 1 .. Len(kept) : fifo'[i] = kept[i]
        /\ fifo'[Len(kept) + 1] = e
        /\ Len(kept) \in Nat
    BY <1>1, <1>2, <1>4
  <1> HIDE DEF kept
  <1>9. Chained'
    <2> SUFFICES ASSUME NEW i \in 1 .. Len(kept), NEW m \in Mods
                 PROVE  m \in fifo'[i + 1].held <=> HeldAfter(fifo'[i], m)
      BY <1>8 DEF Chained, HeldAfter
    <2>1. CASE i = Len(kept)
      BY <1>4, <1>6, <1>8, <2>1
    <2>2. CASE i # Len(kept)
      BY <1>5, <1>8, <2>2
    <2> QED
      BY <2>1, <2>2
  <1>10. UpToNow'
    BY <1>3, <1>8 DEF UpToNow, HeldAfter
  <1>11. Follows'
    <2>1. kept = <<>> <=> Len(kept) = 0
      BY <1>4
    <2>2. fifo'[1].held = IF kept = <<>> THEN Held ELSE kept[1].held
      BY <1>8, <2>1
    <2> QED
      BY <1>1, <1>7, <1>8, <2>2 DEF Follows
  <1> QED
    BY <1>9, <1>10, <1>11 DEF Story

LEMMA ReadEventStory ==
    ASSUME KeyboardTypeOK, Story, ReadEvent PROVE Story'
  <1> DEFINE e == Head(fifo)
  <1>1. /\ fifo \in Seq(Events) /\ fifo # <<>> /\ fifo' = Tail(fifo) /\ e = fifo[1]
        /\ mods' = ModsAfter(e) /\ lost' = LostAfter(e) /\ down' = down
    BY DEF KeyboardTypeOK, ReadEvent
  <1>2. /\ Len(fifo) \in Nat \ {0} /\ Len(fifo') = Len(fifo) - 1
        /\ \A i \in 1 .. Len(fifo') : fifo'[i] = fifo[i + 1]
        /\ fifo' = <<>> <=> Len(fifo) = 1
    <2>1. /\ Len(fifo) \in Nat \ {0} /\ Tail(fifo) \in Seq(Events)
          /\ Len(Tail(fifo)) = Len(fifo) - 1
          /\ \A i \in 1 .. Len(Tail(fifo)) : Tail(fifo)[i] = fifo[i + 1]
      BY <1>1, HeadTailProperties, EmptySeq
    <2>2. Tail(fifo) = <<>> <=> Len(Tail(fifo)) = 0
      BY <2>1, EmptySeq
    <2> QED
      BY <1>1, <2>1, <2>2
  <1>3. Held' = Held
    BY <1>1 DEF Held
  <1>4. Chained'
    BY <1>2 DEF Story, Chained, HeldAfter
  <1>5. UpToNow'
    BY <1>2, <1>3 DEF Story, UpToNow, HeldAfter
  <1>6. Follows'
    <2> SUFFICES ASSUME NEW m \in Mods, m \notin lost'
                 PROVE  m \in mods' <=> m \in (IF fifo' = <<>> THEN Held ELSE fifo'[1].held)
      BY <1>3 DEF Follows
    <2>1. m \in mods' <=> HeldAfter(e, m)
      BY <1>1 DEF ModsAfter, LostAfter, HeldAfter, Story, Follows
    <2>2. CASE fifo' = <<>>
      BY <1>1, <1>2, <2>1, <2>2 DEF Story, UpToNow
    <2>3. CASE fifo' # <<>>
      <3>1. 1 \in 1 .. Len(fifo) - 1 /\ fifo'[1] = fifo[1 + 1]
        BY <1>2, <2>3
      <3> QED
        BY <1>1, <2>1, <2>3, <3>1 DEF Story, Chained
    <2> QED
      BY <2>2, <2>3
  <1> QED
    BY <1>4, <1>5, <1>6 DEF Story

LEMMA NextTypeOK ==
    ASSUME KeyboardTypeOK, [Next]_vars PROVE KeyboardTypeOK'
  <1> USE KeyboardAssumption DEF KeyboardTypeOK
  <1>1. ASSUME NEW code \in Codes, KeyEvent(code) PROVE KeyboardTypeOK'
    <2> DEFINE e == [code |-> code, pressed |-> code \notin down, held |-> Held]
    <2>1. e \in Events
      BY HeldType DEF Events
    <2>2. Queued(e) \in Seq(Events) /\ Len(Queued(e)) <= FifoSize
      BY <2>1 DEF Queued
    <2>3. kint' \in BOOLEAN /\ flag' \in BOOLEAN
      BY <1>1, Zenon DEF KeyEvent
    <2>4. /\ mods' \in SUBSET Mods /\ lost' \in SUBSET Mods /\ down' \in SUBSET Codes
          /\ events' \in 0 .. MaxEvents /\ UNCHANGED <<pc, looked, faults>>
      BY <1>1 DEF KeyEvent, PushedOut
    <2> QED
      BY <1>1, <2>2, <2>3, <2>4 DEF KeyEvent
  <1>2. CASE PollStart
    BY <1>2 DEF PollStart, FlagSeen, NoFault, Fault, chip
  <1>3. CASE ReadEvent
    BY <1>3 DEF ReadEvent, LastLook, ModsAfter, LostAfter
  <1>4. CASE ReadNothing
    BY <1>4 DEF ReadNothing, NoFault, Fault, chip
  <1>5. CASE Acknowledge
    <2>1. kint' \in BOOLEAN
      BY <1>5, Zenon DEF Acknowledge
    <2> QED
      BY <1>5, <2>1 DEF Acknowledge, NoFault, Fault
  <1>6. CASE Check
    BY <1>6 DEF Check, NoFault, Fault, chip
  <1>7. CASE ClearFlag
    BY <1>7 DEF ClearFlag, chip
  <1>8. CASE UNCHANGED vars
    BY <1>8 DEF vars
  <1> QED
    BY <1>1, <1>2, <1>3, <1>4, <1>5, <1>6, <1>7, <1>8 DEF Next, PollStep

\* A key returned with certainty was translated with the modifiers of its event.
LEMMA ReadEventKey ==
    ASSUME KeyboardTypeOK, Story, ReadEvent PROVE KeyTyped' /\ TypedAsHeld'
  <1> DEFINE e == Head(fifo)
  <1>1. /\ fifo \in Seq(Events) /\ fifo # <<>> /\ e = fifo[1] /\ e \in Events
        /\ mods \in SUBSET Mods
    BY DEF KeyboardTypeOK, ReadEvent
  <1>2. lost = {} => mods = e.held
    BY <1>1 DEF Story, Follows, Events
  <1>3. key' = IF Yields(e) THEN [name |-> Translate(e.code, mods), code |-> e.code,
                                  held |-> e.held, sure |-> lost = {}]
                            ELSE NoKey
    BY DEF ReadEvent
  <1> QED
    BY <1>1, <1>2, <1>3 DEF KeyTyped, TypedAsHeld, Events, NoKey

LEMMA NextKeyboardInv ==
    ASSUME KeyboardInv, [Next]_vars PROVE KeyboardInv'
  <1> USE DEF KeyboardInv
  <1>0. KeyboardTypeOK'
    BY NextTypeOK
  <1>1. ASSUME NEW code \in Codes, KeyEvent(code) PROVE KeyboardInv'
    BY <1>0, <1>1, KeyEventStory DEF KeyEvent, KeyTyped, TypedAsHeld
  <1>2. CASE ReadEvent
    BY <1>0, <1>2, ReadEventStory, ReadEventKey
  <1>3. CASE PollStart
    BY <1>0, <1>3, FrameStory DEF PollStart, chip, KeyTyped, TypedAsHeld
  <1>4. CASE ReadNothing \/ Acknowledge \/ Check \/ ClearFlag \/ UNCHANGED vars
    BY <1>0, <1>4, FrameStory
       DEF ReadNothing, Acknowledge, Check, ClearFlag, vars, chip, KeyTyped, TypedAsHeld
  <1> QED
    BY <1>1, <1>2, <1>3, <1>4 DEF Next, PollStep

THEOREM KeyboardInvariant == Spec => []KeyboardInv
  <1>1. Init => KeyboardInv
    BY InitKeyboardInv
  <1>2. KeyboardInv /\ [Next]_vars => KeyboardInv'
    BY NextKeyboardInv
  <1> QED
    BY <1>1, <1>2, PTL DEF Spec

\* Types; one call of kbd_poll looks at no more events than it may, and the
\* FIFO never holds more than the chip has room for.
THEOREM KeyboardTypes == Spec => []KeyboardTypeOK
  BY KeyboardInvariant, PTL DEF KeyboardInv

\* However late the events are read, each key is translated with the modifiers
\* that were held when it went down.
THEOREM KeysTypedAsHeld == Spec => []TypedAsHeld
  BY KeyboardInvariant, PTL DEF KeyboardInv

\* Once the driver has read all events it agrees with the keyboard on every
\* modifier whose events came through.
THEOREM ModifiersNeverStick == Spec => []NoStuckModifier
  <1>1. KeyboardInv => NoStuckModifier
    BY DEF KeyboardInv, Story, Follows, NoStuckModifier
  <1> QED
    BY <1>1, KeyboardInvariant, PTL

(***************************************************************************)
(* Why nothing is stranded (NoStranding): K_INT                            *)
(***************************************************************************)

\* The key bit of INT_STAT is set as long as events wait, so that kbd_poll, which
\* reads it in every call, drains them whether or not an interrupt was noticed:
\* the flag may be cleared over one, and the line, still low, brings no other
\* (keyboard.c:226-249).
LineStaysLow == fifo # <<>> => kint
LooksWhileEventsWait == PollStart /\ NoFault /\ fifo # <<>> => pc' = "drain"
LeavesOnlyEmpty == ReadNothing /\ NoFault => fifo = <<>>

LEMMA NextLineStaysLow ==
    ASSUME KeyboardTypeOK, LineStaysLow, [Next]_vars PROVE LineStaysLow'
  <1> USE DEF LineStaysLow
  <1>1. ASSUME NEW code \in Codes, KeyEvent(code) PROVE LineStaysLow'
    BY <1>1 DEF KeyEvent
  <1>2. CASE ReadEvent
    BY <1>2 DEF ReadEvent
  <1>3. CASE Acknowledge
    BY <1>3 DEF Acknowledge
  <1>4. CASE PollStart \/ ReadNothing \/ Check \/ ClearFlag \/ UNCHANGED vars
    BY <1>4 DEF PollStart, ReadNothing, Check, ClearFlag, vars, chip
  <1> QED
    BY <1>1, <1>2, <1>3, <1>4 DEF Next, PollStep

\* Whenever events wait, the next call whose read of INT_STAT succeeds goes to
\* read them, and without a failed read it stops for nothing but an empty FIFO:
\* no order of key events, interrupts and transfers leaves an event behind.
THEOREM EventsAreSeen ==
    Spec => /\ []LineStaysLow
            /\ [][LooksWhileEventsWait /\ LeavesOnlyEmpty]_vars
  <1>1. Init => LineStaysLow
    BY DEF Init, LineStaysLow
  <1>2. KeyboardTypeOK /\ LineStaysLow /\ [Next]_vars => LineStaysLow'
    BY NextLineStaysLow
  <1>3. KeyboardTypeOK /\ LineStaysLow /\ [Next]_vars
            => [LooksWhileEventsWait /\ LeavesOnlyEmpty]_vars
    <2> SUFFICES ASSUME KeyboardTypeOK, LineStaysLow
                 PROVE  LooksWhileEventsWait /\ LeavesOnlyEmpty
      OBVIOUS
    <2>1. NoFault => ~Fault
      BY DEF KeyboardTypeOK, NoFault, Fault
    <2>2. LooksWhileEventsWait
      <3> SUFFICES ASSUME PollStart, NoFault, fifo # <<>> PROVE pc' = "drain"
        BY DEF LooksWhileEventsWait
      <3>1. FlagSeen /\ kint
        BY DEF PollStart, LineStaysLow
      <3>2. flag' = (flag \/ kint)
        BY <2>1, <3>1, Zenon DEF FlagSeen, NoFault
      <3>3. flag'
        BY <3>1, <3>2, Zenon
      <3> QED
        BY <3>3 DEF PollStart
    <2>3. LeavesOnlyEmpty
      BY <2>1, Zenon DEF LeavesOnlyEmpty, ReadNothing, NoFault
    <2> QED
      BY <2>2, <2>3
  <1> QED
    BY <1>1, <1>2, <1>3, KeyboardTypes, PTL DEF Spec
================================================================================
