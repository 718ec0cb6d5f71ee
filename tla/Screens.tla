-------------------------------- MODULE Screens --------------------------------
(***************************************************************************)
(* What ui.c does with keys: the menu with its window of rows, the text    *)
(* input and the message.  A key is the kind kbd_poll gives, or the        *)
(* character of a KEY_EV_CHAR.                                             *)
(***************************************************************************)
EXTENDS Integers, Sequences

CONSTANT Rows      \* menu rows that fit on the display (82 \div 18)

ASSUME RowsAssumption == Rows \in Nat \ {0}

UpKeys == {"UP", ";"}
DownKeys == {"DOWN", "."}
Cancels == {"ESC", "BACKTICK"}
Dismisses == {"ENTER", "SPACE", "ESC"}          \* ui_show_message
SplashKeys == Dismisses \cup {"BACKTICK"}        \* ui_splash
HelpKeys == Cancels \cup {"ENTER"}               \* screen_help

Menus == [n : Nat, sel : Nat, top : Nat]

\* The answers of ui_menu: none yet, cancelled, or the item at the cursor.
NoAnswer == -2
Cancelled == -1

OpenMenu(n) == [n |-> n, sel |-> 0, top |-> 0]

\* Mutant: the window follows the cursor down only.
WindowDownOnly(sel, top) == IF sel >= top + Rows THEN sel - Rows + 1 ELSE top

\* The window moves so that the cursor is in it.
Window(sel, top) == IF sel < top THEN sel
                    ELSE IF sel >= top + Rows THEN sel - Rows + 1 ELSE top

MenuKey(m, k) ==
    LET sel == IF k \in UpKeys /\ m.sel > 0 THEN m.sel - 1
               ELSE IF k \in DownKeys /\ m.sel < m.n - 1 THEN m.sel + 1 ELSE m.sel
    IN  [m EXCEPT !.sel = sel, !.top = Window(sel, m.top)]

MenuAnswer(m, k) == IF k = "ENTER" THEN m.sel ELSE IF k \in Cancels THEN Cancelled ELSE NoAnswer

\* The highlighted row is drawn, and it is an item.
CursorShown(m) == m.sel < m.n /\ m.top <= m.sel /\ m.sel < m.top + Rows

NoText == <<>>

\* A character is typed at the end, and what does not fit is not taken.
Typed(text, k, room) == IF Len(text) < room THEN Append(text, k) ELSE text

\* Mutant: no byte is kept for the terminator.
TextKeyToEnd(text, k, cap, chars) ==
    CASE k = "BACKSPACE" /\ text # NoText -> SubSeq(text, 1, Len(text) - 1)
      [] k \in chars -> Typed(text, k, cap)
      [] OTHER -> text

\* ui_text_input with a buffer of cap bytes.
TextKey(text, k, cap, chars) ==
    CASE k = "BACKSPACE" /\ text # NoText -> SubSeq(text, 1, Len(text) - 1)
      [] k \in chars -> Typed(text, k, cap - 1)
      [] OTHER -> text
================================================================================
