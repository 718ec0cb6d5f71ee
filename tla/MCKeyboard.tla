------------------------------ MODULE MCKeyboard -------------------------------
EXTENDS Keyboard, TLC

\* shift, Fn, the key of ";" and ":" and up, and a code in row 7 of the scanner,
\* which is not on the keymap.
Shift == 7
Fn == 3
Semicolon == 57
OffKeymap == 71

MCCodes == {Shift, Fn, Semicolon, OffKeymap}

MCLegend == Position(Semicolon) :> [first |-> ";", second |-> ":", fn |-> "up"]

ASSUME Position(Shift) = <<2, 1>> /\ Position(Fn) = <<2, 0>>
ASSUME Position(Semicolon) = <<2, 11>> /\ ~OnKeymap(OffKeymap)
================================================================================
