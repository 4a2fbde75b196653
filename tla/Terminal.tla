------------------------------- MODULE Terminal -------------------------------
(***************************************************************************)
(* What a text terminal promises to those who write to it, whatever memory *)
(* it keeps the text in.  vga.c (module Vga) is shown to implement it.     *)
(*                                                                         *)
(*   - a character appears where the cursor is and nothing else changes;   *)
(*   - the cursor never leaves the screen: past the last column it goes    *)
(*     to the next line;                                                   *)
(*   - below the last line the text moves up by one line: the screen       *)
(*     always shows the end of what was written.                           *)
(* Nothing is promised of what was written once the system has crashed.    *)
(***************************************************************************)
EXTENDS Integers

CONSTANTS
  Width, Height,   \* the size of the screen
  TabStop,         \* the distance between two tabulator stops
  Letters,         \* the characters that can be seen
  Blank,           \* what an empty place shows
  None             \* no character

VARIABLES
  phase,           \* "off", "on", "crashed"
  input,           \* the character being written, None between two of them
  lines,           \* the text on the screen, line by line
  row, col         \* the cursor

vars == <<phase, input, lines, row, col>>

EmptyLine == [k \in 0 .. Width - 1 |-> Blank]

Init == phase = "off" /\ input = None

Clear ==
  /\ phase = "off" /\ phase' = "on"
  /\ lines' = [r \in 0 .. Height - 1 |-> EmptyLine]
  /\ row' = 0 /\ col' = 0
  /\ UNCHANGED input

Accept(ch) ==
  /\ phase = "on" /\ UNCHANGED phase
  /\ input = None /\ input' = ch

(* The text is ls, and the cursor is about to move to line r, column c.    *)
MoveTo(ls, r, c) ==
  LET below == IF c >= Width THEN r + 1 ELSE r
  IN  /\ col' = IF c >= Width THEN 0 ELSE c
      /\ \/ /\ below < Height
            /\ row' = below
            /\ lines' = ls
         \/ /\ below = Height
            /\ row' = Height - 1
            /\ lines' = [k \in 0 .. Height - 1 |-> IF k = Height - 1 THEN EmptyLine ELSE ls[k + 1]]

Type(ch)   == Accept(ch) /\ MoveTo([lines EXCEPT ![row][col] = ch], row, col + 1)
NewLine    == Accept("LF") /\ MoveTo(lines, row + 1, 0)
HomeColumn == Accept("CR") /\ MoveTo(lines, row, 0)
Backspace  == Accept("BS") /\ MoveTo(lines, row, IF col > 0 THEN col - 1 ELSE col)
Tabulate   == /\ Accept("HT")
              /\ \E stop \in col + 1 .. col + TabStop :
                   stop % TabStop = 0 /\ MoveTo(lines, row, stop)
Ignore     == Accept("BEL") /\ MoveTo(lines, row, col)

Done ==
  /\ phase = "on" /\ input # None
  /\ input' = None
  /\ UNCHANGED <<phase, lines, row, col>>

(* From then on anything may be on the screen.                             *)
Crash == phase' = "crashed"

Next ==
  \/ Clear
  \/ \E ch \in Letters : Type(ch)
  \/ NewLine \/ HomeColumn \/ Backspace \/ Tabulate \/ Ignore
  \/ Done
  \/ Crash

Spec == Init /\ [][Next]_vars
===============================================================================
