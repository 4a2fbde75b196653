--------------------------------- MODULE Vga ----------------------------------
(***************************************************************************)
(* drivers/vga.c: the text terminal on the memory of the VGA card.         *)
(*                                                                         *)
(* vga_put is modelled assignment by assignment and scrolling cell by      *)
(* cell, for an exception or a failed assertion can stop it at any point:  *)
(* panic and abort_handler never return to it, but they log a message, and *)
(* the logger prints that message through vga_put as well, on the state    *)
(* that the stopped call has left.                                         *)
(*                                                                         *)
(* The colour of a cell is left out, except where vga_clear mixes it with  *)
(* the character.                                                          *)
(***************************************************************************)
EXTENDS Integers, Sequences

CONSTANTS
  Width, Height,   \* vga_width and vga_height: 80 and 25
  TabStop,         \* 8
  Byte,            \* the values of a register of the cursor: 256
  Letters          \* the printable characters that are written, but for
                   \* Blank and those of the message

ASSUME SizeAssumption ==
  /\ Width \in Nat /\ Height \in Nat /\ TabStop \in Nat /\ Byte \in Nat
  /\ Width >= 2 /\ Height >= 2 /\ TabStop >= 1 /\ Byte >= 1
  /\ Width % TabStop = 0
  /\ Width * Height =< Byte * Byte

Blank   == " "
Garbage == "'"     \* 0x20 | LIGHT_GREY, a printable character

(* What panic logs: a header that starts with a bracket, a text, the end   *)
(* of the line.                                                            *)
Message == <<"[", "p", "LF", "CR">>

Printable == Letters \union {Blank, Garbage, "[", "p"}

ASSUME LettersAssumption ==
  Letters # {} /\ Letters \intersect {Garbage, "[", "p", "BS", "HT", "CR", "LF", "BEL"} = {}

Screen == 0 .. Width * Height - 1
Cells  == 0 .. Width * (Height + 1) - 1    \* the screen and what follows it

VARIABLES
  x, y, attr,      \* vga_data
  vga_buffer,      \* the memory of the card
  crtc,            \* its registers of the cursor, and the one selected
  c,               \* the argument of vga_put, None when it is not called
  step,            \* what vga_put does next
  i,               \* the loop index of memcpy, vga_scroll; the outb to do next
  text             \* what is left of the message of a panic, or Running

Running == <<"running">>
None    == "none"

vars == <<x, y, attr, vga_buffer, crtc, c, step, i, text>>

panicked == text # Running
Halted   == text = <<>> /\ step = "idle"

Init ==
  /\ x = 0 /\ y = 0 /\ attr = 0
  /\ \E ch \in Letters : vga_buffer = [k \in Cells |-> ch]     \* of the boot loader
  /\ crtc = [index |-> 0, hi |-> 0, lo |-> 0]
  /\ c = None
  /\ step = "vga_init"
  /\ i = 0
  /\ text = Running

(* The characters that vga_clear writes: 0x20 | attr, with no colour.      *)
Cleared(a) == IF a = 0 THEN Blank ELSE Garbage

(* vga_init: clear the screen, then choose the colour.  It prints nothing, *)
(* and before kmain's set_output nothing else is printed on the screen.    *)
vga_init ==
  /\ step = "vga_init" /\ step' = "idle"
  /\ vga_buffer' = [k \in Cells |-> IF k \in Screen THEN Cleared(attr) ELSE vga_buffer[k]]
  /\ x' = 0 /\ y' = 0
  /\ crtc' = [index |-> 15, hi |-> 0, lo |-> 0]
  /\ attr' = 7
  /\ UNCHANGED <<c, i, text>>

-------------------------------------------------------------------------------
(***************************************************************************)
(* vga_put.                                                                *)
(***************************************************************************)
Store(k, ch)  == vga_buffer' = [vga_buffer EXCEPT ![k] = ch]
Cursor        == y * Width + x
Same          == UNCHANGED <<attr, crtc, c, i, text>>

Backspace ==
  /\ x' = IF x # 0 THEN x - 1 ELSE x
  /\ step' = "margin"
  /\ UNCHANGED <<y, vga_buffer>>

Tab_Rounded ==                                   \* fault: (x + 7) & ~7
  /\ x' = ((x + TabStop - 1) \div TabStop) * TabStop
  /\ step' = "margin"
  /\ UNCHANGED <<y, vga_buffer>>
Tab ==
  /\ x' = ((x + TabStop) \div TabStop) * TabStop
  /\ step' = "margin"
  /\ UNCHANGED <<y, vga_buffer>>

CarriageReturn ==
  /\ x' = 0
  /\ step' = "margin"
  /\ UNCHANGED <<y, vga_buffer>>

NewLine ==
  /\ x' = 0
  /\ step' = "newline_y"
  /\ UNCHANGED <<y, vga_buffer>>

PrintChar(ch) ==
  /\ Store(Cursor, ch)
  /\ step' = "print_x"
  /\ UNCHANGED <<x, y>>

IgnoreChar ==
  /\ step' = "margin"
  /\ UNCHANGED <<x, y, vga_buffer>>

(* The chain of conditions on the character, each up to its first store.   *)
Branch(ch) ==
  \/ ch = "BS" /\ Backspace
  \/ ch = "HT" /\ Tab
  \/ ch = "CR" /\ CarriageReturn
  \/ ch = "LF" /\ NewLine
  \/ ch = "BEL" /\ IgnoreChar
  \/ ch \in Printable /\ PrintChar(ch)

Inputs == Letters \union {Blank, "BS", "HT", "CR", "LF", "BEL"}

(* The kernel writes what it likes; a panic writes its message.            *)
vga_put ==
  /\ step = "idle"
  /\ \/ ~panicked /\ c' \in Inputs /\ text' = text
     \/ panicked /\ text # <<>> /\ c' = Head(text) /\ text' = Tail(text)
  /\ Branch(c')
  /\ UNCHANGED <<attr, crtc, i>>

print_x ==
  /\ step = "print_x" /\ step' = "margin"
  /\ x' = x + 1
  /\ UNCHANGED <<y, vga_buffer>> /\ Same

newline_y ==
  /\ step = "newline_y" /\ step' = "margin"
  /\ y' = y + 1
  /\ UNCHANGED <<x, vga_buffer>> /\ Same

WrapAt(last) ==
  /\ step = "margin"
  /\ x' = IF x >= last THEN 0 ELSE x
  /\ step' = IF x >= last THEN "margin_y" ELSE "vga_scroll"
  /\ UNCHANGED <<y, vga_buffer>> /\ Same

margin_OffByOne == WrapAt(Width + 1)             \* fault: > for >=
margin == WrapAt(Width)

margin_y ==
  /\ step = "margin_y" /\ step' = "vga_scroll"
  /\ y' = y + 1
  /\ UNCHANGED <<x, vga_buffer>> /\ Same

(***************************************************************************)
(* vga_scroll: memcpy over itself, from the lower addresses up, then the   *)
(* last line.  A pass through memcpy copies one cell, two of its bytes.    *)
(***************************************************************************)
temp == y - Height + 1
Kept == (Height - temp) * Width

vga_scroll ==
  /\ step = "vga_scroll"
  /\ step' = IF y >= Height THEN "memcpy" ELSE "vga_move_cursor"
  /\ i' = 0
  /\ UNCHANGED <<x, y, vga_buffer, attr, crtc, c, text>>

memcpy_Down ==                                   \* fault: from the higher addresses down
  /\ step = "memcpy"
  /\ Store(Kept - 1 - i, vga_buffer[Kept - 1 - i + temp * Width])
  /\ i' = IF i + 1 < Kept THEN i + 1 ELSE 0
  /\ step' = IF i + 1 < Kept THEN "memcpy" ELSE "last_line"
  /\ UNCHANGED <<x, y, attr, crtc, c, text>>
memcpy ==
  /\ step = "memcpy"
  /\ Store(i, vga_buffer[i + temp * Width])
  /\ i' = IF i + 1 < Kept THEN i + 1 ELSE 0
  /\ step' = IF i + 1 < Kept THEN "memcpy" ELSE "last_line"
  /\ UNCHANGED <<x, y, attr, crtc, c, text>>

last_line ==
  /\ step = "last_line"
  /\ Store(Kept + i, Blank)
  /\ i' = IF i + 1 < Width THEN i + 1 ELSE 0
  /\ step' = IF i + 1 < Width THEN "last_line" ELSE "last_row"
  /\ UNCHANGED <<x, y, attr, crtc, c, text>>

LeaveAt(r) ==
  /\ step = "last_row" /\ step' = "vga_move_cursor"
  /\ y' = r
  /\ UNCHANGED <<x, vga_buffer>> /\ Same

last_row_Below == LeaveAt(Height)                \* fault: y = vga_height
last_row == LeaveAt(Height - 1)

(* The four outb of vga_move_cursor; the last one returns from vga_put.    *)
Select(r) == [crtc EXCEPT !.index = r]
Write(v)  == IF crtc.index = 14 THEN [crtc EXCEPT !.hi = v] ELSE [crtc EXCEPT !.lo = v]

Outb_LowTwice ==                                 \* fault: 15 is not selected
  <<Select(14), Write((Cursor \div Byte) % Byte), Select(14), Write(Cursor % Byte)>>
Outb ==
  <<Select(14), Write((Cursor \div Byte) % Byte), Select(15), Write(Cursor % Byte)>>

vga_move_cursor ==
  /\ step = "vga_move_cursor"
  /\ crtc' = Outb[i + 1]
  /\ i' = IF i < 3 THEN i + 1 ELSE 0
  /\ step' = IF i < 3 THEN step ELSE "idle"
  /\ c' = IF i < 3 THEN c ELSE None
  /\ UNCHANGED <<x, y, attr, vga_buffer, text>>

(* panic and abort_handler: interrupts are off, the message goes to the    *)
(* screen, wherever vga_put was.                                           *)
panic ==
  /\ ~panicked /\ step # "vga_init"
  /\ text' = Message
  /\ c' = None
  /\ step' = "idle"
  /\ i' = 0
  /\ UNCHANGED <<x, y, attr, vga_buffer, crtc>>

hlt == Halted /\ UNCHANGED vars

Step ==
  \/ vga_init \/ print_x \/ newline_y \/ margin \/ margin_y
  \/ vga_scroll \/ memcpy \/ last_line \/ last_row \/ vga_move_cursor

Next == vga_put \/ Step \/ panic \/ hlt

Spec == Init /\ [][Next]_vars

(* A call of vga_put goes on, and so does a panic: with interrupts off     *)
(* nothing else can have the processor.  The kernel need not write.        *)
FairSpec == Spec /\ WF_vars(Step) /\ WF_vars(panicked /\ vga_put)

-------------------------------------------------------------------------------
(***************************************************************************)
(* The terminal that vga.c implements: what the screen shows once the call *)
(* in progress, if any, has done what is left of it.                       *)
(***************************************************************************)
EndX == IF step = "print_x" THEN x + 1 ELSE x
Wraps == step \in {"print_x", "margin"} /\ EndX >= Width
EndY == y + (IF step \in {"newline_y", "margin_y"} \/ Wraps THEN 1 ELSE 0)

EndCell(k) ==
  IF EndY < Height THEN vga_buffer[k]
  ELSE IF k >= Width * (Height - 1) THEN Blank
  ELSE IF step \in {"last_line", "last_row"} \/ (step = "memcpy" /\ k < i) THEN vga_buffer[k]
  ELSE vga_buffer[k + Width]

T == INSTANCE Terminal WITH
  phase <- IF step = "vga_init" THEN "off" ELSE IF panicked THEN "crashed" ELSE "on",
  lines <- [r \in 0 .. Height - 1 |-> [k \in 0 .. Width - 1 |-> EndCell(r * Width + k)]],
  row   <- IF EndY < Height THEN EndY ELSE Height - 1,
  col   <- IF Wraps THEN 0 ELSE EndX,
  input <- c,
  Letters <- Letters \union {Blank}

-------------------------------------------------------------------------------
(***************************************************************************)
(* Properties.                                                             *)
(***************************************************************************)
Steps == {"vga_init", "idle", "print_x", "newline_y", "margin", "margin_y", "vga_scroll",
          "memcpy", "last_line", "last_row", "vga_move_cursor"}

TypeOK ==
  /\ x \in 0 .. Width + 1
  /\ y \in 0 .. Height
  /\ attr \in {0, 7}
  /\ vga_buffer \in [Cells -> Printable]
  /\ crtc \in [index : {0, 14, 15}, hi : 0 .. Byte - 1, lo : 0 .. Byte - 1]
  /\ c \in Inputs \union {None, "[", "p"}
  /\ step \in Steps
  /\ i \in 0 .. Width * Height
  /\ text \in {Running, Message, <<"p", "LF", "CR">>, <<"LF", "CR">>, <<"CR">>, <<>>}

(* What the bounds of the screen rest on, step by step.  A panic may come  *)
(* at any of them: its first character, a printable one, is then written   *)
(* with the cursor at the margin or at the start of the line below.        *)
OnScreen  == x < Width /\ y < Height
AtEdge    == x =< Width /\ y =< Height /\ (y = Height => x = 0)
FirstChar == panicked /\ text = Tail(Message)

InBounds ==
  /\ ~panicked => AtEdge
  /\ text = Message => step = "idle"
  /\ step = "idle" => OnScreen \/ (text = Message /\ AtEdge)
  /\ step = "print_x" => OnScreen \/ (FirstChar /\ AtEdge)
  /\ step \in {"newline_y", "margin_y"} => x = 0 /\ y < Height
  /\ step = "margin" => (x >= Width => y < Height)
  /\ step \in {"vga_scroll", "memcpy", "last_line", "last_row"} => x < Width
  /\ step \in {"memcpy", "last_line", "last_row"} => y = Height
  /\ step = "memcpy" => i < Width * (Height - 1)
  /\ step = "last_line" => i < Width
  /\ step = "vga_move_cursor" => OnScreen /\ i =< 3
  /\ step \notin {"memcpy", "last_line", "vga_move_cursor"} => i = 0

(* How far vga_move_cursor has come.                                       *)
Registers ==
  /\ step = "vga_move_cursor" /\ i \in {1, 2} => crtc.index = 14
  /\ step = "vga_move_cursor" /\ i = 3 => crtc.index = 15
  /\ step = "vga_move_cursor" /\ i \in {2, 3} => crtc.hi = (Cursor \div Byte) % Byte
  /\ step = "idle" /\ text # Message => crtc.hi * Byte + crtc.lo = Cursor

IInv == TypeOK /\ InBounds /\ Registers

(* Writing, tabulating, wrapping and scrolling show what a terminal shows: *)
(* no sequence of characters loses, repeats or misplaces one               *)
(* (vga.c:31-48, 79-118).                                                  *)
ShowsWhatWasWritten == T!Spec

(* Between two calls the cursor of the hardware is where the next          *)
(* character will go, and that place is on the screen; a panic amid the    *)
(* two halves of its address does not change that (vga.c:50-57).           *)
CursorFollows ==
  (step = "idle" /\ text # Message)
    => /\ crtc.hi * Byte + crtc.lo = Cursor
       /\ Cursor \in Screen /\ x < Width

(* Nothing is written behind the screen, except that a panic amid the move *)
(* to the next line may store its first character right behind it          *)
(* (vga.c:39, 44, 105).                                                    *)
WritesOnScreen ==
  [][\A k \in Cells \ Screen :
       vga_buffer'[k] # vga_buffer[k] => panicked /\ k = Width * Height]_vars

(* A panic is read on the screen wherever it stopped vga_put, and from     *)
(* then on: all of its message but the first character, which may be lost  *)
(* (vga.c:105, 114, stdlib.c:26).                                          *)
MessageShown == \E k \in Screen : vga_buffer[k] = "p"

PanicIsShown == panicked ~> [](Halted /\ MessageShown)

===============================================================================
