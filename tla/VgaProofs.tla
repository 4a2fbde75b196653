------------------------------ MODULE VgaProofs ------------------------------
(***************************************************************************)
(* Theorems about the text terminal (module Vga), for every size of the    *)
(* screen, distance of the tabulator stops and width of the registers that *)
(* SizeAssumption allows.                                                  *)
(***************************************************************************)
EXTENDS Vga, TLAPS

-------------------------------------------------------------------------------
(* Division.                                                               *)

LEMMA DivisionRange ==
  ASSUME NEW a \in Nat, NEW b \in Nat, b >= 1
  PROVE  a \div b \in Nat /\ a % b \in 0 .. b - 1
OBVIOUS

LEMMA Division ==
  ASSUME NEW a \in Nat, NEW b \in Nat, b >= 1
  PROVE  \E q, r \in Nat : q = a \div b /\ r = a % b /\ r < b /\ a = q * b + r
<1>1. \E q, r \in Int : q = a \div b /\ r = a % b /\ a = b * q + r
  OBVIOUS
<1>2. PICK q \in Int, r \in Int : q = a \div b /\ r = a % b /\ a = b * q + r
  BY <1>1
<1>3. q = a \div b /\ r = a % b
  BY <1>2
<1>4. a \div b \in Nat /\ a % b \in Nat /\ a % b < b
  BY DivisionRange
<1>5. q \in Nat /\ r \in Nat /\ r < b
  BY <1>3, <1>4
<1>6. a = q * b + r
  BY <1>2
<1>7. QED
  BY <1>3, <1>5, <1>6

LEMMA SmallRemainder ==
  ASSUME NEW a \in Nat, NEW b \in Nat, b >= 1, a < b
  PROVE  a % b = a
OBVIOUS

LEMMA NextQuotient ==
  ASSUME NEW a \in Nat, NEW b \in Nat, b >= 1
  PROVE  (a + b) \div b = a \div b + 1
OBVIOUS

-------------------------------------------------------------------------------
(* Places on the screen.                                                   *)

(* The cell of a column and a row is on the screen, and the cell one below *)
(* a bound is at most the first one behind that bound.                     *)
LEMMA CellOnScreen ==
  ASSUME NEW r \in Nat, NEW k \in Nat, r < Height, k < Width
  PROVE  r * Width + k \in Screen
<1>1. r * Width =< (Height - 1) * Width
  BY SizeAssumption
<1>2. (Height - 1) * Width = Width * Height - Width
  BY SizeAssumption
<1>3. r * Width \in Nat /\ Width * Height \in Nat
  BY SizeAssumption
<1>4. QED
  BY <1>1, <1>2, <1>3, SizeAssumption DEF Screen

LEMMA CellAtEdge ==
  ASSUME NEW r \in Nat, NEW k \in Nat, r =< Height, k =< Width, r = Height => k = 0
  PROVE  r * Width + k \in 0 .. Width * Height
<1>1. CASE r = Height
  BY <1>1, SizeAssumption
<1>2. CASE r < Height
  <2>1. r * Width =< (Height - 1) * Width
    BY <1>2, SizeAssumption
  <2>2. (Height - 1) * Width = Width * Height - Width
    BY SizeAssumption
  <2>3. r * Width \in Nat /\ Width * Height \in Nat
    BY SizeAssumption
  <2>4. QED
    BY <2>1, <2>2, <2>3, SizeAssumption
<1>3. QED
  BY <1>1, <1>2, SizeAssumption

LEMMA ScreenInCells ==
  /\ 0 .. Width * Height \subseteq Cells
  /\ Screen \subseteq Cells
<1>1. Width * (Height + 1) = Width * Height + Width
  BY SizeAssumption
<1>2. Width * Height \in Nat
  BY SizeAssumption
<1>3. QED
  BY <1>1, <1>2, SizeAssumption DEF Screen, Cells

(* The next tabulator stop is at most the margin.                          *)
LEMMA NextStop ==
  ASSUME NEW k \in Nat, k < Width
  PROVE  ((k + TabStop) \div TabStop) * TabStop \in 0 .. Width
<1>1. PICK q \in Nat : Width = q * TabStop
  <2>1. PICK q \in Nat, r \in Nat : r = Width % TabStop /\ Width = q * TabStop + r
    <3>1. \E q, r \in Nat : q = Width \div TabStop /\ r = Width % TabStop /\ r < TabStop
                             /\ Width = q * TabStop + r
      BY Division, SizeAssumption
    <3>2. QED
      BY <3>1
  <2>2. Width = q * TabStop
    BY <2>1, SizeAssumption
  <2>3. QED
    BY <2>2
<1>2. PICK n \in Nat, r \in Nat : n = k \div TabStop /\ k = n * TabStop + r /\ r < TabStop
  BY Division, SizeAssumption
<1>3. n < q
  <2>1. SUFFICES ASSUME n >= q PROVE FALSE
    OBVIOUS
  <2>2. n * TabStop >= q * TabStop
    BY <2>1, SizeAssumption
  <2>3. n * TabStop \in Nat /\ q * TabStop \in Nat
    BY SizeAssumption
  <2>4. QED
    BY <2>2, <2>3, <1>1, <1>2
<1>4. (k + TabStop) \div TabStop = n + 1
  BY <1>2, NextQuotient, SizeAssumption
<1>5. (n + 1) * TabStop =< q * TabStop /\ (n + 1) * TabStop \in Nat
  BY <1>3, SizeAssumption
<1>6. QED
  BY <1>1, <1>4, <1>5, SizeAssumption

(* The two registers hold the address of every place on the screen.        *)
LEMMA TwoBytes ==
  ASSUME NEW k \in Screen, NEW high, NEW low, high = (k \div Byte) % Byte, low = k % Byte
  PROVE  /\ high \in 0 .. Byte - 1 /\ low \in 0 .. Byte - 1
         /\ high * Byte + low = k
<1>1. k \in Nat /\ k < Byte * Byte
  <2>1. Width * Height \in Nat /\ Byte * Byte \in Nat
    BY SizeAssumption
  <2>2. k \in Nat /\ k < Width * Height
    BY <2>1 DEF Screen
  <2>3. QED
    BY <2>1, <2>2, SizeAssumption
<1>2. PICK n \in Nat, r \in Nat : n = k \div Byte /\ r = k % Byte /\ r < Byte /\ k = n * Byte + r
  BY <1>1, Division, SizeAssumption
<1>3. n < Byte
  <2>1. SUFFICES ASSUME n >= Byte PROVE FALSE
    BY SizeAssumption
  <2>2. n * Byte >= Byte * Byte
    BY <2>1, SizeAssumption
  <2>3. n * Byte \in Nat /\ Byte * Byte \in Nat
    BY SizeAssumption
  <2>4. QED
    BY <2>2, <2>3, <1>1, <1>2
<1>4. high = n /\ low = r
  BY <1>2, <1>3, SmallRemainder, SizeAssumption
<1>5. QED
  BY <1>2, <1>3, <1>4, SizeAssumption
-------------------------------------------------------------------------------
(* The inductive invariant.                                                *)

LEMMA Facts ==
  /\ Width \in Nat /\ Height \in Nat /\ Width >= 2 /\ Height >= 2
  /\ Width * Height \in Nat /\ Width < Width * Height
  /\ 0 \in 0 .. Byte - 1
  /\ Width * (Height - 1) + Width = Width * Height
  /\ (Height - 1) * Width = Width * (Height - 1)
  /\ 0 < Width * (Height - 1) /\ Width * (Height - 1) \in Nat
<1>1. Width * Height \in Nat /\ Width * (Height - 1) \in Nat
  BY SizeAssumption
<1>2. Width * (Height - 1) + Width = Width * Height
  BY SizeAssumption
<1>3. (Height - 1) * Width = Width * (Height - 1)
  BY SizeAssumption
<1>4. Width * 1 =< Width * (Height - 1)
  BY SizeAssumption
<1>5. QED
  BY <1>1, <1>2, <1>3, <1>4, SizeAssumption

LEMMA InitInv == Init => IInv
<1>1. SUFFICES ASSUME Init PROVE IInv
  OBVIOUS
<1>2. PICK ch \in Letters : vga_buffer = [k \in Cells |-> ch]
  BY <1>1 DEF Init
<1>3. vga_buffer \in [Cells -> Printable]
  BY <1>2 DEF Printable
<1>4. text # Message
  BY <1>1 DEF Init, Running, Message
<1>5. TypeOK
  BY <1>1, <1>3, Facts DEF Init, TypeOK, Steps, Inputs
<1>6. QED
  BY <1>1, <1>4, <1>5, Facts DEF Init, IInv, InBounds, AtEdge, Registers

(* A step of vga_put that writes one cell, of a printable character.       *)
LEMMA StoreTyped ==
  ASSUME TypeOK, NEW k, NEW ch \in Printable, Store(k, ch)
  PROVE  vga_buffer' \in [Cells -> Printable]
BY DEF TypeOK, Store

LEMMA InitStep ==
  ASSUME IInv, vga_init PROVE IInv'
<1> USE DEF IInv, vga_init
<1>1. vga_buffer' \in [Cells -> Printable]
  BY DEF TypeOK, Cleared, Printable
<1>2. TypeOK'
  BY <1>1, Facts DEF TypeOK, Steps
<1>3. text # Message
  BY DEF InBounds
<1>4. InBounds'
  BY <1>3, Facts DEF InBounds, OnScreen, AtEdge, TypeOK
<1>5. 0 * Byte + 0 = 0 * Width + 0
  BY SizeAssumption
<1>6. Cursor' = 0 * Width + 0 /\ crtc'.hi = 0 /\ crtc'.lo = 0 /\ step' = "idle"
  BY DEF Cursor
<1>7. Registers'
  BY <1>5, <1>6 DEF Registers
<1>8. QED
  BY <1>2, <1>4, <1>7

(* The cursor when vga_put is called: on the screen, except for the first  *)
(* character of a panic, which is printable.                               *)
LEMMA PutFacts ==
  ASSUME IInv, vga_put
  PROVE  /\ text' \in {Running, <<"p", "LF", "CR">>, <<"LF", "CR">>, <<"CR">>, <<>>}
         /\ text' # Message
         /\ \/ OnScreen
            \/ c' = "[" /\ text' = Tail(Message) /\ panicked' /\ AtEdge
         /\ c' \in Inputs \union {"[", "p"}
         /\ Branch(c')
         /\ step = "idle" /\ i = 0
         /\ UNCHANGED <<attr, crtc, i>>
<1> USE DEF IInv, vga_put
<1>1. text \in {Running, Message, <<"p", "LF", "CR">>, <<"LF", "CR">>, <<"CR">>, <<>>}
  BY DEF TypeOK
<1>2. step = "idle" /\ i = 0 /\ (OnScreen \/ (text = Message /\ AtEdge))
  BY DEF InBounds
<1>3. CASE ~panicked
  <2>1. text = Running /\ text' = Running /\ c' \in Inputs
    BY <1>3 DEF panicked
  <2>2. Running # Message
    BY DEF Running, Message
  <2>3. QED
    BY <2>1, <2>2, <1>2
<1>4. CASE panicked
  <2>1. text # Running /\ text # <<>> /\ c' = Head(text) /\ text' = Tail(text)
    BY <1>4 DEF panicked
  <2>2. CASE text = Message
    <3>1. c' = "[" /\ text' = Tail(Message) /\ text' = <<"p", "LF", "CR">>
      BY <2>1, <2>2 DEF Message
    <3>2. text' # Running /\ text' # Message
      BY <3>1 DEF Running, Message
    <3>3. QED
      BY <3>1, <3>2, <1>2 DEF panicked
  <2>3. CASE text = <<"p", "LF", "CR">>
    BY <2>1, <2>3, <1>2 DEF Message, Inputs
  <2>4. CASE text = <<"LF", "CR">>
    BY <2>1, <2>4, <1>2 DEF Message, Inputs
  <2>5. CASE text = <<"CR">>
    BY <2>1, <2>5, <1>2 DEF Message, Inputs
  <2>6. QED
    BY <2>1, <2>2, <2>3, <2>4, <2>5, <1>1
<1>5. QED
  BY <1>3, <1>4

LEMMA PutStep ==
  ASSUME IInv, vga_put PROVE IInv'
<1> DEFINE First == c' = "[" /\ text' = Tail(Message) /\ panicked' /\ AtEdge
<1>1. /\ text' \in {Running, <<"p", "LF", "CR">>, <<"LF", "CR">>, <<"CR">>, <<>>}
      /\ text' # Message /\ c' \in Inputs \union {"[", "p"} /\ step = "idle" /\ i = 0
      /\ UNCHANGED <<attr, crtc, i>>
      /\ Branch(c') /\ (OnScreen \/ First)
  BY PutFacts
<1>2. x \in Nat /\ y \in Nat /\ x =< Width /\ y =< Height
  BY <1>1, Facts DEF IInv, TypeOK, OnScreen, AtEdge
<1>3. SUFFICES /\ x' \in 0 .. Width + 1 /\ y' \in 0 .. Height
               /\ vga_buffer' \in [Cells -> Printable]
               /\ ~panicked' => AtEdge'
               /\ \/ step' = "print_x" /\ (OnScreen' \/ (FirstChar' /\ AtEdge'))
                  \/ step' = "newline_y" /\ x' = 0 /\ y' < Height
                  \/ step' = "margin" /\ y' < Height
  <2>1. TypeOK'
    BY <1>1, <1>3 DEF IInv, TypeOK, Steps
  <2>2. InBounds'
    BY <1>1, <1>3 DEF InBounds
  <2>3. Registers'
    BY <1>1, <1>3 DEF Registers
  <2>4. QED
    BY <2>1, <2>2, <2>3 DEF IInv
<1>4. CASE c' \in Printable /\ PrintChar(c')
  <2>1. vga_buffer' \in [Cells -> Printable]
    BY <1>4, StoreTyped DEF PrintChar, IInv
  <2>2. x' = x /\ y' = y /\ step' = "print_x"
    BY <1>4 DEF PrintChar
  <2>3. OnScreen' \/ (FirstChar' /\ AtEdge')
    BY <2>2, <1>1 DEF OnScreen, FirstChar, AtEdge
  <2>4. ~panicked' => AtEdge'
    BY <2>2, <2>3, <1>2, Facts DEF OnScreen, AtEdge, FirstChar
  <2>5. QED
    BY <2>1, <2>2, <2>3, <2>4, <1>2, Facts
<1>5. CASE c' \in {"BS", "HT", "CR", "LF", "BEL"} /\ UNCHANGED vga_buffer
  <2>1. OnScreen
    BY <1>1, <1>5
  <2>2. x < Width /\ y < Height /\ UNCHANGED vga_buffer
    BY <2>1, <1>5 DEF OnScreen
  <2>3. ((x + TabStop) \div TabStop) * TabStop \in 0 .. Width
    BY <2>2, <1>2, NextStop
  <2>4. c' \notin Printable
    BY <1>5, LettersAssumption DEF Printable, Blank, Garbage
  <2>5. y' \in 0 .. Height /\ x' \in 0 .. Width + 1
    BY <1>1, <1>2, <2>2, <2>3, <2>4, Facts
       DEF Branch, Backspace, Tab, CarriageReturn, NewLine, IgnoreChar
  <2>6. \/ step' = "newline_y" /\ x' = 0 /\ y' < Height
        \/ step' = "margin" /\ y' < Height
    BY <1>1, <2>2, <2>4 DEF Branch, Backspace, Tab, CarriageReturn, NewLine, IgnoreChar
  <2>7. AtEdge'
    BY <2>5, <2>6, <1>2, Facts, <1>1, <2>2, <2>3, <2>4
       DEF AtEdge, Branch, Backspace, Tab, CarriageReturn, NewLine, IgnoreChar
  <2>8. vga_buffer' \in [Cells -> Printable]
    BY <2>2 DEF IInv, TypeOK
  <2>9. QED
    BY <2>5, <2>6, <2>7, <2>8
<1>6. QED
  BY <1>1, <1>4, <1>5 DEF Branch, Backspace, Tab, CarriageReturn, NewLine, IgnoreChar

LEMMA CursorSteps ==
  ASSUME IInv, print_x \/ newline_y \/ margin \/ margin_y
  PROVE  IInv'
<1> USE DEF IInv
<1>1. text # Message /\ text' = text /\ i' = i /\ c' = c /\ attr' = attr /\ crtc' = crtc
      /\ vga_buffer' = vga_buffer
  BY DEF InBounds, print_x, newline_y, margin, WrapAt, margin_y, Same
<1>2. x \in Nat /\ y \in Nat /\ x =< Width + 1 /\ y =< Height
  BY Facts DEF TypeOK
<1>3. SUFFICES /\ x' \in 0 .. Width + 1 /\ y' \in 0 .. Height
               /\ \/ step' = "margin" /\ (x' >= Width => y' < Height)
                  \/ step' = "margin_y" /\ x' = 0 /\ y' < Height
                  \/ step' = "vga_scroll" /\ x' < Width
               /\ i = 0 /\ (~panicked' => AtEdge')
  <2>1. TypeOK'
    BY <1>1, <1>3 DEF TypeOK, Steps
  <2>2. InBounds'
    BY <1>1, <1>3 DEF InBounds
  <2>3. Registers'
    BY <1>1, <1>3 DEF Registers
  <2>4. QED
    BY <2>1, <2>2, <2>3
<1>4. CASE print_x
  BY <1>1, <1>2, <1>4, Facts DEF print_x, InBounds, OnScreen, AtEdge, panicked, FirstChar
<1>5. CASE newline_y
  BY <1>1, <1>2, <1>5, Facts DEF newline_y, InBounds, AtEdge
<1>6. CASE margin
  BY <1>1, <1>2, <1>6, Facts DEF margin, WrapAt, InBounds, AtEdge, panicked
<1>7. CASE margin_y
  BY <1>1, <1>2, <1>7, Facts DEF margin_y, InBounds, AtEdge
<1>8. QED
  BY <1>4, <1>5, <1>6, <1>7

(* While vga_scroll runs the row is the one below the screen: it moves the *)
(* text by one line, from cells of the screen to cells of the screen.      *)
LEMMA ScrollFacts ==
  ASSUME IInv, step \in {"memcpy", "last_line", "last_row"}
  PROVE  /\ temp = 1 /\ temp * Width = Width /\ Kept = Width * (Height - 1)
         /\ i \in Nat
         /\ step = "memcpy" => i \in Screen /\ i + Width \in Screen
         /\ step = "last_line" => Kept + i \in Screen
<1>1. y = Height /\ i \in 0 .. Width * Height
  BY DEF IInv, InBounds, TypeOK
<1>2. temp = 1
  BY <1>1, Facts DEF temp
<1>3. Kept = Width * (Height - 1) /\ temp * Width = Width
  BY <1>2, Facts DEF Kept
<1>4. CASE step = "memcpy"
  BY <1>1, <1>2, <1>3, <1>4, Facts DEF IInv, InBounds, Screen
<1>5. CASE step = "last_line"
  BY <1>1, <1>2, <1>3, <1>5, Facts DEF IInv, InBounds, Screen
<1>6. QED
  BY <1>1, <1>2, <1>3, <1>4, <1>5, Facts

LEMMA ScrollSteps ==
  ASSUME IInv, vga_scroll \/ memcpy \/ last_line \/ last_row
  PROVE  IInv'
<1> USE DEF IInv
<1>1. text # Message /\ x' = x /\ text' = text /\ c' = c /\ attr' = attr /\ crtc' = crtc
  BY DEF InBounds, vga_scroll, memcpy, last_line, last_row, LeaveAt, Same
<1>2. x \in Nat /\ x < Width /\ y \in Nat /\ y =< Height /\ i \in Nat /\ i =< Width * Height
  BY Facts DEF TypeOK, InBounds, vga_scroll, memcpy, last_line, last_row, LeaveAt
<1>3. SUFFICES /\ y' \in 0 .. Height /\ i' \in 0 .. Width * Height
               /\ vga_buffer' \in [Cells -> Printable]
               /\ \/ step' = "memcpy" /\ y' = Height /\ i' < Width * (Height - 1)
                  \/ step' = "last_line" /\ y' = Height /\ i' < Width
                  \/ step' = "last_row" /\ y' = Height /\ i' = 0
                  \/ step' = "vga_move_cursor" /\ y' < Height /\ i' = 0
               /\ ~panicked' => AtEdge'
  <2>1. TypeOK'
    BY <1>1, <1>3 DEF TypeOK, Steps
  <2>2. InBounds'
    BY <1>1, <1>2, <1>3, Facts DEF InBounds, OnScreen
  <2>3. Registers'
    BY <1>1, <1>3 DEF Registers
  <2>4. QED
    BY <2>1, <2>2, <2>3
<1>4. CASE vga_scroll
  BY <1>1, <1>2, <1>4, Facts DEF vga_scroll, TypeOK, InBounds, AtEdge, panicked
<1>5. CASE memcpy
  <2>1. step = "memcpy" /\ y = Height
    BY <1>5 DEF memcpy, InBounds
  <2>2. vga_buffer[i + Width] \in Printable
    BY <2>1, ScrollFacts, ScreenInCells DEF TypeOK
  <2>3. vga_buffer' \in [Cells -> Printable]
    BY <1>5, <2>1, <2>2, ScrollFacts, StoreTyped DEF memcpy
  <2>4. QED
    BY <1>1, <1>2, <1>5, <2>1, <2>3, ScrollFacts, Facts DEF memcpy, InBounds, AtEdge, panicked
<1>6. CASE last_line
  <2>1. step = "last_line" /\ y = Height
    BY <1>6 DEF last_line, InBounds
  <2>2. vga_buffer' \in [Cells -> Printable]
    BY <1>6, StoreTyped DEF last_line, Printable
  <2>3. QED
    BY <1>1, <1>2, <1>6, <2>1, <2>2, Facts DEF last_line, InBounds, AtEdge, panicked
<1>7. CASE last_row
  BY <1>1, <1>2, <1>7, Facts DEF last_row, LeaveAt, Same, TypeOK, InBounds, AtEdge, panicked
<1>8. QED
  BY <1>4, <1>5, <1>6, <1>7

(* The two halves of the address reach the two registers.                  *)
LEMMA MoveCursorStep ==
  ASSUME IInv, vga_move_cursor PROVE IInv'
<1> USE DEF IInv
<1>1. /\ step = "vga_move_cursor" /\ text # Message /\ OnScreen /\ i \in 0 .. 3
      /\ UNCHANGED <<x, y, attr, vga_buffer, text>>
  BY Facts DEF vga_move_cursor, InBounds, TypeOK
<1>2. x \in Nat /\ y \in Nat
  BY Facts DEF TypeOK
<1>3. Cursor \in Screen
  BY <1>1, <1>2, CellOnScreen DEF OnScreen, Cursor
<1>4. (Cursor \div Byte) % Byte \in 0 .. Byte - 1 /\ Cursor % Byte \in 0 .. Byte - 1
  BY <1>3, TwoBytes
<1>5. Cursor' = Cursor
  BY <1>1 DEF Cursor
<1>6. crtc \in [index : {0, 14, 15}, hi : 0 .. Byte - 1, lo : 0 .. Byte - 1]
  BY DEF TypeOK
<1>7. /\ crtc' \in [index : {0, 14, 15}, hi : 0 .. Byte - 1, lo : 0 .. Byte - 1]
      /\ i = 0 => crtc'.index = 14
      /\ i = 1 => crtc'.index = 14 /\ crtc'.hi = (Cursor \div Byte) % Byte
      /\ i = 2 => crtc'.index = 15 /\ crtc'.hi = (Cursor \div Byte) % Byte
      /\ i = 3 => crtc'.hi * Byte + crtc'.lo = Cursor
  <2>1. CASE i = 0
    BY <1>1, <1>6, <2>1 DEF vga_move_cursor, Outb, Select
  <2>2. CASE i = 1
    <3>1. crtc.index = 14 /\ crtc' = Write((Cursor \div Byte) % Byte)
      BY <1>1, <2>2 DEF vga_move_cursor, Outb, Registers
    <3>2. QED
      BY <1>4, <1>6, <2>2, <3>1 DEF Write
  <2>3. CASE i = 2
    BY <1>1, <1>6, <2>3 DEF vga_move_cursor, Outb, Select, Registers
  <2>4. CASE i = 3
    <3>1. crtc.index = 15 /\ crtc' = Write(Cursor % Byte) /\ crtc.hi = (Cursor \div Byte) % Byte
      BY <1>1, <2>4 DEF vga_move_cursor, Outb, Registers
    <3>2. crtc' = [crtc EXCEPT !.lo = Cursor % Byte]
      BY <3>1 DEF Write
    <3>3. crtc'.lo = Cursor % Byte /\ crtc'.hi = crtc.hi
      BY <1>6, <3>2
    <3>4. crtc'.hi * Byte + crtc'.lo = Cursor
      BY <1>3, <3>1, <3>3, TwoBytes
    <3>5. QED
      BY <1>4, <1>6, <2>4, <3>2, <3>4
  <2>5. QED
    BY <1>1, <2>1, <2>2, <2>3, <2>4
<1>8. \/ i < 3 /\ i' = i + 1 /\ step' = "vga_move_cursor" /\ c' = c
      \/ i = 3 /\ i' = 0 /\ step' = "idle" /\ c' = None
  BY <1>1 DEF vga_move_cursor
<1>9. TypeOK'
  BY <1>1, <1>7, <1>8, Facts DEF TypeOK, Steps
<1>10. InBounds'
  BY <1>1, <1>2, <1>8, Facts DEF InBounds, OnScreen, AtEdge
<1>11. Registers'
  BY <1>1, <1>5, <1>7, <1>8 DEF Registers
<1>12. QED
  BY <1>9, <1>10, <1>11

LEMMA PanicStep ==
  ASSUME IInv, panic PROVE IInv'
<1> USE DEF IInv, panic
<1>1. text' = Message /\ step' = "idle" /\ i' = 0 /\ UNCHANGED <<x, y, attr, vga_buffer, crtc>>
  OBVIOUS
<1>2. AtEdge
  BY Facts DEF InBounds, TypeOK, OnScreen, AtEdge, panicked, FirstChar
<1>3. TypeOK'
  BY <1>1, Facts DEF TypeOK, Steps
<1>4. InBounds'
  BY <1>1, <1>2 DEF InBounds, AtEdge
<1>5. Registers'
  BY <1>1 DEF Registers
<1>6. QED
  BY <1>3, <1>4, <1>5

LEMMA NextInv == IInv /\ [Next]_vars => IInv'
<1>1. SUFFICES ASSUME IInv, [Next]_vars PROVE IInv'
  OBVIOUS
<1>2. CASE UNCHANGED vars
  BY <1>1, <1>2 DEF vars, IInv, TypeOK, InBounds, Registers, OnScreen, AtEdge, FirstChar, panicked,
     Cursor
<1>3. CASE vga_put
  BY <1>1, <1>3, PutStep
<1>4. CASE Step
  BY <1>1, <1>4, InitStep, CursorSteps, ScrollSteps, MoveCursorStep DEF Step
<1>5. CASE panic
  BY <1>1, <1>5, PanicStep
<1>6. CASE hlt
  BY <1>2, <1>6 DEF hlt
<1>7. QED
  BY <1>1, <1>2, <1>3, <1>4, <1>5, <1>6 DEF Next

(* Every state of the terminal satisfies the inductive invariant: what     *)
(* vga_put and vga_scroll rely on holds step by step, and after a panic    *)
(* (vga.c:31-118).                                                         *)
THEOREM InvariantHolds == Spec => []IInv
<1>1. Init => IInv
  BY InitInv
<1>2. IInv /\ [Next]_vars => IInv'
  BY NextInv
<1>3. QED
  BY <1>1, <1>2, PTL DEF Spec

(* Between two calls the hardware cursor is where the next character goes, *)
(* on the screen, for every size of the screen (vga.c:50-57).              *)
THEOREM CursorIsFollowed == Spec => []CursorFollows
<1>1. IInv => CursorFollows
  <2>1. SUFFICES ASSUME IInv, step = "idle", text # Message
                 PROVE  crtc.hi * Byte + crtc.lo = Cursor /\ Cursor \in Screen /\ x < Width
    BY DEF CursorFollows
  <2>2. OnScreen /\ x \in Nat /\ y \in Nat
    BY <2>1, Facts DEF IInv, InBounds, TypeOK
  <2>3. Cursor \in Screen
    BY <2>2, CellOnScreen DEF OnScreen, Cursor
  <2>4. QED
    BY <2>1, <2>2, <2>3 DEF IInv, Registers, OnScreen
<1>2. QED
  BY <1>1, InvariantHolds, PTL

LEMMA StoreElsewhere ==
  ASSUME TypeOK, NEW k, NEW ch, Store(k, ch), NEW other \in Cells, other # k
  PROVE  vga_buffer'[other] = vga_buffer[other]
BY DEF TypeOK, Store

LEMMA PutWrites ==
  ASSUME IInv, vga_put, NEW k \in Cells \ Screen, vga_buffer'[k] # vga_buffer[k]
  PROVE  panicked /\ k = Width * Height
<1>1. c' \in Printable /\ PrintChar(c')
  BY PutFacts DEF Branch, Backspace, Tab, CarriageReturn, NewLine, IgnoreChar
<1>2. k = Cursor
  BY <1>1, StoreElsewhere DEF PrintChar, IInv
<1>3. x \in Nat /\ y \in Nat
  BY Facts DEF IInv, TypeOK
<1>4. ~OnScreen
  BY <1>2, <1>3, CellOnScreen DEF OnScreen, Cursor
<1>5. panicked' /\ AtEdge
  BY <1>4, PutFacts
<1>6. panicked
  BY <1>5 DEF panicked, vga_put
<1>7. Cursor \in 0 .. Width * Height
  BY <1>3, <1>5, CellAtEdge DEF AtEdge, Cursor
<1>8. QED
  BY <1>2, <1>6, <1>7, Facts DEF Screen

(* vga_put writes the cells of the screen and no other memory; a panic in  *)
(* the middle of it, at most the cell behind the last (vga.c:39-44, 105).  *)
THEOREM StaysOnScreen == Spec => WritesOnScreen
<1> DEFINE Allowed == \A k \in Cells \ Screen :
      vga_buffer'[k] # vga_buffer[k] => panicked /\ k = Width * Height
<1>1. IInv /\ [Next]_vars => [Allowed]_vars
  <2>1. SUFFICES ASSUME IInv, Next, NEW k \in Cells \ Screen, vga_buffer'[k] # vga_buffer[k]
                 PROVE  panicked /\ k = Width * Height
    BY DEF Allowed
  <2>2. CASE vga_put
    BY <2>1, <2>2, PutWrites
  <2>3. CASE vga_init
    BY <2>1, <2>3 DEF vga_init
  <2>4. CASE memcpy
    <3>1. step = "memcpy" /\ Store(i, vga_buffer[i + temp * Width])
      BY <2>4 DEF memcpy
    <3>2. i \in Screen
      BY <2>1, <3>1, ScrollFacts
    <3>3. QED
      BY <2>1, <3>1, <3>2, StoreElsewhere DEF IInv
  <2>5. CASE last_line
    <3>1. step = "last_line" /\ Store(Kept + i, Blank)
      BY <2>5 DEF last_line
    <3>2. Kept + i \in Screen
      BY <2>1, <3>1, ScrollFacts
    <3>3. QED
      BY <2>1, <3>1, <3>2, StoreElsewhere DEF IInv
  <2>6. CASE UNCHANGED vga_buffer
    BY <2>1, <2>6
  <2>7. QED
    BY <2>1, <2>2, <2>3, <2>4, <2>5, <2>6
       DEF Next, Step, print_x, newline_y, margin, WrapAt, margin_y, vga_scroll, last_row, LeaveAt,
           vga_move_cursor, panic, hlt, vars
<1>2. QED
  BY <1>1, InvariantHolds, PTL DEF Spec, WritesOnScreen

-------------------------------------------------------------------------------
(***************************************************************************)
(* vga.c implements Terminal.                                              *)
(***************************************************************************)
(* While the last line is cleared, what has been cleared of it is blank;   *)
(* vga_init finds no colour to mix with the blanks; nobody calls vga_put   *)
(* between two calls.                                                      *)
Bottom == Width * (Height - 1)

Cleaned ==
  /\ step = "last_line" => \A k \in Bottom .. Bottom + i - 1 : vga_buffer[k] = Blank
  /\ step = "last_row" => \A k \in Bottom .. Width * Height - 1 : vga_buffer[k] = Blank

Quiet ==
  /\ step = "vga_init" => attr = 0
  /\ step \in {"vga_init", "idle"} => c = None

(* What the refinement rests on holds before vga_init.                     *)
LEMMA InitQuiet == Init => Cleaned /\ Quiet
BY DEF Init, Cleaned, Quiet

(* vga_put is called once at a time, and only vga_init precedes it         *)
(* (vga.c:120-126).                                                        *)
LEMMA QuietStep ==
  ASSUME IInv, Quiet, [Next]_vars PROVE Quiet'
<1>1. CASE vga_put
  BY <1>1 DEF vga_put, Branch, Backspace, Tab, CarriageReturn, NewLine, PrintChar, IgnoreChar, Quiet
<1>2. CASE vga_init \/ print_x \/ newline_y \/ margin \/ margin_y
  BY <1>2 DEF vga_init, print_x, newline_y, margin, WrapAt, margin_y, Same, Quiet
<1>3. CASE vga_scroll \/ memcpy \/ last_line \/ last_row
  BY <1>3 DEF vga_scroll, memcpy, last_line, last_row, LeaveAt, Same, Quiet
<1>4. CASE vga_move_cursor
  BY <1>4 DEF vga_move_cursor, Quiet
<1>5. CASE panic
  BY <1>5 DEF panic, Quiet
<1>6. CASE hlt \/ UNCHANGED vars
  BY <1>6 DEF hlt, vars, Quiet
<1>7. QED
  BY <1>1, <1>2, <1>3, <1>4, <1>5, <1>6 DEF Next, Step

(* The last line is cleared cell by cell (vga.c:40-45).                    *)
LEMMA CleanedStep ==
  ASSUME IInv, Cleaned, [Next]_vars PROVE Cleaned'
<1>1. CASE vga_put
  BY <1>1 DEF vga_put, Branch, Backspace, Tab, CarriageReturn, NewLine, PrintChar, IgnoreChar, Cleaned
<1>2. CASE vga_init \/ print_x \/ newline_y \/ margin \/ margin_y \/ vga_scroll
  BY <1>2 DEF vga_init, print_x, newline_y, margin, WrapAt, margin_y, vga_scroll, Cleaned
<1>3. CASE memcpy
  <2>1. step' = "memcpy" \/ (step' = "last_line" /\ i' = 0)
    BY <1>3 DEF memcpy
  <2>2. Bottom \in Nat
    BY Facts DEF Bottom
  <2>3. QED
    BY <2>1, <2>2 DEF Cleaned
<1>4. CASE last_line
  <2>1. /\ step = "last_line" /\ Store(Kept + i, Blank)
        /\ i' = (IF i + 1 < Width THEN i + 1 ELSE 0)
        /\ step' = (IF i + 1 < Width THEN "last_line" ELSE "last_row")
    BY <1>4 DEF last_line
  <2>2. Kept = Bottom /\ Kept + i \in Screen /\ i \in Nat
    BY <2>1, ScrollFacts DEF Bottom
  <2>3. Bottom \in Nat /\ Bottom + Width = Width * Height /\ Width \in Nat
    BY Facts DEF Bottom
  <2>4. ASSUME NEW k \in Bottom .. Bottom + i PROVE vga_buffer'[k] = Blank
    <3>1. k \in Cells
      BY <2>2, <2>3, ScreenInCells DEF Screen
    <3>2. CASE k = Bottom + i
      BY <2>1, <2>2, <3>1, <3>2 DEF Store, IInv, TypeOK
    <3>3. CASE k # Bottom + i
      <4>1. vga_buffer[k] = Blank
        BY <2>1, <2>2, <2>3, <3>3 DEF Cleaned
      <4>2. QED
        BY <2>1, <2>2, <3>1, <3>3, <4>1, StoreElsewhere DEF IInv
    <3>4. QED
      BY <3>2, <3>3
  <2>5. CASE i + 1 < Width
    BY <2>1, <2>2, <2>3, <2>4, <2>5 DEF Cleaned
  <2>6. CASE ~(i + 1 < Width)
    <3>1. i < Width
      BY <2>1 DEF IInv, InBounds
    <3>2. Width * Height - 1 = Bottom + i
      BY <2>2, <2>3, <2>6, <3>1
    <3>3. QED
      BY <2>1, <2>4, <2>6, <3>2 DEF Cleaned
  <2>7. QED
    BY <2>5, <2>6
<1>5. CASE last_row \/ vga_move_cursor \/ panic
  BY <1>5 DEF last_row, LeaveAt, vga_move_cursor, panic, Cleaned
<1>6. CASE hlt \/ UNCHANGED vars
  BY <1>6 DEF hlt, vars, Cleaned
<1>7. QED
  BY <1>1, <1>2, <1>3, <1>4, <1>5, <1>6 DEF Next, Step


(* The inductive invariant of the refinement: a scroll leaves an empty     *)
(* last line and the calls of vga_put do not nest (vga.c:40-45, 79-126).   *)
THEOREM ScreenInvariant == Spec => [](IInv /\ Cleaned /\ Quiet)
<1>1. Init => IInv /\ Cleaned /\ Quiet
  BY InitInv, InitQuiet
<1>2. (IInv /\ Cleaned /\ Quiet) /\ [Next]_vars => (IInv /\ Cleaned /\ Quiet)'
  BY NextInv, QuietStep, CleanedStep
<1>3. QED
  BY <1>1, <1>2, PTL DEF Spec

(* The terminal that T shows, part by part, and the text on it as a        *)
(* function of the step s, the row e where that step ends, the memory b of *)
(* the card and the loop index j.                                          *)
Phase == IF step = "vga_init" THEN "off" ELSE IF panicked THEN "crashed" ELSE "on"
Row   == IF EndY < Height THEN EndY ELSE Height - 1
Col   == IF Wraps THEN 0 ELSE EndX
Lines == [r \in 0 .. Height - 1 |-> [k \in 0 .. Width - 1 |-> EndCell(r * Width + k)]]

Scrolling == {"memcpy", "last_line", "last_row"}

CellOf(s, e, b, j, n) ==
  IF e < Height THEN b[n]
  ELSE IF n >= Bottom THEN Blank
  ELSE IF s \in {"last_line", "last_row"} \/ (s = "memcpy" /\ n < j) THEN b[n]
  ELSE b[n + Width]

LinesOf(s, e, b, j) ==
  [r \in 0 .. Height - 1 |-> [k \in 0 .. Width - 1 |-> CellOf(s, e, b, j, r * Width + k)]]

Grid(b) == [r \in 0 .. Height - 1 |-> [k \in 0 .. Width - 1 |-> b[r * Width + k]]]

BlankLine == [k \in 0 .. Width - 1 |-> Blank]

(* The text that T shows is this one, before a step and after it.          *)
LEMMA LinesAreOf ==
  /\ Lines = LinesOf(step, EndY, vga_buffer, i)
  /\ Lines' = LinesOf(step', EndY', vga_buffer', i')
BY DEF Lines, LinesOf, EndCell, CellOf, Bottom

(* A row and a column name one cell; those of the last row are the cells   *)
(* from Bottom on.                                                         *)
LEMMA Place ==
  ASSUME NEW r \in 0 .. Height - 1, NEW k \in 0 .. Width - 1
  PROVE  /\ r * Width + k \in Screen /\ r * Width + k \in Int
         /\ r * Width + k >= Bottom <=> r = Height - 1
         /\ (r + 1) * Width + k = r * Width + k + Width
<1>1. r \in Nat /\ k \in Nat /\ r < Height /\ k < Width
  BY Facts
<1>2. r * Width + k \in Screen
  BY <1>1, CellOnScreen
<1>3. (r + 1) * Width = r * Width + Width /\ r * Width \in Nat
  BY <1>1, Facts
<1>4. CASE r = Height - 1
  BY <1>1, <1>2, <1>3, <1>4, Facts DEF Bottom
<1>5. CASE r # Height - 1
  <2>1. r + 1 =< Height - 1
    BY <1>1, <1>5, Facts
  <2>2. (r + 1) * Width =< (Height - 1) * Width
    BY <1>1, <2>1, Facts
  <2>3. QED
    BY <1>1, <1>2, <1>3, <1>5, <2>2, Facts DEF Bottom
<1>6. QED
  BY <1>4, <1>5

(* No two places are one cell of the memory.                               *)
LEMMA OnePlace ==
  ASSUME NEW r \in 0 .. Height - 1, NEW k \in 0 .. Width - 1,
         NEW r2 \in 0 .. Height - 1, NEW k2 \in 0 .. Width - 1,
         r * Width + k = r2 * Width + k2
  PROVE  r = r2 /\ k = k2
<1>1. /\ r \in Nat /\ k \in Nat /\ k < Width /\ r2 \in Nat /\ k2 \in Nat /\ k2 < Width
      /\ Width \in Nat /\ r * Width \in Nat /\ r2 * Width \in Nat
  BY Facts
<1>2. CASE r < r2
  <2>1. (r + 1) * Width =< r2 * Width
    BY <1>1, <1>2
  <2>2. (r + 1) * Width = r * Width + Width
    BY <1>1
  <2>3. QED
    BY <1>1, <2>1, <2>2
<1>3. CASE r2 < r
  <2>1. (r2 + 1) * Width =< r * Width
    BY <1>1, <1>3
  <2>2. (r2 + 1) * Width = r2 * Width + Width
    BY <1>1
  <2>3. QED
    BY <1>1, <2>1, <2>2
<1>4. CASE r = r2
  BY <1>1, <1>4
<1>5. QED
  BY <1>1, <1>2, <1>3, <1>4

(* While the text need not move it is the memory of the card.              *)
LEMMA LinesAbove ==
  ASSUME NEW s, NEW e, NEW b, NEW j, e < Height
  PROVE  LinesOf(s, e, b, j) = Grid(b)
BY DEF LinesOf, CellOf, Grid

(* When the text has to move, it is that memory one line further, above an *)
(* empty line.                                                             *)
LEMMA LinesBelow ==
  ASSUME NEW s, s \notin Scrolling, NEW e, NEW b, NEW j, ~(e < Height)
  PROVE  LinesOf(s, e, b, j)
           = [r \in 0 .. Height - 1 |-> IF r = Height - 1 THEN BlankLine ELSE Grid(b)[r + 1]]
<1>1. ASSUME NEW r \in 0 .. Height - 1, r = Height - 1
      PROVE  [k \in 0 .. Width - 1 |-> CellOf(s, e, b, j, r * Width + k)] = BlankLine
  <2>1. ASSUME NEW k \in 0 .. Width - 1 PROVE CellOf(s, e, b, j, r * Width + k) = Blank
    BY <1>1, Place DEF CellOf
  <2>2. QED
    BY <2>1 DEF BlankLine
<1>2. ASSUME NEW r \in 0 .. Height - 1, r # Height - 1
      PROVE  [k \in 0 .. Width - 1 |-> CellOf(s, e, b, j, r * Width + k)] = Grid(b)[r + 1]
  <2>1. ASSUME NEW k \in 0 .. Width - 1
        PROVE  CellOf(s, e, b, j, r * Width + k) = b[(r + 1) * Width + k]
    BY <1>2, <2>1, Place DEF CellOf, Scrolling
  <2>2. r + 1 \in 0 .. Height - 1
    BY <1>2, Facts
  <2>3. Grid(b)[r + 1] = [k \in 0 .. Width - 1 |-> b[(r + 1) * Width + k]]
    BY <2>2 DEF Grid
  <2>4. QED
    BY <2>1, <2>3
<1>3. QED
  BY <1>1, <1>2 DEF LinesOf

(* The same text, cell by cell.                                            *)
LEMMA SameLines ==
  ASSUME NEW s, NEW e, NEW b, NEW j, NEW s2, NEW e2, NEW b2, NEW j2,
         \A n \in Screen : CellOf(s, e, b, j, n) = CellOf(s2, e2, b2, j2, n)
  PROVE  LinesOf(s, e, b, j) = LinesOf(s2, e2, b2, j2)
<1>1. ASSUME NEW r \in 0 .. Height - 1, NEW k \in 0 .. Width - 1
      PROVE  CellOf(s, e, b, j, r * Width + k) = CellOf(s2, e2, b2, j2, r * Width + k)
  BY Place
<1>2. QED
  BY <1>1 DEF LinesOf

(* A character stored at the cursor is a character put on its line.        *)
Put(g, r, k, ch) == [g EXCEPT ![r][k] = ch]

Stored(b, b2, r, k, ch) ==
  /\ b \in [Cells -> Printable] /\ r \in 0 .. Height - 1 /\ k \in 0 .. Width - 1
  /\ \A m \in Cells : b2[m] = IF m = r * Width + k THEN ch ELSE b[m]

LEMMA GridStore ==
  ASSUME NEW b, NEW b2, NEW r, NEW k, NEW ch, Stored(b, b2, r, k, ch)
  PROVE  Grid(b2) = Put(Grid(b), r, k, ch)
<1> DEFINE n    == r * Width + k
           line == [Grid(b)[r] EXCEPT ![k] = ch]
<1>0. b \in [Cells -> Printable] /\ r \in 0 .. Height - 1 /\ k \in 0 .. Width - 1
  BY DEF Stored
<1>1. ASSUME NEW m \in Screen PROVE b2[m] = IF m = n THEN ch ELSE b[m]
  BY <1>1, ScreenInCells DEF Stored
<1>2. line = [q \in 0 .. Width - 1 |-> IF q = k THEN ch ELSE b[r * Width + q]]
  BY <1>0 DEF Grid
<1>3. ASSUME NEW q \in 0 .. Width - 1
      PROVE  b2[r * Width + q] = IF q = k THEN ch ELSE b[r * Width + q]
  <2>1. r * Width + q \in Screen
    BY <1>0, Place
  <2>2. r * Width + q = n <=> q = k
    BY <1>0, OnePlace
  <2>3. QED
    BY <1>1, <2>1, <2>2
<1>4. Grid(b2)[r] = line
  BY <1>0, <1>2, <1>3 DEF Grid
<1>5. ASSUME NEW p \in 0 .. Height - 1, p # r
      PROVE  Grid(b2)[p] = Grid(b)[p]
  <2>1. ASSUME NEW q \in 0 .. Width - 1 PROVE b2[p * Width + q] = b[p * Width + q]
    <3>1. p * Width + q \in Screen
      BY <1>0, Place
    <3>2. p * Width + q # n
      BY <1>0, <1>5, OnePlace
    <3>3. QED
      BY <1>1, <3>1, <3>2
  <2>2. QED
    BY <2>1 DEF Grid
<1>6. [Grid(b) EXCEPT ![r] = line]
        = [p \in 0 .. Height - 1 |-> IF p = r THEN line ELSE Grid(b)[p]]
  BY DEF Grid
<1>7. Grid(b2) = [p \in 0 .. Height - 1 |-> Grid(b2)[p]]
  BY DEF Grid
<1>8. Grid(b2) = [Grid(b) EXCEPT ![r] = line]
  <2> HIDE DEF line
  <2>1. \A p \in 0 .. Height - 1 : Grid(b2)[p] = IF p = r THEN line ELSE Grid(b)[p]
    BY <1>4, <1>5
  <2>2. QED
    BY <1>6, <1>7, <2>1
<1>9. QED
  BY <1>8 DEF Put

(***************************************************************************)
(* The actions of Terminal in these terms.                                 *)
(***************************************************************************)
(* The cursor is about to move to line r, column k.                        *)
Below(r, k) == IF k >= Width THEN r + 1 ELSE r
Turned(ls)  == [r \in 0 .. Height - 1 |-> IF r = Height - 1 THEN BlankLine ELSE ls[r + 1]]

MovesTo(ls, r, k) ==
  /\ Col' = IF k >= Width THEN 0 ELSE k
  /\ \/ Below(r, k) < Height /\ Row' = Below(r, k) /\ Lines' = ls
     \/ Below(r, k) = Height /\ Row' = Height - 1 /\ Lines' = Turned(ls)

Accepts(ch) == Phase = "on" /\ Phase' = Phase /\ c = None /\ c' = ch

(* A printable character.                                                  *)
LEMMA Types ==
  ASSUME NEW ch \in Letters \union {Blank}, Accepts(ch),
         MovesTo([Lines EXCEPT ![Row][Col] = ch], Row, Col + 1)
  PROVE  T!Next
<1>1. T!Type(ch)
  BY DEF T!Type, T!Accept, T!MoveTo, T!EmptyLine, Accepts, MovesTo, Below, Turned, BlankLine,
         Phase, Lines, Row, Col
<1>2. QED
  BY <1>1 DEF T!Next

(* The end of a line, its start, the backspace, the bell.                  *)
LEMMA Moves ==
  ASSUME \/ Accepts("LF") /\ MovesTo(Lines, Row + 1, 0)
         \/ Accepts("CR") /\ MovesTo(Lines, Row, 0)
         \/ Accepts("BS") /\ MovesTo(Lines, Row, IF Col > 0 THEN Col - 1 ELSE Col)
         \/ Accepts("BEL") /\ MovesTo(Lines, Row, Col)
  PROVE  T!Next
<1>1. T!NewLine \/ T!HomeColumn \/ T!Backspace \/ T!Ignore
  BY DEF T!NewLine, T!HomeColumn, T!Backspace, T!Ignore, T!Accept, T!MoveTo, T!EmptyLine, Accepts,
         MovesTo, Below, Turned, BlankLine, Phase, Lines, Row, Col
<1>2. QED
  BY <1>1 DEF T!Next

(* The tabulator.                                                          *)
LEMMA Tabulates ==
  ASSUME Accepts("HT"), NEW stop \in Col + 1 .. Col + TabStop, stop % TabStop = 0,
         MovesTo(Lines, Row, stop)
  PROVE  T!Next
<1>1. T!Tabulate
  BY DEF T!Tabulate, T!Accept, T!MoveTo, T!EmptyLine, Accepts, MovesTo, Below, Turned, BlankLine,
         Phase, Lines, Row, Col
<1>2. QED
  BY <1>1 DEF T!Next

(* The screen is cleared.                                                  *)
LEMMA Clears ==
  ASSUME Phase = "off", Phase' = "on", Lines' = [r \in 0 .. Height - 1 |-> BlankLine],
         Row' = 0, Col' = 0, c' = c
  PROVE  T!Next
<1>1. T!Clear
  BY DEF T!Clear, T!EmptyLine, BlankLine, Phase, Lines, Row, Col
<1>2. QED
  BY <1>1 DEF T!Next

(* A call returns.                                                         *)
LEMMA Finishes ==
  ASSUME Phase = "on", Phase' = Phase, Lines' = Lines, Row' = Row, Col' = Col, c' = None
  PROVE  [T!Next]_T!vars
<1>1. CASE c = None
  BY <1>1 DEF T!vars, Phase, Lines, Row, Col
<1>2. CASE c # None
  <2>1. T!Done
    BY <1>2 DEF T!Done, Phase, Lines, Row, Col
  <2>2. QED
    BY <2>1 DEF T!Next
<1>3. QED
  BY <1>1, <1>2

(* A panic.                                                                *)
LEMMA Crashes ==
  ASSUME Phase' = "crashed" PROVE T!Next
BY DEF T!Next, T!Crash, Phase

(* Nothing the terminal shows has changed.                                 *)
LEMMA Rests ==
  ASSUME Phase' = Phase, Lines' = Lines, Row' = Row, Col' = Col, c' = c
  PROVE  UNCHANGED T!vars
BY DEF T!vars, Phase, Lines, Row, Col

(***************************************************************************)
(* Every step of vga.c is one of these.                                    *)
(***************************************************************************)
(* The cursor, and where a call will leave it, are numbers.                *)
LEMMA NumbersOfState ==
  IInv => /\ x \in Nat /\ y \in Nat /\ EndX \in Nat /\ EndY \in Nat
          /\ vga_buffer \in [Cells -> Printable]
BY Facts DEF IInv, TypeOK, EndX, EndY

(* When vga_put is called the text on the screen is the memory of the      *)
(* card, and the cursor is the one vga_data holds.                         *)
LEMMA PutView ==
  ASSUME IInv, Quiet, ~panicked, vga_put
  PROVE  /\ Phase = "on" /\ Phase' = "on" /\ c = None /\ c' \in Inputs
         /\ Row = y /\ Col = x /\ Lines = Grid(vga_buffer)
         /\ x \in 0 .. Width - 1 /\ y \in 0 .. Height - 1
         /\ Branch(c')
<1>1. text = Running /\ text' = Running /\ c' \in Inputs /\ step = "idle" /\ Branch(c')
  BY DEF panicked, vga_put
<1>2. text # Message
  BY <1>1 DEF Running, Message
<1>3. x \in 0 .. Width - 1 /\ y \in 0 .. Height - 1
  BY <1>1, <1>2, Facts DEF IInv, InBounds, TypeOK, OnScreen
<1>4. EndX = x /\ ~Wraps /\ EndY = y /\ EndY < Height
  BY <1>1, <1>3, Facts DEF EndX, Wraps, EndY
<1>5. Row = y /\ Col = x
  BY <1>4 DEF Row, Col
<1>6. Lines = Grid(vga_buffer)
  BY <1>4, LinesAreOf, LinesAbove
<1>7. step' # "vga_init"
  BY <1>1 DEF Branch, Backspace, Tab, CarriageReturn, NewLine, PrintChar, IgnoreChar
<1>8. Phase = "on" /\ Phase' = "on"
  BY <1>1, <1>7 DEF Phase, panicked
<1>9. c = None
  BY <1>1 DEF Quiet
<1>10. QED
  BY <1>1, <1>3, <1>5, <1>6, <1>8, <1>9

(* Where the first store of a branch leads.                                *)
LEMMA Leads ==
  ASSUME IInv', step' \notin Scrolling,
         NEW ls, Grid(vga_buffer') = ls,
         NEW r \in Nat, NEW k \in Nat, r =< Height, r = Height => k < Width,
         EndY' = Below(r, k), Col' = (IF k >= Width THEN 0 ELSE k)
  PROVE  MovesTo(ls, r, k)
<1>1. Lines' = LinesOf(step', EndY', vga_buffer', i')
  BY LinesAreOf
<1>2. Below(r, k) \in Nat /\ Below(r, k) =< Height
  BY Facts DEF Below
<1>3. CASE Below(r, k) < Height
  <2>1. Lines' = ls
    BY <1>1, <1>3, LinesAbove
  <2>2. Row' = Below(r, k)
    BY <1>3 DEF Row
  <2>3. QED
    BY <1>3, <2>1, <2>2 DEF MovesTo
<1>4. CASE ~(Below(r, k) < Height)
  <2>1. Lines' = Turned(ls)
    BY <1>1, <1>4, LinesBelow DEF Turned
  <2>2. Row' = Height - 1
    BY <1>4 DEF Row
  <2>3. Below(r, k) = Height
    BY <1>2, <1>4, Facts
  <2>4. QED
    BY <2>1, <2>2, <2>3 DEF MovesTo
<1>5. QED
  BY <1>3, <1>4

(* The tabulator goes to the next multiple of TabStop.                     *)
LEMMA StopFound ==
  ASSUME NEW k \in Nat, NEW stop, stop = ((k + TabStop) \div TabStop) * TabStop
  PROVE  stop \in k + 1 .. k + TabStop /\ stop % TabStop = 0 /\ stop \in Nat
<1>1. PICK n \in Nat, r \in Nat : n = k \div TabStop /\ k = n * TabStop + r /\ r < TabStop
  BY Division, SizeAssumption
<1>2. (k + TabStop) \div TabStop = n + 1
  BY <1>1, NextQuotient, SizeAssumption
<1>3. stop = (n + 1) * TabStop /\ (n + 1) * TabStop = n * TabStop + TabStop /\ n * TabStop \in Nat
  BY <1>1, <1>2, SizeAssumption
<1>4. stop \in Nat /\ stop \in k + 1 .. k + TabStop
  BY <1>1, <1>3, SizeAssumption
<1>5. ((n + 1) * TabStop) % TabStop = 0
  <2>1. PICK q \in Nat, p \in Nat :
           p = stop % TabStop /\ p < TabStop /\ stop = q * TabStop + p
    <3>1. \E q, p \in Nat : q = stop \div TabStop /\ p = stop % TabStop /\ p < TabStop
                              /\ stop = q * TabStop + p
      BY <1>4, Division, SizeAssumption
    <3>2. QED
      BY <3>1
  <2>2. q = n + 1
    <3>1. CASE q < n + 1
      <4>1. (q + 1) * TabStop =< (n + 1) * TabStop /\ (q + 1) * TabStop = q * TabStop + TabStop
        BY <3>1, SizeAssumption
      <4>2. q * TabStop \in Nat
        BY SizeAssumption
      <4>3. QED
        BY <1>3, <2>1, <4>1, <4>2, SizeAssumption
    <3>2. CASE q > n + 1
      <4>1. (n + 2) * TabStop =< q * TabStop /\ (n + 2) * TabStop = (n + 1) * TabStop + TabStop
        BY <3>2, SizeAssumption
      <4>2. q * TabStop \in Nat
        BY SizeAssumption
      <4>3. QED
        BY <1>3, <2>1, <4>1, <4>2, SizeAssumption
    <3>3. QED
      BY <3>1, <3>2
  <2>3. p = 0
    BY <1>3, <2>1, <2>2, SizeAssumption
  <2>4. QED
    BY <1>3, <2>1, <2>3
<1>6. QED
  BY <1>3, <1>4, <1>5

(* A printable character is stored at the cursor (vga.c:103-108).          *)
LEMMA PrintImplements ==
  ASSUME IInv, Quiet, ~panicked, vga_put, c' \in Printable, PrintChar(c')
  PROVE  T!Next
<1>1. /\ Phase = "on" /\ Phase' = "on" /\ c = None /\ c' \in Inputs
      /\ Row = y /\ Col = x /\ Lines = Grid(vga_buffer)
      /\ x \in 0 .. Width - 1 /\ y \in 0 .. Height - 1
  BY PutView
<1>2. IInv'
  BY PutStep
<1>3. x \in Nat /\ y \in Nat /\ vga_buffer \in [Cells -> Printable]
  BY NumbersOfState
<1>4. x' = x /\ y' = y /\ step' = "print_x" /\ vga_buffer' = [vga_buffer EXCEPT ![y * Width + x] = c']
  BY DEF PrintChar, Store, Cursor
<1>5. Grid(vga_buffer') = [Lines EXCEPT ![Row][Col] = c']
  <2>1. PICK ch : ch = c'
    OBVIOUS
  <2>2. PICK b, r, k : b = vga_buffer /\ r = y /\ k = x
    OBVIOUS
  <2>3. PICK b2 : b2 = vga_buffer' /\ b2 = [b EXCEPT ![r * Width + k] = ch]
    BY <1>4, <2>1, <2>2
  <2>4. Stored(b, b2, r, k, ch)
    BY <1>1, <1>3, <2>2, <2>3 DEF Stored
  <2>5. Grid(b2) = Put(Grid(b), r, k, ch)
    BY <2>4, GridStore
  <2>6. PICK g : g = Grid(b)
    OBVIOUS
  <2>7. Grid(vga_buffer') = [g EXCEPT ![r][k] = ch]
    BY <2>3, <2>5, <2>6 DEF Put
  <2>8. Lines = g /\ Row = r /\ Col = k
    BY <1>1, <2>2, <2>6
  <2>9. QED
    BY <2>1, <2>7, <2>8
<1>6. EndX' = x + 1 /\ (Wraps' <=> x + 1 >= Width)
  BY <1>4 DEF EndX, Wraps
<1>7. EndY' = Below(y, x + 1)
  BY <1>3, <1>4, <1>6 DEF EndY, Below
<1>8. Col' = IF x + 1 >= Width THEN 0 ELSE x + 1
  BY <1>6 DEF Col
<1>9. MovesTo([Lines EXCEPT ![Row][Col] = c'], Row, Col + 1)
  <2>1. step' \notin Scrolling
    BY <1>4 DEF Scrolling
  <2>2. y \in Nat /\ x + 1 \in Nat /\ y =< Height /\ y # Height
    BY <1>1, <1>3, Facts
  <2>3. MovesTo(Grid(vga_buffer'), y, x + 1)
    BY <1>2, <1>7, <1>8, <2>1, <2>2, Leads
  <2>4. QED
    BY <1>1, <1>5, <2>3
<1>10. c' \in Letters \union {Blank}
  BY <1>1, LettersAssumption DEF Inputs, Printable, Blank, Garbage
<1>11. Accepts(c')
  BY <1>1 DEF Accepts
<1>12. QED
  BY <1>9, <1>10, <1>11, Types

(* The other branches leave the text alone.                                *)
LEMMA ControlMoves ==
  ASSUME IInv, Quiet, ~panicked, vga_put, UNCHANGED vga_buffer, step' \notin Scrolling,
         NEW r \in Nat, NEW k \in Nat, r =< Height, r = Height => k < Width,
         EndY' = Below(r, k), Col' = (IF k >= Width THEN 0 ELSE k)
  PROVE  MovesTo(Lines, r, k) /\ Accepts(c')
<1>1. Phase = "on" /\ Phase' = "on" /\ c = None /\ Lines = Grid(vga_buffer)
  BY PutView
<1>2. IInv'
  BY PutStep
<1>3. MovesTo(Grid(vga_buffer'), r, k)
  BY <1>2, Leads
<1>4. QED
  BY <1>1, <1>3 DEF Accepts

(* The branches that store no character (vga.c:80-101).                    *)
LEMMA ControlImplements ==
  ASSUME IInv, Quiet, ~panicked, vga_put, ~(c' \in Printable /\ PrintChar(c'))
  PROVE  T!Next
<1>1. /\ Row = y /\ Col = x /\ Branch(c')
      /\ x \in 0 .. Width - 1 /\ y \in 0 .. Height - 1
  BY PutView
<1>2. x \in Nat /\ y \in Nat /\ x < Width /\ y < Height /\ Width \in Nat /\ Height \in Nat
  BY <1>1, NumbersOfState, Facts
<1>3. CASE c' = "BS" /\ Backspace
  <2>1. PICK k \in Nat : k = x' /\ k < Width /\ k = IF Col > 0 THEN Col - 1 ELSE Col
    BY <1>1, <1>2, <1>3 DEF Backspace
  <2>2. step' = "margin" /\ y' = y /\ UNCHANGED vga_buffer /\ EndX' = k /\ ~Wraps'
    BY <1>2, <1>3, <2>1 DEF Backspace, EndX, Wraps
  <2>3. EndY' = Below(y, k) /\ Col' = (IF k >= Width THEN 0 ELSE k)
    BY <1>2, <2>1, <2>2 DEF EndY, Col, Below
  <2>4. MovesTo(Lines, y, k) /\ Accepts(c')
    BY <1>2, <2>2, <2>3, ControlMoves DEF Scrolling
  <2>5. QED
    BY <1>1, <1>3, <2>1, <2>4, Moves
<1>4. CASE c' = "HT" /\ Tab
  <2>1. PICK k : k = x' /\ k = ((x + TabStop) \div TabStop) * TabStop
    BY <1>4 DEF Tab
  <2>2. k \in Nat /\ k \in Col + 1 .. Col + TabStop /\ k % TabStop = 0
    BY <1>1, <1>2, <2>1, StopFound
  <2>3. step' = "margin" /\ y' = y /\ UNCHANGED vga_buffer /\ EndX' = k /\ (Wraps' <=> k >= Width)
    BY <1>4, <2>1 DEF Tab, EndX, Wraps
  <2>4. EndY' = Below(y, k) /\ Col' = (IF k >= Width THEN 0 ELSE k)
    BY <1>2, <2>3 DEF EndY, Col, Below
  <2>5. MovesTo(Lines, y, k) /\ Accepts(c')
    BY <1>2, <2>2, <2>3, <2>4, ControlMoves DEF Scrolling
  <2>6. QED
    BY <1>1, <1>4, <2>2, <2>5, Tabulates
<1>5. CASE c' = "CR" /\ CarriageReturn
  <2>1. step' = "margin" /\ y' = y /\ UNCHANGED vga_buffer /\ EndX' = 0 /\ ~Wraps'
    BY <1>2, <1>5, Facts DEF CarriageReturn, EndX, Wraps
  <2>2. EndY' = Below(y, 0) /\ Col' = (IF 0 >= Width THEN 0 ELSE 0)
    BY <1>2, <2>1, Facts DEF EndY, Col, Below
  <2>3. MovesTo(Lines, y, 0) /\ Accepts(c')
    BY <1>2, <2>1, <2>2, ControlMoves DEF Scrolling
  <2>4. QED
    BY <1>1, <1>5, <2>3, Moves
<1>6. CASE c' = "LF" /\ NewLine
  <2>1. step' = "newline_y" /\ y' = y /\ UNCHANGED vga_buffer /\ EndX' = 0 /\ ~Wraps'
    BY <1>6 DEF NewLine, EndX, Wraps
  <2>2. EndY' = Below(y + 1, 0) /\ Col' = (IF 0 >= Width THEN 0 ELSE 0)
    BY <1>2, <2>1, Facts DEF EndY, Col, Below
  <2>3. y + 1 \in Nat /\ y + 1 =< Height /\ 0 < Width
    BY <1>2, Facts
  <2>4. MovesTo(Lines, y + 1, 0) /\ Accepts(c')
    BY <2>1, <2>2, <2>3, ControlMoves DEF Scrolling
  <2>5. QED
    BY <1>1, <1>6, <2>4, Moves
<1>7. CASE c' = "BEL" /\ IgnoreChar
  <2>1. step' = "margin" /\ y' = y /\ UNCHANGED vga_buffer /\ EndX' = x /\ ~Wraps'
    BY <1>2, <1>7 DEF IgnoreChar, EndX, Wraps
  <2>2. EndY' = Below(y, x) /\ Col' = (IF x >= Width THEN 0 ELSE x)
    BY <1>2, <2>1 DEF EndY, Col, Below
  <2>3. MovesTo(Lines, y, x) /\ Accepts(c')
    BY <1>2, <2>1, <2>2, ControlMoves DEF Scrolling
  <2>4. QED
    BY <1>1, <1>7, <2>3, Moves
<1>8. QED
  BY <1>1, <1>3, <1>4, <1>5, <1>6, <1>7 DEF Branch

(* The steps inside of a call change nothing that is shown.                *)
LEMMA Shown ==
  ASSUME ~panicked, ~panicked', step # "vga_init", step' # "vga_init", c' = c,
         EndY' = EndY, Col' = Col,
         \A n \in Screen :
           CellOf(step, EndY, vga_buffer, i, n) = CellOf(step', EndY', vga_buffer', i', n)
  PROVE  UNCHANGED T!vars
<1>1. Phase' = Phase
  BY DEF Phase
<1>2. Row' = Row
  BY DEF Row
<1>3. Lines' = Lines
  BY LinesAreOf, SameLines
<1>4. QED
  BY <1>1, <1>2, <1>3, Rests

(* The increments of the coordinates and the test of the margin.           *)
LEMMA CursorRests ==
  ASSUME IInv, ~panicked, ~panicked', print_x \/ newline_y \/ margin \/ margin_y
  PROVE  UNCHANGED T!vars
<1>1. vga_buffer' = vga_buffer /\ c' = c /\ step \notin Scrolling /\ step' \notin Scrolling
      /\ step # "vga_init" /\ step' # "vga_init"
  BY DEF print_x, newline_y, margin, WrapAt, margin_y, Same, Scrolling
<1>2. x \in Nat /\ y \in Nat /\ Width \in Nat /\ 0 < Width
  BY NumbersOfState, Facts
<1>3. EndY' = EndY /\ Col' = Col
  <2>1. CASE print_x
    <3>1. step = "print_x" /\ step' = "margin" /\ x' = x + 1 /\ y' = y
      BY <2>1 DEF print_x
    <3>2. EndX' = x + 1 /\ EndX = x + 1 /\ (Wraps' <=> Wraps)
      BY <3>1 DEF EndX, Wraps
    <3>3. QED
      BY <3>1, <3>2 DEF EndY, Col
  <2>2. CASE newline_y
    <3>1. step = "newline_y" /\ step' = "margin" /\ x' = x /\ y' = y + 1 /\ x = 0
      BY <2>2 DEF newline_y, IInv, InBounds
    <3>2. EndX' = 0 /\ EndX = 0 /\ ~Wraps' /\ ~Wraps
      BY <1>2, <3>1 DEF EndX, Wraps
    <3>3. QED
      BY <1>2, <3>1, <3>2 DEF EndY, Col
  <2>3. CASE margin
    <3>1. CASE x >= Width
      <4>1. step = "margin" /\ step' = "margin_y" /\ x' = 0 /\ y' = y
        BY <2>3, <3>1 DEF margin, WrapAt
      <4>2. EndX' = 0 /\ ~Wraps' /\ Wraps
        BY <3>1, <4>1 DEF EndX, Wraps
      <4>3. QED
        BY <1>2, <4>1, <4>2 DEF EndY, Col
    <3>2. CASE ~(x >= Width)
      <4>1. step = "margin" /\ step' = "vga_scroll" /\ x' = x /\ y' = y
        BY <2>3, <3>2 DEF margin, WrapAt
      <4>2. EndX' = x /\ EndX = x /\ ~Wraps' /\ ~Wraps
        BY <3>2, <4>1 DEF EndX, Wraps
      <4>3. QED
        BY <1>2, <4>1, <4>2 DEF EndY, Col
    <3>3. QED
      BY <3>1, <3>2
  <2>4. CASE margin_y
    <3>1. step = "margin_y" /\ step' = "vga_scroll" /\ x' = x /\ y' = y + 1
      BY <2>4 DEF margin_y
    <3>2. EndX' = x /\ EndX = x /\ ~Wraps' /\ ~Wraps
      BY <3>1 DEF EndX, Wraps
    <3>3. QED
      BY <1>2, <3>1, <3>2 DEF EndY, Col
  <2>5. QED
    BY <2>1, <2>2, <2>3, <2>4
<1>4. \A n \in Screen :
        CellOf(step, EndY, vga_buffer, i, n) = CellOf(step', EndY', vga_buffer', i', n)
  BY <1>1, <1>3 DEF CellOf, Scrolling
<1>5. QED
  BY <1>1, <1>3, <1>4, Shown

(* vga_scroll moves the text under the cursor that is to come.             *)
LEMMA ScrollRests ==
  ASSUME IInv, Cleaned, ~panicked, ~panicked', vga_scroll \/ memcpy \/ last_line \/ last_row
  PROVE  UNCHANGED T!vars
<1>1. c' = c /\ x' = x /\ step # "vga_init" /\ step' # "vga_init"
      /\ ~Wraps /\ ~Wraps' /\ EndX = x /\ EndX' = x
  BY DEF vga_scroll, memcpy, last_line, last_row, LeaveAt, Same, EndX, Wraps
<1>2. y \in Nat /\ i \in Nat /\ vga_buffer \in [Cells -> Printable] /\ Bottom \in Nat
      /\ Height \in Nat /\ Width \in Nat /\ Width >= 2 /\ Bottom + Width = Width * Height
  BY Facts DEF IInv, TypeOK, Bottom
<1>3. EndY = y /\ EndY' = y'
  BY <1>1, Facts DEF EndY, vga_scroll, memcpy, last_line, last_row, LeaveAt, IInv, TypeOK
<1>4. Col' = Col
  BY <1>1 DEF Col
<1>5. CASE vga_scroll
  <2>1. step = "vga_scroll" /\ y' = y /\ vga_buffer' = vga_buffer /\ i' = 0
        /\ (y >= Height => step' = "memcpy")
    BY <1>5 DEF vga_scroll
  <2>2. ASSUME NEW n \in Screen
        PROVE  CellOf(step, EndY, vga_buffer, i, n) = CellOf(step', EndY', vga_buffer', i', n)
    <3>1. n \in Nat
      BY <1>2 DEF Screen
    <3>2. ~(n < 0)
      BY <3>1
    <3>3. CASE y < Height
      BY <1>3, <2>1, <3>3 DEF CellOf
    <3>4. CASE ~(y < Height)
      <4>1. step' = "memcpy"
        BY <1>2, <2>1, <3>4
      <4>2. QED
        BY <1>3, <2>1, <3>2, <3>4, <4>1 DEF CellOf
    <3>5. QED
      BY <3>3, <3>4
  <2>3. QED
    BY <1>1, <1>3, <1>4, <2>1, <2>2, Shown
<1>6. CASE memcpy
  <2>1. step = "memcpy" /\ y' = y /\ y = Height /\ i < Bottom
    BY <1>6 DEF memcpy, IInv, InBounds, Bottom
  <2>2. /\ i \in Screen /\ i + Width \in Screen
        /\ vga_buffer' = [vga_buffer EXCEPT ![i] = vga_buffer[i + Width]]
        /\ \/ step' = "memcpy" /\ i' = i + 1
           \/ step' = "last_line" /\ ~(i + 1 < Bottom)
    <3>1. /\ Store(i, vga_buffer[i + temp * Width])
          /\ i' = (IF i + 1 < Kept THEN i + 1 ELSE 0)
          /\ step' = (IF i + 1 < Kept THEN "memcpy" ELSE "last_line")
      BY <1>6 DEF memcpy
    <3>2. temp * Width = Width /\ Kept = Bottom /\ i \in Screen /\ i + Width \in Screen
      BY <2>1, ScrollFacts DEF Bottom
    <3>3. QED
      BY <3>1, <3>2 DEF Store
  <2>3. i \in Cells
    BY <2>2, ScreenInCells
  <2>4. vga_buffer'[i] = vga_buffer[i + Width]
    BY <1>2, <2>2, <2>3
  <2>5. ASSUME NEW n \in Int, n # i PROVE vga_buffer'[n] = vga_buffer[n]
    BY <1>2, <2>2, <2>3, <2>5
  <2>6. ASSUME NEW n \in Screen
        PROVE  CellOf(step, EndY, vga_buffer, i, n) = CellOf(step', EndY', vga_buffer', i', n)
    <3>1. n \in Nat
      BY <1>2 DEF Screen
    <3>2. ~(EndY < Height) /\ ~(EndY' < Height)
      BY <1>2, <1>3, <2>1
    <3>3. CASE n >= Bottom
      BY <3>2, <3>3 DEF CellOf
    <3>4. CASE n < i
      <4>1. ~(n >= Bottom) /\ n < i + 1 /\ n # i
        BY <1>2, <2>1, <3>1, <3>4
      <4>2. vga_buffer'[n] = vga_buffer[n]
        BY <2>5, <3>1, <4>1
      <4>3. CellOf(step, EndY, vga_buffer, i, n) = vga_buffer[n]
        BY <2>1, <3>2, <3>4, <4>1 DEF CellOf
      <4>4. CellOf(step', EndY', vga_buffer', i', n) = vga_buffer'[n]
        BY <2>2, <3>2, <4>1 DEF CellOf
      <4>5. QED
        BY <4>2, <4>3, <4>4
    <3>5. CASE n = i
      <4>1. ~(n >= Bottom) /\ n < i + 1 /\ ~(n < i)
        BY <1>2, <2>1, <3>1, <3>5
      <4>2. CellOf(step, EndY, vga_buffer, i, n) = vga_buffer[n + Width]
        BY <2>1, <3>2, <4>1 DEF CellOf
      <4>3. CellOf(step', EndY', vga_buffer', i', n) = vga_buffer'[n]
        BY <2>2, <3>2, <4>1 DEF CellOf
      <4>4. QED
        BY <2>4, <3>5, <4>2, <4>3
    <3>6. CASE n > i /\ n < Bottom
      <4>1. ~(n >= Bottom) /\ ~(n < i) /\ ~(n < i + 1) /\ i + 1 < Bottom
            /\ n + Width \in Int /\ n + Width # i
        BY <1>2, <2>1, <3>1, <3>6
      <4>2. vga_buffer'[n + Width] = vga_buffer[n + Width]
        BY <2>5, <4>1
      <4>3. CellOf(step, EndY, vga_buffer, i, n) = vga_buffer[n + Width]
        BY <2>1, <3>2, <4>1 DEF CellOf
      <4>4. CellOf(step', EndY', vga_buffer', i', n) = vga_buffer'[n + Width]
        BY <2>2, <3>2, <4>1 DEF CellOf
      <4>5. QED
        BY <4>2, <4>3, <4>4
    <3>7. QED
      BY <1>2, <3>1, <3>3, <3>4, <3>5, <3>6
  <2>7. QED
    BY <1>1, <1>3, <1>4, <2>1, <2>6, Shown
<1>7. CASE last_line
  <2>1. step = "last_line" /\ y' = y /\ y = Height
        /\ step' \in {"last_line", "last_row"}
    BY <1>7 DEF last_line, IInv, InBounds
  <2>2. vga_buffer' = [vga_buffer EXCEPT ![Bottom + i] = Blank]
    BY <1>7, <2>1, ScrollFacts DEF last_line, Store, Bottom
  <2>3. ASSUME NEW n \in Screen
        PROVE  CellOf(step, EndY, vga_buffer, i, n) = CellOf(step', EndY', vga_buffer', i', n)
    <3>1. n \in Nat
      BY <1>2 DEF Screen
    <3>2. ~(EndY < Height) /\ ~(EndY' < Height)
      BY <1>2, <1>3, <2>1
    <3>3. CASE n >= Bottom
      BY <3>2, <3>3 DEF CellOf
    <3>4. CASE ~(n >= Bottom)
      <4>1. n # Bottom + i
        BY <1>2, <3>1, <3>4
      <4>2. vga_buffer'[n] = vga_buffer[n]
        BY <1>2, <2>2, <4>1, ScreenInCells
      <4>3. QED
        BY <2>1, <3>2, <3>4, <4>2 DEF CellOf
    <3>5. QED
      BY <3>3, <3>4
  <2>4. QED
    BY <1>1, <1>3, <1>4, <2>1, <2>3, Shown
<1>8. CASE last_row
  <2>1. step = "last_row" /\ y = Height /\ y' = Height - 1 /\ vga_buffer' = vga_buffer
    BY <1>8 DEF last_row, LeaveAt, IInv, InBounds
  <2>2. ~(EndY < Height) /\ EndY' < Height /\ EndY' = Height - 1
    BY <1>2, <1>3, <2>1
  <2>3. ASSUME NEW n \in Screen
        PROVE  CellOf(step, EndY, vga_buffer, i, n) = CellOf(step', EndY', vga_buffer', i', n)
    <3>1. CASE n >= Bottom
      <4>1. vga_buffer[n] = Blank
        BY <1>2, <2>1, <3>1 DEF Cleaned, Screen
      <4>2. QED
        BY <2>1, <2>2, <3>1, <4>1 DEF CellOf
    <3>2. CASE ~(n >= Bottom)
      BY <2>1, <2>2, <3>2 DEF CellOf
    <3>3. QED
      BY <3>1, <3>2
  <2>4. Lines' = Lines
    BY <2>3, LinesAreOf, SameLines
  <2>5. Row' = Row
    BY <2>2 DEF Row
  <2>6. Phase' = Phase
    BY <1>1 DEF Phase
  <2>7. QED
    BY <1>1, <1>4, <2>4, <2>5, <2>6, Rests
<1>9. QED
  BY <1>5, <1>6, <1>7, <1>8

(* The outb of vga_move_cursor change nothing; after the last, vga_put     *)
(* returns.                                                                *)
LEMMA MoveCursorImplements ==
  ASSUME IInv, ~panicked, ~panicked', vga_move_cursor
  PROVE  [T!Next]_T!vars
<1>1. /\ step = "vga_move_cursor" /\ step' \in {"vga_move_cursor", "idle"}
      /\ UNCHANGED <<x, y, vga_buffer>> /\ y < Height
  BY DEF vga_move_cursor, IInv, InBounds, OnScreen
<1>2. x \in Nat /\ y \in Nat /\ Height \in Nat
  BY NumbersOfState, Facts
<1>3. ~Wraps /\ ~Wraps' /\ EndX' = EndX
  BY <1>1 DEF Wraps, EndX
<1>4. EndY' = EndY /\ EndY < Height
  BY <1>1, <1>2, <1>3 DEF EndY
<1>5. Row' = Row /\ Col' = Col
  BY <1>3, <1>4 DEF Row, Col
<1>6. Lines' = Lines
  BY <1>1, <1>4, LinesAreOf, LinesAbove
<1>7. Phase = "on" /\ Phase' = "on"
  BY <1>1 DEF Phase
<1>8. c' = c \/ c' = None
  BY DEF vga_move_cursor
<1>9. CASE c' = c
  BY <1>5, <1>6, <1>7, <1>9, Rests
<1>10. CASE c' = None
  BY <1>5, <1>6, <1>7, <1>10, Finishes
<1>11. QED
  BY <1>8, <1>9, <1>10

(* vga_init gives an empty screen, the cursor in its first place.          *)
LEMMA InitImplements ==
  ASSUME IInv, Quiet, ~panicked, vga_init PROVE T!Next
<1>1. /\ step = "vga_init" /\ step' = "idle" /\ x' = 0 /\ y' = 0 /\ c' = c /\ attr = 0 /\ ~panicked'
      /\ vga_buffer' = [k \in Cells |-> IF k \in Screen THEN Cleared(attr) ELSE vga_buffer[k]]
  BY DEF vga_init, Quiet, panicked
<1>2. EndX' = 0 /\ ~Wraps' /\ EndY' = 0 /\ 0 < Height
  BY <1>1, Facts DEF EndX, Wraps, EndY
<1>3. Row' = 0 /\ Col' = 0
  BY <1>2 DEF Row, Col
<1>4. Lines' = Grid(vga_buffer')
  <2>1. EndY' < Height
    BY <1>2
  <2>2. QED
    BY <2>1, LinesAreOf, LinesAbove
<1>5. ASSUME NEW r \in 0 .. Height - 1, NEW k \in 0 .. Width - 1
      PROVE  vga_buffer'[r * Width + k] = Blank
  <2>1. r * Width + k \in Screen
    BY Place
  <2>2. r * Width + k \in Cells
    BY <2>1, ScreenInCells
  <2>3. QED
    BY <1>1, <2>1, <2>2 DEF Cleared
<1>6. Grid(vga_buffer') = [r \in 0 .. Height - 1 |-> BlankLine]
  BY <1>5 DEF Grid, BlankLine
<1>7. Phase = "off" /\ Phase' = "on"
  BY <1>1 DEF Phase
<1>8. QED
  BY <1>1, <1>3, <1>4, <1>6, <1>7, Clears

(* Once panicked, the terminal promises nothing.                           *)
LEMMA PanicStays ==
  ASSUME IInv, Next, panicked PROVE panicked'
<1>1. text \in {Message, <<"p", "LF", "CR">>, <<"LF", "CR">>, <<"CR">>, <<>>}
  BY DEF IInv, TypeOK, panicked
<1>2. CASE vga_put
  <2>1. text # <<>> /\ text' = Tail(text)
    BY <1>2 DEF vga_put
  <2>2. CASE text = Message
    BY <2>1, <2>2 DEF Message, Running, panicked
  <2>3. CASE text = <<"p", "LF", "CR">>
    BY <2>1, <2>3 DEF Running, panicked
  <2>4. CASE text = <<"LF", "CR">>
    BY <2>1, <2>4 DEF Running, panicked
  <2>5. CASE text = <<"CR">>
    BY <2>1, <2>5 DEF Running, panicked
  <2>6. QED
    BY <1>1, <2>1, <2>2, <2>3, <2>4, <2>5
<1>3. CASE text' = text
  BY <1>3 DEF panicked
<1>4. QED
  BY <1>2, <1>3
     DEF Next, Step, vga_init, print_x, newline_y, margin, WrapAt, margin_y, vga_scroll, memcpy,
         last_line, last_row, LeaveAt, Same, vga_move_cursor, panic, hlt, vars

(* vga_init runs once, before anything can panic.                          *)
LEMMA NeverOffAgain ==
  ASSUME Next, panicked' PROVE step' # "vga_init" \/ UNCHANGED vars
BY DEF Next, Step, vga_put, Branch, Backspace, Tab, CarriageReturn, NewLine, PrintChar, IgnoreChar,
       vga_init, print_x, newline_y, margin, WrapAt, margin_y, vga_scroll, memcpy, last_line,
       last_row, LeaveAt, vga_move_cursor, panic, hlt

(* Every step of vga.c is a step of the terminal, or shows nothing.        *)
LEMMA StepImplements ==
  ASSUME IInv, Cleaned, Quiet, [Next]_vars PROVE [T!Next]_T!vars
<1>1. CASE UNCHANGED vars
  <2>1. UNCHANGED <<panicked, EndX, Wraps>> /\ UNCHANGED vars
    BY <1>1 DEF vars, panicked, EndX, Wraps
  <2>2. UNCHANGED <<EndY, Phase, Col>> /\ c' = c
    BY <2>1 DEF vars, EndY, Phase, Col
  <2>3. Row' = Row /\ Lines' = Lines
    BY <2>1, <2>2, LinesAreOf DEF Row, vars
  <2>4. QED
    BY <2>2, <2>3, Rests
<1>2. CASE Next /\ panicked'
  <2>1. CASE step' # "vga_init"
    BY <1>2, <2>1, Crashes DEF Phase
  <2>2. QED
    BY <1>1, <1>2, <2>1, NeverOffAgain
<1>3. CASE Next /\ ~panicked'
  <2>1. ~panicked
    BY <1>3, PanicStays
  <2>2. CASE vga_put
    BY <2>1, <2>2, PrintImplements, ControlImplements
  <2>3. CASE Step
    BY <1>3, <2>1, <2>3, InitImplements, CursorRests, ScrollRests, MoveCursorImplements DEF Step
  <2>4. CASE panic
    <3>1. text' = Message
      BY <2>4 DEF panic
    <3>2. QED
      BY <1>3, <3>1 DEF panicked, Message, Running
  <2>5. CASE hlt
    BY <1>1, <2>5 DEF hlt
  <2>6. QED
    BY <1>3, <2>2, <2>3, <2>4, <2>5 DEF Next
<1>4. QED
  BY <1>1, <1>2, <1>3

(* Both start with the screen off and no character.                        *)
LEMMA ImplementsInit == Init => T!Init
BY DEF Init, T!Init

(* The terminal that vga.c makes of the memory of the card is a terminal:  *)
(* writing, tabulating, wrapping and scrolling show what was written, for  *)
(* every size of the screen, until a panic (vga.c:31-48, 79-118).          *)
THEOREM Implementation == Spec => ShowsWhatWasWritten
<1>1. Init => T!Init
  BY ImplementsInit
<1>2. IInv /\ Cleaned /\ Quiet /\ [Next]_vars => [T!Next]_T!vars
  BY StepImplements
<1>3. QED
  BY <1>1, <1>2, ScreenInvariant, PTL DEF Spec, ShowsWhatWasWritten, T!Spec
===============================================================================
