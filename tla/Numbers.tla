------------------------------- MODULE Numbers --------------------------------
(***************************************************************************)
(* How a number is printed: serial_write_nb_signed and serial_write_nb of  *)
(* drivers/serial.c, and the same code in drivers/vga.c.  The recursion is *)
(* its stack of calls; every call prints its digit after the calls that it *)
(* made have returned.                                                     *)
(***************************************************************************)
EXTENDS Integers, Sequences

CONSTANT Bits          \* the width of an integer: 32

ASSUME BitsAssumption == Bits \in Nat /\ Bits >= 1

(* b to the power of n, as a recursive function: the provers have no rule  *)
(* for the operator of the standard module.                                *)
Power(b, n) == LET p[k \in Nat] == IF k = 0 THEN 1 ELSE p[k - 1] * b IN p[n]

Signed   == -Power(2, Bits - 1) .. Power(2, Bits - 1) - 1
Unsigned == 0 .. Power(2, Bits) - 1

VARIABLES
  option,              \* the option of the format that asked for the number
  arg,                 \* the number
  step,                \* "option", "descend", "return", "done"
  calls,               \* nb of the calls in progress, the innermost first
  minus,               \* '-' has been printed
  out                  \* the digits printed

vars == <<option, arg, step, calls, minus, out>>

base == IF option = "x" THEN 16 ELSE 10

Init ==
  /\ \/ option = "d" /\ arg \in Signed
     \/ option \in {"u", "x"} /\ arg \in Unsigned
  /\ step = "option"
  /\ calls = <<>>
  /\ minus = FALSE
  /\ out = <<>>

(* %u and %x; the conversion to uint32_t of the signed function.           *)
write_nb ==
  /\ step = "option" /\ ~(option = "d" /\ arg < 0)
  /\ calls' = <<arg>>
  /\ step' = "descend"
  /\ UNCHANGED <<option, arg, minus, out>>

(* nb *= -1 overflows for the least integer; the builds wrap around, and   *)
(* as an unsigned number that is its magnitude.                            *)
write_nb_signed ==
  /\ step = "option" /\ option = "d" /\ arg < 0
  /\ minus' = TRUE
  /\ calls' = <<(-arg) % Power(2, Bits)>>
  /\ step' = "descend"
  /\ UNCHANGED <<option, arg, out>>

DescendIf(test) ==
  /\ step = "descend"
  /\ calls' = IF test THEN <<calls[1] \div base>> \o calls ELSE calls
  /\ step' = IF test THEN step ELSE "return"
  /\ UNCHANGED <<option, arg, minus, out>>

descend_Always == DescendIf(calls[1] > 0)        \* fault: down to zero
descend == DescendIf(calls[1] > base)

PutDigit(digit) ==
  /\ step = "return"
  /\ out' = digit
  /\ calls' = Tail(calls)
  /\ step' = IF Tail(calls) = <<>> THEN "done" ELSE step
  /\ UNCHANGED <<option, arg, minus>>

return_Prepend == PutDigit(<<calls[1] % base>> \o out)           \* fault: the last digit first
return == PutDigit(Append(out, calls[1] % base))

done == step = "done" /\ UNCHANGED vars

Next == write_nb \/ write_nb_signed \/ descend \/ return \/ done

Spec == Init /\ [][Next]_vars

-------------------------------------------------------------------------------
(***************************************************************************)
(* Properties.                                                             *)
(***************************************************************************)
Magnitude == IF arg < 0 THEN -arg ELSE arg

(* The number that a reader takes the text for.                            *)
Value(b, digits) ==
  LET v[k \in 0 .. Len(digits)] == IF k = 0 THEN 0 ELSE v[k - 1] * b + digits[k]
  IN  v[Len(digits)]

Reading == (IF minus THEN -1 ELSE 1) * Value(base, out)

(* The calls in progress are never more than the number has digits: the    *)
(* recursion takes a bounded part of the boot stack (serial.c:67).         *)
StackBounded == Len(calls) > 1 => Power(base, Len(calls) - 1) < Magnitude

(* The text is read as the number, except for exactly those numbers one of *)
(* whose leading parts is the base itself, such as 10, 105 and 1023: there *)
(* the leading 1 is lost (serial.c:67, 71, vga.c:135, 139).  The base is   *)
(* more than 2^3, so that there are at most Bits \div 3 + 1 digits.        *)
LeadingPartIsBase == \E k \in 0 .. Bits \div 3 : Magnitude \div Power(base, k) = base

WrongOnlyAtBase == step = "done" => (Reading = arg <=> ~LeadingPartIsBase)

(* "Write a number" (serial.c:61): the text is read as the number.         *)
WritesTheNumber == step = "done" => Reading = arg
===============================================================================
