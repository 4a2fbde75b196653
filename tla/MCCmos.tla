-------------------------------- MODULE MCCmos --------------------------------
(***************************************************************************)
(* Instances of Cmos: short stretches of time around the carries.          *)
(***************************************************************************)
EXTENDS Cmos

At(y, mo, d, h, mi, s) ==
  [seconds |-> s, minuts |-> mi, hour |-> h, day |-> d, month |-> mo, year |-> y]

(* Every field changes at once.                                            *)
NewYear == << At(2016, 12, 31, 23, 59, 59), At(2017, 1, 1, 0, 0, 0), At(2017, 1, 1, 0, 0, 1) >>

(* The tens of the hour change, in the afternoon.                          *)
Evening == << At(2017, 9, 30, 21, 59, 59), At(2017, 9, 30, 22, 0, 0), At(2017, 9, 30, 22, 0, 1) >>

(* Noon of a day of the year after CURRENT_YEAR.                           *)
Noon == << At(2018, 6, 1, 12, 0, 0) >>

AllModes == [bcd : BOOLEAN, hours24 : BOOLEAN]
Binary24 == {[bcd |-> FALSE, hours24 |-> TRUE]}
Bcd12    == {[bcd |-> TRUE, hours24 |-> FALSE]}
===============================================================================
