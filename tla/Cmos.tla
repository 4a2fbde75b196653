--------------------------------- MODULE Cmos ---------------------------------
(***************************************************************************)
(* cmos_RTC of kernel/src/drivers/cmos.c: reading the date from the clock  *)
(* of the CMOS, register by register, while the clock runs.                *)
(*                                                                         *)
(* The clock is external: it announces an update by the flag of status     *)
(* register A, and then changes all its registers at once.  The driver     *)
(* waits until the flag is clear but does not turn interrupts off, so any  *)
(* amount of time may pass before it reads the next register.              *)
(*                                                                         *)
(* The driver fills its record twice and would fill it again if all seven  *)
(* fields had changed; century is always 0, so it never does.              *)
(***************************************************************************)
EXTENDS Integers, Sequences

CONSTANTS
  Clock,        \* the moments that the clock shows, one after the other
  Modes         \* the settings of status register B: [bcd, hours24]

Fields == <<"seconds", "minuts", "hour", "day", "month", "year">>
Moment == [seconds : 0 .. 59, minuts : 0 .. 59, hour : 0 .. 23,
           day : 1 .. 31, month : 1 .. 12, year : 1970 .. 2099]

ASSUME CmosAssumption ==
  /\ Clock \in Seq(Moment) /\ Clock # <<>>
  /\ Modes \subseteq [bcd : BOOLEAN, hours24 : BOOLEAN] /\ Modes # {}

CURRENT_YEAR == 2017

VARIABLES
  now,          \* the moment that the clock shows, an index of Clock
  updating,     \* bit 0x80 of status register A
  registerB,    \* how the clock is set up, fixed
  pc,           \* where cmos_RTC is; "idle" between calls
  pos,          \* the next register to read
  fills,        \* how many times this call has filled data
  since,        \* the moment at which the last fill began to read (history)
  data, last    \* the two records of cmos_RTC

vars == <<now, updating, registerB, pc, pos, fills, since, data, last>>

-------------------------------------------------------------------------------
(***************************************************************************)
(* The registers of the clock (external) and the conversions of cmos_RTC.  *)
(***************************************************************************)
ToBcd(n) == (n \div 10) * 16 + (n % 10)
PM == 128

HourRegister(h, mode) ==
  LET shown == IF mode.hours24 THEN h ELSE ((h + 11) % 12) + 1
  IN  (IF mode.bcd THEN ToBcd(shown) ELSE shown)
        + (IF ~mode.hours24 /\ h >= 12 THEN PM ELSE 0)

cmos_read_raw(field) ==
  LET m == Clock[now]
      v == IF field = "year" THEN m.year % 100 ELSE m[field]
  IN  IF field = "hour" THEN HourRegister(m.hour, registerB)
      ELSE IF registerB.bcd THEN ToBcd(v) ELSE v

BCD2BIN(val) == (val % 16) + (val \div 16) * 10

(* The bit 0x80 of an hour is kept aside while its digits are converted.   *)
HourFromBcd_WholeByte(val) == BCD2BIN(val)             \* fault: takes 0x80 for a digit
HourFromBcd(val) == BCD2BIN(val % PM) + (val \div PM) * PM

HourTo24(val) ==
  IF ~registerB.hours24 /\ val >= PM THEN ((val % PM) + 12) % 24 ELSE val

WithCentury(yy) == yy + (CURRENT_YEAR \div 100) * 100
FourDigits(yy) ==
  IF WithCentury(yy) > CURRENT_YEAR THEN WithCentury(yy) + 100 ELSE WithCentury(yy)

Converted(d) == [f \in DOMAIN d |->
  LET bin == IF ~registerB.bcd THEN d[f]
             ELSE IF f = "hour" THEN HourFromBcd(d[f]) ELSE BCD2BIN(d[f])
  IN  IF f = "hour" THEN HourTo24(bin)
      ELSE IF f = "year" /\ d.century = 0 THEN FourDigits(bin)
      ELSE bin]

-------------------------------------------------------------------------------
Empty == [f \in {Fields[k] : k \in 1 .. 6} \union {"century"} |-> 0]

Init ==
  /\ now = 1
  /\ updating = FALSE
  /\ registerB \in Modes
  /\ pc = "idle"
  /\ pos = 1
  /\ fills = 0
  /\ since = 1
  /\ data = Empty
  /\ last = Empty

clock  == <<now, updating, registerB>>

BeginUpdate ==
  /\ ~updating
  /\ now < Len(Clock)
  /\ updating' = TRUE
  /\ UNCHANGED <<now, registerB, pc, pos, fills, since, data, last>>

EndUpdate ==
  /\ updating
  /\ now' = now + 1
  /\ updating' = FALSE
  /\ UNCHANGED <<registerB, pc, pos, fills, since, data, last>>

cmos_RTC ==
  /\ pc = "idle"
  /\ pc' = "wait"
  /\ fills' = 0
  /\ last' = Empty
  /\ UNCHANGED <<clock, pos, since, data>>

(* __cmos_fill_rtc: wait for the flag to be clear, then read.              *)
WaitFor(flag) ==
  /\ pc = "wait"
  /\ IF updating = flag
     THEN pc' = "read" /\ since' = now
     ELSE UNCHANGED <<pc, since>>
  /\ pos' = 1
  /\ UNCHANGED <<clock, fills, data, last>>

Wait_Set == WaitFor(TRUE)                              \* fault: waits for an update
Wait == WaitFor(FALSE)

ReadRegister(f) ==
  /\ pc = "read"
  /\ pos =< Len(Fields)
  /\ data' = [data EXCEPT ![f] = cmos_read_raw(f)]
  /\ pos' = pos + 1
  /\ UNCHANGED <<clock, pc, fills, since, last>>

Read == ReadRegister(Fields[pos])

AllChanged == \A f \in DOMAIN data : last[f] # data[f]

(* A fill is complete: the first one is followed by a second one, in the   *)
(* do of cmos_RTC, and the loop goes on while AllChanged.                  *)
Filled ==
  /\ pc = "read"
  /\ pos > Len(Fields)
  /\ data' = [data EXCEPT !.century = 0]
  /\ fills' = fills + 1
  /\ IF fills = 0 \/ AllChanged
     THEN pc' = "wait" /\ last' = data'
     ELSE pc' = "convert" /\ UNCHANGED last
  /\ UNCHANGED <<clock, pos, since>>

Convert ==
  /\ pc = "convert"
  /\ data' = Converted(data)
  /\ pc' = "idle"
  /\ UNCHANGED <<clock, pos, fills, since, last>>

Driver == Wait \/ Read \/ Filled \/ Convert

Next == BeginUpdate \/ EndUpdate \/ cmos_RTC \/ Driver

Spec == Init /\ [][Next]_vars
FairSpec == Spec /\ WF_vars(Driver) /\ WF_vars(EndUpdate)

-------------------------------------------------------------------------------
(***************************************************************************)
(* Properties.                                                             *)
(***************************************************************************)
Returned == pc = "idle" /\ fills > 0

(* Whatever the format of the registers, each field of the result is what  *)
(* the clock showed at some moment of the last fill: none is left over     *)
(* from the first one, and all are in the same units (cmos.c:136-195).     *)
FieldsFresh ==
  Returned => \A k \in DOMAIN Fields :
    \E t \in since .. now : data[Fields[k]] = Clock[t][Fields[k]]

(* cmos_RTC returns although the clock keeps running (cmos.c:137, 166).    *)
CallReturns == (pc # "idle") ~> (pc = "idle")

(* "Avoid incosistent values" (cmos.c:156): the result is what the clock   *)
(* showed at one moment, not a mixture of two.                             *)
OneMoment ==
  Returned => \E t \in since .. now :
    \A k \in DOMAIN Fields : data[Fields[k]] = Clock[t][Fields[k]]

(* A date is in the units of a calendar: "Convert clock to 24h format, if  *)
(* needed" (cmos.c:184), "Calculate the 4-digit year" (cmos.c:189).        *)
HourIn24h     == \E t \in since .. now : data.hour = Clock[t].hour
YearIn4Digits == \E t \in since .. now : data.year = Clock[t].year
CalendarUnits == Returned => (HourIn24h /\ YearIn4Digits)
===============================================================================
