------------------------------ MODULE CmosProofs -------------------------------
(***************************************************************************)
(* Proofs about Cmos: what cmos_RTC returns, field by field, however the   *)
(* clock runs while it reads.                                              *)
(***************************************************************************)
EXTENDS Cmos, SequenceTheorems, TLAPS

Names == {"seconds", "minuts", "hour", "day", "month", "year"}

(* What the register of a field shows at a moment.                         *)
RawAt(f, t, mode) ==
  LET v == IF f = "year" THEN Clock[t].year % 100 ELSE Clock[t][f]
  IN  IF f = "hour" THEN HourRegister(Clock[t].hour, mode)
      ELSE IF mode.bcd THEN ToBcd(v) ELSE v

(* What cmos_RTC makes of it (cmos.c:166-195).                             *)
Result(f, t, mode) ==
  LET h == Clock[t].hour
  IN  IF f = "hour"
      THEN IF mode.hours24 THEN h
           ELSE IF h >= 12 THEN (((h + 11) % 12) + 1 + 12) % 24 ELSE ((h + 11) % 12) + 1
      ELSE IF f = "year" THEN FourDigits(Clock[t].year % 100) ELSE Clock[t][f]

(***************************************************************************)
(* The inductive invariant: every field of the record in progress is that  *)
(* of a moment of this fill.                                               *)
(***************************************************************************)
TypeOK ==
  /\ now \in 1 .. Len(Clock) /\ since \in 1 .. now
  /\ updating \in BOOLEAN /\ (updating => now < Len(Clock))
  /\ registerB \in Modes
  /\ pc \in {"idle", "wait", "read", "convert"}
  /\ pos \in 1 .. 7
  /\ fills \in Nat
  /\ DOMAIN data = Names \union {"century"}

ReadSinceStart ==
  pc = "read" => \A k \in 1 .. pos - 1 :
    \E t \in since .. now : data[Fields[k]] = RawAt(Fields[k], t, registerB)

FilledSinceStart ==
  pc = "convert" =>
    /\ data.century = 0
    /\ \A k \in 1 .. 6 : \E t \in since .. now : data[Fields[k]] = RawAt(Fields[k], t, registerB)

ResultSinceStart ==
  Returned => \A k \in 1 .. 6 :
    \E t \in since .. now : data[Fields[k]] = Result(Fields[k], t, registerB)

IInv == TypeOK /\ ReadSinceStart /\ FilledSinceStart /\ ResultSinceStart

-------------------------------------------------------------------------------
(***************************************************************************)
(* The conversions.                                                        *)
(***************************************************************************)
LEMMA ClockFacts ==
  /\ Len(Clock) \in Nat \ {0}
  /\ \A t \in 1 .. Len(Clock) :
       /\ Clock[t].seconds \in 0 .. 59 /\ Clock[t].minuts \in 0 .. 59 /\ Clock[t].hour \in 0 .. 23
       /\ Clock[t].day \in 1 .. 31 /\ Clock[t].month \in 1 .. 12 /\ Clock[t].year \in 1970 .. 2099
  /\ \A mode \in Modes : mode.bcd \in BOOLEAN /\ mode.hours24 \in BOOLEAN
<1>1. Len(Clock) \in Nat \ {0} /\ \A t \in 1 .. Len(Clock) : Clock[t] \in Moment
  BY CmosAssumption, EmptySeq, ElementOfSeq
<1>2. QED
  BY <1>1, CmosAssumption DEF Moment

LEMMA MomentFacts ==
  ASSUME NEW t \in 1 .. Len(Clock)
  PROVE  /\ Clock[t].seconds \in 0 .. 59 /\ Clock[t].minuts \in 0 .. 59 /\ Clock[t].hour \in 0 .. 23
         /\ Clock[t].day \in 1 .. 31 /\ Clock[t].month \in 1 .. 12 /\ Clock[t].year \in 1970 .. 2099
  BY ClockFacts

(* BCD2BIN undoes the packing of two digits (cmos.c:19).                   *)
LEMMA BcdUnpacked == ASSUME NEW n \in 0 .. 99 PROVE BCD2BIN(ToBcd(n)) = n /\ ToBcd(n) \in Nat
<1>1. PICK a \in 0 .. 9, b \in 0 .. 9 : n = 10 * a + b /\ n \div 10 = a /\ n % 10 = b
  <2>1. n \div 10 \in 0 .. 9 /\ n % 10 \in 0 .. 9 /\ n = 10 * (n \div 10) + (n % 10)
    OBVIOUS
  <2>2. QED
    BY <2>1
<1>2. (a * 16 + b) % 16 = b /\ (a * 16 + b) \div 16 = a
  BY <1>1
<1>3. QED
  BY <1>1, <1>2 DEF BCD2BIN, ToBcd

(* The bit of the afternoon survives the conversion of the digits, and     *)
(* adds the twelve hours (cmos.c:173, 184-187).                            *)
LEMMA TwelveHours ==
  ASSUME NEW h \in 0 .. 23
  PROVE  ((h + 11) % 12) + 1 \in 1 .. 12
<1>1. (h + 11) % 12 \in 0 .. 11
  OBVIOUS
<1>2. QED
  BY <1>1

LEMMA HourConverted ==
  ASSUME NEW t \in 1 .. Len(Clock), registerB \in Modes
  PROVE  HourTo24(IF ~registerB.bcd THEN HourRegister(Clock[t].hour, registerB)
                  ELSE HourFromBcd(HourRegister(Clock[t].hour, registerB)))
           = Result("hour", t, registerB)
<1>1. PICK h \in 0 .. 23 : h = Clock[t].hour
  <2>1. PICK n : n = Clock[t].hour
    OBVIOUS
  <2>2. n \in 0 .. 23
    BY <2>1, MomentFacts
  <2>3. QED
    BY <2>1, <2>2
<1>2. PICK s \in 0 .. 23 : s = IF registerB.hours24 THEN h ELSE ((h + 11) % 12) + 1
  BY TwelveHours
<1>3. PICK pm \in {0, 128} : pm = IF ~registerB.hours24 /\ h >= 12 THEN 128 ELSE 0
  OBVIOUS
<1>4. /\ HourRegister(h, registerB) = (IF registerB.bcd THEN ToBcd(s) ELSE s) + pm
      /\ Result("hour", t, registerB) = IF pm = 128 THEN (s + 12) % 24 ELSE s
  <2>1. pm = 128 <=> ~registerB.hours24 /\ h >= 12
    BY <1>3
  <2>2. HourRegister(h, registerB) = (IF registerB.bcd THEN ToBcd(s) ELSE s) + pm
    BY <1>2, <1>3 DEF HourRegister, PM
  <2>3. Result("hour", t, registerB) = IF pm = 128 THEN (s + 12) % 24 ELSE s
    BY <1>1, <1>2, <2>1 DEF Result
  <2>4. QED
    BY <2>2, <2>3
<1>5. (s + pm) % 128 = s /\ (pm = 128 <=> s + pm >= 128)
  <2>1. pm = 0 \/ pm = 128
    OBVIOUS
  <2>2. QED
    BY <2>1
<1>6. HourTo24(s + pm) = IF pm = 128 THEN (s + 12) % 24 ELSE s
  <2>1. pm = 128 => ~registerB.hours24
    BY <1>3
  <2>2. pm = 0 => s + pm = s
    OBVIOUS
  <2>3. QED
    BY <1>5, <2>1, <2>2 DEF HourTo24, PM
<1>7. HourFromBcd(ToBcd(s) + pm) = s + pm
  <2>1. PICK d \in 0 .. 35 : d = ToBcd(s)
    <3>1. PICK a \in Int, b \in Int : a = s \div 10 /\ b = s % 10
      OBVIOUS
    <3>2. a \in 0 .. 2 /\ b \in 0 .. 9 /\ s = 10 * a + b
      BY <3>1
    <3>3. a * 16 + b \in 0 .. 35
      BY <3>2
    <3>4. QED
      BY <3>1, <3>3 DEF ToBcd
  <2>2. BCD2BIN(d) = s
    <3>1. s \in 0 .. 99
      OBVIOUS
    <3>2. QED
      BY <2>1, <3>1, BcdUnpacked
  <2>3. (d + pm) % 128 = d /\ ((d + pm) \div 128) * 128 = pm
    <3>1. pm = 0 \/ pm = 128
      OBVIOUS
    <3>2. (d + 128) % 128 = d /\ (d + 128) \div 128 = 1 /\ d % 128 = d /\ d \div 128 = 0
      OBVIOUS
    <3>3. QED
      BY <3>1, <3>2
  <2>4. HourFromBcd(d + pm) = BCD2BIN(d) + pm
    BY <2>3 DEF HourFromBcd, PM
  <2>5. QED
    BY <2>1, <2>2, <2>4
<1>8. HourTo24(IF ~registerB.bcd THEN HourRegister(h, registerB)
               ELSE HourFromBcd(HourRegister(h, registerB))) = HourTo24(s + pm)
  BY <1>4, <1>7
<1>9. QED
  BY <1>1, <1>4, <1>6, <1>8

LEMMA TwoDigits ==
  ASSUME NEW f \in Names \ {"hour"}, NEW t \in 1 .. Len(Clock)
  PROVE  (IF f = "year" THEN Clock[t].year % 100 ELSE Clock[t][f]) \in 0 .. 99
<1>1. CASE f = "year"
  <2>1. PICK y : y = Clock[t].year
    OBVIOUS
  <2>2. y \in 1970 .. 2099
    BY <2>1, MomentFacts
  <2>3. y % 100 \in 0 .. 99
    BY <2>2
  <2>4. QED
    BY <1>1, <2>1, <2>3, Zenon
<1>2. CASE f = "seconds"
  BY <1>2, MomentFacts
<1>3. CASE f = "minuts"
  BY <1>3, MomentFacts
<1>4. CASE f = "day"
  BY <1>4, MomentFacts
<1>5. CASE f = "month"
  BY <1>5, MomentFacts
<1>6. QED
  BY <1>1, <1>2, <1>3, <1>4, <1>5 DEF Names

LEMMA ConvertedIs ==
  ASSUME NEW f \in Names, NEW t \in 1 .. Len(Clock), registerB \in Modes,
         DOMAIN data = Names \union {"century"}, data.century = 0,
         data[f] = RawAt(f, t, registerB)
  PROVE  Converted(data)[f] = Result(f, t, registerB)
<1>1. f \in DOMAIN data
  OBVIOUS
<1>2. CASE f = "hour"
  <2>1. Converted(data)[f] = HourTo24(IF ~registerB.bcd THEN data[f] ELSE HourFromBcd(data[f]))
    BY <1>1, <1>2 DEF Converted
  <2>2. data[f] = HourRegister(Clock[t].hour, registerB)
    BY <1>2 DEF RawAt
  <2>3. QED
    BY <1>2, <2>1, <2>2, HourConverted
<1>3. CASE f # "hour"
  <2> DEFINE v == IF f = "year" THEN Clock[t].year % 100 ELSE Clock[t][f]
  <2>1. v \in 0 .. 99
    BY <1>3, TwoDigits
  <2>2. data[f] = IF registerB.bcd THEN ToBcd(v) ELSE v
    BY <1>3 DEF RawAt
  <2>3. (IF ~registerB.bcd THEN data[f] ELSE BCD2BIN(data[f])) = v
    BY <2>1, <2>2, BcdUnpacked
  <2>4. Converted(data)[f] = IF f = "year" THEN FourDigits(v) ELSE v
    BY <1>1, <1>3, <2>3 DEF Converted
  <2>5. QED
    BY <1>3, <2>4 DEF Result
<1>4. QED
  BY <1>2, <1>3

-------------------------------------------------------------------------------
(***************************************************************************)
(* The steps.                                                              *)
(***************************************************************************)
LEMMA FieldFacts ==
  /\ Len(Fields) = 6 /\ DOMAIN Fields = 1 .. 6
  /\ \A k \in 1 .. 6 : Fields[k] \in Names /\ Fields[k] # "century"
  /\ \A j, k \in 1 .. 6 : Fields[j] = Fields[k] => j = k
<1>1. \A k \in 1 .. 6 : k = 1 \/ k = 2 \/ k = 3 \/ k = 4 \/ k = 5 \/ k = 6
  OBVIOUS
<1>2. /\ Fields[1] = "seconds" /\ Fields[2] = "minuts" /\ Fields[3] = "hour"
      /\ Fields[4] = "day" /\ Fields[5] = "month" /\ Fields[6] = "year"
  BY DEF Fields
<1>3. Len(Fields) = 6 /\ DOMAIN Fields = 1 .. 6
  BY DEF Fields
<1>4. \A k \in 1 .. 6 : Fields[k] \in Names /\ Fields[k] # "century"
  BY <1>1, <1>2 DEF Names
<1>5. \A j, k \in 1 .. 6 : Fields[j] = Fields[k] => j = k
  BY <1>1, <1>2
<1>6. QED
  BY <1>3, <1>4, <1>5

LEMMA InitHolds == Init => IInv
<1>1. ASSUME Init PROVE IInv
  <2>1. DOMAIN data = Names \union {"century"}
    <3>1. Names = {Fields[k] : k \in 1 .. 6}
      <4>1. \A k \in 1 .. 6 : k = 1 \/ k = 2 \/ k = 3 \/ k = 4 \/ k = 5 \/ k = 6
        OBVIOUS
      <4>2. QED
        BY <4>1 DEF Names, Fields
    <3>2. QED
      BY <1>1, <3>1 DEF Init, Empty
  <2>2. TypeOK
    <3>1. 1 \in 1 .. Len(Clock) /\ 1 \in 1 .. 7 /\ 1 \in 1 .. 1 /\ 0 \in Nat
      BY ClockFacts
    <3>2. QED
      BY <1>1, <2>1, <3>1 DEF Init, TypeOK
  <2>3. QED
    BY <1>1, <2>2 DEF Init, IInv, ReadSinceStart, FilledSinceStart, ResultSinceStart, Returned
<1>2. QED
  BY <1>1

(* The clock goes on at any moment; what was read was shown all the same.  *)
LEMMA ClockPreserves == ASSUME IInv, BeginUpdate \/ EndUpdate PROVE IInv'
<1>1. /\ now' \in 1 .. Len(Clock) /\ now' >= now /\ updating' \in BOOLEAN /\ (updating' => now' < Len(Clock))
      /\ UNCHANGED <<registerB, pc, pos, fills, since, data, last>>
  <2>1. Len(Clock) \in Nat /\ now \in 1 .. Len(Clock) /\ (updating => now < Len(Clock))
    BY ClockFacts DEF IInv, TypeOK
  <2>2. CASE BeginUpdate
    BY <2>1, <2>2 DEF BeginUpdate
  <2>3. CASE EndUpdate
    <3>1. now' = now + 1 /\ now < Len(Clock) /\ updating' = FALSE
      BY <2>1, <2>3 DEF EndUpdate
    <3>2. now' \in 1 .. Len(Clock) /\ now' >= now
      BY <2>1, <3>1
    <3>3. UNCHANGED <<registerB, pc, pos, fills, since, data, last>>
      BY <2>3 DEF EndUpdate
    <3>4. QED
      BY <3>1, <3>2, <3>3
  <2>4. QED
    BY <2>2, <2>3
<1>2. since .. now \subseteq since .. now' /\ TypeOK'
  <2>1. Len(Clock) \in Nat /\ now \in Int /\ since \in Int /\ since >= 1 /\ since =< now
    BY ClockFacts DEF IInv, TypeOK
  <2>2. since .. now \subseteq since .. now' /\ since \in 1 .. now'
    BY <1>1, <2>1
  <2>3. QED
    BY <1>1, <2>2 DEF IInv, TypeOK
<1>3. QED
  BY <1>1, <1>2 DEF IInv, ReadSinceStart, FilledSinceStart, ResultSinceStart, Returned

(* A register is read: the clock shows it now, and what was read before    *)
(* stays (cmos.c:117-134).                                                 *)
LEMMA ReadPreserves == ASSUME IInv, Read PROVE IInv'
<1>1. /\ pc = "read" /\ pos \in 1 .. 6 /\ pos' = pos + 1
      /\ data' = [data EXCEPT ![Fields[pos]] = cmos_read_raw(Fields[pos])]
      /\ UNCHANGED <<now, updating, registerB, pc, fills, since, last>>
  BY FieldFacts DEF Read, ReadRegister, clock, IInv, TypeOK
<1>2. DOMAIN data' = Names \union {"century"} /\ Fields[pos] \in DOMAIN data
  BY <1>1, FieldFacts DEF IInv, TypeOK
<1>3. cmos_read_raw(Fields[pos]) = RawAt(Fields[pos], now, registerB)
  BY DEF cmos_read_raw, RawAt
<1>4. TypeOK'
  BY <1>1, <1>2 DEF IInv, TypeOK
<1>5. ReadSinceStart'
  <2>1. ASSUME NEW k \in 1 .. pos
        PROVE  \E t \in since .. now : data'[Fields[k]] = RawAt(Fields[k], t, registerB)
    <3>1. CASE k = pos
      <4>1. now \in since .. now
        BY ClockFacts DEF IInv, TypeOK
      <4>2. QED
        BY <1>1, <1>2, <1>3, <3>1, <4>1
    <3>2. CASE k # pos
      <4>1. k \in 1 .. pos - 1 /\ k \in 1 .. 6 /\ Fields[k] # Fields[pos]
        BY <1>1, <3>2, FieldFacts
      <4>2. data'[Fields[k]] = data[Fields[k]]
        BY <1>1, <1>2, <4>1, FieldFacts DEF IInv, TypeOK
      <4>3. QED
        BY <1>1, <4>1, <4>2 DEF IInv, ReadSinceStart
    <3>3. QED
      BY <3>1, <3>2
  <2>2. pos' - 1 = pos
    BY <1>1
  <2>3. QED
    BY <1>1, <2>1, <2>2 DEF ReadSinceStart
<1>6. FilledSinceStart' /\ ResultSinceStart'
  BY <1>1 DEF FilledSinceStart, ResultSinceStart, Returned
<1>7. QED
  BY <1>4, <1>5, <1>6 DEF IInv

(* A fill is complete, and sets the century to 0 (cmos.c:132).             *)
LEMMA FilledPreserves == ASSUME IInv, Filled PROVE IInv'
<1>1. /\ pc = "read" /\ pos = 7 /\ pos' = pos /\ pc' \in {"wait", "convert"} /\ fills' = fills + 1
      /\ data' = [data EXCEPT !["century"] = 0]
      /\ UNCHANGED <<now, updating, registerB, since>>
  <2>1. pos \in 1 .. 7 /\ pos > 6
    BY FieldFacts DEF Filled, IInv, TypeOK
  <2>2. pos = 7
    BY <2>1
  <2>3. pc' \in {"wait", "convert"}
    BY DEF Filled
  <2>4. QED
    BY <2>2, <2>3 DEF Filled, clock
<1>2. /\ DOMAIN data' = Names \union {"century"} /\ data'.century = 0
      /\ \A k \in 1 .. 6 : data'[Fields[k]] = data[Fields[k]]
  BY <1>1, FieldFacts DEF IInv, TypeOK
<1>3. TypeOK'
  BY <1>1, <1>2 DEF IInv, TypeOK
<1>4. \A k \in 1 .. 6 : \E t \in since .. now : data[Fields[k]] = RawAt(Fields[k], t, registerB)
  BY <1>1 DEF IInv, ReadSinceStart
<1>5. ReadSinceStart' /\ FilledSinceStart' /\ ResultSinceStart'
  BY <1>1, <1>2, <1>4 DEF ReadSinceStart, FilledSinceStart, ResultSinceStart, Returned
<1>6. QED
  BY <1>3, <1>5 DEF IInv

LEMMA ConvertPreserves == ASSUME IInv, Convert PROVE IInv'
<1>1. /\ pc = "convert" /\ data' = Converted(data) /\ pc' = "idle"
      /\ UNCHANGED <<now, updating, registerB, pos, fills, since, last>>
  BY DEF Convert, clock
<1>2. DOMAIN data' = DOMAIN data
  BY <1>1 DEF Converted
<1>3. TypeOK'
  BY <1>1, <1>2 DEF IInv, TypeOK
<1>4. ASSUME NEW k \in 1 .. 6
      PROVE  \E t \in since .. now : data'[Fields[k]] = Result(Fields[k], t, registerB)
  <2>1. PICK t \in since .. now : data[Fields[k]] = RawAt(Fields[k], t, registerB)
    BY <1>1 DEF IInv, FilledSinceStart
  <2>2. t \in 1 .. Len(Clock)
    BY <2>1, ClockFacts DEF IInv, TypeOK
  <2>3. Converted(data)[Fields[k]] = Result(Fields[k], t, registerB)
    BY <1>1, <2>1, <2>2, FieldFacts, ConvertedIs DEF IInv, TypeOK, FilledSinceStart
  <2>4. QED
    BY <1>1, <2>1, <2>3
<1>5. ReadSinceStart' /\ FilledSinceStart' /\ ResultSinceStart'
  BY <1>1, <1>4 DEF ReadSinceStart, FilledSinceStart, ResultSinceStart
<1>6. QED
  BY <1>3, <1>5 DEF IInv

LEMMA NextPreserves == ASSUME IInv, [Next]_vars PROVE IInv'
<1>1. CASE cmos_RTC
  BY <1>1 DEF cmos_RTC, clock, IInv, TypeOK, ReadSinceStart, FilledSinceStart, ResultSinceStart,
              Returned
<1>2. CASE Wait
  <2>1. /\ pc = "wait" /\ pos' = 1 /\ UNCHANGED <<now, updating, registerB, fills, data, last>>
        /\ \/ pc' = "read" /\ since' = now
           \/ pc' = "wait" /\ since' = since
    BY <1>2 DEF Wait, WaitFor, clock
  <2>2. now \in 1 .. now /\ 1 .. 1 - 1 = {}
    BY ClockFacts DEF IInv, TypeOK
  <2>3. TypeOK'
    BY <2>1, <2>2 DEF IInv, TypeOK
  <2>4. QED
    BY <2>1, <2>2, <2>3 DEF IInv, ReadSinceStart, FilledSinceStart, ResultSinceStart, Returned
<1>3. CASE UNCHANGED vars
  BY <1>3 DEF vars, IInv, TypeOK, ReadSinceStart, FilledSinceStart, ResultSinceStart, Returned
<1>4. QED
  BY <1>1, <1>2, <1>3, ClockPreserves, ReadPreserves, FilledPreserves, ConvertPreserves
     DEF Next, Driver

-------------------------------------------------------------------------------
(***************************************************************************)
(* The theorems.                                                           *)
(***************************************************************************)
(* Each field that cmos_RTC returns is what it makes of a register that    *)
(* was read during the last fill, for any course of the clock.             *)
THEOREM InvariantHolds == Spec => []IInv
<1>1. Init => IInv
  BY InitHolds
<1>2. IInv /\ [Next]_vars => IInv'
  BY NextPreserves
<1>3. QED
  BY <1>1, <1>2, PTL DEF Spec

(* The moments that cmos_RTC knows how to show: years up to that of the    *)
(* build, and, for a clock of 12 hours, neither noon nor midnight          *)
(* (cmos.c:184-193).  The run CmosUnits shows the others.                  *)
Supported(t, mode) ==
  /\ Clock[t].year \in 2000 .. CURRENT_YEAR
  /\ mode.hours24 \/ Clock[t].hour \notin {0, 12}

(* The fields of such moments are returned as the clock showed them.       *)
LEMMA ResultIsShown ==
  ASSUME NEW f \in Names, NEW t \in 1 .. Len(Clock), NEW mode \in Modes, Supported(t, mode)
  PROVE  Result(f, t, mode) = Clock[t][f]
<1>1. CASE f = "hour"
  <2>1. PICK h \in 0 .. 23 : h = Clock[t].hour
    <3>1. PICK n : n = Clock[t].hour
      OBVIOUS
    <3>2. n \in 0 .. 23
      BY <3>1, MomentFacts
    <3>3. QED
      BY <3>1, <3>2
  <2>2. CASE mode.hours24
    BY <1>1, <2>2 DEF Result
  <2>3. CASE ~mode.hours24
    <3>1. h # 0 /\ h # 12
      BY <2>1, <2>3 DEF Supported
    <3>2. CASE h < 12
      <4>1. (h + 11) % 12 = h - 1
        BY <3>1, <3>2
      <4>2. QED
        BY <1>1, <2>1, <2>3, <3>2, <4>1 DEF Result
    <3>3. CASE h >= 12
      <4>1. (h + 11) % 12 = h - 13 /\ (h - 13) + 1 + 12 = h /\ h % 24 = h
        BY <3>1, <3>3
      <4>2. QED
        BY <1>1, <2>1, <2>3, <3>3, <4>1 DEF Result
    <3>4. QED
      BY <3>2, <3>3
  <2>4. QED
    BY <2>2, <2>3
<1>2. CASE f = "year"
  <2>1. PICK y : y = Clock[t].year
    OBVIOUS
  <2>2. y \in 2000 .. 2017
    BY <2>1 DEF Supported, CURRENT_YEAR
  <2>3. y % 100 = y - 2000 /\ (2017 \div 100) * 100 = 2000
    BY <2>2
  <2>4. FourDigits(y % 100) = y
    BY <2>2, <2>3 DEF FourDigits, WithCentury, CURRENT_YEAR
  <2>5. QED
    BY <1>2, <2>1, <2>4 DEF Result
<1>3. CASE f \notin {"hour", "year"}
  BY <1>3 DEF Result
<1>4. QED
  BY <1>1, <1>2, <1>3

(* While the clock shows moments that cmos_RTC knows how to show, each     *)
(* field of the result is the clock's at a moment of the last fill, in     *)
(* every format of the registers (cmos.c:136-195).                         *)
THEOREM FieldsAreFresh ==
  ASSUME \A t \in DOMAIN Clock, mode \in Modes : Supported(t, mode)
  PROVE  Spec => []FieldsFresh
<1>1. ASSUME IInv, Returned, NEW k \in DOMAIN Fields
      PROVE  \E t \in since .. now : data[Fields[k]] = Clock[t][Fields[k]]
  <2>1. k \in 1 .. 6 /\ Fields[k] \in Names
    BY FieldFacts
  <2>2. PICK t \in since .. now : data[Fields[k]] = Result(Fields[k], t, registerB)
    BY <1>1, <2>1 DEF IInv, ResultSinceStart
  <2>3. t \in 1 .. Len(Clock) /\ DOMAIN Clock = 1 .. Len(Clock) /\ registerB \in Modes
    <3>1. t \in 1 .. Len(Clock) /\ registerB \in Modes
      BY <1>1, <2>2, ClockFacts DEF IInv, TypeOK
    <3>2. DOMAIN Clock = 1 .. Len(Clock)
      BY CmosAssumption, LenProperties
    <3>3. QED
      BY <3>1, <3>2
  <2>4. Result(Fields[k], t, registerB) = Clock[t][Fields[k]]
    BY <2>1, <2>3, ResultIsShown
  <2>5. QED
    BY <2>2, <2>4
<1>2. IInv => FieldsFresh
  BY <1>1 DEF FieldsFresh
<1>3. QED
  BY <1>2, InvariantHolds, PTL
===============================================================================
