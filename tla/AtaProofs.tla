------------------------------- MODULE AtaProofs -------------------------------
(***************************************************************************)
(* Proofs about Ata: whatever the drives do at whatever time, and however  *)
(* many words and addresses there are, ata.c takes back every request,     *)
(* finds the masters, speaks to idle drives and implements Disk.           *)
(***************************************************************************)
EXTENDS Ata, SequenceTheorems, TLAPS

Phase   == {"idle", "latched", "busy", "transfer"}
Cmd     == {"none", "identify", "read", "write", "store", "flush"}
Target  == <<call.bus, call.unit>>
Sought  == <<call.bus, call.unit, call.lba % Size>>

(***************************************************************************)
(* How far each routine has come with its drive: nothing asked, a command  *)
(* given, shown by the drive, ready for words; or a sector and the flush   *)
(* given, shown.  The last entry is the return.                            *)
(***************************************************************************)
Stages ==
  [ none  |-> <<"still">>,
    init  |-> <<"still", "still", "still", "given", "shown", "shown", "ready", "still", "still">>,
    read  |-> <<"still", "still", "still", "still", "still", "still", "given", "shown", "ready",
                "ready", "still", "still", "still">>,
    write |-> <<"still", "still", "still", "still", "still", "still", "still", "still", "given",
                "shown", "ready", "flushing", "flushing", "flushed", "still">> ]
Stage == Stages[call.op][at]

Allowed ==
  [ still    |-> {"idle"},
    given    |-> Phase,
    shown    |-> Phase \ {"latched"},
    ready    |-> {"idle", "transfer"},
    flushing |-> Phase \ {"transfer"},
    flushed  |-> {"idle", "busy"} ]

TypeOK ==
  /\ kind \in [Bus \X Units -> Kinds]
  /\ regs \in [Bus -> [HDDEVSEL : Nat, LBA0 : Nat, LBA1 : Nat, LBA2 : Nat]]
  /\ drive \in [Bus \X Units -> [phase : Phase, err : BOOLEAN, cmd : Cmd, fifo : Seq(Word)]]
  /\ medium \in [Place -> Contents]
  /\ intrq \in SUBSET Bus
  /\ found \in [Bus -> {"unknown", "disk", "nothing"}]
  /\ call \in [op : {"none", "init", "read", "write"}, bus : Bus, unit : Units, lba : Nat,
               data : Contents]
  /\ at \in 1 .. Len(Stages[call.op])
  /\ buf \in Seq(Word)
  /\ stopped \in BOOLEAN
  /\ outcome \in {"open", "stored", "failed"}

CallShape ==
  /\ call.op = "none" => call = None
  /\ call.op = "init" => call.unit = 0
  /\ call.op \in {"read", "write"} => Booted
  /\ stopped => call.op = "read" /\ at = 10 /\ outcome = "failed"

(* The registers that are written hold their part of the address.          *)
Addressed ==
  LET r    == regs[call.bus]
      past == IF call.op = "read" THEN 2 ELSE 4
  IN  /\ call.op = "init" /\ at > 1 => r.HDDEVSEL = 0
      /\ call.op \in {"read", "write"} =>
           /\ at > 2 => r.HDDEVSEL = SelectSector(call.unit, call.lba)[3]
           /\ at > past + 1 => r.LBA0 = SetAddress(call.lba)[1][3]
           /\ at > past + 2 => r.LBA1 = SetAddress(call.lba)[2][3]
           /\ at > past + 3 => r.LBA2 = SetAddress(call.lba)[3][3]

(* Only the drive that is addressed is at work, and on what it was told.   *)
Commanded ==
  IF call.op = "init" THEN {"identify"}
  ELSE IF call.op = "read" THEN {"read"}
  ELSE IF Stage \in {"flushing", "flushed"} THEN {"store", "flush"}
  ELSE {"write"}

DrivesFollow ==
  /\ \A d \in Bus \X Units :
       drive[d].phase \in IF d = Target THEN Allowed[Stage] ELSE {"idle"}
  /\ drive[Target].phase # "idle" => drive[Target].cmd \in Commanded
  /\ drive[Target].phase = "transfer" => kind[Target] = "disk" /\ ~drive[Target].err
  /\ drive[Target].phase # "idle" /\ drive[Target].cmd = "store" =>
       kind[Target] = "disk" /\ drive[Target].fifo = call.data
  /\ call.op = "init" /\ kind[Target] = "disk" /\ Stage # "still" =>
       drive[Target].phase # "idle" \/ drive[Target].err
  /\ call.op = "read" /\ at = 10 /\ ~stopped => drive[Target].phase = "transfer"

(* A request stands only while a drive may be at work.                     *)
RequestsTaken ==
  /\ intrq \subseteq {call.bus}
  /\ intrq # {} => "busy" \in Allowed[Stage]

(* s and t are what has and what has not yet been moved of c.              *)
Halves(s, t, c) ==
  /\ Len(s) + Len(t) = Words
  /\ \A k \in 1 .. Len(s) : s[k] = c[k]
  /\ \A k \in 1 .. Len(t) : t[k] = c[Len(s) + k]

WordsMove ==
  /\ call.op = "none" => buf = <<>>
  /\ call.op = "init" =>
       /\ at < 7 => buf = <<>>
       /\ at = 7 => Len(buf) < Words
       /\ at > 7 => Len(buf) = Words
       /\ \A k \in 1 .. Len(buf) :
            buf[k] = IF kind[Target] = "disk" /\ ~drive[Target].err THEN 3 ELSE 0
  /\ call.op = "read" =>
       /\ at < 10 => buf = <<>>
       /\ at = 10 => Len(buf) < Words
       /\ at > 10 => buf = medium[Sought]
  /\ call.op = "write" =>
       /\ at < 11 => buf = call.data
       /\ at = 11 => buf # <<>>
  /\ drive[Target].phase = "transfer" =>
       IF call.op = "write" THEN Halves(drive[Target].fifo, buf, call.data)
       ELSE Halves(buf, drive[Target].fifo, IF call.op = "init" THEN Identity ELSE medium[Sought])

(* A request is open until its sector is read or stored or the disk has    *)
(* failed, or was none.                                                    *)
OutcomeKnown ==
  /\ call.op \in {"none", "init"} => outcome = "open"
  /\ call.op = "read" =>
       /\ outcome # "stored"
       /\ outcome = "open" <=> at < 7 \/ at > 10 \/ (kind[Target] = "disk" /\ drive[Target].phase # "idle")
  /\ call.op = "write" =>
       IF at < 9 THEN outcome = "open"
       ELSE /\ outcome = "open" <=> /\ kind[Target] = "disk" /\ drive[Target].phase # "idle"
                                    /\ drive[Target].cmd # "flush"
            /\ kind[Target] # "disk" => outcome = "failed"

NothingAnswered == ~Booted => answer = <<>>

IInv == /\ TypeOK /\ CallShape /\ Addressed /\ DrivesFollow /\ RequestsTaken /\ WordsMove
        /\ OutcomeKnown /\ NothingAnswered

-------------------------------------------------------------------------------
(***************************************************************************)
(* The routines, access by access.                                         *)
(***************************************************************************)
Kind == {"outb", "command", "delay400ns", "poll", "check", "inb", "repinsw", "repoutsw", "report"}
Operand == {"", "HDDEVSEL", "LBA0", "LBA1", "LBA2", "identify", "read", "write", "flush"}
Step == Kind \X Operand \X Int

(* A program made of two, as SetAddress and ata_wait are in others         *)
(* (ata.c:125-169).                                                        *)
LEMMA Joined ==
  ASSUME NEW s \in Seq(Step), NEW t \in Seq(Step)
  PROVE  /\ s \o t \in Seq(Step) /\ Len(s \o t) = Len(s) + Len(t)
         /\ \A k \in 1 .. Len(s) : (s \o t)[k] = s[k]
         /\ \A k \in 1 .. Len(t) : (s \o t)[Len(s) + k] = t[k]
OBVIOUS

(* The accesses of which the routines consist (ata.c:32-169).              *)
LEMMA AccessTypes ==
  /\ \A a \in {"delay400ns", "poll", "check", "inb", "repinsw", "repoutsw", "report"} : Do(a) \in Step
  /\ \A c \in {"identify", "read", "write", "flush"} : Command(c) \in Step
  /\ \A r \in {"HDDEVSEL", "LBA0", "LBA1", "LBA2"}, v \in Int : outb(r, v) \in Step
<1>1. \A a \in Kind, r \in Operand, v \in Int : <<a, r, v>> \in Step
  BY DEF Step
<1>2. /\ {"delay400ns", "poll", "check", "inb", "repinsw", "repoutsw", "report"} \subseteq Kind
      /\ "command" \in Kind /\ "outb" \in Kind
  BY DEF Kind
<1>3. /\ {"identify", "read", "write", "flush"} \subseteq Operand /\ "" \in Operand
      /\ {"HDDEVSEL", "LBA0", "LBA1", "LBA2"} \subseteq Operand
  BY DEF Operand
<1>4. \A a \in {"delay400ns", "poll", "check", "inb", "repinsw", "repoutsw", "report"} : Do(a) \in Step
  <2>1. PICK z \in Int : z = 0
    OBVIOUS
  <2>2. \A a \in Kind : <<a, "", z>> \in Step
    BY <1>1, <1>3
  <2>3. QED
    BY <1>2, <2>1, <2>2 DEF Do
<1>5. \A c \in {"identify", "read", "write", "flush"} : Command(c) \in Step
  <2>1. PICK z \in Int : z = 0
    OBVIOUS
  <2>2. \A c \in Operand : <<"command", c, z>> \in Step
    BY <1>1, <1>2
  <2>3. QED
    BY <1>3, <2>1, <2>2 DEF Command
<1>6. \A r \in {"HDDEVSEL", "LBA0", "LBA1", "LBA2"}, v \in Int : outb(r, v) \in Step
  BY <1>1, <1>2, <1>3 DEF outb
<1>7. QED
  BY <1>4, <1>5, <1>6

(* The accesses of ata_wait (ata.c:39-59).                                 *)
LEMMA WaitSteps ==
  /\ ata_wait(TRUE) \in Seq(Step) /\ Len(ata_wait(TRUE)) = 3
  /\ ata_wait(TRUE)[1] = Do("delay400ns") /\ ata_wait(TRUE)[2] = Do("poll")
  /\ ata_wait(TRUE)[3] = Do("check")
  /\ ata_wait(FALSE) \in Seq(Step) /\ Len(ata_wait(FALSE)) = 2
  /\ ata_wait(FALSE)[1] = Do("delay400ns") /\ ata_wait(FALSE)[2] = Do("poll")
<1> DEFINE a == <<Do("delay400ns"), Do("poll")>>
           c == <<Do("check")>>
<1>1. Do("delay400ns") \in Step /\ Do("poll") \in Step /\ Do("check") \in Step
  BY AccessTypes
<1>2. /\ a \in Seq(Step) /\ Len(a) = 2 /\ a[1] = Do("delay400ns") /\ a[2] = Do("poll")
      /\ c \in Seq(Step) /\ Len(c) = 1 /\ c[1] = Do("check")
  BY <1>1
<1>3. ata_wait(TRUE) = a \o c /\ ata_wait(FALSE) = a \o <<>>
  BY DEF ata_wait
<1> HIDE DEF a, c
<1>4. a \o <<>> = a
  BY <1>2
<1>5. /\ a \o c \in Seq(Step) /\ Len(a \o c) = Len(a) + Len(c)
      /\ \A k \in 1 .. Len(a) : (a \o c)[k] = a[k]
      /\ \A k \in 1 .. Len(c) : (a \o c)[Len(a) + k] = c[k]
  BY <1>2, Joined
<1>6. Len(a \o c) = 3 /\ (a \o c)[1] = a[1] /\ (a \o c)[2] = a[2] /\ (a \o c)[3] = c[1]
  <2>1. (a \o c)[Len(a) + 1] = c[1]
    BY <1>2, <1>5
  <2>2. QED
    BY <1>2, <1>5, <2>1
<1>7. QED
  BY <1>2, <1>3, <1>4, <1>5, <1>6

(* The values that are written are numbers (ata.c:131-137).                *)
LEMMA SelectTyped ==
  ASSUME NEW unit \in Units, NEW lba \in Nat
  PROVE  SelectSector(unit, lba) \in Step
<1>1. Byte * Byte * Byte \in Nat \ {0}
  BY AtaAssumption
<1> DEFINE q == lba \div (Byte * Byte * Byte)
<1>2. q \in Int
  BY <1>1
<1> HIDE DEF q
<1>3. PICK x \in Int : x = q % Nibble
  BY <1>2, AtaAssumption
<1>4. PICK y \in Int : y = unit * Nibble
  BY AtaAssumption DEF Units
<1>5. outb("HDDEVSEL", y + x) \in Step
  BY AccessTypes
<1>6. QED
  BY <1>3, <1>4, <1>5 DEF SelectSector, q

(* The accesses that write the address, all but its upper four bits        *)
(* (ata.c:135-137).                                                        *)
LEMMA AddressSteps ==
  ASSUME NEW lba \in Nat
  PROVE  /\ SetAddress(lba) \in Seq(Step) /\ Len(SetAddress(lba)) = 3
         /\ SetAddress(lba)[1] = outb("LBA0", lba % Byte)
         /\ SetAddress(lba)[2] = outb("LBA1", (lba \div Byte) % Byte)
         /\ SetAddress(lba)[3] = outb("LBA2", (lba \div (Byte * Byte)) % Byte)
<1>1. Byte \in Nat \ {0} /\ Byte * Byte \in Nat \ {0}
  BY AtaAssumption
<1>2. lba % Byte \in Int /\ lba \div Byte \in Int /\ lba \div (Byte * Byte) \in Int
  BY <1>1
<1>3. (lba \div Byte) % Byte \in Int /\ (lba \div (Byte * Byte)) % Byte \in Int
  BY <1>1, <1>2
<1>4. /\ outb("LBA0", lba % Byte) \in Step /\ outb("LBA1", (lba \div Byte) % Byte) \in Step
      /\ outb("LBA2", (lba \div (Byte * Byte)) % Byte) \in Step
  BY <1>2, <1>3, AccessTypes
<1>5. QED
  BY <1>4 DEF SetAddress

(* The accesses of ide_read_sector (ata.c:125-147).                        *)
LEMMA ReadSteps ==
  ASSUME NEW unit \in Units, NEW lba \in Nat
  PROVE  /\ ide_read_sector(unit, lba) \in Seq(Step) /\ Len(ide_read_sector(unit, lba)) = 12
         /\ ide_read_sector(unit, lba)[1] = Do("poll")
         /\ ide_read_sector(unit, lba)[2] = SelectSector(unit, lba)
         /\ ide_read_sector(unit, lba)[3] = outb("LBA0", lba % Byte)
         /\ ide_read_sector(unit, lba)[4] = outb("LBA1", (lba \div Byte) % Byte)
         /\ ide_read_sector(unit, lba)[5] = outb("LBA2", (lba \div (Byte * Byte)) % Byte)
         /\ ide_read_sector(unit, lba)[6] = Command("read")
         /\ ide_read_sector(unit, lba)[7] = Do("delay400ns")
         /\ ide_read_sector(unit, lba)[8] = Do("poll")
         /\ ide_read_sector(unit, lba)[9] = Do("check")
         /\ ide_read_sector(unit, lba)[10] = Do("repinsw")
         /\ ide_read_sector(unit, lba)[11] = Do("delay400ns")
         /\ ide_read_sector(unit, lba)[12] = Do("poll")
<1> DEFINE t1 == <<Do("poll"), SelectSector(unit, lba)>>
           t2 == SetAddress(lba)
           t3 == <<Command("read")>>
           t4 == ata_wait(TRUE)
           t5 == <<Do("repinsw")>>
           t6 == ata_wait(FALSE)
           s1 == t1
           s2 == s1 \o t2
           s3 == s2 \o t3
           s4 == s3 \o t4
           s5 == s4 \o t5
           s6 == s5 \o t6
<1>1. /\ t1 \in Seq(Step) /\ Len(t1) = 2
      /\ t1[1] = Do("poll")
      /\ t1[2] = SelectSector(unit, lba)
  BY AccessTypes, SelectTyped
<1>2. /\ t2 \in Seq(Step) /\ Len(t2) = 3
      /\ t2[1] = outb("LBA0", lba % Byte)
      /\ t2[2] = outb("LBA1", (lba \div Byte) % Byte)
      /\ t2[3] = outb("LBA2", (lba \div (Byte * Byte)) % Byte)
  BY AddressSteps
<1>3. /\ t3 \in Seq(Step) /\ Len(t3) = 1
      /\ t3[1] = Command("read")
  BY AccessTypes
<1>4. /\ t4 \in Seq(Step) /\ Len(t4) = 3
      /\ t4[1] = Do("delay400ns")
      /\ t4[2] = Do("poll")
      /\ t4[3] = Do("check")
  BY WaitSteps
<1>5. /\ t5 \in Seq(Step) /\ Len(t5) = 1
      /\ t5[1] = Do("repinsw")
  BY AccessTypes
<1>6. /\ t6 \in Seq(Step) /\ Len(t6) = 2
      /\ t6[1] = Do("delay400ns")
      /\ t6[2] = Do("poll")
  BY WaitSteps
<1>7. ide_read_sector(unit, lba) = s6
  BY DEF ide_read_sector
<1> HIDE DEF t1, t2, t3, t4, t5, t6
<1>8. /\ s2 \in Seq(Step) /\ Len(s2) = 5
      /\ \A k \in 1 .. 2 : s2[k] = s1[k]
      /\ s2[3] = t2[1]
      /\ s2[4] = t2[2]
      /\ s2[5] = t2[3]
  <2>1. s1 \in Seq(Step) /\ Len(s1) = 2 /\ t2 \in Seq(Step) /\ Len(t2) = 3
    BY <1>1, <1>2
  <2> HIDE DEF s1
  <2>2. /\ s2 \in Seq(Step) /\ Len(s2) = Len(s1) + Len(t2)
        /\ \A k \in 1 .. Len(s1) : s2[k] = s1[k]
        /\ \A k \in 1 .. Len(t2) : s2[Len(s1) + k] = t2[k]
    BY <2>1, Joined
  <2> HIDE DEF s2
  <2>3. s2[Len(s1) + 1] = t2[1] /\ s2[Len(s1) + 2] = t2[2] /\ s2[Len(s1) + 3] = t2[3]
    BY <2>1, <2>2
  <2>4. QED
    BY <2>1, <2>2, <2>3
<1>9. /\ s3 \in Seq(Step) /\ Len(s3) = 6
      /\ \A k \in 1 .. 5 : s3[k] = s2[k]
      /\ s3[6] = t3[1]
  <2>1. s2 \in Seq(Step) /\ Len(s2) = 5 /\ t3 \in Seq(Step) /\ Len(t3) = 1
    BY <1>8, <1>3
  <2> HIDE DEF s2
  <2>2. /\ s3 \in Seq(Step) /\ Len(s3) = Len(s2) + Len(t3)
        /\ \A k \in 1 .. Len(s2) : s3[k] = s2[k]
        /\ \A k \in 1 .. Len(t3) : s3[Len(s2) + k] = t3[k]
    BY <2>1, Joined
  <2> HIDE DEF s3
  <2>3. s3[Len(s2) + 1] = t3[1]
    BY <2>1, <2>2
  <2>4. QED
    BY <2>1, <2>2, <2>3
<1>10. /\ s4 \in Seq(Step) /\ Len(s4) = 9
      /\ \A k \in 1 .. 6 : s4[k] = s3[k]
      /\ s4[7] = t4[1]
      /\ s4[8] = t4[2]
      /\ s4[9] = t4[3]
  <2>1. s3 \in Seq(Step) /\ Len(s3) = 6 /\ t4 \in Seq(Step) /\ Len(t4) = 3
    BY <1>9, <1>4
  <2> HIDE DEF s3
  <2>2. /\ s4 \in Seq(Step) /\ Len(s4) = Len(s3) + Len(t4)
        /\ \A k \in 1 .. Len(s3) : s4[k] = s3[k]
        /\ \A k \in 1 .. Len(t4) : s4[Len(s3) + k] = t4[k]
    BY <2>1, Joined
  <2> HIDE DEF s4
  <2>3. s4[Len(s3) + 1] = t4[1] /\ s4[Len(s3) + 2] = t4[2] /\ s4[Len(s3) + 3] = t4[3]
    BY <2>1, <2>2
  <2>4. QED
    BY <2>1, <2>2, <2>3
<1>11. /\ s5 \in Seq(Step) /\ Len(s5) = 10
      /\ \A k \in 1 .. 9 : s5[k] = s4[k]
      /\ s5[10] = t5[1]
  <2>1. s4 \in Seq(Step) /\ Len(s4) = 9 /\ t5 \in Seq(Step) /\ Len(t5) = 1
    BY <1>10, <1>5
  <2> HIDE DEF s4
  <2>2. /\ s5 \in Seq(Step) /\ Len(s5) = Len(s4) + Len(t5)
        /\ \A k \in 1 .. Len(s4) : s5[k] = s4[k]
        /\ \A k \in 1 .. Len(t5) : s5[Len(s4) + k] = t5[k]
    BY <2>1, Joined
  <2> HIDE DEF s5
  <2>3. s5[Len(s4) + 1] = t5[1]
    BY <2>1, <2>2
  <2>4. QED
    BY <2>1, <2>2, <2>3
<1>12. /\ s6 \in Seq(Step) /\ Len(s6) = 12
      /\ \A k \in 1 .. 10 : s6[k] = s5[k]
      /\ s6[11] = t6[1]
      /\ s6[12] = t6[2]
  <2>1. s5 \in Seq(Step) /\ Len(s5) = 10 /\ t6 \in Seq(Step) /\ Len(t6) = 2
    BY <1>11, <1>6
  <2> HIDE DEF s5
  <2>2. /\ s6 \in Seq(Step) /\ Len(s6) = Len(s5) + Len(t6)
        /\ \A k \in 1 .. Len(s5) : s6[k] = s5[k]
        /\ \A k \in 1 .. Len(t6) : s6[Len(s5) + k] = t6[k]
    BY <2>1, Joined
  <2> HIDE DEF s6
  <2>3. s6[Len(s5) + 1] = t6[1] /\ s6[Len(s5) + 2] = t6[2]
    BY <2>1, <2>2
  <2>4. QED
    BY <2>1, <2>2, <2>3
<1> HIDE DEF s1, s2, s3, s4, s5, s6
<1>13. /\ s6[1] = Do("poll")
      /\ s6[2] = SelectSector(unit, lba)
      /\ s6[3] = outb("LBA0", lba % Byte)
      /\ s6[4] = outb("LBA1", (lba \div Byte) % Byte)
      /\ s6[5] = outb("LBA2", (lba \div (Byte * Byte)) % Byte)
      /\ s6[6] = Command("read")
      /\ s6[7] = Do("delay400ns")
      /\ s6[8] = Do("poll")
      /\ s6[9] = Do("check")
      /\ s6[10] = Do("repinsw")
      /\ s6[11] = Do("delay400ns")
      /\ s6[12] = Do("poll")
  BY <1>1, <1>2, <1>3, <1>4, <1>5, <1>6, <1>8, <1>9, <1>10, <1>11, <1>12 DEF s1
<1>14. QED
  BY <1>7, <1>12, <1>13

(* The accesses of ide_write_sector (ata.c:149-169).                       *)
LEMMA WriteSteps ==
  ASSUME NEW unit \in Units, NEW lba \in Nat
  PROVE  /\ ide_write_sector(unit, lba) \in Seq(Step) /\ Len(ide_write_sector(unit, lba)) = 14
         /\ ide_write_sector(unit, lba)[1] = Do("poll")
         /\ ide_write_sector(unit, lba)[2] = SelectSector(unit, lba)
         /\ ide_write_sector(unit, lba)[3] = Do("delay400ns")
         /\ ide_write_sector(unit, lba)[4] = Do("poll")
         /\ ide_write_sector(unit, lba)[5] = outb("LBA0", lba % Byte)
         /\ ide_write_sector(unit, lba)[6] = outb("LBA1", (lba \div Byte) % Byte)
         /\ ide_write_sector(unit, lba)[7] = outb("LBA2", (lba \div (Byte * Byte)) % Byte)
         /\ ide_write_sector(unit, lba)[8] = Command("write")
         /\ ide_write_sector(unit, lba)[9] = Do("delay400ns")
         /\ ide_write_sector(unit, lba)[10] = Do("poll")
         /\ ide_write_sector(unit, lba)[11] = Do("repoutsw")
         /\ ide_write_sector(unit, lba)[12] = Command("flush")
         /\ ide_write_sector(unit, lba)[13] = Do("delay400ns")
         /\ ide_write_sector(unit, lba)[14] = Do("poll")
<1> DEFINE t1 == <<Do("poll"), SelectSector(unit, lba)>>
           t2 == ata_wait(FALSE)
           t3 == SetAddress(lba)
           t4 == <<Command("write")>>
           t5 == ata_wait(FALSE)
           t6 == <<Do("repoutsw"), Command("flush")>>
           t7 == ata_wait(FALSE)
           s1 == t1
           s2 == s1 \o t2
           s3 == s2 \o t3
           s4 == s3 \o t4
           s5 == s4 \o t5
           s6 == s5 \o t6
           s7 == s6 \o t7
<1>1. /\ t1 \in Seq(Step) /\ Len(t1) = 2
      /\ t1[1] = Do("poll")
      /\ t1[2] = SelectSector(unit, lba)
  BY AccessTypes, SelectTyped
<1>2. /\ t2 \in Seq(Step) /\ Len(t2) = 2
      /\ t2[1] = Do("delay400ns")
      /\ t2[2] = Do("poll")
  BY WaitSteps
<1>3. /\ t3 \in Seq(Step) /\ Len(t3) = 3
      /\ t3[1] = outb("LBA0", lba % Byte)
      /\ t3[2] = outb("LBA1", (lba \div Byte) % Byte)
      /\ t3[3] = outb("LBA2", (lba \div (Byte * Byte)) % Byte)
  BY AddressSteps
<1>4. /\ t4 \in Seq(Step) /\ Len(t4) = 1
      /\ t4[1] = Command("write")
  BY AccessTypes
<1>5. /\ t5 \in Seq(Step) /\ Len(t5) = 2
      /\ t5[1] = Do("delay400ns")
      /\ t5[2] = Do("poll")
  BY WaitSteps
<1>6. /\ t6 \in Seq(Step) /\ Len(t6) = 2
      /\ t6[1] = Do("repoutsw")
      /\ t6[2] = Command("flush")
  BY AccessTypes
<1>7. /\ t7 \in Seq(Step) /\ Len(t7) = 2
      /\ t7[1] = Do("delay400ns")
      /\ t7[2] = Do("poll")
  BY WaitSteps
<1>8. ide_write_sector(unit, lba) = s7
  BY DEF ide_write_sector
<1> HIDE DEF t1, t2, t3, t4, t5, t6, t7
<1>9. /\ s2 \in Seq(Step) /\ Len(s2) = 4
      /\ \A k \in 1 .. 2 : s2[k] = s1[k]
      /\ s2[3] = t2[1]
      /\ s2[4] = t2[2]
  <2>1. s1 \in Seq(Step) /\ Len(s1) = 2 /\ t2 \in Seq(Step) /\ Len(t2) = 2
    BY <1>1, <1>2
  <2> HIDE DEF s1
  <2>2. /\ s2 \in Seq(Step) /\ Len(s2) = Len(s1) + Len(t2)
        /\ \A k \in 1 .. Len(s1) : s2[k] = s1[k]
        /\ \A k \in 1 .. Len(t2) : s2[Len(s1) + k] = t2[k]
    BY <2>1, Joined
  <2> HIDE DEF s2
  <2>3. s2[Len(s1) + 1] = t2[1] /\ s2[Len(s1) + 2] = t2[2]
    BY <2>1, <2>2
  <2>4. QED
    BY <2>1, <2>2, <2>3
<1>10. /\ s3 \in Seq(Step) /\ Len(s3) = 7
      /\ \A k \in 1 .. 4 : s3[k] = s2[k]
      /\ s3[5] = t3[1]
      /\ s3[6] = t3[2]
      /\ s3[7] = t3[3]
  <2>1. s2 \in Seq(Step) /\ Len(s2) = 4 /\ t3 \in Seq(Step) /\ Len(t3) = 3
    BY <1>9, <1>3
  <2> HIDE DEF s2
  <2>2. /\ s3 \in Seq(Step) /\ Len(s3) = Len(s2) + Len(t3)
        /\ \A k \in 1 .. Len(s2) : s3[k] = s2[k]
        /\ \A k \in 1 .. Len(t3) : s3[Len(s2) + k] = t3[k]
    BY <2>1, Joined
  <2> HIDE DEF s3
  <2>3. s3[Len(s2) + 1] = t3[1] /\ s3[Len(s2) + 2] = t3[2] /\ s3[Len(s2) + 3] = t3[3]
    BY <2>1, <2>2
  <2>4. QED
    BY <2>1, <2>2, <2>3
<1>11. /\ s4 \in Seq(Step) /\ Len(s4) = 8
      /\ \A k \in 1 .. 7 : s4[k] = s3[k]
      /\ s4[8] = t4[1]
  <2>1. s3 \in Seq(Step) /\ Len(s3) = 7 /\ t4 \in Seq(Step) /\ Len(t4) = 1
    BY <1>10, <1>4
  <2> HIDE DEF s3
  <2>2. /\ s4 \in Seq(Step) /\ Len(s4) = Len(s3) + Len(t4)
        /\ \A k \in 1 .. Len(s3) : s4[k] = s3[k]
        /\ \A k \in 1 .. Len(t4) : s4[Len(s3) + k] = t4[k]
    BY <2>1, Joined
  <2> HIDE DEF s4
  <2>3. s4[Len(s3) + 1] = t4[1]
    BY <2>1, <2>2
  <2>4. QED
    BY <2>1, <2>2, <2>3
<1>12. /\ s5 \in Seq(Step) /\ Len(s5) = 10
      /\ \A k \in 1 .. 8 : s5[k] = s4[k]
      /\ s5[9] = t5[1]
      /\ s5[10] = t5[2]
  <2>1. s4 \in Seq(Step) /\ Len(s4) = 8 /\ t5 \in Seq(Step) /\ Len(t5) = 2
    BY <1>11, <1>5
  <2> HIDE DEF s4
  <2>2. /\ s5 \in Seq(Step) /\ Len(s5) = Len(s4) + Len(t5)
        /\ \A k \in 1 .. Len(s4) : s5[k] = s4[k]
        /\ \A k \in 1 .. Len(t5) : s5[Len(s4) + k] = t5[k]
    BY <2>1, Joined
  <2> HIDE DEF s5
  <2>3. s5[Len(s4) + 1] = t5[1] /\ s5[Len(s4) + 2] = t5[2]
    BY <2>1, <2>2
  <2>4. QED
    BY <2>1, <2>2, <2>3
<1>13. /\ s6 \in Seq(Step) /\ Len(s6) = 12
      /\ \A k \in 1 .. 10 : s6[k] = s5[k]
      /\ s6[11] = t6[1]
      /\ s6[12] = t6[2]
  <2>1. s5 \in Seq(Step) /\ Len(s5) = 10 /\ t6 \in Seq(Step) /\ Len(t6) = 2
    BY <1>12, <1>6
  <2> HIDE DEF s5
  <2>2. /\ s6 \in Seq(Step) /\ Len(s6) = Len(s5) + Len(t6)
        /\ \A k \in 1 .. Len(s5) : s6[k] = s5[k]
        /\ \A k \in 1 .. Len(t6) : s6[Len(s5) + k] = t6[k]
    BY <2>1, Joined
  <2> HIDE DEF s6
  <2>3. s6[Len(s5) + 1] = t6[1] /\ s6[Len(s5) + 2] = t6[2]
    BY <2>1, <2>2
  <2>4. QED
    BY <2>1, <2>2, <2>3
<1>14. /\ s7 \in Seq(Step) /\ Len(s7) = 14
      /\ \A k \in 1 .. 12 : s7[k] = s6[k]
      /\ s7[13] = t7[1]
      /\ s7[14] = t7[2]
  <2>1. s6 \in Seq(Step) /\ Len(s6) = 12 /\ t7 \in Seq(Step) /\ Len(t7) = 2
    BY <1>13, <1>7
  <2> HIDE DEF s6
  <2>2. /\ s7 \in Seq(Step) /\ Len(s7) = Len(s6) + Len(t7)
        /\ \A k \in 1 .. Len(s6) : s7[k] = s6[k]
        /\ \A k \in 1 .. Len(t7) : s7[Len(s6) + k] = t7[k]
    BY <2>1, Joined
  <2> HIDE DEF s7
  <2>3. s7[Len(s6) + 1] = t7[1] /\ s7[Len(s6) + 2] = t7[2]
    BY <2>1, <2>2
  <2>4. QED
    BY <2>1, <2>2, <2>3
<1> HIDE DEF s1, s2, s3, s4, s5, s6, s7
<1>15. /\ s7[1] = Do("poll")
      /\ s7[2] = SelectSector(unit, lba)
      /\ s7[3] = Do("delay400ns")
      /\ s7[4] = Do("poll")
      /\ s7[5] = outb("LBA0", lba % Byte)
      /\ s7[6] = outb("LBA1", (lba \div Byte) % Byte)
      /\ s7[7] = outb("LBA2", (lba \div (Byte * Byte)) % Byte)
      /\ s7[8] = Command("write")
      /\ s7[9] = Do("delay400ns")
      /\ s7[10] = Do("poll")
      /\ s7[11] = Do("repoutsw")
      /\ s7[12] = Command("flush")
      /\ s7[13] = Do("delay400ns")
      /\ s7[14] = Do("poll")
  BY <1>1, <1>2, <1>3, <1>4, <1>5, <1>6, <1>7, <1>9, <1>10, <1>11, <1>12, <1>13, <1>14 DEF s1
<1>16. QED
  BY <1>8, <1>14, <1>15

-------------------------------------------------------------------------------
(***************************************************************************)
(* Addresses.                                                              *)
(***************************************************************************)
(* Quotient and remainder.                                                 *)
LEMMA DividedBy ==
  ASSUME NEW a \in Nat, NEW b \in Nat \ {0}
  PROVE  \E q, r \in Nat : q = a \div b /\ r = a % b /\ r < b /\ a = b * q + r
<1>1. \E q, r \in Int : q = a \div b /\ r = a % b /\ a = b * q + r
  OBVIOUS
<1>2. PICK q \in Int, r \in Int : q = a \div b /\ r = a % b /\ a = b * q + r
  BY <1>1
<1>3. q \in Nat /\ r \in Nat /\ r < b
  BY <1>2
<1>4. QED
  BY <1>2, <1>3

(* There is but one of each.                                               *)
LEMMA DivisionUnique ==
  ASSUME NEW b \in Nat \ {0}, NEW q \in Nat, NEW r \in Nat, r < b
  PROVE  (b * q + r) \div b = q /\ (b * q + r) % b = r
<1>1. PICK a \in Nat : a = b * q + r
  OBVIOUS
<1>2. PICK p, s \in Nat : p = a \div b /\ s = a % b /\ s < b /\ a = b * p + s
  BY DividedBy
<1>3. b * (p - q) = r - s
  <2>1. b * (p - q) = b * p - b * q
    OBVIOUS
  <2>2. b * p \in Int /\ b * q \in Int
    OBVIOUS
  <2>3. QED
    BY <1>1, <1>2, <2>1, <2>2
<1>4. ~(p - q >= 1)
  <2>1. SUFFICES ASSUME p - q >= 1 PROVE FALSE
    OBVIOUS
  <2>2. b * (p - q) >= b * 1
    BY <2>1
  <2>3. QED
    BY <1>2, <1>3, <2>2
<1>5. ~(p - q =< -1)
  <2>1. SUFFICES ASSUME q - p >= 1 PROVE FALSE
    OBVIOUS
  <2>2. b * (q - p) >= b * 1 /\ b * (q - p) = -(b * (p - q))
    BY <2>1
  <2>3. QED
    BY <1>2, <1>3, <2>2
<1>6. p = q
  BY <1>4, <1>5
<1>7. QED
  BY <1>1, <1>2, <1>6

(* Dividing by a product is dividing twice.                                *)
LEMMA DividedTwice ==
  ASSUME NEW a \in Nat, NEW b \in Nat \ {0}, NEW c \in Nat \ {0}
  PROVE  /\ a \div (b * c) = (a \div b) \div c
         /\ a % (b * c) = b * ((a \div b) % c) + (a % b)
<1>1. PICK q, r \in Nat : q = a \div b /\ r = a % b /\ r < b /\ a = b * q + r
  BY DividedBy
<1>2. PICK p, s \in Nat : p = q \div c /\ s = q % c /\ s < c /\ q = c * p + s
  BY DividedBy
<1>3. PICK t \in Nat : t = b * s + r
  OBVIOUS
<1>4. PICK d \in Nat \ {0} : d = b * c
  OBVIOUS
<1>5. t < d
  <2>1. b * s =< b * (c - 1) /\ b * (c - 1) = b * c - b
    BY <1>2
  <2>2. b * s \in Nat /\ b * c \in Nat
    OBVIOUS
  <2>3. QED
    BY <1>1, <1>3, <1>4, <2>1, <2>2
<1>6. a = d * p + t
  <2>1. PICK u \in Nat : u = (b * c) * p
    OBVIOUS
  <2>2. PICK v \in Nat : v = b * s
    OBVIOUS
  <2>3. b * (c * p + s) = u + v
    <3>1. b * (c * p + s) = (b * c) * p + b * s
      OBVIOUS
    <3>2. QED
      BY <3>1, <2>1, <2>2
  <2>4. b * q = u + v
    BY <1>2, <2>3, Zenon
  <2>5. a = u + v + r /\ t = v + r
    <3>1. PICK w \in Nat : w = b * q
      OBVIOUS
    <3>2. QED
      BY <1>1, <1>3, <2>2, <2>4
  <2>6. a = u + t
    BY <2>5
  <2>7. QED
    BY <1>4, <2>1, <2>6, Zenon
<1>7. a \div d = p /\ a % d = t
  BY <1>5, <1>6, DivisionUnique
<1>8. a \div (b * c) = p /\ a % (b * c) = t
  BY <1>4, <1>7, Zenon
<1>9. (a \div b) \div c = p
  BY <1>1, <1>2, Zenon
<1>10. b * ((a \div b) % c) + (a % b) = t
  <2>1. (a \div b) % c = s
    BY <1>1, <1>2, Zenon
  <2>2. a % b = r
    BY <1>1, Zenon
  <2>3. QED
    BY <2>1, <2>2, <1>3, Zenon
<1>11. QED
  BY <1>8, <1>9, <1>10, Zenon

(* An address falls into three bytes and four bits, and they make it up    *)
(* again but for the bits beyond (ata.c:131-137).                          *)
LEMMA AddressParts ==
  ASSUME NEW lba \in Nat
  PROVE  \E r0, r1, r2, r3 \in Nat :
           /\ r0 = lba % Byte /\ r1 = (lba \div Byte) % Byte
           /\ r2 = (lba \div (Byte * Byte)) % Byte
           /\ r3 = (lba \div (Byte * Byte * Byte)) % Nibble /\ r3 < Nibble
           /\ lba % Size = r0 + Byte * r1 + Byte * Byte * r2 + Byte * Byte * Byte * r3
<1>1. PICK b1 \in Nat \ {0} : b1 = Byte
  BY AtaAssumption
<1>2. PICK n \in Nat \ {0} : n = Nibble
  BY AtaAssumption
<1>3. PICK b2 \in Nat \ {0} : b2 = b1 * b1
  OBVIOUS
<1>4. PICK b3 \in Nat \ {0} : b3 = b2 * b1
  OBVIOUS
<1>5. PICK q1, r0 \in Nat : q1 = lba \div b1 /\ r0 = lba % b1 /\ r0 < b1 /\ lba = b1 * q1 + r0
  BY DividedBy
<1>6. PICK x1, r1 \in Nat : x1 = q1 \div b1 /\ r1 = q1 % b1 /\ r1 < b1 /\ q1 = b1 * x1 + r1
  BY DividedBy
<1>7. PICK q2, s2 \in Nat : q2 = lba \div b2 /\ s2 = lba % b2 /\ s2 < b2 /\ lba = b2 * q2 + s2
  BY DividedBy
<1>8. PICK x2, r2 \in Nat : x2 = q2 \div b1 /\ r2 = q2 % b1 /\ r2 < b1 /\ q2 = b1 * x2 + r2
  BY DividedBy
<1>9. PICK q3, s3 \in Nat : q3 = lba \div b3 /\ s3 = lba % b3 /\ s3 < b3 /\ lba = b3 * q3 + s3
  BY DividedBy
<1>10. PICK x3, r3 \in Nat : x3 = q3 \div n /\ r3 = q3 % n /\ r3 < n /\ q3 = n * x3 + r3
  BY DividedBy
<1>11. s2 = b1 * r1 + r0
  <2>1. lba % (b1 * b1) = b1 * ((lba \div b1) % b1) + (lba % b1)
    BY DividedTwice
  <2>2. (lba \div b1) % b1 = r1
    BY <1>5, <1>6, Zenon
  <2>3. lba % b1 = r0 /\ lba % (b1 * b1) = s2
    BY <1>3, <1>5, <1>7, Zenon
  <2>4. QED
    BY <2>1, <2>2, <2>3, Zenon
<1>12. s3 = b2 * r2 + s2
  <2>1. lba % (b2 * b1) = b2 * ((lba \div b2) % b1) + (lba % b2)
    BY DividedTwice
  <2>2. (lba \div b2) % b1 = r2
    BY <1>7, <1>8, Zenon
  <2>3. lba % b2 = s2 /\ lba % (b2 * b1) = s3
    BY <1>4, <1>7, <1>9, Zenon
  <2>4. QED
    BY <2>1, <2>2, <2>3, Zenon
<1>13. lba % (b3 * n) = b3 * r3 + s3
  <2>1. lba % (b3 * n) = b3 * ((lba \div b3) % n) + (lba % b3)
    BY DividedTwice
  <2>2. (lba \div b3) % n = r3 /\ lba % b3 = s3
    BY <1>9, <1>10, Zenon
  <2>3. QED
    BY <2>1, <2>2, Zenon
<1>14. lba % (b3 * n) = r0 + b1 * r1 + b2 * r2 + b3 * r3
  <2>1. b1 * r1 \in Nat /\ b2 * r2 \in Nat /\ b3 * r3 \in Nat
    OBVIOUS
  <2>2. QED
    BY <1>11, <1>12, <1>13, <2>1
<1>15. Byte * Byte = b2 /\ Byte * Byte * Byte = b3 /\ Size = b3 * n
  BY <1>1, <1>2, <1>3, <1>4 DEF Size
<1>16. /\ r0 = lba % Byte /\ r1 = (lba \div Byte) % Byte
       /\ r2 = (lba \div (Byte * Byte)) % Byte
       /\ r3 = (lba \div (Byte * Byte * Byte)) % Nibble
  BY <1>1, <1>2, <1>5, <1>6, <1>7, <1>8, <1>9, <1>10, <1>15
<1>17. lba % Size = r0 + Byte * r1 + Byte * Byte * r2 + Byte * Byte * Byte * r3
  BY <1>1, <1>14, <1>15
<1>18. QED
  BY <1>2, <1>10, <1>16, <1>17

(* The fourth register holds the unit above the four bits (ata.c:131).     *)
LEMMA UnitSelected ==
  ASSUME NEW unit \in Units, NEW lba \in Nat
  PROVE  LET v == SelectSector(unit, lba)[3]
         IN  /\ v \in Nat /\ v \div Nibble = unit
             /\ v % Nibble = (lba \div (Byte * Byte * Byte)) % Nibble
<1>1. PICK r3 \in Nat : r3 = (lba \div (Byte * Byte * Byte)) % Nibble /\ r3 < Nibble
  BY AddressParts
<1>2. unit \in Nat /\ Nibble \in Nat \ {0}
  BY AtaAssumption DEF Units
<1>3. (Nibble * unit + r3) \div Nibble = unit /\ (Nibble * unit + r3) % Nibble = r3
  BY <1>1, <1>2, DivisionUnique
<1>4. Nibble * unit + r3 = unit * Nibble + r3 /\ Nibble * unit + r3 \in Nat
  BY <1>2
<1>5. SelectSector(unit, lba)[3] = unit * Nibble + r3
  BY <1>1 DEF SelectSector, outb
<1>6. QED
  BY <1>1, <1>3, <1>4, <1>5

(* The registers that the routines fill name the sector that was asked     *)
(* for, up to the width of an address (ata.c:131-137).                     *)
LEMMA SectorAddressed ==
  ASSUME NEW unit \in Units, NEW lba \in Nat, NEW r,
         r.HDDEVSEL = SelectSector(unit, lba)[3],
         r.LBA0 = SetAddress(lba)[1][3], r.LBA1 = SetAddress(lba)[2][3],
         r.LBA2 = SetAddress(lba)[3][3]
  PROVE  Sector(r) = lba % Size
<1>1. /\ r.LBA0 = lba % Byte /\ r.LBA1 = (lba \div Byte) % Byte
      /\ r.LBA2 = (lba \div (Byte * Byte)) % Byte
  BY DEF SetAddress, outb
<1>2. r.HDDEVSEL % Nibble = (lba \div (Byte * Byte * Byte)) % Nibble
  BY UnitSelected
<1>3. QED
  BY <1>1, <1>2, AddressParts DEF Sector

(* Every address that is asked for is one of the disk's.                   *)
LEMMA PlaceExists ==
  ASSUME NEW b \in Bus, NEW unit \in Units, NEW lba \in Nat
  PROVE  <<b, unit, lba % Size>> \in Place
<1>1. Size \in Nat \ {0}
  BY AtaAssumption DEF Size
<1>2. PICK q, r \in Nat : q = lba \div Size /\ r = lba % Size /\ r < Size
  BY <1>1, DividedBy
<1>3. lba % Size \in 0 .. Size - 1
  BY <1>1, <1>2
<1>4. QED
  BY <1>3 DEF Place

(* No drive but the first is identified.                                   *)
LEMMA MasterSelected == 0 \div Nibble = 0
<1>1. (Nibble * 0 + 0) \div Nibble = 0
  BY AtaAssumption, DivisionUnique
<1>2. QED
  BY <1>1, AtaAssumption

-------------------------------------------------------------------------------
(***************************************************************************)
(* Words on their way.                                                     *)
(***************************************************************************)
(* At first nothing has been moved, at last everything.                    *)
LEMMA NothingMoved ==
  ASSUME NEW c \in Contents
  PROVE  c \in Seq(Word) /\ Len(c) = Words /\ Halves(<<>>, c, c)
<1>1. c \in Seq(Word) /\ Len(c) = Words
  BY AtaAssumption DEF Contents
<1>2. QED
  BY <1>1 DEF Halves

(* What has been moved as a whole is the sector.                           *)
LEMMA AllMoved ==
  ASSUME NEW c \in Contents, NEW s \in Seq(Word), Halves(s, <<>>, c)
  PROVE  s = c
<1>1. c \in Seq(Word) /\ Len(c) = Words
  BY NothingMoved
<1>2. Len(s) = Words /\ \A k \in 1 .. Len(s) : s[k] = c[k]
  BY DEF Halves
<1>3. QED
  BY <1>1, <1>2, SeqEqual

(* One word more (util.c:11-20).                                           *)
LEMMA OneMoved ==
  ASSUME NEW c \in Contents, NEW s \in Seq(Word), NEW t \in Seq(Word), t # <<>>, Halves(s, t, c)
  PROVE  /\ Append(s, Head(t)) \in Seq(Word) /\ Len(Append(s, Head(t))) = Len(s) + 1
         /\ Tail(t) \in Seq(Word) /\ Len(Tail(t)) = Len(t) - 1
         /\ Halves(Append(s, Head(t)), Tail(t), c)
<1>1. PICK u : u = Append(s, Head(t))
  OBVIOUS
<1>2. PICK w : w = Tail(t)
  OBVIOUS
<1>3. /\ u \in Seq(Word) /\ Len(u) = Len(s) + 1 /\ u[Len(s) + 1] = t[1]
      /\ \A k \in 1 .. Len(s) : u[k] = s[k]
  <2>1. Head(t) \in Word /\ Head(t) = t[1]
    OBVIOUS
  <2>2. QED
    BY <1>1, <2>1, AppendProperties
<1>4. w \in Seq(Word) /\ Len(w) = Len(t) - 1 /\ \A k \in 1 .. Len(w) : w[k] = t[k + 1]
  BY <1>2
<1>5. Len(s) \in Nat /\ Len(t) \in Nat /\ Len(t) > 0 /\ t[1] = c[Len(s) + 1]
  BY DEF Halves
<1>6. Len(u) + Len(w) = Words
  BY <1>3, <1>4, <1>5 DEF Halves
<1>7. \A k \in 1 .. Len(u) : u[k] = c[k]
  BY <1>3, <1>5 DEF Halves
<1>8. ASSUME NEW k \in 1 .. Len(w) PROVE w[k] = c[Len(u) + k]
  <2>1. PICK j : j = k + 1
    OBVIOUS
  <2>2. j \in 1 .. Len(t) /\ Len(u) + k = Len(s) + j
    BY <1>3, <1>4, <1>5, <2>1
  <2>3. QED
    BY <1>4, <2>1, <2>2 DEF Halves
<1>9. QED
  BY <1>1, <1>2, <1>3, <1>4, <1>6, <1>7, <1>8 DEF Halves

(* Blank and what a disk says of itself are sectors.                       *)
LEMMA SectorsOfThrees == Blank \in Contents /\ Identity \in Contents /\ Identity = Blank
BY DEF Blank, Identity, Contents, Word

-------------------------------------------------------------------------------
(***************************************************************************)
(* Where a routine is.                                                     *)
(***************************************************************************)
(* Where the stages change.                                                *)
LEMMA StageTable ==
  /\ Len(Stages["none"]) = 1 /\ Len(Stages["init"]) = 9
  /\ Len(Stages["read"]) = 13 /\ Len(Stages["write"]) = 15
  /\ Stages["none"][1] = "still"
  /\ \A k \in {1, 2, 3, 8, 9} : Stages["init"][k] = "still"
  /\ Stages["init"][4] = "given" /\ Stages["init"][5] = "shown" /\ Stages["init"][6] = "shown"
  /\ Stages["init"][7] = "ready"
  /\ \A k \in {1, 2, 3, 4, 5, 6, 11, 12, 13} : Stages["read"][k] = "still"
  /\ Stages["read"][7] = "given" /\ Stages["read"][8] = "shown"
  /\ Stages["read"][9] = "ready" /\ Stages["read"][10] = "ready"
  /\ \A k \in {1, 2, 3, 4, 5, 6, 7, 8, 15} : Stages["write"][k] = "still"
  /\ Stages["write"][9] = "given" /\ Stages["write"][10] = "shown" /\ Stages["write"][11] = "ready"
  /\ Stages["write"][12] = "flushing" /\ Stages["write"][13] = "flushing"
  /\ Stages["write"][14] = "flushed"
BY DEF Stages

(* What the drive may be doing at each stage.                              *)
LEMMA AllowedTable ==
  /\ Allowed["still"] = {"idle"} /\ Allowed["given"] = {"idle", "latched", "busy", "transfer"}
  /\ Allowed["shown"] = {"idle", "busy", "transfer"} /\ Allowed["ready"] = {"idle", "transfer"}
  /\ Allowed["flushing"] = {"idle", "latched", "busy"} /\ Allowed["flushed"] = {"idle", "busy"}
BY DEF Allowed, Phase

(* The routine in progress, the access it is at and its operands.          *)
LEMMA Where ==
  ASSUME TypeOK, CallShape, NEW name, Access(name)
  PROVE  /\ ~stopped
         /\ \/ /\ call.op = "init"
               /\ \/ name = "outb" /\ at = 1 /\ Arg = "HDDEVSEL" /\ Program[at][3] = 0
                  \/ name = "delay400ns" /\ at \in {2, 4}
                  \/ name = "command" /\ at = 3 /\ Arg = "identify"
                  \/ name = "inb" /\ at = 5
                  \/ name = "poll" /\ at = 6
                  \/ name = "repinsw" /\ at = 7
                  \/ name = "report" /\ at = 8
            \/ /\ call.op = "read"
               /\ \/ name = "poll" /\ at \in {1, 8, 12}
                  \/ /\ name = "outb"
                     /\ \/ /\ at = 2 /\ Arg = "HDDEVSEL"
                           /\ Program[at][3] = SelectSector(call.unit, call.lba)[3]
                        \/ at = 3 /\ Arg = "LBA0" /\ Program[at][3] = SetAddress(call.lba)[1][3]
                        \/ at = 4 /\ Arg = "LBA1" /\ Program[at][3] = SetAddress(call.lba)[2][3]
                        \/ at = 5 /\ Arg = "LBA2" /\ Program[at][3] = SetAddress(call.lba)[3][3]
                  \/ name = "command" /\ at = 6 /\ Arg = "read"
                  \/ name = "delay400ns" /\ at \in {7, 11}
                  \/ name = "check" /\ at = 9
                  \/ name = "repinsw" /\ at = 10
            \/ /\ call.op = "write"
               /\ \/ name = "poll" /\ at \in {1, 4, 10, 14}
                  \/ /\ name = "outb"
                     /\ \/ /\ at = 2 /\ Arg = "HDDEVSEL"
                           /\ Program[at][3] = SelectSector(call.unit, call.lba)[3]
                        \/ at = 5 /\ Arg = "LBA0" /\ Program[at][3] = SetAddress(call.lba)[1][3]
                        \/ at = 6 /\ Arg = "LBA1" /\ Program[at][3] = SetAddress(call.lba)[2][3]
                        \/ at = 7 /\ Arg = "LBA2" /\ Program[at][3] = SetAddress(call.lba)[3][3]
                  \/ name = "command" /\ at = 8 /\ Arg = "write"
                  \/ name = "command" /\ at = 12 /\ Arg = "flush"
                  \/ name = "delay400ns" /\ at \in {3, 9, 13}
                  \/ name = "repoutsw" /\ at = 11
<1>1. /\ ~stopped /\ at \in DOMAIN Program /\ Program[at][1] = name
      /\ call.op \in {"none", "init", "read", "write"} /\ at \in Nat
      /\ call.unit \in Units /\ call.lba \in Nat
  BY DEF Access, TypeOK
<1>2. CASE call.op = "none"
  BY <1>1, <1>2 DEF Program
<1>3. CASE call.op = "init"
  <2>1. Program = ide_init
    BY <1>3 DEF Program
  <2>2. DOMAIN Program = 1 .. 8
    BY <2>1 DEF ide_init
  <2>3. /\ Program[1] = <<"outb", "HDDEVSEL", 0>> /\ Program[2][1] = "delay400ns"
        /\ Program[3] = <<"command", "identify", 0>> /\ Program[4][1] = "delay400ns"
        /\ Program[5][1] = "inb" /\ Program[6][1] = "poll" /\ Program[7][1] = "repinsw"
        /\ Program[8][1] = "report"
    BY <2>1 DEF ide_init, outb, Command, Do
  <2>4. at \in {1, 2, 3, 4, 5, 6, 7, 8}
    BY <1>1, <2>2
  <2>5. QED
    BY <1>1, <1>3, <2>3, <2>4 DEF Arg
<1>4. CASE call.op = "read"
  <2>1. Program = ide_read_sector(call.unit, call.lba)
    BY <1>4 DEF Program
  <2>2. DOMAIN Program = 1 .. 12
    <3>1. /\ ide_read_sector(call.unit, call.lba) \in Seq(Step)
          /\ Len(ide_read_sector(call.unit, call.lba)) = 12
      BY <1>1, ReadSteps
    <3>2. QED
      BY <2>1, <3>1
  <2> DEFINE p(k) == ide_read_sector(call.unit, call.lba)[k]
  <2>3. /\ p(1) = Do("poll") /\ p(2) = SelectSector(call.unit, call.lba)
        /\ p(3) = outb("LBA0", call.lba % Byte) /\ p(4) = outb("LBA1", (call.lba \div Byte) % Byte)
        /\ p(5) = outb("LBA2", (call.lba \div (Byte * Byte)) % Byte)
        /\ p(6) = Command("read") /\ p(7) = Do("delay400ns") /\ p(8) = Do("poll")
        /\ p(9) = Do("check") /\ p(10) = Do("repinsw") /\ p(11) = Do("delay400ns")
        /\ p(12) = Do("poll")
    BY <1>1, ReadSteps
  <2>4. /\ Program[1][1] = "poll" /\ Program[2] = SelectSector(call.unit, call.lba)
        /\ Program[3] = SetAddress(call.lba)[1] /\ Program[4] = SetAddress(call.lba)[2]
        /\ Program[5] = SetAddress(call.lba)[3]
        /\ Program[6] = <<"command", "read", 0>> /\ Program[7][1] = "delay400ns"
        /\ Program[8][1] = "poll" /\ Program[9][1] = "check" /\ Program[10][1] = "repinsw"
        /\ Program[11][1] = "delay400ns" /\ Program[12][1] = "poll"
    <3>1. \A k : Program[k] = p(k)
      BY <2>1
    <3> HIDE DEF p
    <3>2. /\ SetAddress(call.lba)[1] = outb("LBA0", call.lba % Byte)
          /\ SetAddress(call.lba)[2] = outb("LBA1", (call.lba \div Byte) % Byte)
          /\ SetAddress(call.lba)[3] = outb("LBA2", (call.lba \div (Byte * Byte)) % Byte)
      BY <1>1, AddressSteps
    <3>3. /\ Program[3] = SetAddress(call.lba)[1] /\ Program[4] = SetAddress(call.lba)[2]
          /\ Program[5] = SetAddress(call.lba)[3] /\ Program[2] = SelectSector(call.unit, call.lba)
      BY <2>3, <3>1, <3>2
    <3>4. \A a : Do(a)[1] = a
      BY DEF Do
    <3>5. \A c : Command(c) = <<"command", c, 0>>
      BY DEF Command
    <3>6. QED
      BY <2>3, <3>1, <3>3, <3>4, <3>5
  <2>5. /\ Program[2][1] = "outb" /\ Program[2][2] = "HDDEVSEL"
        /\ Program[3][1] = "outb" /\ Program[3][2] = "LBA0"
        /\ Program[4][1] = "outb" /\ Program[4][2] = "LBA1"
        /\ Program[5][1] = "outb" /\ Program[5][2] = "LBA2"
    BY <2>4 DEF SelectSector, SetAddress, outb
  <2>6. at \in {1, 2, 3, 4, 5, 6, 7, 8, 9, 10, 11, 12}
    BY <1>1, <2>2
  <2>7. QED
    BY <1>1, <1>4, <2>4, <2>5, <2>6 DEF Arg
<1>5. CASE call.op = "write"
  <2>1. Program = ide_write_sector(call.unit, call.lba)
    BY <1>5 DEF Program
  <2>2. DOMAIN Program = 1 .. 14
    <3>1. /\ ide_write_sector(call.unit, call.lba) \in Seq(Step)
          /\ Len(ide_write_sector(call.unit, call.lba)) = 14
      BY <1>1, WriteSteps
    <3>2. QED
      BY <2>1, <3>1
  <2> DEFINE p(k) == ide_write_sector(call.unit, call.lba)[k]
  <2>3. /\ p(1) = Do("poll") /\ p(2) = SelectSector(call.unit, call.lba)
        /\ p(3) = Do("delay400ns") /\ p(4) = Do("poll")
        /\ p(5) = outb("LBA0", call.lba % Byte) /\ p(6) = outb("LBA1", (call.lba \div Byte) % Byte)
        /\ p(7) = outb("LBA2", (call.lba \div (Byte * Byte)) % Byte)
        /\ p(8) = Command("write") /\ p(9) = Do("delay400ns") /\ p(10) = Do("poll")
        /\ p(11) = Do("repoutsw") /\ p(12) = Command("flush") /\ p(13) = Do("delay400ns")
        /\ p(14) = Do("poll")
    BY <1>1, WriteSteps
  <2>4. /\ Program[1][1] = "poll" /\ Program[2] = SelectSector(call.unit, call.lba)
        /\ Program[3][1] = "delay400ns" /\ Program[4][1] = "poll"
        /\ Program[5] = SetAddress(call.lba)[1] /\ Program[6] = SetAddress(call.lba)[2]
        /\ Program[7] = SetAddress(call.lba)[3]
        /\ Program[8] = <<"command", "write", 0>> /\ Program[9][1] = "delay400ns"
        /\ Program[10][1] = "poll" /\ Program[11][1] = "repoutsw"
        /\ Program[12] = <<"command", "flush", 0>> /\ Program[13][1] = "delay400ns"
        /\ Program[14][1] = "poll"
    <3>1. \A k : Program[k] = p(k)
      BY <2>1
    <3> HIDE DEF p
    <3>2. /\ SetAddress(call.lba)[1] = outb("LBA0", call.lba % Byte)
          /\ SetAddress(call.lba)[2] = outb("LBA1", (call.lba \div Byte) % Byte)
          /\ SetAddress(call.lba)[3] = outb("LBA2", (call.lba \div (Byte * Byte)) % Byte)
      BY <1>1, AddressSteps
    <3>3. /\ Program[5] = SetAddress(call.lba)[1] /\ Program[6] = SetAddress(call.lba)[2]
          /\ Program[7] = SetAddress(call.lba)[3] /\ Program[2] = SelectSector(call.unit, call.lba)
      BY <2>3, <3>1, <3>2
    <3>4. \A a : Do(a)[1] = a
      BY DEF Do
    <3>5. \A c : Command(c) = <<"command", c, 0>>
      BY DEF Command
    <3>6. QED
      BY <2>3, <3>1, <3>3, <3>4, <3>5
  <2>5. /\ Program[2][1] = "outb" /\ Program[2][2] = "HDDEVSEL"
        /\ Program[5][1] = "outb" /\ Program[5][2] = "LBA0"
        /\ Program[6][1] = "outb" /\ Program[6][2] = "LBA1"
        /\ Program[7][1] = "outb" /\ Program[7][2] = "LBA2"
    BY <2>4 DEF SelectSector, SetAddress, outb
  <2>6. at \in {1, 2, 3, 4, 5, 6, 7, 8, 9, 10, 11, 12, 13, 14}
    BY <1>1, <2>2
  <2>7. QED
    BY <1>1, <1>5, <2>4, <2>5, <2>6 DEF Arg
<1>6. QED
  BY <1>1, <1>2, <1>3, <1>4, <1>5

(* From the moment it is selected a drive is the one that the registers    *)
(* select (ata.c:76, 131, 155).                                            *)
LEMMA SelectedIsTarget ==
  ASSUME TypeOK, CallShape, Addressed,
         (call.op = "init" /\ at > 1) \/ (call.op \in {"read", "write"} /\ at > 2)
  PROVE  Selected = Target
<1>1. call.unit \in Units /\ call.lba \in Nat
  BY DEF TypeOK
<1>2. CASE call.op = "init"
  BY <1>2, MasterSelected DEF CallShape, Addressed, Selected, Target
<1>3. CASE call.op \in {"read", "write"}
  <2>1. regs[call.bus].HDDEVSEL = SelectSector(call.unit, call.lba)[3]
    BY <1>3 DEF Addressed
  <2>2. SelectSector(call.unit, call.lba)[3] \div Nibble = call.unit
    BY <1>1, UnitSelected
  <2>3. QED
    BY <2>1, <2>2 DEF Selected, Target
<1>4. QED
  BY <1>2, <1>3

-------------------------------------------------------------------------------
(***************************************************************************)
(* The accesses preserve the invariant.                                    *)
(***************************************************************************)
(* What the reads of the status wait for and find (ata.c:32-64).           *)
LEMMA WaitFacts ==
  ASSUME IInv, delay400ns \/ inb \/ ata_wait_ready \/ Check
  PROVE  /\ UNCHANGED <<kind, regs, drive, medium, buf, outcome, answer, call, found>>
         /\ at' = at + 1 /\ intrq' \subseteq intrq
         /\ \/ call.op = "init" /\ at \in {2, 4, 5, 6}
            \/ call.op = "read" /\ at \in {1, 7, 8, 9, 11, 12}
            \/ call.op = "write" /\ at \in {1, 3, 4, 9, 10, 13, 14}
         /\ \/ Stage = "still" /\ Stage' = "still"
            \/ Stage = "shown" /\ Stage' = "shown"
            \/ Stage = "ready" /\ Stage' = "ready"
            \/ Stage = "given" /\ Stage' = "shown" /\ drive[Target].phase # "latched"
            \/ Stage = "shown" /\ Stage' = "ready" /\ drive[Target].phase # "busy" /\ intrq' = {}
            \/ Stage = "flushing" /\ Stage' = "flushed" /\ drive[Target].phase # "latched"
            \/ Stage = "flushed" /\ Stage' = "still" /\ drive[Target].phase # "busy" /\ intrq' = {}
         /\ stopped' \in BOOLEAN
         /\ stopped' => /\ call.op = "read" /\ at = 9 /\ Stage = "ready"
                        /\ drive[Target].err \/ drive[Target].phase # "transfer"
         /\ call.op = "read" /\ at = 9 /\ ~stopped' => drive[Target].phase = "transfer"
<1> USE DEF IInv
<1>1. stopped = FALSE
  <2>1. \E name : Access(name)
    BY DEF delay400ns, inb, ata_wait_ready, Check
  <2>2. QED
    BY <2>1 DEF Access, TypeOK
<1>2. CASE delay400ns
  <2>1. \/ call.op = "init" /\ at \in {2, 4}
        \/ call.op = "read" /\ at \in {7, 11}
        \/ call.op = "write" /\ at \in {3, 9, 13}
    BY <1>2, Where DEF delay400ns
  <2>2. /\ UNCHANGED <<kind, regs, drive, medium, buf, outcome, answer, call, found, stopped, intrq>>
        /\ at' = at + 1
    BY <1>2 DEF delay400ns, GoOn, hardware
  <2>3. Selected = Target
    <3>1. (call.op = "init" /\ at > 1) \/ (call.op \in {"read", "write"} /\ at > 2)
      BY <2>1
    <3>2. QED
      BY <3>1, SelectedIsTarget
  <2>4. drive[Target].phase # "latched"
    BY <1>2, <2>3 DEF delay400ns
  <2>5. \/ Stage = "still" /\ Stage' = "still"
        \/ Stage = "given" /\ Stage' = "shown"
        \/ Stage = "flushing" /\ Stage' = "flushed"
    BY <2>1, <2>2, StageTable DEF Stage
  <2>6. /\ \/ call.op = "init" /\ at \in {2, 4, 5, 6}
           \/ call.op = "read" /\ at \in {1, 7, 8, 9, 11, 12}
           \/ call.op = "write" /\ at \in {1, 3, 4, 9, 10, 13, 14}
        /\ ~(call.op = "read" /\ at = 9) /\ stopped' = FALSE
    BY <1>1, <2>1, <2>2
  <2>7. QED
    BY <2>2, <2>4, <2>5, <2>6
<1>3. CASE inb
  <2>1. call.op = "init" /\ at = 5
    BY <1>3, Where DEF inb
  <2>2. /\ UNCHANGED <<kind, regs, drive, medium, buf, outcome, answer, call, found, stopped>>
        /\ at' = at + 1 /\ intrq' \subseteq intrq
    BY <1>3 DEF inb, GoOn, StatusRead
  <2>3. Stage = "shown" /\ Stage' = "shown"
    BY <2>1, <2>2, StageTable DEF Stage
  <2>4. QED
    BY <1>1, <2>1, <2>2, <2>3
<1>4. CASE ata_wait_ready
  <2>1. \/ call.op = "init" /\ at = 6
        \/ call.op = "read" /\ at \in {1, 8, 12}
        \/ call.op = "write" /\ at \in {1, 4, 10, 14}
    BY <1>4, Where DEF ata_wait_ready
  <2>2. /\ UNCHANGED <<kind, regs, drive, medium, buf, outcome, answer, call, found, stopped>>
        /\ at' = at + 1 /\ intrq' = {}
    BY <1>4 DEF ata_wait_ready, GoOn, StatusRead, RequestsTaken
  <2>3. at = 1 \/ Selected = Target
    BY <2>1, SelectedIsTarget
  <2>4. at = 1 \/ drive[Target].phase # "busy"
    BY <1>4, <2>3 DEF ata_wait_ready, BSY
  <2>5. \/ Stage = "still" /\ Stage' = "still"
        \/ Stage = "shown" /\ Stage' = "ready" /\ at # 1
        \/ Stage = "flushed" /\ Stage' = "still" /\ at # 1
    BY <2>1, <2>2, StageTable DEF Stage
  <2>6. /\ \/ call.op = "init" /\ at \in {2, 4, 5, 6}
           \/ call.op = "read" /\ at \in {1, 7, 8, 9, 11, 12}
           \/ call.op = "write" /\ at \in {1, 3, 4, 9, 10, 13, 14}
        /\ ~(call.op = "read" /\ at = 9) /\ stopped' = FALSE
    BY <1>1, <2>1, <2>2
  <2>7. intrq' \subseteq intrq
    BY <2>2
  <2>8. \/ Stage = "still" /\ Stage' = "still"
        \/ Stage = "shown" /\ Stage' = "ready" /\ drive[Target].phase # "busy" /\ intrq' = {}
        \/ Stage = "flushed" /\ Stage' = "still" /\ drive[Target].phase # "busy" /\ intrq' = {}
    BY <2>2, <2>4, <2>5
  <2>9. QED
    BY <2>2, <2>6, <2>7, <2>8
<1>5. CASE Check
  <2>1. call.op = "read" /\ at = 9
    BY <1>5, Where DEF Check
  <2>2. /\ UNCHANGED <<kind, regs, drive, medium, buf, outcome, answer, call, found>>
        /\ at' = at + 1 /\ intrq' \subseteq intrq /\ stopped' = (ERR \/ ~DRQ)
    BY <1>5 DEF Check, StatusRead
  <2>3. Selected = Target
    BY <2>1, SelectedIsTarget
  <2>4. Stage = "ready" /\ Stage' = "ready"
    BY <2>1, <2>2, StageTable DEF Stage
  <2>5. drive[Target].err \in BOOLEAN
    BY DEF TypeOK, Target
  <2>6. /\ stopped' \in BOOLEAN
        /\ stopped' => drive[Target].err \/ drive[Target].phase # "transfer"
        /\ ~stopped' => drive[Target].phase = "transfer"
    BY <2>2, <2>3, <2>5, Zenon DEF ERR, DRQ
  <2>7. QED
    BY <2>1, <2>2, <2>4, <2>6
<1>6. QED
  BY <1>2, <1>3, <1>4, <1>5

(* A wait brings the routine to a stage that the drive has reached         *)
(* (ata.c:32-64).                                                          *)
LEMMA WaitStep ==
  ASSUME IInv, delay400ns \/ inb \/ ata_wait_ready \/ Check
  PROVE  IInv'
<1> USE DEF IInv
<1>1. /\ UNCHANGED <<kind, regs, drive, medium, buf, outcome, answer, call, found>>
      /\ at' = at + 1 /\ intrq' \subseteq intrq
      /\ \/ call.op = "init" /\ at \in {2, 4, 5, 6}
         \/ call.op = "read" /\ at \in {1, 7, 8, 9, 11, 12}
         \/ call.op = "write" /\ at \in {1, 3, 4, 9, 10, 13, 14}
  BY WaitFacts
<1>2. \/ Stage = "still" /\ Stage' = "still"
      \/ Stage = "shown" /\ Stage' = "shown"
      \/ Stage = "ready" /\ Stage' = "ready"
      \/ Stage = "given" /\ Stage' = "shown" /\ drive[Target].phase # "latched"
      \/ Stage = "shown" /\ Stage' = "ready" /\ drive[Target].phase # "busy" /\ intrq' = {}
      \/ Stage = "flushing" /\ Stage' = "flushed" /\ drive[Target].phase # "latched"
      \/ Stage = "flushed" /\ Stage' = "still" /\ drive[Target].phase # "busy" /\ intrq' = {}
  BY WaitFacts
<1>3. /\ stopped' \in BOOLEAN
      /\ stopped' => /\ call.op = "read" /\ at = 9 /\ Stage = "ready"
                     /\ drive[Target].err \/ drive[Target].phase # "transfer"
      /\ call.op = "read" /\ at = 9 /\ ~stopped' => drive[Target].phase = "transfer"
  BY WaitFacts
<1>4. Target' = Target /\ Sought' = Sought
  BY <1>1 DEF Target, Sought
<1>5. TypeOK'
  <2>1. at' \in 1 .. Len(Stages[call.op])
    <3>1. CASE call.op = "init"
      BY <1>1, <3>1, StageTable
    <3>2. CASE call.op = "read"
      BY <1>1, <3>2, StageTable
    <3>3. CASE call.op = "write"
      BY <1>1, <3>3, StageTable
    <3>4. QED
      BY <1>1, <3>1, <3>2, <3>3
  <2>2. stopped' \in BOOLEAN
    BY <1>3
  <2>3. QED
    BY <1>1, <2>1, <2>2 DEF TypeOK
<1>6. drive[Target].phase # "transfer" /\ Stage = "ready" => drive[Target].phase = "idle"
  BY AllowedTable DEF DrivesFollow, TypeOK, Target
<1>7. CallShape' /\ NothingAnswered'
  <2>1. stopped' => call.op = "read" /\ at' = 10
    BY <1>1, <1>3
  <2>2. stopped' => outcome = "failed"
    BY <1>1, <1>3, <1>6 DEF OutcomeKnown, DrivesFollow, TypeOK
  <2>3. QED
    BY <1>1, <2>1, <2>2 DEF CallShape, Booted, NothingAnswered
<1>8. Addressed'
  BY <1>1 DEF Addressed
<1>9. DrivesFollow'
  <2>1. \A d \in Bus \X Units :
          drive[d].phase \in IF d = Target THEN Allowed[Stage'] ELSE {"idle"}
    BY <1>2, AllowedTable DEF DrivesFollow
  <2>2. drive[Target].phase # "idle" => Commanded' = Commanded
    <3>1. Target \in Bus \X Units
      BY DEF TypeOK, Target
    <3>2. drive[Target].phase # "idle" => ~(Stage = "flushed" /\ Stage' = "still")
      BY <2>1, <3>1, AllowedTable
    <3>3. QED
      BY <1>1, <1>2, <3>2 DEF Commanded
  <2>3. call.op = "init" /\ Stage' # "still" => Stage # "still"
    BY <1>2
  <2>4. call.op = "read" /\ at' = 10 /\ ~stopped' => drive[Target].phase = "transfer"
    BY <1>1, <1>3 DEF TypeOK, Target
  <2>5. QED
    BY <1>1, <1>4, <2>1, <2>2, <2>3, <2>4 DEF DrivesFollow
<1>10. RequestsTaken'
  BY <1>1, <1>2, AllowedTable DEF RequestsTaken
<1>11. WordsMove'
  BY <1>1, <1>4, NothingMoved, AtaAssumption DEF WordsMove, TypeOK
<1>12. OutcomeKnown'
  BY <1>1, <1>4 DEF OutcomeKnown
<1>13. QED
  BY <1>5, <1>7, <1>8, <1>9, <1>10, <1>11, <1>12

(* The values that fill the registers (ata.c:76, 130-136).                 *)
LEMMA RegisterValues ==
  ASSUME NEW unit \in Units, NEW lba \in Nat
  PROVE  /\ SelectSector(unit, lba)[3] \in Nat /\ SetAddress(lba)[1][3] \in Nat
         /\ SetAddress(lba)[2][3] \in Nat /\ SetAddress(lba)[3][3] \in Nat
<1>1. SelectSector(unit, lba)[3] \in Nat
  BY UnitSelected
<1>2. /\ lba % Byte \in Nat /\ (lba \div Byte) % Byte \in Nat
      /\ (lba \div (Byte * Byte)) % Byte \in Nat
  BY AddressParts
<1>3. QED
  BY <1>1, <1>2 DEF SetAddress, outb

(* A register that is written holds its part of the address, and no drive  *)
(* is at work then (ata.c:76, 131-137).                                    *)
LEMMA OutbStep ==
  ASSUME IInv, Outb PROVE IInv'
<1> USE DEF IInv
<1>1. /\ UNCHANGED <<kind, drive, medium, intrq, buf, outcome, answer, call, found, stopped>>
      /\ at' = at + 1 /\ Access("outb")
      /\ regs' = [regs EXCEPT ![call.bus][Arg] = Program[at][3]]
  BY DEF Outb, GoOn
<1> DEFINE v == Program[at][3]
<1>2. /\ ~stopped
      /\ \/ call.op = "init" /\ at = 1 /\ Arg = "HDDEVSEL" /\ v = 0
         \/ /\ call.op = "read"
            /\ \/ at = 2 /\ Arg = "HDDEVSEL" /\ v = SelectSector(call.unit, call.lba)[3]
               \/ at = 3 /\ Arg = "LBA0" /\ v = SetAddress(call.lba)[1][3]
               \/ at = 4 /\ Arg = "LBA1" /\ v = SetAddress(call.lba)[2][3]
               \/ at = 5 /\ Arg = "LBA2" /\ v = SetAddress(call.lba)[3][3]
         \/ /\ call.op = "write"
            /\ \/ at = 2 /\ Arg = "HDDEVSEL" /\ v = SelectSector(call.unit, call.lba)[3]
               \/ at = 5 /\ Arg = "LBA0" /\ v = SetAddress(call.lba)[1][3]
               \/ at = 6 /\ Arg = "LBA1" /\ v = SetAddress(call.lba)[2][3]
               \/ at = 7 /\ Arg = "LBA2" /\ v = SetAddress(call.lba)[3][3]
  BY <1>1, Where
<1>3. v \in Nat
  <2>1. call.unit \in Units /\ call.lba \in Nat
    BY DEF TypeOK
  <2>2. /\ SelectSector(call.unit, call.lba)[3] \in Nat /\ SetAddress(call.lba)[1][3] \in Nat
        /\ SetAddress(call.lba)[2][3] \in Nat /\ SetAddress(call.lba)[3][3] \in Nat
    BY <2>1, RegisterValues
  <2>3. QED
    BY <1>2, <2>2
<1>4. regs' = [regs EXCEPT ![call.bus][Arg] = v]
  BY <1>1
<1> HIDE DEF v
<1>5. \/ call.op = "init" /\ at = 1
      \/ call.op = "read" /\ at \in {2, 3, 4, 5}
      \/ call.op = "write" /\ at \in {2, 5, 6, 7}
  BY <1>2
<1>6. Stage = "still" /\ Stage' = "still"
  BY <1>1, <1>5, StageTable DEF Stage
<1>7. Target' = Target /\ Sought' = Sought
  BY <1>1 DEF Target, Sought
<1>8. TypeOK'
  <2>1. at' \in 1 .. Len(Stages[call.op])
    <3>1. CASE call.op = "init"
      BY <1>1, <1>5, <3>1, StageTable
    <3>2. CASE call.op = "read"
      BY <1>1, <1>5, <3>2, StageTable
    <3>3. CASE call.op = "write"
      BY <1>1, <1>5, <3>3, StageTable
    <3>4. QED
      BY <1>5, <3>1, <3>2, <3>3
  <2>2. Arg \in {"HDDEVSEL", "LBA0", "LBA1", "LBA2"}
    BY <1>2
  <2>3. regs' \in [Bus -> [HDDEVSEL : Nat, LBA0 : Nat, LBA1 : Nat, LBA2 : Nat]]
    BY <1>3, <1>4, <2>2 DEF TypeOK
  <2>4. QED
    BY <1>1, <2>1, <2>3 DEF TypeOK
<1>9. CallShape' /\ NothingAnswered'
  BY <1>1, <1>2 DEF CallShape, Booted, NothingAnswered
<1>10. Addressed'
  <2>1. regs[call.bus] \in [HDDEVSEL : Nat, LBA0 : Nat, LBA1 : Nat, LBA2 : Nat] /\ call.bus \in Bus
    BY DEF TypeOK
  <2>2. regs'[call.bus] = [regs[call.bus] EXCEPT ![Arg] = v]
    BY <1>4, <2>1 DEF TypeOK
  <2>3. /\ Arg = "HDDEVSEL" => regs'[call.bus].HDDEVSEL = v
        /\ Arg = "LBA0" => regs'[call.bus].LBA0 = v
        /\ Arg = "LBA1" => regs'[call.bus].LBA1 = v
        /\ Arg = "LBA2" => regs'[call.bus].LBA2 = v
        /\ Arg # "HDDEVSEL" => regs'[call.bus].HDDEVSEL = regs[call.bus].HDDEVSEL
        /\ Arg # "LBA0" => regs'[call.bus].LBA0 = regs[call.bus].LBA0
        /\ Arg # "LBA1" => regs'[call.bus].LBA1 = regs[call.bus].LBA1
        /\ Arg # "LBA2" => regs'[call.bus].LBA2 = regs[call.bus].LBA2
    BY <2>1, <2>2
  <2>4. CASE call.op = "init"
    BY <1>1, <1>2, <2>3, <2>4 DEF Addressed
  <2>5. CASE call.op = "read"
    BY <1>1, <1>2, <2>3, <2>5 DEF Addressed
  <2>6. CASE call.op = "write"
    BY <1>1, <1>2, <2>3, <2>6 DEF Addressed
  <2>7. QED
    BY <1>5, <2>4, <2>5, <2>6
<1>11. DrivesFollow'
  <2>1. drive[Target].phase = "idle"
    BY <1>6, AllowedTable DEF DrivesFollow, TypeOK, Target
  <2>2. Stage' = Stage /\ at' # 10
    BY <1>1, <1>5, <1>6
  <2>3. QED
    BY <1>1, <1>6, <1>7, <2>1, <2>2 DEF DrivesFollow
<1>12. RequestsTaken'
  BY <1>1, <1>6 DEF RequestsTaken
<1>13. WordsMove'
  BY <1>1, <1>5, <1>7 DEF WordsMove
<1>14. OutcomeKnown'
  BY <1>1, <1>5, <1>7 DEF OutcomeKnown
<1>15. QED
  BY <1>8, <1>9, <1>10, <1>11, <1>12, <1>13, <1>14

(* A drive that is idle takes the command that it is given, and every      *)
(* command but the flush is given to an idle drive (ata.c:79, 138, 163).   *)
LEMMA CommandFacts ==
  ASSUME IInv, WriteCommand
  PROVE  /\ UNCHANGED <<kind, regs, medium, buf, answer, call, found, stopped>>
         /\ at' = at + 1 /\ intrq' \subseteq intrq /\ stopped = FALSE
         /\ \/ call.op = "init" /\ at = 3 /\ Arg = "identify"
            \/ call.op = "read" /\ at = 6 /\ Arg = "read"
            \/ call.op = "write" /\ at = 8 /\ Arg = "write"
            \/ call.op = "write" /\ at = 12 /\ Arg = "flush"
         /\ Selected = Target /\ Target \in Bus \X Units
         /\ \/ at # 12 /\ Stage = "still" /\ Stage' = "given" /\ drive[Target].phase = "idle"
            \/ at = 12 /\ Stage = "flushing" /\ Stage' = "flushing"
         /\ drive' \in [Bus \X Units -> [phase : Phase, err : BOOLEAN, cmd : Cmd, fifo : Seq(Word)]]
         /\ \A d \in Bus \X Units : d # Target => drive'[d] = drive[d]
         /\ IF kind[Target] \in {"disk", "packet"} /\ drive[Target].phase = "idle"
            THEN drive'[Target].phase = "latched" /\ drive'[Target].cmd = Arg
            ELSE drive'[Target] = drive[Target]
         /\ outcome' = IF Arg \in {"read", "write"} /\ kind[Target] # "disk" THEN "failed"
                       ELSE outcome
<1> USE DEF IInv
<1>1. /\ UNCHANGED <<kind, regs, medium, buf, answer, call, found, stopped>>
      /\ at' = at + 1 /\ Access("command")
  BY DEF WriteCommand, GoOn
<1>2. /\ ~stopped
      /\ \/ call.op = "init" /\ at = 3 /\ Arg = "identify"
         \/ call.op = "read" /\ at = 6 /\ Arg = "read"
         \/ call.op = "write" /\ at = 8 /\ Arg = "write"
         \/ call.op = "write" /\ at = 12 /\ Arg = "flush"
  BY <1>1, Where
<1>3. Selected = Target
  <2>1. (call.op = "init" /\ at > 1) \/ (call.op \in {"read", "write"} /\ at > 2)
    BY <1>2
  <2>2. QED
    BY <2>1, SelectedIsTarget
<1>4. Target \in Bus \X Units
  BY DEF TypeOK, Target
<1>5. \/ at # 12 /\ Stage = "still" /\ Stage' = "given"
      \/ at = 12 /\ Stage = "flushing" /\ Stage' = "flushing"
  BY <1>1, <1>2, StageTable DEF Stage
<1>6. Stage = "still" => drive[Target].phase = "idle"
  BY <1>4, AllowedTable DEF DrivesFollow
<1>7. intrq' \subseteq intrq
  BY DEF WriteCommand
<1>8. Taken <=> kind[Target] \in {"disk", "packet"} /\ drive[Target].phase = "idle"
  BY <1>3 DEF Taken, Present
<1>9. /\ Taken => drive' = [drive EXCEPT ![Target].phase = "latched", ![Target].cmd = Arg]
      /\ ~Taken => drive' = drive
  BY <1>3 DEF WriteCommand
<1>10. /\ drive' \in [Bus \X Units -> [phase : Phase, err : BOOLEAN, cmd : Cmd, fifo : Seq(Word)]]
       /\ \A d \in Bus \X Units : d # Target => drive'[d] = drive[d]
       /\ IF Taken THEN drive'[Target].phase = "latched" /\ drive'[Target].cmd = Arg
          ELSE drive'[Target] = drive[Target]
  <2>1. PICK m : m = [drive EXCEPT ![Target].phase = "latched"]
    OBVIOUS
  <2>2. /\ m \in [Bus \X Units -> [phase : Phase, err : BOOLEAN, cmd : Cmd, fifo : Seq(Word)]]
        /\ m[Target].phase = "latched"
        /\ \A d \in Bus \X Units : d # Target => m[d] = drive[d]
    BY <2>1, <1>4 DEF TypeOK, Phase
  <2>3. Arg \in Cmd
    BY <1>2 DEF Cmd
  <2>4. CASE Taken
    <3>1. drive' = [m EXCEPT ![Target].cmd = Arg]
      BY <1>9, <2>1, <2>4
    <3>2. QED
      BY <1>4, <2>2, <2>3, <2>4, <3>1
  <2>5. CASE ~Taken
    BY <1>9, <2>5 DEF TypeOK
  <2>6. QED
    BY <2>4, <2>5
<1>11. outcome' = IF Arg \in {"read", "write"} /\ kind[Target] # "disk" THEN "failed" ELSE outcome
  BY <1>3 DEF WriteCommand
<1>12. stopped = FALSE
  BY <1>2 DEF TypeOK
<1>13. QED
  BY <1>1, <1>2, <1>3, <1>4, <1>5, <1>6, <1>7, <1>8, <1>10, <1>11, <1>12

(* A command starts a stage of the routine (ata.c:79, 138, 163, 167).      *)
LEMMA CommandStep ==
  ASSUME IInv, WriteCommand PROVE IInv'
<1> USE DEF IInv
<1>1. /\ UNCHANGED <<kind, regs, medium, buf, answer, call, found, stopped>>
      /\ at' = at + 1 /\ intrq' \subseteq intrq /\ stopped = FALSE
      /\ Target \in Bus \X Units
      /\ drive' \in [Bus \X Units -> [phase : Phase, err : BOOLEAN, cmd : Cmd, fifo : Seq(Word)]]
      /\ \A d \in Bus \X Units : d # Target => drive'[d] = drive[d]
  BY CommandFacts
<1>2. \/ call.op = "init" /\ at = 3 /\ Arg = "identify"
      \/ call.op = "read" /\ at = 6 /\ Arg = "read"
      \/ call.op = "write" /\ at = 8 /\ Arg = "write"
      \/ call.op = "write" /\ at = 12 /\ Arg = "flush"
  BY CommandFacts
<1>3. \/ at # 12 /\ Stage = "still" /\ Stage' = "given" /\ drive[Target].phase = "idle"
      \/ at = 12 /\ Stage = "flushing" /\ Stage' = "flushing"
  BY CommandFacts
<1>4. IF kind[Target] \in {"disk", "packet"} /\ drive[Target].phase = "idle"
      THEN drive'[Target].phase = "latched" /\ drive'[Target].cmd = Arg
      ELSE drive'[Target] = drive[Target]
  BY CommandFacts
<1>5. outcome' = IF Arg \in {"read", "write"} /\ kind[Target] # "disk" THEN "failed" ELSE outcome
  BY CommandFacts
<1>6. Target' = Target /\ Sought' = Sought
  BY <1>1 DEF Target, Sought
<1>7. drive[Target].phase \in Allowed[Stage]
  BY <1>1 DEF DrivesFollow
<1>8. TypeOK'
  <2>1. at' \in 1 .. Len(Stages[call.op])
    <3>1. CASE call.op = "init"
      BY <1>1, <1>2, <3>1, StageTable
    <3>2. CASE call.op = "read"
      BY <1>1, <1>2, <3>2, StageTable
    <3>3. CASE call.op = "write"
      BY <1>1, <1>2, <3>3, StageTable
    <3>4. QED
      BY <1>2, <3>1, <3>2, <3>3
  <2>2. outcome' \in {"open", "stored", "failed"}
    BY <1>5 DEF TypeOK
  <2>3. intrq' \in SUBSET Bus
    BY <1>1 DEF TypeOK
  <2>4. QED
    BY <1>1, <2>1, <2>2, <2>3 DEF TypeOK
<1>9. CallShape' /\ NothingAnswered'
  BY <1>1 DEF CallShape, Booted, NothingAnswered
<1>10. Addressed'
  BY <1>1, <1>2 DEF Addressed
<1>11. DrivesFollow'
  <2>1. drive'[Target].phase \in Allowed[Stage']
    BY <1>3, <1>4, <1>7, AllowedTable
  <2>2. drive'[Target].phase # "idle" => drive'[Target].cmd \in Commanded'
    <3>1. CASE at = 12
      <4>1. Commanded' = Commanded /\ "flush" \in Commanded
        BY <1>1, <1>2, <1>3, <3>1 DEF Commanded
      <4>2. QED
        BY <1>2, <1>4, <3>1, <4>1 DEF DrivesFollow
    <3>2. CASE at # 12
      <4>1. Arg \in Commanded'
        BY <1>1, <1>2, <1>3, <3>2 DEF Commanded
      <4>2. QED
        BY <1>3, <1>4, <3>2, <4>1
    <3>3. QED
      BY <3>1, <3>2
  <2>3. drive'[Target].phase # "transfer"
    BY <1>3, <1>4, <1>7, AllowedTable
  <2>4. drive'[Target].phase # "idle" /\ drive'[Target].cmd = "store" =>
          kind[Target] = "disk" /\ drive'[Target].fifo = call.data
    BY <1>2, <1>4 DEF DrivesFollow
  <2>5. call.op = "init" /\ kind[Target] = "disk" => drive'[Target].phase # "idle"
    BY <1>2, <1>3, <1>4
  <2>6. \A d \in Bus \X Units :
          drive'[d].phase \in IF d = Target THEN Allowed[Stage'] ELSE {"idle"}
    BY <1>1, <2>1 DEF DrivesFollow
  <2>7. ~(call.op = "read" /\ at' = 10)
    BY <1>1, <1>2
  <2>8. QED
    BY <1>1, <1>6, <2>2, <2>3, <2>4, <2>5, <2>6, <2>7 DEF DrivesFollow
<1>12. RequestsTaken'
  BY <1>1, <1>3, AllowedTable DEF RequestsTaken
<1>13. WordsMove'
  <2>1. drive'[Target].phase # "transfer"
    BY <1>3, <1>4, <1>7, AllowedTable
  <2>2. QED
    BY <1>1, <1>2, <1>6, <2>1 DEF WordsMove
<1>14. OutcomeKnown'
  BY <1>1, <1>2, <1>3, <1>4, <1>5, <1>6 DEF OutcomeKnown
<1>15. QED
  BY <1>8, <1>9, <1>10, <1>11, <1>12, <1>13, <1>14

(* What the words that are received come from.                             *)
Source == IF call.op = "init" THEN Identity ELSE medium[Sought]

(* A word is received, from a disk that sends it or, by ide_init, from     *)
(* nobody (ata.c:92, 145).                                                 *)
LEMMA ReceiveFacts ==
  ASSUME IInv, Receive
  PROVE  /\ UNCHANGED <<kind, regs, medium, intrq, found, call, stopped, outcome, answer>>
         /\ (call.op = "init" /\ at = 7) \/ (call.op = "read" /\ at = 10)
         /\ Stage = "ready" /\ stopped = FALSE /\ Target \in Bus \X Units
         /\ at' = IF Len(buf') = Words THEN at + 1 ELSE at
         /\ buf' \in Seq(Word) /\ Len(buf') = Len(buf) + 1 /\ Len(buf') =< Words
         /\ drive' \in [Bus \X Units -> [phase : Phase, err : BOOLEAN, cmd : Cmd, fifo : Seq(Word)]]
         /\ \A d \in Bus \X Units : d # Target => drive'[d] = drive[d]
         /\ drive'[Target].cmd = drive[Target].cmd /\ drive'[Target].err = drive[Target].err
         /\ Source \in Contents
         /\ \/ /\ drive[Target].phase = "transfer" /\ kind[Target] = "disk" /\ ~drive[Target].err
               /\ Halves(buf', drive'[Target].fifo, Source)
               /\ IF Len(buf') = Words THEN drive'[Target].phase = "idle" /\ buf' = Source
                  ELSE drive'[Target].phase = "transfer"
            \/ /\ drive[Target].phase = "idle" /\ (kind[Target] # "disk" \/ drive[Target].err) /\ call.op = "init"
               /\ drive' = drive /\ buf' = Append(buf, 0)
<1> USE DEF IInv
<1> DEFINE Drives == [Bus \X Units -> [phase : Phase, err : BOOLEAN, cmd : Cmd, fifo : Seq(Word)]]
           fifo == drive[Target].fifo
<1>1. /\ UNCHANGED <<kind, regs, medium, intrq, found, call, stopped, outcome, answer>>
      /\ Access("repinsw") /\ at' = IF Len(buf') = Words THEN at + 1 ELSE at
  BY DEF Receive
<1>2. ~stopped /\ ((call.op = "init" /\ at = 7) \/ (call.op = "read" /\ at = 10))
  BY <1>1, Where
<1>3. Selected = Target
  <2>1. (call.op = "init" /\ at > 1) \/ (call.op \in {"read", "write"} /\ at > 2)
    BY <1>2
  <2>2. QED
    BY <2>1, SelectedIsTarget
<1>4. Target \in Bus \X Units /\ stopped = FALSE /\ call.bus \in Bus /\ call.unit \in Units
      /\ call.lba \in Nat
  BY <1>2 DEF TypeOK, Target
<1>5. Stage = "ready"
  BY <1>2, StageTable DEF Stage
<1>6. drive[Target].phase \in {"idle", "transfer"}
  BY <1>4, <1>5, AllowedTable DEF DrivesFollow
<1>7. Source \in Contents
  <2>1. Sought \in Place
    BY <1>4, PlaceExists DEF Sought
  <2>2. medium[Sought] \in Contents
    BY <2>1 DEF TypeOK
  <2>3. QED
    BY <2>2, SectorsOfThrees DEF Source
<1>8. buf \in Seq(Word) /\ Len(buf) < Words /\ Len(buf) \in Nat /\ Words \in Nat
  BY <1>2, AtaAssumption DEF TypeOK, WordsMove
<1>9. fifo \in Seq(Word) /\ Len(fifo) \in Nat
  BY <1>4 DEF TypeOK
<1>10. CASE drive[Target].phase = "transfer"
  <2>1. kind[Target] = "disk" /\ ~drive[Target].err
    BY <1>10 DEF DrivesFollow
  <2>2. Halves(buf, fifo, Source)
    BY <1>2, <1>10 DEF WordsMove, Source
  <2>3. fifo # <<>>
    BY <1>8, <1>9, <2>2 DEF Halves
  <2> DEFINE rest == Tail(fifo)
  <2>4. buf' = Append(buf, Head(fifo))
    BY <1>3, <1>10 DEF Receive, DRQ
  <2>5. /\ rest = <<>> => drive' = [drive EXCEPT ![Target].phase = "idle", ![Target].fifo = rest]
        /\ rest # <<>> => drive' = [drive EXCEPT ![Target].fifo = rest]
    BY <1>3, <1>10 DEF Receive, DRQ
  <2>6. /\ buf' \in Seq(Word) /\ Len(buf') = Len(buf) + 1 /\ rest \in Seq(Word)
        /\ Halves(buf', rest, Source)
    BY <1>7, <1>8, <1>9, <2>2, <2>3, <2>4, OneMoved
  <2> HIDE DEF rest
  <2>7. Len(buf') + Len(rest) = Words /\ Len(rest) \in Nat
    BY <2>6 DEF Halves
  <2>8. rest = <<>> <=> Len(buf') = Words
    BY <1>8, <2>6, <2>7
  <2>9. /\ drive' \in Drives /\ \A d \in Bus \X Units : d # Target => drive'[d] = drive[d]
        /\ drive'[Target].cmd = drive[Target].cmd /\ drive'[Target].err = drive[Target].err
        /\ drive'[Target].fifo = rest
        /\ drive'[Target].phase = IF rest = <<>> THEN "idle" ELSE "transfer"
    <3>1. PICK m : m = [drive EXCEPT ![Target].phase = "idle"]
      OBVIOUS
    <3>2. /\ m \in Drives /\ m[Target].phase = "idle" /\ m[Target].cmd = drive[Target].cmd
          /\ m[Target].err = drive[Target].err
          /\ \A d \in Bus \X Units : d # Target => m[d] = drive[d]
      BY <1>4, <3>1 DEF TypeOK, Phase
    <3>3. CASE rest = <<>>
      <4>1. drive' = [m EXCEPT ![Target].fifo = rest]
        BY <2>5, <3>1, <3>3
      <4>2. QED
        BY <1>4, <2>6, <3>2, <3>3, <4>1
    <3>4. CASE rest # <<>>
      <4>1. PICK r : r = [drive[Target] EXCEPT !.fifo = rest]
        OBVIOUS
      <4>2. drive[Target] \in [phase : Phase, err : BOOLEAN, cmd : Cmd, fifo : Seq(Word)]
        BY <1>4 DEF TypeOK
      <4>3. /\ r \in [phase : Phase, err : BOOLEAN, cmd : Cmd, fifo : Seq(Word)]
            /\ r.cmd = drive[Target].cmd /\ r.err = drive[Target].err /\ r.fifo = rest
            /\ r.phase = "transfer"
        BY <1>10, <2>6, <4>1, <4>2
      <4>4. drive' = [drive EXCEPT ![Target] = r]
        BY <2>5, <3>4, <4>1
      <4>5. QED
        BY <1>4, <3>4, <4>3, <4>4 DEF TypeOK
    <3>5. QED
      BY <3>3, <3>4
  <2>10. Len(buf') = Words => buf' = Source
    BY <1>7, <2>6, <2>8, AllMoved
  <2>11. Len(buf') =< Words
    BY <1>8, <2>6
  <2>12. QED
    BY <1>1, <1>2, <1>4, <1>5, <1>7, <1>10, <2>1, <2>6, <2>8, <2>9, <2>10, <2>11
<1>11. CASE drive[Target].phase = "idle"
  <2>1. call.op = "init" /\ (kind[Target] # "disk" \/ drive[Target].err)
    BY <1>2, <1>5, <1>11 DEF DrivesFollow
  <2>2. buf' = Append(buf, 0) /\ drive' = drive
    BY <1>3, <1>11 DEF Receive, DRQ
  <2>3. buf' \in Seq(Word) /\ Len(buf') = Len(buf) + 1
    <3>1. 0 \in Word
      BY DEF Word
    <3>2. QED
      BY <1>8, <2>2, <3>1
  <2>4. Len(buf') =< Words /\ drive' \in Drives
    BY <1>8, <2>2, <2>3 DEF TypeOK
  <2>5. QED
    BY <1>1, <1>2, <1>4, <1>5, <1>7, <1>11, <2>1, <2>2, <2>3, <2>4
<1>12. QED
  BY <1>6, <1>10, <1>11

(* When the last word has been received the drive is idle (ata.c:92, 145). *)
LEMMA ReceiveStep ==
  ASSUME IInv, Receive PROVE IInv'
<1> USE DEF IInv
<1>1. /\ UNCHANGED <<kind, regs, medium, intrq, found, call, stopped, outcome, answer>>
      /\ Stage = "ready" /\ stopped = FALSE /\ Target \in Bus \X Units
      /\ at' = IF Len(buf') = Words THEN at + 1 ELSE at
      /\ buf' \in Seq(Word) /\ Len(buf') = Len(buf) + 1 /\ Len(buf') =< Words
      /\ drive' \in [Bus \X Units -> [phase : Phase, err : BOOLEAN, cmd : Cmd, fifo : Seq(Word)]]
      /\ \A d \in Bus \X Units : d # Target => drive'[d] = drive[d]
      /\ drive'[Target].cmd = drive[Target].cmd /\ drive'[Target].err = drive[Target].err
      /\ Source \in Contents
  BY ReceiveFacts
<1>2. (call.op = "init" /\ at = 7) \/ (call.op = "read" /\ at = 10)
  BY ReceiveFacts
<1>3. \/ /\ drive[Target].phase = "transfer" /\ kind[Target] = "disk" /\ ~drive[Target].err
         /\ Halves(buf', drive'[Target].fifo, Source)
         /\ IF Len(buf') = Words THEN drive'[Target].phase = "idle" /\ buf' = Source
            ELSE drive'[Target].phase = "transfer"
      \/ /\ drive[Target].phase = "idle" /\ (kind[Target] # "disk" \/ drive[Target].err) /\ call.op = "init"
         /\ drive' = drive /\ buf' = Append(buf, 0)
  BY ReceiveFacts
<1>4. Target' = Target /\ Sought' = Sought /\ Source' = Source
  BY <1>1 DEF Target, Sought, Source
<1>5. \/ at' = at /\ Len(buf') < Words /\ Stage' = "ready"
      \/ at' = at + 1 /\ Len(buf') = Words /\ Stage' = "still"
  <2>1. Len(buf') \in Nat /\ Words \in Nat
    BY <1>1, AtaAssumption
  <2>2. CASE Len(buf') = Words
    BY <1>1, <1>2, <2>2, StageTable DEF Stage
  <2>3. CASE Len(buf') # Words
    BY <1>1, <2>1, <2>3 DEF Stage
  <2>4. QED
    BY <2>2, <2>3
<1>6. TypeOK'
  <2>1. at' \in 1 .. Len(Stages[call.op])
    <3>1. CASE call.op = "init"
      BY <1>2, <1>5, <3>1, StageTable
    <3>2. CASE call.op = "read"
      BY <1>2, <1>5, <3>2, StageTable
    <3>3. QED
      BY <1>2, <3>1, <3>2
  <2>2. QED
    BY <1>1, <2>1 DEF TypeOK
<1>7. CallShape' /\ NothingAnswered'
  BY <1>1 DEF CallShape, Booted, NothingAnswered
<1>8. Addressed'
  BY <1>1, <1>2, <1>5 DEF Addressed
<1>9. DrivesFollow'
  <2>1. drive'[Target].phase \in Allowed[Stage']
    BY <1>3, <1>5, AllowedTable
  <2>2. drive'[Target].phase # "idle" => drive'[Target].cmd \in Commanded' /\ drive'[Target].cmd # "store"
    <3>1. Commanded' = Commanded /\ "store" \notin Commanded
      BY <1>1, <1>2 DEF Commanded
    <3>2. QED
      BY <1>1, <1>3, <3>1 DEF DrivesFollow
  <2>3. drive'[Target].phase = "transfer" => kind[Target] = "disk" /\ ~drive'[Target].err
    BY <1>1, <1>3 DEF DrivesFollow
  <2>4. kind[Target] = "disk" /\ Stage' # "still" => drive'[Target].phase # "idle" \/ drive'[Target].err
    BY <1>1, <1>3, <1>5
  <2>5. \A d \in Bus \X Units :
          drive'[d].phase \in IF d = Target THEN Allowed[Stage'] ELSE {"idle"}
    BY <1>1, <2>1 DEF DrivesFollow
  <2>6. call.op = "read" /\ at' = 10 => drive'[Target].phase = "transfer"
    BY <1>2, <1>3, <1>5
  <2>7. QED
    BY <1>1, <1>4, <2>2, <2>3, <2>4, <2>5, <2>6 DEF DrivesFollow
<1>10. RequestsTaken'
  BY <1>1, <1>4, AllowedTable DEF RequestsTaken
<1>11. WordsMove'
  <2>1. CASE call.op = "init"
    <3>1. \A k \in 1 .. Len(buf') :
               buf'[k] = IF kind[Target] = "disk" /\ ~drive'[Target].err THEN 3 ELSE 0
      <4>1. CASE kind[Target] = "disk" /\ ~drive[Target].err
        <5>1. Halves(buf', drive'[Target].fifo, Source)
          BY <1>3, <4>1, Zenon
        <5>2. \A k \in 1 .. Len(buf') : buf'[k] = Identity[k] /\ k \in 1 .. Words
          BY <1>1, <2>1, <5>1, AtaAssumption DEF Halves, Source
        <5>3. QED
          BY <1>1, <4>1, <5>2 DEF Identity
      <4>2. CASE kind[Target] # "disk" \/ drive[Target].err
        <5>1. buf' = Append(buf, 0) /\ buf \in Seq(Word)
          BY <1>3, <4>2 DEF TypeOK
        <5>2. \A k \in 1 .. Len(buf) : buf[k] = 0
          BY <2>1, <4>2 DEF WordsMove
        <5>3. QED
          BY <1>1, <4>2, <5>1, <5>2
      <4>3. QED
        BY <4>1, <4>2
    <3>2. drive'[Target].phase = "transfer" => Halves(buf', drive'[Target].fifo, Identity)
      BY <1>3, <2>1 DEF Source
    <3>3. QED
      BY <1>1, <1>2, <1>4, <1>5, <2>1, <3>1, <3>2 DEF WordsMove
  <2>2. CASE call.op = "read"
    <3>1. /\ drive'[Target].phase = "transfer" => Halves(buf', drive'[Target].fifo, medium[Sought])
          /\ Len(buf') = Words => buf' = medium[Sought]
      BY <1>3, <2>2 DEF Source
    <3>2. QED
      BY <1>1, <1>2, <1>4, <1>5, <2>2, <3>1 DEF WordsMove
  <2>3. QED
    BY <1>2, <2>1, <2>2
<1>12. OutcomeKnown'
  BY <1>1, <1>2, <1>3, <1>4, <1>5 DEF OutcomeKnown
<1>13. QED
  BY <1>6, <1>7, <1>8, <1>9, <1>10, <1>11, <1>12

(* A word is sent, to a disk that takes it or to nobody (ata.c:166).       *)
LEMMA SendFacts ==
  ASSUME IInv, Send
  PROVE  /\ UNCHANGED <<kind, regs, medium, intrq, found, call, stopped, outcome, answer>>
         /\ call.op = "write" /\ at = 11 /\ stopped = FALSE /\ Target \in Bus \X Units
         /\ at' = IF buf' = <<>> THEN at + 1 ELSE at
         /\ buf' \in Seq(Word)
         /\ drive' \in [Bus \X Units -> [phase : Phase, err : BOOLEAN, cmd : Cmd, fifo : Seq(Word)]]
         /\ \A d \in Bus \X Units : d # Target => drive'[d] = drive[d]
         /\ \/ /\ drive[Target].phase = "transfer" /\ kind[Target] = "disk"
               /\ drive[Target].cmd = "write" /\ ~drive[Target].err
               /\ IF buf' = <<>>
                  THEN /\ drive'[Target].phase = "latched" /\ drive'[Target].cmd = "store"
                       /\ drive'[Target].fifo = call.data
                  ELSE /\ drive'[Target].phase = "transfer" /\ drive'[Target].cmd = "write"
                       /\ drive'[Target].err = drive[Target].err
                       /\ Halves(drive'[Target].fifo, buf', call.data)
            \/ drive[Target].phase = "idle" /\ drive' = drive
<1> USE DEF IInv
<1> DEFINE R == [phase : Phase, err : BOOLEAN, cmd : Cmd, fifo : Seq(Word)]
           fifo == drive[Target].fifo
<1>1. /\ UNCHANGED <<kind, regs, medium, intrq, found, call, stopped, outcome, answer>>
      /\ Access("repoutsw") /\ at' = IF buf' = <<>> THEN at + 1 ELSE at
      /\ buf' = Tail(buf)
  BY DEF Send
<1>2. ~stopped /\ call.op = "write" /\ at = 11
  BY <1>1, Where
<1>3. Selected = Target
  BY <1>2, SelectedIsTarget
<1>4. Target \in Bus \X Units /\ stopped = FALSE /\ call.data \in Contents
  BY <1>2 DEF TypeOK, Target
<1>5. drive[Target].phase \in {"idle", "transfer"}
  <2>1. Stage = "ready"
    BY <1>2, StageTable DEF Stage
  <2>2. QED
    BY <1>4, <2>1, AllowedTable DEF DrivesFollow
<1>6. buf \in Seq(Word) /\ buf # <<>> /\ Words \in Nat
  BY <1>2, AtaAssumption DEF TypeOK, WordsMove
<1>7. Tail(buf) \in Seq(Word) /\ drive[Target] \in R
  BY <1>4, <1>6 DEF TypeOK
<1>8. CASE drive[Target].phase = "transfer"
  <2>1. kind[Target] = "disk" /\ drive[Target].cmd = "write" /\ ~drive[Target].err
    <3>1. Commanded = {"write"}
      BY <1>2, StageTable DEF Commanded, Stage
    <3>2. QED
      BY <1>8, <3>1 DEF DrivesFollow
  <2>2. Halves(fifo, buf, call.data)
    BY <1>2, <1>8 DEF WordsMove
  <2> DEFINE got == Append(fifo, Head(buf))
  <2>3. got \in Seq(Word) /\ Halves(got, buf', call.data) /\ buf' \in Seq(Word)
    BY <1>1, <1>4, <1>6, <1>7, <2>2, OneMoved
  <2>4. /\ Len(got) < Words => drive' = [drive EXCEPT ![Target].fifo = got]
        /\ ~(Len(got) < Words) => drive' = [drive EXCEPT ![Target].phase = "latched",
                                              ![Target].cmd = "store", ![Target].fifo = got]
    BY <1>3, <1>8 DEF Send, DRQ
  <2> HIDE DEF got
  <2>5. Len(got) + Len(buf') = Words /\ Len(got) \in Nat /\ Len(buf') \in Nat
    BY <2>3 DEF Halves
  <2>6. CASE buf' = <<>>
    <3>1. got = call.data
      BY <1>4, <2>3, <2>6, AllMoved
    <3>2. ~(Len(got) < Words)
      BY <1>6, <2>5, <2>6
    <3>3. PICK a : a = [drive[Target] EXCEPT !.phase = "latched"]
      OBVIOUS
    <3>4. a \in R /\ a.phase = "latched"
      BY <1>7, <3>3 DEF Phase
    <3>5. PICK b : b = [a EXCEPT !.cmd = "store"]
      OBVIOUS
    <3>6. b \in R /\ b.phase = "latched" /\ b.cmd = "store"
      BY <3>4, <3>5 DEF Cmd
    <3>7. PICK r : r = [b EXCEPT !.fifo = got]
      OBVIOUS
    <3>8. r \in R /\ r.phase = "latched" /\ r.cmd = "store" /\ r.fifo = call.data
      BY <2>3, <3>1, <3>6, <3>7
    <3>9. drive' = [drive EXCEPT ![Target] = r]
      <4>1. PICK e : e = [drive EXCEPT ![Target] = a]
        OBVIOUS
      <4>2. PICK f : f = [drive EXCEPT ![Target] = b]
        OBVIOUS
      <4>3. drive' = [[[drive EXCEPT ![Target].phase = "latched"] EXCEPT ![Target].cmd = "store"]
                        EXCEPT ![Target].fifo = got]
        BY <2>4, <3>2
      <4>4. [drive EXCEPT ![Target].phase = "latched"] = e
        BY <3>3, <4>1
      <4>5. [e EXCEPT ![Target].cmd = "store"] = f
        BY <1>4, <3>5, <4>1, <4>2 DEF TypeOK
      <4>6. [f EXCEPT ![Target].fifo = got] = [drive EXCEPT ![Target] = r]
        BY <1>4, <3>7, <4>2 DEF TypeOK
      <4>7. QED
        BY <4>3, <4>4, <4>5, <4>6
    <3>10. /\ drive' \in [Bus \X Units -> R] /\ drive'[Target] = r
           /\ \A d \in Bus \X Units : d # Target => drive'[d] = drive[d]
      BY <1>4, <3>8, <3>9 DEF TypeOK
    <3>11. QED
      BY <1>1, <1>2, <1>4, <1>8, <2>1, <2>3, <2>6, <3>8, <3>10
  <2>7. CASE buf' # <<>>
    <3>1. Len(got) < Words
      BY <1>6, <2>3, <2>5, <2>7
    <3>2. PICK r : r = [drive[Target] EXCEPT !.fifo = got]
      OBVIOUS
    <3>3. /\ r \in R /\ r.phase = "transfer" /\ r.cmd = "write" /\ r.err = drive[Target].err
          /\ r.fifo = got
      BY <1>7, <1>8, <2>1, <2>3, <3>2
    <3>4. drive' = [drive EXCEPT ![Target] = r]
      BY <2>4, <3>1, <3>2
    <3>5. /\ drive' \in [Bus \X Units -> R] /\ drive'[Target] = r
          /\ \A d \in Bus \X Units : d # Target => drive'[d] = drive[d]
      BY <1>4, <3>3, <3>4 DEF TypeOK
    <3>6. QED
      BY <1>1, <1>2, <1>4, <1>8, <2>1, <2>3, <2>7, <3>3, <3>5
  <2>8. QED
    BY <2>6, <2>7
<1>9. CASE drive[Target].phase = "idle"
  <2>1. drive' = drive
    BY <1>3, <1>9 DEF Send, DRQ
  <2>2. drive \in [Bus \X Units -> R]
    BY DEF TypeOK
  <2>3. QED
    BY <1>1, <1>2, <1>4, <1>7, <1>9, <2>1, <2>2
<1>10. QED
  BY <1>5, <1>8, <1>9

(* When the last word has been sent the drive stores the sector            *)
(* (ata.c:166).                                                            *)
LEMMA SendStep ==
  ASSUME IInv, Send PROVE IInv'
<1> USE DEF IInv
<1>1. /\ UNCHANGED <<kind, regs, medium, intrq, found, call, stopped, outcome, answer>>
      /\ call.op = "write" /\ at = 11 /\ stopped = FALSE /\ Target \in Bus \X Units
      /\ at' = IF buf' = <<>> THEN at + 1 ELSE at
      /\ buf' \in Seq(Word)
      /\ drive' \in [Bus \X Units -> [phase : Phase, err : BOOLEAN, cmd : Cmd, fifo : Seq(Word)]]
      /\ \A d \in Bus \X Units : d # Target => drive'[d] = drive[d]
  BY SendFacts
<1>2. \/ /\ drive[Target].phase = "transfer" /\ kind[Target] = "disk"
         /\ drive[Target].cmd = "write" /\ ~drive[Target].err
         /\ IF buf' = <<>>
            THEN /\ drive'[Target].phase = "latched" /\ drive'[Target].cmd = "store"
                 /\ drive'[Target].fifo = call.data
            ELSE /\ drive'[Target].phase = "transfer" /\ drive'[Target].cmd = "write"
                 /\ drive'[Target].err = drive[Target].err
                 /\ Halves(drive'[Target].fifo, buf', call.data)
      \/ drive[Target].phase = "idle" /\ drive' = drive
  BY SendFacts
<1>3. Target' = Target /\ Sought' = Sought
  BY <1>1 DEF Target, Sought
<1>4. \/ at' = 11 /\ buf' # <<>> /\ Stage' = "ready"
      \/ at' = 12 /\ buf' = <<>> /\ Stage' = "flushing"
  BY <1>1, StageTable DEF Stage
<1>5. TypeOK'
  <2>1. at' \in 1 .. Len(Stages[call.op])
    BY <1>1, <1>4, StageTable
  <2>2. QED
    BY <1>1, <2>1 DEF TypeOK
<1>6. CallShape' /\ NothingAnswered'
  BY <1>1 DEF CallShape, Booted, NothingAnswered
<1>7. Addressed'
  BY <1>1, <1>4 DEF Addressed
<1>8. DrivesFollow'
  <2>1. drive'[Target].phase \in Allowed[Stage']
    BY <1>2, <1>4, AllowedTable
  <2>2. drive'[Target].phase # "idle" => drive'[Target].cmd \in Commanded'
    BY <1>1, <1>2, <1>4 DEF Commanded
  <2>3. \A d \in Bus \X Units :
          drive'[d].phase \in IF d = Target THEN Allowed[Stage'] ELSE {"idle"}
    BY <1>1, <2>1 DEF DrivesFollow
  <2>4. /\ drive'[Target].phase = "transfer" => kind[Target] = "disk" /\ ~drive'[Target].err
        /\ drive'[Target].phase # "idle" /\ drive'[Target].cmd = "store" =>
             kind[Target] = "disk" /\ drive'[Target].fifo = call.data
    BY <1>2
  <2>5. QED
    BY <1>1, <1>3, <2>2, <2>3, <2>4 DEF DrivesFollow
<1>9. RequestsTaken'
  <2>1. intrq = {}
    BY <1>1, StageTable, AllowedTable DEF RequestsTaken, Stage
  <2>2. QED
    BY <1>1, <2>1 DEF RequestsTaken
<1>10. WordsMove'
  BY <1>1, <1>2, <1>3, <1>4 DEF WordsMove
<1>11. OutcomeKnown'
  BY <1>1, <1>2, <1>3, <1>4 DEF OutcomeKnown
<1>12. QED
  BY <1>5, <1>6, <1>7, <1>8, <1>9, <1>10, <1>11

(* What ide_init makes of the words (ata.c:103-116).                       *)
LEMMA ReportStep ==
  ASSUME IInv, Report PROVE IInv'
<1> USE DEF IInv
<1>1. /\ UNCHANGED <<kind, regs, drive, medium, intrq, call, buf, stopped, outcome, answer>>
      /\ at' = at + 1 /\ Access("report")
      /\ found' = [found EXCEPT ![call.bus] = IF buf[1] # 0 THEN "disk" ELSE "nothing"]
  BY DEF Report, hardware
<1>2. ~stopped /\ call.op = "init" /\ at = 8
  BY <1>1, Where
<1>3. Stage = "still" /\ Stage' = "still"
  BY <1>1, <1>2, StageTable DEF Stage
<1>4. Target' = Target /\ Sought' = Sought
  BY <1>1 DEF Target, Sought
<1>5. TypeOK'
  <2>1. at' \in 1 .. Len(Stages[call.op])
    BY <1>1, <1>2, StageTable
  <2>2. found' \in [Bus -> {"unknown", "disk", "nothing"}]
    BY <1>1 DEF TypeOK
  <2>3. QED
    BY <1>1, <2>1, <2>2 DEF TypeOK
<1>6. CallShape'
  BY <1>1, <1>2 DEF CallShape
<1>8. NothingAnswered'
  <2>1. \A b \in Bus : found'[b] = "unknown" => found[b] = "unknown"
    BY <1>1 DEF TypeOK
  <2>2. QED
    BY <1>1, <2>1 DEF NothingAnswered, Booted
<1>9. Addressed'
  BY <1>1, <1>2 DEF Addressed
<1>10. DrivesFollow'
  <2>1. drive[Target].phase = "idle"
    BY <1>3, AllowedTable DEF DrivesFollow, TypeOK, Target
  <2>2. QED
    BY <1>1, <1>2, <1>3, <1>4, <2>1 DEF DrivesFollow
<1>11. RequestsTaken'
  BY <1>1, <1>3 DEF RequestsTaken
<1>12. WordsMove'
  BY <1>1, <1>2, <1>4 DEF WordsMove
<1>13. OutcomeKnown'
  BY <1>1, <1>2 DEF OutcomeKnown
<1>14. QED
  BY <1>5, <1>6, <1>8, <1>9, <1>10, <1>11, <1>12, <1>13

(* A routine returns behind its last access.                               *)
LEMMA ReturnFacts ==
  ASSUME TypeOK, CallShape, Return
  PROVE  /\ \/ call.op = "init" /\ at = 9
            \/ call.op = "read" /\ at = 13
            \/ call.op = "write" /\ at = 15
         /\ Stage = "still"
<1>1. /\ call # None /\ at > Len(Program) /\ call.op \in {"none", "init", "read", "write"}
      /\ call.unit \in Units /\ call.lba \in Nat /\ at \in 1 .. Len(Stages[call.op])
  BY DEF Return, TypeOK
<1>2. call.op # "none"
  BY <1>1 DEF CallShape
<1>3. CASE call.op = "init"
  <2>1. Len(Program) = 8
    BY <1>3 DEF Program, ide_init
  <2>2. at = 9
    BY <1>1, <1>3, <2>1, StageTable
  <2>3. QED
    BY <1>3, <2>2, StageTable DEF Stage
<1>4. CASE call.op = "read"
  <2>1. Len(ide_read_sector(call.unit, call.lba)) = 12
    BY <1>1, ReadSteps
  <2>2. at > 12
    BY <1>1, <1>4, <2>1 DEF Program
  <2>3. at = 13
    BY <1>1, <1>4, <2>2, StageTable
  <2>4. QED
    BY <1>4, <2>3, StageTable DEF Stage
<1>5. CASE call.op = "write"
  <2>1. Len(ide_write_sector(call.unit, call.lba)) = 14
    BY <1>1, WriteSteps
  <2>2. at > 14
    BY <1>1, <1>5, <2>1 DEF Program
  <2>3. at = 15
    BY <1>1, <1>5, <2>2, StageTable
  <2>4. QED
    BY <1>5, <2>3, StageTable DEF Stage
<1>6. QED
  BY <1>1, <1>2, <1>3, <1>4, <1>5

(* Between two calls, and before the first command of one, everything is   *)
(* at rest.                                                                *)
LEMMA AtRest ==
  ASSUME IInv, Stage = "still"
  PROVE  (\A d \in Bus \X Units : drive[d].phase = "idle") /\ intrq = {}
BY AllowedTable DEF IInv, DrivesFollow, RequestsTaken

(* The state at the beginning of a call, or of none.                       *)
LEMMA Fresh ==
  ASSUME IInv, Stage = "still", ~stopped,
         UNCHANGED <<hardware, found, stopped>>, at' = 1, outcome' = "open",
         call' \in [op : {"none", "init", "read", "write"}, bus : Bus, unit : Units, lba : Nat,
                    data : Contents],
         buf' = IF call'.op = "write" THEN call'.data ELSE <<>>,
         CallShape', NothingAnswered'
  PROVE  IInv'
<1> USE DEF IInv
<1>1. UNCHANGED <<kind, regs, drive, medium, intrq>>
  BY DEF hardware
<1>2. (\A d \in Bus \X Units : drive[d].phase = "idle") /\ intrq = {}
  BY AtRest
<1>3. Stage' = "still" /\ at' \in 1 .. Len(Stages[call'.op])
  <2>1. call'.op \in {"none", "init", "read", "write"}
    OBVIOUS
  <2>2. QED
    BY <2>1, StageTable DEF Stage
<1>4. TypeOK'
  <2>1. buf' \in Seq(Word)
    BY NothingMoved
  <2>2. stopped' \in BOOLEAN /\ found' \in [Bus -> {"unknown", "disk", "nothing"}]
    BY DEF TypeOK
  <2>3. QED
    BY <1>1, <1>3, <2>1, <2>2 DEF TypeOK
<1>6. Addressed'
  BY DEF Addressed
<1>7. Target' \in Bus \X Units
  BY DEF Target
<1>8. DrivesFollow'
  BY <1>1, <1>2, <1>3, <1>7, AllowedTable DEF DrivesFollow
<1>9. RequestsTaken'
  BY <1>1, <1>2 DEF RequestsTaken
<1>10. WordsMove'
  <2>1. drive'[Target'].phase # "transfer"
    BY <1>1, <1>2, <1>7
  <2>2. Words \in Nat \ {0} /\ Len(<<>>) = 0
    BY AtaAssumption
  <2>3. QED
    BY <2>1, <2>2 DEF WordsMove
<1>11. OutcomeKnown'
  BY DEF OutcomeKnown
<1>12. QED
  BY <1>4, <1>6, <1>8, <1>9, <1>10, <1>11

(* The absence of a call is typed like a call.                             *)
LEMMA NoneTyped ==
  None \in [op : {"none", "init", "read", "write"}, bus : Bus, unit : Units, lba : Nat, data : Contents]
<1>1. "primary" \in Bus
  BY DEF Bus, Buses, ToSet
<1>2. QED
  BY <1>1, SectorsOfThrees DEF None, Units

(* A call returns with every drive idle (ata.c:68-169).                    *)
LEMMA ReturnStep ==
  ASSUME IInv, Return PROVE IInv'
<1> USE DEF IInv
<1>1. /\ UNCHANGED <<hardware, found, stopped>> /\ call' = None /\ at' = 1 /\ buf' = <<>>
      /\ outcome' = "open" /\ answer' = (IF call.op = "read" THEN buf ELSE answer) /\ ~stopped
  BY DEF Return
<1>2. Stage = "still"
  BY ReturnFacts
<1>3. None.op = "none"
  BY DEF None
<1>4. CallShape'
  BY <1>1, <1>3 DEF CallShape
<1>5. NothingAnswered'
  BY <1>1 DEF NothingAnswered, CallShape, Booted
<1>6. QED
  BY <1>1, <1>2, <1>3, <1>4, <1>5, NoneTyped, Fresh

(* A call begins with every drive idle (ata.c:216-224).                    *)
LEMMA CallStep ==
  ASSUME IInv, ata_init \/ Transfer PROVE IInv'
<1> USE DEF IInv
<1>1. PICK op \in {"init", "read", "write"}, b \in Bus, u \in Units, lba \in Nat, data \in Contents :
        /\ Calling(op, b, u, lba, data)
        /\ IF op = "init" THEN u = 0 /\ ~Booted ELSE Booted
  <2>1. CASE ata_init
    <3>1. PICK k \in DOMAIN Buses : found[Buses[k]] = "unknown" /\ Calling("init", Buses[k], 0, 0, Blank)
      BY <2>1 DEF ata_init
    <3>2. Buses[k] \in Bus
      BY DEF Bus, Buses, ToSet
    <3>3. ~Booted /\ 0 \in Units /\ 0 \in Nat
      BY <3>1, <3>2 DEF Booted, Units
    <3>4. QED
      BY <3>1, <3>2, <3>3, SectorsOfThrees
  <2>2. CASE Transfer
    <3>1. Booted
      BY <2>2 DEF Transfer
    <3>2. PICK b \in Bus, u \in Units, lba \in Lbas :
            \/ Calling("read", b, u, lba, Blank)
            \/ \E data \in Written : Calling("write", b, u, lba, data)
      BY <2>2 DEF Transfer
    <3>3. lba \in Nat /\ Written \subseteq Contents
      BY AtaAssumption
    <3>4. QED
      BY <3>1, <3>2, <3>3, SectorsOfThrees
  <2>3. QED
    BY <2>1, <2>2
<1> DEFINE c == [op |-> op, bus |-> b, unit |-> u, lba |-> lba, data |-> data]
<1>2. /\ call = None /\ call' = c /\ at' = 1 /\ buf' = (IF op = "write" THEN data ELSE <<>>)
      /\ answer' = <<>> /\ UNCHANGED <<hardware, found, stopped, outcome>>
  BY <1>1 DEF Calling
<1>3. c.op = op /\ c.unit = u /\ c.data = data
      /\ c \in [op : {"none", "init", "read", "write"}, bus : Bus, unit : Units, lba : Nat, data : Contents]
  OBVIOUS
<1> HIDE DEF c
<1>4. call.op = "none"
  BY <1>2 DEF None
<1>5. Stage = "still" /\ ~stopped /\ outcome = "open"
  <2>1. at \in 1 .. 1
    BY <1>4, StageTable DEF TypeOK
  <2>2. QED
    BY <1>4, <2>1, StageTable DEF Stage, CallShape, OutcomeKnown
<1>6. CallShape'
  BY <1>1, <1>2, <1>3, <1>5 DEF CallShape, Booted
<1>7. NothingAnswered'
  BY <1>2 DEF NothingAnswered
<1>8. QED
  BY <1>2, <1>3, <1>5, <1>6, <1>7, Fresh

-------------------------------------------------------------------------------
(***************************************************************************)
(* The drives preserve the invariant.                                      *)
(***************************************************************************)
Records == [phase : Phase, err : BOOLEAN, cmd : Cmd, fifo : Seq(Word)]

(* Only the drive that is addressed is at work, after a command and before *)
(* the wait for it has ended.                                              *)
LEMMA AtWork ==
  ASSUME IInv, NEW d \in Bus \X Units, drive[d].phase \in {"latched", "busy"}
  PROVE  /\ d = Target /\ d[1] = call.bus /\ stopped = FALSE /\ drive[Target].cmd \in Commanded
         /\ \/ call.op = "init" /\ at \in {4, 5, 6} /\ Stage \in {"given", "shown"}
            \/ call.op = "read" /\ at \in {7, 8} /\ Stage \in {"given", "shown"}
            \/ call.op = "write" /\ at \in {9, 10} /\ Stage \in {"given", "shown"}
            \/ call.op = "write" /\ at \in {12, 13, 14} /\ Stage \in {"flushing", "flushed"}
         /\ drive[Target].phase = "latched" => Stage \in {"given", "flushing"}
<1> USE DEF IInv
<1>1. d = Target
  BY DEF DrivesFollow
<1>2. drive[Target].phase \in Allowed[Stage]
  BY <1>1 DEF DrivesFollow
<1>3. Stage \notin {"still", "ready"}
  BY <1>1, <1>2, AllowedTable
<1>4. /\ at \in 1 .. Len(Stages[call.op]) /\ call.op \in {"none", "init", "read", "write"}
      /\ call.bus \in Bus /\ stopped \in BOOLEAN
  BY DEF TypeOK
<1>5. \/ call.op = "init" /\ at \in {4, 5, 6} /\ Stage \in {"given", "shown"}
      \/ call.op = "read" /\ at \in {7, 8} /\ Stage \in {"given", "shown"}
      \/ call.op = "write" /\ at \in {9, 10} /\ Stage \in {"given", "shown"}
      \/ call.op = "write" /\ at \in {12, 13, 14} /\ Stage \in {"flushing", "flushed"}
  <2>1. CASE call.op = "none"
    BY <1>3, <1>4, <2>1, StageTable DEF Stage
  <2>2. CASE call.op = "init"
    <3>1. at \in {1, 2, 3, 4, 5, 6, 7, 8, 9}
      BY <1>4, <2>2, StageTable
    <3>2. QED
      BY <1>3, <2>2, <3>1, StageTable DEF Stage
  <2>3. CASE call.op = "read"
    <3>1. at \in {1, 2, 3, 4, 5, 6, 7, 8, 9, 10, 11, 12, 13}
      BY <1>4, <2>3, StageTable
    <3>2. QED
      BY <1>3, <2>3, <3>1, StageTable DEF Stage
  <2>4. CASE call.op = "write"
    <3>1. at \in {1, 2, 3, 4, 5, 6, 7, 8, 9, 10, 11, 12, 13, 14, 15}
      BY <1>4, <2>4, StageTable
    <3>2. QED
      BY <1>3, <2>4, <3>1, StageTable DEF Stage
  <2>5. QED
    BY <1>4, <2>1, <2>2, <2>3, <2>4
<1>6. stopped = FALSE
  BY <1>4, <1>5 DEF CallShape
<1>7. drive[Target].phase = "latched" => Stage \in {"given", "flushing"}
  BY <1>2, <1>5, AllowedTable
<1>8. d[1] = call.bus
  BY <1>1 DEF Target
<1>9. drive[Target].cmd \in Commanded
  BY <1>1 DEF DrivesFollow
<1>10. QED
  BY <1>1, <1>5, <1>6, <1>7, <1>8, <1>9

(* What a drive does preserves the invariant if it suits the command.      *)
LEMMA DriveMoves ==
  ASSUME IInv, NEW r \in Records, drive[Target].phase \in {"latched", "busy"},
         UNCHANGED <<kind, regs, driver, answer>>, drive' = [drive EXCEPT ![Target] = r],
         intrq' \subseteq intrq \union {call.bus}, medium' \in [Place -> Contents],
         outcome' \in {"open", "stored", "failed"}, OutcomeKnown',
         r.phase \in Allowed[Stage], r.phase # "idle" => r.cmd = drive[Target].cmd,
         r.phase \in {"latched", "busy"} => r.fifo = drive[Target].fifo,
         r.phase = "transfer" =>
           /\ kind[Target] = "disk" /\ ~r.err /\ r.cmd # "store" /\ medium' = medium
           /\ IF call.op = "write" THEN Halves(r.fifo, buf, call.data) ELSE Halves(buf, r.fifo, Source),
         call.op = "init" /\ kind[Target] = "disk" => r.phase # "idle" \/ r.err
  PROVE  IInv'
<1> USE DEF IInv
<1>1. /\ UNCHANGED <<kind, regs, found, call, at, buf, stopped, answer>>
  BY DEF driver
<1>2. Target \in Bus \X Units
  BY DEF TypeOK, Target
<1>3. /\ stopped = FALSE /\ drive[Target].cmd \in Commanded
      /\ \/ call.op = "init" /\ at \in {4, 5, 6} /\ Stage \in {"given", "shown"}
         \/ call.op = "read" /\ at \in {7, 8} /\ Stage \in {"given", "shown"}
         \/ call.op = "write" /\ at \in {9, 10} /\ Stage \in {"given", "shown"}
         \/ call.op = "write" /\ at \in {12, 13, 14} /\ Stage \in {"flushing", "flushed"}
  BY <1>2, AtWork
<1>4. Target' = Target /\ Sought' = Sought /\ Stage' = Stage /\ Commanded' = Commanded
  BY <1>1 DEF Target, Sought, Stage, Commanded
<1>5. /\ drive' \in [Bus \X Units -> Records] /\ drive'[Target] = r
      /\ \A d \in Bus \X Units : d # Target => drive'[d] = drive[d]
  BY <1>2 DEF TypeOK, Records
<1>6. TypeOK'
  <2>1. intrq' \in SUBSET Bus
    BY DEF TypeOK
  <2>2. QED
    BY <1>1, <1>5, <2>1 DEF TypeOK, Records
<1>7. CallShape' /\ NothingAnswered'
  BY <1>1, <1>3 DEF CallShape, Booted, NothingAnswered
<1>8. Addressed'
  BY <1>1 DEF Addressed
<1>9. DrivesFollow'
  <2>1. \A d \in Bus \X Units :
          drive'[d].phase \in IF d = Target THEN Allowed[Stage] ELSE {"idle"}
    BY <1>5 DEF DrivesFollow
  <2>2. r.phase # "idle" /\ r.cmd = "store" => kind[Target] = "disk" /\ r.fifo = call.data
    <3>1. r.phase \in Phase
      BY DEF Records
    <3>2. QED
      BY <3>1 DEF DrivesFollow, Phase
  <2>3. QED
    BY <1>1, <1>3, <1>4, <1>5, <2>1, <2>2 DEF DrivesFollow
<1>10. RequestsTaken'
  <2>1. "busy" \in Allowed[Stage]
    BY <1>3, AllowedTable
  <2>2. QED
    BY <1>1, <1>4, <2>1 DEF RequestsTaken
<1>11. WordsMove'
  <2>1. r.phase = "transfer" =>
           IF call.op = "write" THEN Halves(r.fifo, buf, call.data)
           ELSE Halves(buf, r.fifo, IF call.op = "init" THEN Identity ELSE medium'[Sought])
    BY DEF Source
  <2>2. at \in Nat /\ (call.op = "read" => at < 10) /\ (call.op = "init" => at < 7 /\ buf = <<>>)
    BY <1>3 DEF WordsMove
  <2>3. \A k \in 1 .. Len(<<>>) : FALSE
    OBVIOUS
  <2>4. QED
    BY <1>1, <1>4, <1>5, <2>1, <2>2, <2>3 DEF WordsMove
<1>12. QED
  BY <1>6, <1>7, <1>8, <1>9, <1>10, <1>11

(* The command at work tells the routine and where it is.                  *)
LEMMA CommandTells ==
  ASSUME IInv, NEW d \in Bus \X Units, drive[d].phase \in {"latched", "busy"}
  PROVE  /\ d = Target /\ Target \in Bus \X Units /\ drive[Target] \in Records
         /\ \/ drive[d].cmd = "identify" /\ call.op = "init" /\ at \in {4, 5, 6} /\ buf = <<>>
            \/ drive[d].cmd = "read" /\ call.op = "read" /\ at \in {7, 8} /\ buf = <<>>
            \/ drive[d].cmd = "write" /\ call.op = "write" /\ at \in {9, 10} /\ buf = call.data
            \/ /\ drive[d].cmd \in {"store", "flush"} /\ call.op = "write" /\ at \in {12, 13, 14}
         /\ drive[d].cmd = "store" => kind[d] = "disk" /\ drive[d].fifo = call.data
         /\ drive[d].cmd \in {"read", "write", "store", "flush"} =>
              <<d[1], d[2], Sector(regs[d[1]])>> = Sought /\ Sought \in Place
<1> USE DEF IInv
<1>1. /\ d = Target /\ drive[Target].cmd \in Commanded
      /\ \/ call.op = "init" /\ at \in {4, 5, 6} /\ Stage \in {"given", "shown"}
         \/ call.op = "read" /\ at \in {7, 8} /\ Stage \in {"given", "shown"}
         \/ call.op = "write" /\ at \in {9, 10} /\ Stage \in {"given", "shown"}
         \/ call.op = "write" /\ at \in {12, 13, 14} /\ Stage \in {"flushing", "flushed"}
  BY AtWork
<1>2. drive[Target] \in Records
  BY <1>1 DEF TypeOK, Records
<1>3. \/ drive[d].cmd = "identify" /\ call.op = "init" /\ at \in {4, 5, 6}
      \/ drive[d].cmd = "read" /\ call.op = "read" /\ at \in {7, 8}
      \/ drive[d].cmd = "write" /\ call.op = "write" /\ at \in {9, 10}
      \/ drive[d].cmd \in {"store", "flush"} /\ call.op = "write" /\ at \in {12, 13, 14}
  BY <1>1 DEF Commanded
<1>4. /\ drive[d].cmd = "identify" => buf = <<>>
      /\ drive[d].cmd = "read" => buf = <<>>
      /\ drive[d].cmd = "write" => buf = call.data
  BY <1>3 DEF WordsMove
<1>5. drive[d].cmd = "store" => kind[d] = "disk" /\ drive[d].fifo = call.data
  BY <1>1 DEF DrivesFollow
<1>6. ASSUME drive[d].cmd \in {"read", "write", "store", "flush"}
      PROVE  <<d[1], d[2], Sector(regs[d[1]])>> = Sought /\ Sought \in Place
  <2>1. call.bus \in Bus /\ call.unit \in Units /\ call.lba \in Nat
    BY DEF TypeOK
  <2>2. Sought \in Place
    BY <2>1, PlaceExists DEF Sought
  <2>3. (call.op = "read" /\ at > 6) \/ (call.op = "write" /\ at > 8)
    BY <1>3, <1>6
  <2>4. Sector(regs[call.bus]) = call.lba % Size
    <3>1. PICK r : r = regs[call.bus]
      OBVIOUS
    <3>2. /\ r.HDDEVSEL = SelectSector(call.unit, call.lba)[3]
          /\ r.LBA0 = SetAddress(call.lba)[1][3] /\ r.LBA1 = SetAddress(call.lba)[2][3]
          /\ r.LBA2 = SetAddress(call.lba)[3][3]
      <4>1. CASE call.op = "read" /\ at > 6
        BY <3>1, <4>1 DEF Addressed, TypeOK
      <4>2. CASE call.op = "write" /\ at > 8
        BY <3>1, <4>2 DEF Addressed, TypeOK
      <4>3. QED
        BY <2>3, <4>1, <4>2
    <3>3. Sector(r) = call.lba % Size
      BY <2>1, <3>2, SectorAddressed
    <3>4. QED
      BY <3>1, <3>3
  <2>5. QED
    BY <1>1, <2>2, <2>4 DEF Target, Sought
<1>7. QED
  BY <1>1, <1>2, <1>3, <1>4, <1>5, <1>6

(* A drive shows that it is at work.                                       *)
LEMMA AcceptStep ==
  ASSUME IInv, NEW d \in Bus \X Units, Accept(d) PROVE IInv'
<1>1. /\ drive[d].phase = "latched" /\ UNCHANGED <<kind, regs, medium, intrq, driver, outcome, answer>>
      /\ drive' = [drive EXCEPT ![d] = [phase |-> "busy", err |-> FALSE, cmd |-> drive[d].cmd,
                                        fifo |-> drive[d].fifo]]
  BY DEF Accept, Set
<1>2. d = Target /\ Target \in Bus \X Units /\ drive[Target] \in Records
  BY <1>1, CommandTells
<1>3. Stage \in {"given", "flushing"}
  BY <1>1, <1>2, AtWork
<1> DEFINE r == [phase |-> "busy", err |-> FALSE, cmd |-> drive[Target].cmd,
                 fifo |-> drive[Target].fifo]
<1>4. /\ r \in Records /\ r.phase = "busy" /\ r.cmd = drive[Target].cmd
      /\ r.fifo = drive[Target].fifo
  BY <1>2 DEF Records, Phase
<1>5. drive' = [drive EXCEPT ![Target] = r] /\ drive'[Target] = r
  BY <1>1, <1>2 DEF IInv, TypeOK
<1> HIDE DEF r
<1>6. "busy" \in Allowed[Stage]
  BY <1>3, AllowedTable
<1>7. UNCHANGED <<call, at, kind>> /\ Target' = Target
  BY <1>1 DEF driver, Target
<1>8. OutcomeKnown'
  BY <1>1, <1>2, <1>4, <1>5, <1>7 DEF IInv, OutcomeKnown
<1>9. medium' \in [Place -> Contents] /\ outcome' \in {"open", "stored", "failed"}
  BY <1>1 DEF IInv, TypeOK
<1>10. QED
  BY <1>1, <1>2, <1>4, <1>5, <1>6, <1>8, <1>9, DriveMoves

(* The ends of commands, as the steps of a drive.                          *)
LEMMA CompleteStep ==
  ASSUME IInv, NEW d \in Bus \X Units, Complete(d), UNCHANGED <<kind, regs, driver, answer>>
  PROVE  IInv'
<1> USE DEF IInv
<1>1. drive[d].phase = "busy"
  BY DEF Complete, Working
<1>2. /\ d = Target /\ Target \in Bus \X Units /\ drive[Target] \in Records
      /\ \/ drive[d].cmd = "identify" /\ call.op = "init" /\ at \in {4, 5, 6} /\ buf = <<>>
         \/ drive[d].cmd = "read" /\ call.op = "read" /\ at \in {7, 8} /\ buf = <<>>
         \/ drive[d].cmd = "write" /\ call.op = "write" /\ at \in {9, 10} /\ buf = call.data
         \/ drive[d].cmd \in {"store", "flush"} /\ call.op = "write" /\ at \in {12, 13, 14}
      /\ drive[d].cmd = "store" => kind[d] = "disk" /\ drive[d].fifo = call.data
      /\ drive[d].cmd \in {"read", "write", "store", "flush"} =>
           <<d[1], d[2], Sector(regs[d[1]])>> = Sought /\ Sought \in Place
  BY <1>1, CommandTells
<1>3. /\ d[1] = call.bus
      /\ \/ call.op = "init" /\ Stage \in {"given", "shown"}
         \/ call.op = "read" /\ Stage \in {"given", "shown"}
         \/ call.op = "write" /\ at \in {9, 10} /\ Stage \in {"given", "shown"}
         \/ call.op = "write" /\ at \in {12, 13, 14} /\ Stage \in {"flushing", "flushed"}
  BY <1>1, AtWork
<1>4. UNCHANGED <<call, at, kind>> /\ Target' = Target
  BY DEF driver, Target
<1>5. /\ "idle" \in Allowed[Stage]
      /\ Stage \in {"given", "shown"} => "transfer" \in Allowed[Stage]
  BY <1>3, AllowedTable
<1>6. \A r \in Records : drive' = [drive EXCEPT ![d] = r] => drive'[Target] = r
  BY <1>2 DEF TypeOK
<1>7. medium \in [Place -> Contents] /\ outcome \in {"open", "stored", "failed"}
      /\ call.data \in Contents
  BY DEF TypeOK
<1>8. Identity \in Seq(Word) /\ Halves(<<>>, Identity, Identity)
  BY SectorsOfThrees, NothingMoved
<1>9. CASE Working(d, "identify") /\ kind[d] = "disk"
  <2> DEFINE r == [phase |-> "transfer", err |-> FALSE, cmd |-> "identify", fifo |-> Identity]
  <2>1. /\ drive[d].cmd = "identify" /\ drive' = [drive EXCEPT ![d] = r]
        /\ intrq' = intrq \union {d[1]} /\ UNCHANGED <<medium, outcome>>
    BY <1>9 DEF Complete, Working, Set
  <2>2. r \in Records /\ r.phase = "transfer" /\ ~r.err /\ r.cmd = "identify" /\ r.fifo = Identity
    BY <1>8 DEF Records, Phase, Cmd
  <2> HIDE DEF r
  <2>3. call.op = "init" /\ buf = <<>>
    BY <1>2, <2>1
  <2>4. OutcomeKnown'
    BY <1>4, <2>1, <2>3 DEF OutcomeKnown
  <2>5. Halves(buf, r.fifo, Source)
    BY <1>8, <2>2, <2>3 DEF Source
  <2>6. drive' = [drive EXCEPT ![Target] = r]
    BY <1>2, <2>1
  <2>7. QED
    BY <1>1, <1>2, <1>3, <1>5, <1>7, <1>9, <2>1, <2>2, <2>3, <2>4, <2>5, <2>6, DriveMoves
<1>10. CASE Working(d, "read") /\ kind[d] = "disk"
  <2> DEFINE r == [phase |-> "transfer", err |-> FALSE, cmd |-> "read", fifo |-> medium[Sought]]
  <2>1. drive[d].cmd = "read"
    BY <1>10 DEF Working
  <2>2. /\ drive' = [drive EXCEPT ![d] = r]
        /\ intrq' = intrq \union {d[1]} /\ UNCHANGED <<medium, outcome>>
    BY <1>2, <1>10, <2>1 DEF Complete, Working, Set
  <2>3. medium[Sought] \in Contents /\ call.op = "read" /\ buf = <<>> /\ at \in {7, 8}
    BY <1>2, <1>7, <2>1
  <2>4. medium[Sought] \in Seq(Word) /\ Halves(<<>>, medium[Sought], medium[Sought])
    BY <2>3, NothingMoved
  <2>5. r \in Records /\ r.phase = "transfer" /\ ~r.err /\ r.cmd = "read" /\ r.fifo = medium[Sought]
    BY <2>4 DEF Records, Phase, Cmd
  <2> HIDE DEF r
  <2>6. drive' = [drive EXCEPT ![Target] = r] /\ drive'[Target] = r
    BY <1>2, <1>6, <2>2, <2>5
  <2>7. OutcomeKnown'
    BY <1>1, <1>2, <1>4, <1>10, <2>2, <2>3, <2>5, <2>6 DEF OutcomeKnown
  <2>8. Halves(buf, r.fifo, Source)
    BY <2>3, <2>4, <2>5 DEF Source
  <2>9. QED
    BY <1>1, <1>2, <1>3, <1>5, <1>7, <1>10, <2>1, <2>2, <2>3, <2>5, <2>6, <2>7, <2>8, DriveMoves
<1>11. CASE Working(d, "write") /\ kind[d] = "disk"
  <2> DEFINE r == [phase |-> "transfer", err |-> FALSE, cmd |-> "write", fifo |-> <<>>]
  <2>1. /\ drive[d].cmd = "write" /\ drive' = [drive EXCEPT ![d] = r]
        /\ UNCHANGED <<medium, intrq, outcome>>
    BY <1>11 DEF Complete, Working, Set
  <2>2. r \in Records /\ r.phase = "transfer" /\ ~r.err /\ r.cmd = "write" /\ r.fifo = <<>>
    BY DEF Records, Phase, Cmd
  <2> HIDE DEF r
  <2>3. call.op = "write" /\ buf = call.data /\ at \in {9, 10}
    BY <1>2, <2>1
  <2>4. drive' = [drive EXCEPT ![Target] = r] /\ drive'[Target] = r
    BY <1>2, <1>6, <2>1, <2>2
  <2>5. OutcomeKnown'
    BY <1>1, <1>2, <1>4, <1>11, <2>1, <2>2, <2>3, <2>4 DEF OutcomeKnown
  <2>6. Halves(r.fifo, buf, call.data)
    BY <1>7, <2>2, <2>3, NothingMoved
  <2>7. Stage \in {"given", "shown"}
    BY <1>3, <2>3
  <2>8. QED
    BY <1>1, <1>2, <1>5, <1>7, <1>11, <2>1, <2>2, <2>3, <2>4, <2>5, <2>6, <2>7, DriveMoves
<1>12. ASSUME NEW o \in {"open", "stored", "failed"},
              drive' = [drive EXCEPT ![d] = [phase |-> "idle", err |-> FALSE, cmd |-> "none", fifo |-> <<>>]],
              intrq' = intrq \union {d[1]}, medium' \in [Place -> Contents], outcome' = o,
              call.op = "write", at \in {12, 13, 14}, o # "open", kind[d] # "disk" => o = "failed"
       PROVE  IInv'
  <2> DEFINE r == [phase |-> "idle", err |-> FALSE, cmd |-> "none", fifo |-> <<>>]
  <2>1. r \in Records /\ r.phase = "idle"
    BY DEF Records, Phase, Cmd
  <2>2. drive' = [drive EXCEPT ![d] = r]
    BY <1>12
  <2> HIDE DEF r
  <2>3. drive' = [drive EXCEPT ![Target] = r] /\ drive'[Target] = r
    BY <1>2, <1>6, <2>1, <2>2
  <2>4. OutcomeKnown'
    BY <1>2, <1>4, <1>12, <2>1, <2>3 DEF OutcomeKnown
  <2>5. QED
    BY <1>1, <1>2, <1>3, <1>5, <1>12, <2>1, <2>3, <2>4, DriveMoves
<1>13. CASE Working(d, "store")
  <2>1. drive[d].cmd = "store"
    BY <1>13 DEF Working
  <2>2. call.op = "write" /\ at \in {12, 13, 14} /\ kind[d] = "disk"
    BY <1>2, <2>1
  <2>3. /\ drive' = [drive EXCEPT ![d] = [phase |-> "idle", err |-> FALSE, cmd |-> "none", fifo |-> <<>>]]
        /\ intrq' = intrq \union {d[1]} /\ outcome' = "stored"
        /\ medium' = [medium EXCEPT ![Sought] = call.data]
    BY <1>2, <1>13, <2>1 DEF Complete, Working, Set
  <2>4. medium' \in [Place -> Contents]
    BY <1>7, <2>3
  <2>5. QED
    BY <1>12, <2>2, <2>3, <2>4
<1>14. CASE Working(d, "flush") /\ kind[d] = "disk"
  <2>1. /\ drive' = [drive EXCEPT ![d] = [phase |-> "idle", err |-> FALSE, cmd |-> "none", fifo |-> <<>>]]
        /\ intrq' = intrq \union {d[1]} /\ UNCHANGED <<medium, outcome>> /\ drive[d].cmd = "flush"
    BY <1>14 DEF Complete, Working, Set
  <2>2. call.op = "write" /\ at \in {12, 13, 14}
    BY <1>2, <2>1
  <2>3. outcome # "open"
    BY <1>2, <2>1, <2>2 DEF OutcomeKnown
  <2>4. QED
    BY <1>7, <1>12, <1>14, <2>1, <2>2, <2>3
<1>15. QED
  BY <1>9, <1>10, <1>11, <1>13, <1>14 DEF Complete

(* A drive that refuses or fails is idle at once.                          *)
LEMMA AbortStep ==
  ASSUME IInv, NEW d \in Bus \X Units, Abort(d), UNCHANGED <<kind, regs, driver, answer>>
  PROVE  IInv'
<1> USE DEF IInv
<1> DEFINE r == [phase |-> "idle", err |-> TRUE, cmd |-> "none", fifo |-> <<>>]
<1>1. /\ drive[d].phase = "busy" /\ drive' = [drive EXCEPT ![d] = r]
      /\ kind[d] = "packet" \/ drive[d].cmd \in Failing
      /\ intrq' = intrq \union {d[1]} /\ medium' = medium
      /\ outcome' = IF drive[d].cmd \in {"read", "write", "store"} THEN "failed" ELSE outcome
  BY DEF Abort, Set
<1>2. /\ d = Target /\ Target \in Bus \X Units
      /\ \/ drive[d].cmd = "identify" /\ call.op = "init" /\ at \in {4, 5, 6}
         \/ drive[d].cmd = "read" /\ call.op = "read" /\ at \in {7, 8}
         \/ drive[d].cmd = "write" /\ call.op = "write" /\ at \in {9, 10}
         \/ drive[d].cmd \in {"store", "flush"} /\ call.op = "write" /\ at \in {12, 13, 14}
  BY <1>1, CommandTells
<1>3. d[1] = call.bus /\ Stage \in {"given", "shown", "flushing", "flushed"}
  BY <1>1, AtWork
<1>4. UNCHANGED <<call, at, kind>> /\ Target' = Target
  BY DEF driver, Target
<1>5. "idle" \in Allowed[Stage]
  BY <1>3, AllowedTable
<1>6. r \in Records /\ r.phase = "idle"
  BY DEF Records, Phase, Cmd
<1> HIDE DEF r
<1>7. drive' = [drive EXCEPT ![Target] = r] /\ drive'[Target] = r
  BY <1>1, <1>2 DEF TypeOK
<1>8. r.err
  BY DEF r
<1>9. OutcomeKnown'
  <2>1. CASE call.op = "init"
    BY <1>1, <1>2, <1>4, <2>1 DEF OutcomeKnown
  <2>2. CASE call.op = "read"
    BY <1>1, <1>2, <1>4, <1>6, <1>7, <2>2 DEF OutcomeKnown
  <2>3. CASE call.op = "write"
    BY <1>1, <1>2, <1>4, <1>6, <1>7, <2>3 DEF OutcomeKnown
  <2>4. QED
    BY <1>2, <2>1, <2>2, <2>3
<1>10. medium' \in [Place -> Contents] /\ outcome' \in {"open", "stored", "failed"}
  BY <1>1 DEF TypeOK
<1>11. QED
  BY <1>1, <1>2, <1>3, <1>5, <1>6, <1>7, <1>8, <1>9, <1>10, DriveMoves

-------------------------------------------------------------------------------
(***************************************************************************)
(* The theorems.                                                           *)
(***************************************************************************)
(* Before ata_init nothing is known of the drives (ata.c:216-224).         *)
LEMMA InitInv == Init => IInv
<1> SUFFICES ASSUME Init PROVE IInv
  OBVIOUS
<1>1. /\ kind \in Machines /\ call = None /\ at = 1 /\ buf = <<>> /\ stopped = FALSE
      /\ outcome = "open" /\ answer = <<>> /\ intrq = {} /\ found = [b \in Bus |-> "unknown"]
      /\ regs = [b \in Bus |-> [HDDEVSEL |-> 0, LBA0 |-> 0, LBA1 |-> 0, LBA2 |-> 0]]
      /\ drive = [d \in Bus \X Units |-> Idle] /\ medium = [p \in Place |-> Blank]
  BY DEF Init
<1>2. call.op = "none" /\ call.bus \in Bus /\ call.unit \in Units
  BY <1>1, NoneTyped DEF None
<1>3. Target \in Bus \X Units /\ Stage = "still"
  BY <1>1, <1>2, StageTable DEF Target, Stage
<1>4. \A d \in Bus \X Units : drive[d].phase = "idle"
  BY <1>1 DEF Idle
<1>5. TypeOK
  <2>1. Idle \in [phase : Phase, err : BOOLEAN, cmd : Cmd, fifo : Seq(Word)]
    BY DEF Idle, Phase, Cmd
  <2>2. drive \in [Bus \X Units -> [phase : Phase, err : BOOLEAN, cmd : Cmd, fifo : Seq(Word)]]
    BY <1>1, <2>1
  <2>3. medium \in [Place -> Contents] /\ kind \in [Bus \X Units -> Kinds]
    BY <1>1, SectorsOfThrees, AtaAssumption
  <2>4. regs \in [Bus -> [HDDEVSEL : Nat, LBA0 : Nat, LBA1 : Nat, LBA2 : Nat]]
    BY <1>1
  <2>5. at \in 1 .. Len(Stages[call.op])
    BY <1>1, <1>2, StageTable
  <2>6. call \in [op : {"none", "init", "read", "write"}, bus : Bus, unit : Units, lba : Nat,
                  data : Contents]
    BY <1>1, NoneTyped
  <2>7. found \in [Bus -> {"unknown", "disk", "nothing"}]
    BY <1>1
  <2>8. buf \in Seq(Word)
    BY <1>1
  <2>9. intrq \in SUBSET Bus /\ stopped \in BOOLEAN /\ outcome \in {"open", "stored", "failed"}
    BY <1>1
  <2>10. QED
    BY <2>2, <2>3, <2>4, <2>5, <2>6, <2>7, <2>8, <2>9, Zenon DEF TypeOK
<1>6. CallShape /\ Addressed /\ NothingAnswered
  BY <1>1, <1>2 DEF CallShape, Addressed, NothingAnswered
<1>7. DrivesFollow
  BY <1>2, <1>3, <1>4, AllowedTable DEF DrivesFollow
<1>8. RequestsTaken
  BY <1>1 DEF RequestsTaken
<1>9. WordsMove
  BY <1>1, <1>2, <1>3, <1>4 DEF WordsMove
<1>10. OutcomeKnown
  BY <1>1, <1>2 DEF OutcomeKnown
<1>11. QED
  BY <1>5, <1>6, <1>7, <1>8, <1>9, <1>10 DEF IInv

(* A kernel that has stopped, or waits for a bus that floats, stays as it  *)
(* is (ata.c:62).                                                          *)
LEMMA StutterStep ==
  ASSUME IInv, UNCHANGED vars PROVE IInv'
<1>1. UNCHANGED <<kind, regs, drive, medium, intrq, found, call, at, buf, stopped, outcome, answer>>
  BY DEF vars, hardware, driver
<1>2. /\ Target' = Target /\ Sought' = Sought /\ Stage' = Stage /\ Booted' = Booted
      /\ Commanded' = Commanded
  BY <1>1 DEF Target, Sought, Stage, Booted, Commanded
<1>3. TypeOK' /\ CallShape' /\ Addressed'
  BY <1>1, <1>2 DEF IInv, TypeOK, CallShape, Addressed
<1>4. DrivesFollow' /\ RequestsTaken'
  BY <1>1, <1>2 DEF IInv, DrivesFollow, RequestsTaken
<1>5. WordsMove' /\ OutcomeKnown'
  BY <1>1, <1>2 DEF IInv, WordsMove, OutcomeKnown
<1>6. NothingAnswered'
  BY <1>1, <1>2 DEF IInv, NothingAnswered
<1>7. QED
  BY <1>3, <1>4, <1>5, <1>6 DEF IInv

(* Every step of the driver and of the drives preserves the invariant.     *)
LEMMA NextStep ==
  ASSUME IInv, [Next]_vars PROVE IInv'
<1>1. CASE ata_init \/ Transfer
  BY <1>1, CallStep
<1>2. CASE Accesses
  <2>1. CASE delay400ns \/ inb \/ ata_wait_ready \/ Check
    BY <2>1, WaitStep
  <2>2. CASE Outb
    BY <2>2, OutbStep
  <2>3. CASE WriteCommand
    BY <2>3, CommandStep
  <2>4. CASE Receive
    BY <2>4, ReceiveStep
  <2>5. CASE Send
    BY <2>5, SendStep
  <2>6. CASE Report
    BY <2>6, ReportStep
  <2>7. CASE Return
    BY <2>7, ReturnStep
  <2>8. QED
    BY <1>2, <2>1, <2>2, <2>3, <2>4, <2>5, <2>6, <2>7 DEF Accesses
<1>3. CASE Drive
  <2>1. PICK d \in Bus \X Units :
               \/ Accept(d)
               \/ (Complete(d) \/ Abort(d)) /\ UNCHANGED <<kind, regs, driver, answer>>
    BY <1>3 DEF Drive
  <2>2. CASE Accept(d)
    BY <2>2, AcceptStep
  <2>3. CASE Complete(d) /\ UNCHANGED <<kind, regs, driver, answer>>
    BY <2>3, CompleteStep
  <2>4. CASE Abort(d) /\ UNCHANGED <<kind, regs, driver, answer>>
    BY <2>4, AbortStep
  <2>5. QED
    BY <2>1, <2>2, <2>3, <2>4
<1>4. CASE hlt \/ Spin \/ UNCHANGED vars
  BY <1>4, StutterStep DEF hlt, Spin
<1>5. QED
  BY <1>1, <1>2, <1>3, <1>4 DEF Next

(* Whatever the drives do, the driver and they stay together: what a drive *)
(* works on, the words on their way and the registers follow from the      *)
(* access that the routine is at (ata.c:70-169).                           *)
THEOREM DriverAndDrivesAgree == Spec => []IInv
<1>1. IInv /\ [Next]_vars => IInv'
  BY NextStep
<1>2. QED
  BY InitInv, <1>1, PTL DEF Spec

(* Every request for an interrupt is taken back before the call returns    *)
(* (ata.c:103, 171, 173).                                                  *)
THEOREM RequestsTakenBack == Spec => []NoRequestLeft
<1>1. IInv => NoRequestLeft
  <2> SUFFICES ASSUME IInv, call = None PROVE intrq = {}
    BY DEF NoRequestLeft
  <2>1. call.op = "none"
    BY DEF None
  <2>2. Stage = "still"
    <3>1. at \in 1 .. Len(Stages[call.op])
      BY DEF IInv, TypeOK
    <3>2. at = 1
      BY <2>1, <3>1, StageTable
    <3>3. QED
      BY <2>1, <3>2, StageTable DEF Stage
  <2>3. QED
    BY <2>2, AtRest
<1>2. QED
  BY <1>1, DriverAndDrivesAgree, PTL

(* The words tell whether the master has identified itself as a disk.      *)
LEMMA ReportTells ==
  ASSUME IInv, Report
  PROVE  /\ \A b \in Bus \ {call.bus} : found'[b] = found[b]
         /\ found'[call.bus] = "disk" <=>
              kind[<<call.bus, 0>>] = "disk" /\ ~drive[<<call.bus, 0>>].err
<1> USE DEF IInv
<1>1. Access("report") /\ found' = [found EXCEPT ![call.bus] = IF buf[1] # 0 THEN "disk" ELSE "nothing"]
  BY DEF Report
<1>2. call.op = "init" /\ at = 8
  BY <1>1, Where
<1>3. Target = <<call.bus, 0>>
  BY <1>2 DEF CallShape, Target
<1>4. buf[1] = IF kind[Target] = "disk" /\ ~drive[Target].err THEN 3 ELSE 0
  <2>1. Len(buf) = Words /\ Words \in Nat \ {0}
    BY <1>2, AtaAssumption DEF WordsMove
  <2>2. 1 \in 1 .. Len(buf)
    BY <2>1
  <2>3. QED
    BY <1>2, <2>2 DEF WordsMove
<1>5. found'[call.bus] = IF buf[1] # 0 THEN "disk" ELSE "nothing"
  BY <1>1 DEF TypeOK
<1>6. found'[call.bus] = "disk" <=> kind[Target] = "disk" /\ ~drive[Target].err
  BY <1>4, <1>5
<1>7. \A b \in Bus \ {call.bus} : found'[b] = found[b]
  BY <1>1 DEF TypeOK
<1>8. QED
  BY <1>3, <1>6, <1>7

(* ide_init takes the master of a bus for a disk exactly if it is one that *)
(* has identified itself, whatever the other drives do and whatever comes  *)
(* of the words of one that has refused (ata.c:76-116).                    *)
THEOREM MastersAreFound == Spec => FindsTheMasters
<1>1. ASSUME IInv, [Next]_vars, NEW b \in Bus, found'[b] # found[b]
      PROVE  found'[b] = "disk" <=> kind[<<b, 0>>] = "disk" /\ ~drive[<<b, 0>>].err
  <2>1. CASE Report
    BY <1>1, <2>1, ReportTells
  <2>2. CASE ~Report
    <3>1. found' = found
      BY <1>1, <2>2 DEF Next, ata_init, Transfer, Calling, Accesses, Outb, WriteCommand, delay400ns,
         inb, ata_wait_ready, Check, Receive, Send, Return, GoOn, Drive, Accept, driver, hlt, Spin, vars
    <3>2. QED
      BY <1>1, <3>1
  <2>3. QED
    BY <2>1, <2>2
<1>2. IInv /\ [Next]_vars =>
        [\A b \in Bus : found'[b] # found[b] =>
           (found'[b] = "disk" <=> kind[<<b, 0>>] = "disk" /\ ~drive[<<b, 0>>].err)]_vars
  BY <1>1
<1>3. QED
  BY <1>2, DriverAndDrivesAgree, PTL DEF Spec, FindsTheMasters

(* identify, read and write are written to an idle drive (ata.c:79, 138,   *)
(* 163).                                                                   *)
THEOREM CommandsAreTaken == Spec => OnlyFlushTooEarly
<1>1. IInv /\ [Next]_vars =>
        [(Access("command") /\ at' # at /\ Present /\ Arg # "flush") => Taken]_vars
  <2> SUFFICES ASSUME IInv, Access("command"), Present, Arg # "flush" PROVE Taken
    OBVIOUS
  <2>1. /\ \/ call.op = "init" /\ at = 3
           \/ call.op = "read" /\ at = 6
           \/ call.op = "write" /\ at = 8
    BY Where DEF IInv
  <2>2. Stage = "still"
    BY <2>1, StageTable DEF Stage
  <2>3. Selected = Target
    <3>1. (call.op = "init" /\ at > 1) \/ (call.op \in {"read", "write"} /\ at > 2)
      BY <2>1
    <3>2. QED
      BY <3>1, SelectedIsTarget DEF IInv
  <2>4. Target \in Bus \X Units
    BY DEF IInv, TypeOK, Target
  <2>5. QED
    BY <2>2, <2>3, <2>4, AtRest DEF Taken
<1>2. QED
  BY <1>1, DriverAndDrivesAgree, PTL DEF Spec, OnlyFlushTooEarly

-------------------------------------------------------------------------------
(***************************************************************************)
(* The driver implements the disk.                                         *)
(***************************************************************************)
Request ==
  IF call.op \in {"read", "write"} THEN [op |-> call.op, place |-> Sought, data |-> call.data]
  ELSE None

(* Every 28 bits of an address are those of a sector (ata.c:131-137).      *)
LEMMA RequestTyped ==
  ASSUME NEW c \in [op : {"none", "init", "read", "write"}, bus : Bus, unit : Units, lba : Nat,
                    data : Contents],
         c.op \in {"read", "write"}
  PROVE  [op |-> c.op, place |-> <<c.bus, c.unit, c.lba % Size>>, data |-> c.data] \in D!Requests
BY PlaceExists DEF D!Requests

(* The request is that of the call in progress (ata.c:125, 149).           *)
LEMMA Requested ==
  ASSUME TypeOK
  PROVE  /\ call.op \in {"read", "write"} =>
              /\ Request # None /\ Request \in D!Requests
              /\ Request.op = call.op /\ Request.place = Sought /\ Request.data = call.data
         /\ call.op \in {"none", "init"} => Request = None
<1>1. CASE call.op \in {"read", "write"}
  <2>1. Request = [op |-> call.op, place |-> Sought, data |-> call.data]
    BY <1>1 DEF Request
  <2>2. Request.op = call.op /\ Request.place = Sought /\ Request.data = call.data
    BY <2>1
  <2>3. Request # None
    BY <1>1, <2>2 DEF None
  <2>4. Request \in D!Requests
    BY <1>1, <2>1, RequestTyped DEF TypeOK, Sought
  <2>5. QED
    BY <1>1, <2>2, <2>3, <2>4
<1>2. CASE call.op \notin {"read", "write"}
  BY <1>2 DEF Request
<1>3. QED
  BY <1>1, <1>2

(* A sector is asked for (ata.c:125, 149).                                 *)
LEMMA DiskAsked ==
  ASSUME Request = None, Request' \in D!Requests, answer' = <<>>,
         UNCHANGED <<medium, outcome, stopped>>
  PROVE  D!Next
<1>1. D!Ask
  BY DEF Request, Sought, D!Ask
<1>2. QED
  BY <1>1 DEF D!Next

(* The disk stores the sector that it has been sent (ata.c:166).           *)
LEMMA DiskStored ==
  ASSUME Request # None, Request.op = "write", outcome = "open",
         medium' = [medium EXCEPT ![Request.place] = Request.data], outcome' = "stored",
         Request' = Request, UNCHANGED <<answer, stopped>>
  PROVE  D!Next
<1>1. D!Store
  BY DEF Request, Sought, D!Store
<1>2. QED
  BY <1>1 DEF D!Next

(* A drive refuses, fails or is missing (ata.c:41-58).                     *)
LEMMA DiskFailed ==
  ASSUME Request # None, outcome = "open", outcome' = "failed",
         Request' = Request, UNCHANGED <<medium, answer, stopped>>
  PROVE  D!Next
<1>1. D!Fail
  BY DEF Request, Sought, D!Fail
<1>2. QED
  BY <1>1 DEF D!Next

(* ide_read_sector returns (ata.c:147).                                    *)
LEMMA DiskAnswered ==
  ASSUME Request # None, Request.op = "read", outcome = "open",
         answer' = medium[Request.place], Request' = None, UNCHANGED <<medium, outcome, stopped>>
  PROVE  D!Next
<1>1. D!Answer
  BY DEF Request, Sought, D!Answer
<1>2. QED
  BY <1>1 DEF D!Next

(* ide_write_sector returns (ata.c:169).                                   *)
LEMMA DiskReturned ==
  ASSUME Request # None, Request.op = "write", outcome # "open",
         Request' = None, outcome' = "open", UNCHANGED <<medium, answer, stopped>>
  PROVE  D!Next
<1>1. D!Return
  BY DEF Request, Sought, D!Return
<1>2. QED
  BY <1>1 DEF D!Next

(* A failed read stops the kernel (ata.c:140).                             *)
LEMMA DiskStopped ==
  ASSUME Request # None, Request.op = "read", outcome = "failed",
         stopped' = TRUE, Request' = Request, UNCHANGED <<medium, outcome, answer>>
  PROVE  D!Next
<1>1. D!Stop
  BY DEF Request, Sought, D!Stop
<1>2. QED
  BY <1>1 DEF D!Next

(* Most accesses concern nobody but the driver and the drive.              *)
LEMMA DiskStutters ==
  ASSUME Request' = Request, UNCHANGED <<medium, outcome, answer, stopped>>
  PROVE  UNCHANGED D!vars
BY DEF Request, Sought, D!vars

(* At first nothing is asked for (ata.c:216).                              *)
LEMMA DiskInit == Init => D!Init
<1> SUFFICES ASSUME Init PROVE D!Init
  OBVIOUS
<1>1. medium \in [Place -> Contents]
  BY SectorsOfThrees DEF Init
<1>2. call = None /\ outcome = "open" /\ answer = <<>> /\ stopped = FALSE
  BY DEF Init
<1>3. Request = None
  BY <1>2 DEF Request, None
<1>4. QED
  BY <1>1, <1>2, <1>3 DEF Request, Sought, D!Init

(* A call asks for a sector, except those of ata_init.                     *)
LEMMA CallImplements ==
  ASSUME IInv, IInv', ata_init \/ Transfer PROVE [D!Next]_(D!vars)
<1>1. call = None /\ answer' = <<>> /\ UNCHANGED <<medium, outcome, stopped>>
  BY DEF ata_init, Transfer, Calling, hardware
<1>2. Request = None
  BY <1>1, Requested DEF IInv, None
<1>3. CASE ata_init
  <2>1. call'.op = "init"
    BY <1>3 DEF ata_init, Calling
  <2>2. Request' = None
    BY <2>1 DEF Request
  <2>3. answer = <<>>
    <3>1. \A k \in DOMAIN Buses : Buses[k] \in Bus
      BY DEF Bus, Buses, ToSet
    <3>2. ~Booted
      BY <1>3, <3>1 DEF ata_init, Booted
    <3>3. QED
      BY <3>2 DEF IInv, NothingAnswered
  <2>4. QED
    BY <1>1, <1>2, <2>2, <2>3, DiskStutters
<1>4. CASE Transfer
  <2>1. call'.op \in {"read", "write"}
    BY <1>4 DEF Transfer, Calling
  <2>2. TypeOK'
    BY DEF IInv
  <2>3. Request' \in D!Requests
    BY <2>1, <2>2, RequestTyped DEF TypeOK, Request, Sought
  <2>4. QED
    BY <1>1, <1>2, <2>3, DiskAsked
<1>5. QED
  BY <1>3, <1>4

(* A command that is given to no disk loses the sector (ata.c:138, 163).   *)
LEMMA CommandImplements ==
  ASSUME IInv, WriteCommand PROVE [D!Next]_(D!vars)
<1>1. UNCHANGED <<medium, answer, call, stopped>>
  BY CommandFacts
<1>2. \/ call.op = "init" /\ at = 3 /\ Arg = "identify"
      \/ call.op = "read" /\ at = 6 /\ Arg = "read"
      \/ call.op = "write" /\ at = 8 /\ Arg = "write"
      \/ call.op = "write" /\ at = 12 /\ Arg = "flush"
  BY CommandFacts
<1>3. outcome' = IF Arg \in {"read", "write"} /\ kind[Target] # "disk" THEN "failed" ELSE outcome
  BY CommandFacts
<1>4. Request' = Request
  BY <1>1 DEF Request, Sought
<1>5. CASE Arg \in {"read", "write"} /\ kind[Target] # "disk"
  <2>1. outcome = "open" /\ call.op \in {"read", "write"}
    BY <1>2, <1>5 DEF IInv, OutcomeKnown
  <2>2. Request # None
    BY <2>1, Requested DEF IInv
  <2>3. QED
    BY <1>1, <1>3, <1>4, <1>5, <2>1, <2>2, DiskFailed
<1>6. CASE ~(Arg \in {"read", "write"} /\ kind[Target] # "disk")
  <2>1. outcome' = outcome
    BY <1>3, <1>6
  <2>2. QED
    BY <1>1, <1>4, <2>1, DiskStutters
<1>7. QED
  BY <1>5, <1>6

(* The error that ide_read_sector logs stops the kernel (ata.c:140-143).   *)
LEMMA WaitImplements ==
  ASSUME IInv, IInv', delay400ns \/ inb \/ ata_wait_ready \/ Check PROVE [D!Next]_(D!vars)
<1>1. UNCHANGED <<medium, outcome, answer, call>>
  BY WaitFacts
<1>2. stopped' \in BOOLEAN /\ stopped \in BOOLEAN
  BY DEF IInv, TypeOK
<1>3. Request' = Request
  BY <1>1 DEF Request, Sought
<1>4. ~stopped
  <2>1. \E name : Access(name)
    BY DEF delay400ns, inb, ata_wait_ready, Check
  <2>2. QED
    BY <2>1 DEF Access
<1>5. CASE stopped'
  <2>1. call.op = "read" /\ outcome = "failed" /\ stopped' = TRUE
    BY <1>1, <1>2, <1>5 DEF IInv, CallShape
  <2>2. Request # None /\ Request.op = "read"
    BY <2>1, Requested DEF IInv
  <2>3. QED
    BY <1>1, <1>3, <2>1, <2>2, DiskStopped
<1>6. CASE ~stopped'
  <2>1. stopped' = stopped
    BY <1>2, <1>4, <1>6
  <2>2. QED
    BY <1>1, <1>3, <2>1, DiskStutters
<1>7. QED
  BY <1>5, <1>6

(* Who has read has what the disk has there, and who has written is told   *)
(* nothing, but not before it is done or lost (ata.c:147, 169).            *)
LEMMA ReturnImplements ==
  ASSUME IInv, Return PROVE [D!Next]_(D!vars)
<1> USE DEF IInv
<1>1. /\ UNCHANGED <<medium, stopped>> /\ call' = None /\ outcome' = "open"
      /\ answer' = IF call.op = "read" THEN buf ELSE answer
  BY DEF Return, hardware
<1>2. Request' = None
  BY <1>1 DEF Request, None
<1>3. /\ \/ call.op = "init" /\ at = 9
         \/ call.op = "read" /\ at = 13
         \/ call.op = "write" /\ at = 15
      /\ Stage = "still"
  BY ReturnFacts
<1>4. CASE call.op = "init"
  <2>1. outcome' = outcome /\ answer' = answer
    BY <1>1, <1>4 DEF OutcomeKnown
  <2>2. Request = None
    BY <1>4, Requested
  <2>3. QED
    BY <1>1, <1>2, <2>1, <2>2, DiskStutters
<1>5. CASE call.op = "read"
  <2>1. buf = medium[Sought] /\ outcome = "open"
    BY <1>3, <1>5 DEF WordsMove, OutcomeKnown
  <2>2. Request # None /\ Request.op = "read" /\ Request.place = Sought
    BY <1>5, Requested
  <2>3. answer' = medium[Request.place] /\ outcome' = outcome
    BY <1>1, <1>5, <2>1, <2>2
  <2>4. QED
    BY <1>1, <1>2, <2>1, <2>2, <2>3, DiskAnswered
<1>6. CASE call.op = "write"
  <2>1. drive[Target].phase = "idle"
    BY <1>3, AtRest DEF TypeOK, Target
  <2>2. outcome # "open"
    BY <1>3, <1>6, <2>1 DEF OutcomeKnown
  <2>3. Request # None /\ Request.op = "write"
    BY <1>6, Requested
  <2>4. answer' = answer
    BY <1>1, <1>6
  <2>5. QED
    BY <1>1, <1>2, <2>2, <2>3, <2>4, DiskReturned
<1>7. QED
  BY <1>3, <1>4, <1>5, <1>6

(* The sector that was asked for is stored, once and as a whole.           *)
LEMMA CompleteImplements ==
  ASSUME IInv, NEW d \in Bus \X Units, Complete(d), UNCHANGED <<kind, regs, driver, answer>>
  PROVE  [D!Next]_(D!vars)
<1> USE DEF IInv
<1>1. drive[d].phase = "busy" /\ UNCHANGED <<call, stopped, answer>>
  BY DEF Complete, Working, driver
<1>2. Request' = Request
  BY <1>1 DEF Request, Sought
<1>3. CASE Working(d, "store")
  <2>1. drive[d].cmd = "store"
    BY <1>3 DEF Working
  <2>2. /\ d = Target /\ call.op = "write" /\ at \in {12, 13, 14}
        /\ kind[d] = "disk" /\ drive[d].fifo = call.data
        /\ <<d[1], d[2], Sector(regs[d[1]])>> = Sought
    BY <1>1, <2>1, CommandTells
  <2>3. medium' = [medium EXCEPT ![Sought] = call.data] /\ outcome' = "stored"
    BY <1>3, <2>1, <2>2 DEF Complete, Working
  <2>4. outcome = "open"
    BY <1>1, <2>1, <2>2 DEF OutcomeKnown
  <2>5. Request # None /\ Request.op = "write" /\ Request.place = Sought /\ Request.data = call.data
    BY <2>2, Requested
  <2>6. QED
    BY <1>1, <1>2, <2>3, <2>4, <2>5, DiskStored
<1>4. CASE ~Working(d, "store")
  <2>1. UNCHANGED <<medium, outcome>>
    BY <1>4 DEF Complete
  <2>2. QED
    BY <1>1, <1>2, <2>1, DiskStutters
<1>5. QED
  BY <1>3, <1>4

(* A disk that gives up loses the sector; other drives had none to lose.   *)
LEMMA AbortImplements ==
  ASSUME IInv, NEW d \in Bus \X Units, Abort(d), UNCHANGED <<kind, regs, driver, answer>>
  PROVE  [D!Next]_(D!vars)
<1> USE DEF IInv
<1>1. /\ drive[d].phase = "busy" /\ UNCHANGED <<call, stopped, answer, medium>>
      /\ outcome' = IF drive[d].cmd \in {"read", "write", "store"} THEN "failed" ELSE outcome
  BY DEF Abort, driver
<1>2. Request' = Request
  BY <1>1 DEF Request, Sought
<1>3. CASE outcome' = outcome
  BY <1>1, <1>2, <1>3, DiskStutters
<1>4. CASE outcome' # outcome
  <2>1. drive[d].cmd \in {"read", "write", "store"} /\ outcome' = "failed" /\ outcome # "failed"
    BY <1>1, <1>4
  <2>2. /\ d = Target
        /\ \/ call.op = "read" /\ at \in {7, 8}
           \/ call.op = "write" /\ at \in {9, 10} /\ drive[d].cmd = "write"
           \/ call.op = "write" /\ at \in {12, 13, 14} /\ drive[d].cmd = "store"
    BY <1>1, <2>1, CommandTells
  <2>3. outcome = "open"
    <3>1. CASE call.op = "read"
      BY <2>1, <2>2, <3>1 DEF OutcomeKnown, TypeOK
    <3>2. CASE call.op = "write"
      <4>1. ~(at < 9)
        BY <2>2, <3>2
      <4>2. /\ kind[Target] # "disk" => outcome = "failed"
            /\ outcome = "open" <=> /\ kind[Target] = "disk" /\ drive[Target].phase # "idle"
                                   /\ drive[Target].cmd # "flush"
        BY <3>2, <4>1 DEF OutcomeKnown
      <4>3. QED
        BY <1>1, <2>1, <2>2, <4>2
    <3>3. QED
      BY <2>2, <3>1, <3>2
  <2>4. Request # None
    BY <2>2, Requested
  <2>5. QED
    BY <1>1, <1>2, <2>1, <2>3, <2>4, DiskFailed
<1>5. QED
  BY <1>3, <1>4

(* Every step of ata.c and of the drives is one of the disk, or none.      *)
LEMMA StepImplements ==
  ASSUME IInv, IInv', [Next]_vars PROVE [D!Next]_(D!vars)
<1>1. CASE ata_init \/ Transfer
  BY <1>1, CallImplements
<1>2. CASE WriteCommand
  BY <1>2, CommandImplements
<1>3. CASE delay400ns \/ inb \/ ata_wait_ready \/ Check
  BY <1>3, WaitImplements
<1>4. CASE Return
  BY <1>4, ReturnImplements
<1>5. CASE Drive
  <2>1. PICK d \in Bus \X Units :
               \/ Accept(d)
               \/ (Complete(d) \/ Abort(d)) /\ UNCHANGED <<kind, regs, driver, answer>>
    BY <1>5 DEF Drive
  <2>2. CASE Accept(d)
    <3>1. UNCHANGED <<medium, call, outcome, answer, stopped>>
      BY <2>2 DEF Accept, driver
    <3>2. QED
      BY <3>1, DiskStutters DEF Request, Sought
  <2>3. CASE Complete(d) /\ UNCHANGED <<kind, regs, driver, answer>>
    BY <2>3, CompleteImplements
  <2>4. CASE Abort(d) /\ UNCHANGED <<kind, regs, driver, answer>>
    BY <2>4, AbortImplements
  <2>5. QED
    BY <2>1, <2>2, <2>3, <2>4
<1>6. CASE Outb \/ Receive \/ Send \/ Report \/ hlt \/ Spin \/ UNCHANGED vars
  <2>1. UNCHANGED <<medium, call, outcome, answer, stopped>>
    BY <1>6 DEF Outb, GoOn, Receive, Send, Report, hlt, Spin, vars, hardware, driver
  <2>2. QED
    BY <2>1, DiskStutters DEF Request, Sought
<1>7. QED
  BY <1>1, <1>2, <1>3, <1>4, <1>5, <1>6 DEF Next, Accesses

(* ata.c implements Disk: what is read is what the disk has there, a write *)
(* changes its own sector as a whole and is over when it returns, and only *)
(* a drive that fails or is not there loses one (ata.c:125-169).           *)
THEOREM Implementation == Spec => ImplementsDisk
<1>1. IInv /\ IInv' /\ [Next]_vars => [D!Next]_(D!vars)
  BY StepImplements
<1>2. QED
  BY DiskInit, <1>1, DriverAndDrivesAgree, PTL DEF Spec, ImplementsDisk, D!Spec
===============================================================================
