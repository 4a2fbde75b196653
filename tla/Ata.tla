---------------------------------- MODULE Ata ----------------------------------
(***************************************************************************)
(* drivers/ata.c against the drives of two buses: identification at boot,  *)
(* reading and writing of sectors by programmed transfer of words.         *)
(*                                                                         *)
(* Every routine of the driver is a straight sequence of port accesses,    *)
(* its Program.  The drives are external; between two accesses they go on. *)
(* Left out are the writes that reach no register (the ports bus + 0x306   *)
(* and bus + ATA_REG_CONTROL are not those of the drive's control          *)
(* register, so that its interrupts stay on), the features and the sector  *)
(* count, which are constants.  ata_init calls ide_init; no code calls     *)
(* ide_read_sector and ide_write_sector yet, and here anybody does.        *)
(***************************************************************************)
EXTENDS Integers, Sequences, SequencesExt

CONSTANTS
  Byte, Nibble,    \* values of a register of the address: 256, and 16 in HDDEVSEL
  Lbas,            \* the addresses that callers ask for
  Words,           \* the words of a sector: 256
  Written,         \* the sectors that callers write
  Machines,        \* what the buses are populated with
  Failing          \* the phases of commands at which disks may fail

Buses == <<"primary", "secondary">>      \* ATA_PRIMARY_IO, ATA_SECONDARY_IO
Bus   == ToSet(Buses)
Units == {0, 1}                          \* ATA_MASTER, ATA_SLAVE
Kinds == {"disk", "packet", "empty", "floating"}
Size  == Byte * Byte * Byte * Nibble
Place == Bus \X Units \X (0 .. Size - 1)

Word     == 0 .. 3
Blank    == [k \in 1 .. Words |-> 3]
Identity == [k \in 1 .. Words |-> 3]     \* of a disk; its first word is not 0
Contents == [1 .. Words -> Word]

ASSUME AtaAssumption ==
  /\ Byte \in Nat \ {0} /\ Nibble \in Nat \ {0} /\ Words \in Nat \ {0}
  /\ Lbas \subseteq Nat
  /\ Written \subseteq Contents
  /\ Machines \subseteq [Bus \X Units -> Kinds]
  /\ Failing \subseteq {"identify", "read", "write", "store", "flush"}

VARIABLES
  kind,            \* what answers on each bus and unit, fixed
  regs,            \* the registers of each bus
  drive,           \* what each drive is doing
  medium,          \* what the disks hold
  intrq,           \* the buses that request an interrupt
  found,           \* what ide_init has found on each bus
  call,            \* the routine in progress and its arguments, or None
  at,              \* its next access
  buf,             \* the words received, or those still to be sent
  stopped,         \* by a failed assertion
  outcome,         \* of the call (history): "open", "stored", "failed"
  answer           \* what the last call has read, or <<>> (history)

hardware == <<kind, regs, drive, medium, intrq>>
driver   == <<found, call, at, buf, stopped>>
vars     == <<hardware, driver, outcome, answer>>

None == [op |-> "none", bus |-> "primary", unit |-> 0, lba |-> 0, data |-> Blank]

Idle == [phase |-> "idle", err |-> FALSE, cmd |-> "none", fifo |-> <<>>]

-------------------------------------------------------------------------------
(***************************************************************************)
(* The driver's routines.                                                  *)
(***************************************************************************)
outb(reg, val) == <<"outb", reg, val>>
Command(cmd)   == <<"command", cmd, 0>>
Do(access)     == <<access, "", 0>>

ata_wait_NoDelay(advanced) ==                    \* fault: without delay400ns
  <<Do("poll")>> \o (IF advanced THEN <<Do("check")>> ELSE <<>>)
ata_wait(advanced) ==
  <<Do("delay400ns"), Do("poll")>> \o (IF advanced THEN <<Do("check")>> ELSE <<>>)

ide_init_NoWait ==                               \* fault: without ata_wait_ready
  <<outb("HDDEVSEL", 0), Do("delay400ns"), Command("identify"), Do("delay400ns"), Do("inb"),
    Do("repinsw"), Do("report")>>
ide_init ==
  <<outb("HDDEVSEL", 0), Do("delay400ns"), Command("identify"), Do("delay400ns"), Do("inb"),
    Do("poll"), Do("repinsw"), Do("report")>>

SelectSector(unit, lba) ==
  outb("HDDEVSEL", unit * Nibble + ((lba \div (Byte * Byte * Byte)) % Nibble))

SetAddress_Order(lba) ==                         \* fault: LBA1 and LBA2 swapped
  <<outb("LBA0", lba % Byte), outb("LBA2", (lba \div Byte) % Byte),
    outb("LBA1", (lba \div (Byte * Byte)) % Byte)>>
SetAddress(lba) ==
  <<outb("LBA0", lba % Byte), outb("LBA1", (lba \div Byte) % Byte),
    outb("LBA2", (lba \div (Byte * Byte)) % Byte)>>

ide_read_sector(unit, lba) ==
  <<Do("poll"), SelectSector(unit, lba)>> \o SetAddress(lba)
    \o <<Command("read")>> \o ata_wait(TRUE) \o <<Do("repinsw")>> \o ata_wait(FALSE)

ide_write_sector_NoLastWait(unit, lba) ==        \* fault: returns after the flush command
  <<Do("poll"), SelectSector(unit, lba)>> \o ata_wait(FALSE) \o SetAddress(lba)
    \o <<Command("write")>> \o ata_wait(FALSE) \o <<Do("repoutsw"), Command("flush")>>
ide_write_sector(unit, lba) ==
  <<Do("poll"), SelectSector(unit, lba)>> \o ata_wait(FALSE) \o SetAddress(lba)
    \o <<Command("write")>> \o ata_wait(FALSE) \o <<Do("repoutsw"), Command("flush")>>
    \o ata_wait(FALSE)

Program ==
  IF call.op = "init" THEN ide_init
  ELSE IF call.op = "read" THEN ide_read_sector(call.unit, call.lba)
  ELSE IF call.op = "write" THEN ide_write_sector(call.unit, call.lba)
  ELSE <<>>

-------------------------------------------------------------------------------
(***************************************************************************)
(* A bus as the driver sees it (external).  Only the selected drive        *)
(* answers; no drive reads as zeros, no bus as ones.                       *)
(***************************************************************************)
Selected == <<call.bus, regs[call.bus].HDDEVSEL \div Nibble>>
Present  == kind[Selected] \in {"disk", "packet"}
BSY == kind[Selected] = "floating" \/ drive[Selected].phase = "busy"
DRQ == drive[Selected].phase = "transfer"
ERR == drive[Selected].err

(* Whoever reads the status takes back the drive's request.                *)
StatusRead == intrq' = intrq \ {call.bus}

Sector(r) == r.LBA0 + Byte * r.LBA1 + Byte * Byte * r.LBA2
             + Byte * Byte * Byte * (r.HDDEVSEL % Nibble)

Init ==
  /\ kind \in Machines
  /\ regs = [b \in Bus |-> [HDDEVSEL |-> 0, LBA0 |-> 0, LBA1 |-> 0, LBA2 |-> 0]]
  /\ drive = [d \in Bus \X Units |-> Idle]
  /\ medium = [p \in Place |-> Blank]
  /\ intrq = {}
  /\ found = [b \in Bus |-> "unknown"]
  /\ call = None
  /\ at = 1
  /\ buf = <<>>
  /\ stopped = FALSE
  /\ outcome = "open"
  /\ answer = <<>>

-------------------------------------------------------------------------------
(***************************************************************************)
(* Calls.                                                                  *)
(***************************************************************************)
Booted == \A b \in Bus : found[b] # "unknown"

Calling(op, bus, unit, lba, data) ==
  /\ call = None
  /\ call' = [op |-> op, bus |-> bus, unit |-> unit, lba |-> lba, data |-> data]
  /\ at' = 1
  /\ buf' = IF op = "write" THEN data ELSE <<>>
  /\ answer' = <<>>
  /\ UNCHANGED <<hardware, found, stopped, outcome>>

ata_init ==
  \E k \in DOMAIN Buses :
    /\ found[Buses[k]] = "unknown"
    /\ \A j \in 1 .. k - 1 : found[Buses[j]] # "unknown"
    /\ Calling("init", Buses[k], 0, 0, Blank)

Transfer ==
  /\ Booted
  /\ \E b \in Bus, u \in Units, lba \in Lbas :
       \/ Calling("read", b, u, lba, Blank)
       \/ \E data \in Written : Calling("write", b, u, lba, data)

Return ==
  /\ call # None /\ ~stopped /\ at > Len(Program)
  /\ call' = None
  /\ at' = 1
  /\ buf' = <<>>
  /\ answer' = IF call.op = "read" THEN buf ELSE answer
  /\ outcome' = "open"
  /\ UNCHANGED <<hardware, found, stopped>>

-------------------------------------------------------------------------------
(***************************************************************************)
(* The accesses.                                                           *)
(***************************************************************************)
Access(name) == ~stopped /\ at \in DOMAIN Program /\ Program[at][1] = name
Arg == Program[at][2]
GoOn == at' = at + 1 /\ UNCHANGED <<call, found, stopped>>

Outb ==
  /\ Access("outb")
  /\ regs' = [regs EXCEPT ![call.bus][Arg] = Program[at][3]]
  /\ GoOn /\ UNCHANGED <<kind, drive, medium, intrq, buf, outcome, answer>>

(* A drive that is not ready takes no command.                             *)
Taken == Present /\ drive[Selected].phase = "idle"

WriteCommand ==
  /\ Access("command")
  /\ drive' = IF Taken THEN [drive EXCEPT ![Selected].phase = "latched", ![Selected].cmd = Arg]
              ELSE drive
  /\ intrq' = IF Taken THEN intrq \ {call.bus} ELSE intrq
  /\ outcome' = IF Arg \in {"read", "write"} /\ kind[Selected] # "disk" THEN "failed" ELSE outcome
  /\ GoOn /\ UNCHANGED <<kind, regs, medium, buf, answer>>

(* Four reads of a port take the drive's 400 ns.                           *)
delay400ns ==
  /\ Access("delay400ns")
  /\ drive[Selected].phase # "latched"
  /\ GoOn /\ UNCHANGED <<hardware, buf, outcome, answer>>

inb ==
  /\ Access("inb")
  /\ StatusRead
  /\ GoOn /\ UNCHANGED <<kind, regs, drive, medium, buf, outcome, answer>>

(* A pass through the loop that finds the drive busy changes nothing.      *)
ata_wait_ready_Request ==                        \* fault: waits for words to transfer
  /\ Access("poll") /\ ~BSY /\ DRQ
  /\ StatusRead
  /\ GoOn /\ UNCHANGED <<kind, regs, drive, medium, buf, outcome, answer>>
ata_wait_ready ==
  /\ Access("poll") /\ ~BSY
  /\ StatusRead
  /\ GoOn /\ UNCHANGED <<kind, regs, drive, medium, buf, outcome, answer>>

(* ide_read_sector logs the error at a level and on an output that are on  *)
(* (logger.c:22-27, kmain.c:39), and the format of that message fails an   *)
(* assertion of the format loop (ReadErrorStops in module Logger).         *)
Check ==
  /\ Access("check")
  /\ StatusRead
  /\ stopped' = (ERR \/ ~DRQ)
  /\ at' = at + 1
  /\ UNCHANGED <<kind, regs, drive, medium, found, call, buf, outcome, answer>>

(* One word per step.  No drive sends or takes words that it has not       *)
(* requested.                                                              *)
Receive ==
  /\ Access("repinsw")
  /\ buf' = Append(buf, IF DRQ THEN Head(drive[Selected].fifo) ELSE 0)
  /\ LET rest == Tail(drive[Selected].fifo)
     IN  drive' = IF ~DRQ THEN drive
                  ELSE IF rest = <<>> THEN [drive EXCEPT ![Selected].phase = "idle", ![Selected].fifo = rest]
                  ELSE [drive EXCEPT ![Selected].fifo = rest]
  /\ at' = IF Len(buf') = Words THEN at + 1 ELSE at
  /\ UNCHANGED <<kind, regs, medium, intrq, found, call, stopped, outcome, answer>>

Send ==
  /\ Access("repoutsw")
  /\ buf' = Tail(buf)
  /\ LET got == Append(drive[Selected].fifo, Head(buf))
     IN  drive' = IF ~DRQ THEN drive
                  ELSE IF Len(got) < Words THEN [drive EXCEPT ![Selected].fifo = got]
                  ELSE [drive EXCEPT ![Selected].phase = "latched", ![Selected].cmd = "store",
                                     ![Selected].fifo = got]
  /\ at' = IF buf' = <<>> THEN at + 1 ELSE at
  /\ UNCHANGED <<kind, regs, medium, intrq, found, call, stopped, outcome, answer>>

(* ide_init takes a first word that is not 0 for a disk, and logs it.      *)
Report ==
  /\ Access("report")
  /\ found' = [found EXCEPT ![call.bus] = IF buf[1] # 0 THEN "disk" ELSE "nothing"]
  /\ at' = at + 1
  /\ UNCHANGED <<hardware, call, buf, stopped, outcome, answer>>

-------------------------------------------------------------------------------
(***************************************************************************)
(* The drives (external).                                                  *)
(***************************************************************************)
Set(d, phase, err, cmd, fifo) ==
  drive' = [drive EXCEPT ![d] = [phase |-> phase, err |-> err, cmd |-> cmd, fifo |-> fifo]]

Accept(d) ==
  /\ drive[d].phase = "latched"
  /\ Set(d, "busy", FALSE, drive[d].cmd, drive[d].fifo)
  /\ UNCHANGED <<kind, regs, medium, intrq, driver, outcome, answer>>

Working(d, cmd) == drive[d].phase = "busy" /\ drive[d].cmd = cmd

Complete(d) ==
  \/ /\ Working(d, "identify") /\ kind[d] = "disk"
     /\ Set(d, "transfer", FALSE, "identify", Identity)
     /\ intrq' = intrq \union {d[1]}
     /\ UNCHANGED <<medium, outcome>>
  \/ /\ Working(d, "read") /\ kind[d] = "disk"
     /\ Set(d, "transfer", FALSE, "read", medium[<<d[1], d[2], Sector(regs[d[1]])>>])
     /\ intrq' = intrq \union {d[1]}
     /\ UNCHANGED <<medium, outcome>>
  \/ /\ Working(d, "write") /\ kind[d] = "disk"
     /\ Set(d, "transfer", FALSE, "write", <<>>)
     /\ UNCHANGED <<medium, intrq, outcome>>
  \/ /\ Working(d, "store")
     /\ medium' = [medium EXCEPT ![<<d[1], d[2], Sector(regs[d[1]])>>] = drive[d].fifo]
     /\ Set(d, "idle", FALSE, "none", <<>>)
     /\ intrq' = intrq \union {d[1]}
     /\ outcome' = "stored"
  \/ /\ Working(d, "flush") /\ kind[d] = "disk"
     /\ Set(d, "idle", FALSE, "none", <<>>)
     /\ intrq' = intrq \union {d[1]}
     /\ UNCHANGED <<medium, outcome>>

(* A packet device knows none of these commands.                           *)
Abort(d) ==
  /\ drive[d].phase = "busy"
  /\ kind[d] = "packet" \/ drive[d].cmd \in Failing
  /\ Set(d, "idle", TRUE, "none", <<>>)
  /\ intrq' = intrq \union {d[1]}
  /\ outcome' = IF drive[d].cmd \in {"read", "write", "store"} THEN "failed" ELSE outcome
  /\ UNCHANGED medium

Drive == \E d \in Bus \X Units :
  \/ Accept(d)
  \/ (Complete(d) \/ Abort(d)) /\ UNCHANGED <<kind, regs, driver, answer>>

-------------------------------------------------------------------------------
Accesses == \/ Outb \/ WriteCommand \/ delay400ns \/ inb \/ ata_wait_ready \/ Check
            \/ Receive \/ Send \/ Report \/ Return

hlt == stopped /\ UNCHANGED vars

(* A bus without drives and without pull-down resistors reads as busy for  *)
(* ever.                                                                   *)
Hangs == kind[Selected] = "floating" /\ Access("poll")
Spin  == Hangs /\ UNCHANGED vars

Next == ata_init \/ Transfer \/ Accesses \/ Drive \/ hlt \/ Spin

Spec == Init /\ [][Next]_vars

(* The driver goes on and the drives answer; nobody need call.             *)
FairSpec == Spec /\ WF_vars(ata_init) /\ WF_vars(Accesses) /\ WF_vars(Drive)

-------------------------------------------------------------------------------
(***************************************************************************)
(* The disk that ata.c implements.  An address of 28 bits is looked at.    *)
(***************************************************************************)
D == INSTANCE Disk WITH
  Places   <- Place,
  sectors  <- medium,
  request  <- IF call.op \in {"read", "write"}
              THEN [op |-> call.op, place |-> <<call.bus, call.unit, call.lba % Size>>,
                    data |-> call.data]
              ELSE None

-------------------------------------------------------------------------------
(***************************************************************************)
(* Properties.                                                             *)
(***************************************************************************)
(* Words, waits and addresses fit together: a sector that is read is what  *)
(* was last written there, a write changes its own sector as a whole and   *)
(* is over when it returns, whichever drives are there and whatever fails; *)
(* only a drive that fails, or is not there, loses one (ata.c:125-169).    *)
ImplementsDisk == D!Spec

(* No command is written to a drive that is still at work, which would     *)
(* ignore it, except for the flush: ide_write_sector does not wait for the *)
(* sector to be stored before it asks for that (ata.c:166, 167).           *)
OnlyFlushTooEarly ==
  [][(Access("command") /\ at' # at /\ Present /\ Arg # "flush") => Taken]_vars

(* Between two calls no drive requests an interrupt, although nothing has  *)
(* turned its interrupts off: each command's request is taken back by a    *)
(* read of the status before the call returns.  The routines of both lines *)
(* are empty (ata.c:103, 171, 173).                                        *)
NoRequestLeft == call = None => intrq = {}

(* What the boot finds out about a bus is its master: a disk exactly if it *)
(* is one and has not failed to identify itself.  Neither a missing drive  *)
(* nor one that refuses, whose 256 words are read all the same without a   *)
(* look at the error bit, is taken for a disk; the slave is never asked    *)
(* (ata.c:66, 76-116).                                                     *)
FindsTheMasters ==
  [][\A b \in Bus : found'[b] # found[b] =>
       (found'[b] = "disk" <=> kind[<<b, 0>>] = "disk" /\ ~drive[<<b, 0>>].err)]_vars

(* Every call returns or stops the kernel, except that a bus that floats   *)
(* holds up the boot for ever (ata.c:45, 62).                              *)
CallsEnd == (call # None) ~> (call = None \/ stopped \/ Hangs)
===============================================================================
