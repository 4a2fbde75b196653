--------------------------- MODULE InterruptsProofs ---------------------------
(***************************************************************************)
(* Theorems about the delivery of interrupts (module Interrupts), for      *)
(* every set of devices that SourcesAssumption allows.                     *)
(***************************************************************************)
EXTENDS Interrupts, FiniteSetTheorems, TLAPS

-------------------------------------------------------------------------------
(* Facts that the proofs of several actions need.                          *)

(* The lines that have a device are inputs of one of the two controllers,  *)
(* and none of them is the input that the slave is wired to.               *)
LEMMA SourceIsLine ==
  ASSUME NEW l \in Sources
  PROVE  l \in 0 .. 15 /\ l # 2
BY SourcesAssumption DEF Lines, Cascade

(* The bytes of irq_remap in the order in which it writes them.            *)
LEMMA BytesOfRemap ==
  /\ Len(RemapWrites) = 10
  /\ RemapWrites[1] = <<"master", 17>> /\ RemapWrites[2] = <<"slave", 17>>
  /\ RemapWrites[3] = <<"master", 32>> /\ RemapWrites[4] = <<"slave", 40>>
  /\ RemapWrites[5] = <<"master", 4>> /\ RemapWrites[6] = <<"slave", 2>>
  /\ RemapWrites[7] = <<"master", 1>> /\ RemapWrites[8] = <<"slave", 1>>
  /\ RemapWrites[9] = <<"master", 0>> /\ RemapWrites[10] = <<"slave", 0>>
BY DEF RemapWrites

(* Once init_irq is done, both controllers are as irq_remap leaves them.   *)
LEMMA ControllersReady ==
  ASSUME IInv, at \in Up
  PROVE  /\ loaded /\ IsrGates \union IrqGates \subseteq gates
         /\ \A c \in Chips : pic[c].stage = "ready" /\ pic[c].imr = 0
         /\ pic["master"].base = 32 /\ pic["slave"].base = 40 /\ Wired
<1>1. written = 10 /\ loaded /\ IsrGates \subseteq gates /\ IrqGates \subseteq gates
  BY DEF IInv, BootOrder, Up
<1>2. /\ pic["master"].stage = "ready" /\ pic["master"].imr = 0
      /\ pic["master"].base = 32 /\ pic["master"].wiring = 4
  BY <1>1 DEF IInv, RemapSoFar, Initialised
<1>3. /\ pic["slave"].stage = "ready" /\ pic["slave"].imr = 0
      /\ pic["slave"].base = 40 /\ pic["slave"].wiring = 2
  BY <1>1 DEF IInv, RemapSoFar, Initialised
<1>4. QED
  BY <1>1, <1>2, <1>3 DEF Chips, Wired

(* Interrupts are on only there, with nothing being handled and nothing in *)
(* service.                                                                *)
LEMMA WhenEnabled ==
  ASSUME IInv, intr
  PROVE  at \in Up /\ frames = <<>> /\ inService = {}
<1>1. at \in Up /\ frames = <<>>
  BY DEF IInv, BootOrder, FrameShape
<1>2. inService = {}
  BY <1>1 DEF IInv, ServiceMatches
<1>3. QED
  BY <1>1, <1>2

(* What FrameShape says of a frame of irq_handler: it is the only one      *)
(* below a stop, so the innermost one is also the last.                    *)
LEMMA TheHandler ==
  ASSUME IInv, NEW s, s # "hlt", Handling(s)
  PROVE  /\ Len(frames) = 1 /\ frames = <<frames[1]>> /\ frames[1] \in Frame
         /\ frames[1].step = s /\ ~intr /\ at \in Up
         /\ inService = InServiceAt(frames[1])
<1>1. frames \in Seq(Frame) /\ frames # <<>> /\ frames[1].step = s
  BY DEF IInv, TypeOK, Handling
<1>2. 1 \in DOMAIN frames /\ frames[1] \in Frame
  BY <1>1
<1>3. 1 = Len(frames) /\ at \in Up
  BY <1>1, <1>2 DEF IInv, FrameShape
<1>4. ~intr
  BY <1>1 DEF IInv, FrameShape
<1>5. inService = InServiceAt(frames[1])
  BY <1>1, <1>2 DEF IInv, ServiceMatches
<1>6. frames = <<frames[1]>>
  BY <1>1, <1>3
<1>7. QED
  BY <1>1, <1>2, <1>3, <1>4, <1>5, <1>6

-------------------------------------------------------------------------------
(* The first state.                                                        *)
LEMMA InitHolds == Init => IInv
<1> SUFFICES ASSUME Init PROVE IInv
  OBVIOUS
<1>1. TypeOK
  <2>1. pic \in [Chips -> [stage : {"icw2", "icw3", "icw4", "ready"}, imr : 0 .. 255,
                          base : 0 .. 255, wiring : 0 .. 255]]
    BY DEF Init
  <2>2. irq_routines \in [Lines -> Routines]
    BY DEF Init, Routines
  <2>3. frames \in Seq(Frame)
    BY DEF Init
  <2>4. written \in 0 .. Len(RemapWrites)
    BY BytesOfRemap DEF Init
  <2>5. QED
    BY <2>1, <2>2, <2>3, <2>4 DEF Init, TypeOK
<1>2. BootOrder
  BY DEF Init, BootOrder, Up
<1>3. RemapSoFar
  BY DEF Init, RemapSoFar, Initialised, Chips
<1>4. FrameShape /\ ServiceMatches /\ RoutineOfLine
  BY DEF Init, FrameShape, ServiceMatches, RoutineOfLine
<1>5. QED
  BY <1>1, <1>2, <1>3, <1>4 DEF IInv

-------------------------------------------------------------------------------
(* The boot.  The kernel's own code runs when nothing is being handled and *)
(* nothing is in service, and none of its steps changes that.              *)
LEMMA WhenRunning ==
  ASSUME IInv, NEW where, Running(where)
  PROVE  at = where /\ frames = <<>> /\ inService = {} /\ cpu = "up"
<1>1. frames = <<>>
  BY DEF Running
<1>2. inService = {}
  BY <1>1 DEF IInv, ServiceMatches
<1>3. QED
  BY <1>1, <1>2 DEF Running

LEMMA StaysQuiet ==
  ASSUME frames' = <<>>, inService' = {}
  PROVE  FrameShape' /\ ServiceMatches' /\ RoutineOfLine'
BY DEF FrameShape, ServiceMatches, RoutineOfLine

(* isr_gates fills the 32 gates of the exceptions (interrupts.c:197-204).  *)
LEMMA IsrGatesPreserves == ASSUME IInv, isr_gates PROVE IInv'
<1>1. at = "isr_gates" /\ frames' = <<>> /\ inService' = {}
  BY WhenRunning DEF isr_gates, hardware
<1>2. ~intr /\ written = 0
  BY <1>1 DEF IInv, BootOrder, Up
<1>3. TypeOK'
  BY DEF IInv, TypeOK, isr_gates, hardware
<1>4. BootOrder'
  BY <1>1, <1>2 DEF IInv, BootOrder, isr_gates, Up
<1>5. RemapSoFar'
  BY DEF IInv, RemapSoFar, Initialised, isr_gates, hardware
<1>6. QED
  BY <1>1, <1>3, <1>4, <1>5, StaysQuiet DEF IInv

(* idt_load makes the processor use the table (interrupts.c:206).          *)
LEMMA IdtLoadPreserves == ASSUME IInv, idt_load PROVE IInv'
<1>1. at = "idt_load" /\ frames' = <<>> /\ inService' = {}
  BY WhenRunning DEF idt_load, LoadThen, hardware
<1>2. ~intr /\ written = 0
  BY <1>1 DEF IInv, BootOrder, Up
<1>3. TypeOK'
  BY DEF IInv, TypeOK, idt_load, LoadThen, hardware
<1>4. BootOrder'
  BY <1>1, <1>2 DEF IInv, BootOrder, idt_load, LoadThen, Up
<1>5. RemapSoFar'
  BY DEF IInv, RemapSoFar, Initialised, idt_load, LoadThen, hardware
<1>6. QED
  BY <1>1, <1>3, <1>4, <1>5, StaysQuiet DEF IInv

(* init_irq fills the gates of the sixteen lines (interrupts.c:212-224).   *)
LEMMA IrqGatesPreserves == ASSUME IInv, irq_gates PROVE IInv'
<1>1. at = "irq_gates" /\ frames' = <<>> /\ inService' = {}
  BY WhenRunning DEF irq_gates, FillGates, hardware
<1>2. ~intr /\ written = 10
  BY <1>1 DEF IInv, BootOrder, Up
<1>3. TypeOK'
  BY DEF IInv, TypeOK, irq_gates, FillGates, hardware
<1>4. BootOrder'
  BY <1>1, <1>2 DEF IInv, BootOrder, irq_gates, FillGates, Up
<1>5. RemapSoFar'
  BY DEF IInv, RemapSoFar, Initialised, irq_gates, FillGates, hardware
<1>6. QED
  BY <1>1, <1>3, <1>4, <1>5, StaysQuiet DEF IInv

(* sti is the last step of init_interrupts (interrupts.c:226-230).         *)
LEMMA StiPreserves == ASSUME IInv, sti PROVE IInv'
<1>1. at = "sti" /\ frames' = <<>> /\ inService' = {}
  BY WhenRunning DEF sti, hardware
<1>2. TypeOK'
  BY DEF IInv, TypeOK, sti, hardware
<1>3. BootOrder'
  BY <1>1 DEF IInv, BootOrder, sti, Up
<1>4. RemapSoFar'
  BY DEF IInv, RemapSoFar, Initialised, sti, hardware
<1>5. QED
  BY <1>1, <1>2, <1>3, <1>4, StaysQuiet DEF IInv

(* ata_init registers its two routines, with interrupts on.                *)
LEMMA AtaInitPreserves == ASSUME IInv, ata_init PROVE IInv'
<1>1. PICK irq \in {14, 15}, handler \in Routines, next \in Up :
        /\ at \in Up /\ frames = <<>>
        /\ inService = {} /\ irq_set_routine(irq, handler, next)
  BY WhenRunning DEF ata_init, Routines, Up
<1>2. frames' = <<>> /\ inService' = {}
  BY <1>1 DEF irq_set_routine, hardware
<1>3. TypeOK'
  <2>1. irq_routines' \in [Lines -> Routines]
    BY <1>1 DEF IInv, TypeOK, irq_set_routine
  <2>2. QED
    BY <1>1, <2>1 DEF IInv, TypeOK, irq_set_routine, hardware, Up
<1>4. BootOrder'
  BY <1>1 DEF IInv, BootOrder, irq_set_routine, Up
<1>5. RemapSoFar'
  BY <1>1 DEF IInv, RemapSoFar, Initialised, irq_set_routine, hardware
<1>6. QED
  BY <1>2, <1>3, <1>4, <1>5, StaysQuiet DEF IInv

-------------------------------------------------------------------------------
(* irq_remap.  What one byte does to the controller that it is written to. *)
Controller == [stage : {"icw2", "icw3", "icw4", "ready"}, imr : 0 .. 255,
               base : 0 .. 255, wiring : 0 .. 255]

LEMMA WithStage ==
  ASSUME NEW p \in Controller, NEW s \in {"icw2", "icw3", "icw4", "ready"},
         NEW q, q = [p EXCEPT !.stage = s]
  PROVE  q \in Controller /\ q.stage = s /\ q.imr = p.imr /\ q.base = p.base /\ q.wiring = p.wiring
BY DEF Controller

LEMMA WithImr ==
  ASSUME NEW p \in Controller, NEW i \in 0 .. 255, NEW q, q = [p EXCEPT !.imr = i]
  PROVE  q \in Controller /\ q.stage = p.stage /\ q.imr = i /\ q.base = p.base /\ q.wiring = p.wiring
BY DEF Controller

LEMMA WithBase ==
  ASSUME NEW p \in Controller, NEW b \in 0 .. 255, NEW q, q = [p EXCEPT !.base = b]
  PROVE  q \in Controller /\ q.stage = p.stage /\ q.imr = p.imr /\ q.base = b /\ q.wiring = p.wiring
BY DEF Controller

LEMMA WithWiring ==
  ASSUME NEW p \in Controller, NEW w \in 0 .. 255, NEW q, q = [p EXCEPT !.wiring = w]
  PROVE  q \in Controller /\ q.stage = p.stage /\ q.imr = p.imr /\ q.base = p.base /\ q.wiring = w
BY DEF Controller

LEMMA CommandByte ==
  ASSUME pic \in [Chips -> Controller], NEW c \in Chips, ICW1(c)
  PROVE  /\ pic' \in [Chips -> Controller]
         /\ \A d \in Chips : d # c => pic'[d] = pic[d]
         /\ pic'[c].stage = "icw2" /\ pic'[c].imr = 0
         /\ pic'[c].base = pic[c].base /\ pic'[c].wiring = pic[c].wiring
<1>1. PICK r : r = [pic[c] EXCEPT !.stage = "icw2"]
  OBVIOUS
<1>2. PICK q : q = [r EXCEPT !.imr = 0]
  OBVIOUS
<1>3. pic' = [pic EXCEPT ![c] = q]
  BY <1>1, <1>2 DEF ICW1
<1>4. r \in Controller /\ r.stage = "icw2" /\ r.base = pic[c].base /\ r.wiring = pic[c].wiring
  BY <1>1, WithStage
<1>5. /\ q \in Controller /\ q.stage = "icw2" /\ q.imr = 0
      /\ q.base = pic[c].base /\ q.wiring = pic[c].wiring
  BY <1>2, <1>4, WithImr
<1>6. QED
  BY <1>3, <1>5

LEMMA DataByte ==
  ASSUME pic \in [Chips -> Controller], NEW c \in Chips, NEW v \in 0 .. 255, DataPort(c, v)
  PROVE  /\ pic' \in [Chips -> Controller]
         /\ \A d \in Chips : d # c => pic'[d] = pic[d]
         /\ pic'[c].stage = IF pic[c].stage = "icw2" THEN "icw3"
                            ELSE IF pic[c].stage = "icw3" THEN "icw4" ELSE "ready"
         /\ pic'[c].imr = IF pic[c].stage = "ready" THEN v ELSE pic[c].imr
         /\ pic'[c].base = IF pic[c].stage = "icw2" THEN v ELSE pic[c].base
         /\ pic'[c].wiring = IF pic[c].stage = "icw3" THEN v ELSE pic[c].wiring
<1> DEFINE Goal(q) ==
      /\ q \in Controller
      /\ q.stage = IF pic[c].stage = "icw2" THEN "icw3"
                   ELSE IF pic[c].stage = "icw3" THEN "icw4" ELSE "ready"
      /\ q.imr = IF pic[c].stage = "ready" THEN v ELSE pic[c].imr
      /\ q.base = IF pic[c].stage = "icw2" THEN v ELSE pic[c].base
      /\ q.wiring = IF pic[c].stage = "icw3" THEN v ELSE pic[c].wiring
<1>1. pic[c] \in Controller /\ pic[c].stage \in {"icw2", "icw3", "icw4", "ready"}
  BY DEF Controller
<1>2. \E q : pic' = [pic EXCEPT ![c] = q] /\ Goal(q)
  <2>1. CASE pic[c].stage = "icw2"
    <3>1. PICK r : r = [pic[c] EXCEPT !.base = v]
      OBVIOUS
    <3>2. PICK q : q = [r EXCEPT !.stage = "icw3"]
      OBVIOUS
    <3>3. pic' = [pic EXCEPT ![c] = q]
      BY <2>1, <3>1, <3>2 DEF DataPort
    <3>4. r \in Controller /\ r.imr = pic[c].imr /\ r.base = v /\ r.wiring = pic[c].wiring
      BY <1>1, <3>1, WithBase
    <3>5. /\ q \in Controller /\ q.stage = "icw3" /\ q.imr = pic[c].imr
          /\ q.base = v /\ q.wiring = pic[c].wiring
      BY <3>2, <3>4, WithStage
    <3>6. Goal(q)
      BY <2>1, <3>5
    <3>7. QED
      BY <3>3, <3>6
  <2>2. CASE pic[c].stage = "icw3"
    <3>1. PICK r : r = [pic[c] EXCEPT !.wiring = v]
      OBVIOUS
    <3>2. PICK q : q = [r EXCEPT !.stage = "icw4"]
      OBVIOUS
    <3>3. pic' = [pic EXCEPT ![c] = q]
      BY <2>2, <3>1, <3>2 DEF DataPort
    <3>4. r \in Controller /\ r.imr = pic[c].imr /\ r.base = pic[c].base /\ r.wiring = v
      BY <1>1, <3>1, WithWiring
    <3>5. /\ q \in Controller /\ q.stage = "icw4" /\ q.imr = pic[c].imr
          /\ q.base = pic[c].base /\ q.wiring = v
      BY <3>2, <3>4, WithStage
    <3>6. Goal(q)
      BY <2>2, <3>5
    <3>7. QED
      BY <3>3, <3>6
  <2>3. CASE pic[c].stage = "icw4"
    <3>1. PICK q : q = [pic[c] EXCEPT !.stage = "ready"]
      OBVIOUS
    <3>2. pic' = [pic EXCEPT ![c] = q]
      BY <2>3, <3>1 DEF DataPort
    <3>3. Goal(q)
      BY <1>1, <2>3, <3>1, WithStage
    <3>4. QED
      BY <3>2, <3>3
  <2>4. CASE pic[c].stage = "ready"
    <3>1. PICK q : q = [pic[c] EXCEPT !.imr = v]
      OBVIOUS
    <3>2. pic' = [pic EXCEPT ![c] = q]
      BY <2>4, <3>1 DEF DataPort
    <3>3. Goal(q)
      BY <1>1, <2>4, <3>1, WithImr
    <3>4. QED
      BY <3>2, <3>3
  <2>5. QED
    BY <1>1, <2>1, <2>2, <2>3, <2>4
<1>3. QED
  BY <1>2

(* Every other byte of irq_remap goes to the same controller: its next     *)
(* initialisation word, and at last the empty mask.  The byte in between   *)
(* goes to the other one.                                                  *)
LEMMA NextWord ==
  ASSUME pic \in [Chips -> Controller], NEW c \in Chips, NEW first \in {1, 2},
         NEW base \in 0 .. 255, NEW wiring \in 0 .. 255,
         Initialised(c, first, base, wiring),
         written \in {first - 1, first + 1, first + 3, first + 5, first + 7},
         written' = written + 1,
         written = first - 1 => ICW1(c),
         written = first + 1 => DataPort(c, base),
         written = first + 3 => DataPort(c, wiring),
         written = first + 5 => DataPort(c, 1),
         written = first + 7 => DataPort(c, 0)
  PROVE  Initialised(c, first, base, wiring)'
<1>1. pic[c] \in Controller /\ pic[c].imr = 0 /\ 0 \in 0 .. 255 /\ 1 \in 0 .. 255
  BY DEF Initialised
<1>2. CASE written = first - 1
  BY <1>2, CommandByte DEF Initialised
<1>3. CASE written = first + 1
  <2>1. pic[c].stage = "icw2"
    BY <1>3 DEF Initialised
  <2>2. DataPort(c, base)
    BY <1>3
  <2>3. pic'[c].stage = "icw3" /\ pic'[c].imr = 0 /\ pic'[c].base = base
    <3>1. /\ pic'[c].stage = IF pic[c].stage = "icw2" THEN "icw3"
                            ELSE IF pic[c].stage = "icw3" THEN "icw4" ELSE "ready"
          /\ pic'[c].imr = IF pic[c].stage = "ready" THEN base ELSE pic[c].imr
          /\ pic'[c].base = IF pic[c].stage = "icw2" THEN base ELSE pic[c].base
          /\ pic'[c].wiring = IF pic[c].stage = "icw3" THEN base ELSE pic[c].wiring
      BY <1>1, <2>2, DataByte, ZenonT(40)
    <3>2. QED
      BY <1>1, <2>1, <2>2, <3>1
  <2>4. QED
    BY <1>3, <2>3 DEF Initialised
<1>4. CASE written = first + 3
  <2>1. pic[c].stage = "icw3" /\ pic[c].base = base
    BY <1>4 DEF Initialised
  <2>2. DataPort(c, wiring)
    BY <1>4
  <2>3. /\ pic'[c].stage = "icw4" /\ pic'[c].imr = 0 /\ pic'[c].base = base
        /\ pic'[c].wiring = wiring
    <3>1. /\ pic'[c].stage = IF pic[c].stage = "icw2" THEN "icw3"
                            ELSE IF pic[c].stage = "icw3" THEN "icw4" ELSE "ready"
          /\ pic'[c].imr = IF pic[c].stage = "ready" THEN wiring ELSE pic[c].imr
          /\ pic'[c].base = IF pic[c].stage = "icw2" THEN wiring ELSE pic[c].base
          /\ pic'[c].wiring = IF pic[c].stage = "icw3" THEN wiring ELSE pic[c].wiring
      BY <1>1, <2>2, DataByte, ZenonT(40)
    <3>2. QED
      BY <1>1, <2>1, <2>2, <3>1
  <2>4. QED
    BY <1>4, <2>3 DEF Initialised
<1>5. CASE written = first + 5
  <2>1. pic[c].stage = "icw4" /\ pic[c].base = base /\ pic[c].wiring = wiring
    BY <1>5 DEF Initialised
  <2>2. PICK v \in 0 .. 255 : v = 1 /\ DataPort(c, v)
    BY <1>1, <1>5
  <2>3. /\ pic'[c].stage = "ready" /\ pic'[c].imr = 0 /\ pic'[c].base = base
        /\ pic'[c].wiring = wiring
    <3>1. v \in 0 .. 255 /\ DataPort(c, v)
      BY <2>2
    <3>2. /\ pic'[c].stage = IF pic[c].stage = "icw2" THEN "icw3"
                            ELSE IF pic[c].stage = "icw3" THEN "icw4" ELSE "ready"
          /\ pic'[c].imr = IF pic[c].stage = "ready" THEN v ELSE pic[c].imr
          /\ pic'[c].base = IF pic[c].stage = "icw2" THEN v ELSE pic[c].base
          /\ pic'[c].wiring = IF pic[c].stage = "icw3" THEN v ELSE pic[c].wiring
      BY <3>1, DataByte, ZenonT(40)
    <3>3. QED
      BY <1>1, <2>1, <2>2, <3>2
  <2>4. QED
    BY <1>5, <2>3 DEF Initialised
<1>6. CASE written = first + 7
  <2>1. pic[c].stage = "ready" /\ pic[c].base = base /\ pic[c].wiring = wiring
    BY <1>6 DEF Initialised
  <2>2. PICK v \in 0 .. 255 : v = 0 /\ DataPort(c, v)
    BY <1>1, <1>6
  <2>3. /\ pic'[c].stage = "ready" /\ pic'[c].imr = 0 /\ pic'[c].base = base
        /\ pic'[c].wiring = wiring
    <3>1. v \in 0 .. 255 /\ DataPort(c, v)
      BY <2>2
    <3>2. /\ pic'[c].stage = IF pic[c].stage = "icw2" THEN "icw3"
                            ELSE IF pic[c].stage = "icw3" THEN "icw4" ELSE "ready"
          /\ pic'[c].imr = IF pic[c].stage = "ready" THEN v ELSE pic[c].imr
          /\ pic'[c].base = IF pic[c].stage = "icw2" THEN v ELSE pic[c].base
          /\ pic'[c].wiring = IF pic[c].stage = "icw3" THEN v ELSE pic[c].wiring
      BY <3>1, DataByte, ZenonT(40)
    <3>3. QED
      BY <1>1, <2>1, <2>2, <3>2
  <2>4. QED
    BY <1>6, <2>3 DEF Initialised
<1>7. QED
  BY <1>2, <1>3, <1>4, <1>5, <1>6

LEMMA ByteOfTheOther ==
  ASSUME NEW c \in Chips, NEW first \in {1, 2}, NEW base, NEW wiring,
         Initialised(c, first, base, wiring),
         written \in {first - 2, first, first + 2, first + 4, first + 6, first + 8},
         written' = written + 1,
         pic'[c] = pic[c]
  PROVE  Initialised(c, first, base, wiring)'
BY DEF Initialised

(* Every byte brings its controller one word further (interrupts.c:72-90). *)
LEMMA IrqRemapPreserves == ASSUME IInv, irq_remap PROVE IInv'
<1> DEFINE w == RemapWrites[written + 1]
<1>1. /\ at = "irq_remap" /\ cpu = "up" /\ frames = <<>> /\ inService = {}
      /\ frames' = <<>> /\ written' = written + 1
  BY WhenRunning DEF irq_remap
<1>2. written \in 0 .. 9 /\ ~intr
  BY <1>1, BytesOfRemap DEF IInv, TypeOK, BootOrder, Up
<1>3. /\ written = 0 => w = <<"master", 17>>
      /\ written = 1 => w = <<"slave", 17>>
      /\ written = 2 => w = <<"master", 32>>
      /\ written = 3 => w = <<"slave", 40>>
      /\ written = 4 => w = <<"master", 4>>
      /\ written = 5 => w = <<"slave", 2>>
      /\ written = 6 => w = <<"master", 1>>
      /\ written = 7 => w = <<"slave", 1>>
      /\ written = 8 => w = <<"master", 0>>
      /\ written = 9 => w = <<"slave", 0>>
  BY BytesOfRemap
<1>4. IF w[2] = 17 THEN ICW1(w[1]) ELSE DataPort(w[1], w[2])
  BY <1>1 DEF irq_remap
<1>5. /\ w[1] \in Chips /\ w[2] \in 0 .. 255
      /\ written \in {0, 2, 4, 6, 8} => w[1] = "master"
      /\ written \in {1, 3, 5, 7, 9} => w[1] = "slave"
  <2> HIDE DEF w
  <2>1. QED
    BY <1>2, <1>3 DEF Chips
<1>6. /\ written = 0 => ICW1("master")
      /\ written = 1 => ICW1("slave")
      /\ written = 2 => DataPort("master", 32)
      /\ written = 3 => DataPort("slave", 40)
      /\ written = 4 => DataPort("master", 4)
      /\ written = 5 => DataPort("slave", 2)
      /\ written = 6 => DataPort("master", 1)
      /\ written = 7 => DataPort("slave", 1)
      /\ written = 8 => DataPort("master", 0)
      /\ written = 9 => DataPort("slave", 0)
  <2> HIDE DEF w
  <2>1. QED
    BY <1>3, <1>4
<1> HIDE DEF w
<1>7. inService' = {} /\ requested' \in SUBSET Sources
  BY <1>1, <1>4 DEF ICW1, DataPort, IInv, TypeOK
<1>8. at' = IF written = 9 THEN "irq_gates" ELSE "irq_remap"
  BY <1>1, <1>2, BytesOfRemap DEF irq_remap
<1>9. pic \in [Chips -> Controller]
  BY DEF IInv, TypeOK, Controller
<1>10. /\ pic' \in [Chips -> Controller]
       /\ \A d \in Chips : d # w[1] => pic'[d] = pic[d]
  BY <1>4, <1>5, <1>9, CommandByte, DataByte
<1>11. TypeOK'
  BY <1>1, <1>2, <1>7, <1>8, <1>10, BytesOfRemap DEF IInv, TypeOK, irq_remap, Controller
<1>12. BootOrder'
  BY <1>1, <1>2, <1>8 DEF IInv, BootOrder, irq_remap, Up
<1>13. Initialised("master", 1, 32, 4) /\ Initialised("slave", 2, 40, 2)
  BY DEF IInv, RemapSoFar
<1>14. Initialised("master", 1, 32, 4)'
  <2>1. CASE written \in {0, 2, 4, 6, 8}
    <3>1. /\ written = 1 - 1 => ICW1("master")
          /\ written = 1 + 1 => DataPort("master", 32)
          /\ written = 1 + 3 => DataPort("master", 4)
          /\ written = 1 + 5 => DataPort("master", 1)
          /\ written = 1 + 7 => DataPort("master", 0)
          /\ written \in {1 - 1, 1 + 1, 1 + 3, 1 + 5, 1 + 7}
      BY <1>6, <2>1
    <3>2. 1 \in {1, 2} /\ 32 \in 0 .. 255 /\ 4 \in 0 .. 255 /\ "master" \in Chips
      BY DEF Chips
    <3>3. QED
      BY <1>1, <1>9, <1>13, <3>1, <3>2, NextWord, Zenon
  <2>2. CASE written \in {1, 3, 5, 7, 9}
    BY <1>1, <1>5, <1>10, <1>13, <2>2, ByteOfTheOther DEF Chips
  <2>3. QED
    BY <1>2, <2>1, <2>2
<1>15. Initialised("slave", 2, 40, 2)'
  <2>1. CASE written \in {0, 2, 4, 6, 8}
    BY <1>1, <1>5, <1>10, <1>13, <2>1, ByteOfTheOther DEF Chips
  <2>2. CASE written \in {1, 3, 5, 7, 9}
    <3>1. /\ written = 2 - 1 => ICW1("slave")
          /\ written = 2 + 1 => DataPort("slave", 40)
          /\ written = 2 + 3 => DataPort("slave", 2)
          /\ written = 2 + 5 => DataPort("slave", 1)
          /\ written = 2 + 7 => DataPort("slave", 0)
          /\ written \in {2 - 1, 2 + 1, 2 + 3, 2 + 5, 2 + 7}
      BY <1>6, <2>2
    <3>2. 2 \in {1, 2} /\ 40 \in 0 .. 255 /\ 2 \in 0 .. 255 /\ "slave" \in Chips
      BY DEF Chips
    <3>3. QED
      BY <1>1, <1>9, <1>13, <3>1, <3>2, NextWord, Zenon
  <2>3. QED
    BY <1>2, <2>1, <2>2
<1>16. RemapSoFar'
  BY <1>14, <1>15 DEF RemapSoFar
<1>17. QED
  BY <1>1, <1>7, <1>11, <1>12, <1>16, StaysQuiet DEF IInv

-------------------------------------------------------------------------------
(* The frames of irq_handler.  An update of one field leaves the others.   *)
LEMMA WithRoutine ==
  ASSUME NEW f \in Frame, NEW r \in Routines, NEW g, g = [f EXCEPT !.routine = r]
  PROVE  /\ g \in Frame /\ g.line = f.line /\ g.spurious = f.spurious /\ g.int_no = f.int_no
         /\ g.routine = r /\ g.step = f.step
BY DEF Frame

LEMMA WithStep ==
  ASSUME NEW f \in Frame, NEW s \in {"call", "eoi_slave", "eoi_master", "iret", "hlt"},
         NEW g, g = [f EXCEPT !.step = s]
  PROVE  /\ g \in Frame /\ g.line = f.line /\ g.spurious = f.spurious /\ g.int_no = f.int_no
         /\ g.routine = f.routine /\ g.step = s
BY DEF Frame

(* The frame of the interrupt being handled, and what a step of the        *)
(* handler owes to the invariant when it leaves frame g.                   *)
OfHandler(g) ==
  /\ g \in Frame /\ g.step # "hlt" /\ g.line \in Sources
  /\ g.int_no = IF ~g.spurious THEN 32 + g.line ELSE IF g.line >= 8 THEN 47 ELSE 39
  /\ g.line < 8 => g.step # "eoi_slave"

LEMMA HandlerShape ==
  ASSUME IInv, NEW s, s # "hlt", Handling(s)
  PROVE  OfHandler(frames[1])
<1>1. frames[1] \in Frame /\ frames[1].step # "hlt" /\ 1 \in DOMAIN frames
  BY TheHandler
<1>2. QED
  BY <1>1 DEF OfHandler, IInv, FrameShape

LEMMA HandlerStays ==
  ASSUME NEW g, OfHandler(g), frames' = <<g>>, ~intr', at' \in Up, inService' = InServiceAt(g),
         g.step # "call" /\ ~g.spurious => g.routine = irq_routines'[g.line]
  PROVE  frames' \in Seq(Frame) /\ FrameShape' /\ ServiceMatches' /\ RoutineOfLine'
<1>1. g \in Frame /\ DOMAIN frames' = {1} /\ Len(frames') = 1 /\ frames'[1] = g
  BY DEF OfHandler
<1>2. frames' \in Seq(Frame)
  BY <1>1
<1>3. FrameShape'
  BY <1>1 DEF FrameShape, OfHandler
<1>4. ServiceMatches'
  <2>1. \A k \in DOMAIN frames' : frames'[k] = g /\ frames'[k].step # "hlt"
    BY <1>1 DEF OfHandler
  <2>2. (\A k \in DOMAIN frames' : frames'[k].step = "hlt") => inService' = {}
    BY <1>1, <2>1
  <2>3. \A k \in DOMAIN frames' : frames'[k].step # "hlt" => inService' = InServiceAt(frames'[k])
    BY <2>1
  <2>4. QED
    BY <2>2, <2>3 DEF ServiceMatches, InServiceAt
<1>5. RoutineOfLine'
  BY <1>1 DEF RoutineOfLine, OfHandler
<1>6. QED
  BY <1>2, <1>3, <1>4, <1>5

(* The stack, the boot and the controllers as they are.                    *)
LEMMA KernelUnchanged ==
  ASSUME IInv, UNCHANGED <<cpu, at, written, gates, loaded, pic>>, intr' => at' \in Up
  PROVE  BootOrder' /\ RemapSoFar'
<1>1. BootOrder'
  BY DEF IInv, BootOrder
<1>2. RemapSoFar'
  BY DEF IInv, RemapSoFar, Initialised
<1>3. QED
  BY <1>1, <1>2

-------------------------------------------------------------------------------
(* A device raises its line.                                               *)
LEMMA RaisePreserves == ASSUME IInv, NEW l \in Sources, Raise(l) PROVE IInv'
<1>1. TypeOK'
  BY DEF IInv, TypeOK, Raise, kernel
<1>2. BootOrder' /\ RemapSoFar'
  BY KernelUnchanged DEF IInv, BootOrder, Raise, kernel
<1>3. FrameShape' /\ ServiceMatches' /\ RoutineOfLine'
  BY DEF IInv, FrameShape, ServiceMatches, InServiceAt, RoutineOfLine, Raise, kernel
<1>4. QED
  BY <1>1, <1>2, <1>3 DEF IInv

(* The vector of an acknowledged interrupt: that of its line, or of the    *)
(* lowest input of the chip if it was spurious.                            *)
LEMMA VectorInGates ==
  ASSUME IInv, at \in Up, NEW l \in Sources, NEW spurious \in BOOLEAN
  PROVE  /\ Vector(l, spurious) = IF ~spurious THEN 32 + l ELSE IF l >= 8 THEN 47 ELSE 39
         /\ Vector(l, spurious) \in 32 .. 47
<1>1. pic["master"].base = 32 /\ pic["slave"].base = 40
  BY ControllersReady
<1>2. l \in 0 .. 15
  BY SourceIsLine
<1>3. CASE l >= 8
  <2>1. l % 8 = l - 8
    BY <1>2, <1>3
  <2>2. QED
    BY <1>1, <1>2, <1>3, <2>1 DEF Vector, ChipOf
<1>4. CASE l < 8
  <2>1. l % 8 = l
    BY <1>2, <1>4
  <2>2. QED
    BY <1>1, <1>2, <1>4, <2>1 DEF Vector, ChipOf
<1>5. QED
  BY <1>2, <1>3, <1>4

(* An interrupt comes with nothing on the stack and nothing in service, to *)
(* a stub of irq.s, with interrupts off from there on.                     *)
LEMMA InterruptArrives ==
  ASSUME IInv, NEW l \in Sources, NEW spurious \in BOOLEAN, Interrupt(l, spurious)
  PROVE  /\ at \in Up /\ inService = {} /\ frames = <<>>
         /\ cpu = "up" /\ cpu' = "up" /\ intr' = FALSE
         /\ frames' = <<StubFrame(l, spurious)>> /\ OfHandler(StubFrame(l, spurious))
         /\ inService' = InServiceAt(StubFrame(l, spurious))
<1>1. /\ at \in Up /\ frames = <<>> /\ inService = {} /\ cpu = "up" /\ intr' = FALSE
  BY WhenEnabled DEF Interrupt, FlagInStub
<1>2. /\ Vector(l, spurious) = IF ~spurious THEN 32 + l ELSE IF l >= 8 THEN 47 ELSE 39
      /\ Vector(l, spurious) \in 32 .. 47
  BY <1>1, VectorInGates
<1>3. loaded /\ Vector(l, spurious) \in gates /\ Vector(l, spurious) >= 32
  BY <1>1, <1>2, ControllersReady DEF IrqGates
<1>4. cpu' = "up"
  BY <1>3 DEF Interrupt
<1>5. frames' = <<StubFrame(l, spurious)>> \o <<>>
  BY <1>1, <1>3 DEF Interrupt
<1>6. OfHandler(StubFrame(l, spurious))
  <2>1. l \in 0 .. 15
    BY SourceIsLine
  <2>2. StubFrame(l, spurious) \in Frame
    BY <1>2 DEF StubFrame, Frame, Routines
  <2>3. QED
    BY <1>2, <2>1, <2>2 DEF StubFrame, OfHandler
<1>7. inService' = InServiceAt(StubFrame(l, spurious))
  BY <1>1 DEF Interrupt, Acknowledge, InServiceAt, StubFrame
<1>8. QED
  BY <1>1, <1>4, <1>5, <1>6, <1>7

LEMMA InterruptPreserves ==
  ASSUME IInv, NEW l \in Sources, NEW spurious \in BOOLEAN, Interrupt(l, spurious)
  PROVE  IInv'
<1>1. /\ at \in Up /\ inService = {} /\ cpu = "up" /\ cpu' = "up" /\ intr' = FALSE
      /\ frames' = <<StubFrame(l, spurious)>> /\ OfHandler(StubFrame(l, spurious))
      /\ inService' = InServiceAt(StubFrame(l, spurious))
  BY InterruptArrives
<1>2. at' = at /\ StubFrame(l, spurious).step = "call"
  BY DEF Interrupt, StubFrame
<1>3. frames' \in Seq(Frame) /\ FrameShape' /\ ServiceMatches' /\ RoutineOfLine'
  BY <1>1, <1>2, HandlerStays
<1>4. BootOrder' /\ RemapSoFar'
  BY <1>1, KernelUnchanged DEF Interrupt, Acknowledge
<1>5. requested' \in SUBSET Sources /\ inService' \in SUBSET (Sources \union {Cascade})
  BY <1>1 DEF IInv, TypeOK, Interrupt, Acknowledge
<1>6. TypeOK'
  BY <1>1, <1>3, <1>5 DEF IInv, TypeOK, Interrupt, Acknowledge
<1>7. QED
  BY <1>3, <1>4, <1>6 DEF IInv

-------------------------------------------------------------------------------
(* irq_handler.  Its first part reads the routine at the number of the     *)
(* interrupt, which is its line unless it was spurious.                    *)
LEMMA CallRoutinePreserves == ASSUME IInv, CallRoutine PROVE IInv'
<1> DEFINE f == frames[1]
           r == irq_routines[int_no - 32]
           next == IF int_no >= 40 THEN "eoi_slave" ELSE "eoi_master"
<1>1. /\ frames = <<f>> /\ f \in Frame /\ f.step = "call" /\ ~intr /\ at \in Up
      /\ inService = InServiceAt(f) /\ OfHandler(f)
  BY TheHandler, HandlerShape DEF CallRoutine, Dispatch
<1>2. f.line \in 0 .. 15
  BY <1>1, SourceIsLine DEF OfHandler
<1>3. int_no = f.int_no
  BY DEF int_no
<1>4. /\ int_no \in 32 .. 47 /\ (int_no >= 40 <=> f.line >= 8)
      /\ ~f.spurious => int_no - 32 = f.line
  BY <1>1, <1>2, <1>3 DEF OfHandler, Frame
<1>5. r \in Routines /\ (~f.spurious => r = irq_routines[f.line])
  <2>1. int_no - 32 \in 0 .. 15
    BY <1>4
  <2>2. irq_routines \in [0 .. 15 -> Routines]
    BY DEF IInv, TypeOK, Lines
  <2>3. QED
    BY <1>4, <2>1, <2>2
<1>6. PICK h : h = [f EXCEPT !.routine = r]
  OBVIOUS
<1>7. PICK g : g = [h EXCEPT !.step = next]
  OBVIOUS
<1>8. frames' = <<g>>
  <2>1. PICK half : half = [frames EXCEPT ![1].routine = r]
    OBVIOUS
  <2>2. half = <<h>>
    BY <1>1, <1>6, <2>1
  <2>3. frames' = [half EXCEPT ![1].step = next]
    BY <2>1 DEF CallRoutine, Dispatch
  <2>4. QED
    BY <1>7, <2>2, <2>3
<1>9. /\ h \in Frame /\ h.line = f.line /\ h.spurious = f.spurious /\ h.int_no = f.int_no
      /\ h.routine = r
  BY <1>1, <1>5, <1>6, WithRoutine
<1>10. /\ g \in Frame /\ g.line = f.line /\ g.spurious = f.spurious /\ g.int_no = f.int_no
       /\ g.routine = r /\ g.step = next
  BY <1>7, <1>9, WithStep
<1>11. OfHandler(g)
  BY <1>1, <1>2, <1>4, <1>10 DEF OfHandler
<1>12. UNCHANGED <<cpu, intr, at, written, gates, loaded, irq_routines, pic, requested, inService>>
  BY DEF CallRoutine, Dispatch, hardware
<1>13. inService' = InServiceAt(g)
  <2>1. f.line >= 8 => InServiceAt(g) = InServiceAt(f)
    BY <1>1, <1>4, <1>10 DEF InServiceAt
  <2>2. ~(f.line >= 8) => InServiceAt(g) = InServiceAt(f)
    BY <1>1, <1>4, <1>10 DEF InServiceAt
  <2>3. QED
    BY <1>1, <1>12, <2>1, <2>2
<1>14. frames' \in Seq(Frame) /\ FrameShape' /\ ServiceMatches' /\ RoutineOfLine'
  BY <1>1, <1>5, <1>8, <1>10, <1>11, <1>12, <1>13, HandlerStays
<1>15. BootOrder' /\ RemapSoFar'
  BY <1>1, <1>12, KernelUnchanged
<1>16. TypeOK'
  BY <1>12, <1>14 DEF IInv, TypeOK
<1>17. QED
  BY <1>14, <1>15, <1>16 DEF IInv

(* What the two ends of interrupt leave in service: after the command of   *)
(* the slave the input it is wired to, after that of the master nothing.   *)
LEMMA SlaveEnded ==
  ASSUME IInv, EoiSlave
  PROVE  frames[1].line >= 8 /\ inService' = {Cascade}
<1> DEFINE f == frames[1]
<1>1. f.step = "eoi_slave" /\ inService = InServiceAt(f) /\ OfHandler(f)
  BY TheHandler, HandlerShape DEF EoiSlave
<1>2. f.line \in 8 .. 15
  BY <1>1, SourceIsLine DEF OfHandler
<1>3. inService = {2} \union (IF f.spurious THEN {} ELSE {f.line})
  BY <1>1, <1>2 DEF InServiceAt, Cascade
<1>4. inService' = {l \in inService : \/ l \notin 8 .. 15
                                      \/ \E k \in inService \intersect (8 .. 15) : k < l}
  BY DEF EoiSlave, EndOfInterrupt, InputsOf
<1>5. \A l \in inService : l \in 8 .. 15 => l = f.line
  BY <1>3
<1>6. inService' = {2}
  BY <1>2, <1>3, <1>4, <1>5
<1>7. QED
  BY <1>2, <1>6 DEF Cascade

LEMMA MasterEnded == ASSUME IInv, EoiMaster PROVE inService' = {}
<1> DEFINE f == frames[1]
<1>1. f.step = "eoi_master" /\ inService = InServiceAt(f) /\ OfHandler(f)
  BY TheHandler, HandlerShape DEF EoiMaster
<1>2. f.line \in 0 .. 15
  BY <1>1, SourceIsLine DEF OfHandler
<1>3. inService = IF f.line >= 8 THEN {2} ELSE IF f.spurious THEN {} ELSE {f.line}
  BY <1>1 DEF InServiceAt, Cascade
<1>4. PICK i \in 0 .. 7 : inService \subseteq {i}
  <2>1. CASE f.line >= 8
    BY <1>3, <2>1
  <2>2. CASE f.line < 8
    BY <1>2, <1>3, <2>2
  <2>3. QED
    BY <1>2, <2>1, <2>2
<1>5. inService' = {l \in inService : \/ l \notin 0 .. 7
                                      \/ \E k \in inService \intersect (0 .. 7) : k < l}
  BY DEF EoiMaster, EndOfInterrupt, InputsOf
<1>6. ASSUME NEW l \in inService' PROVE FALSE
  <2>1. l = i /\ \E k \in inService \intersect (0 .. 7) : k < l
    BY <1>4, <1>5, <1>6
  <2>2. QED
    BY <1>4, <2>1
<1>7. QED
  BY <1>6

LEMMA EoiSlavePreserves == ASSUME IInv, EoiSlave PROVE IInv'
<1> DEFINE f == frames[1]
<1>1. /\ frames = <<f>> /\ f \in Frame /\ ~intr /\ at \in Up
      /\ OfHandler(f) /\ f.step = "eoi_slave"
  BY TheHandler, HandlerShape DEF EoiSlave
<1>2. PICK g : g = [f EXCEPT !.step = "eoi_master"]
  OBVIOUS
<1>3. frames' = <<g>>
  BY <1>1, <1>2 DEF EoiSlave
<1>4. /\ g \in Frame /\ g.line = f.line /\ g.spurious = f.spurious /\ g.int_no = f.int_no
      /\ g.routine = f.routine /\ g.step = "eoi_master"
  BY <1>1, <1>2, WithStep
<1>5. OfHandler(g)
  BY <1>1, <1>4 DEF OfHandler
<1>6. UNCHANGED <<cpu, intr, at, written, gates, loaded, irq_routines, pic, requested>>
  BY DEF EoiSlave, EndOfInterrupt
<1>7. inService' = InServiceAt(g)
  BY <1>4, SlaveEnded DEF InServiceAt
<1>8. ~g.spurious => g.routine = irq_routines'[g.line]
  BY <1>1, <1>4, <1>6 DEF IInv, RoutineOfLine
<1>9. frames' \in Seq(Frame) /\ FrameShape' /\ ServiceMatches' /\ RoutineOfLine'
  BY <1>1, <1>3, <1>5, <1>6, <1>7, <1>8, HandlerStays
<1>10. BootOrder' /\ RemapSoFar'
  BY <1>1, <1>6, KernelUnchanged
<1>11. inService' \in SUBSET (Sources \union {Cascade})
  BY SlaveEnded
<1>12. TypeOK'
  BY <1>6, <1>9, <1>11 DEF IInv, TypeOK
<1>13. QED
  BY <1>9, <1>10, <1>12 DEF IInv

LEMMA EoiMasterPreserves == ASSUME IInv, EoiMaster PROVE IInv'
<1> DEFINE f == frames[1]
<1>1. /\ frames = <<f>> /\ f \in Frame /\ ~intr /\ at \in Up
      /\ OfHandler(f) /\ f.step = "eoi_master"
  BY TheHandler, HandlerShape DEF EoiMaster
<1>2. PICK g : g = [f EXCEPT !.step = "iret"]
  OBVIOUS
<1>3. frames' = <<g>>
  BY <1>1, <1>2 DEF EoiMaster
<1>4. /\ g \in Frame /\ g.line = f.line /\ g.spurious = f.spurious /\ g.int_no = f.int_no
      /\ g.routine = f.routine /\ g.step = "iret"
  BY <1>1, <1>2, WithStep
<1>5. OfHandler(g)
  BY <1>1, <1>4 DEF OfHandler
<1>6. UNCHANGED <<cpu, intr, at, written, gates, loaded, irq_routines, pic, requested>>
  BY DEF EoiMaster, EndOfInterrupt
<1>7. inService' = {} /\ InServiceAt(g) = {}
  BY <1>4, MasterEnded DEF InServiceAt
<1>8. ~g.spurious => g.routine = irq_routines'[g.line]
  BY <1>1, <1>4, <1>6 DEF IInv, RoutineOfLine
<1>9. frames' \in Seq(Frame) /\ FrameShape' /\ ServiceMatches' /\ RoutineOfLine'
  BY <1>1, <1>3, <1>5, <1>6, <1>7, <1>8, HandlerStays
<1>10. BootOrder' /\ RemapSoFar'
  BY <1>1, <1>6, KernelUnchanged
<1>11. TypeOK'
  BY <1>6, <1>7, <1>9 DEF IInv, TypeOK
<1>12. QED
  BY <1>9, <1>10, <1>11 DEF IInv

(* iret leaves the only frame there is and turns interrupts on again.      *)
LEMMA IretPreserves == ASSUME IInv, iret PROVE IInv'
<1>1. /\ frames = <<frames[1]>> /\ at \in Up /\ frames[1].step = "iret"
      /\ inService = InServiceAt(frames[1])
  BY TheHandler DEF iret
<1>2. frames' = <<>> /\ intr' = TRUE
  BY <1>1 DEF iret
<1>3. UNCHANGED <<cpu, at, written, gates, loaded, irq_routines, pic, requested, inService>>
  BY DEF iret, hardware
<1>4. inService' = {}
  BY <1>1, <1>3 DEF InServiceAt
<1>5. BootOrder' /\ RemapSoFar'
  BY <1>1, <1>3, KernelUnchanged
<1>6. TypeOK'
  BY <1>2, <1>3 DEF IInv, TypeOK
<1>7. QED
  BY <1>2, <1>4, <1>5, <1>6, StaysQuiet DEF IInv

-------------------------------------------------------------------------------
(* A stopped kernel has its stop on top of the stack and interrupts off.   *)
LEMMA WhenStopped ==
  ASSUME IInv, Stopped
  PROVE  frames # <<>> /\ frames[1].step = "hlt" /\ ~intr
<1>1. PICK k \in DOMAIN frames : frames[k] = HltFrame
  BY DEF Stopped
<1>2. k = 1 /\ frames[1].step = "hlt"
  BY <1>1 DEF IInv, FrameShape, HltFrame
<1>3. frames # <<>>
  BY <1>1
<1>4. QED
  BY <1>2, <1>3 DEF IInv, FrameShape

(* The ends of the kernel: a stop lies on top of what is being handled.    *)
LEMMA FirstStopPreserves == ASSUME IInv, ~Stopped, Stop(FALSE) PROVE IInv'
<1>1. frames \in Seq(Frame) /\ ~Stopped /\ frames' = <<HltFrame>> \o frames /\ intr' = FALSE
  BY DEF IInv, TypeOK, Stop
<1>2. UNCHANGED <<cpu, at, written, gates, loaded, irq_routines, pic, requested, inService>>
  BY DEF Stop, hardware
<1>3. HltFrame \in Frame /\ HltFrame.step = "hlt"
  BY DEF HltFrame, Frame, Routines
<1>4. /\ frames' \in Seq(Frame) /\ Len(frames') = Len(frames) + 1 /\ frames'[1] = HltFrame
      /\ \A k \in DOMAIN frames' : k # 1 => k - 1 \in DOMAIN frames /\ frames'[k] = frames[k - 1]
      /\ \A k \in DOMAIN frames : k + 1 \in DOMAIN frames' /\ frames'[k + 1] = frames[k]
  BY <1>1, <1>3
<1>5. \A k \in DOMAIN frames : frames[k].step # "hlt"
  BY <1>1 DEF IInv, FrameShape, Stopped
<1>6. FrameShape'
  <2>1. ASSUME NEW k \in DOMAIN frames'
        PROVE  IF frames'[k].step = "hlt" THEN k = 1 /\ frames'[k] = HltFrame
               ELSE /\ k = Len(frames') /\ at' \in Up
                    /\ frames'[k].line \in Sources
                    /\ frames'[k].int_no = IF ~frames'[k].spurious THEN 32 + frames'[k].line
                                           ELSE IF frames'[k].line >= 8 THEN 47 ELSE 39
                    /\ frames'[k].line < 8 => frames'[k].step # "eoi_slave"
    <3>1. CASE k = 1
      BY <1>3, <1>4, <3>1
    <3>2. CASE k # 1
      <4>1. k - 1 \in DOMAIN frames /\ frames'[k] = frames[k - 1] /\ frames[k - 1].step # "hlt"
        BY <1>4, <1>5, <3>2
      <4>2. k - 1 = Len(frames) /\ k \in Nat
        BY <1>1, <1>4, <4>1 DEF IInv, FrameShape
      <4>3. k = Len(frames')
        BY <1>4, <4>2
      <4>4. QED
        BY <1>2, <4>1, <4>3 DEF IInv, FrameShape
    <3>3. QED
      BY <3>1, <3>2
  <2>2. QED
    BY <1>1, <2>1 DEF FrameShape
<1>7. ServiceMatches'
  <2>1. (\A k \in DOMAIN frames' : frames'[k].step = "hlt") => inService' = {}
    BY <1>2, <1>4, <1>5 DEF IInv, ServiceMatches
  <2>2. ASSUME NEW k \in DOMAIN frames', frames'[k].step # "hlt"
        PROVE  inService' = InServiceAt(frames'[k])
    <3>1. k # 1
      BY <1>3, <1>4, <2>2
    <3>2. QED
      BY <1>2, <1>4, <2>2, <3>1 DEF IInv, ServiceMatches
  <2>3. QED
    BY <2>1, <2>2 DEF ServiceMatches, InServiceAt
<1>8. RoutineOfLine'
  <2>1. ASSUME NEW k \in DOMAIN frames', frames'[k].step \notin {"call", "hlt"}, ~frames'[k].spurious
        PROVE  frames'[k].routine = irq_routines'[frames'[k].line]
    <3>1. k # 1
      BY <1>3, <1>4, <2>1
    <3>2. QED
      BY <1>2, <1>4, <2>1, <3>1 DEF IInv, RoutineOfLine
  <2>2. QED
    BY <2>1 DEF RoutineOfLine
<1>9. BootOrder' /\ RemapSoFar'
  BY <1>1, <1>2, KernelUnchanged
<1>10. TypeOK'
  BY <1>1, <1>2, <1>4 DEF IInv, TypeOK
<1>11. QED
  BY <1>6, <1>7, <1>8, <1>9, <1>10 DEF IInv

LEMMA StutterPreserves == ASSUME IInv, UNCHANGED vars PROVE IInv'
<1>1. TypeOK' /\ BootOrder' /\ RemapSoFar'
  BY DEF IInv, TypeOK, BootOrder, RemapSoFar, Initialised, vars, kernel, hardware
<1>2. FrameShape' /\ ServiceMatches' /\ RoutineOfLine'
  BY DEF IInv, FrameShape, ServiceMatches, InServiceAt, RoutineOfLine, vars, kernel, hardware
<1>3. QED
  BY <1>1, <1>2 DEF IInv

(* A failure while the kernel stops changes nothing: IF is clear already.  *)
LEMMA StopPreserves == ASSUME IInv, Stop(FALSE) PROVE IInv'
<1>1. CASE ~Stopped
  BY <1>1, FirstStopPreserves
<1>2. CASE Stopped
  <2>1. frames # <<>> /\ frames[1].step = "hlt" /\ ~intr /\ intr \in BOOLEAN
    BY <1>2, WhenStopped DEF IInv, TypeOK
  <2>2. /\ frames' = frames /\ intr' = FALSE
        /\ UNCHANGED <<cpu, at, written, gates, loaded, irq_routines, hardware>>
    BY <1>2 DEF Stop
  <2>3. intr' = intr
    BY <2>1, <2>2, Zenon
  <2>4. UNCHANGED vars
    BY <2>2, <2>3 DEF vars, kernel, hardware
  <2>5. QED
    BY <2>4, StutterPreserves
<1>3. QED
  BY <1>1, <1>2

-------------------------------------------------------------------------------
(* Every step of Next preserves the invariant.                             *)
LEMMA NextPreserves == ASSUME IInv, [Next]_vars PROVE IInv'
<1>1. CASE \E l \in Sources : Raise(l)
  BY <1>1, RaisePreserves
<1>2. CASE Boot
  BY <1>2, IsrGatesPreserves, IdtLoadPreserves, IrqRemapPreserves, IrqGatesPreserves,
     StiPreserves, AtaInitPreserves DEF Boot
<1>3. CASE \E l \in Sources, spurious \in BOOLEAN : Interrupt(l, spurious)
  BY <1>3, InterruptPreserves
<1>4. CASE irq_handler
  BY <1>4, CallRoutinePreserves, EoiSlavePreserves, EoiMasterPreserves, IretPreserves
     DEF irq_handler
<1>5. CASE isr_common_stub \/ abort_handler
  BY <1>5, StopPreserves DEF isr_common_stub, isr_default_int, abort_handler
<1>6. CASE UNCHANGED vars
  BY <1>6, StutterPreserves
<1>7. CASE hlt
  BY <1>6, <1>7 DEF hlt
<1>8. QED
  BY <1>1, <1>2, <1>3, <1>4, <1>5, <1>6, <1>7 DEF Next

(* The inductive invariant: at each point of the boot the tables and the   *)
(* controllers are as far as the code before it brings them, and at each   *)
(* step of irq_handler the stack and the in-service bits are those of the  *)
(* one interrupt being handled (interrupts.c:67-121, 192-230).             *)
THEOREM InvariantHolds == Spec => []IInv
<1>1. Init => IInv
  BY InitHolds
<1>2. IInv /\ [Next]_vars => IInv'
  BY NextPreserves
<1>3. QED
  BY <1>1, <1>2, PTL DEF Spec

-------------------------------------------------------------------------------
(* The safety invariants.                                                  *)

(* Interrupts are never on before both controllers, the IDT and the IDTR   *)
(* are ready, whatever devices there are (interrupts.c:192-230).           *)
THEOREM AlwaysReady == Spec => []EnabledMeansReady
<1>1. IInv => EnabledMeansReady
  BY WhenEnabled, ControllersReady DEF EnabledMeansReady
<1>2. QED
  BY <1>1, InvariantHolds, PTL

(* The routine that runs is that of the line which interrupts              *)
(* (interrupts.c:67, 77, 113).                                             *)
THEOREM RightRoutine == Spec => []RoutineOfLine
<1>1. IInv => RoutineOfLine
  BY DEF IInv
<1>2. QED
  BY <1>1, InvariantHolds, PTL

(* No path through irq_handler leaves a line blocked                       *)
(* (interrupts.c:117-120).                                                 *)
THEOREM LinesAreFreed == Spec => []NothingLeftInService
<1>1. IInv => NothingLeftInService
  BY WhenEnabled DEF NothingLeftInService
<1>2. QED
  BY <1>1, InvariantHolds, PTL

(* At most one interrupt is being handled at any time (irq.s:28, 168).     *)
THEOREM OneAtATime == Spec => []NoNesting
<1>1. ASSUME IInv PROVE NoNesting
  <2> DEFINE handled == {k \in DOMAIN frames : frames[k].step # "hlt"}
  <2>1. handled \subseteq {Len(frames)}
    BY <1>1 DEF IInv, FrameShape
  <2>2. IsFiniteSet({Len(frames)}) /\ Cardinality({Len(frames)}) = 1
    BY FS_Singleton
  <2>3. Cardinality(handled) =< 1
    BY <2>1, <2>2, FS_Subset
  <2>4. QED
    BY <2>3 DEF NoNesting
<1>2. QED
  BY <1>1, InvariantHolds, PTL

-------------------------------------------------------------------------------
(* The action properties.                                                  *)

(* The request of a device never makes the kernel panic or the processor   *)
(* reset (interrupts.c:72-107).                                            *)
THEOREM EveryInterruptArrives == Spec => ArrivesAtStub
<1>1. ASSUME IInv, [Next]_vars
      PROVE  [requested' # requested => cpu' = cpu /\ (Stopped' => Stopped)]_vars
  <2>1. CASE \E l \in Sources : Raise(l)
    BY <2>1 DEF Raise, kernel, Stopped
  <2>2. CASE irq_remap
    BY <2>2 DEF irq_remap, Stopped
  <2>3. ASSUME NEW l \in Sources, NEW spurious \in BOOLEAN, Interrupt(l, spurious)
        PROVE  cpu' = cpu /\ ~Stopped'
    <3>1. /\ cpu = "up" /\ cpu' = "up" /\ frames' = <<StubFrame(l, spurious)>>
      BY <1>1, <2>3, InterruptArrives
    <3>2. \A k \in DOMAIN frames' : frames'[k].step = "call"
      BY <3>1 DEF StubFrame
    <3>3. QED
      BY <3>1, <3>2 DEF Stopped, HltFrame
  <2>4. CASE isr_gates \/ idt_load \/ irq_gates \/ sti \/ ata_init
    BY <2>4 DEF isr_gates, idt_load, LoadThen, irq_gates, FillGates, sti, ata_init,
                irq_set_routine, hardware
  <2>5. CASE irq_handler
    BY <2>5 DEF irq_handler, CallRoutine, Dispatch, EoiSlave, EoiMaster, EndOfInterrupt, iret,
                hardware
  <2>6. CASE isr_common_stub \/ abort_handler \/ hlt \/ UNCHANGED vars
    BY <2>6 DEF isr_common_stub, isr_default_int, abort_handler, Stop, hlt, vars, hardware
  <2>7. QED
    BY <1>1, <2>1, <2>2, <2>3, <2>4, <2>5, <2>6 DEF Next, Boot
<1>2. QED
  BY <1>1, InvariantHolds, PTL DEF Spec, ArrivesAtStub

(* An end of interrupt ends only what is being handled, a spurious         *)
(* interrupt ends nothing else (interrupts.c:117-120).                     *)
THEOREM EndsItsOwn == Spec => EndsOnlyItsOwn
<1> DEFINE Own == \A l \in inService \ inService' :
      Running("irq_remap") \/ l \in {frames[1].line, MasterInput(frames[1].line)}
<1>1. ASSUME IInv, [Next]_vars
      PROVE  [Own]_vars
  <2>1. CASE irq_remap
    BY <2>1 DEF irq_remap
  <2>2. ASSUME EoiSlave \/ EoiMaster
        PROVE  Own
    <3>1. inService = InServiceAt(frames[1]) /\ OfHandler(frames[1])
          /\ frames[1].step \in {"eoi_slave", "eoi_master"}
      BY <1>1, <2>2, TheHandler, HandlerShape DEF EoiSlave, EoiMaster
    <3>2. inService \subseteq {frames[1].line, MasterInput(frames[1].line)}
      BY <3>1 DEF InServiceAt, MasterInput
    <3>3. QED
      BY <3>2
  <2>3. CASE \E l \in Sources, spurious \in BOOLEAN : Interrupt(l, spurious)
    BY <2>3 DEF Interrupt, Acknowledge
  <2>4. CASE \/ \E l \in Sources : Raise(l)
             \/ isr_gates \/ idt_load \/ irq_gates \/ sti \/ ata_init
             \/ CallRoutine \/ iret
             \/ isr_common_stub \/ abort_handler \/ hlt \/ UNCHANGED vars
    <3>1. inService' = inService
      BY <2>4 DEF Raise, isr_gates, idt_load, LoadThen, irq_gates, FillGates, sti, ata_init,
                  irq_set_routine, CallRoutine, Dispatch, iret, isr_common_stub, isr_default_int,
                  abort_handler, Stop, hlt, vars, hardware
    <3>2. QED
      BY <3>1
  <2>5. QED
    BY <1>1, <2>1, <2>2, <2>3, <2>4 DEF Next, Boot, irq_handler
<1>2. QED
  BY <1>1, InvariantHolds, PTL DEF Spec, EndsOnlyItsOwn

(* A kernel that has panicked or aborted does nothing more, whatever the   *)
(* devices do (stdlib.c:8, 12, 24).                                        *)
THEOREM StoppedForGood == Spec => StopIsFinal
<1>1. ASSUME IInv, [Next]_vars
      PROVE  [Stopped => UNCHANGED <<kernel, pic, inService>>]_vars
  <2> SUFFICES ASSUME Stopped PROVE UNCHANGED <<kernel, pic, inService>>
    OBVIOUS
  <2>1. frames # <<>> /\ frames[1].step = "hlt" /\ ~intr
    BY <1>1, WhenStopped
  <2>2. ~Boot
    BY <2>1 DEF Boot, isr_gates, idt_load, LoadThen, irq_remap, irq_gates, FillGates, sti,
                ata_init, Running
  <2>3. \A l \in Sources, spurious \in BOOLEAN : ~Interrupt(l, spurious)
    BY <2>1 DEF Interrupt
  <2>4. ~irq_handler
    BY <2>1 DEF irq_handler, CallRoutine, Dispatch, EoiSlave, EoiMaster, iret, Handling
  <2>5. CASE isr_common_stub \/ abort_handler
    <3>1. frames' = frames /\ intr' = FALSE /\ intr \in BOOLEAN
          /\ UNCHANGED <<cpu, at, written, gates, loaded, irq_routines, hardware>>
      BY <1>1, <2>5 DEF isr_common_stub, isr_default_int, abort_handler, Stop, IInv, TypeOK
    <3>2. intr' = intr
      BY <2>1, <3>1, Zenon
    <3>3. QED
      BY <3>1, <3>2 DEF kernel, hardware
  <2>6. CASE \E l \in Sources : Raise(l)
    BY <2>6 DEF Raise
  <2>7. CASE hlt \/ UNCHANGED vars
    BY <2>7 DEF hlt, vars, hardware
  <2>8. QED
    BY <1>1, <2>2, <2>3, <2>4, <2>5, <2>6, <2>7 DEF Next
<1>2. QED
  BY <1>1, InvariantHolds, PTL DEF Spec, StopIsFinal
===============================================================================
