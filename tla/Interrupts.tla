------------------------------ MODULE Interrupts ------------------------------
(***************************************************************************)
(* arch/x86/interrupts.c, irq.s, isr.s, the boot order of kmain.c and the  *)
(* stops of libc's stdlib.c: how a hardware interrupt reaches the routine  *)
(* that a driver registered for its line, from the first instruction of    *)
(* the kernel on.                                                          *)
(*                                                                         *)
(* The two 8259A interrupt controllers are external.  They are modelled    *)
(* from the bytes that the code writes to their ports: the initialisation  *)
(* words, the mask, the non-specific end of interrupt.  A device may raise *)
(* its line at any time, and take the request back just before the         *)
(* processor acknowledges it, which makes the interrupt spurious.          *)
(***************************************************************************)
EXTENDS Integers, Sequences, FiniteSets

CONSTANT Sources      \* the lines that have a device which may interrupt

Lines    == 0 .. 15
Cascade  == 2         \* the input of the master that the slave is wired to
Chips    == {"master", "slave"}
IsrGates == 0 .. 31
IrqGates == 32 .. 47

ASSUME SourcesAssumption == Sources \subseteq Lines \ {Cascade}

VARIABLES
  cpu,           \* "up" or "reset"
  intr,            \* the interrupt flag of the processor
  at,            \* how far the boot has come
  written,       \* how many bytes irq_remap has written
  gates,         \* the vectors whose IDT entry is filled in
  loaded,        \* idt_load has been executed
  irq_routines,  \* the table of interrupts.c
  frames,        \* the interrupts being handled, the innermost first, and the
                 \* calls of panic and abort_handler, which never return
  pic,           \* the two controllers: initialisation, vectors, mask
  requested,     \* the lines whose request a controller has latched
  inService      \* the inputs acknowledged and not yet ended

kernel   == <<cpu, intr, at, written, gates, loaded, irq_routines, frames>>
hardware == <<pic, requested, inService>>
vars     == <<kernel, hardware>>

-------------------------------------------------------------------------------
(***************************************************************************)
(* The controllers (external).                                             *)
(***************************************************************************)
InputsOf(c)    == IF c = "master" THEN 0 .. 7 ELSE 8 .. 15
ChipOf(l)      == IF l >= 8 THEN "slave" ELSE "master"
MasterInput(l) == IF l >= 8 THEN Cascade ELSE l
Masked(c, l)   == (pic[c].imr \div 2^(l % 8)) % 2 = 1

(* The first initialisation word: forget the requests, expect ICW2.        *)
ICW1(c) ==
  /\ pic' = [pic EXCEPT ![c].stage = "icw2", ![c].imr = 0]
  /\ requested' = requested \ InputsOf(c)
  /\ inService' = inService \ InputsOf(c)

(* A byte to the data port is the next initialisation word or the mask.    *)
DataPort(c, v) ==
  /\ pic' = [pic EXCEPT ![c] =
       CASE @.stage = "icw2"  -> [@ EXCEPT !.base = v, !.stage = "icw3"]
         [] @.stage = "icw3"  -> [@ EXCEPT !.wiring = v, !.stage = "icw4"]
         [] @.stage = "icw4"  -> [@ EXCEPT !.stage = "ready"]
         [] @.stage = "ready" -> [@ EXCEPT !.imr = v]]
  /\ UNCHANGED <<requested, inService>>

(* Non-specific end of interrupt: the highest input in service is ended,   *)
(* whichever interrupt the kernel meant.                                   *)
EndOfInterrupt(c) ==
  /\ inService' = {l \in inService : \/ l \notin InputsOf(c)
                                     \/ \E k \in inService \intersect InputsOf(c) : k < l}
  /\ UNCHANGED <<pic, requested>>

Wired == pic["master"].wiring = 4 /\ pic["slave"].wiring = 2

(* The requests that may interrupt what is in service, and the first one.  *)
Eligible == {l \in requested :
  /\ pic[ChipOf(l)].stage = "ready" /\ ~Masked(ChipOf(l), l)
  /\ \A s \in inService : ChipOf(s) = ChipOf(l) => l < s
  /\ l >= 8 => /\ Wired /\ pic["master"].stage = "ready"
               /\ ~Masked("master", Cascade)
               /\ \A s \in inService \intersect InputsOf("master") : Cascade < s}

Before(l, k) == \/ MasterInput(l) < MasterInput(k)
                \/ MasterInput(l) = MasterInput(k) /\ l =< k

(* A device raises its line; edges that meet a latched request are lost.   *)
Raise(l) ==
  /\ requested' = requested \union {l}
  /\ UNCHANGED <<kernel, pic, inService>>

-------------------------------------------------------------------------------
(***************************************************************************)
(* Boot: GRUB enters the kernel with the controllers set up by the BIOS,   *)
(* and boot.s starts with cli.                                             *)
(***************************************************************************)
Init ==
  /\ cpu = "up"
  /\ intr = FALSE
  /\ at = "isr_gates"
  /\ written = 0
  /\ gates = {}
  /\ loaded = FALSE
  /\ irq_routines = [l \in Lines |-> "NULL"]
  /\ frames = <<>>
  /\ pic = [c \in Chips |-> [stage |-> "ready", imr |-> 0,
              base |-> IF c = "master" THEN 8 ELSE 112,
              wiring |-> IF c = "master" THEN 4 ELSE 2]]
  /\ requested \in SUBSET Sources
  /\ inService = {}

(* The kernel's own code runs when no interrupt is being handled.          *)
Running(where) == cpu = "up" /\ frames = <<>> /\ at = where

isr_gates ==
  /\ Running("isr_gates")
  /\ gates' = IsrGates
  /\ at' = "idt_load"
  /\ UNCHANGED <<cpu, intr, written, loaded, irq_routines, frames, hardware>>

LoadThen(flag) ==
  /\ Running("idt_load")
  /\ loaded' = TRUE
  /\ intr' = flag
  /\ at' = "irq_remap"
  /\ UNCHANGED <<cpu, written, gates, irq_routines, frames, hardware>>

idt_load_Sti == LoadThen(TRUE)                   \* fault: sti before init_irq
idt_load == LoadThen(intr)

(* irq_remap, one outb per step; 17 is ICW1 and goes to the command port.  *)
RemapWrites_Wiring ==                            \* fault: ICW3 the other way round
  << <<"master", 17>>, <<"slave", 17>>, <<"master", 32>>, <<"slave", 40>>,
     <<"master", 2>>, <<"slave", 4>>, <<"master", 1>>, <<"slave", 1>>,
     <<"master", 0>>, <<"slave", 0>> >>
RemapWrites ==
  << <<"master", 17>>, <<"slave", 17>>, <<"master", 32>>, <<"slave", 40>>,
     <<"master", 4>>, <<"slave", 2>>, <<"master", 1>>, <<"slave", 1>>,
     <<"master", 0>>, <<"slave", 0>> >>

irq_remap ==
  /\ Running("irq_remap")
  /\ written' = written + 1
  /\ LET w == RemapWrites[written']
     IN  IF w[2] = 17 THEN ICW1(w[1]) ELSE DataPort(w[1], w[2])
  /\ at' = IF written' = Len(RemapWrites) THEN "irq_gates" ELSE at
  /\ UNCHANGED <<cpu, intr, gates, loaded, irq_routines, frames>>

FillGates(vectors) ==
  /\ Running("irq_gates")
  /\ gates' = gates \union vectors
  /\ at' = "sti"
  /\ UNCHANGED <<cpu, intr, written, loaded, irq_routines, frames, hardware>>

irq_gates_OffByOne == FillGates(33 .. 48)        \* fault: one vector too far
irq_gates == FillGates(IrqGates)

sti ==
  /\ Running("sti")
  /\ intr' = TRUE
  /\ at' = "ata_init"
  /\ UNCHANGED <<cpu, written, gates, loaded, irq_routines, frames, hardware>>

irq_set_routine(irq, handler, next) ==
  /\ irq_routines' = [irq_routines EXCEPT ![irq] = handler]
  /\ at' = next
  /\ UNCHANGED <<cpu, intr, written, gates, loaded, frames, hardware>>

(* With interrupts on: a drive may interrupt before its routine is there.  *)
ata_init ==
  \/ /\ Running("ata_init")
     /\ irq_set_routine(14, "ata_primary_irq", "secondary")
  \/ /\ Running("secondary")
     /\ irq_set_routine(15, "ata_secondary_irq", "idle")

Boot == isr_gates \/ idt_load \/ irq_remap \/ irq_gates \/ sti \/ ata_init

-------------------------------------------------------------------------------
(***************************************************************************)
(* An interrupt: the processor acknowledges the first eligible request.    *)
(* The gates are interrupt gates and the stubs of irq.s begin with cli.    *)
(***************************************************************************)
(* The vector that the acknowledged chip answers with; the request may be  *)
(* gone by then, and the chip then answers with its lowest input and       *)
(* leaves no in-service bit.                                               *)
Vector(l, spurious) == pic[ChipOf(l)].base + (IF spurious THEN 7 ELSE l % 8)

Acknowledge(l, spurious) ==
  /\ requested' = requested \ {l}
  /\ inService' = inService \union (IF l >= 8 THEN {Cascade} ELSE {})
                            \union (IF spurious THEN {} ELSE {l})
  /\ UNCHANGED pic

StubFrame(l, spurious) == [line |-> l, spurious |-> spurious, int_no |-> Vector(l, spurious),
                           routine |-> "NULL", step |-> "call"]
HltFrame == [line |-> Cascade, spurious |-> FALSE, int_no |-> 0, routine |-> "NULL",
             step |-> "hlt"]
Stopped  == \E k \in DOMAIN frames : frames[k] = HltFrame

FlagInStub_TrapGate == intr                      \* fault: 0x8F and no cli
FlagInStub == FALSE

(* Through the gate of an exception the interrupt is taken for one and     *)
(* panics; without a gate the processor faults until it resets.            *)
Interrupt(l, spurious) ==
  /\ cpu = "up" /\ intr
  /\ l \in Eligible /\ \A k \in Eligible : Before(l, k)
  /\ Acknowledge(l, spurious)
  /\ LET v == Vector(l, spurious)
     IN  /\ cpu' = IF loaded /\ v \in gates THEN "up" ELSE "reset"
         /\ frames' = <<IF v >= 32 THEN StubFrame(l, spurious) ELSE HltFrame>> \o frames
  /\ intr' = FlagInStub
  /\ UNCHANGED <<at, written, gates, loaded, irq_routines>>

(* irq_handler, and the return of irq_common_stub.                         *)
Handling(step) == cpu = "up" /\ frames # <<>> /\ frames[1].step = step
int_no == frames[1].int_no

Dispatch(r, next) ==
  /\ Handling("call")
  /\ frames' = [frames EXCEPT ![1].routine = r, ![1].step = next]
  /\ UNCHANGED <<cpu, intr, at, written, gates, loaded, irq_routines, hardware>>

CallRoutine_OffByOne ==                          \* fault: > 40 for >= 40
  Dispatch(irq_routines[int_no - 32], IF int_no > 40 THEN "eoi_slave" ELSE "eoi_master")
CallRoutine_Index ==                             \* fault: the table of the slave
  Dispatch(irq_routines[(int_no - 32) % 8], IF int_no >= 40 THEN "eoi_slave" ELSE "eoi_master")
CallRoutine ==
  Dispatch(irq_routines[int_no - 32], IF int_no >= 40 THEN "eoi_slave" ELSE "eoi_master")

EoiSlave ==
  /\ Handling("eoi_slave")
  /\ EndOfInterrupt("slave")
  /\ frames' = [frames EXCEPT ![1].step = "eoi_master"]
  /\ UNCHANGED <<cpu, intr, at, written, gates, loaded, irq_routines>>

EoiMaster ==
  /\ Handling("eoi_master")
  /\ EndOfInterrupt("master")
  /\ frames' = [frames EXCEPT ![1].step = "iret"]
  /\ UNCHANGED <<cpu, intr, at, written, gates, loaded, irq_routines>>

iret ==
  /\ Handling("iret")
  /\ frames' = Tail(frames)
  /\ intr' = TRUE
  /\ UNCHANGED <<cpu, at, written, gates, loaded, irq_routines, hardware>>

irq_handler == CallRoutine \/ EoiSlave \/ EoiMaster \/ iret

-------------------------------------------------------------------------------
(***************************************************************************)
(* The ends of the kernel: an exception panics (isr_default_int), a failed *)
(* assertion aborts, wherever the kernel is.  Both clear IF, log and halt. *)
(* A failure amid that log stops once more: one HltFrame stands for both.  *)
(***************************************************************************)
Stop(flag) ==
  /\ cpu = "up"
  /\ frames' = IF Stopped THEN frames ELSE <<HltFrame>> \o frames
  /\ intr' = flag
  /\ UNCHANGED <<cpu, at, written, gates, loaded, irq_routines, hardware>>

isr_default_int == Stop(FALSE)
isr_common_stub == loaded /\ isr_default_int     \* the 32 stubs of isr.s

abort_handler_NoCli == Stop(intr)                \* fault: cli is missing
abort_handler == Stop(FALSE)

(* The loop around hlt, of kmain and of a stopped kernel.                  *)
hlt ==
  /\ cpu = "reset" \/ Stopped \/ Running("idle")
  /\ UNCHANGED vars

Next ==
  \/ \E l \in Sources : Raise(l)
  \/ Boot
  \/ \E l \in Sources, spurious \in BOOLEAN : Interrupt(l, spurious)
  \/ irq_handler
  \/ isr_common_stub
  \/ abort_handler
  \/ hlt

(* The boot, an interrupt routine and the acknowledgement of a request go  *)
(* on as long as the processor runs; devices need not interrupt, and the   *)
(* kernel need not fail.                                                   *)
Deliver == \E l \in Sources, spurious \in BOOLEAN : Interrupt(l, spurious)

Spec == Init /\ [][Next]_vars
FairSpec == Spec /\ WF_vars(Boot) /\ WF_vars(Deliver) /\ WF_vars(irq_handler)

-------------------------------------------------------------------------------
(***************************************************************************)
(* Properties.                                                             *)
(***************************************************************************)
Routines == {"NULL", "ata_primary_irq", "ata_secondary_irq"}

Frame == [line : Sources \union {Cascade}, spurious : BOOLEAN, int_no : 0 .. 255,
          routine : Routines, step : {"call", "eoi_slave", "eoi_master", "iret", "hlt"}]

TypeOK ==
  /\ cpu \in {"up", "reset"}
  /\ intr \in BOOLEAN
  /\ at \in {"isr_gates", "idt_load", "irq_remap", "irq_gates", "sti", "ata_init", "secondary",
             "idle"}
  /\ written \in 0 .. Len(RemapWrites)
  /\ gates \in SUBSET (IsrGates \union IrqGates)
  /\ loaded \in BOOLEAN
  /\ irq_routines \in [Lines -> Routines]
  /\ frames \in Seq(Frame)
  /\ pic \in [Chips -> [stage : {"icw2", "icw3", "icw4", "ready"}, imr : 0 .. 255,
                        base : 0 .. 255, wiring : 0 .. 255]]
  /\ requested \in SUBSET Sources
  /\ inService \in SUBSET (Sources \union {Cascade})

(* Interrupts are never on before both controllers, the table they point   *)
(* into and the register that locates it are ready (interrupts.c:226-230). *)
EnabledMeansReady ==
  intr => /\ loaded /\ IsrGates \union IrqGates \subseteq gates
        /\ \A c \in Chips : pic[c].stage = "ready" /\ pic[c].imr = 0
        /\ pic["master"].base = 32 /\ pic["slave"].base = 40 /\ Wired

(* No request of a device makes the kernel panic or the processor reset:   *)
(* every interrupt arrives at a stub of irq.s (interrupts.c:72-107).       *)
ArrivesAtStub ==
  [][requested' # requested => cpu' = cpu /\ (Stopped' => Stopped)]_vars

(* The routine that runs for an interrupt is the one its driver registered *)
(* for the line that the device raised, the eight lines of the slave       *)
(* included (interrupts.c:67, 77, 113).                                    *)
RoutineOfLine ==
  \A k \in DOMAIN frames :
    frames[k].step \notin {"call", "hlt"} /\ ~frames[k].spurious
      => frames[k].routine = irq_routines[frames[k].line]

(* An end of interrupt never acknowledges an interrupt other than the one  *)
(* being handled, although the command names no line and a spurious        *)
(* interrupt has none to end (interrupts.c:117-120).                       *)
EndsOnlyItsOwn ==
  [][\A l \in inService \ inService' :
       Running("irq_remap") \/ l \in {frames[1].line, MasterInput(frames[1].line)}]_vars

(* When the kernel can be interrupted, nothing is in service: no path      *)
(* through irq_handler leaves a line blocked (interrupts.c:117-120).       *)
NothingLeftInService == intr => inService = {}

(* Interrupts do not nest: what they take of the boot stack is bounded     *)
(* (irq.s:28, 168; interrupts.c:92).                                       *)
NoNesting == Cardinality({k \in DOMAIN frames : frames[k].step # "hlt"}) =< 1

-------------------------------------------------------------------------------
(***************************************************************************)
(* The inductive invariant: the state of the tables and controllers at     *)
(* each point of the boot, of the stack and of the in-service bits at each *)
(* step of irq_handler.                                                    *)
(***************************************************************************)
Up == {"ata_init", "secondary", "idle"}     \* where interrupts may be on

(* What each part of the boot leaves to the next (interrupts.c:192-230).   *)
BootOrder ==
  /\ cpu = "up"
  /\ intr => at \in Up
  /\ at # "isr_gates" => IsrGates \subseteq gates
  /\ at \in Up \union {"sti"} => IrqGates \subseteq gates
  /\ at \notin {"isr_gates", "idt_load"} => loaded
  /\ at \in {"isr_gates", "idt_load"} => written = 0
  /\ at = "irq_remap" => written < 10
  /\ at \in Up \union {"irq_gates", "sti"} => written = 10

(* How far the ten writes of irq_remap have brought a controller whose     *)
(* first byte is the one of number first (interrupts.c:72-90).             *)
Initialised(c, first, base, wiring) ==
  /\ pic[c].imr = 0
  /\ pic[c].stage = IF written < first \/ written >= first + 6 THEN "ready"
                    ELSE IF written < first + 2 THEN "icw2"
                    ELSE IF written < first + 4 THEN "icw3" ELSE "icw4"
  /\ written >= first + 2 => pic[c].base = base
  /\ written >= first + 4 => pic[c].wiring = wiring

RemapSoFar == Initialised("master", 1, 32, 4) /\ Initialised("slave", 2, 40, 2)

(* At most one interrupt is being handled, and at most one stop lies on    *)
(* top of it; while there is either, interrupts are off.                   *)
FrameShape ==
  /\ intr => frames = <<>>
  /\ \A k \in DOMAIN frames :
       IF frames[k].step = "hlt" THEN k = 1 /\ frames[k] = HltFrame
       ELSE /\ k = Len(frames) /\ at \in Up
            /\ frames[k].line \in Sources
            /\ frames[k].int_no = IF ~frames[k].spurious THEN 32 + frames[k].line
                                  ELSE IF frames[k].line >= 8 THEN 47 ELSE 39
            /\ frames[k].line < 8 => frames[k].step # "eoi_slave"

(* What is in service at each step of the interrupt being handled.         *)
InServiceAt(f) ==
  CASE f.step \in {"call", "eoi_slave"} -> (IF f.line >= 8 THEN {Cascade} ELSE {})
                                           \union (IF f.spurious THEN {} ELSE {f.line})
    [] f.step = "eoi_master" -> IF f.line >= 8 THEN {Cascade}
                                ELSE IF f.spurious THEN {} ELSE {f.line}
    [] f.step = "iret" -> {}

ServiceMatches ==
  /\ (\A k \in DOMAIN frames : frames[k].step = "hlt") => inService = {}
  /\ \A k \in DOMAIN frames : frames[k].step # "hlt" => inService = InServiceAt(frames[k])

(* Parts of it beyond the properties: without BootOrder and RemapSoFar     *)
(* EnabledMeansReady is not inductive, without FrameShape and              *)
(* ServiceMatches neither are NothingLeftInService and RoutineOfLine       *)
(* (interrupts.c:110-121).                                                 *)
IInv == TypeOK /\ BootOrder /\ RemapSoFar /\ FrameShape /\ ServiceMatches /\ RoutineOfLine

-------------------------------------------------------------------------------
(* A kernel that has panicked or aborted does nothing more, not even for a *)
(* device (stdlib.c:8, 12, 24).                                            *)
StopIsFinal == [][Stopped => UNCHANGED <<kernel, pic, inService>>]_vars

(* Every request is answered by its routine or proves spurious, unless the *)
(* kernel stops or more urgent devices interrupt again and again.          *)
Answered(l) ==
  Stopped \/ \E k \in DOMAIN frames : frames[k].line = l /\ frames[k].step # "call"
Urgent(l) == {k \in requested : k # l /\ Before(k, l)}

RequestsAnswered ==
  \A l \in Sources : <>[](Urgent(l) = {}) => ((intr /\ l \in requested) ~> Answered(l))
===============================================================================
