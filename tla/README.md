# BordOS: a verification project

TLA+ models, TLC runs and TLAPS proofs about BordOS (`kernel_dev`), a hobby kernel for 32-bit x86.
Every model is translated from the sources under `src/`; the debug build is meant (`DEBUG = yes` in
the Makefiles): `assert` is compiled in and a failed assertion stops the machine.

The kernel runs on one processor and has no threads. What is concurrent in it is the hardware:
interrupts arrive from the `sti` of `init_idt` on, the real-time clock ticks, the interrupt
controllers and the drives keep their own state.

## Inventory

| Component | State | Operations | Interacts with | Hard behaviour |
|---|---|---|---|---|
| Physical memory manager, `pmm.c` | bitmap, hint | `pmm_init`, `pmm_alloc`, `pmm_free`, `pmm_is_frame_allocated` | assertions | the hint has two units, two scans must meet, boundaries of bytes and of the image, double free |
| Interrupts, `interrupts.c`, `irq.s`, `isr.s`, `idt.s` | IDT, `irq_routines`, IF | `init_idt`, `irq_set_routine`, `irq_handler`, `isr_default_int` | two 8259A, ATA routines, panic | order of initialisation, end of interrupt, spurious interrupts, registration with interrupts on |
| Boot, `boot.s`, `kmain.c`, `gdt.s` | how far it has come | `start`, `kmain`, `init_system` | everything | order; `kmain` returns on a wrong magic number and `boot.s` runs on into nothing |
| Stops, libc `stdlib.c` | none | `abort_handler`, `panic` | every assertion, exceptions, logger | must stop whatever context it is called in |
| Spinlock, `spinlock.c`, `utils.c` | `locked`, `depth` | init, lock, unlock, is_locked | interrupt handlers | non-atomic counter, window in unlock, the inverted test of the loop |
| CMOS, `cmos.c` | none (caller's record) | `cmos_RTC`, `cmos_read`, `cmos_write` | running clock, IF | update while reading, 12-hour clock, century |
| VGA terminal, `vga.c` | cursor, attribute, screen | put, clear, colour, numbers | memcpy | wrapping and scrolling, overlapping copy |
| Serial port, `serial.c` | none (the device's) | init, put, numbers, format loop | polled device | polling without a limit, conversion of numbers |
| Logger, `logger.c`, libc `stdio.c` | level, outputs | log, set level, set output | clock, serial port, VGA | one argument list for two outputs |
| ATA, `ata.c` | none (the drives') | `ata_init`, `ide_init`, sector read and write | drives, interrupts, logger | drives that take their time, refuse, fail or are not there; polling without a limit, ignored errors, an error path that aborts |
| Device table, `device.c` | table, next id | add, get, count | logger | no bound check |
| VFS, `vfs.c` | `fs_root` | dispatch to callbacks | none yet | none: stateless |
| libc strings, `string.c` | none | memcpy, memset, memcmp, strlen | VGA, ATA | overlap |
| UBSan, `UBSan.c` | none | thirteen handlers | logger, panic | called at any moment |
| SSE, port I/O, multiboot | none of their own | | | |

What makes each of them correct:

- *Memory manager*: a frame is handed out only while nobody holds it and never if it belongs to the
  image; a request is refused only when no frame is left; every call returns; the bitmap is never
  read beyond its end; a bad free changes nothing.
- *Interrupts*: IF is on only when the tables and the controllers are ready; a request reaches the
  routine of its line; each is acknowledged once, and nothing else is; handlers do not nest; a kernel
  that has stopped stays stopped.
- *Spinlock*: the counter is exact, the assertions hold, a held lock is locked, an unused one free.
- *Clock*: the result is one moment of the clock, in calendar units; the call returns.
- *VGA*: the cursor is on the screen, which shows the last lines written.
- *Serial, logger*: digits print the number; a level below the threshold prints nothing.
- *ATA*: a read returns the sector last written, a write changes its own sector and is over when it
  returns, a drive that fails never passes for one that has answered, the boot finds the
  master of each bus if it is a disk (it never selects a slave, `ata.c:66`, `76`), no interrupt
  request is left behind.

`PROJECT.json` lists under `hazards` where in the code these can go wrong.

## Modules

| Module | Models | Written as |
|---|---|---|
| `FrameAllocator` | what a frame allocator promises | abstract specification |
| `Pmm` | `pmm.c` | one step per loop iteration; refines `FrameAllocator` |
| `PmmProofs` | | theorems about `Pmm` |
| `Interrupts` | `interrupts.c`, `irq.s`, `isr.s`, `idt.s`, boot order, stops; 8259A external | one step per port write and per part of the handler |
| `InterruptsProofs` | | theorems about `Interrupts` |
| `Spinlock` | `spinlock.c` | one step per access to the lock, interrupted at any of them |
| `SpinlockProofs` | | sums over finite sets; theorems about `Spinlock` |
| `Cmos`, `MCCmos` | `cmos_RTC`; the clock external | one step per register read; `MCCmos` has the stretches of time |
| `CmosProofs` | | theorems about `Cmos` |
| `Terminal` | what a text terminal promises | abstract specification |
| `Vga` | `vga.c`, `memcpy`; the panic that reenters it | one step per store; refines `Terminal` |
| `VgaProofs` | | theorems about `Vga` |
| `Numbers` | conversion of numbers in `serial.c` and `vga.c` | one step per call and return of the recursion |
| `NumbersProofs` | | theorems about `Numbers` |
| `Logger` | `logger.c`, the format loops, polling of the serial port, `UBSan.c` | one step per item printed |
| `LoggerProofs` | | theorems about `Logger` |
| `Disk` | what a driver of disks that fail promises | abstract specification |
| `Ata`, `MCAta` | `ata.c`; the drives external | one step per port access; refines `Disk`; `MCAta` has the machines |
| `AtaProofs` | | theorems about `Ata` |

### Pmm

`pmm_bitmap` is a function from byte indices to sets of bits, `pmm_next_frame` the hint. `pc` says
which loop runs: `mark` is `pmm_mark_range_as_allocated`, `scan` and `rescan` the two calls of
`pmm_alloc_frame`; `i` and `final` are its variables. `held` is a history variable: the frames that
callers have. `pmm_init` really leaves an address in the hint (`pmm.c:43`), and the model does too.
The bits of a byte are searched in one step (`FirstClear`), including the code's habit of not looking
at bit 7. Callers free what they hold, free it again, or pass on the `NULL_FRAME` of a refused
request; they do not free frames of the kernel image, which nothing in `pmm.c` would stop.

### Interrupts

The kernel's side is `gates`, `loaded`, `irq_routines`, `intr` (the flag IF), `at` (the boot) and
`frames`, the stack of interrupts being handled and of calls that never return. `irq_remap` is the
sequence of its ten port writes, executed one by one, and the controllers react to the bytes: the
initialisation words in their order, vector base, wiring, mask, non-specific end of interrupt,
priorities, cascade. Devices raise lines at any time, before the boot too, and may withdraw a request
just before the acknowledgement, which makes the interrupt spurious. An exception or a failed
assertion may stop the kernel in any context, its own last words included, which adds nothing to a
kernel that has stopped. The routines themselves are empty in the code.

### Spinlock

Level 0 is the kernel's code and level n + 1 the handler that suspended level n, so that interrupts
interleave as they do on one processor: the handler runs to its end before the other goes on. A
handler releases what it took. `++depth` is a load and a store. `atomic_exchange` returns the old
value and the loop waits for a 1, so a free lock is taken by the second exchange and a held one is
entered at once; the module says what remains true of such a lock. Mutual exclusion does not.

### Cmos

The clock shows a sequence of moments, `Clock`, and announces each update. Any time may pass between
two reads because the driver leaves interrupts on. Conversions are those of the code, on the register
values of all formats.

### Vga

`x`, `y`, `attr` are `vga_data`, `vga_buffer` the memory of the card with one line behind the screen,
`crtc` the registers of the hardware cursor. `step` is the next statement of `vga_put`, `i` the index
of its loop. Every store is a step, because the only thing that can stop `vga_put` is a panic: it
never returns, but it logs its message through `vga_put` again, on whatever the stopped call left.
`Message` stands for that line: a first character, a text and the end of line. `vga_init` is one
step, as nothing is printed on the screen before `kmain` calls `set_output`. `vga_clear` writes
`0x20 | attr` without the shift; the model keeps that, and `Cleared` is a blank only because `attr`
is still 0 then.

`Terminal` is what the caller of `vga_put` may think: lines, a row and a column. The mapping gives
the screen as it will be when the call in progress has ended (`EndX`, `EndY`, `EndCell`), so that the
first step of `vga_put` is the step of the terminal. `input` makes a dropped character visible.
After a panic `Terminal` promises nothing, and `PanicIsShown`, `CursorFollows` and `WritesOnScreen`
take over.

### Numbers

`calls` is the recursion of `serial_write_nb`, innermost call first, `out` the digits. A number is
read back by `Reading`. Two properties say what becomes of numbers: `WrongOnlyAtBase` which ones are
printed wrong, exactly, and `WritesTheNumber` that none is, which is violated.

### Logger

A format is a sequence of words and options and `ap` the argument the format loop is at. A call of
`LOG` prints a header and the message, each to the serial port and then to the screen, as far as they
are on (`todo`). A unit is written to the serial port only when its register (`thr`) is empty, and is
lost in a full one. A panic or failed assertion drops the call in progress and makes one of its own.
`Sites` are the calls that are compiled, by their formats: without arguments, with several, those of
`panic` and `abort_handler`, and those of `device_add` and `ide_read_sector`, which nothing calls yet.
The last, `ReadError`, has the option `%03x`, which the format loops do not know: the report of a
read error fails their assertion, and `ReadErrorStops` says what the outputs have got when the kernel
has stopped. The handlers of `UBSan.c`, which a build with
`-fsanitize=undefined` calls (the flag is commented out in `kernel/Makefile:11`), are one action,
`__ubsan_handle`: it drops the call in progress, prints the place, and when that is done
`ubsan_panic` prints the panic. Undefined behaviour inside the logger itself, which would recurse, is
left out.

### Ata

A routine of the driver is a straight sequence of port accesses, and the module says it as one:
`ide_init`, `ide_read_sector` and `ide_write_sector` are sequences, `Program` the one in progress, `at`
the next access. Between two accesses the drives go on: a drive that has taken a command is `latched`
until it shows that it is busy (what `delay400ns` waits for), then `busy`, then it asks for words
(`transfer`) or is done, or aborts with the error bit. It requests an interrupt when it is done
(`intrq`), and a read of its status takes the request back. Not everything the driver writes reaches
the drive: `bus + 0x306` and `bus + 0x0C` are not the control register, which `ata.h:88` gives as
0x3F6, so the drives' interrupts are never turned off. In `Interrupts` these requests are the lines 14
and 15, raised and withdrawn at any time; the routines of both are empty.

A bus may have disks, a packet device (which refuses every command used here), no drive (its
registers read as zeros) or nothing at all, floating (reads as ones). A drive at work ignores commands. Words read without a
request are zeros, words written without one are lost. That is an assumption about drives, and the one
by which `ide_init`, which reads its 256 words whatever the status says, does not take a drive that has
refused IDENTIFY for a disk. `ata_wait` followed by an error leads
`ide_read_sector` to a log call whose format fails an assertion; the step `Check` stops the kernel.

`Disk` allows a write to be lost, once, as a whole, and only because the disk has failed; `outcome`
and `answer` are history variables for it. That a write is lost without its caller being told is in
`Disk` because it is what the code does: `ide_write_sector` returns nothing.

No code calls `ide_read_sector` and `ide_write_sector` yet (`ata.c:222`); the model calls them once
the boot is over, one at a time.

## Runs

| Run | Question | Bounds | Result |
|---|---|---|---|
| `Pmm` | does `pmm.c` implement an allocator? | 4 bytes of bitmap (32 frames), 22 reserved: the reserved range ends inside a byte, the ten free frames fill the rest of it and one byte more | holds, 72 074 states |
| `Interrupts` | does each request reach its routine, whatever fails? | lines 0, 7, 8, 14, 15: the top line, both lines of spurious interrupts, the first of the slave, the drives | holds, 8 000 states |
| `Spinlock` | is the lock consistent under interrupts? | handlers two deep (`MaxLevel`), each level holding twice (`MaxHold`) | holds, 28 264 states |
| `SpinlockAsked` | may a handler ask whether the lock is locked? | handlers one deep | violated: the assertion of `spinlock.c:28` |
| `Cmos` | is each field of the date fresh and converted? | the hour changes in the afternoon, three moments; 12 or 24 hours, BCD and binary | holds, 2 492 states |
| `CmosTorn` | is the date one moment? | a year's end | violated: the retry loop never repeats |
| `CmosUnits` | is the date in a calendar's units? | noon of one day in 2018 on a 12-hour clock | violated: hour 0, and the year 2118 |
| `Vga` | does `vga.c` implement a terminal? | 4 columns, 3 rows, tabulator 2, one letter; a cursor register of 4 values, so that both halves count | holds, 775 247 states |
| `Numbers` | which numbers are printed right? | 11 bits, three digits in base 16 and four in base 10 | holds, 49 748 states |
| `NumbersAsked` | are all? | the same | violated: 10 is printed as 0 |
| `Logger` | does each output get each line? | all levels, all sets of outputs, seven formats | holds, 23 728 states |
| `Ata` | does `ata.c` implement a disk, and does it end? | sectors of two words, addresses of four bits, of which callers use 5 and, with a bit too many, 10; four machines: two disks, a disk behind a CD drive, a CD drive alone (the Makefile's qemu), a floating bus; disks that fail at any command, IDENTIFY included | holds, 596 416 states |

The four violations are listed in `PROJECT.json` under `findings`, with the line of the code or comment
each contradicts; the one of `CmosUnits` shows two errors, the hour and the year, in the same date.

Why the bounds are enough. *Pmm*: the code treats all bytes alike; four give a full byte, a byte the
image ends in, free bytes, and both orders of hint and free byte; the theorems hold for every size.
*Interrupts*: per controller one needs a line of high and of low priority and the spurious line.
*Spinlock*: a third level repeats what the second does to the first, as each leaves the lock as it
found it. *Vga*: three rows scroll what was scrolled before, four columns have two tabulator stops; the
theorems hold for every size. *Numbers*: 11 bits include 10, 16, numbers with a leading 10, and the
least integer. *Logger*: both outputs and formats with none to four arguments of the message. *Ata*: two words
tell a torn or shifted sector from a whole one, two values of a register tell the four registers of an
address apart, and a second disk on the bus and a second address show a write that goes astray; a call
leaves the driver nothing but the registers and the drives' states, so that pairs of calls show all. *Cmos*: an update can fall between any two reads of either fill; two updates are possible.

### Fairness

- *Pmm*: a call that was entered goes on (`WF` of its loops): one processor, and interrupt handlers
  return. Callers need not call.
- *Interrupts*: the boot, the handler and the acknowledgement of a request go on. Nothing obliges a
  device to interrupt or the kernel to fail. `RequestsAnswered` assumes of a line that lines of
  higher priority do not stay busy for ever: the controllers' priorities allow that starvation.
- *Spinlock*: strong fairness of the steps of each level, and `LockReturns` is about a level that
  runs again and again. It excludes an interrupt storm in which the suspended code never executes
  one instruction.
- *Cmos*: the driver goes on and an update that has begun ends. The stretch of time is finite.
- *Vga*: a call of `vga_put` that was entered goes on, and a panic prints all of its message: it has
  turned interrupts off. Nobody need write.
- *Logger*: printing goes on and the port sends what it was given (`Transmit`); that is the hardware's
  part of the bargain, and the driver has no timeout for a port that does not.
- *Ata*: the driver goes on, and a drive that has taken a command comes to its end, well or not: the
  driver has no timeout for one that does not. Nobody need call. A floating bus is the exception that
  `CallsEnd` names.

Deadlock is checked in every run. The type invariants of `Pmm`, `Interrupts`, `Spinlock` and `Vga` are
parts of their `IInv`, which the runs check. Those of `Logger`, `Cmos`, `Ata` and `Numbers` are parts of the
`IInv` of their proof modules; TLC has confirmed these on the same instances, but they are proved and
so have no run of their own.

## Proofs

Every safety property that a run checks is a theorem for all values of the constants, and so are
the three refinements: `Pmm` implements `FrameAllocator`, `Vga` implements
`Terminal`, `Ata` implements `Disk`. The argument is the same in each module: an inductive invariant
`IInv`, one lemma per action (or group of like actions) that it is preserved, and the properties as
consequences. What the theorems assume are the named assumptions of the modules and, in two
places given below, a hypothesis in the statement.

### Memory manager

`PmmProofs` proves, for every bitmap size and every end of the kernel image that leaves the two pages
`pmm_init` reserves after it and a frame beyond (`PmmAssumption`), that every behaviour of `Pmm`

- keeps the types (`TypeCorrect`),
- never reads outside the bitmap (`ScansStayInBounds`),
- keeps the bitmap exact (`BitmapIsExact`) and the image reserved (`ImageIsReserved`),
- scans without gaps (`ScansCover`),
- is a behaviour of `FrameAllocator` (`Implementation`).

They rest on one inductive invariant, `IInv` (`InvariantHolds`), also checked by the run `Pmm`. Its
parts beyond the properties themselves:

- `MarkedSoFar`: in the loop of `pmm_init` the marked frames are those below `i`, so at its end
  exactly `Reserved` is marked.
- `ScanCovers`: what a scan has passed is full. At the end of the second scan every byte is, and so
  `NULL_FRAME` is the truth (`ScanFailMeansFull`).
- `HintLeavesRoom`: a hint that is no byte index occurs only while some byte is not full. That is why
  the second scan after boot, whose bound is an address, stops before the end of the bitmap: it is
  safe, but only because `pmm_init` leaves a frame free.

Arithmetic is in the lemmas `AddrOfBit`, `BitOfAddr`, `RangeEndFacts`; what setting or clearing one
bit does to all frames in `SetOneBit` and `ClearOneBit`; there is one lemma per action.

### Terminal

`VgaProofs` proves for every width, height and tabulator stop (`SizeAssumption`: the stop divides the
width, the address of a cell fits into the two cursor registers) that every behaviour of `Vga`

- keeps the cursor of the hardware where the next character goes, on the screen, between any two
  calls and after any panic (`CursorIsFollowed`),
- never stores behind the screen, except a panic's first character right behind it (`StaysOnScreen`),
- is a behaviour of `Terminal` (`Implementation`).

The first two follow from `IInv` (`InvariantHolds`), checked by the run `Vga`. It says at each step of
`vga_put` how far the cursor may be outside (`InBounds`: a tabulation or character ends at the margin
at most, and on the last row but one step), and how far the four port writes have come (`Registers`).
That the quotient and remainder of an address by the register size give the address back, and that a
tabulation stays within a width that the stop divides, are lemmas.

The refinement needs two more invariants (`ScreenInvariant`): what `vga_scroll` has cleared of the last
line is blank (`Cleaned`), and calls do not nest, nor has anything been coloured before `vga_init`
(`Quiet`). The text the mapping shows is written as a function of the step, of the row the call will
end in, of the memory and of the loop index (`LinesOf`). While no scroll is due it is the memory; when one
is due it is the memory one line further above an empty line (`LinesAbove`, `LinesBelow`). The first
step of `vga_put` is a step of the terminal because a character stored in the memory is one stored in
its row and column, which needs that a row and a column name a cell and no two name the same
(`OnePlace`, `GridStore`). All later steps show nothing: `memcpy` copies each cell before it is overwritten,
so that every cell shows the same before and after (`ScrollRests`).

### Interrupts

`InterruptsProofs` proves all invariants and the three action properties of the run `Interrupts` for
every set of lines that devices may raise, but that of the cascade, to which none is wired
(`SourcesAssumption`). `IInv` is checked by the run. Its parts: how far the boot has
come decides what is loaded and when IF may be set (`BootOrder`); after each of the ten port writes
of `irq_remap` the controllers have understood just the bytes written (`RemapSoFar`); a frame of the
stack is one of those the code pushes, at most one of them a handler's (`FrameShape`); and what the
controllers have in service is what the handler still has to end, step by step of its two ends of
interrupt, spurious interrupts of either controller included (`ServiceMatches`).

### Spinlock

`SpinlockProofs` proves the four properties of the run `Spinlock` for handlers nested to any depth
and any number of acquisitions (`SpinlockAssumption`). `depth` is one counter for all levels, so
`DepthCountsHolders` speaks of a sum over the levels, with what a suspended level has loaded but not yet stored;
the first part of the module has what is needed of such sums. It proves the existence of the sum by a least counterexample,
for the library's induction theorems are out of the provers' reach. The other parts of `IInv`: a
suspended `++depth` has loaded what is still true when it goes on, as the handler leaves the counter as it
found it (`LoadedExact`); who clears the lock holds nothing any more (`ClearsUnheld`); a lock is locked for a
reason (`LockedForAReason`). The theorem `AskingBelowIsSafe` is the complement of the run
`SpinlockAsked`: if only the kernel's code, and no handler, asks whether the lock is locked
(hypothesis `Askers \subseteq {0}`), the assertion of `spinlock.c:28` holds.

### Logger

`LoggerProofs` proves `LoggedInFull` (`AllIsLogged`) and `ReadErrorStops` (`ReadErrorsStop`); the module
has no constants and the run covers all its states, so that the proof adds the reason. `IInv` says that what is being printed is the site of the cause (`SiteOfCause`), that its parts
come in order, header before message, serial port before screen (`PartsOrdered`), that the argument
list is at the argument of the item in turn (`ItemShape`), and that what each output has got is exactly what
comes before that item (`TextSoFar`). For the report of a read error it adds that some output still has
to get its message, so that the call cannot be over (`ReadErrorPending`), and what the outputs had got when
it broke off (`BreaksOff`).

### Clock

`CmosProofs` proves `FieldsFresh` for every clock all of whose moments and formats are `Supported`:
years from 2000 to `CURRENT_YEAR`, which the source fixes at 2017, and no noon or midnight in a
12-hour format. In the other cases the code errs, as `CmosUnits` shows. The property is about single
fields; that they do not make one moment is what `CmosTorn` shows. `IInv`: every register read was the clock's at a moment
since the call began, every field filled is from such a read, and the result is converted from them
(`ReadSinceStart`, `FilledSinceStart`, `ResultSinceStart`).

### ATA

`AtaProofs` proves for every size of sectors, registers and addresses and every set of machines
(`AtaAssumption`) that no request is left behind (`RequestsTakenBack`), that the boot takes the
master of a bus for a disk exactly if it is one and has not failed to identify itself (`MastersAreFound`), that every command but the flush is given to an idle drive
(`CommandsAreTaken`), and that every behaviour of `Ata` is one of `Disk` (`Implementation`). The
heart of `IInv` is `DrivesFollow`: two tables give, for each access of each routine, in which stages
the addressed drive may be (`Stages`, `Allowed`), and all other drives are idle. `Addressed` says which
drive that is and what its registers hold, `WordsMove` how many words are still to move and which,
`OutcomeKnown` what has become of the disk. The four bytes of an address give it back by
`DivisionUnique`, `DividedTwice` and `AddressParts`, and the sector addressed is the caller's
(`SectorAddressed`).

### Numbers

`NumbersProofs` proves `StackBounded` (`RecursionBounded`) and `WrongOnlyAtBase` (`TextIsTheNumber`) for integers
of any width (`BitsAssumption`), the 32 bits of the kernel included, which no run can enumerate. Powers and
the value of a sequence of digits are recursive functions in `Numbers`. The provers do not know that such
functions exist: `PartExists` and `PartUnique` show it for both by a least counterexample, and
`PowerUnfolds` and `ValueOfMore` give their equations. `DividedTwice` says that dividing by the base k times is
dividing by its k-th power, so that every call is for a leading part of the number (`CallsLead`). `IInv` adds
`DigitsLead`: the recursion turned back at the first leading part not greater than the base, and the
digits printed are worth the leading part that the next return adds its digit to, less a power of the
base if the recursion turned back at the base itself. That this is the only leading part that can be the
base, and one of the first `Bits \div 3` as `LeadingPartIsBase` has it, is `BaseIsLast`.

### Only model-checked

The liveness properties of every module: TLAPS does not handle them, nor `ENABLED`. Nothing else.

## Plan

What the code has to model is modelled, and every safety property, action property and refinement that
a run checks is proved. Liveness stays with TLC.

`device_add`, `cmos_read` and `cmos_write` are worth a model when something calls them, and so is
`ata_read` when it reads.

## Not modelled, and why

- `device.c`: nothing calls it. `ide_init` builds a device on its stack and drops it (`ata.c:118`).
  How many devices there may be, which decides whether the table of 64 overflows, is not in the code.
- `cmos_read`, `cmos_write`: nothing calls them. They end with `sti` whatever the flag was before;
  which callers would be hurt is again not in the code.
- `ata_read`, `ata_write`: stubs that return a constant.
- `serial_init` has no state of the driver, `serial_read` and `serial_write` have no caller.
- VFS dispatch and SSE set-up have no state; no file system provides callbacks.
- Port I/O instructions are modelled at the devices they reach; the GDT, the multiboot header and the
  build are data.
- The return of `kmain` on a wrong magic number leaves the program: `boot.s` has nothing behind the call.
