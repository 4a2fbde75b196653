--------------------------------- MODULE Pmm ---------------------------------
(***************************************************************************)
(* kernel/src/pmm.c: the physical memory manager, a bitmap with one bit    *)
(* per 4 KiB frame and a hint, pmm_next_frame, where the next scan starts. *)
(*                                                                         *)
(* The loops of pmm_init and pmm_alloc_frame are modelled one iteration    *)
(* per step, so that what the scan reads at each iteration can be stated.  *)
(* A byte of the bitmap is the set of its bits that are 1.                 *)
(*                                                                         *)
(* The hint has two units.  pmm_alloc and pmm_free leave a byte index in   *)
(* it, pmm_init leaves an ADDRESS, which is far above every byte index:    *)
(* the first scan after boot is then empty and the second one runs towards *)
(* a bound beyond the end of the bitmap.                                   *)
(*                                                                         *)
(* The build is the one of the Makefiles (DEBUG = yes): assert() is        *)
(* compiled in and a failed assertion halts the machine.                   *)
(***************************************************************************)
EXTENDS Integers

CONSTANTS
  FRAME_BITMAP_SIZE,   \* bytes in pmm_bitmap (131072 on i386)
  KERNEL_END           \* address of the linker symbol that ends the image

PAGE_SIZE   == 4096
NB_FRAMES   == 8 * FRAME_BITMAP_SIZE
UINTPTR_MAX == PAGE_SIZE * NB_FRAMES - 1
NULL_FRAME  == UINTPTR_MAX                 \* -1u

(* The image and the two pages pmm_init reserves after it leave a frame.   *)
ASSUME PmmAssumption ==
  /\ FRAME_BITMAP_SIZE \in Nat \ {0}
  /\ KERNEL_END \in Nat
  /\ KERNEL_END + 2 * PAGE_SIZE =< UINTPTR_MAX

Indices  == 0 .. (FRAME_BITMAP_SIZE - 1)
Bits     == 0 .. 7                         \* the byte 0xFF
Frames   == {PAGE_SIZE * n : n \in 0 .. (NB_FRAMES - 1)}

IS_PAGE_ALIGNED(a) == a % PAGE_SIZE = 0
FrameNdx(a)        == (a \div PAGE_SIZE) \div 8
FrameBit_MsbFirst(a) == 7 - ((a \div PAGE_SIZE) % 8)   \* fault: the other bit order
FrameBit(a)        == (a \div PAGE_SIZE) % 8
FrameAddr(i, j)    == PAGE_SIZE * (i * 8 + j)

(* The last page pmm_init reserves: the one after the page of KERNEL_END.  *)
RangeEnd == (KERNEL_END \div PAGE_SIZE) * PAGE_SIZE + PAGE_SIZE
Reserved == {f \in Frames : f =< RangeEnd}

VARIABLES
  pmm_bitmap,
  pmm_next_frame,
  pc,          \* where the kernel is: between calls ("idle") or in a loop
  i,           \* the loop variable of the running loop: an address in
               \* pmm_mark_range_as_allocated, a byte index in pmm_alloc_frame
  final,       \* the second argument of pmm_alloc_frame
  reply,       \* what the last pmm_alloc returned
  held         \* the frames handed out and not given back (history)

vars == <<pmm_bitmap, pmm_next_frame, pc, i, final, reply, held>>

(* The inner loop of pmm_alloc_frame: it stops at the first clear bit, and *)
(* at bit 7 without looking at it.                                         *)
FirstClear_Short(byte) ==                  \* fault: stops one bit early
  CHOOSE j \in Bits : /\ j = 6 \/ j \notin byte
                      /\ \A k \in 0 .. (j - 1) : k \in byte

FirstClear(byte) ==
  CHOOSE j \in Bits : /\ j = 7 \/ j \notin byte
                      /\ \A k \in 0 .. (j - 1) : k \in byte

pmm_is_frame_allocated(f) == FrameBit(f) \in pmm_bitmap[FrameNdx(f)]

Init ==
  /\ pmm_bitmap = [b \in Indices |-> {}]
  /\ pmm_next_frame = 0
  /\ pc = "boot"
  /\ i = 0
  /\ final = 0
  /\ reply = NULL_FRAME
  /\ held = {}

(***************************************************************************)
(* pmm_init and the loop of pmm_mark_range_as_allocated.                   *)
(***************************************************************************)
pmm_init ==
  /\ pc = "boot"
  /\ pmm_next_frame' = 0
  /\ pmm_bitmap' = [b \in Indices |-> {}]
  /\ i' = 0
  /\ pc' = "mark"
  /\ UNCHANGED <<final, reply, held>>

MarkThenMove(stride) ==
  /\ pc = "mark"
  /\ i =< RangeEnd
  /\ pmm_bitmap' = [pmm_bitmap EXCEPT ![FrameNdx(i)] = @ \union {FrameBit(i)}]
  /\ i' = (i + stride) % (UINTPTR_MAX + 1)
  /\ UNCHANGED <<pmm_next_frame, pc, final, reply, held>>

MarkNext_Stride == MarkThenMove(2 * PAGE_SIZE)   \* fault: every other page
MarkNext == MarkThenMove(PAGE_SIZE)

MarkDone ==
  /\ pc = "mark"
  /\ i > RangeEnd
  /\ pmm_next_frame' = RangeEnd
  /\ pc' = "idle"
  /\ UNCHANGED <<pmm_bitmap, i, final, reply, held>>

(***************************************************************************)
(* pmm_alloc: a scan from the hint to the end and, if it finds nothing, a  *)
(* second one from 0 to the hint.                                          *)
(***************************************************************************)
Scanning == pc \in {"scan", "rescan"}

pmm_alloc ==
  /\ pc = "idle"
  /\ i' = pmm_next_frame
  /\ final' = FRAME_BITMAP_SIZE
  /\ pc' = "scan"
  /\ UNCHANGED <<pmm_bitmap, pmm_next_frame, reply, held>>

SkipBytes(n) ==
  /\ Scanning
  /\ i < final
  /\ pmm_bitmap[i] = Bits
  /\ i' = i + n
  /\ UNCHANGED <<pmm_bitmap, pmm_next_frame, pc, final, reply, held>>

ScanSkip_Stuck == SkipBytes(0)                   \* fault: ++i is missing
ScanSkip == SkipBytes(1)

TakeLeaving(hint) ==
  /\ Scanning
  /\ i < final
  /\ pmm_bitmap[i] # Bits
  /\ LET j == FirstClear(pmm_bitmap[i])
     IN  /\ pmm_bitmap' = [pmm_bitmap EXCEPT ![i] = @ \union {j}]
         /\ reply' = FrameAddr(i, j)
         /\ held' = held \union {FrameAddr(i, j)}
  /\ pmm_next_frame' = hint
  /\ pc' = "idle"
  /\ UNCHANGED <<i, final>>

ScanTake_Address == TakeLeaving(FrameAddr(i, 0)) \* fault: an address as hint
ScanTake_Stale == TakeLeaving(pmm_next_frame)    \* fault: the hint is not moved
ScanTake == TakeLeaving(i)

RescanFrom(first) ==
  /\ pc = "scan"
  /\ i >= final
  /\ i' = first
  /\ final' = pmm_next_frame
  /\ pc' = "rescan"
  /\ UNCHANGED <<pmm_bitmap, pmm_next_frame, reply, held>>

ScanAgain_AtHint == RescanFrom(pmm_next_frame)   \* fault: not from byte 0
ScanAgain == RescanFrom(0)

ScanFail ==
  /\ pc = "rescan"
  /\ i >= final
  /\ reply' = NULL_FRAME
  /\ pc' = "idle"
  /\ UNCHANGED <<pmm_bitmap, pmm_next_frame, i, final, held>>

(***************************************************************************)
(* pmm_free.  Callers give back what they hold, give it back twice, and    *)
(* pass on the NULL_FRAME of a refused request; they never free a frame of *)
(* the kernel image.                                                       *)
(***************************************************************************)
pmm_free(f) ==
  /\ pc = "idle"
  /\ IS_PAGE_ALIGNED(f)
  /\ pmm_is_frame_allocated(f)
  /\ pmm_bitmap' = [pmm_bitmap EXCEPT ![FrameNdx(f)] = @ \ {FrameBit(f)}]
  /\ pmm_next_frame' = FrameNdx(f)
  /\ held' = held \ {f}
  /\ UNCHANGED <<pc, i, final, reply>>

(* A failed assert of pmm_free: abort_handler never returns.               *)
FreeAborts(f) ==
  /\ pc = "idle"
  /\ ~IS_PAGE_ALIGNED(f) \/ ~pmm_is_frame_allocated(f)
  /\ pc' = "halted"
  /\ UNCHANGED <<pmm_bitmap, pmm_next_frame, i, final, reply, held>>

Halted ==
  /\ pc = "halted"
  /\ UNCHANGED vars

Work == pmm_init \/ MarkNext \/ MarkDone \/ ScanSkip \/ ScanTake \/ ScanAgain \/ ScanFail

Next ==
  \/ Work
  \/ pmm_alloc
  \/ \E f \in (Frames \ Reserved) \union {NULL_FRAME} : pmm_free(f) \/ FreeAborts(f)
  \/ Halted

(* A call that was entered is executed to its end: nothing preempts it for *)
(* ever.  Callers need not call.                                           *)
Spec == Init /\ [][Next]_vars
FairSpec == Spec /\ WF_vars(Work)

-------------------------------------------------------------------------------
(***************************************************************************)
(* Properties.                                                             *)
(***************************************************************************)
Ready == pc \notin {"boot", "mark"}          \* pmm_init has returned
Full(b) == pmm_bitmap[b] = Bits

(* Types.  The hint is a byte index or, until the first allocation or free *)
(* after boot, the address that pmm_init left there.                       *)
TypeOK ==
  /\ pmm_bitmap \in [Indices -> SUBSET Bits]
  /\ pmm_next_frame \in Indices \union {RangeEnd}
  /\ pc \in {"boot", "mark", "idle", "scan", "rescan", "halted"}
  /\ i \in Nat
  /\ final \in Indices \union {FRAME_BITMAP_SIZE, RangeEnd}
  /\ reply \in Frames \union {NULL_FRAME}
  /\ held \subseteq Frames

(* pmm_alloc_frame never reads pmm_bitmap beyond its end, although the     *)
(* bound of the second scan may be an address (pmm.c:43, 57, 76).          *)
ScanInBounds == (Scanning /\ i < final) => i \in Indices

(* After pmm_init the bitmap says exactly what is true: a bit is 1 when    *)
(* the frame is the kernel's or is held by a caller, never both, whatever  *)
(* the interleaving of allocations and frees (pmm.c:32, 63, 84).           *)
BitmapExact ==
  Ready => /\ \A f \in Frames : pmm_is_frame_allocated(f) <=> f \in Reserved \union held
           /\ held \intersect Reserved = {}

(* No byte of the kernel image is ever in a frame that a caller holds: the *)
(* page rounding of pmm_init and the inclusive bound of its loop cover the *)
(* whole image (pmm.c:39, 51).                                             *)
ImageReserved == \A f \in held : f >= KERNEL_END

(* The bytes a scan has passed are full, and when the second scan starts   *)
(* those from the hint to the end are: the two scans meet with no byte     *)
(* left out between them (pmm.c:73, 76).                                   *)
ScanCovers ==
  /\ pc = "scan" =>
       /\ final = FRAME_BITMAP_SIZE
       /\ \A b \in Indices : (pmm_next_frame =< b /\ b < i) => Full(b)
  /\ pc = "rescan" =>
       /\ final = pmm_next_frame
       /\ \A b \in Indices : (b < i \/ pmm_next_frame =< b) => Full(b)

(* The inductive invariant: besides the parts above, how far pmm_init has  *)
(* come, and that a hint which is not a byte index means that a frame is   *)
(* free, so that the scan stops before it reaches the end of the bitmap.   *)
MarkedSoFar ==
  /\ pc \in {"boot", "mark"} => held = {}
  /\ pc = "mark" => /\ i \in Frames
                    /\ i =< RangeEnd + PAGE_SIZE
                    /\ \A f \in Frames : pmm_is_frame_allocated(f) <=> f < i

HintLeavesRoom ==
  (Ready /\ pmm_next_frame \notin Indices) => \E b \in Indices : ~Full(b)

IInv == TypeOK /\ MarkedSoFar /\ BitmapExact /\ ScanCovers /\ HintLeavesRoom

(* What a caller can tell of pc.                                           *)
Phase == [boot |-> "boot", mark |-> "boot", idle |-> "up", scan |-> "busy",
          rescan |-> "busy", halted |-> "halted"][pc]

(* pmm.c keeps the promises of an allocator: see module FrameAllocator.    *)
Allocator == INSTANCE FrameAllocator WITH
  Frames   <- Frames,
  Reserved <- Reserved,
  NoFrame  <- NULL_FRAME,
  phase    <- Phase,
  held     <- held,
  reply    <- reply

ImplementsAllocator == Allocator!Spec

(* pmm_init and every pmm_alloc return: neither the loop over the frames   *)
(* of the image nor the two scans run for ever (pmm.c:39, 57).             *)
CallsReturn == (pc \notin {"idle", "halted"}) ~> (pc = "idle")
===============================================================================
