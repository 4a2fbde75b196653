------------------------------ MODULE PmmProofs ------------------------------
(***************************************************************************)
(* Theorems about the physical memory manager (module Pmm), for every size *)
(* of the bitmap and every kernel image that PmmAssumption allows.         *)
(***************************************************************************)
EXTENDS Pmm, TLAPS

-------------------------------------------------------------------------------
(* Addresses and bits.                                                     *)

(* FrameAddr and the pair FrameNdx, FrameBit are inverses of each other:   *)
(* pmm_alloc and pmm_free speak of the same bit.                           *)
LEMMA AddrOfBit ==
  ASSUME NEW b \in Indices, NEW j \in Bits
  PROVE  /\ FrameAddr(b, j) \in Frames
         /\ FrameNdx(FrameAddr(b, j)) = b
         /\ FrameBit(FrameAddr(b, j)) = j
<1>1. b \in Nat /\ j \in Nat /\ j < 8 /\ b < FRAME_BITMAP_SIZE
  BY PmmAssumption DEF Indices, Bits
<1>2. (4096 * (b * 8 + j)) \div 4096 = b * 8 + j
  BY <1>1
<1>3. (b * 8 + j) \div 8 = b /\ (b * 8 + j) % 8 = j
  BY <1>1
<1>4. b * 8 + j \in 0 .. (8 * FRAME_BITMAP_SIZE - 1)
  BY <1>1, PmmAssumption
<1>5. QED
  BY <1>2, <1>3, <1>4 DEF FrameAddr, FrameNdx, FrameBit, Frames, PAGE_SIZE, NB_FRAMES

LEMMA BitOfAddr ==
  ASSUME NEW f \in Frames
  PROVE  /\ FrameNdx(f) \in Indices
         /\ FrameBit(f) \in Bits
         /\ f = FrameAddr(FrameNdx(f), FrameBit(f))
         /\ IS_PAGE_ALIGNED(f)
<1>1. PICK n \in 0 .. (NB_FRAMES - 1) : f = PAGE_SIZE * n
  BY DEF Frames
<1>2. n \in Nat /\ n < 8 * FRAME_BITMAP_SIZE
  BY PmmAssumption DEF NB_FRAMES
<1>3. f \div PAGE_SIZE = n /\ f % PAGE_SIZE = 0
  BY <1>1, <1>2 DEF PAGE_SIZE
<1>4. n \div 8 \in 0 .. (FRAME_BITMAP_SIZE - 1) /\ n % 8 \in 0 .. 7 /\ n = (n \div 8) * 8 + (n % 8)
  BY <1>2, PmmAssumption
<1>5. QED
  BY <1>1, <1>3, <1>4 DEF FrameAddr, FrameNdx, FrameBit, Indices, Bits, IS_PAGE_ALIGNED

(* The range that pmm_init reserves ends at a frame and leaves the next    *)
(* one, and it covers the kernel image.                                    *)
LEMMA RangeEndFacts ==
  /\ RangeEnd \in Frames
  /\ RangeEnd + PAGE_SIZE \in Frames
  /\ KERNEL_END =< RangeEnd
  /\ 0 \in Frames
<1>1. PICK q \in Nat : q = KERNEL_END \div 4096
  BY PmmAssumption
<1>2. RangeEnd = 4096 * (q + 1) /\ KERNEL_END =< RangeEnd /\ 4096 * q =< KERNEL_END
  BY <1>1, PmmAssumption DEF RangeEnd, PAGE_SIZE
<1>3. q + 2 =< 8 * FRAME_BITMAP_SIZE - 1
  BY <1>1, <1>2, PmmAssumption DEF UINTPTR_MAX, NB_FRAMES, PAGE_SIZE
<1>4. q + 1 \in 0 .. (NB_FRAMES - 1) /\ q + 2 \in 0 .. (NB_FRAMES - 1) /\ 0 \in 0 .. (NB_FRAMES - 1)
  BY <1>3, PmmAssumption DEF NB_FRAMES
<1>5. RangeEnd + PAGE_SIZE = PAGE_SIZE * (q + 2) /\ RangeEnd = PAGE_SIZE * (q + 1) /\ 0 = PAGE_SIZE * 0
  BY <1>2 DEF PAGE_SIZE
<1>6. QED
  BY <1>2, <1>4, <1>5 DEF Frames

(* The bit pmm_alloc_frame finds in a byte that is not 0xFF is clear.      *)
LEMMA FirstClearIsClear ==
  ASSUME NEW byte \in SUBSET Bits, byte # Bits
  PROVE  FirstClear(byte) \in Bits \ byte
<1> DEFINE P(j) == (j = 7 \/ j \notin byte) /\ \A k \in 0 .. (j - 1) : k \in byte
<1>1. \E j \in Bits : P(j)
  <2>1. P(0) \/ P(1) \/ P(2) \/ P(3) \/ P(4) \/ P(5) \/ P(6) \/ P(7)
    OBVIOUS
  <2>2. QED
    BY <2>1 DEF Bits
<1>2. FirstClear(byte) \in Bits /\ P(FirstClear(byte))
  BY <1>1 DEF FirstClear
<1>3. CASE FirstClear(byte) = 7
  <2>1. \A k \in 0 .. 6 : k \in byte
    BY <1>2, <1>3
  <2>2. 7 \in byte => \A k \in Bits : k \in byte
    BY <2>1 DEF Bits
  <2>3. 7 \notin byte
    BY <2>2
  <2>4. QED
    BY <1>3, <2>3 DEF Bits
<1>4. CASE FirstClear(byte) # 7
  BY <1>2, <1>4
<1>5. QED
  BY <1>3, <1>4

(* Setting, or clearing, the bit of one frame changes the state of that    *)
(* frame only.                                                             *)
LEMMA SetOneBit ==
  ASSUME NEW bm \in [Indices -> SUBSET Bits], NEW b \in Indices, NEW j \in Bits,
         NEW f \in Frames
  PROVE  LET bm2 == [bm EXCEPT ![b] = @ \union {j}]
         IN  /\ bm2 \in [Indices -> SUBSET Bits]
             /\ FrameBit(f) \in bm2[FrameNdx(f)]
                  <=> FrameBit(f) \in bm[FrameNdx(f)] \/ f = FrameAddr(b, j)
<1>1. FrameNdx(f) \in Indices /\ FrameBit(f) \in Bits /\ f = FrameAddr(FrameNdx(f), FrameBit(f))
  BY BitOfAddr
<1>2. FrameNdx(FrameAddr(b, j)) = b /\ FrameBit(FrameAddr(b, j)) = j
  BY AddrOfBit
<1>3. f = FrameAddr(b, j) <=> FrameNdx(f) = b /\ FrameBit(f) = j
  BY <1>1, <1>2
<1>4. QED
  BY <1>1, <1>3

LEMMA ClearOneBit ==
  ASSUME NEW bm \in [Indices -> SUBSET Bits], NEW g \in Frames, NEW f \in Frames
  PROVE  LET bm2 == [bm EXCEPT ![FrameNdx(g)] = @ \ {FrameBit(g)}]
         IN  /\ bm2 \in [Indices -> SUBSET Bits]
             /\ FrameBit(f) \in bm2[FrameNdx(f)]
                  <=> FrameBit(f) \in bm[FrameNdx(f)] /\ f # g
<1>1. /\ FrameNdx(f) \in Indices /\ FrameBit(f) \in Bits /\ f = FrameAddr(FrameNdx(f), FrameBit(f))
      /\ FrameNdx(g) \in Indices /\ FrameBit(g) \in Bits /\ g = FrameAddr(FrameNdx(g), FrameBit(g))
  BY BitOfAddr
<1>2. f = g <=> FrameNdx(f) = FrameNdx(g) /\ FrameBit(f) = FrameBit(g)
  BY <1>1
<1>3. QED
  BY <1>1, <1>2

-------------------------------------------------------------------------------
(* The inductive invariant.                                                *)

LEMMA InitIInv == Init => IInv
<1> SUFFICES ASSUME Init PROVE IInv
  OBVIOUS
<1>1. 0 \in Indices /\ FRAME_BITMAP_SIZE \in Nat
  BY PmmAssumption DEF Indices
<1>2. TypeOK
  BY <1>1 DEF Init, TypeOK
<1>3. MarkedSoFar /\ BitmapExact /\ ScanCovers /\ HintLeavesRoom
  BY DEF Init, MarkedSoFar, BitmapExact, ScanCovers, HintLeavesRoom, Ready
<1>4. QED
  BY <1>2, <1>3 DEF IInv

LEMMA BootIInv == IInv /\ pmm_init => IInv'
<1> SUFFICES ASSUME IInv, pmm_init PROVE IInv'
  OBVIOUS
<1>1. 0 \in Indices /\ 0 \in Frames /\ RangeEnd \in Nat
  BY PmmAssumption, RangeEndFacts DEF Indices, RangeEnd, PAGE_SIZE
<1>2. TypeOK'
  BY <1>1 DEF IInv, TypeOK, pmm_init
<1>3. MarkedSoFar'
  <2>1. ASSUME NEW f \in Frames
        PROVE  ~(pmm_is_frame_allocated(f)') /\ ~(f < 0)
    <3>1. FrameNdx(f) \in Indices
      BY BitOfAddr
    <3>2. f \in Nat
      BY PmmAssumption DEF Frames, PAGE_SIZE, NB_FRAMES
    <3>3. QED
      BY <3>1, <3>2 DEF pmm_init, pmm_is_frame_allocated
  <2>2. QED
    BY <1>1, <2>1 DEF IInv, MarkedSoFar, pmm_init, PAGE_SIZE
<1>4. (BitmapExact /\ ScanCovers /\ HintLeavesRoom)'
  BY DEF pmm_init, BitmapExact, ScanCovers, HintLeavesRoom, Ready
<1>5. QED
  BY <1>2, <1>3, <1>4 DEF IInv

(* i runs over the frames up to the one after RangeEnd, without wrapping.  *)
LEMMA MarkNextIInv == IInv /\ MarkNext => IInv'
<1> SUFFICES ASSUME IInv, MarkNext PROVE IInv'
  OBVIOUS
<1> USE DEF MarkNext, MarkThenMove
<1>1. i \in Frames /\ i =< RangeEnd /\ RangeEnd \in Frames /\ RangeEnd + PAGE_SIZE \in Frames
  BY RangeEndFacts DEF IInv, MarkedSoFar
<1>2. PICK n \in Nat : i = 4096 * n
  BY <1>1 DEF Frames, PAGE_SIZE
<1>3. PICK r \in Nat : RangeEnd = 4096 * r
  BY <1>1 DEF Frames, PAGE_SIZE
<1>4. RangeEnd + 4096 =< UINTPTR_MAX
  BY <1>1, PmmAssumption DEF Frames, UINTPTR_MAX, PAGE_SIZE, NB_FRAMES
<1>5. i + 4096 < UINTPTR_MAX + 1 /\ UINTPTR_MAX + 1 \in Nat \ {0}
  BY <1>1, <1>2, <1>3, <1>4, PmmAssumption DEF UINTPTR_MAX, PAGE_SIZE, NB_FRAMES
<1>6. i' = i + 4096
  BY <1>2, <1>5 DEF PAGE_SIZE
<1>7. i' \in Frames /\ i' =< RangeEnd + PAGE_SIZE
  <2>1. n + 1 \in 0 .. (NB_FRAMES - 1)
    BY <1>2, <1>5, PmmAssumption DEF UINTPTR_MAX, PAGE_SIZE, NB_FRAMES
  <2>2. i' = PAGE_SIZE * (n + 1)
    BY <1>2, <1>6 DEF PAGE_SIZE
  <2>3. QED
    BY <1>1, <1>2, <1>3, <1>6, <2>1, <2>2 DEF Frames, PAGE_SIZE
<1>8. /\ pmm_bitmap' \in [Indices -> SUBSET Bits]
      /\ \A f \in Frames : pmm_is_frame_allocated(f)' <=> pmm_is_frame_allocated(f) \/ f = i
  <2>1. FrameNdx(i) \in Indices /\ FrameBit(i) \in Bits /\ i = FrameAddr(FrameNdx(i), FrameBit(i))
    BY <1>1, BitOfAddr
  <2>2. pmm_bitmap \in [Indices -> SUBSET Bits]
    BY DEF IInv, TypeOK
  <2>3. QED
    BY <1>1, <2>1, <2>2, SetOneBit DEF pmm_is_frame_allocated
<1>9. TypeOK'
  BY <1>2, <1>6, <1>8 DEF IInv, TypeOK
<1>10. MarkedSoFar'
  <2>1. ASSUME NEW f \in Frames
        PROVE  f < i \/ f = i <=> f < i'
    <3>1. PICK m \in Nat : f = 4096 * m
      BY DEF Frames, PAGE_SIZE
    <3>2. QED
      BY <1>2, <1>6, <3>1
  <2>2. QED
    BY <1>7, <1>8, <2>1 DEF IInv, MarkedSoFar
<1>11. (BitmapExact /\ ScanCovers /\ HintLeavesRoom)'
  BY DEF BitmapExact, ScanCovers, HintLeavesRoom, Ready
<1>12. QED
  BY <1>9, <1>10, <1>11 DEF IInv

(* When pmm_init returns, exactly the reserved frames are marked, and the  *)
(* frame after them is still free: the hint may be an address.             *)
LEMMA MarkDoneIInv == IInv /\ MarkDone => IInv'
<1> SUFFICES ASSUME IInv, MarkDone PROVE IInv'
  OBVIOUS
<1> USE DEF MarkDone
<1>1. i \in Frames /\ i > RangeEnd /\ i =< RangeEnd + PAGE_SIZE
  BY DEF IInv, MarkedSoFar
<1>2. \A f \in Frames : pmm_is_frame_allocated(f)' <=> f < i
  BY DEF IInv, MarkedSoFar, pmm_is_frame_allocated
<1>3. \A f \in Frames : f < i <=> f =< RangeEnd
  <2>1. TAKE f \in Frames
  <2>2. PICK m, n, r \in Nat : f = 4096 * m /\ i = 4096 * n /\ RangeEnd = 4096 * r
    BY <1>1, RangeEndFacts DEF Frames, PAGE_SIZE
  <2>3. QED
    BY <1>1, <2>2 DEF PAGE_SIZE
<1>4. TypeOK'
  BY DEF IInv, TypeOK
<1>5. BitmapExact'
  BY <1>2, <1>3 DEF BitmapExact, Reserved, IInv, MarkedSoFar
<1>6. HintLeavesRoom'
  <2> DEFINE g == RangeEnd + PAGE_SIZE
  <2>1. g \in Frames /\ ~(g =< RangeEnd)
    BY RangeEndFacts, PmmAssumption DEF PAGE_SIZE, RangeEnd
  <2>2. FrameNdx(g) \in Indices /\ FrameBit(g) \in Bits
    BY <2>1, BitOfAddr
  <2>3. ~(pmm_is_frame_allocated(g)')
    BY <1>2, <1>3, <2>1
  <2>4. QED
    BY <2>2, <2>3 DEF HintLeavesRoom, pmm_is_frame_allocated, Full
<1>7. (MarkedSoFar /\ ScanCovers)'
  BY DEF MarkedSoFar, ScanCovers
<1>8. QED
  BY <1>4, <1>5, <1>6, <1>7 DEF IInv

LEMMA AllocIInv == IInv /\ pmm_alloc => IInv'
<1> SUFFICES ASSUME IInv, pmm_alloc PROVE IInv'
  OBVIOUS
<1> USE DEF pmm_alloc
<1>1. Indices \subseteq Nat /\ RangeEnd \in Nat
  BY PmmAssumption DEF Indices, RangeEnd, PAGE_SIZE
<1>2. TypeOK'
  BY <1>1 DEF IInv, TypeOK
<1>3. MarkedSoFar'
  BY DEF MarkedSoFar
<1>4. BitmapExact'
  BY DEF IInv, BitmapExact, Ready, pmm_is_frame_allocated
<1>5. ScanCovers'
  BY <1>1 DEF IInv, TypeOK, ScanCovers
<1>6. HintLeavesRoom'
  BY DEF IInv, HintLeavesRoom, Ready, Full
<1>7. QED
  BY <1>2, <1>3, <1>4, <1>5, <1>6 DEF IInv

LEMMA ScanSkipIInv == IInv /\ ScanSkip => IInv'
<1> SUFFICES ASSUME IInv, ScanSkip PROVE IInv'
  OBVIOUS
<1> USE DEF ScanSkip, SkipBytes, Scanning
<1>1. Indices \subseteq Nat
  BY PmmAssumption DEF Indices
<1>2. i \in Nat /\ i' = i + 1
  BY DEF IInv, TypeOK
<1>3. TypeOK'
  BY <1>2 DEF IInv, TypeOK
<1>4. MarkedSoFar'
  BY DEF MarkedSoFar
<1>5. BitmapExact'
  BY DEF IInv, BitmapExact, Ready, pmm_is_frame_allocated
<1>6. ScanCovers'
  <2>1. Full(i)
    BY DEF Full
  <2>2. \A b \in Indices : b < i + 1 => b < i \/ b = i
    BY <1>1, <1>2
  <2>3. QED
    BY <1>2, <2>1, <2>2 DEF IInv, ScanCovers, Full
<1>7. HintLeavesRoom'
  BY DEF IInv, HintLeavesRoom, Ready, Full
<1>8. QED
  BY <1>3, <1>4, <1>5, <1>6, <1>7 DEF IInv

(* What the scan reads is in the bitmap.  The second scan may run towards  *)
(* an address; then some byte is not full, and as every byte before i is,  *)
(* i has not passed it.                                                    *)
LEMMA IInvScanInBounds == IInv => ScanInBounds
<1> SUFFICES ASSUME IInv, Scanning, i < final PROVE i \in Indices
  BY DEF ScanInBounds
<1>1. i \in Nat /\ FRAME_BITMAP_SIZE \in Nat
  BY PmmAssumption DEF IInv, TypeOK
<1>2. CASE pc = "scan"
  BY <1>1, <1>2 DEF IInv, ScanCovers, Indices
<1>3. CASE pc = "rescan"
  <2>1. final = pmm_next_frame /\ \A b \in Indices : b < i => Full(b)
    BY <1>3 DEF IInv, ScanCovers
  <2>2. CASE pmm_next_frame \in Indices
    BY <1>1, <2>1, <2>2 DEF Indices
  <2>3. CASE pmm_next_frame \notin Indices
    <3>1. PICK b \in Indices : ~Full(b)
      BY <1>3, <2>3 DEF IInv, HintLeavesRoom, Ready
    <3>2. ~(b < i)
      BY <2>1, <3>1
    <3>3. QED
      BY <1>1, <3>2 DEF Indices
  <2>4. QED
    BY <2>2, <2>3
<1>4. QED
  BY <1>2, <1>3 DEF Scanning

(* The frame pmm_alloc_frame returns was free: neither the kernel's nor    *)
(* held.                                                                   *)
LEMMA ScanTakeFrame ==
  ASSUME IInv, ScanTake
  PROVE  LET j == FirstClear(pmm_bitmap[i])
         IN  /\ i \in Indices
             /\ j \in Bits
             /\ FrameAddr(i, j) \in Frames
             /\ FrameAddr(i, j) \notin Reserved \union held
<1> DEFINE j == FirstClear(pmm_bitmap[i])
<1>1. i \in Indices
  BY IInvScanInBounds DEF ScanInBounds, ScanTake, TakeLeaving
<1>2. j \in Bits \ pmm_bitmap[i]
  BY <1>1, FirstClearIsClear DEF IInv, TypeOK, ScanTake, TakeLeaving
<1>3. /\ FrameAddr(i, j) \in Frames
      /\ FrameNdx(FrameAddr(i, j)) = i
      /\ FrameBit(FrameAddr(i, j)) = j
  BY <1>1, <1>2, AddrOfBit
<1>4. ~pmm_is_frame_allocated(FrameAddr(i, j))
  BY <1>2, <1>3 DEF pmm_is_frame_allocated
<1>5. QED
  BY <1>1, <1>2, <1>3, <1>4 DEF IInv, BitmapExact, Ready, ScanTake, TakeLeaving, Scanning

LEMMA ScanTakeIInv == IInv /\ ScanTake => IInv'
<1> SUFFICES ASSUME IInv, ScanTake PROVE IInv'
  OBVIOUS
<1> DEFINE j == FirstClear(pmm_bitmap[i])
           g == FrameAddr(i, j)
<1>1. i \in Indices /\ j \in Bits /\ g \in Frames /\ g \notin Reserved \union held
  BY ScanTakeFrame
<1>2. /\ pmm_bitmap' = [pmm_bitmap EXCEPT ![i] = @ \union {j}]
      /\ reply' = g
      /\ held' = held \union {g}
      /\ pmm_next_frame' = i
      /\ pc' = "idle"
      /\ pc \in {"scan", "rescan"}
      /\ UNCHANGED <<i, final>>
  BY DEF ScanTake, TakeLeaving, Scanning
<1> HIDE DEF j, g
<1>3. /\ pmm_bitmap' \in [Indices -> SUBSET Bits]
      /\ \A f \in Frames : pmm_is_frame_allocated(f)' <=> pmm_is_frame_allocated(f) \/ f = g
  BY <1>1, <1>2, SetOneBit DEF IInv, TypeOK, pmm_is_frame_allocated, g
<1>4. TypeOK'
  BY <1>1, <1>2, <1>3 DEF IInv, TypeOK
<1>5. MarkedSoFar' /\ ScanCovers'
  BY <1>2 DEF MarkedSoFar, ScanCovers
<1>6. BitmapExact'
  BY <1>1, <1>2, <1>3 DEF IInv, BitmapExact, Ready
<1>7. HintLeavesRoom'
  BY <1>1, <1>2 DEF HintLeavesRoom
<1>8. QED
  BY <1>4, <1>5, <1>6, <1>7 DEF IInv

LEMMA ScanAgainIInv == IInv /\ ScanAgain => IInv'
<1> SUFFICES ASSUME IInv, ScanAgain PROVE IInv'
  OBVIOUS
<1> USE DEF ScanAgain, RescanFrom
<1>1. FRAME_BITMAP_SIZE \in Nat /\ i \in Nat
  BY PmmAssumption DEF IInv, TypeOK
<1>2. TypeOK'
  BY DEF IInv, TypeOK
<1>3. MarkedSoFar'
  BY DEF MarkedSoFar
<1>4. BitmapExact'
  BY DEF IInv, BitmapExact, Ready, pmm_is_frame_allocated
<1>5. ScanCovers'
  <2>1. ASSUME NEW b \in Indices PROVE b < i /\ ~(b < 0)
    BY <1>1 DEF IInv, ScanCovers, Indices
  <2>2. QED
    BY <2>1 DEF IInv, ScanCovers, Full
<1>6. HintLeavesRoom'
  BY DEF IInv, HintLeavesRoom, Ready, Full
<1>7. QED
  BY <1>2, <1>3, <1>4, <1>5, <1>6 DEF IInv

LEMMA ScanFailIInv == IInv /\ ScanFail => IInv'
<1> SUFFICES ASSUME IInv, ScanFail PROVE IInv'
  OBVIOUS
<1> USE DEF ScanFail
<1>1. TypeOK'
  BY DEF IInv, TypeOK
<1>2. MarkedSoFar' /\ ScanCovers'
  BY DEF MarkedSoFar, ScanCovers
<1>3. BitmapExact'
  BY DEF IInv, BitmapExact, Ready, pmm_is_frame_allocated
<1>4. HintLeavesRoom'
  BY DEF IInv, HintLeavesRoom, Ready, Full
<1>5. QED
  BY <1>1, <1>2, <1>3, <1>4 DEF IInv

(* A request is refused only when no frame is left: the two scans together *)
(* have seen every byte of the bitmap, and every one was full.             *)
LEMMA ScanFailMeansFull ==
  ASSUME IInv, ScanFail
  PROVE  Frames \subseteq Reserved \union held
<1>1. final = pmm_next_frame /\ i >= final /\ pc = "rescan"
  BY DEF IInv, ScanCovers, ScanFail
<1>2. i \in Nat /\ pmm_next_frame \in Nat /\ Indices \subseteq Nat
  BY PmmAssumption DEF IInv, TypeOK, Indices, RangeEnd, PAGE_SIZE
<1>3. \A b \in Indices : b < i \/ pmm_next_frame =< b
  BY <1>1, <1>2
<1>4. \A b \in Indices : Full(b)
  BY <1>1, <1>3 DEF IInv, ScanCovers
<1>5. ASSUME NEW f \in Frames PROVE f \in Reserved \union held
  <2>1. FrameNdx(f) \in Indices /\ FrameBit(f) \in Bits
    BY BitOfAddr
  <2>2. pmm_is_frame_allocated(f)
    BY <1>4, <2>1 DEF Full, pmm_is_frame_allocated
  <2>3. QED
    BY <1>1, <2>2 DEF IInv, BitmapExact, Ready
<1>6. QED
  BY <1>5

(* NULL_FRAME, -1u, is the last address and no page starts there: pmm_free *)
(* never takes it for a frame.                                             *)
LEMMA NullFrameIsNoFrame == ~IS_PAGE_ALIGNED(NULL_FRAME) /\ NULL_FRAME \notin Frames
<1>1. NULL_FRAME = 4096 * (8 * FRAME_BITMAP_SIZE) - 1 /\ 8 * FRAME_BITMAP_SIZE \in Nat \ {0}
  BY PmmAssumption DEF NULL_FRAME, UINTPTR_MAX, NB_FRAMES, PAGE_SIZE
<1>2. NULL_FRAME % 4096 = 4095
  BY <1>1
<1>3. ~IS_PAGE_ALIGNED(NULL_FRAME)
  BY <1>2 DEF IS_PAGE_ALIGNED, PAGE_SIZE
<1>4. QED
  BY <1>3, BitOfAddr

(* What pmm_free lets through is a frame that its caller holds.            *)
LEMMA FreeIsHeld ==
  ASSUME IInv, NEW f \in (Frames \ Reserved) \union {NULL_FRAME}, pmm_free(f)
  PROVE  f \in Frames /\ f \in held
<1>1. f \in Frames \ Reserved
  BY NullFrameIsNoFrame DEF pmm_free
<1>2. QED
  BY <1>1 DEF IInv, BitmapExact, Ready, pmm_free

LEMMA FreeIInv ==
  ASSUME IInv, NEW f \in (Frames \ Reserved) \union {NULL_FRAME}, pmm_free(f)
  PROVE  IInv'
<1> USE DEF pmm_free
<1>1. f \in Frames /\ f \in held /\ FrameNdx(f) \in Indices
  BY FreeIsHeld, BitOfAddr
<1>2. /\ pmm_bitmap' \in [Indices -> SUBSET Bits]
      /\ \A g \in Frames : pmm_is_frame_allocated(g)' <=> pmm_is_frame_allocated(g) /\ g # f
  BY <1>1, ClearOneBit DEF IInv, TypeOK, pmm_is_frame_allocated
<1>3. TypeOK'
  BY <1>1, <1>2 DEF IInv, TypeOK
<1>4. MarkedSoFar' /\ ScanCovers'
  BY DEF MarkedSoFar, ScanCovers
<1>5. BitmapExact'
  BY <1>1, <1>2 DEF IInv, BitmapExact, Ready
<1>6. HintLeavesRoom'
  BY <1>1 DEF HintLeavesRoom
<1>7. QED
  BY <1>3, <1>4, <1>5, <1>6 DEF IInv

LEMMA FreeAbortsIInv ==
  ASSUME IInv, NEW f, FreeAborts(f)
  PROVE  IInv'
<1> USE DEF FreeAborts
<1>1. TypeOK'
  BY DEF IInv, TypeOK
<1>2. MarkedSoFar' /\ ScanCovers'
  BY DEF MarkedSoFar, ScanCovers
<1>3. BitmapExact'
  BY DEF IInv, BitmapExact, Ready, pmm_is_frame_allocated
<1>4. HintLeavesRoom'
  BY DEF IInv, HintLeavesRoom, Ready, Full
<1>5. QED
  BY <1>1, <1>2, <1>3, <1>4 DEF IInv

LEMMA StutterIInv == IInv /\ UNCHANGED vars => IInv'
BY DEF vars, IInv, TypeOK, MarkedSoFar, BitmapExact, ScanCovers, HintLeavesRoom, Ready, Full,
       pmm_is_frame_allocated

LEMMA NextIInv == IInv /\ [Next]_vars => IInv'
<1> SUFFICES ASSUME IInv, [Next]_vars PROVE IInv'
  OBVIOUS
<1>1. CASE Work
  BY <1>1, BootIInv, MarkNextIInv, MarkDoneIInv, ScanSkipIInv, ScanTakeIInv, ScanAgainIInv,
     ScanFailIInv DEF Work
<1>2. CASE pmm_alloc
  BY <1>2, AllocIInv
<1>3. CASE \E f \in (Frames \ Reserved) \union {NULL_FRAME} : pmm_free(f) \/ FreeAborts(f)
  BY <1>3, FreeIInv, FreeAbortsIInv
<1>4. CASE UNCHANGED vars
  BY <1>4, StutterIInv
<1>5. CASE Halted
  BY <1>5, StutterIInv DEF Halted
<1>6. QED
  BY <1>1, <1>2, <1>3, <1>4, <1>5 DEF Next

-------------------------------------------------------------------------------
(* What holds of every behaviour.                                          *)

(* The inductive invariant holds of every execution of pmm.c.              *)
THEOREM InvariantHolds == Spec => []IInv
<1>1. QED
  BY InitIInv, NextIInv, PTL DEF Spec

(* The hint is a byte index or the address that pmm_init leaves, and every *)
(* variable of pmm.c has its type (pmm.c:19-20).                           *)
THEOREM TypeCorrect == Spec => []TypeOK
<1>1. IInv => TypeOK
  BY DEF IInv
<1>2. QED
  BY <1>1, InvariantHolds, PTL

(* No scan reads beyond the bitmap, although pmm_init leaves an address as *)
(* the bound of the second scan (pmm.c:43, 57, 76).                        *)
THEOREM ScansStayInBounds == Spec => []ScanInBounds
<1>1. QED
  BY IInvScanInBounds, InvariantHolds, PTL

(* The bitmap agrees with who holds what (pmm.c:32, 63, 84).               *)
THEOREM BitmapIsExact == Spec => []BitmapExact
<1>1. IInv => BitmapExact
  BY DEF IInv
<1>2. QED
  BY <1>1, InvariantHolds, PTL

(* The two scans of pmm_alloc leave no byte out (pmm.c:73, 76).            *)
THEOREM ScansCover == Spec => []ScanCovers
<1>1. IInv => ScanCovers
  BY DEF IInv
<1>2. QED
  BY <1>1, InvariantHolds, PTL

(* No caller ever holds a frame with a byte of the kernel image in it      *)
(* (pmm.c:39, 51).                                                         *)
LEMMA IInvImageReserved == IInv => ImageReserved
<1> SUFFICES ASSUME IInv, NEW f \in held PROVE f >= KERNEL_END
  BY DEF ImageReserved
<1>1. f \in Frames
  BY DEF IInv, TypeOK
<1>2. f \notin Reserved
  <2>1. CASE Ready
    BY <2>1 DEF IInv, BitmapExact
  <2>2. CASE ~Ready
    BY <2>2 DEF IInv, MarkedSoFar, Ready
  <2>3. QED
    BY <2>1, <2>2
<1>3. PICK n \in Nat : f = 4096 * n
  BY <1>1 DEF Frames, PAGE_SIZE
<1>4. KERNEL_END =< RangeEnd /\ RangeEnd \in Nat /\ ~(f =< RangeEnd)
  BY <1>1, <1>2, RangeEndFacts, PmmAssumption DEF Reserved, RangeEnd, PAGE_SIZE
<1>5. QED
  BY <1>3, <1>4, PmmAssumption

THEOREM ImageIsReserved == Spec => []ImageReserved
<1>1. QED
  BY IInvImageReserved, InvariantHolds, PTL

-------------------------------------------------------------------------------
(* pmm.c implements FrameAllocator.                                        *)

LEMMA InitImplements == Init => Allocator!Init
BY DEF Init, Allocator!Init, Phase

LEMMA StepImplements ==
  ASSUME IInv, [Next]_vars
  PROVE  [Allocator!Next]_(Allocator!vars)
<1> USE DEF Phase, Scanning
<1>1. CASE pmm_init \/ MarkNext \/ ScanSkip \/ ScanAgain
  BY <1>1 DEF pmm_init, MarkNext, MarkThenMove, ScanSkip, SkipBytes, ScanAgain, RescanFrom,
              Allocator!vars
<1>2. CASE MarkDone
  BY <1>2 DEF MarkDone, Allocator!Next, Allocator!SetUp
<1>3. CASE pmm_alloc
  BY <1>3 DEF pmm_alloc, Allocator!Next, Allocator!Request
<1>4. CASE ScanTake
  <2> DEFINE g == FrameAddr(i, FirstClear(pmm_bitmap[i]))
  <2>1. g \in Frames /\ g \notin Reserved \union held
    BY <1>4, ScanTakeFrame
  <2>2. Phase = "busy" /\ Phase' = "up" /\ reply' = g /\ held' = held \union {g}
    BY <1>4 DEF ScanTake, TakeLeaving
  <2> HIDE DEF g, Phase
  <2>3. Allocator!Grant(g)
    BY <2>1, <2>2 DEF Allocator!Grant, Allocator!Available
  <2>4. QED
    BY <2>1, <2>3 DEF Allocator!Next
<1>5. CASE ScanFail
  <2>1. Frames \subseteq Reserved \union held
    BY <1>5, ScanFailMeansFull
  <2>2. Allocator!Refuse
    BY <1>5, <2>1 DEF ScanFail, Allocator!Refuse, Allocator!Available
  <2>3. QED
    BY <2>2 DEF Allocator!Next
<1>6. CASE \E f \in (Frames \ Reserved) \union {NULL_FRAME} : pmm_free(f) \/ FreeAborts(f)
  <2>1. PICK f \in (Frames \ Reserved) \union {NULL_FRAME} : pmm_free(f) \/ FreeAborts(f)
    BY <1>6
  <2>2. CASE pmm_free(f)
    <3>1. f \in Frames /\ f \in held
      BY <2>2, FreeIsHeld
    <3>2. Allocator!Release(f)
      BY <2>2, <3>1 DEF pmm_free, Allocator!Release
    <3>3. QED
      BY <3>1, <3>2 DEF Allocator!Next
  <2>3. CASE FreeAborts(f)
    BY <2>3 DEF FreeAborts, Allocator!Next, Allocator!Halt
  <2>4. QED
    BY <2>1, <2>2, <2>3
<1>7. CASE Halted \/ UNCHANGED vars
  BY <1>7 DEF Halted, vars, Allocator!vars
<1>8. QED
  BY <1>1, <1>2, <1>3, <1>4, <1>5, <1>6, <1>7 DEF Next, Work

(* pmm.c keeps every promise of FrameAllocator: a frame is handed out only *)
(* while it is free, a request is refused only when no frame is left, and  *)
(* a bad free stops the machine without harm (pmm.c:56-85).                *)
THEOREM Implementation == Spec => ImplementsAllocator
<1>1. QED
  BY InitImplements, StepImplements, InvariantHolds, PTL
     DEF Spec, ImplementsAllocator, Allocator!Spec
===============================================================================
