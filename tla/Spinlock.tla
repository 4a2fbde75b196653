------------------------------- MODULE Spinlock -------------------------------
(***************************************************************************)
(* kernel/src/spinlock.c and atomic_exchange of arch/x86/utils.c, on the   *)
(* machine that the kernel runs on: one processor, whose running code an   *)
(* interrupt handler may suspend between any two accesses to the lock and  *)
(* resume when it returns.  Level 0 is the kernel's own code, level n + 1  *)
(* the handler that interrupted level n.                                   *)
(*                                                                         *)
(* atomic_exchange returns the OLD value and the loop of lock_spinlock     *)
(* spins until that value is 1: a free lock is taken by the second         *)
(* exchange, and a lock that is held is entered at once.  What the lock    *)
(* keeps is therefore a count of its holders, not their exclusion.         *)
(*                                                                         *)
(* ++depth and --depth are a load and a store.                             *)
(***************************************************************************)
EXTENDS Integers, Functions

CONSTANTS
  MaxLevel,     \* bound: handlers that suspend one another
  MaxHold,      \* bound: how often one level takes the lock again
  Askers        \* the levels whose code calls is_locked_spinlock by itself

Levels == 0 .. MaxLevel

ASSUME SpinlockAssumption ==
  MaxLevel \in Nat /\ MaxHold \in Nat \ {0} /\ Askers \subseteq Levels

VARIABLES
  locked, depth,     \* struct spinlock
  level,             \* the level that runs; those above have not started
  pc,                \* where each level is in spinlock.c
  loaded,            \* the value of depth that each level has loaded
  holds              \* how often each level holds the lock (history)

vars == <<locked, depth, level, pc, loaded, holds>>

Init ==                                    \* init_spinlock
  /\ locked = 0
  /\ depth = 0
  /\ level = 0
  /\ pc = [c \in Levels |-> "idle"]
  /\ loaded = [c \in Levels |-> 0]
  /\ holds = [c \in Levels |-> 0]

At(c, where) == level = c /\ pc[c] = where
Goto(c, where) == pc' = [pc EXCEPT ![c] = where]

atomic_exchange(val) == locked' = val

-------------------------------------------------------------------------------
(***************************************************************************)
(* lock_spinlock.                                                          *)
(***************************************************************************)
lock_spinlock(c) ==
  /\ At(c, "idle")
  /\ holds[c] < MaxHold
  /\ loaded' = [loaded EXCEPT ![c] = depth]
  /\ Goto(c, "increment")
  /\ UNCHANGED <<locked, depth, level, holds>>

Increment(c) ==
  /\ At(c, "increment")
  /\ depth' = loaded[c] + 1
  /\ Goto(c, "spin")
  /\ UNCHANGED <<locked, level, loaded, holds>>

ExchangeUntil(c, old) ==
  /\ At(c, "spin")
  /\ atomic_exchange(1)
  /\ IF locked = old
     THEN Goto(c, "idle") /\ holds' = [holds EXCEPT ![c] = @ + 1]
     ELSE UNCHANGED <<pc, holds>>
  /\ UNCHANGED <<depth, level, loaded>>

Spin_UntilFree(c) == ExchangeUntil(c, 0)   \* fault: the usual test, for 0
Spin(c) == ExchangeUntil(c, 1)

(***************************************************************************)
(* unlock_spinlock, called by a level that holds the lock.  The reads of   *)
(* its assertion and of is_locked_spinlock in it, one by one; a failed     *)
(* assertion aborts the kernel.                                            *)
(***************************************************************************)
unlock_spinlock(c) ==
  /\ At(c, "idle")
  /\ holds[c] > 0
  /\ Goto(c, IF locked = 1 THEN "assert" ELSE "answer")
  /\ UNCHANGED <<locked, depth, level, loaded, holds>>

Assertion(c, read, holding, next) ==
  /\ At(c, read)
  /\ Goto(c, IF holding THEN next ELSE "aborted")
  /\ UNCHANGED <<locked, depth, level, loaded, holds>>

CheckUnlock(c) ==
  \/ Assertion(c, "assert", depth > 0, "answer")
  \/ Assertion(c, "answer", locked = 1, "compare")
  \/ Assertion(c, "compare", depth > 0, "load")

Load(c) ==
  /\ At(c, "load")
  /\ loaded' = [loaded EXCEPT ![c] = depth]
  /\ Goto(c, "decrement")
  /\ UNCHANGED <<locked, depth, level, holds>>

StoreDepth(c, d) ==
  /\ At(c, "decrement")
  /\ depth' = d
  /\ holds' = [holds EXCEPT ![c] = @ - 1]
  /\ Goto(c, "test")
  /\ UNCHANGED <<locked, level, loaded>>

Decrement_Lost(c) == StoreDepth(c, loaded[c])   \* fault: nothing is subtracted
Decrement(c) == StoreDepth(c, loaded[c] - 1)

TestDepth(c, zero) ==
  /\ At(c, "test")
  /\ Goto(c, IF zero THEN "clear" ELSE "idle")
  /\ UNCHANGED <<locked, depth, level, loaded, holds>>

Test_Always(c) == TestDepth(c, TRUE)       \* fault: every unlock clears
Test_Loaded(c) == TestDepth(c, loaded[c] = 0)   \* fault: tests the old depth
Test(c) == TestDepth(c, depth = 0)

Clear(c) ==
  /\ At(c, "clear")
  /\ atomic_exchange(0)
  /\ Goto(c, "idle")
  /\ UNCHANGED <<depth, level, loaded, holds>>

(* is_locked_spinlock, called by itself; what it returns is not used.      *)
is_locked_spinlock(c) ==
  /\ c \in Askers
  /\ At(c, "idle")
  /\ Goto(c, IF locked = 1 THEN "asked" ELSE "idle")
  /\ UNCHANGED <<locked, depth, level, loaded, holds>>

CheckAsked(c) == Assertion(c, "asked", depth > 0, "idle")

-------------------------------------------------------------------------------
(***************************************************************************)
(* Interrupts: a handler gives back what it took before it returns.        *)
(***************************************************************************)
Aborted == \E c \in Levels : pc[c] = "aborted"

Interrupt ==
  /\ level < MaxLevel
  /\ ~Aborted
  /\ level' = level + 1
  /\ UNCHANGED <<locked, depth, pc, loaded, holds>>

Return(c) ==
  /\ c > 0
  /\ At(c, "idle")
  /\ holds[c] = 0
  /\ level' = c - 1
  /\ UNCHANGED <<locked, depth, pc, loaded, holds>>

Inside(c) == \/ Increment(c) \/ Spin(c) \/ CheckUnlock(c) \/ Load(c) \/ Decrement(c) \/ Test(c)
             \/ Clear(c) \/ CheckAsked(c)

Next ==
  \/ \E c \in Levels :
       Inside(c) \/ lock_spinlock(c) \/ unlock_spinlock(c) \/ is_locked_spinlock(c) \/ Return(c)
  \/ Interrupt

Spec == Init /\ [][Next]_vars

(* A level that runs again and again executes its next instruction.        *)
FairSpec == Spec /\ \A c \in Levels : SF_vars(Inside(c))

-------------------------------------------------------------------------------
(***************************************************************************)
(* Properties.                                                             *)
(***************************************************************************)
Asserting == {"assert", "answer", "compare", "load"}
Steps == {"idle", "increment", "spin", "decrement", "test", "clear", "asked", "aborted"}
         \union Asserting

TypeOK ==
  /\ locked \in {0, 1}
  /\ depth \in 0 .. (MaxHold * (MaxLevel + 1))
  /\ level \in Levels
  /\ pc \in [Levels -> Steps]
  /\ loaded \in [Levels -> 0 .. (MaxHold * (MaxLevel + 1))]
  /\ holds \in [Levels -> 0 .. MaxHold]

(* What unlock_spinlock asserts is so whenever a level that holds the lock *)
(* may call it, and stays so from read to read, wherever handlers suspend  *)
(* it (spinlock.c:17, 27-31).                                              *)
UnlockAsserts ==
  \A c \in Levels : level = c /\ holds[c] > 0 /\ pc[c] \in Asserting \union {"idle"}
                     => locked = 1 /\ depth > 0

(* The counter is exact although it is not updated atomically: a handler   *)
(* that comes between the load and the store leaves depth as it found it   *)
(* (spinlock.c:11, 18).                                                    *)
Claims == [c \in Levels |-> holds[c] + (IF pc[c] = "spin" THEN 1 ELSE 0)]

DepthCountsHolders == depth = SumFunction(Claims)

(* While any level holds the lock it is locked: the unlock of a handler    *)
(* never frees it under the code it suspended, not even when it comes      *)
(* between the last decrement and the exchange (spinlock.c:18-21).         *)
HeldMeansLocked == (\E c \in Levels : holds[c] > 0) => locked = 1

(* When no level is inside spinlock.c, a lock that nobody holds is free:   *)
(* no interleaving leaves it locked for ever (spinlock.c:19-22).           *)
FreeWhenUnused ==
  (\A c \in Levels : pc[c] = "idle" /\ holds[c] = 0) => locked = 0 /\ depth = 0

-------------------------------------------------------------------------------
(***************************************************************************)
(* The inductive invariant: what a suspended level has loaded or tested is *)
(* still so when it runs again, because what the handlers above it added   *)
(* up is nothing again by then.                                            *)
(***************************************************************************)
UpTo(c) == 0 .. c

(* A handler that has returned, or has not come yet, holds nothing; a      *)
(* level only unlocks what it holds.                                       *)
LevelShape ==
  /\ \A c \in Levels : c > level => pc[c] = "idle" /\ holds[c] = 0
  /\ \A c \in Levels : pc[c] \in {"increment", "spin"} => holds[c] < MaxHold
  /\ \A c \in Levels : pc[c] \in Asserting \union {"decrement"} => holds[c] > 0

(* The value that ++depth or --depth has loaded counts the claims of its   *)
(* level and of those below: nobody else has one when it is stored         *)
(* (spinlock.c:11, 18).                                                    *)
LoadedExact ==
  \A c \in Levels : pc[c] \in {"increment", "decrement"}
                     => loaded[c] = SumFunctionOnSet(Claims, UpTo(c))

(* Nobody who was there before the test holds the lock that a level is     *)
(* about to clear (spinlock.c:19-21).                                      *)
ClearsUnheld ==
  \A c \in Levels : pc[c] = "clear" => SumFunctionOnSet(Claims, UpTo(c)) = 0

(* A lock is locked because someone has a claim to it, or someone is about *)
(* to unlock it (spinlock.c:18-21).                                        *)
LockedForAReason ==
  locked = 1 => depth > 0 \/ \E c \in Levels : pc[c] \in {"test", "clear"}

(* DepthCountsHolders is not inductive without LoadedExact, and neither    *)
(* are HeldMeansLocked without ClearsUnheld and FreeWhenUnused without     *)
(* LockedForAReason (spinlock.c:10-23).                                    *)
IInv ==
  /\ TypeOK /\ LevelShape /\ DepthCountsHolders /\ LoadedExact
  /\ ClearsUnheld /\ LockedForAReason /\ HeldMeansLocked

-------------------------------------------------------------------------------
(* lock_spinlock returns, even on a lock that the suspended code holds, as *)
(* long as the handlers let its caller run (spinlock.c:12).                *)
LockReturns ==
  \A c \in Levels : []<>(level = c) => (pc[c] = "increment" ~> pc[c] = "idle")

(* What the assertion in is_locked_spinlock says of a lock: "if            *)
(* (spin->locked) assert(spin->depth > 0)" (spinlock.c:27-28).             *)
LockedMeansDepth == \A c \in Askers : ~At(c, "aborted")
===============================================================================
