---------------------------- MODULE FrameAllocator ----------------------------
(***************************************************************************)
(* What a physical frame allocator promises its callers, whatever data     *)
(* structure it keeps.  pmm.c (module Pmm) is shown to implement it.       *)
(*                                                                         *)
(*   - a frame is handed out only while nobody holds it and it is not one  *)
(*     of the frames reserved for the kernel;                              *)
(*   - a request is refused only when every other frame is held;           *)
(*   - a frame comes back only from a caller that holds it: releasing      *)
(*     anything else stops the machine and changes nothing.                *)
(***************************************************************************)
CONSTANTS
  Frames,      \* the addresses of all physical frames
  Reserved,    \* the frames that belong to the kernel image
  NoFrame      \* the reply to a refused request

VARIABLES
  phase,       \* "boot" until the allocator is set up, then "up", "busy" while
               \* a request is being answered, "halted" for ever
  held,        \* the frames that callers hold
  reply        \* the reply to the last completed request

vars == <<phase, held, reply>>

Available == Frames \ (Reserved \union held)

Init ==
  /\ phase = "boot"
  /\ held  = {}
  /\ reply = NoFrame

SetUp ==
  /\ phase = "boot"
  /\ phase' = "up"
  /\ UNCHANGED <<held, reply>>

Request ==
  /\ phase = "up"
  /\ phase' = "busy"
  /\ UNCHANGED <<held, reply>>

Grant(f) ==
  /\ phase = "busy"
  /\ f \in Available
  /\ held'  = held \union {f}
  /\ reply' = f
  /\ phase' = "up"

Refuse ==
  /\ phase = "busy"
  /\ Available = {}
  /\ reply' = NoFrame
  /\ phase' = "up"
  /\ UNCHANGED held

Release(f) ==
  /\ phase = "up"
  /\ f \in held
  /\ held' = held \ {f}
  /\ UNCHANGED <<phase, reply>>

(* A caller broke its side of the contract. *)
Halt ==
  /\ phase = "up"
  /\ phase' = "halted"
  /\ UNCHANGED <<held, reply>>

Next ==
  \/ SetUp
  \/ Request
  \/ \E f \in Frames : Grant(f) \/ Release(f)
  \/ Refuse
  \/ Halt

Spec == Init /\ [][Next]_vars
===============================================================================
