--------------------------------- MODULE Disk ---------------------------------
(***************************************************************************)
(* What a driver of disks that fail promises to those who read and write   *)
(* sectors.  ata.c (module Ata) is shown to implement it.                  *)
(*                                                                         *)
(*   - a sector that is read is what the disk has at that address;         *)
(*   - a write changes its own sector and no other, as a whole, once, and  *)
(*     not after it has returned;                                          *)
(*   - it is lost only if the disk has failed.                             *)
(* The caller of a lost write is not told, and who reads from a disk that  *)
(* fails is stopped.                                                       *)
(***************************************************************************)
CONSTANTS
  Places,          \* the sectors of all disks
  Contents,        \* what a sector may hold
  None             \* no request

VARIABLES
  sectors,         \* what the disks hold
  request,         \* [op, place, data], or None
  outcome,         \* of the request: "open", "stored", "failed"
  answer,          \* what the last request has read, or <<>>
  stopped

vars == <<sectors, request, outcome, answer, stopped>>

Requests == [op : {"read", "write"}, place : Places, data : Contents]

Init ==
  /\ sectors \in [Places -> Contents]
  /\ request = None
  /\ outcome = "open"
  /\ answer = <<>>
  /\ stopped = FALSE

Ask ==
  /\ request = None /\ request' \in Requests
  /\ answer' = <<>>
  /\ UNCHANGED <<sectors, outcome, stopped>>

Store ==
  /\ request # None /\ request.op = "write" /\ outcome = "open"
  /\ sectors' = [sectors EXCEPT ![request.place] = request.data]
  /\ outcome' = "stored"
  /\ UNCHANGED <<request, answer, stopped>>

Fail ==
  /\ request # None /\ outcome = "open"
  /\ outcome' = "failed"
  /\ UNCHANGED <<sectors, request, answer, stopped>>

Answer ==
  /\ request # None /\ request.op = "read" /\ outcome = "open"
  /\ answer' = sectors[request.place]
  /\ request' = None
  /\ UNCHANGED <<sectors, outcome, stopped>>

Return ==
  /\ request # None /\ request.op = "write" /\ outcome # "open"
  /\ request' = None
  /\ outcome' = "open"
  /\ UNCHANGED <<sectors, answer, stopped>>

Stop ==
  /\ request # None /\ request.op = "read" /\ outcome = "failed"
  /\ stopped' = TRUE
  /\ UNCHANGED <<sectors, request, outcome, answer>>

Next == Ask \/ Store \/ Fail \/ Answer \/ Return \/ Stop

Spec == Init /\ [][Next]_vars
===============================================================================
