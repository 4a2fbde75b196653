--------------------------------- MODULE MCAta ---------------------------------
(***************************************************************************)
(* An instance of Ata: sectors of two words, addresses of four bits in     *)
(* their four registers, and the machines one meets.                       *)
(***************************************************************************)
EXTENDS Ata

At(master, slave, other) ==
  [d \in Bus \X Units |-> IF d = <<"primary", 0>> THEN master
                          ELSE IF d = <<"primary", 1>> THEN slave
                          ELSE IF d = <<"secondary", 0>> THEN other
                          ELSE "empty"]

AllMachines ==
  { At("disk", "disk", "empty"),         \* two disks
    At("packet", "disk", "empty"),       \* a slave behind a CD drive
    At("empty", "empty", "packet"),      \* what the Makefile's qemu emulates
    [d \in Bus \X Units |-> IF d[1] = "primary" THEN "empty" ELSE "floating"] }

OneSector  == {<<1, 2>>}
AllFailing == {"identify", "read", "write", "store", "flush"}
===============================================================================
