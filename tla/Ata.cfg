\* Four machines; disks that fail at any command; 26 is the address 10 with a
\* bit too many.
CONSTANTS
  Byte = 2
  Nibble = 2
  Lbas = {5, 26}
  Words = 2
  Written <- OneSector
  Machines <- AllMachines
  Failing <- AllFailing

SPECIFICATION FairSpec

INVARIANTS
  NoRequestLeft

PROPERTIES
  ImplementsDisk
  FindsTheMasters
  OnlyFlushTooEarly
  CallsEnd
