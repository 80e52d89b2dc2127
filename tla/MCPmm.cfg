\* Six pages to reserve on the usual machine, and a few on the others.
CONSTANTS
  Machines <- MCMachines
  ByteBits = 2
  MaxBook = 3
  MaxHeld = 2
SPECIFICATION PmmSpec
INVARIANTS HandedOutOnce UsedIsPrefix PagesAreMemory
\* ForcePage may stop the kernel.
CHECK_DEADLOCK FALSE
