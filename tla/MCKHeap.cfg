\* Three pages of four bytes, which kmalloc can cut into up to 12 entries, and
\* a MemoryMap of seven slots, which fills up in some behaviours and not in
\* others: once it has, a block carved off a larger entry gets no entry.
CONSTANTS
  Capacity = 7
  Base = 1
  Pages = 3
  PageSize = 4
  MaxAlloc = 6
  DebugBytes = 2
  ReportBytes = 1
SPECIFICATION Spec
INVARIANTS TypeOK Ordered HeldSafe UsedIsHeld Tiled
PROPERTIES NoNewFragments OverrunOnlyAtEnd ImplementsAllocator
\* A heap that is out of memory, or that overran MemoryMap, has stopped.
CHECK_DEADLOCK FALSE
