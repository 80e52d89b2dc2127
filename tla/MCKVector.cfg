\* Up to four slots: dead slots before, between and after live ones, and a
\* bank that has been full.
CONSTANTS
  Capacity = 4
  Data = {a, b}
  NoData = none
SPECIFICATION Spec
INVARIANTS IndicesExact
PROPERTIES ImplementsVecSeq
\* operator[] out of bounds stops the kernel.
CHECK_DEADLOCK FALSE
