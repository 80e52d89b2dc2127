\* 18 reads are three passes: with one second between updates and a few
\* microseconds to a read there are some 100000.
CONSTANTS
  Starts <- Moments
  Spacing = 18
SPECIFICATION Spec
INVARIANT ReadsTheTime
PROPERTY Finishes
CHECK_DEADLOCK FALSE
