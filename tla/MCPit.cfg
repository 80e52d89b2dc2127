\* Sizes in the order of the code's: a second is 5 ticks instead of 1000,
\* 16 bits 12 ticks instead of 65536, 600 seconds 9 seconds, 32 bits 72 ticks.
\* The reads of one turn of the loop fit between two interrupts.
\* As in the code a second does not divide the range of the counter.
CONSTANTS
  Phase = 5
  Word = 12
  Double = 72
  Patience = 9
  Seconds = {1, 2}
  StepsBetween = 4
SPECIFICATION PitSpec
PROPERTIES WakesOnTime WaitsWithinBounds AlwaysReturns
