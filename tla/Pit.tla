--------------------------------- MODULE Pit --------------------------------
(***************************************************************************)
(* The timer (src/System/Clock/PIT): TimerHandler counts the timer's       *)
(* interrupts, and Sleep polls the counter until it equals a target, or    *)
(* until it has seen it at a multiple of timer_phase 600 times.            *)
(*                                                                         *)
(* The counter has 32 bits and the target 16.  Sleep reads the counter     *)
(* anew each time it mentions it (the kernel is built without              *)
(* optimisation), and the interrupt may come between any two of these      *)
(* reads.                                                                  *)
(*                                                                         *)
(* timer_seconds, which TimerHandler also advances, is read nowhere and    *)
(* left out, and timer_phase is what boot.cpp sets before it installs the  *)
(* handler.                                                                *)
(***************************************************************************)
EXTENDS Naturals

CONSTANTS
  Phase,      \* timer_phase: 1000
  Word,       \* 2^16, the values of u16
  Double,     \* 2^32, the values of u32
  Patience,   \* the 600 of Sleep's loop
  Seconds,    \* ms / 1000 of the calls
  StepsBetween  \* bound: least number of Sleep's steps between two interrupts

(* A call is of a second or more.  The seconds that Sleep counts are far   *)
(* longer than the range of the target and shorter than the counter's, and *)
(* the steps of one turn of its loop fit between two interrupts.           *)
ASSUME PitAssumption ==
  /\ {Phase, Word, Double, Patience} \subseteq Nat \ {0}
  /\ Phase >= 4
  /\ Seconds \subseteq Nat \ {0}
  /\ \A s \in Seconds : Phase * s < Word
  /\ 2 * Word < (Patience - 4) * Phase
  /\ Word + (Patience + 1) * Phase < Double
  /\ Double % Word = 0
  /\ StepsBetween \in Nat /\ StepsBetween >= 4

VARIABLES
  ticks,      \* timer_ticks
  at,         \* what Sleep does next; "idle" when it is not called
  target,     \* timerTicksNeeded
  old,        \* timerold
  counted,    \* i, the seconds that Sleep has counted
  steps,      \* steps of Sleep since the last interrupt
  call        \* [secs: ms / 1000, from: ticks when the target was set,
              \*  gone: interrupts since then, counted up to TooLate]

pitVars == <<ticks, at, target, old, counted, steps, call>>

PitInit ==
  /\ ticks = 0
  /\ at = "idle"
  /\ target = 0 /\ old = 0 /\ counted = 0
  /\ steps = StepsBetween
  /\ call = [secs |-> 0, from |-> 0, gone |-> 0]

-----------------------------------------------------------------------------
(* TimerHandler.                                                           *)
Saturated(n) == IF n = Double - 1 THEN n ELSE n + 1

Ticked(n) == (n + 1) % Double

TooLate == (Patience + 1) * Phase

Tick == /\ steps = StepsBetween
        /\ ticks' = Ticked(ticks)
        /\ IF at = "idle" THEN UNCHANGED <<steps, call>>
           ELSE /\ steps' = 0
                /\ call' = [call EXCEPT !.gone = IF @ < TooLate THEN @ + 1 ELSE @]
        /\ UNCHANGED <<at, target, old, counted>>

-----------------------------------------------------------------------------
(***************************************************************************)
(* Sleep, one read of timer_ticks to a step.                               *)
(***************************************************************************)
TargetInSeconds(n, s) == (n + s) % Word

TargetOf(n, s) == (n + Phase * s) % Word

Goto(l) == at' = l /\ steps' = IF steps < StepsBetween THEN steps + 1 ELSE steps

Return == at' = "idle" /\ steps' = StepsBetween

Enter == /\ at = "idle"
         /\ at' = "enter" /\ UNCHANGED steps
         /\ \E s \in Seconds :
              /\ target' = TargetOf(ticks, s)
              /\ call' = [secs |-> s, from |-> ticks, gone |-> 0]
         /\ counted' = 0
         /\ UNCHANGED <<ticks, old>>

KeepOld == /\ at = "enter" /\ Goto("test")
           /\ old' = ticks
           /\ UNCHANGED <<ticks, target, counted, call>>

PastTarget == ticks >= target

Reached == ticks = target

Test == /\ at = "test"
        /\ IF Reached THEN Return ELSE Goto("phase")
        /\ UNCHANGED <<ticks, target, old, counted, call>>

TestPhase == /\ at = "phase"
             /\ Goto(IF ticks % Phase = 0 THEN "old" ELSE "test")
             /\ UNCHANGED <<ticks, target, old, counted, call>>

TestOld == /\ at = "old"
           /\ IF old # ticks THEN Goto("count") ELSE Goto("test")
           /\ UNCHANGED <<ticks, target, old, counted, call>>

(* i++, timerold = timer_ticks and the test of the loop.                   *)
GivesUpAt(n) == n = Patience

CountPhase == /\ at = "count"
              /\ counted' = counted + 1
              /\ old' = ticks
              /\ IF GivesUpAt(counted') THEN Return ELSE Goto("test")
              /\ UNCHANGED <<ticks, target, call>>

Sleeping == KeepOld \/ Test \/ TestPhase \/ TestOld \/ CountPhase

PitNext == Tick \/ Enter \/ Sleeping

(* The timer goes on, and so does the processor between its interrupts.    *)
PitSpec == PitInit /\ [][PitNext]_pitVars /\ WF_pitVars(Tick) /\ WF_pitVars(Sleeping)

-----------------------------------------------------------------------------
(***************************************************************************)
(* Properties.                                                             *)
(***************************************************************************)
PitTypeOK ==
  /\ ticks \in 0..(Double - 1) /\ old \in 0..(Double - 1)
  /\ target \in 0..(Word - 1)
  /\ counted \in 0..Patience
  /\ steps \in 0..StepsBetween
  /\ at \in {"idle", "enter", "test", "phase", "old", "count"}

Needed   == Phase * call.secs
Returns  == at # "idle" /\ at' = "idle"

(* A call whose target fits in 16 bits returns at the very interrupt it    *)
(* waits for, wherever the interrupts fall among its reads of the counter. *)
WakesOnTime ==
  [][Returns /\ call.from + Needed < Word => call.gone = Needed]_pitVars

(* Any other call still waits as long as it was asked to and less than 601 *)
(* seconds: not at a target cut to 16 bits, not when the counter begins    *)
(* again at 0, and not by its count of seconds either, which an interrupt  *)
(* between the two tests of the counter makes count a second twice.        *)
WaitsWithinBounds ==
  /\ []PitTypeOK
  /\ [][Returns => Needed <= call.gone /\ call.gone < TooLate]_pitVars

(* Every call returns.                                                     *)
AlwaysReturns == (at # "idle") ~> (at = "idle")

=============================================================================
