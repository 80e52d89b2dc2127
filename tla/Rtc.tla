--------------------------------- MODULE Rtc --------------------------------
(***************************************************************************)
(* RTC::Update (src/System/Clock/RTC): reading the time from a clock chip  *)
(* that goes on while it is read.  The driver reads the six registers one  *)
(* after the other, each pass beginning when the update flag is clear,     *)
(* until two passes in a row gave the same values; then it decodes them.   *)
(*                                                                         *)
(* The chip's state is the time it shows and where it is in its update     *)
(* cycle.  The flag is up before and during an update, and what is read    *)
(* during one is the old value, the new value or neither.  An interrupt    *)
(* may hold the driver up between any two reads, so an update may begin    *)
(* after the flag was read as clear.                                       *)
(*                                                                         *)
(* century_register is 0, and nothing sets it: the century that the loop   *)
(* compares is an uninitialised variable compared with a copy of itself,   *)
(* and is left out.                                                        *)
(***************************************************************************)
EXTENDS Naturals

CONSTANTS Starts,     \* the times the chip may show when Update is called
          Spacing     \* least number of reads between two updates

(* A time is its second, minute, hour, day, month and year of the century, *)
(* in the order in which their registers are read.                         *)
Fields == 1..6
Second == 1
Hour == 3
Year == 6
Blank == [i \in Fields |-> 0]

VARIABLES
  chip,      \* [now: the time shown, phase: of the update cycle,
             \*  quiet: reads since the last update]
  mode,      \* register B: [binary, hours24]
  pc,        \* "flag": getUpdateFlag is next; "read": register next is next;
             \* "compare": the test of the loop; "done"
  next,      \* the register to be read
  hold,      \* RTC_SECOND_HOLD ... RTC_YEAR_HOLD
  last,      \* last_second ... last_year; Unset in the first pass
  shown      \* the times that the chip has shown since the call

vars == <<chip, mode, pc, next, hold, last, shown>>

-----------------------------------------------------------------------------
(***************************************************************************)
(* The chip.                                                               *)
(***************************************************************************)
DaysIn(t) == IF t[5] = 2 THEN (IF t[6] % 4 = 0 THEN 29 ELSE 28)
             ELSE IF t[5] \in {4, 6, 9, 11} THEN 30 ELSE 31

Lowest(i)   == IF i \in {4, 5} THEN 1 ELSE 0
Highest(t, i) == <<59, 59, 23, DaysIn(t), 12, 99>>[i]

IsTime(t) == /\ t \in [Fields -> 0..99]
             /\ \A i \in Fields : t[i] \in Lowest(i)..Highest(t, i)

(* A second is some 100000 reads; that two passes, of 12 reads, do not see *)
(* two updates is all that matters.                                        *)
ASSUME RtcAssumption == /\ \A t \in Starts : IsTime(t)
                        /\ Spacing \in Nat /\ Spacing >= 11

(* One second later: a field moves when all before it wrap around.         *)
Moves(t, i) == \A j \in 1..(i - 1) : t[j] = Highest(t, j)

Later(t) == [i \in Fields |->
               IF ~Moves(t, i) THEN t[i]
               ELSE IF t[i] = Highest(t, i) THEN Lowest(i) ELSE t[i] + 1]

(* The registers, in the format that register B announces.                 *)
Twelve(h) == IF h % 12 = 0 THEN 12 ELSE h % 12
Digits(n) == IF mode.binary THEN n ELSE (n \div 10) * 16 + (n % 10)

Register(t, i) ==
  IF i # Hour \/ mode.hours24 THEN Digits(t[i])
  ELSE Digits(Twelve(t[Hour])) + (IF t[Hour] >= 12 THEN 128 ELSE 0)

Neither == 255

Readable(i) ==
  IF chip.phase # "updating" THEN {Register(chip.now, i)}
  ELSE {Register(chip.now, i), Register(Later(chip.now), i), Neither}

FlagUp == chip.phase # "steady"

-----------------------------------------------------------------------------
(***************************************************************************)
(* Decoding.  The bit operations are those of the code on 16 bits.         *)
(***************************************************************************)
FromBcd(v) == (v % 16) + (v \div 16) * 10

FromBcdHour(v) == (v % 16) + ((v % 128) \div 16) * 10 + (v \div 128) * 128

Binary(r) ==
  IF mode.binary THEN r
  ELSE [i \in Fields |-> IF i = Hour THEN FromBcdHour(r[i]) ELSE FromBcd(r[i])]

HourOf(h) ==
  IF ~mode.hours24 /\ h >= 128 THEN ((h % 128) + 12) % 24 ELSE h

(* CURRENT_YEAR is 2021: an earlier year is taken to be of the century     *)
(* after.                                                                  *)
YearOf(y) == IF 2000 + y < 2021 THEN 2100 + y ELSE 2000 + y

Decoded(r) ==
  [Binary(r) EXCEPT ![Hour] = HourOf(@), ![Year] = YearOf(@)]

-----------------------------------------------------------------------------
(***************************************************************************)
(* Steps.                                                                  *)
(***************************************************************************)
Unset == << >>

Init == /\ \E t \in Starts :
             /\ chip \in [now : {t}, phase : {"steady", "rising", "updating"},
                          quiet : {Spacing}]
             /\ shown = {t}
        /\ mode \in [binary : BOOLEAN, hours24 : BOOLEAN]
        /\ pc = "flag"
        /\ next = Second
        /\ hold = Blank
        /\ last = Unset

Driver == <<pc, next, hold, last>>

RaiseFlag ==
  /\ chip.phase = "steady" /\ chip.quiet = Spacing /\ pc # "done"
  /\ chip' = [chip EXCEPT !.phase = "rising"]
  /\ UNCHANGED <<mode, shown, Driver>>

BeginUpdate ==
  /\ chip.phase = "rising"
  /\ chip' = [chip EXCEPT !.phase = "updating"]
  /\ UNCHANGED <<mode, shown, Driver>>

EndUpdate ==
  /\ chip.phase = "updating"
  /\ chip' = [now |-> Later(chip.now), phase |-> "steady", quiet |-> 0]
  /\ shown' = shown \cup {Later(chip.now)}
  /\ UNCHANGED <<mode, Driver>>

(* while (getUpdateFlag()): a read that finds the flag up is repeated.     *)
SeeFlagClear ==
  /\ pc = "flag" /\ ~FlagUp
  /\ pc' = "read"
  /\ next' = Second
  /\ UNCHANGED <<chip, mode, hold, last, shown>>

AfterPass == IF last = Unset THEN "save" ELSE "compare"

ReadRegister ==
  /\ pc = "read"
  /\ \E v \in Readable(next) : hold' = [hold EXCEPT ![next] = v]
  /\ chip' = [chip EXCEPT !.quiet = IF @ < Spacing THEN @ + 1 ELSE @]
  /\ IF next = Year THEN pc' = AfterPass /\ UNCHANGED next
                    ELSE next' = next + 1 /\ UNCHANGED pc
  /\ UNCHANGED <<mode, last, shown>>

(* The head of the do loop: the last pass is what the next is compared to. *)
SavedOnce == IF last = Unset THEN hold ELSE last
Saved == hold

SavePass ==
  /\ pc = "save"
  /\ last' = Saved
  /\ pc' = "flag"
  /\ UNCHANGED <<chip, mode, next, hold, shown>>

SameSecond == last[Second] = hold[Second]
Same == last = hold

ReadAgain ==
  /\ pc = "compare" /\ ~Same
  /\ pc' = "save"
  /\ UNCHANGED <<chip, mode, next, hold, last, shown>>

Decode ==
  /\ pc = "compare" /\ Same
  /\ hold' = Decoded(hold)
  /\ pc' = "done"
  /\ UNCHANGED <<chip, mode, next, last, shown>>

(* What now() returns: each field cut to 16 bits by its Get function.      *)
U16(n) == n % 65536
Now == [i \in Fields |-> U16(hold[i])]

ChipStep   == BeginUpdate \/ EndUpdate
DriverStep == SeeFlagClear \/ ReadRegister \/ SavePass \/ ReadAgain \/ Decode

Next == RaiseFlag \/ ChipStep \/ DriverStep

(* An update that has begun ends, and the driver is not held up for ever.  *)
Spec == Init /\ [][Next]_vars /\ WF_vars(ChipStep) /\ WF_vars(DriverStep)

-----------------------------------------------------------------------------
(***************************************************************************)
(* Properties.                                                             *)
(***************************************************************************)
TypeOK ==
  /\ chip.phase \in {"steady", "rising", "updating"} /\ chip.quiet \in 0..Spacing
  /\ IsTime(chip.now)
  /\ pc \in {"flag", "read", "save", "compare", "done"}
  /\ next \in Fields
  /\ hold \in [Fields -> 0..2199]
  /\ last = Unset \/ last \in [Fields -> 0..255]
  /\ pc = "done" => \A i \in Fields \ {Year} : hold[i] \in 0..<<59, 59, 23, 31, 12>>[i]

(* "read registers until you get the same values twice in a row", "to      *)
(* avoid getting dodgy/inconsistent values": what is then decoded is what  *)
(* all six registers held together at one moment of the call.              *)
Snapshot ==
  pc = "compare" /\ Same =>
    \E t \in shown : \A i \in Fields : hold[i] = Register(t, i)

(* The hour the code reports for hour h: in the twelve hour format noon    *)
(* comes out as 0 and midnight as 12.                                      *)
Reported(h) == IF ~mode.hours24 /\ h % 12 = 0 THEN 12 - h ELSE h

(* And the time that now() returns is one that the chip showed during the  *)
(* call, in the years 2021 to 2120 and but for the hour after noon and     *)
(* midnight.                                                               *)
ReadsTheTime ==
  /\ TypeOK /\ Snapshot
  /\ pc = "done" =>
       \E t \in shown :
         Now = [t EXCEPT ![Hour] = Reported(@), ![Year] = YearOf(@)]

(* Passes that an update disturbs are repeated, and the call ends.         *)
Finishes == <>(pc = "done")

=============================================================================
