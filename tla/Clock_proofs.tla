----------------------------- MODULE Clock_proofs ---------------------------
(***************************************************************************)
(* ReadsTheTime of Rtc for every moment of every year of the century and   *)
(* for any spacing of the updates that two passes cannot hold two of, and  *)
(* the safety properties of Pit for any sizes of the counter and any       *)
(* length of a second.                                                     *)
(*                                                                         *)
(* A pass that no update disturbs holds what the chip shows at its end: it *)
(* is Clean.  A pass that one disturbs ends with the update still going on *)
(* or fewer reads ago than the pass has; then the next pass, which begins  *)
(* when the flag is clear, is over before another update may begin.  So of *)
(* two passes in a row one is clean, and when they are equal both are.     *)
(*                                                                         *)
(* Sleep keeps the moment at which it read old (Kept).  At most one second *)
(* has begun since that it has not found yet, and as a turn of its loop    *)
(* fits between two ticks it is found before the tick after: the n seconds *)
(* counted are not too few (Enough), so the call is over before it has     *)
(* waited 601 of them.  Nor are they too many (AtMostTwice): a second is   *)
(* counted again only when the tick after its first falls between two      *)
(* reads, so a call that counts to its end has waited longer than any      *)
(* target is away.                                                         *)
(***************************************************************************)
EXTENDS Rtc, Pit, TLAPS

(* The first k registers that the pass has read are those of the time t.   *)
Agrees(t, k) == \A i \in 1..k : hold[i] = Register(t, i)

Clean(r) == \E t \in shown : \A i \in Fields : r[i] = Register(t, i)

(* An update goes on, or has ended at most n reads ago.                    *)
Disturbed(n) == chip.phase = "updating" \/ chip.quiet <= n

TypeInv ==
  /\ chip \in [now : {t \in [Fields -> 0..99] : IsTime(t)},
               phase : {"steady", "rising", "updating"}, quiet : 0..Spacing]
  /\ mode \in [binary : BOOLEAN, hours24 : BOOLEAN]
  /\ pc \in {"flag", "read", "save", "compare", "done"}
  /\ next \in Fields
  /\ pc # "done" => hold \in [Fields -> 0..255]
  /\ last = Unset \/ last \in [Fields -> 0..255]
  /\ \A t \in shown : IsTime(t)
  /\ chip.now \in shown
  /\ chip.phase # "steady" => chip.quiet = Spacing
  /\ pc = "compare" => last # Unset

(* The pass that is going on, after k reads.                               *)
ThisPass(k) == Agrees(chip.now, k) \/ Disturbed(k - 1)

(* The pass before it, whose registers are in last.                        *)
LastPass(k) ==
  \/ last = Unset
  \/ Clean(last)
  \/ chip.phase = "steady" /\ chip.quiet <= 5 + k /\ Agrees(chip.now, k)

PassInv ==
  /\ pc = "flag" => last = Unset \/ Clean(last) \/ Disturbed(5)
  /\ pc = "read" => ThisPass(next - 1) /\ LastPass(next - 1)
  /\ pc \in {"save", "compare"} => Clean(hold) \/ Disturbed(5)
  /\ pc = "compare" => Clean(last) \/ Clean(hold)

DoneInv ==
  pc = "done" =>
    \E t \in shown :
      hold = [t EXCEPT ![Hour] = Reported(@), ![Year] = YearOf(@)]

RtcInv == TypeInv /\ PassInv /\ DoneInv

-----------------------------------------------------------------------------
(***************************************************************************)
(* Times and registers.                                                    *)
(***************************************************************************)
LEMMA DaysInBounds ==
  ASSUME NEW t
  PROVE  DaysIn(t) \in 28..31
  BY DEF DaysIn

LEMMA HighestValues ==
  ASSUME NEW t
  PROVE  /\ Highest(t, 1) = 59 /\ Highest(t, 2) = 59 /\ Highest(t, 3) = 23
         /\ Highest(t, 4) = DaysIn(t) /\ Highest(t, 5) = 12
         /\ Highest(t, 6) = 99
  BY DEF Highest

LEMMA HighestBounds ==
  ASSUME NEW t, NEW i \in Fields
  PROVE  Highest(t, i) \in 1..99
  BY HighestValues, DaysInBounds DEF Fields

(* A second after a time is a time: the last day of a month is never       *)
(* passed over, in a leap year either.                                     *)
LEMMA LaterIsTime ==
  ASSUME NEW t, IsTime(t)
  PROVE  IsTime(Later(t))
<1> DEFINE u == Later(t)
<1>1. /\ t \in [Fields -> 0..99]
      /\ \A i \in Fields : t[i] \in Lowest(i)..Highest(t, i)
  BY DEF IsTime
<1>2. \A i \in Fields :
        u[i] = IF ~Moves(t, i) THEN t[i]
               ELSE IF t[i] = Highest(t, i) THEN Lowest(i) ELSE t[i] + 1
  BY DEF Later
<1>3. \A i \in Fields : u[i] \in Lowest(i)..Highest(t, i)
  BY <1>1, <1>2, HighestBounds DEF Lowest
<1>4. u \in [Fields -> 0..99]
  <2>1. \A i \in Fields : u[i] \in 0..99
    BY <1>3, HighestBounds DEF Lowest
  <2> QED BY <2>1 DEF Later
<1>5. \A i \in Fields \ {4} : Highest(u, i) = Highest(t, i)
  BY HighestValues DEF Fields
<1>6. u[4] \in Lowest(4)..Highest(u, 4)
  <2>1. CASE t[4] # DaysIn(t) \/ ~Moves(t, 4)
    <3>1. ~Moves(t, 5) /\ ~Moves(t, 6)
      BY <2>1, HighestValues DEF Moves
    <3>2. u[5] = t[5] /\ u[6] = t[6]
      BY <1>2, <3>1 DEF Fields
    <3>3. Highest(u, 4) = Highest(t, 4)
      BY <3>2, HighestValues DEF DaysIn
    <3> QED BY <1>3, <3>3 DEF Fields
  <2>2. CASE t[4] = DaysIn(t) /\ Moves(t, 4)
    <3>1. u[4] = 1
      BY <1>2, <2>2, HighestValues DEF Fields, Lowest
    <3> QED BY <3>1, HighestValues, DaysInBounds DEF Lowest
  <2> QED BY <2>1, <2>2
<1> QED BY <1>3, <1>4, <1>5, <1>6 DEF IsTime

LEMMA RegisterByte ==
  ASSUME NEW t, IsTime(t), NEW i \in Fields
  PROVE  Register(t, i) \in 0..255
<1>1. \A n \in 0..99 : Digits(n) \in 0..159
  BY DEF Digits
<1>2. t[i] \in 0..99
  BY DEF IsTime
<1>3. CASE i # Hour
  BY <1>1, <1>2, <1>3 DEF Register
<1>4. CASE i = Hour
  <2>1. t[Hour] \in 0..23
    BY HighestValues DEF IsTime, Fields, Hour, Lowest
  <2>2. Twelve(t[Hour]) \in 0..12
    BY <2>1 DEF Twelve
  <2>3. \A n \in 0..12 : Digits(n) \in 0..18
    BY DEF Digits
  <2> QED BY <1>1, <1>2, <1>4, <2>1, <2>2, <2>3 DEF Register
<1> QED BY <1>3, <1>4

(* Decoding undoes the format that register B announces.                   *)
LEMMA BcdUndone ==
  ASSUME NEW n \in 0..99
  PROVE  FromBcd((n \div 10) * 16 + (n % 10)) = n
  BY DEF FromBcd

LEMMA BcdHourUndone ==
  ASSUME NEW w \in 1..12, NEW p \in {0, 128}
  PROVE  FromBcdHour((w \div 10) * 16 + (w % 10) + p) = w + p
<1> DEFINE v == (w \div 10) * 16 + (w % 10) + p
<1>1. CASE w <= 9
  <2>1. v = w + p
    BY <1>1
  <2>2. v % 16 = w /\ (v % 128) \div 16 = 0 /\ (v \div 128) * 128 = p
    BY <1>1, <2>1
  <2> QED BY <2>2 DEF FromBcdHour
<1>2. CASE w >= 10
  <2>1. v = w + 6 + p
    BY <1>2
  <2>2. v % 16 = w - 10 /\ (v % 128) \div 16 = 1 /\ (v \div 128) * 128 = p
    BY <1>2, <2>1
  <2> QED BY <2>2 DEF FromBcdHour
<1> QED BY <1>1, <1>2

LEMMA HourUndone ==
  ASSUME NEW t, IsTime(t), mode \in [binary : BOOLEAN, hours24 : BOOLEAN],
         NEW r, r[Hour] = Register(t, Hour)
  PROVE  HourOf(Binary(r)[Hour]) = Reported(t[Hour])
<1> DEFINE h == t[Hour]
<1>1. h \in 0..23
  BY HighestValues DEF IsTime, Fields, Hour, Lowest
<1>2. CASE mode.hours24
  <2>1. r[Hour] = Digits(h)
    BY <1>2 DEF Register
  <2>2. Binary(r)[Hour] = h
    <3>1. CASE mode.binary
      BY <3>1, <2>1 DEF Binary, Digits
    <3>2. CASE ~mode.binary
      <4>1. Binary(r)[Hour] = FromBcdHour((h \div 10) * 16 + (h % 10))
        BY <3>2, <2>1 DEF Binary, Digits, Fields, Hour
      <4> QED BY <4>1, <1>1 DEF FromBcdHour
    <3> QED BY <3>1, <3>2
  <2> QED BY <1>2, <2>2 DEF HourOf, Reported
<1>3. CASE ~mode.hours24
  <2> DEFINE p == IF h >= 12 THEN 128 ELSE 0
  <2>1. r[Hour] = Digits(Twelve(h)) + p
    BY <1>3 DEF Register
  <2>2. Binary(r)[Hour] = Twelve(h) + p
    <3>1. CASE mode.binary
      BY <3>1, <2>1 DEF Binary, Digits
    <3>2. CASE ~mode.binary
      <4> DEFINE w == Twelve(h)
      <4>1. w \in 1..12
        BY <1>1 DEF Twelve
      <4>2. Binary(r)[Hour] = FromBcdHour((w \div 10) * 16 + (w % 10) + p)
        BY <3>2, <2>1 DEF Binary, Digits, Fields, Hour
      <4> QED BY <4>1, <4>2, BcdHourUndone
    <3> QED BY <3>1, <3>2
  <2> QED BY <1>1, <1>3, <2>2 DEF HourOf, Reported, Twelve
<1> QED BY <1>2, <1>3

LEMMA DecodedIsTheTime ==
  ASSUME NEW t, IsTime(t), mode \in [binary : BOOLEAN, hours24 : BOOLEAN],
         NEW r \in [Fields -> 0..255],
         \A i \in Fields : r[i] = Register(t, i)
  PROVE  Decoded(r) = [t EXCEPT ![Hour] = Reported(@), ![Year] = YearOf(@)]
<1>1. t \in [Fields -> 0..99]
  BY DEF IsTime
<1>2. Binary(r) = [i \in Fields |-> Binary(r)[i]]
  BY DEF Binary
<1>3. \A i \in Fields \ {Hour} : Binary(r)[i] = t[i]
  <2> TAKE i \in Fields \ {Hour}
  <2>1. r[i] = Digits(t[i])
    BY DEF Register
  <2>2. CASE mode.binary
    BY <2>1, <2>2 DEF Binary, Digits
  <2>3. CASE ~mode.binary
    <3>1. Binary(r)[i] = FromBcd((t[i] \div 10) * 16 + (t[i] % 10))
      BY <2>1, <2>3 DEF Binary, Digits
    <3> QED BY <1>1, <3>1, BcdUndone
  <2> QED BY <2>2, <2>3
<1>4. HourOf(Binary(r)[Hour]) = Reported(t[Hour])
  BY HourUndone DEF Fields, Hour
<1>5. Binary(r) = [t EXCEPT ![Hour] = Binary(r)[Hour]]
  BY <1>1, <1>2, <1>3 DEF Fields, Hour
<1>6. Hour \in Fields /\ Year \in Fields /\ Hour # Year
  BY DEF Fields, Hour, Year
<1> DEFINE b == Binary(r)[Hour]
<1>7. Decoded(r) = [[t EXCEPT ![Hour] = b] EXCEPT ![Hour] = HourOf(@),
                                                  ![Year] = YearOf(@)]
  BY <1>5 DEF Decoded
<1> HIDE DEF b
<1>8. [[t EXCEPT ![Hour] = b] EXCEPT ![Hour] = HourOf(@), ![Year] = YearOf(@)]
        = [t EXCEPT ![Hour] = HourOf(b), ![Year] = YearOf(@)]
  BY <1>1, <1>6
<1> QED BY <1>4, <1>7, <1>8 DEF b

-----------------------------------------------------------------------------
(***************************************************************************)
(* The invariant.                                                          *)
(***************************************************************************)
LEMMA RtcInvInit == Init => RtcInv
<1> SUFFICES ASSUME Init PROVE RtcInv
  OBVIOUS
<1> USE RtcAssumption
<1>1. PICK t \in Starts :
        /\ chip \in [now : {t}, phase : {"steady", "rising", "updating"},
                    quiet : {Spacing}]
        /\ shown = {t}
  BY DEF Init
<1>2. IsTime(t) /\ t \in [Fields -> 0..99] /\ chip.now = t
  BY <1>1 DEF IsTime
<1>3. TypeInv
  BY <1>1, <1>2 DEF Init, TypeInv, Unset, Fields, Second, Blank
<1> QED BY <1>3 DEF Init, RtcInv, PassInv, DoneInv

(* Steps of the chip: the time moves on, and no pass's registers change.   *)
LEMMA ChipType ==
  ASSUME TypeInv, RaiseFlag \/ ChipStep
  PROVE  TypeInv'
<1> USE RtcAssumption
<1>1. CASE RaiseFlag
  BY <1>1 DEF TypeInv, RaiseFlag, Driver
<1>2. CASE BeginUpdate
  BY <1>2 DEF TypeInv, BeginUpdate, Driver
<1>3. CASE EndUpdate
  <2>1. IsTime(chip.now)
    BY DEF TypeInv
  <2>2. IsTime(Later(chip.now)) /\ Later(chip.now) \in [Fields -> 0..99]
    BY <2>1, LaterIsTime DEF IsTime
  <2>3. chip' \in [now : {t \in [Fields -> 0..99] : IsTime(t)},
                   phase : {"steady", "rising", "updating"}, quiet : 0..Spacing]
    BY <1>3, <2>2 DEF EndUpdate
  <2> QED BY <1>3, <2>2, <2>3 DEF TypeInv, EndUpdate, Driver
<1> QED BY <1>1, <1>2, <1>3 DEF ChipStep

LEMMA ChipPasses ==
  ASSUME RtcInv, RaiseFlag \/ ChipStep
  PROVE  PassInv' /\ DoneInv'
<1> USE RtcAssumption
<1>1. /\ mode' = mode /\ pc' = pc /\ next' = next /\ hold' = hold
      /\ last' = last /\ shown \subseteq shown'
  BY DEF RaiseFlag, ChipStep, BeginUpdate, EndUpdate, Driver
<1>2. \A t, i : Register(t, i)' = Register(t, i)
  BY <1>1 DEF Register, Digits
<1>3. /\ Clean(last) => Clean(last)'
      /\ Clean(hold) => Clean(hold)'
  BY <1>1, <1>2 DEF Clean
<1>4. \A n \in 0..Spacing - 1 : Disturbed(n) => Disturbed(n)'
  BY DEF RtcInv, TypeInv, Disturbed, RaiseFlag, ChipStep, BeginUpdate, EndUpdate
<1>5. \A k \in 0..5 : ThisPass(k) => ThisPass(k)'
  <2> SUFFICES ASSUME NEW k \in 0..5, ThisPass(k)
               PROVE  ThisPass(k)'
    OBVIOUS
  <2>1. CASE k = 0
    BY <2>1 DEF ThisPass, Agrees
  <2>2. CASE k # 0 /\ Disturbed(k - 1)
    BY <1>4, <2>2 DEF ThisPass
  <2>3. CASE k # 0 /\ Agrees(chip.now, k)
    <3>1. CASE EndUpdate
      BY <2>3, <3>1 DEF ThisPass, Disturbed, EndUpdate
    <3>2. CASE ~EndUpdate
      <4>1. chip'.now = chip.now
        BY <3>2 DEF RtcInv, TypeInv, RaiseFlag, ChipStep, BeginUpdate
      <4> QED BY <1>1, <1>2, <2>3, <4>1 DEF ThisPass, Agrees
    <3> QED BY <3>1, <3>2
  <2> QED BY <2>1, <2>2, <2>3 DEF ThisPass
<1>6. \A k \in 0..5 : LastPass(k) => LastPass(k)'
  <2>1. \A k \in 0..5 : ~(chip.phase = "steady" /\ chip.quiet <= 5 + k)
    BY DEF RtcInv, TypeInv, RaiseFlag, ChipStep, BeginUpdate, EndUpdate
  <2> QED BY <1>1, <1>3, <2>1 DEF LastPass
<1>7. next - 1 \in 0..5
  BY DEF RtcInv, TypeInv, Fields
<1>8. PassInv'
  BY <1>1, <1>3, <1>4, <1>5, <1>6, <1>7 DEF RtcInv, PassInv
<1>9. DoneInv'
  BY <1>1 DEF RtcInv, DoneInv, Reported
<1> QED BY <1>8, <1>9

(* Steps of the driver.                                                    *)
LEMMA SetIsNotUnset ==
  ASSUME NEW r \in [Fields -> 0..255]
  PROVE  r # Unset
<1>1. DOMAIN Unset = {}
  BY DEF Unset
<1>2. DOMAIN r = Fields /\ Second \in Fields
  BY DEF Fields, Second
<1> QED BY <1>1, <1>2

LEMMA DriverType ==
  ASSUME TypeInv, DriverStep
  PROVE  TypeInv'
<1> USE RtcAssumption
<1>1. CASE SeeFlagClear
  BY <1>1 DEF TypeInv, SeeFlagClear, Fields, Second
<1>2. CASE ReadRegister
  <2>1. Readable(next) \subseteq 0..255
    <3>1. IsTime(chip.now) /\ next \in Fields
      BY DEF TypeInv
    <3> QED BY <3>1, LaterIsTime, RegisterByte DEF Readable, Neither
  <2>2. hold' \in [Fields -> 0..255]
    BY <1>2, <2>1 DEF ReadRegister, TypeInv
  <2>3. next' \in Fields
    BY <1>2 DEF ReadRegister, TypeInv, Fields, Year
  <2>4. chip' \in [now : {t \in [Fields -> 0..99] : IsTime(t)},
                   phase : {"steady", "rising", "updating"}, quiet : 0..Spacing]
    BY <1>2 DEF ReadRegister, TypeInv
  <2>5. chip'.now = chip.now /\ (chip.quiet = Spacing => chip'.quiet = Spacing)
        /\ chip'.phase = chip.phase
    BY <1>2 DEF ReadRegister, TypeInv
  <2> QED BY <1>2, <2>2, <2>3, <2>4, <2>5 DEF ReadRegister, TypeInv, AfterPass
<1>3. CASE SavePass
  <2>1. Saved # Unset /\ Saved \in [Fields -> 0..255]
    BY <1>3, SetIsNotUnset DEF SavePass, Saved, TypeInv
  <2> QED BY <1>3, <2>1 DEF SavePass, TypeInv
<1>4. CASE ReadAgain
  BY <1>4 DEF ReadAgain, TypeInv
<1>5. CASE Decode
  BY <1>5 DEF Decode, TypeInv
<1> QED BY <1>1, <1>2, <1>3, <1>4, <1>5 DEF DriverStep

(* A register that is read while no update goes on is the chip's.          *)
LEMMA ReadPasses ==
  ASSUME RtcInv, ReadRegister
  PROVE  PassInv'
<1> USE RtcAssumption
<1>0. PICK k \in 0..5 : k = next - 1
  BY DEF RtcInv, TypeInv, Fields
<1>1. /\ pc = "read" /\ next = k + 1 /\ next \in Fields
      /\ ThisPass(k) /\ LastPass(k)
  BY <1>0 DEF RtcInv, TypeInv, PassInv, ReadRegister, Fields
<1>2. /\ mode' = mode /\ last' = last /\ shown' = shown
      /\ chip'.now = chip.now /\ chip'.phase = chip.phase
      /\ chip.quiet \in 0..Spacing
      /\ chip'.quiet = IF chip.quiet < Spacing THEN chip.quiet + 1 ELSE chip.quiet
  BY DEF ReadRegister, RtcInv, TypeInv
<1>3. \A t, i : Register(t, i)' = Register(t, i)
  BY <1>2 DEF Register, Digits
<1>4. PICK v \in Readable(next) : hold' = [hold EXCEPT ![next] = v]
  BY DEF ReadRegister
<1>5. \A i \in Fields : hold'[i] = IF i = next THEN v ELSE hold[i]
  BY <1>1, <1>4 DEF RtcInv, TypeInv
<1>6. ASSUME Agrees(chip.now, k), chip.phase # "updating"
      PROVE  Agrees(chip.now, k + 1)'
  <2>1. v = Register(chip.now, next)
    BY <1>4, <1>6 DEF Readable
  <2>2. \A i \in 1..(k + 1) : i \in Fields /\ (i = next \/ i \in 1..k)
    BY <1>1 DEF Fields
  <2> QED BY <1>2, <1>3, <1>5, <1>6, <2>1, <2>2 DEF Agrees
<1>7. ThisPass(k + 1)'
  BY <1>1, <1>2, <1>6 DEF ThisPass, Disturbed
<1>8. LastPass(k + 1)'
  <2>1. Clean(last) => Clean(last)'
    BY <1>2, <1>3 DEF Clean
  <2>2. ASSUME chip.phase = "steady", chip.quiet <= 5 + k, Agrees(chip.now, k)
        PROVE  chip'.phase = "steady" /\ chip'.quiet <= 5 + (k + 1)
               /\ Agrees(chip.now, k + 1)'
    BY <1>1, <1>2, <1>6, <2>2
  <2> QED BY <1>1, <1>2, <2>1, <2>2 DEF LastPass
<1>9. CASE next # Year
  <2>1. pc' = "read" /\ next' - 1 = k + 1
    BY <1>1, <1>9 DEF ReadRegister, Fields
  <2> QED BY <1>7, <1>8, <2>1 DEF PassInv
<1>10. CASE next = Year
  <2>1. k + 1 = 6 /\ pc' = AfterPass
    BY <1>1, <1>10 DEF ReadRegister, Year
  <2>2. Agrees(chip.now, 6)' => Clean(hold)'
    BY <1>2 DEF RtcInv, TypeInv, Agrees, Clean, Fields
  <2>3. Clean(hold)' \/ Disturbed(5)'
    BY <1>7, <2>1, <2>2 DEF ThisPass
  <2>4. pc' = "compare" => Clean(last)' \/ Clean(hold)'
    BY <1>2, <1>8, <2>1, <2>2 DEF LastPass, AfterPass
  <2> QED BY <2>1, <2>3, <2>4 DEF PassInv, AfterPass
<1> QED BY <1>9, <1>10

LEMMA DriverPasses ==
  ASSUME RtcInv, DriverStep
  PROVE  PassInv'
<1> USE RtcAssumption
<1>1. CASE SeeFlagClear
  <2>1. /\ chip' = chip /\ mode' = mode /\ last' = last /\ shown' = shown
        /\ pc' = "read" /\ next' - 1 = 0 /\ chip.phase = "steady"
        /\ last = Unset \/ Clean(last) \/ Disturbed(5)
    BY <1>1 DEF SeeFlagClear, FlagUp, Second, RtcInv, TypeInv, PassInv
  <2>2. ThisPass(0)'
    BY DEF ThisPass, Agrees
  <2>3. Clean(last) => Clean(last)'
    BY <2>1 DEF Clean, Register, Digits
  <2>4. LastPass(0)'
    BY <2>1, <2>3 DEF LastPass, Disturbed, Agrees
  <2> QED BY <2>1, <2>2, <2>4 DEF PassInv
<1>2. CASE ReadRegister
  BY <1>2, ReadPasses
<1>3. CASE SavePass
  <2>1. Clean(hold) => Clean(last)'
    BY <1>3 DEF SavePass, Saved, Clean, Register, Digits
  <2>2. Disturbed(5)' <=> Disturbed(5)
    BY <1>3 DEF SavePass, Disturbed
  <2> QED BY <1>3, <2>1, <2>2 DEF SavePass, RtcInv, PassInv
<1>4. CASE ReadAgain
  <2>1. /\ Clean(hold) => Clean(hold)'
        /\ Disturbed(5)' <=> Disturbed(5)
    BY <1>4 DEF ReadAgain, Clean, Disturbed, Register, Digits
  <2> QED BY <1>4, <2>1 DEF ReadAgain, RtcInv, PassInv
<1>5. CASE Decode
  BY <1>5 DEF Decode, PassInv
<1> QED BY <1>1, <1>2, <1>3, <1>4, <1>5 DEF DriverStep

(* Of two equal passes one is clean, so what is decoded is.                *)
LEMMA SameIsClean ==
  ASSUME RtcInv, pc = "compare", Same
  PROVE  Clean(hold)
  BY DEF RtcInv, PassInv, Same

LEMMA DriverDone ==
  ASSUME RtcInv, DriverStep
  PROVE  DoneInv'
<1>1. CASE Decode
  <2>1. PICK t \in shown : \A i \in Fields : hold[i] = Register(t, i)
    BY <1>1, SameIsClean DEF Decode, Clean
  <2>2. hold' = [t EXCEPT ![Hour] = Reported(@), ![Year] = YearOf(@)]
    BY <1>1, <2>1, DecodedIsTheTime DEF Decode, RtcInv, TypeInv
  <2>3. shown' = shown /\ \A h : Reported(h)' = Reported(h)
    BY <1>1 DEF Decode, Reported
  <2> QED BY <2>2, <2>3 DEF DoneInv
<1>2. CASE ~Decode
  <2>1. pc' # "done"
    BY <1>2 DEF DriverStep, SeeFlagClear, ReadRegister, SavePass, ReadAgain,
                AfterPass
  <2> QED BY <2>1 DEF DoneInv
<1> QED BY <1>1, <1>2

LEMMA RtcInvStep ==
  ASSUME RtcInv, [Next]_vars
  PROVE  RtcInv'
<1>1. CASE RaiseFlag \/ ChipStep
  BY <1>1, ChipType, ChipPasses DEF RtcInv
<1>2. CASE DriverStep
  BY <1>2, DriverType, DriverPasses, DriverDone DEF RtcInv
<1>3. CASE UNCHANGED vars
  BY <1>3 DEF vars, RtcInv, TypeInv, PassInv, DoneInv, ThisPass, LastPass,
              Agrees, Clean, Disturbed, Register, Digits, Reported
<1> QED BY <1>1, <1>2, <1>3 DEF Next

THEOREM RtcInvariant == Spec => []RtcInv
<1>1. RtcInv /\ [Next]_vars => RtcInv'
  BY RtcInvStep
<1> QED BY RtcInvInit, <1>1, PTL DEF Spec

-----------------------------------------------------------------------------
(***************************************************************************)
(* What the runs check.                                                    *)
(***************************************************************************)
LEMMA ReportedBounds ==
  ASSUME NEW h \in 0..23
  PROVE  Reported(h) \in 0..23
  BY DEF Reported

Holdable == 0..2199

LEMMA FitsIn16Bits ==
  ASSUME NEW n \in Holdable
  PROVE  U16(n) = n
  BY DEF U16, Holdable

LEMMA DoneIsATime ==
  ASSUME RtcInv, pc = "done"
  PROVE  /\ hold \in [Fields -> 0..2199]
         /\ \A i \in Fields \ {Year} : hold[i] \in 0..<<59, 59, 23, 31, 12>>[i]
         /\ Now = hold
<1>1. PICK t \in shown :
        hold = [t EXCEPT ![Hour] = Reported(@), ![Year] = YearOf(@)]
  BY DEF RtcInv, DoneInv
<1>2. IsTime(t) /\ t \in [Fields -> 0..99]
  BY DEF RtcInv, TypeInv, IsTime
<1>3. t[1] \in 0..59 /\ t[2] \in 0..59 /\ t[3] \in 0..23 /\ t[4] \in 1..31
      /\ t[5] \in 1..12 /\ t[6] \in 0..99
  BY <1>2, HighestValues, DaysInBounds DEF IsTime, Lowest, Fields
<1>4. Reported(t[3]) \in 0..23
  BY <1>3, ReportedBounds
<1>5. YearOf(t[6]) \in 2021..2120
  BY <1>3 DEF YearOf
<1>6. /\ hold[1] = t[1] /\ hold[2] = t[2] /\ hold[3] = Reported(t[3])
      /\ hold[4] = t[4] /\ hold[5] = t[5] /\ hold[6] = YearOf(t[6])
      /\ hold \in [Fields -> Nat]
  <2>1. hold \in [Fields -> Nat]
    BY <1>1, <1>2, <1>3, <1>4, <1>5 DEF Fields, Hour, Year
  <2>2. \A i \in Fields : hold[i] = IF i = Year THEN YearOf(t[6])
                                    ELSE IF i = Hour THEN Reported(t[3]) ELSE t[i]
    BY <1>1, <1>2 DEF Fields, Hour, Year
  <2> QED BY <2>1, <2>2 DEF Fields, Hour, Year
<1>7. \A i \in Fields : hold[i] \in 0..2199
  BY <1>3, <1>4, <1>5, <1>6 DEF Fields
<1>8. \A i \in Fields \ {Year} : hold[i] \in 0..<<59, 59, 23, 31, 12>>[i]
  BY <1>3, <1>4, <1>6 DEF Fields, Year
<1>9. Now = hold
  <2>1. ASSUME NEW i \in Fields PROVE U16(hold[i]) = hold[i]
    <3>1. hold[i] \in Holdable
      BY <1>7 DEF Holdable
    <3> QED BY <3>1, FitsIn16Bits
  <2> QED BY <1>6, <2>1 DEF Now
<1> QED BY <1>6, <1>7, <1>8, <1>9

(* The time that Update decodes and now() returns is one that the chip     *)
(* showed during the call, for any moments of the years 2021 to 2120 and   *)
(* however many updates disturb the passes -- but for the hours that begin *)
(* at noon and at midnight: the twelve hour format, in which Update does   *)
(* not adjust them, makes 0 of noon and 12 of midnight (Reported).  Two    *)
(* passes must not be long enough for two updates.                         *)
THEOREM RtcReadsTheTime == Spec => []ReadsTheTime
<1>1. ASSUME RtcInv PROVE ReadsTheTime
  <2>1. TypeOK
    BY <1>1, DoneIsATime DEF RtcInv, TypeInv, TypeOK
  <2>2. Snapshot
    BY <1>1, SameIsClean DEF Snapshot, Clean
  <2>3. pc = "done" =>
          \E t \in shown :
            Now = [t EXCEPT ![Hour] = Reported(@), ![Year] = YearOf(@)]
    BY <1>1, DoneIsATime DEF RtcInv, DoneInv
  <2> QED BY <2>1, <2>2, <2>3 DEF ReadsTheTime
<1> QED BY <1>1, RtcInvariant, PTL

-----------------------------------------------------------------------------
(***************************************************************************)
(* The timer.                                                              *)
(***************************************************************************)
(* What the counter reads n interrupts after it read f, and whether that   *)
(* is a whole second.                                                      *)
Moment(f, n) == (f + n) % Double
Whole(f, n)  == Moment(f, n) % Phase = 0
Wrapped(f, n) == IF f + n < Double THEN 0 ELSE 1

NoWhole(f, a, b) == \A n \in (a + 1)..(b - 1) : ~Whole(f, n)

(* How many steps of Sleep there are at most to the end of the next Test,  *)
(* and of the next TestPhase.                                              *)
ToTest(l) == IF l = "test" THEN 1
             ELSE IF l \in {"enter", "count"} THEN 2
             ELSE IF l = "old" THEN 3 ELSE 4

ToPhase(l) == IF l = "phase" THEN 1
              ELSE IF l = "test" THEN 2
              ELSE IF l \in {"enter", "count"} THEN 3 ELSE 4

(* A call that will be on time has not waited too long, and tests the      *)
(* counter before the tick that it waits for is over.                      *)
OnTime(f, g, s, l, k) ==
  f + Phase * s < Word =>
    /\ g <= Phase * s
    /\ g = Phase * s => k + ToTest(l) <= 4

(* The n seconds that have been counted up to moment u are not too few:    *)
(* the next is not far; nor too many: each is counted twice at most.       *)
Enough(f, u, n) ==
  \E j \in (u + 1)..((n + 1) * Phase + 1 + Wrapped(f, u)) : Whole(f, j)

AtMostTwice(f, u, n) ==
  /\ n * Phase <= 2 * u + Phase + 2 * Phase * Wrapped(f, u)
                    + (IF Whole(f, u) THEN 0 ELSE Phase - 2)
  /\ Whole(f, u) \/ n = 0 \/ (u >= 1 /\ Whole(f, u - 1))

(* In a call of g interrupts, k steps after the last, with step l next: no  *)
(* second has been missed since moment u, and the one that begins now will *)
(* be seen before the next tick.                                           *)
Looking(f, g, l, k, u) ==
  l \in {"test", "phase"} =>
    /\ NoWhole(f, u, g)
    /\ u < g /\ Whole(f, g) => k + ToPhase(l) <= 4

(* A second has been found at v, and at most a tick has come since.        *)
FoundAt(f, g, l, k, u, v) ==
  /\ Whole(f, v) /\ NoWhole(f, u, v)
  /\ l = "old" => v = g \/ (v = g - 1 /\ k = 0)
  /\ l = "count" => (v = g /\ u < v) \/ (v = g - 1 /\ k <= 1)

Found(f, g, l, k, u) ==
  l \in {"old", "count"} => \E v \in u..g : FoundAt(f, g, l, k, u, v)

(* old was read at moment u of the call.                                   *)
Kept(u) ==
  /\ old = Moment(call.from, u)
  /\ Enough(call.from, u, counted) /\ AtMostTwice(call.from, u, counted)
  /\ Looking(call.from, call.gone, at, steps, u)
  /\ Found(call.from, call.gone, at, steps, u)

CallInv ==
  at # "idle" =>
    /\ call.secs \in Seconds /\ call.from \in 0..(Double - 1)
    /\ counted < Patience
    /\ ticks = Moment(call.from, call.gone)
    /\ target = TargetOf(call.from, call.secs)
    /\ OnTime(call.from, call.gone, call.secs, at, steps)
    /\ at = "enter" => /\ counted = 0
                       /\ call.gone = 0 \/ (call.gone = 1 /\ steps = 0)
    /\ at # "enter" => \E u \in 0..call.gone : Kept(u)

PitInv ==
  /\ PitTypeOK
  /\ call \in [secs : Nat, from : Nat, gone : Nat]
  /\ CallInv

-----------------------------------------------------------------------------
(***************************************************************************)
(* Whole seconds.                                                          *)
(***************************************************************************)
LEMMA Divided ==
  ASSUME NEW c \in Nat \ {0}, NEW x \in Nat
  PROVE  /\ x % c \in 0..(c - 1)
         /\ \A q \in Nat, r \in 0..(c - 1) : x = q * c + r => x % c = r
         /\ \E q \in Nat : x = q * c + (x % c)
<1>1. ASSUME NEW q \in Nat, NEW r \in 0..(c - 1), x = q * c + r PROVE x % c = r
  BY <1>1
<1>2. x % c \in 0..(c - 1)
  OBVIOUS
<1>3. x = (x \div c) * c + (x % c) /\ x \div c \in Nat
  OBVIOUS
<1> QED BY <1>1, <1>2, <1>3

LEMMA OnceRound ==
  ASSUME NEW c \in Nat \ {0}, NEW x \in 0..(2 * c - 1)
  PROVE  x % c = IF x < c THEN x ELSE x - c
<1>1. CASE x < c
  <2>1. x = 0 * c + x /\ x \in 0..(c - 1)
    BY <1>1
  <2> QED BY <1>1, <2>1, Divided
<1>2. CASE x >= c
  <2>1. PICK r \in 0..(c - 1) : r = x - c
    BY <1>2
  <2>2. x = 1 * c + r /\ 1 \in Nat
    BY <2>1
  <2>3. x % c = r
    BY <2>2, Divided
  <2> QED BY <1>2, <2>1, <2>3
<1> QED BY <1>1, <1>2

LEMMA MultiplesApart ==
  ASSUME NEW c \in Nat \ {0}, NEW x \in Nat, NEW y \in Nat,
         x % c = 0, y % c = 0, x < y
  PROVE  y >= x + c
<1>1. PICK p \in Nat : x = p * c
  <2>1. PICK p \in Nat : x = p * c + (x % c)
    BY Divided
  <2>2. p * c \in Nat
    OBVIOUS
  <2> QED BY <2>1, <2>2
<1>2. PICK q \in Nat : y = q * c
  <2>1. PICK q \in Nat : y = q * c + (y % c)
    BY Divided
  <2>2. q * c \in Nat
    OBVIOUS
  <2> QED BY <2>1, <2>2
<1>3. p < q
  <2>1. SUFFICES ASSUME q <= p PROVE FALSE
    OBVIOUS
  <2>2. PICK d \in Nat : p = q + d
    BY <2>1
  <2>3. p * c = q * c + d * c /\ d * c \in Nat
    BY <2>2
  <2> QED BY <1>1, <1>2, <2>3
<1>4. PICK d \in Nat : q = p + 1 + d
  BY <1>3
<1>5. q * c = p * c + c + d * c /\ d * c \in Nat
  BY <1>4
<1> QED BY <1>1, <1>2, <1>5

LEMMA MultipleNext ==
  ASSUME NEW c \in Nat \ {0}, NEW x \in Nat
  PROVE  \E y \in (x + 1)..(x + c) : y % c = 0
<1>1. PICK q \in Nat : x = q * c + (x % c)
  BY Divided
<1>2. x % c \in 0..(c - 1)
  OBVIOUS
<1>3. (q + 1) * c = q * c + c /\ q * c \in Nat
  OBVIOUS
<1>4. (q + 1) * c \in (x + 1)..(x + c)
  BY <1>1, <1>2, <1>3
<1>5. ((q + 1) * c) % c = 0
  <2>1. (q + 1) * c = (q + 1) * c + 0 /\ q + 1 \in Nat /\ (q + 1) * c \in Nat
    OBVIOUS
  <2> QED BY <2>1, Divided
<1> QED BY <1>4, <1>5

(***************************************************************************)
(* The sizes.                                                              *)
(***************************************************************************)
LEMMA Sizes ==
  /\ Phase \in Nat /\ Phase >= 4 /\ Double \in Nat \ {0} /\ Word \in Nat \ {0}
  /\ Patience \in Nat \ {0} /\ Patience * Phase \in Nat
  /\ TooLate = Patience * Phase + Phase /\ TooLate \in Nat
  /\ TooLate < Double
  /\ 2 * Word + 4 * Phase < Patience * Phase
  /\ \A s \in Seconds : /\ s \in Nat /\ Phase * s \in Nat
                        /\ Phase <= Phase * s /\ Phase * s < Word
                        /\ TooLate + Phase < Double
  /\ StepsBetween \in Nat /\ StepsBetween >= 4 /\ Double % Word = 0
<1>1. /\ Phase \in Nat /\ Phase >= 4 /\ Double \in Nat \ {0} /\ Word \in Nat \ {0}
      /\ Patience \in Nat \ {0}
      /\ StepsBetween \in Nat /\ StepsBetween >= 4 /\ Double % Word = 0
      /\ 2 * Word < (Patience - 4) * Phase /\ Word + (Patience + 1) * Phase < Double
      /\ \A s \in Seconds : s \in Nat \ {0} /\ Phase * s < Word
  BY PitAssumption
<1>2. /\ Patience * Phase \in Nat /\ (Patience + 1) * Phase = Patience * Phase + Phase
      /\ (Patience - 4) * Phase = Patience * Phase - 4 * Phase
  BY <1>1
<1>3. ASSUME NEW s \in Seconds
      PROVE  Phase * s \in Nat /\ Phase <= Phase * s
  <2>1. PICK k \in Nat : s = k + 1
    <3>1. s \in Nat /\ s # 0
      BY <1>1
    <3>2. s - 1 \in Nat /\ s = (s - 1) + 1
      BY <3>1
    <3> QED BY <3>2
  <2>2. Phase * s = Phase * k + Phase /\ Phase * k \in Nat
    BY <1>1, <2>1
  <2> QED BY <1>1, <2>2
<1>4. TooLate = Patience * Phase + Phase
  BY <1>2 DEF TooLate
<1> DEFINE pp == Patience * Phase
<1>5. /\ pp \in Nat /\ TooLate = pp + Phase /\ 2 * Word < pp - 4 * Phase
      /\ Word + (pp + Phase) < Double
  BY <1>1, <1>2, <1>4
<1> HIDE DEF pp
<1>6. TooLate \in Nat /\ TooLate < Double /\ 2 * Word + 4 * Phase < pp
  BY <1>1, <1>5
<1>7. ASSUME NEW s \in Seconds PROVE TooLate + Phase < Double
  BY <1>1, <1>3, <1>5
<1> QED BY <1>1, <1>2, <1>3, <1>4, <1>6, <1>7 DEF pp

LEMMA Divisors == Phase \in Nat \ {0} /\ Double \in Nat \ {0}
BY PitAssumption

(* In a call the counter begins again at 0 at most once.                   *)
LEMMA InCall ==
  ASSUME NEW f \in 0..(Double - 1), NEW n \in Nat, n < Double
  PROVE  /\ Moment(f, n) = IF f + n < Double THEN f + n ELSE f + n - Double
         /\ Moment(f, n) \in 0..(Double - 1)
<1>1. PICK d \in Nat \ {0} : d = Double
  BY Divisors
<1>2. PICK x \in Nat : x = f + n
  BY <1>1
<1>3. x \in 0..(2 * d - 1)
  BY <1>1, <1>2
<1>4. x % d = IF x < d THEN x ELSE x - d
  BY <1>3, OnceRound
<1>5. Moment(f, n) = IF x < d THEN x ELSE x - d
  BY <1>1, <1>2, <1>4 DEF Moment
<1> QED BY <1>1, <1>2, <1>3, <1>5

LEMMA MomentsDiffer ==
  ASSUME NEW f \in 0..(Double - 1), NEW m \in Nat, NEW n \in Nat,
         m < n, n < Double
  PROVE  Moment(f, m) # Moment(f, n)
<1>1. /\ Moment(f, n) = IF f + n < Double THEN f + n ELSE f + n - Double
      /\ Moment(f, m) = IF f + m < Double THEN f + m ELSE f + m - Double
  <2>1. m < Double
    BY Divisors
  <2> QED BY <2>1, Divisors, InCall
<1> QED BY <1>1, Divisors

LEMMA WholesApart ==
  ASSUME NEW f \in 0..(Double - 1), NEW m \in Nat, NEW n \in Nat,
         m < n, n < Double, Whole(f, m), Whole(f, n),
         Wrapped(f, m) = Wrapped(f, n)
  PROVE  n >= m + Phase
<1> DEFINE x == Moment(f, m)
           y == Moment(f, n)
<1>1. /\ y = IF f + n < Double THEN f + n ELSE f + n - Double
      /\ x = IF f + m < Double THEN f + m ELSE f + m - Double
      /\ x \in Nat /\ y \in Nat
  <2>1. m < Double
    BY Divisors
  <2> QED BY <2>1, Divisors, InCall
<1>2. x % Phase = 0 /\ y % Phase = 0
  BY DEF Whole
<1>3. f + m < Double <=> f + n < Double
  BY Divisors DEF Wrapped
<1> HIDE DEF x, y
<1>4. x < y /\ y - x = n - m
  BY <1>1, <1>3, Divisors
<1>5. y >= x + Phase
  BY <1>1, <1>2, <1>4, Divisors, MultiplesApart
<1> QED BY <1>1, <1>4, <1>5, Divisors

LEMMA WholeSoon ==
  ASSUME NEW f \in 0..(Double - 1), NEW m \in Nat, m + Phase < Double
  PROVE  \E n \in (m + 1)..(m + Phase) : Whole(f, n)
<1>0. m < Double
  BY Divisors
<1>1. CASE f + m < Double /\ f + m + Phase >= Double
  <2>1. PICK n \in Nat : n = Double - f
    BY Divisors
  <2>2. n \in (m + 1)..(m + Phase) /\ n < Double
    BY <1>1, <2>1, Divisors
  <2>3. Moment(f, n) = 0
    BY <2>1, <2>2, Divisors, InCall
  <2>4. 0 % Phase = 0
    <3>1. 0 = 0 * Phase + 0 /\ 0 \in 0..(Phase - 1)
      BY Divisors
    <3> QED BY <3>1, Divisors, Divided
  <2> QED BY <2>2, <2>3, <2>4 DEF Whole
<1>2. CASE ~(f + m < Double /\ f + m + Phase >= Double)
  <2>1. PICK x \in Nat : x = Moment(f, m)
    BY <1>0, Divisors, InCall
  <2>2. PICK y \in (x + 1)..(x + Phase) : y % Phase = 0
    BY <2>1, Divisors, MultipleNext
  <2>3. PICK n \in Nat : n = m + (y - x)
    BY <2>1, <2>2, Divisors
  <2>4. n \in (m + 1)..(m + Phase) /\ n < Double
    BY <2>2, <2>3, Divisors
  <2>5. x = IF f + m < Double THEN f + m ELSE f + m - Double
    BY <1>0, <2>1, Divisors, InCall
  <2>6. Moment(f, n) = IF f + n < Double THEN f + n ELSE f + n - Double
    BY <2>4, Divisors, InCall
  <2>7. Moment(f, n) = y
    BY <1>2, <2>2, <2>3, <2>4, <2>5, <2>6, Divisors
  <2> QED BY <2>2, <2>4, <2>7 DEF Whole
<1> QED BY <1>1, <1>2

(* A second that begins at v is the next one after u, or u itself.         *)
LEMMA CountedOnce ==
  ASSUME NEW f \in 0..(Double - 1), NEW u \in Nat, NEW v \in Nat, NEW w \in Nat,
         NEW n \in Nat,
         u <= v, w = v \/ w = v + 1, u = v => w = v + 1, w + Phase < Double,
         Whole(f, v), NoWhole(f, u, v), Enough(f, u, n), AtMostTwice(f, u, n)
  PROVE  Enough(f, w, n + 1) /\ AtMostTwice(f, w, n + 1) /\ w <= (n + 1) * Phase + 3
<1> DEFINE np == n * Phase
           mp == (n + 1) * Phase
           qp == (n + 1 + 1) * Phase
<1>1. np \in Nat /\ mp = np + Phase /\ qp = np + Phase + Phase
  BY Divisors
<1>2. PICK p \in Nat : p = Phase /\ p >= 4
  BY Sizes
<1>3. PICK d \in Nat : d = Double /\ d > 0
  BY Divisors
<1>4. PICK j \in (u + 1)..(mp + 1 + Wrapped(f, u)) : Whole(f, j)
  BY DEF Enough
<1>5. PICK a \in {0, 1} : a = Wrapped(f, u)
  BY DEF Wrapped
<1>6. PICK b \in {0, 1} : b = Wrapped(f, v)
  BY DEF Wrapped
<1>7. PICK c \in {0, 1} : c = Wrapped(f, w)
  BY DEF Wrapped
<1>8. a <= b /\ b <= c /\ c <= b + 1 /\ (w = v => c = b)
  BY <1>3, <1>5, <1>6, <1>7 DEF Wrapped
<1>9. j \in Nat /\ u < j /\ j <= np + p + 1 + a
  BY <1>1, <1>2, <1>4, <1>5
<1>10. u < v => v <= j
  BY <1>4, <1>9 DEF NoWhole
<1>11. w <= j + 1 /\ v <= j /\ w <= np + p + 3
  <2>1. v <= j
    BY <1>9, <1>10
  <2>2. w <= j + 1
    BY <1>9, <2>1
  <2>3. j <= np + p + 2
    BY <1>1, <1>2, <1>5, <1>9
  <2> QED BY <1>1, <1>2, <1>9, <2>1, <2>2, <2>3
<1> HIDE DEF np, mp, qp
<1>12. v + Phase < Double /\ v < Double /\ w < Double
  BY Divisors
<1>13. ASSUME w = v + 1, Whole(f, w) PROVE b = 0 /\ c = 1
  <2>1. SUFFICES ASSUME b = c PROVE FALSE
    BY <1>8
  <2>2. v < w /\ Wrapped(f, v) = Wrapped(f, w)
    BY <1>6, <1>7, <1>13, <2>1
  <2>3. w >= v + Phase
    BY <1>13, <1>12, <2>2, WholesApart
  <2> QED BY <1>2, <1>13, <2>3
<1>14. PICK k \in (w + 1)..(w + p) : Whole(f, k)
  BY <1>2, WholeSoon
<1>15. PICK l \in (v + 1)..(v + p) : Whole(f, l)
  BY <1>2, <1>12, WholeSoon
<1>16. Enough(f, w, n + 1)
  <2>1. SUFFICES \E x \in (w + 1)..(qp + 1 + c) : Whole(f, x)
    BY <1>7 DEF Enough, qp
  <2>2. qp = np + p + p
    BY <1>1, <1>2
  <2>3. CASE w = v
    <3>1. k \in (w + 1)..(qp + 1 + c)
      BY <1>1, <1>8, <1>9, <1>11, <1>14, <2>2, <2>3
    <3> QED BY <1>14, <3>1
  <2>4. CASE w = v + 1 /\ Whole(f, w)
    <3>1. k \in (w + 1)..(qp + 1 + c)
      BY <1>1, <1>8, <1>9, <1>11, <1>13, <1>14, <2>2, <2>4
    <3> QED BY <1>14, <3>1
  <2>5. CASE w = v + 1 /\ ~Whole(f, w)
    <3>1. l # w
      BY <1>15, <2>5
    <3>2. l \in (w + 1)..(qp + 1 + c)
      BY <1>1, <1>8, <1>9, <1>11, <1>15, <2>2, <2>5, <3>1
    <3> QED BY <1>15, <3>2
  <2> QED BY <2>3, <2>4, <2>5
<1>17. AtMostTwice(f, w, n + 1)
  <2> DEFINE e == IF Whole(f, u) THEN 0 ELSE Phase - 2
             g == IF Whole(f, w) THEN 0 ELSE Phase - 2
             ap == 2 * Phase * Wrapped(f, u)
             cp == 2 * Phase * Wrapped(f, w)
  <2>1. /\ np <= 2 * u + Phase + ap + e
        /\ Whole(f, u) \/ n = 0 \/ (u >= 1 /\ Whole(f, u - 1))
    BY DEF AtMostTwice, np
  <2>2. /\ ap = IF a = 0 THEN 0 ELSE p + p
        /\ cp = IF c = 0 THEN 0 ELSE p + p
    BY <1>2, <1>5, <1>7
  <2>3. /\ e = IF Whole(f, u) THEN 0 ELSE p - 2
        /\ g = IF Whole(f, w) THEN 0 ELSE p - 2
    BY <1>2
  <2>4. Whole(f, w) \/ (w >= 1 /\ Whole(f, w - 1))
    BY <1>1
  <2> HIDE DEF e, g, ap, cp
  <2>5. mp <= 2 * w + Phase + cp + g
    <3>1. CASE u = v
      BY <1>1, <1>2, <1>5, <1>6, <1>8, <1>13, <2>1, <2>2, <2>3, <3>1
    <3>2. CASE u < v /\ a # b
      BY <1>1, <1>2, <1>5, <1>6, <1>7, <1>8, <2>1, <2>2, <2>3, <3>2
    <3>3. CASE u < v /\ a = b /\ Whole(f, u)
      <4>1. v >= u + p
        BY <1>2, <1>5, <1>6, <1>12, <3>3, Divisors, WholesApart
      <4> QED BY <1>1, <1>2, <1>7, <1>8, <2>1, <2>2, <2>3, <3>3, <4>1
    <3>4. CASE u < v /\ a = b /\ ~Whole(f, u) /\ u >= 1 /\ Whole(f, u - 1)
      <4>1. PICK x \in Nat : x = u - 1
        BY <3>4
      <4>2. (Wrapped(f, x) = 0 /\ a = 1) \/ Wrapped(f, x) = a
        BY <1>3, <1>5, <4>1 DEF Wrapped
      <4>3. CASE Wrapped(f, x) = a
        <5>1. v >= x + p
          BY <1>2, <1>6, <1>12, <3>4, <4>1, <4>3, Divisors, WholesApart
        <5> QED BY <1>1, <1>2, <1>7, <1>8, <2>1, <2>2, <2>3, <3>4, <4>1, <5>1
      <4>4. CASE Wrapped(f, x) = 0 /\ a = 1
        <5>1. Moment(f, u) = 0
          <6>1. f + u = Double
            BY <1>3, <1>5, <4>1, <4>4 DEF Wrapped
          <6>2. u < Double
            BY <1>3, <3>4, Divisors
          <6> QED BY <6>1, <6>2, Divisors, InCall
        <5>2. 0 % Phase = 0
          <6>1. 0 = 0 * Phase + 0 /\ 0 \in 0..(Phase - 1)
            BY Divisors
          <6> QED BY <6>1, Divisors, Divided
        <5> QED BY <3>4, <5>1, <5>2 DEF Whole
      <4> QED BY <4>2, <4>3, <4>4
    <3>5. CASE u < v /\ n = 0
      <4>1. np = 0
        BY <3>5, Divisors DEF np
      <4> QED BY <1>1, <1>2, <1>7, <1>8, <2>2, <2>3, <3>5, <4>1
    <3> QED BY <1>5, <1>6, <2>1, <3>1, <3>2, <3>3, <3>4, <3>5
  <2> QED BY <2>4, <2>5 DEF AtMostTwice, e, g, ap, cp, mp
<1>18. w <= (n + 1) * Phase + 3
  BY <1>1, <1>2, <1>11 DEF mp
<1> QED BY <1>16, <1>17, <1>18

(***************************************************************************)
(* The target.                                                             *)
(***************************************************************************)
(* When the counter is at the target, the call has waited long enough.     *)
LEMMA AtTarget ==
  ASSUME NEW f \in 0..(Double - 1), NEW g \in Nat, g < Double,
         NEW s \in Seconds, Moment(f, g) = TargetOf(f, s)
  PROVE  Phase * s <= g
<1> DEFINE t == TargetOf(f, s)
           ps == Phase * s
<1>1. /\ ps \in Nat /\ ps < Word /\ Word \in Nat \ {0} /\ Double \in Nat \ {0}
      /\ f \in Nat /\ Double % Word = 0
  BY Sizes
<1>2. t = (f + ps) % Word
  BY DEF TargetOf
<1> HIDE DEF t, ps
<1>3. PICK q \in Nat : f + ps = q * Word + t
  <2>1. f + ps \in Nat
    BY <1>1
  <2>2. \E q \in Nat : f + ps = q * Word + ((f + ps) % Word)
    BY <1>1, <2>1, Divided
  <2> QED BY <1>2, <2>2
<1>4. PICK e \in Nat : Double = e * Word + (Double % Word)
  BY <1>1, Divided
<1>5. t \in Nat
  BY <1>1, <1>2, Divided
<1>6. t = IF f + g < Double THEN f + g ELSE f + g - Double
  BY InCall DEF t
<1>7. /\ q * Word \in Nat /\ e * Word \in Nat /\ Double = e * Word
      /\ 0 * Word = 0
  BY <1>1, <1>4
<1>8. PICK m \in Nat : f + g = m * Word + t
  BY <1>1, <1>5, <1>6, <1>7
<1>9. SUFFICES ASSUME g < ps PROVE FALSE
  BY <1>1 DEF ps
<1>10. m * Word \in Nat
  BY <1>1
<1>11. m * Word < q * Word /\ q * Word - m * Word < Word
  BY <1>1, <1>3, <1>5, <1>7, <1>8, <1>9, <1>10
<1>12. ~(q <= m)
  <2>1. SUFFICES ASSUME q <= m PROVE FALSE
    OBVIOUS
  <2>2. PICK d \in Nat : m = q + d
    BY <2>1
  <2>3. m * Word = q * Word + d * Word /\ d * Word \in Nat
    BY <1>1, <2>2
  <2> QED BY <1>7, <1>11, <2>3
<1>13. PICK d \in Nat : q = m + 1 + d
  BY <1>12
<1>14. q * Word = m * Word + Word + d * Word /\ d * Word \in Nat
  BY <1>1, <1>13
<1> QED BY <1>1, <1>10, <1>11, <1>14

(* A target that fits in 16 bits is where the counter is after so many     *)
(* interrupts.                                                             *)
LEMMA TargetFits ==
  ASSUME NEW f \in 0..(Double - 1), NEW s \in Seconds, f + Phase * s < Word
  PROVE  Moment(f, Phase * s) = TargetOf(f, s)
<1> DEFINE ps == Phase * s
<1>1. /\ ps \in Nat /\ Word \in Nat \ {0} /\ f \in Nat /\ Word <= Double /\ f + ps < Word
  BY Sizes
<1> HIDE DEF ps
<1>2. ps < Double /\ f + ps < Double
  BY <1>1, Divisors
<1>3. Moment(f, ps) = f + ps
  BY <1>1, <1>2, InCall
<1>4. f + ps \in 0..(2 * Word - 1)
  BY <1>1
<1>5. (f + ps) % Word = f + ps
  BY <1>1, <1>4, OnceRound
<1> QED BY <1>3, <1>5 DEF TargetOf, ps

(* A call that counts to the end has waited longer than the target's       *)
(* range.                                                                  *)
LEMMA CountedOut ==
  ASSUME NEW f \in 0..(Double - 1), NEW w \in Nat, AtMostTwice(f, w, Patience)
  PROVE  Word < w
<1> DEFINE pp == Patience * Phase
           c == 2 * Phase * Wrapped(f, w)
           e == IF Whole(f, w) THEN 0 ELSE Phase - 2
<1>1. pp <= 2 * w + Phase + c + e
  BY DEF AtMostTwice
<1>2. /\ Phase \in Nat /\ Phase >= 4 /\ Word \in Nat /\ pp \in Nat
      /\ 2 * Word + 4 * Phase < pp
  BY Sizes
<1>3. c \in {0, 2 * Phase}
  BY <1>2 DEF Wrapped
<1>4. e \in Nat /\ e <= Phase - 2
  BY <1>2
<1> HIDE DEF pp, c, e
<1> QED BY <1>1, <1>2, <1>3, <1>4

-----------------------------------------------------------------------------
(***************************************************************************)
(* The steps.                                                              *)
(***************************************************************************)
LEMMA InType ==
  ASSUME PitInv, at # "idle"
  PROVE  /\ call.secs \in Seconds /\ call.from \in 0..(Double - 1)
         /\ call.gone \in Nat /\ call.from \in Nat /\ call.secs \in Nat
         /\ counted \in Nat /\ counted < Patience /\ steps \in Nat
         /\ ticks = Moment(call.from, call.gone)
         /\ target = TargetOf(call.from, call.secs)
         /\ OnTime(call.from, call.gone, call.secs, at, steps)
         /\ at \in {"enter", "test", "phase", "old", "count"}
<1>1. /\ PitTypeOK /\ CallInv /\ call \in [secs : Nat, from : Nat, gone : Nat]
  BY DEF PitInv
<1>2. counted \in Nat /\ steps \in Nat
      /\ at \in {"enter", "test", "phase", "old", "count"}
  BY <1>1, Divisors DEF PitTypeOK
<1> QED BY <1>1, <1>2 DEF CallInv

(* The seconds that have been counted bound the length of the call.        *)
LEMMA GoneBounded ==
  ASSUME PitInv, at # "idle"
  PROVE  /\ call.gone < TooLate /\ call.gone < Double
         /\ call.gone + Phase + 1 < Double
<1> DEFINE f == call.from
           g == call.gone
           pp == Patience * Phase
           mp == (counted + 1) * Phase
<1>1. /\ f \in 0..(Double - 1) /\ g \in Nat /\ counted \in Nat
      /\ counted < Patience /\ call.secs \in Seconds
      /\ at \in {"enter", "test", "phase", "old", "count"}
  BY InType
<1>2. /\ Phase \in Nat /\ Phase >= 4 /\ pp \in Nat /\ TooLate = pp + Phase
      /\ TooLate \in Nat /\ Double \in Nat /\ TooLate + Phase < Double
      /\ Patience \in Nat
  BY <1>1, Sizes
<1>3. mp \in Nat /\ mp <= pp
  <2>1. PICK d \in Nat : Patience = counted + 1 + d
    BY <1>1, <1>2
  <2>2. pp = mp + d * Phase /\ d * Phase \in Nat /\ mp \in Nat
    BY <1>1, <1>2, <2>1
  <2> QED BY <2>2
<1>4. g <= pp + 3
  <2>1. CASE at = "enter"
    BY <1>2, <2>1 DEF PitInv, CallInv
  <2>2. CASE at # "enter"
    <3>1. PICK u \in 0..g : Kept(u)
      BY <2>2 DEF PitInv, CallInv
    <3>2. PICK j \in (u + 1)..(mp + 1 + Wrapped(f, u)) : Whole(f, j)
      BY <3>1 DEF Kept, Enough
    <3>3. u \in Nat /\ j \in Nat /\ u < j /\ j <= mp + 2
      <4>1. Wrapped(f, u) \in {0, 1}
        BY DEF Wrapped
      <4> QED BY <1>1, <1>3, <3>2, <4>1
    <3>4. CASE at \in {"test", "phase"}
      <4>1. NoWhole(f, u, g)
        BY <3>1, <3>4 DEF Kept, Looking
      <4>2. g <= j
        BY <1>1, <3>2, <3>3, <4>1 DEF NoWhole
      <4> QED BY <1>1, <1>2, <1>3, <3>3, <4>2
    <3>5. CASE at \in {"old", "count"}
      <4>1. PICK v \in u..g : FoundAt(f, g, at, steps, u, v)
        BY <3>1, <3>5 DEF Kept, Found
      <4>2. v \in Nat /\ u <= v /\ g <= v + 1 /\ NoWhole(f, u, v)
        BY <1>1, <3>3, <3>5, <4>1 DEF FoundAt
      <4>3. v <= j
        BY <3>2, <3>3, <4>2 DEF NoWhole
      <4> QED BY <1>1, <1>2, <1>3, <3>3, <4>2, <4>3
    <3> QED BY <1>1, <2>2, <3>4, <3>5
  <2> QED BY <2>1, <2>2
<1> HIDE DEF pp, f, g
<1>5. g < TooLate /\ g < Double /\ g + Phase + 1 < Double
  BY <1>1, <1>2, <1>4 DEF g
<1> QED BY <1>5 DEF g

(* The counter, one interrupt later.                                       *)
LEMMA NextMoment ==
  ASSUME NEW f \in 0..(Double - 1), NEW g \in Nat, g + 1 < Double
  PROVE  Ticked(Moment(f, g)) = Moment(f, g + 1)
<1>1. PICK d \in Nat \ {0} : d = Double /\ g < d /\ g + 1 \in Nat
  BY Divisors
<1>2. PICK x \in 0..(d - 1) : x = Moment(f, g)
  BY <1>1, InCall
<1>3. x = IF f + g < d THEN f + g ELSE f + g - d
  BY <1>1, <1>2, InCall
<1>4. Moment(f, g + 1) = IF f + (g + 1) < d THEN f + (g + 1) ELSE f + (g + 1) - d
  BY <1>1, InCall
<1>5. (x + 1) % d = IF x + 1 < d THEN x + 1 ELSE x + 1 - d
  BY <1>2, OnceRound
<1> QED BY <1>1, <1>2, <1>3, <1>4, <1>5 DEF Ticked

LEMMA TickStep ==
  ASSUME PitInv, Tick
  PROVE  PitInv'
<1>1. /\ ticks \in 0..(Double - 1) /\ ticks' = Ticked(ticks) /\ steps = StepsBetween
      /\ UNCHANGED <<at, target, old, counted>>
  BY DEF PitInv, PitTypeOK, Tick
<1>2. ticks' \in 0..(Double - 1)
  BY <1>1, Divisors, Divided DEF Ticked
<1>3. CASE at = "idle"
  <2>1. UNCHANGED <<steps, call>>
    BY <1>3 DEF Tick
  <2> QED BY <1>1, <1>2, <1>3, <2>1 DEF PitInv, PitTypeOK, CallInv
<1>4. CASE at # "idle"
  <2> DEFINE f == call.from
             g == call.gone
             s == call.secs
  <2>1. /\ s \in Seconds /\ f \in 0..(Double - 1) /\ g \in Nat
        /\ counted < Patience /\ ticks = Moment(f, g) /\ target = TargetOf(f, s)
        /\ OnTime(f, g, s, at, steps)
        /\ at \in {"enter", "test", "phase", "old", "count"}
    BY <1>4, InType
  <2>2. g < TooLate /\ g + 1 < Double
    BY <1>4, <2>1, GoneBounded, Divisors
  <2>3. /\ steps' = 0 /\ call' = [call EXCEPT !.gone = g + 1]
    BY <1>4, <2>2 DEF Tick
  <2>4. call' \in [secs : Nat, from : Nat, gone : Nat]
    BY <2>1, <2>3 DEF PitInv
  <2>5. call'.secs = s /\ call'.from = f /\ call'.gone = g + 1
    BY <2>3 DEF PitInv
  <2>6. StepsBetween \in Nat /\ StepsBetween >= 4
    BY Sizes
  <2>7. PitTypeOK'
    BY <1>1, <1>2, <2>3, <2>6 DEF PitInv, PitTypeOK
  <2>8. ticks' = Moment(f, g + 1)
    BY <1>1, <2>1, <2>2, NextMoment
  <2>9. OnTime(f, g + 1, s, at, 0)
    <3>1. SUFFICES ASSUME f + Phase * s < Word
                   PROVE  g + 1 <= Phase * s /\ 0 + ToTest(at) <= 4
      BY DEF OnTime
    <3>2. g <= Phase * s /\ (g = Phase * s => steps + ToTest(at) <= 4)
      BY <2>1, <3>1 DEF OnTime
    <3>3. ToTest(at) \in 1..4
      BY DEF ToTest
    <3>4. Phase * s \in Nat
      BY <2>1, Sizes
    <3> QED BY <1>1, <2>1, <2>6, <3>2, <3>3, <3>4
  <2>10. at = "enter" => counted = 0 /\ g + 1 = 1
    BY <1>1, <2>6 DEF PitInv, CallInv
  <2>11. ASSUME at # "enter" PROVE \E u \in 0..(g + 1) : Kept(u)'
    <3>1. PICK u \in 0..g :
            /\ old = Moment(f, u) /\ Enough(f, u, counted) /\ AtMostTwice(f, u, counted)
            /\ Looking(f, g, at, steps, u) /\ Found(f, g, at, steps, u)
      BY <1>4, <2>11 DEF PitInv, CallInv, Kept
    <3>2. Looking(f, g + 1, at, 0, u)
      <4>1. SUFFICES ASSUME at \in {"test", "phase"}
                     PROVE  NoWhole(f, u, g + 1) /\ 0 + ToPhase(at) <= 4
        BY DEF Looking
      <4>2. NoWhole(f, u, g) /\ (u < g /\ Whole(f, g) => steps + ToPhase(at) <= 4)
        BY <3>1, <4>1 DEF Looking
      <4>3. ToPhase(at) \in 1..4
        BY DEF ToPhase
      <4>4. u < g => ~Whole(f, g)
        BY <1>1, <2>6, <4>2, <4>3
      <4>5. NoWhole(f, u, g + 1)
        <5>1. SUFFICES ASSUME NEW n \in (u + 1)..((g + 1) - 1) PROVE ~Whole(f, n)
          BY DEF NoWhole
        <5>2. n = g \/ n \in (u + 1)..(g - 1)
          BY <2>1
        <5> QED BY <2>1, <4>2, <4>4, <5>1, <5>2 DEF NoWhole
      <4> QED BY <4>3, <4>5
    <3>3. Found(f, g + 1, at, 0, u)
      <4>1. SUFFICES ASSUME at \in {"old", "count"}
                     PROVE  \E v \in u..(g + 1) : FoundAt(f, g + 1, at, 0, u, v)
        BY DEF Found
      <4>2. PICK v \in u..g : FoundAt(f, g, at, steps, u, v)
        BY <3>1, <4>1 DEF Found
      <4>3. v = g /\ Whole(f, v) /\ NoWhole(f, u, v)
        BY <1>1, <2>6, <4>1, <4>2 DEF FoundAt
      <4>4. v \in u..(g + 1) /\ v = (g + 1) - 1
        BY <2>1, <4>3
      <4> QED BY <4>1, <4>3, <4>4 DEF FoundAt
    <3>4. Kept(u)'
      BY <1>1, <2>3, <2>5, <3>1, <3>2, <3>3 DEF Kept
    <3> QED BY <2>1, <3>4
  <2>12. CallInv'
    BY <1>1, <2>1, <2>3, <2>5, <2>8, <2>9, <2>10, <2>11 DEF CallInv
  <2> QED BY <2>4, <2>7, <2>12 DEF PitInv
<1> QED BY <1>3, <1>4

LEMMA EnterStep ==
  ASSUME PitInv, Enter
  PROVE  PitInv'
<1>1. PICK s \in Seconds :
        /\ target' = TargetOf(ticks, s)
        /\ call' = [secs |-> s, from |-> ticks, gone |-> 0]
  BY DEF Enter
<1>2. /\ at = "idle" /\ at' = "enter" /\ counted' = 0
      /\ ticks' = ticks /\ old' = old /\ steps' = steps
  BY DEF Enter
<1>3. /\ ticks \in 0..(Double - 1) /\ ticks \in Nat
      /\ s \in Nat /\ Phase * s \in Nat /\ Phase <= Phase * s /\ Phase >= 4
      /\ Phase \in Nat /\ Patience \in Nat \ {0} /\ Word \in Nat \ {0}
  BY Sizes DEF PitInv, PitTypeOK
<1>4. target' \in 0..(Word - 1)
  <2>1. ticks + Phase * s \in Nat
    BY <1>3
  <2> QED BY <1>1, <1>3, <2>1, Divided DEF TargetOf
<1>5. PitTypeOK' /\ call' \in [secs : Nat, from : Nat, gone : Nat]
  BY <1>1, <1>2, <1>3, <1>4 DEF PitInv, PitTypeOK
<1>6. ticks = Moment(ticks, 0)
  BY <1>3, Divisors, InCall
<1>7. OnTime(ticks, 0, s, "enter", steps)
  BY <1>3 DEF OnTime
<1>8. CallInv'
  BY <1>1, <1>2, <1>3, <1>6, <1>7 DEF CallInv
<1> QED BY <1>5, <1>8 DEF PitInv

(* What a step of Sleep that goes on leaves alone, and the steps that are  *)
(* left to the next test of the counter.                                   *)
LEMMA SleepGoesOn ==
  ASSUME PitInv, at # "idle", NEW l \in {"test", "phase", "old", "count"}, Goto(l),
         UNCHANGED <<ticks, target, call>>,
         counted' \in Nat, counted' < Patience, old' \in 0..(Double - 1),
         at = "test" => ticks # target,
         ToTest(l) < ToTest(at) \/ at = "test",
         \E u \in 0..call.gone :
           /\ old' = Moment(call.from, u)
           /\ Enough(call.from, u, counted') /\ AtMostTwice(call.from, u, counted')
           /\ Looking(call.from, call.gone, l, steps', u)
           /\ Found(call.from, call.gone, l, steps', u)
  PROVE  PitInv'
<1> DEFINE f == call.from
           g == call.gone
           s == call.secs
<1>1. /\ s \in Seconds /\ f \in 0..(Double - 1) /\ g \in Nat /\ g < Double
      /\ ticks = Moment(f, g) /\ target = TargetOf(f, s)
      /\ OnTime(f, g, s, at, steps) /\ steps \in Nat
  BY InType, GoneBounded
<1>2. at' = l /\ steps' = IF steps < StepsBetween THEN steps + 1 ELSE steps
  BY DEF Goto
<1>3. StepsBetween \in Nat /\ StepsBetween >= 4 /\ Patience \in Nat /\ Phase * s \in Nat
  BY <1>1, Sizes
<1>4. PitTypeOK' /\ call' \in [secs : Nat, from : Nat, gone : Nat]
  BY <1>1, <1>2, <1>3 DEF PitInv, PitTypeOK
<1>5. OnTime(f, g, s, l, steps')
  <2>1. SUFFICES ASSUME f + Phase * s < Word
                 PROVE  /\ g <= Phase * s
                        /\ g = Phase * s => steps' + ToTest(l) <= 4
    BY DEF OnTime
  <2>2. g <= Phase * s /\ (g = Phase * s => steps + ToTest(at) <= 4)
    BY <1>1, <2>1 DEF OnTime
  <2>3. ToTest(l) \in 1..4 /\ ToTest(at) \in 1..4
    BY DEF ToTest
  <2>4. g = Phase * s => at # "test"
    BY <1>1, <2>1, TargetFits
  <2> QED BY <1>1, <1>2, <1>3, <2>2, <2>3, <2>4
<1>6. PICK u \in 0..g :
           /\ old' = Moment(f, u)
           /\ Enough(f, u, counted') /\ AtMostTwice(f, u, counted')
           /\ Looking(f, g, l, steps', u) /\ Found(f, g, l, steps', u)
  OBVIOUS
<1>7. Kept(u)'
  BY <1>2, <1>6 DEF Kept
<1>8. CallInv'
  BY <1>1, <1>2, <1>5, <1>6, <1>7 DEF CallInv
<1> QED BY <1>4, <1>8 DEF PitInv

(* The moment that old was read at, and the step that Sleep takes.         *)
LEMMA OldMoment ==
  ASSUME PitInv, at \notin {"idle", "enter"}
  PROVE  \E u \in 0..call.gone :
           /\ old = Moment(call.from, u) /\ u \in Nat
           /\ Enough(call.from, u, counted) /\ AtMostTwice(call.from, u, counted)
           /\ Looking(call.from, call.gone, at, steps, u)
           /\ Found(call.from, call.gone, at, steps, u)
BY InType DEF PitInv, CallInv, Kept

LEMMA KeepOldStep ==
  ASSUME PitInv, KeepOld
  PROVE  PitInv'
<1> DEFINE f == call.from
           g == call.gone
<1>1. /\ f \in 0..(Double - 1) /\ g \in {0, 1} /\ g < Double /\ g + Phase < Double
      /\ counted = 0 /\ ticks = Moment(f, g) /\ at = "enter"
      /\ Patience \in Nat \ {0} /\ Phase \in Nat /\ Phase >= 4
      /\ ticks \in 0..(Double - 1)
  BY InType, GoneBounded, Sizes DEF KeepOld, PitInv, CallInv, PitTypeOK
<1>2. Enough(f, g, 0)
  <2>1. PICK j \in (g + 1)..(g + Phase) : Whole(f, j)
    BY <1>1, WholeSoon
  <2>2. (0 + 1) * Phase = Phase /\ Wrapped(f, g) \in {0, 1}
    BY <1>1 DEF Wrapped
  <2>3. j \in (g + 1)..((0 + 1) * Phase + 1 + Wrapped(f, g))
    BY <1>1, <2>1, <2>2
  <2> QED BY <2>1, <2>3 DEF Enough
<1>3. AtMostTwice(f, g, 0)
  <2> DEFINE c == 2 * Phase * Wrapped(f, g)
             e == IF Whole(f, g) THEN 0 ELSE Phase - 2
  <2>1. c \in {0, 2 * Phase} /\ e \in Nat /\ 0 * Phase = 0
    BY <1>1 DEF Wrapped
  <2> HIDE DEF c, e
  <2>2. 0 * Phase <= 2 * g + Phase + c + e
    BY <1>1, <2>1
  <2> QED BY <2>2 DEF AtMostTwice, c, e
<1>4. Looking(f, g, "test", steps', g) /\ Found(f, g, "test", steps', g)
  BY <1>1 DEF Looking, Found, NoWhole
<1>5. g \in 0..g
  BY <1>1
<1>6. ToTest("test") < ToTest(at)
  BY <1>1 DEF ToTest
<1>7. Goto("test") /\ old' = ticks /\ counted' = counted
      /\ UNCHANGED <<ticks, target, call>>
  BY DEF KeepOld
<1> QED BY <1>1, <1>2, <1>3, <1>4, <1>5, <1>6, <1>7, SleepGoesOn

(* When Sleep returns nothing is left to keep.                             *)
LEMMA SleepEnds ==
  ASSUME PitInv, Return, UNCHANGED <<ticks, target, call>>,
         counted' \in 0..Patience, old' \in 0..(Double - 1)
  PROVE  PitInv'
BY Sizes DEF Return, PitInv, PitTypeOK, CallInv

LEMMA LookingOn ==
  ASSUME NEW f, NEW g, NEW u, NEW k \in Nat, NEW m \in Nat, m <= k + 1,
         Looking(f, g, "test", k, u)
  PROVE  Looking(f, g, "phase", m, u)
<1>1. ToPhase("test") = 2 /\ ToPhase("phase") = 1
  BY DEF ToPhase
<1>2. NoWhole(f, u, g) /\ (u < g /\ Whole(f, g) => k + 2 <= 4)
  BY <1>1 DEF Looking
<1>3. u < g /\ Whole(f, g) => m + 1 <= 4
  BY <1>2
<1> QED BY <1>1, <1>2, <1>3 DEF Looking

LEMMA TestStep ==
  ASSUME PitInv, Test
  PROVE  PitInv'
<1>1. CASE Reached
  BY <1>1, SleepEnds DEF Test, PitInv, PitTypeOK
<1>2. CASE ~Reached
  <2> DEFINE f == call.from
             g == call.gone
  <2>1. /\ Goto("phase") /\ ticks # target /\ at = "test"
        /\ old' = old /\ counted' = counted /\ UNCHANGED <<ticks, target, call>>
    BY <1>2 DEF Test, Reached
  <2>2. PICK u \in 0..g :
          /\ old = Moment(f, u) /\ u \in Nat
          /\ Enough(f, u, counted) /\ AtMostTwice(f, u, counted)
          /\ Looking(f, g, at, steps, u)
    BY <2>1, OldMoment
  <2>3. steps \in Nat /\ steps' \in Nat /\ steps' <= steps + 1
    BY <2>1, InType, Sizes DEF Goto
  <2>4. Looking(f, g, "phase", steps', u)
    <3>1. Looking(f, g, "test", steps, u)
      BY <2>1, <2>2
    <3> QED BY <2>3, <3>1, LookingOn
  <2>5. Found(f, g, "phase", steps', u)
    BY DEF Found
  <2>6. counted \in Nat /\ counted < Patience /\ old \in 0..(Double - 1)
    BY <2>1, InType DEF PitInv, PitTypeOK
  <2> QED BY <2>1, <2>2, <2>4, <2>5, <2>6, SleepGoesOn
<1> QED BY <1>1, <1>2

LEMMA TestPhaseStep ==
  ASSUME PitInv, TestPhase
  PROVE  PitInv'
<1> DEFINE f == call.from
           g == call.gone
<1>1. /\ at = "phase" /\ old' = old /\ counted' = counted
      /\ UNCHANGED <<ticks, target, call>>
      /\ Goto(IF ticks % Phase = 0 THEN "old" ELSE "test")
  BY DEF TestPhase
<1>2. PICK u \in 0..g :
        /\ old = Moment(f, u) /\ u \in Nat
        /\ Enough(f, u, counted) /\ AtMostTwice(f, u, counted)
        /\ Looking(f, g, at, steps, u)
  BY <1>1, OldMoment
<1>3. /\ counted \in Nat /\ counted < Patience /\ old \in 0..(Double - 1)
      /\ g \in Nat /\ ticks = Moment(f, g) /\ steps \in Nat
  BY <1>1, InType DEF PitInv, PitTypeOK
<1>4. NoWhole(f, u, g)
  BY <1>1, <1>2 DEF Looking
<1>5. CASE ticks % Phase = 0
  <2>1. Whole(f, g)
    BY <1>3, <1>5 DEF Whole
  <2>2. FoundAt(f, g, "old", steps', u, g)
    BY <1>4, <2>1 DEF FoundAt
  <2>3. g \in u..g
    BY <1>2, <1>3
  <2>4. Found(f, g, "old", steps', u) /\ Looking(f, g, "old", steps', u)
    BY <2>2, <2>3 DEF Found, Looking
  <2>5. ToTest("old") < ToTest(at)
    BY <1>1 DEF ToTest
  <2>6. Goto("old") /\ at # "test" /\ at # "idle"
    BY <1>1, <1>5
  <2> QED BY <1>1, <1>2, <1>3, <2>4, <2>5, <2>6, SleepGoesOn
<1>6. CASE ticks % Phase # 0
  <2>1. ~Whole(f, g)
    BY <1>3, <1>6 DEF Whole
  <2>2. Looking(f, g, "test", steps', u) /\ Found(f, g, "test", steps', u)
    BY <1>4, <2>1 DEF Looking, Found
  <2>3. ToTest("test") < ToTest(at)
    BY <1>1 DEF ToTest
  <2>4. Goto("test") /\ at # "test" /\ at # "idle"
    BY <1>1, <1>6
  <2> QED BY <1>1, <1>2, <1>3, <2>2, <2>3, <2>4, SleepGoesOn
<1> QED BY <1>5, <1>6

LEMMA TestOldStep ==
  ASSUME PitInv, TestOld
  PROVE  PitInv'
<1> DEFINE f == call.from
           g == call.gone
<1>1. /\ at = "old" /\ old' = old /\ counted' = counted
      /\ UNCHANGED <<ticks, target, call>>
      /\ Goto(IF old # ticks THEN "count" ELSE "test")
  BY DEF TestOld
<1>2. PICK u \in 0..g :
        /\ old = Moment(f, u) /\ u \in Nat
        /\ Enough(f, u, counted) /\ AtMostTwice(f, u, counted)
        /\ Found(f, g, at, steps, u)
  BY <1>1, OldMoment
<1>3. /\ counted \in Nat /\ counted < Patience /\ old \in 0..(Double - 1)
      /\ f \in 0..(Double - 1) /\ g \in Nat /\ g < Double
      /\ ticks = Moment(f, g) /\ steps \in Nat
  BY <1>1, InType, GoneBounded DEF PitInv, PitTypeOK
<1>4. PICK v \in u..g :
        /\ Whole(f, v) /\ NoWhole(f, u, v)
        /\ v = g \/ (v = g - 1 /\ steps = 0)
  BY <1>1, <1>2 DEF Found, FoundAt
<1>5. CASE u # g
  <2>1. old # ticks
    BY <1>2, <1>3, <1>5, MomentsDiffer
  <2>2. Goto("count")
    BY <1>1, <2>1
  <2>3. (v = g /\ u < v) \/ (v = g - 1 /\ steps' <= 1)
    BY <1>2, <1>3, <1>4, <1>5, <2>2, Sizes DEF Goto
  <2>4. Found(f, g, "count", steps', u) /\ Looking(f, g, "count", steps', u)
    BY <1>4, <2>3 DEF Found, FoundAt, Looking
  <2>5. ToTest("count") < ToTest(at)
    BY <1>1 DEF ToTest
  <2> QED BY <1>1, <1>2, <1>3, <2>2, <2>4, <2>5, SleepGoesOn
<1>6. CASE u = g
  <2>1. Goto("test")
    BY <1>1, <1>2, <1>3, <1>6
  <2>2. Looking(f, g, "test", steps', u) /\ Found(f, g, "test", steps', u)
    BY <1>3, <1>6 DEF Looking, Found, NoWhole
  <2>3. ToTest("test") < ToTest(at)
    BY <1>1 DEF ToTest
  <2> QED BY <1>1, <1>2, <1>3, <2>1, <2>2, <2>3, SleepGoesOn
<1> QED BY <1>5, <1>6

(* At the end of CountPhase, which may be the end of the call.             *)
LEMMA CountPhaseCounts ==
  ASSUME PitInv, CountPhase
  PROVE  /\ Enough(call.from, call.gone, counted + 1)
         /\ AtMostTwice(call.from, call.gone, counted + 1)
<1> DEFINE f == call.from
           g == call.gone
<1>1. at = "count"
  BY DEF CountPhase
<1>2. PICK u \in 0..g :
        /\ u \in Nat /\ Found(f, g, at, steps, u)
        /\ Enough(f, u, counted) /\ AtMostTwice(f, u, counted)
  BY <1>1, OldMoment
<1>3. /\ counted \in Nat /\ f \in 0..(Double - 1) /\ g \in Nat
      /\ g + Phase < Double /\ Phase \in Nat
  BY <1>1, InType, GoneBounded, Divisors
<1>4. PICK v \in u..g :
        /\ Whole(f, v) /\ NoWhole(f, u, v)
        /\ (v = g /\ u < v) \/ (v = g - 1 /\ steps <= 1)
  BY <1>1, <1>2 DEF Found, FoundAt
<1>5. v \in Nat /\ u <= v /\ (g = v \/ g = v + 1) /\ (u = v => g = v + 1)
  BY <1>2, <1>3, <1>4
<1> QED BY <1>2, <1>3, <1>4, <1>5, CountedOnce

LEMMA CountPhaseStep ==
  ASSUME PitInv, CountPhase
  PROVE  PitInv'
<1> DEFINE f == call.from
           g == call.gone
<1>1. /\ at = "count" /\ counted' = counted + 1 /\ old' = ticks
      /\ UNCHANGED <<ticks, target, call>>
  BY DEF CountPhase
<1>2. /\ counted \in Nat /\ counted < Patience /\ ticks \in 0..(Double - 1)
      /\ g \in Nat /\ ticks = Moment(f, g) /\ Patience \in Nat
  BY <1>1, InType, Sizes DEF PitInv, PitTypeOK
<1>3. counted' \in 0..Patience
  BY <1>1, <1>2
<1>4. CASE GivesUpAt(counted')
  <2>1. Return
    BY <1>4 DEF CountPhase
  <2> QED BY <1>1, <1>2, <1>3, <2>1, SleepEnds
<1>5. CASE ~GivesUpAt(counted')
  <2>1. Goto("test") /\ counted' < Patience
    BY <1>2, <1>3, <1>5 DEF CountPhase, GivesUpAt
  <2>2. Enough(f, g, counted') /\ AtMostTwice(f, g, counted')
    BY <1>1, CountPhaseCounts
  <2>3. Looking(f, g, "test", steps', g) /\ Found(f, g, "test", steps', g)
    BY <1>2 DEF Looking, Found, NoWhole
  <2>4. ToTest("test") < ToTest(at)
    BY <1>1 DEF ToTest
  <2>5. g \in 0..g
    BY <1>2
  <2> QED BY <1>1, <1>2, <1>3, <2>1, <2>2, <2>3, <2>4, <2>5, SleepGoesOn
<1> QED BY <1>4, <1>5

LEMMA PitInvariance == PitSpec => []PitInv
<1>1. PitInit => PitInv
  <2>1. SUFFICES ASSUME PitInit PROVE PitInv
    OBVIOUS
  <2> QED BY <2>1, Sizes DEF PitInit, PitInv, PitTypeOK, CallInv
<1>2. PitInv /\ [PitNext]_pitVars => PitInv'
  <2>1. SUFFICES ASSUME PitInv, [PitNext]_pitVars PROVE PitInv'
    OBVIOUS
  <2>2. CASE Tick
    BY <2>1, <2>2, TickStep
  <2>3. CASE Enter
    BY <2>1, <2>3, EnterStep
  <2>4. CASE KeepOld
    BY <2>1, <2>4, KeepOldStep
  <2>5. CASE Test
    BY <2>1, <2>5, TestStep
  <2>6. CASE TestPhase
    BY <2>1, <2>6, TestPhaseStep
  <2>7. CASE TestOld
    BY <2>1, <2>7, TestOldStep
  <2>8. CASE CountPhase
    BY <2>1, <2>8, CountPhaseStep
  <2>9. CASE UNCHANGED pitVars
    BY <2>1, <2>9 DEF pitVars, PitInv, PitTypeOK, CallInv, Kept
  <2> QED BY <2>1, <2>2, <2>3, <2>4, <2>5, <2>6, <2>7, <2>8, <2>9
       DEF PitNext, Sleeping
<1> QED BY <1>1, <1>2, PTL DEF PitSpec

(* A call that returns does so at its target or after its last count, and  *)
(* in either case not before the time that it was asked to wait.           *)
LEMMA WaitedEnough ==
  ASSUME PitInv, [PitNext]_pitVars, Returns
  PROVE  Needed <= call.gone /\ call.gone \in Nat /\ Needed \in Nat
<1> DEFINE f == call.from
           g == call.gone
           s == call.secs
<1>1. /\ at # "idle" /\ f \in 0..(Double - 1) /\ s \in Seconds
      /\ g \in Nat /\ g < Double
      /\ ticks = Moment(f, g) /\ target = TargetOf(f, s)
      /\ counted \in Nat /\ counted < Patience
  BY InType, GoneBounded DEF Returns
<1>2. Needed = Phase * s /\ Needed \in Nat /\ Needed < Word /\ Word \in Nat
  BY <1>1, Sizes DEF Needed
<1>3. CASE Test
  <2>1. ticks = target
    BY <1>3 DEF Test, Reached, Returns, Goto
  <2> QED BY <1>1, <1>2, <2>1, AtTarget
<1>4. CASE CountPhase
  <2>1. counted + 1 = Patience
    BY <1>4 DEF CountPhase, GivesUpAt, Returns, Goto
  <2>2. AtMostTwice(f, g, Patience)
    BY <1>4, <2>1, CountPhaseCounts
  <2>3. Word < g
    BY <1>1, <2>2, CountedOut
  <2> QED BY <1>1, <1>2, <2>3
<1>5. Test \/ CountPhase
  BY <1>1 DEF PitNext, Sleeping, Tick, Enter, KeepOld, TestPhase, TestOld, Goto,
              Returns, pitVars
<1> QED BY <1>1, <1>2, <1>3, <1>4, <1>5

(* A call whose target fits in 16 bits returns at the very interrupt it    *)
(* waits for, wherever the interrupts fall among its reads of the counter, *)
(* for any length of a second and any call of a second or more.            *)
THEOREM PitWakesOnTime == PitSpec => WakesOnTime
<1>1. PitInv /\ [PitNext]_pitVars =>
        [Returns /\ call.from + Needed < Word => call.gone = Needed]_pitVars
  <2>1. SUFFICES ASSUME PitInv, [PitNext]_pitVars, Returns,
                        call.from + Needed < Word
                 PROVE  call.gone = Needed
    OBVIOUS
  <2>2. Needed <= call.gone /\ call.gone \in Nat /\ Needed \in Nat
    BY <2>1, WaitedEnough
  <2>3. OnTime(call.from, call.gone, call.secs, at, steps)
    BY <2>1, InType DEF Returns
  <2>4. call.gone <= Needed
    BY <2>1, <2>3 DEF OnTime, Needed
  <2> QED BY <2>2, <2>4
<1> QED BY <1>1, PitInvariance, PTL DEF PitSpec, WakesOnTime

(* Any call waits as long as it was asked to, and less than 601 seconds of *)
(* it: neither a target cut to 16 bits, nor the counter that begins again  *)
(* at 0, nor a second that is counted twice ends it early.                 *)
THEOREM PitWaitsWithinBounds == PitSpec => WaitsWithinBounds
<1>1. PitInv /\ [PitNext]_pitVars =>
        [Returns => Needed <= call.gone /\ call.gone < TooLate]_pitVars
  <2>1. SUFFICES ASSUME PitInv, [PitNext]_pitVars, Returns
                 PROVE  Needed <= call.gone /\ call.gone < TooLate
    OBVIOUS
  <2>2. at # "idle"
    BY <2>1 DEF Returns
  <2> QED BY <2>1, <2>2, WaitedEnough, GoneBounded
<1>2. PitInv => PitTypeOK
  BY DEF PitInv
<1> QED BY <1>1, <1>2, PitInvariance, PTL DEF PitSpec, WaitsWithinBounds

=============================================================================
