--------------------------- MODULE KVector_proofs ---------------------------
(***************************************************************************)
(* Proofs about KVector for every Capacity and every set of elements.      *)
(*                                                                         *)
(* TypeOK and IndicesExact are inductive together: IndicesExact needs      *)
(* TypeOK for the arithmetic on PointsTo, and TypeOK needs IndicesExact to *)
(* keep VectorSize from going below 0.  Each operation has a lemma for     *)
(* each of the two.                                                        *)
(***************************************************************************)
EXTENDS KVector, NatLemmas, SequenceTheorems

Inv == TypeOK /\ IndicesExact

(* What renumbering, killing and writing to a slot leave alone.            *)
LEMMA SlotFields ==
  ASSUME TypeOK, NEW i \in Slots
  PROVE  slots[i] \in Slot /\ slots[i].to \in Nat
BY DEF TypeOK, Slot

LEMMA SlotUpdates ==
  ASSUME TypeOK, NEW i \in Slots, NEW n \in Nat
  PROVE  /\ Renumbered(i, n) \in Slot
         /\ Renumbered(i, n).live = slots[i].live
         /\ Renumbered(i, n).to = n
         /\ Killed(i) \in Slot
         /\ Killed(i).live = FALSE
<1>1. slots[i] \in Slot /\ NoIndex \in Nat
  BY KVectorAssumption DEF TypeOK, NoIndex
<1>2. PICK l \in BOOLEAN, t \in Nat, v \in Data \cup {NoData} :
        slots[i] = [live |-> l, to |-> t, data |-> v]
  BY <1>1 DEF Slot
<1> QED BY <1>1, <1>2 DEF Slot, Renumbered, Killed

LEMMA InitInv == Init => Inv
<1> SUFFICES ASSUME Init PROVE Inv
  OBVIOUS
<1>1. Capacity \in Nat
  BY KVectorAssumption
<1>2. Blank \in Slot
  BY <1>1 DEF Blank, Slot, NoIndex
<1>3. LiveSlots = {}
  BY DEF Init, LiveSlots, Blank
<1>4. TypeOK
  <2>1. \A i \in LiveSlots : i <= alloc
    BY <1>3
  <2>2. slots \in [Slots -> Slot]
    BY <1>2 DEF Init
  <2>3. alloc \in 0..Capacity /\ size \in Nat
    BY <1>1 DEF Init
  <2>4. halted \in BOOLEAN
    BY DEF Init
  <2> QED BY <2>1, <2>2, <2>3, <2>4 DEF TypeOK
<1>5. NoIndexShared /\ IndicesBelowSize
  BY <1>3 DEF NoIndexShared, IndicesBelowSize
<1>6. EveryIndexHeld
  BY DEF Init, EveryIndexHeld
<1> QED BY <1>4, <1>5, <1>6 DEF Inv, IndicesExact

(* The slot that insert_at fills is a slot of the bank and not a live one. *)
LEMMA TargetIsDead ==
  ASSUME TypeOK, alloc < Capacity
  PROVE  /\ Target \in Slots
         /\ Target \notin LiveSlots
         /\ Target <= (IF DeadSlots = {} THEN alloc + 1 ELSE alloc)
<1>1. Capacity \in Nat /\ alloc \in Nat
  BY KVectorAssumption DEF TypeOK
<1>2. CASE DeadSlots = {}
  BY <1>1, <1>2 DEF Target, Slots, LiveSlots, TypeOK
<1>3. CASE DeadSlots # {}
  <2>1. DeadSlots \in SUBSET (1..alloc)
    BY DEF DeadSlots
  <2>2. \E i \in DeadSlots : \A j \in DeadSlots : i <= j
    BY <1>1, <1>3, <2>1, LeastExists
  <2>3. Target \in DeadSlots
    BY <1>3, <2>2 DEF Target
  <2> QED
    BY <1>1, <1>3, <2>3 DEF DeadSlots, Slots, LiveSlots
<1> QED BY <1>2, <1>3

-----------------------------------------------------------------------------
(***************************************************************************)
(* insert_at.                                                              *)
(***************************************************************************)
LEMMA FillSlotInv ==
  ASSUME Inv, alloc < Capacity, NEW s \in 0..size, NEW d \in Data,
         FillSlot(s, d), UNCHANGED halted
  PROVE  Inv'
<1> DEFINE t == Target
<1>1. /\ Capacity \in Nat /\ alloc \in Nat /\ size \in Nat /\ s \in Nat
      /\ TypeOK /\ NoIndexShared /\ IndicesBelowSize /\ EveryIndexHeld
  BY KVectorAssumption DEF Inv, TypeOK, IndicesExact
<1>2. /\ t \in Slots /\ t \notin LiveSlots /\ t <= alloc'
      /\ alloc <= alloc' /\ alloc' \in 0..Capacity /\ size' = size + 1
  BY <1>1, TargetIsDead DEF FillSlot
<1>3. slots'[t] = [live |-> TRUE, to |-> s, data |-> d]
  BY <1>2 DEF FillSlot, ShiftedFrom
<1>4. \A i \in Slots \ {t} :
        slots'[i] = IF slots[i].live /\ slots[i].to >= s
                    THEN Renumbered(i, slots[i].to + 1) ELSE slots[i]
  BY DEF FillSlot, ShiftedFrom
<1>5. \A i \in Slots : slots[i] \in Slot
  BY <1>1 DEF TypeOK
<1>6. \A i \in Slots \ {t} :
        /\ slots'[i].live = slots[i].live
        /\ slots[i].live => slots'[i].to = IF slots[i].to >= s
                                           THEN slots[i].to + 1 ELSE slots[i].to
        /\ slots'[i] \in Slot
  <2> SUFFICES ASSUME NEW i \in Slots \ {t}
               PROVE  /\ slots'[i].live = slots[i].live
                      /\ slots[i].live => slots'[i].to = IF slots[i].to >= s
                                           THEN slots[i].to + 1 ELSE slots[i].to
                      /\ slots'[i] \in Slot
    OBVIOUS
  <2>1. slots[i] \in Slot /\ s \in Nat
    BY <1>1, <1>5
  <2>2. CASE slots[i].live /\ slots[i].to >= s
    <3>1. slots'[i] = Renumbered(i, slots[i].to + 1)
      BY <1>4, <2>2
    <3>2. slots[i].to + 1 \in Nat
      BY <1>1, SlotFields
    <3> QED BY <1>1, <2>2, <3>1, <3>2, SlotUpdates
  <2>3. CASE ~(slots[i].live /\ slots[i].to >= s)
    <3>1. slots'[i] = slots[i]
      BY <1>4, <2>3
    <3> QED BY <2>1, <2>3, <3>1
  <2> QED BY <2>2, <2>3
<1>7. LiveSlots' = LiveSlots \cup {t}
  BY <1>2, <1>3, <1>6 DEF LiveSlots
<1>8. TypeOK'
  <2>1. slots'[t] \in Slot
    BY <1>1, <1>3 DEF Slot
  <2>2. DOMAIN slots' = Slots
    BY DEF FillSlot, ShiftedFrom
  <2>3. slots' = [i \in Slots |-> slots'[i]]
    BY DEF FillSlot, ShiftedFrom
  <2>4. slots' \in [Slots -> Slot]
    BY <2>1, <2>3, <1>6
  <2>5. \A i \in LiveSlots' : i <= alloc'
    BY <1>1, <1>2, <1>7 DEF TypeOK, LiveSlots, Slots
  <2> QED BY <1>1, <1>2, <2>4, <2>5 DEF TypeOK
<1>9. \A i \in LiveSlots : i \in Slots \ {t} /\ slots[i].to \in Nat
  BY <1>2, <1>5 DEF LiveSlots, Slot
<1>10. NoIndexShared'
  BY <1>1, <1>3, <1>6, <1>7, <1>9 DEF NoIndexShared, LiveSlots
<1>11. IndicesBelowSize'
  BY <1>1, <1>2, <1>3, <1>6, <1>7, <1>9 DEF IndicesBelowSize, LiveSlots
<1>12. EveryIndexHeld'
  <2> SUFFICES ASSUME NEW k \in 0..size
               PROVE  \E i \in LiveSlots' : slots'[i].to = k
    BY <1>1, <1>2 DEF EveryIndexHeld, Holds
  <2>1. CASE k < s
    <3>1. PICK i \in LiveSlots : slots[i].to = k
      BY <2>1, <1>1 DEF EveryIndexHeld, Holds
    <3> QED BY <3>1, <2>1, <1>1, <1>6, <1>7, <1>9 DEF LiveSlots
  <2>2. CASE k = s
    BY <2>2, <1>3, <1>7
  <2>3. CASE k > s
    <3>1. PICK i \in LiveSlots : slots[i].to = k - 1
      BY <2>3, <1>1 DEF EveryIndexHeld, Holds
    <3> QED BY <3>1, <2>3, <1>1, <1>6, <1>7, <1>9 DEF LiveSlots
  <2> QED BY <1>1, <2>1, <2>2, <2>3
<1> QED BY <1>8, <1>10, <1>11, <1>12 DEF Inv, IndicesExact

LEMMA InsertAtInv ==
  ASSUME Inv, NEW s \in 0..size, NEW d \in Data,
         InsertAt(s, d), UNCHANGED halted
  PROVE  Inv'
<1>1. CASE alloc < Capacity
  BY <1>1, FillSlotInv DEF InsertAt
<1>2. CASE ~(alloc < Capacity)
  BY <1>2 DEF InsertAt, Inv, TypeOK, IndicesExact, NoIndexShared,
     IndicesBelowSize, EveryIndexHeld, Holds, LiveSlots
<1> QED BY <1>1, <1>2

-----------------------------------------------------------------------------
(***************************************************************************)
(* pop_at, for any index.                                                  *)
(***************************************************************************)
LEMMA PopAtInv ==
  ASSUME Inv, NEW s \in Nat, PopAt(s), UNCHANGED halted
  PROVE  Inv'
<1>1. /\ Capacity \in Nat /\ alloc \in Nat /\ size \in Nat
      /\ TypeOK /\ NoIndexShared /\ IndicesBelowSize /\ EveryIndexHeld
  BY KVectorAssumption DEF Inv, TypeOK, IndicesExact
<1>2. \A i \in Slots :
        /\ slots'[i] \in Slot
        /\ slots'[i].live <=> slots[i].live /\ slots[i].to # s
        /\ slots'[i].live => slots'[i].to = IF slots[i].to < s
                                            THEN slots[i].to ELSE slots[i].to - 1
  <2> SUFFICES ASSUME NEW i \in Slots
               PROVE  /\ slots'[i] \in Slot
                      /\ slots'[i].live <=> slots[i].live /\ slots[i].to # s
                      /\ slots'[i].live => slots'[i].to = IF slots[i].to < s
                                       THEN slots[i].to ELSE slots[i].to - 1
    OBVIOUS
  <2>1. slots[i] \in Slot /\ slots[i].to \in Nat
    BY <1>1, SlotFields
  <2>2. slots'[i] = IF ~slots[i].live \/ slots[i].to < s THEN slots[i]
                    ELSE IF slots[i].to = s THEN Killed(i)
                    ELSE Renumbered(i, slots[i].to - 1)
    BY DEF PopAt
  <2>3. CASE ~slots[i].live \/ slots[i].to < s
    BY <2>1, <2>2, <2>3
  <2>4. CASE slots[i].live /\ slots[i].to = s
    <3>1. slots'[i] = Killed(i)
      BY <2>1, <2>2, <2>4
    <3> QED BY <1>1, <2>1, <2>4, <3>1, SlotUpdates
  <2>5. CASE slots[i].live /\ slots[i].to > s
    <3>1. slots'[i] = Renumbered(i, slots[i].to - 1)
      BY <2>1, <2>2, <2>5
    <3>2. slots[i].to - 1 \in Nat
      BY <2>1, <2>5
    <3>3. /\ slots'[i] \in Slot
          /\ slots'[i].live = slots[i].live
          /\ slots'[i].to = slots[i].to - 1
      <4>1. PICK q \in Nat : q = slots[i].to - 1
        BY <3>2
      <4>2. slots'[i] = Renumbered(i, q)
        BY <3>1, <4>1
      <4>3. slots'[i].to = q /\ slots'[i] \in Slot /\ slots'[i].live = slots[i].live
        <5>1. /\ Renumbered(i, q) \in Slot /\ Renumbered(i, q).to = q
              /\ Renumbered(i, q).live = slots[i].live
          BY <1>1, SlotUpdates
        <5> QED BY <4>2, <5>1
      <4> QED BY <4>1, <4>3
    <3> QED BY <2>1, <2>5, <3>3
  <2> QED BY <2>1, <2>3, <2>4, <2>5
<1>3. /\ alloc' = alloc
      /\ size' = IF Holds(s) THEN size - 1 ELSE size
      /\ slots' \in [Slots -> Slot]
  BY <1>2 DEF PopAt
<1>4. \A i \in Slots : slots[i].to \in Nat
  BY <1>1, SlotFields
<1>5. LiveSlots' = {i \in LiveSlots : slots[i].to # s}
  BY <1>2 DEF LiveSlots
<1>6. Holds(s) <=> s < size
  BY <1>1 DEF IndicesBelowSize, EveryIndexHeld, Holds
<1>7. TypeOK'
  <2>1. \A i \in LiveSlots' : i <= alloc'
    BY <1>1, <1>3, <1>5 DEF TypeOK
  <2>2. size' \in Nat
    BY <1>1, <1>3, <1>6
  <2>3. alloc' \in 0..Capacity /\ halted' \in BOOLEAN
    BY <1>1, <1>3 DEF TypeOK
  <2> QED BY <1>3, <2>1, <2>2, <2>3 DEF TypeOK
<1>8. \A i \in LiveSlots' :
        /\ i \in LiveSlots /\ slots[i].to \in Nat /\ slots[i].to # s
        /\ slots'[i].to = IF slots[i].to < s THEN slots[i].to
                          ELSE slots[i].to - 1
  BY <1>2, <1>4, <1>5 DEF LiveSlots
<1>9. NoIndexShared'
  BY <1>1, <1>8 DEF NoIndexShared
<1>10. IndicesBelowSize'
  BY <1>1, <1>3, <1>6, <1>8 DEF IndicesBelowSize
<1>11. EveryIndexHeld'
  <2> SUFFICES ASSUME NEW k \in 0..(size' - 1)
               PROVE  \E i \in LiveSlots' : slots'[i].to = k
    BY DEF EveryIndexHeld, Holds
  <2>1. CASE k < s
    <3>1. PICK i \in LiveSlots : slots[i].to = k
      BY <1>1, <1>3 DEF EveryIndexHeld, Holds
    <3> QED BY <3>1, <2>1, <1>5, <1>8
  <2>2. CASE k >= s
    <3>1. k + 1 \in 0..(size - 1)
      BY <1>1, <1>3, <1>6, <2>2
    <3>2. PICK i \in LiveSlots : slots[i].to = k + 1
      BY <1>1, <3>1 DEF EveryIndexHeld, Holds
    <3> QED BY <3>2, <2>2, <1>5, <1>8
  <2>3. k \in Int
    BY <1>1, <1>3
  <2> QED BY <2>1, <2>2, <2>3
<1> QED BY <1>7, <1>9, <1>10, <1>11 DEF Inv, IndicesExact

-----------------------------------------------------------------------------
(***************************************************************************)
(* operator[] used for writing; delete_all; operator= and the copy         *)
(* constructors.                                                           *)
(***************************************************************************)
LEMMA WriteAtInv ==
  ASSUME Inv, NEW s \in Nat, NEW d \in Data, WriteAt(s, d), UNCHANGED halted
  PROVE  Inv'
<1>1. TypeOK /\ NoIndexShared /\ IndicesBelowSize /\ EveryIndexHeld
  BY DEF Inv, IndicesExact
<1>2. Holder(s) \in LiveSlots /\ LiveSlots \subseteq Slots
  BY DEF WriteAt, Holds, Holder, LiveSlots
<1>3. slots' = [slots EXCEPT ![Holder(s)] = [slots[Holder(s)] EXCEPT !.data = d]]
  BY DEF WriteAt
<1>4. [slots[Holder(s)] EXCEPT !.data = d] \in Slot
  <2>1. PICK l \in BOOLEAN, t \in Nat, v \in Data \cup {NoData} :
          slots[Holder(s)] = [live |-> l, to |-> t, data |-> v]
    BY <1>1, <1>2 DEF TypeOK, Slot
  <2> QED BY <2>1 DEF Slot
<1>5. slots' \in [Slots -> Slot] /\ UNCHANGED <<alloc, size>>
  BY <1>1, <1>2, <1>3, <1>4 DEF TypeOK, WriteAt
<1>6. \A i \in Slots : slots'[i].live = slots[i].live /\ slots'[i].to = slots[i].to
  <2> SUFFICES ASSUME NEW i \in Slots
               PROVE  slots'[i].live = slots[i].live /\ slots'[i].to = slots[i].to
    OBVIOUS
  <2>1. PICK l \in BOOLEAN, t \in Nat, v \in Data \cup {NoData} :
          slots[i] = [live |-> l, to |-> t, data |-> v]
    BY <1>1 DEF TypeOK, Slot
  <2>2. DOMAIN slots = Slots
    BY <1>1 DEF TypeOK
  <2> QED BY <1>3, <2>1, <2>2
<1>7. LiveSlots' = LiveSlots
  BY <1>6 DEF LiveSlots
<1>8. TypeOK'
  BY <1>1, <1>5, <1>7 DEF TypeOK
<1>9. \A i \in LiveSlots : slots'[i].to = slots[i].to
  BY <1>2, <1>6
<1>10. IndicesExact'
  BY <1>1, <1>5, <1>7, <1>9 DEF IndicesExact, NoIndexShared, IndicesBelowSize,
     EveryIndexHeld, Holds
<1> QED BY <1>8, <1>10 DEF Inv

(* A step to a state whose live slots are the first n ones, in order.      *)
LEMMA InOrderInv ==
  ASSUME NEW n \in Nat,
         slots' \in [Slots -> Slot], alloc' \in 0..Capacity, halted' \in BOOLEAN,
         size' = n, n <= alloc',
         \A i \in Slots : slots'[i].live <=> i <= n,
         \A i \in 1..n : slots'[i].to = i - 1
  PROVE  Inv'
<1>1. Capacity \in Nat /\ alloc' \in Nat /\ n <= Capacity
  BY KVectorAssumption
<1>2. LiveSlots' = 1..n
  BY <1>1 DEF LiveSlots, Slots
<1>3. TypeOK'
  BY <1>1, <1>2 DEF TypeOK
<1>4. NoIndexShared' /\ IndicesBelowSize'
  BY <1>1, <1>2 DEF NoIndexShared, IndicesBelowSize
<1>5. EveryIndexHeld'
  <2> SUFFICES ASSUME NEW k \in 0..(n - 1)
               PROVE  \E i \in LiveSlots' : slots'[i].to = k
    BY DEF EveryIndexHeld, Holds
  <2>1. k + 1 \in 1..n /\ slots'[k + 1].to = k
    BY <1>1
  <2> QED BY <1>2, <2>1
<1> QED BY <1>3, <1>4, <1>5 DEF Inv, IndicesExact

LEMMA EmptiedSlots ==
  ASSUME Inv, NEW i \in Slots
  PROVE  Emptied[i] \in Slot /\ Emptied[i].live = FALSE
<1>1. TypeOK
  BY DEF Inv
<1>2. 0 \in Nat
  OBVIOUS
<1> QED BY <1>1, <1>2, SlotUpdates DEF Emptied

LEMMA DeleteAllInv ==
  ASSUME Inv, DeleteAll, UNCHANGED halted
  PROVE  Inv'
<1>1. alloc' = alloc /\ alloc \in 0..Capacity /\ halted' \in BOOLEAN
  BY DEF Inv, TypeOK, DeleteAll
<1>2. \A i \in Slots : slots'[i] \in Slot /\ slots'[i].live = FALSE
  BY EmptiedSlots DEF DeleteAll
<1>3. slots' \in [Slots -> Slot]
  BY <1>2 DEF DeleteAll, Emptied
<1>4. \A i \in Slots : slots'[i].live <=> i <= 0
  BY <1>2 DEF Slots
<1>5. size' = 0 /\ 0 <= alloc' /\ 0 \in Nat /\ 1..0 = {}
  BY <1>1, KVectorAssumption DEF DeleteAll
<1> QED BY <1>1, <1>3, <1>4, <1>5, InOrderInv

LEMMA AssignInv ==
  ASSUME Inv, NEW n \in 0..Capacity, NEW w \in [1..n -> Data],
         Assign(w), UNCHANGED halted
  PROVE  Inv'
<1>1. /\ Capacity \in Nat /\ alloc \in 0..Capacity /\ halted' \in BOOLEAN
      /\ n \in Nat /\ Len(w) = n
  BY KVectorAssumption DEF Inv, TypeOK
<1> DEFINE m == IF alloc < Capacity THEN n ELSE 0
<1>2. m \in Nat /\ m <= alloc' /\ size' = m /\ alloc' \in 0..Capacity
  BY <1>1 DEF Assign
<1>3. \A i \in Slots :
        slots'[i] = IF i <= m THEN [live |-> TRUE, to |-> i - 1, data |-> w[i]]
                    ELSE Emptied[i]
  <2>1. CASE alloc < Capacity
    BY <1>1, <2>1 DEF Assign
  <2>2. CASE ~(alloc < Capacity)
    <3>1. \A i \in Slots : ~(i <= m) /\ slots'[i] = Emptied[i]
      BY <1>1, <2>2 DEF Assign, Slots
    <3> QED BY <3>1
  <2> QED BY <2>1, <2>2
<1>4. \A i \in Slots : /\ slots'[i] \in Slot
                       /\ slots'[i].live <=> i <= m
                       /\ i <= m => slots'[i].to = i - 1
  <2> SUFFICES ASSUME NEW i \in Slots
               PROVE  /\ slots'[i] \in Slot
                      /\ slots'[i].live <=> i <= m
                      /\ i <= m => slots'[i].to = i - 1
    OBVIOUS
  <2>1. CASE i <= m
    <3>1. w[i] \in Data /\ i - 1 \in Nat
      BY <1>1, <2>1 DEF Slots
    <3>2. slots'[i] = [live |-> TRUE, to |-> i - 1, data |-> w[i]]
      BY <1>3, <2>1
    <3> QED BY <2>1, <3>1, <3>2 DEF Slot
  <2>2. CASE ~(i <= m)
    <3>1. slots'[i] = Emptied[i]
      BY <1>3, <2>2
    <3> QED BY <2>2, <3>1, EmptiedSlots
  <2> QED BY <2>1, <2>2
<1>5. slots' \in [Slots -> Slot]
  BY <1>4 DEF Assign
<1>6. \A i \in 1..m : slots'[i].to = i - 1
  BY <1>1, <1>4 DEF Slots
<1> HIDE DEF m
<1> QED BY <1>1, <1>2, <1>4, <1>5, <1>6, InOrderInv

LEMMA CopyFromInv ==
  ASSUME Inv, NEW n \in 0..Capacity, NEW w \in [1..n -> Data],
         CopyFrom(w), UNCHANGED halted
  PROVE  Inv'
<1>1. /\ Capacity \in Nat /\ halted' \in BOOLEAN
      /\ n \in Nat /\ Len(w) = n
  BY KVectorAssumption DEF Inv, TypeOK
<1>2. alloc' = n /\ size' = n
  BY <1>1 DEF CopyFrom
<1>3. \A i \in Slots :
        slots'[i] = IF i <= n THEN [live |-> TRUE, to |-> i - 1, data |-> w[i]]
                    ELSE Blank
  BY <1>1 DEF CopyFrom
<1>4. \A i \in Slots : /\ slots'[i] \in Slot
                       /\ slots'[i].live <=> i <= n
                       /\ i <= n => slots'[i].to = i - 1
  <2> SUFFICES ASSUME NEW i \in Slots
               PROVE  /\ slots'[i] \in Slot
                      /\ slots'[i].live <=> i <= n
                      /\ i <= n => slots'[i].to = i - 1
    OBVIOUS
  <2>1. CASE i <= n
    <3>1. w[i] \in Data /\ i - 1 \in Nat
      BY <1>1, <2>1 DEF Slots
    <3>2. slots'[i] = [live |-> TRUE, to |-> i - 1, data |-> w[i]]
      BY <1>3, <2>1
    <3> QED BY <2>1, <3>1, <3>2 DEF Slot
  <2>2. CASE ~(i <= n)
    <3>1. slots'[i] = Blank
      BY <1>3, <2>2
    <3> QED BY <1>1, <2>2, <3>1 DEF Blank, Slot, NoIndex
  <2> QED BY <2>1, <2>2
<1>5. slots' \in [Slots -> Slot]
  BY <1>4 DEF CopyFrom
<1>6. \A i \in 1..n : slots'[i].to = i - 1
  BY <1>1, <1>4 DEF Slots
<1> QED BY <1>1, <1>2, <1>4, <1>5, <1>6, InOrderInv

-----------------------------------------------------------------------------
LEMMA NextInv == Inv /\ [Next]_vars => Inv'
<1> SUFFICES ASSUME Inv, [Next]_vars PROVE Inv'
  OBVIOUS
<1>1. Capacity \in Nat /\ size \in Nat
  BY KVectorAssumption DEF Inv, TypeOK
<1>2. CASE DoInsert
  BY <1>2, InsertAtInv DEF DoInsert, Running
<1>3. CASE DoPush
  <2>1. size \in 0..size
    BY <1>1
  <2> QED BY <1>3, <2>1, InsertAtInv DEF DoPush, Running
<1>4. CASE DoPop
  BY <1>1, <1>4, PopAtInv DEF DoPop, Running, NoIndex
<1>5. CASE DoPopBack
  <2>1. LastIndex \in Nat
    BY <1>1 DEF LastIndex, NoIndex
  <2> QED BY <1>5, <2>1, PopAtInv DEF DoPopBack, Running
<1>6. CASE DoWrite
  BY <1>1, <1>6, WriteAtInv DEF DoWrite, Running, NoIndex
<1>7. CASE DoDeleteAll
  BY <1>7, DeleteAllInv DEF DoDeleteAll, Running
<1>8. CASE DoAssign
  BY <1>8, AssignInv DEF DoAssign, Running
<1>9. CASE DoCopy
  BY <1>9, CopyFromInv DEF DoCopy, Running
<1>10. CASE DoOutOfBounds
  BY <1>10 DEF DoOutOfBounds, Inv, TypeOK, IndicesExact, NoIndexShared,
     IndicesBelowSize, EveryIndexHeld, Holds, LiveSlots
<1>11. CASE UNCHANGED vars
  BY <1>11 DEF vars, Inv, TypeOK, IndicesExact, NoIndexShared,
     IndicesBelowSize, EveryIndexHeld, Holds, LiveSlots
<1> QED BY <1>2, <1>3, <1>4, <1>5, <1>6, <1>7, <1>8, <1>9, <1>10, <1>11 DEF Next

(* The fields of a K_Vector keep their ranges, whatever calls are made.    *)
THEOREM VectorTypeOK == Spec => []TypeOK
<1>1. Inv => TypeOK
  BY DEF Inv
<1> QED BY <1>1, InitInv, NextInv, PTL DEF Spec

(* The live slots of a K_Vector always hold each index below its size      *)
(* exactly once, whatever inserts, pops and assignments have been made.    *)
THEOREM VectorIndicesExact == Spec => []IndicesExact
<1>1. Inv => IndicesExact
  BY DEF Inv
<1> QED BY <1>1, InitInv, NextInv, PTL DEF Spec

-----------------------------------------------------------------------------
(***************************************************************************)
(* A K_Vector of any capacity implements the sequence that VecSeq promises *)
(* its users.                                                              *)
(*                                                                         *)
(* Since the live slots hold each index below size once (IndicesExact),    *)
(* the vector that the slots stand for is determined by any choice of a    *)
(* holder for each index: VecDetermined.  It remains to give, for each     *)
(* operation, the holders of the indices afterwards.  That the peak of     *)
(* VecSeq is alloc is a matter of counting: there are size live slots, so  *)
(* insert_at finds a dead one unless size is alloc.                        *)
(***************************************************************************)

(* The vector that slots sl stand for, if it has n elements and peak p.    *)
LiveOf(sl)      == {i \in Slots : sl[i].live}
HolderOf(sl, s) == CHOOSE i \in LiveOf(sl) : sl[i].to = s
VecOf(sl, n, p) == [elems |-> [i \in 1..n |-> sl[HolderOf(sl, i - 1)].data], peak |-> p]

LEMMA VecIsVecOf == Vec = VecOf(slots, size, alloc) /\ Vec' = VecOf(slots', size', alloc')
BY DEF Vec, VecOf, HolderOf, LiveOf, Holder, LiveSlots

NoneShared(sl)   == \A i, j \in LiveOf(sl) : sl[i].to = sl[j].to => i = j
HeldBy(sl, n, e) ==
  \A k \in 1..n : \E i \in LiveOf(sl) : sl[i].to = k - 1 /\ sl[i].data = e[k]

(* It has the elements e if some slot holds each of them.                  *)
LEMMA VecDetermined ==
  ASSUME NEW sl, NEW n \in Nat, NEW p, NEW S, NEW e \in [1..n -> S],
         NoneShared(sl), HeldBy(sl, n, e)
  PROVE  VecOf(sl, n, p) = [elems |-> e, peak |-> p]
<1> DEFINE f == [i \in 1..n |-> sl[HolderOf(sl, i - 1)].data]
<1>1. \A k \in 1..n : f[k] = e[k]
  <2> SUFFICES ASSUME NEW k \in 1..n PROVE sl[HolderOf(sl, k - 1)].data = e[k]
    OBVIOUS
  <2>1. PICK i \in LiveOf(sl) : sl[i].to = k - 1 /\ sl[i].data = e[k]
    BY DEF HeldBy
  <2>2. /\ HolderOf(sl, k - 1) \in LiveOf(sl)
        /\ sl[HolderOf(sl, k - 1)].to = k - 1
    BY <2>1 DEF HolderOf
  <2>3. HolderOf(sl, k - 1) = i
    BY <2>1, <2>2 DEF NoneShared
  <2> QED BY <2>1, <2>3
<1>2. f = e
  BY <1>1
<1> QED BY <1>2 DEF VecOf

(* The elements of the vector are in the slots that hold their indices.    *)
LEMMA VecFields ==
  ASSUME Inv
  PROVE  /\ Vec.elems \in [1..size -> Data \cup {NoData}] /\ Vec.peak = alloc
         /\ Len(Vec.elems) = size /\ Vec = [elems |-> Vec.elems, peak |-> alloc]
         /\ \A i \in LiveSlots : /\ slots[i].to \in 0..(size - 1) /\ slots[i].to + 1 \in 1..size
                                 /\ Vec.elems[slots[i].to + 1] = slots[i].data
         /\ \A k \in 1..size : \E i \in LiveSlots :
              slots[i].to = k - 1 /\ slots[i].data = Vec.elems[k]
<1> DEFINE e == [i \in 1..size |-> slots[Holder(i - 1)].data]
<1>1. /\ TypeOK /\ size \in Nat /\ NoIndexShared /\ IndicesBelowSize /\ EveryIndexHeld
  BY DEF Inv, TypeOK, IndicesExact
<1>2. Vec.elems = e /\ Vec.peak = alloc /\ Vec = [elems |-> Vec.elems, peak |-> alloc]
  BY DEF Vec
<1>3. ASSUME NEW k \in 1..size
      PROVE  /\ Holder(k - 1) \in LiveSlots /\ slots[Holder(k - 1)].to = k - 1
             /\ Holder(k - 1) \in Slots
  <2>1. k - 1 \in 0..(size - 1)
    BY <1>1
  <2>2. Holds(k - 1)
    BY <1>1, <2>1 DEF EveryIndexHeld
  <2> QED BY <2>2 DEF Holds, Holder, LiveSlots
<1>4. e \in [1..size -> Data \cup {NoData}]
  <2>1. \A k \in 1..size : slots[Holder(k - 1)].data \in Data \cup {NoData}
    BY <1>1, <1>3 DEF TypeOK, Slot
  <2> QED BY <2>1
<1>5. Len(e) = size
  <2> HIDE DEF e
  <2>1. e \in Seq(Data \cup {NoData}) /\ DOMAIN e = 1..size
    BY <1>1, <1>4
  <2> QED BY <1>1, <2>1
<1>a. \A k \in 1..size : e[k] = slots[Holder(k - 1)].data
  OBVIOUS
<1>6. ASSUME NEW i \in LiveSlots
      PROVE  /\ slots[i].to \in 0..(size - 1) /\ slots[i].to + 1 \in 1..size
             /\ e[slots[i].to + 1] = slots[i].data
  <2>1. slots[i].to \in Nat /\ slots[i].to < size
    BY <1>1, SlotFields DEF IndicesBelowSize, LiveSlots
  <2>2. slots[i].to + 1 \in 1..size /\ slots[i].to + 1 - 1 = slots[i].to
    BY <1>1, <2>1
  <2>3. Holder(slots[i].to) \in LiveSlots /\ slots[Holder(slots[i].to)].to = slots[i].to
    BY DEF Holder
  <2>4. Holder(slots[i].to) = i
    BY <1>1, <2>3 DEF NoIndexShared
  <2>5. e[slots[i].to + 1] = slots[i].data
    <3>0. PICK t \in Nat : t = slots[i].to
      BY <2>1
    <3>1. PICK k \in 1..size : k = t + 1 /\ k - 1 = t
      BY <2>2, <3>0
    <3>2. e[k] = slots[Holder(k - 1)].data
      BY <1>a
    <3>3. Holder(k - 1) = i
      BY <2>4, <3>0, <3>1
    <3> HIDE DEF e
    <3> QED BY <3>0, <3>1, <3>2, <3>3
  <2> QED BY <1>1, <2>1, <2>2, <2>5
<1> HIDE DEF e
<1>7. ASSUME NEW k \in 1..size
      PROVE  \E i \in LiveSlots : slots[i].to = k - 1 /\ slots[i].data = e[k]
  <2>1. Holder(k - 1) \in LiveSlots /\ slots[Holder(k - 1)].to = k - 1
    BY <1>3
  <2>2. e[k - 1 + 1] = slots[Holder(k - 1)].data
    BY <1>6, <2>1
  <2>3. k - 1 + 1 = k
    BY <1>1
  <2> QED BY <2>1, <2>2, <2>3
<1> QED BY <1>2, <1>4, <1>5, <1>6, <1>7

(* There are size live slots.                                              *)
LEMMA LiveCount == ASSUME Inv PROVE size <= alloc /\ (DeadSlots = {} <=> size = alloc)
<1> DEFINE f == [i \in LiveSlots |-> slots[i].to]
           T == 0..(size - 1)
<1>1. /\ TypeOK /\ size \in Nat /\ alloc \in Nat /\ Capacity \in Nat /\ alloc <= Capacity
      /\ NoIndexShared /\ EveryIndexHeld
  BY KVectorAssumption DEF Inv, TypeOK, IndicesExact
<1>2. LiveSlots \in SUBSET (1..alloc)
  BY <1>1 DEF TypeOK, LiveSlots, Slots
<1>3. /\ IsFiniteSet(1..alloc) /\ Cardinality(1..alloc) = alloc
      /\ IsFiniteSet(T) /\ Cardinality(T) = size
  BY <1>1, FS_Interval
<1>4. /\ IsFiniteSet(LiveSlots) /\ Cardinality(LiveSlots) <= alloc
      /\ Cardinality(LiveSlots) = alloc => LiveSlots = 1..alloc
  BY <1>2, <1>3, FS_Subset
<1>5. f \in [LiveSlots -> T]
  BY VecFields
<1>6. f \in Surjection(LiveSlots, T)
  BY <1>1, <1>5 DEF Surjection, EveryIndexHeld, Holds
<1>7. f \in Injection(LiveSlots, T)
  BY <1>1, <1>5 DEF Injection, IsInjective, NoIndexShared
<1>8. Cardinality(T) = Cardinality(LiveSlots)
  <2> HIDE DEF f, T
  <2> QED BY <1>4, <1>6, <1>7, FS_Surjection
<1>9. DeadSlots = {} <=> LiveSlots = 1..alloc
  BY <1>1, <1>2 DEF DeadSlots, LiveSlots, Slots
<1> QED BY <1>3, <1>4, <1>8, <1>9

-----------------------------------------------------------------------------
(***************************************************************************)
(* The operations, each by the holders of the indices after it.            *)
(***************************************************************************)

(* What a step leads to is known from a slot for each index.               *)
LEMMA StepDetermined ==
  ASSUME Inv', NEW S, NEW e \in [1..size' -> S],
         \A k \in 1..size' :
           \E i \in Slots : slots'[i].live /\ slots'[i].to = k - 1 /\ slots'[i].data = e[k]
  PROVE  Vec' = [elems |-> e, peak |-> alloc']
<1>1. size' \in Nat /\ \A i, j \in LiveOf(slots') : slots'[i].to = slots'[j].to => i = j
  BY DEF Inv, TypeOK, IndicesExact, NoIndexShared, LiveSlots, LiveOf
<1>2. \A k \in 1..size' : \E i \in LiveOf(slots') : slots'[i].to = k - 1 /\ slots'[i].data = e[k]
  BY DEF LiveOf
<1>3. PICK sl, n, p : sl = slots' /\ n = size' /\ p = alloc'
  OBVIOUS
<1>4. n \in Nat /\ e \in [1..n -> S]
  BY <1>1, <1>3
<1>5. NoneShared(sl)
  BY <1>1, <1>3 DEF NoneShared
<1>6. HeldBy(sl, n, e)
  BY <1>2, <1>3 DEF HeldBy
<1>7. VecOf(sl, n, p) = [elems |-> e, peak |-> p]
  BY <1>4, <1>5, <1>6, VecDetermined
<1>8. VecOf(slots', size', alloc') = [elems |-> e, peak |-> alloc']
  BY <1>3, <1>7, Zenon
<1> QED BY <1>8, VecIsVecOf, Zenon

(* insert_at, room or none.                                                *)
LEMMA InsertMaps ==
  ASSUME Inv, Inv', NEW s \in 0..size, NEW d \in Data, InsertAt(s, d)
  PROVE  Vec' = Ops!Insert(Vec, s, d)
<1>1. /\ TypeOK /\ size \in Nat /\ alloc \in Nat /\ Capacity \in Nat /\ s \in Nat /\ s <= size
      /\ size <= alloc /\ (DeadSlots = {} <=> size = alloc)
  BY KVectorAssumption, LiveCount DEF Inv, TypeOK
<1>2. /\ Vec.elems \in [1..size -> Data \cup {NoData}] /\ Vec.peak = alloc
      /\ Ops!Size(Vec) = size
  BY VecFields DEF Ops!Size
<1>3. CASE alloc < Capacity
  <2> DEFINE old == Vec.elems
             e == [k \in 1..(size + 1) |-> IF k <= s THEN old[k]
                                           ELSE IF k = s + 1 THEN d ELSE old[k - 1]]
             t == Target
  <2>1. /\ size' = size + 1 /\ alloc' = (IF DeadSlots = {} THEN alloc + 1 ELSE alloc)
        /\ slots' = [ShiftedFrom(s) EXCEPT ![t] = [live |-> TRUE, to |-> s, data |-> d]]
    BY <1>3 DEF InsertAt, FillSlot
  <2>2. t \in Slots /\ t \notin LiveSlots
    BY <1>1, <1>3, TargetIsDead
  <2>3. slots'[t] = [live |-> TRUE, to |-> s, data |-> d]
    BY <2>1, <2>2 DEF ShiftedFrom
  <2>4. \A i \in LiveSlots :
          /\ i \in Slots /\ slots[i].live /\ slots[i].to \in Nat
          /\ slots[i].to < s => slots'[i] = slots[i]
          /\ slots[i].to >= s => slots'[i] = Renumbered(i, slots[i].to + 1)
    <3> SUFFICES ASSUME NEW i \in LiveSlots
                 PROVE  /\ i \in Slots /\ slots[i].live /\ slots[i].to \in Nat
                        /\ slots[i].to < s => slots'[i] = slots[i]
                        /\ slots[i].to >= s => slots'[i] = Renumbered(i, slots[i].to + 1)
      OBVIOUS
    <3>1. i \in Slots /\ slots[i].live /\ slots[i].to \in Nat /\ i # t
      BY <1>1, <2>2, SlotFields DEF LiveSlots
    <3>2. slots'[i] = ShiftedFrom(s)[i]
      BY <2>1, <3>1 DEF ShiftedFrom
    <3> QED BY <1>1, <3>1, <3>2 DEF ShiftedFrom
  <2>5. e \in [1..(size + 1) -> Data \cup {NoData}]
    <3>1. \A k \in 1..(size + 1) : e[k] \in Data \cup {NoData}
      <4> SUFFICES ASSUME NEW k \in 1..(size + 1) PROVE e[k] \in Data \cup {NoData}
        OBVIOUS
      <4>1. k <= s => k \in 1..size
        BY <1>1
      <4>2. k > s + 1 => k - 1 \in 1..size
        BY <1>1
      <4> QED BY <1>1, <1>2, <4>1, <4>2
    <3> QED BY <3>1
  <2>6. ASSUME NEW k \in 1..(size + 1)
        PROVE  \E i \in Slots : slots'[i].live /\ slots'[i].to = k - 1 /\ slots'[i].data = e[k]
    <3>1. CASE k <= s
      <4>1. k \in 1..size /\ e[k] = old[k] /\ k - 1 < s
        BY <1>1, <3>1
      <4>2. PICK i \in LiveSlots : slots[i].to = k - 1 /\ slots[i].data = old[k]
        BY <4>1, VecFields
      <4> QED BY <2>4, <4>1, <4>2
    <3>2. CASE k = s + 1
      <4>1. e[k] = d /\ k - 1 = s
        BY <1>1, <3>2
      <4> QED BY <2>2, <2>3, <4>1
    <3>3. CASE k > s + 1
      <4>1. k - 1 \in 1..size /\ e[k] = old[k - 1] /\ k - 1 - 1 >= s /\ k - 1 - 1 + 1 = k - 1
        BY <1>1, <3>3
      <4>2. PICK i \in LiveSlots : slots[i].to = k - 1 - 1 /\ slots[i].data = old[k - 1]
        BY <4>1, VecFields
      <4>3. slots'[i] = Renumbered(i, k - 1) /\ i \in Slots /\ slots[i].live
        BY <2>4, <4>1, <4>2
      <4>4. k - 1 \in Nat
        BY <1>1
      <4>5. Renumbered(i, k - 1).live /\ Renumbered(i, k - 1).to = k - 1
        BY <1>1, <4>3, <4>4, SlotUpdates
      <4>6. Renumbered(i, k - 1).data = slots[i].data
        BY <1>1, <4>3 DEF Renumbered, TypeOK, Slot
      <4> QED BY <4>1, <4>2, <4>3, <4>5, <4>6
    <3> QED BY <1>1, <3>1, <3>2, <3>3
  <2>7. Ops!Insert(Vec, s, d) = [elems |-> e, peak |-> IF size < alloc THEN alloc ELSE alloc + 1]
    BY <1>2, <1>3 DEF Ops!Insert, Ops!HasRoom
  <2> HIDE DEF e
  <2>8. Vec' = [elems |-> e, peak |-> alloc']
    BY <2>1, <2>5, <2>6, StepDetermined
  <2>9. alloc' = IF size < alloc THEN alloc ELSE alloc + 1
    BY <1>1, <2>1
  <2> QED BY <2>7, <2>8, <2>9
<1>4. CASE ~(alloc < Capacity)
  <2>1. Vec' = Vec
    BY <1>4 DEF InsertAt, Vec, Holder, LiveSlots
  <2> QED BY <1>2, <1>4, <2>1 DEF Ops!Insert, Ops!HasRoom
<1> QED BY <1>3, <1>4

(* pop_at, of an index that is held and of one that is not.                *)
LEMMA PopMaps ==
  ASSUME Inv, Inv', NEW s \in Nat, PopAt(s)
  PROVE  Vec' = Ops!PopAt(Vec, s)
<1>1. /\ TypeOK /\ size \in Nat /\ s \in Nat /\ alloc' = alloc
      /\ IndicesBelowSize /\ EveryIndexHeld
  BY DEF Inv, TypeOK, IndicesExact, PopAt
<1>2. /\ Vec.elems \in [1..size -> Data \cup {NoData}]
      /\ Ops!Size(Vec) = size /\ Vec = [elems |-> Vec.elems, peak |-> alloc]
  BY VecFields DEF Ops!Size
<1>3. \A i \in LiveSlots : i \in Slots /\ slots[i].live /\ slots[i].to \in Nat
                         /\ slots[i].to < size
  BY <1>1, SlotFields DEF LiveSlots, IndicesBelowSize
<1>4. CASE s < size
  <2> DEFINE old == Vec.elems
             e == [k \in 1..(size - 1) |-> IF k <= s THEN old[k] ELSE old[k + 1]]
  <2>1. size' = size - 1
    <3>1. Holds(s)
      BY <1>1, <1>4 DEF EveryIndexHeld
    <3> QED BY <3>1 DEF PopAt
  <2>2. \A i \in LiveSlots :
          /\ slots[i].to < s => slots'[i] = slots[i]
          /\ slots[i].to > s => slots'[i] = Renumbered(i, slots[i].to - 1)
    BY <1>1, <1>3 DEF PopAt
  <2>3. e \in [1..(size - 1) -> Data \cup {NoData}]
    <3>1. \A k \in 1..(size - 1) : k \in 1..size /\ k + 1 \in 1..size
      BY <1>1
    <3>2. \A k \in 1..(size - 1) : e[k] \in Data \cup {NoData}
      BY <1>2, <3>1
    <3> QED BY <3>2
  <2>4. ASSUME NEW k \in 1..(size - 1)
        PROVE  \E i \in Slots : slots'[i].live /\ slots'[i].to = k - 1 /\ slots'[i].data = e[k]
    <3>1. CASE k <= s
      <4>1. k \in 1..size /\ e[k] = old[k] /\ k - 1 < s
        BY <1>1, <3>1
      <4>2. PICK i \in LiveSlots : slots[i].to = k - 1 /\ slots[i].data = old[k]
        BY <4>1, VecFields
      <4> QED BY <1>3, <2>2, <4>1, <4>2
    <3>2. CASE k > s
      <4>1. k + 1 \in 1..size /\ e[k] = old[k + 1] /\ k + 1 - 1 = k /\ k - 1 \in Nat
        BY <1>1, <3>2
      <4>2. PICK i \in LiveSlots : slots[i].to = k + 1 - 1 /\ slots[i].data = old[k + 1]
        BY <4>1, VecFields
      <4>3. slots'[i] = Renumbered(i, k - 1) /\ i \in Slots /\ slots[i].live
        BY <1>3, <2>2, <3>2, <4>1, <4>2
      <4>4. Renumbered(i, k - 1).live /\ Renumbered(i, k - 1).to = k - 1
        BY <1>1, <4>1, <4>3, SlotUpdates
      <4>5. Renumbered(i, k - 1).data = slots[i].data
        BY <1>1, <4>3 DEF Renumbered, TypeOK, Slot
      <4> QED BY <4>1, <4>2, <4>3, <4>4, <4>5
    <3> QED BY <1>1, <3>1, <3>2
  <2>5. Ops!PopAt(Vec, s) = [elems |-> e, peak |-> alloc]
    <3>1. Ops!PopAt(Vec, s) = [Vec EXCEPT !.elems = e]
      BY <1>2, <1>4 DEF Ops!PopAt
    <3> HIDE DEF e
    <3> QED BY <1>2, <3>1
  <2> HIDE DEF e
  <2>6. Vec' = [elems |-> e, peak |-> alloc']
    BY <2>1, <2>3, <2>4, StepDetermined
  <2> QED BY <1>1, <2>5, <2>6
<1>5. CASE ~(s < size)
  <2>1. ~Holds(s)
    BY <1>1, <1>3, <1>5 DEF Holds
  <2>2. \A i \in Slots : slots'[i] = slots[i]
    BY <1>1, <1>3, <1>5 DEF PopAt, LiveSlots
  <2>3. slots' = slots
    BY <1>1, <2>2 DEF PopAt, TypeOK
  <2>4. size' = size
    BY <2>1 DEF PopAt
  <2>5. Vec' = Vec
    BY <1>1, <2>3, <2>4 DEF Vec, Holder, LiveSlots
  <2> QED BY <1>2, <1>5, <2>5 DEF Ops!PopAt
<1> QED BY <1>4, <1>5

(* operator[] used for writing.                                            *)
LEMMA WriteMaps ==
  ASSUME Inv, Inv', NEW s \in Nat, NEW d \in Data, WriteAt(s, d)
  PROVE  s < size /\ Vec' = Ops!Write(Vec, s, d)
<1> DEFINE old == Vec.elems
           e == [old EXCEPT ![s + 1] = d]
           h == Holder(s)
<1>1. /\ TypeOK /\ size \in Nat /\ alloc' = alloc /\ size' = size
      /\ NoIndexShared /\ IndicesBelowSize
  BY DEF Inv, TypeOK, IndicesExact, WriteAt
<1>2. /\ old \in [1..size -> Data \cup {NoData}]
      /\ Vec = [elems |-> old, peak |-> alloc]
  BY VecFields
<1>3. h \in LiveSlots /\ h \in Slots /\ slots[h].live /\ slots[h].to = s
  BY DEF WriteAt, Holds, Holder, LiveSlots
<1>4. s < size /\ s + 1 \in 1..size /\ s + 1 - 1 = s
  BY <1>1, <1>3 DEF IndicesBelowSize
<1>5. \A i \in Slots : i # h => slots'[i] = slots[i]
  BY <1>1 DEF WriteAt, TypeOK
<1>6. slots'[h].live /\ slots'[h].to = s /\ slots'[h].data = d
  <2>1. PICK l \in BOOLEAN, t \in Nat, v \in Data \cup {NoData} :
          slots[h] = [live |-> l, to |-> t, data |-> v]
    BY <1>1, <1>3 DEF TypeOK, Slot
  <2>2. slots'[h] = [slots[h] EXCEPT !.data = d]
    BY <1>1, <1>3 DEF WriteAt, TypeOK
  <2> QED BY <1>3, <2>1, <2>2
<1>7. e \in [1..size -> Data \cup {NoData}]
  BY <1>2
<1>8. ASSUME NEW k \in 1..size
      PROVE  \E i \in Slots : slots'[i].live /\ slots'[i].to = k - 1 /\ slots'[i].data = e[k]
  <2>1. CASE k = s + 1
    <3>1. e[k] = d /\ k - 1 = s
      <4> HIDE DEF old
      <4>1. s + 1 \in DOMAIN old
        BY <1>2, <1>4
      <4> QED BY <1>4, <2>1, <4>1
    <3> HIDE DEF e
    <3> QED BY <1>3, <1>6, <3>1
  <2>2. CASE k # s + 1
    <3>1. e[k] = old[k] /\ k - 1 # s
      BY <1>1, <1>2, <1>4, <2>2
    <3>2. PICK i \in LiveSlots : slots[i].to = k - 1 /\ slots[i].data = old[k]
      BY VecFields
    <3>3. i # h /\ i \in Slots /\ slots[i].live
      BY <1>3, <3>1, <3>2 DEF LiveSlots
    <3> QED BY <1>5, <3>1, <3>2, <3>3
  <2> QED BY <2>1, <2>2
<1>9. Ops!Write(Vec, s, d) = [elems |-> e, peak |-> alloc]
  <2>1. Ops!Write(Vec, s, d) = [Vec EXCEPT !.elems = e]
    BY DEF Ops!Write
  <2> HIDE DEF e, old
  <2> QED BY <1>2, <2>1
<1> HIDE DEF e
<1>10. Vec' = [elems |-> e, peak |-> alloc']
  BY <1>1, <1>7, <1>8, StepDetermined
<1> QED BY <1>1, <1>4, <1>9, <1>10

(* The elements of w, in order, in the first slots.                        *)
LEMMA InOrderMaps ==
  ASSUME Inv', NEW S, NEW n \in 0..Capacity, NEW w \in [1..n -> S], size' = n,
         \A i \in 1..n : slots'[i] = [live |-> TRUE, to |-> i - 1, data |-> w[i]]
  PROVE  Vec' = [elems |-> w, peak |-> alloc']
<1>1. \A k \in 1..n : k \in Slots
  BY KVectorAssumption DEF Slots
<1>2. \A k \in 1..n :
        \E i \in Slots : slots'[i].live /\ slots'[i].to = k - 1 /\ slots'[i].data = w[k]
  <2> SUFFICES ASSUME NEW k \in 1..n
               PROVE  slots'[k].live /\ slots'[k].to = k - 1 /\ slots'[k].data = w[k]
    BY <1>1
  <2>1. slots'[k] = [live |-> TRUE, to |-> k - 1, data |-> w[k]]
    OBVIOUS
  <2> QED BY <2>1
<1> QED BY <1>2, StepDetermined

LEMMA NoElements == << >> \in [1..0 -> Data]
<1>1. << >> \in Seq(Data) /\ Len(<< >>) = 0
  OBVIOUS
<1> QED BY <1>1

LEMMA DeleteAllMaps ==
  ASSUME Inv, Inv', DeleteAll
  PROVE  Vec' = Ops!DeleteAll(Vec)
<1>1. /\ Vec = [elems |-> Vec.elems, peak |-> alloc] /\ Capacity \in Nat
      /\ 0 \in 0..Capacity /\ size' = 0 /\ alloc' = alloc
  BY VecFields, KVectorAssumption DEF DeleteAll
<1>2. Vec' = [elems |-> << >>, peak |-> alloc']
  <2>1. PICK w \in [1..0 -> Data] : w = << >>
    BY NoElements
  <2>2. \A i \in 1..0 : slots'[i] = [live |-> TRUE, to |-> i - 1, data |-> w[i]]
    OBVIOUS
  <2> QED BY <1>1, <2>1, <2>2, InOrderMaps
<1>3. [Vec EXCEPT !.elems = << >>] = [elems |-> << >>, peak |-> alloc]
  <2>1. PICK e : e = Vec.elems
    OBVIOUS
  <2>2. Vec = [elems |-> e, peak |-> alloc]
    BY <1>1, <2>1, Zenon
  <2> QED BY <2>2
<1> QED BY <1>1, <1>2, <1>3 DEF Ops!DeleteAll

LEMMA AssignMaps ==
  ASSUME Inv, Inv', NEW n \in 0..Capacity, NEW w \in [1..n -> Data], Assign(w)
  PROVE  Vec' = Ops!Assign(Vec, w)
<1>1. /\ Capacity \in Nat /\ alloc \in Nat /\ alloc <= Capacity
      /\ n \in Nat /\ Len(w) = n /\ Vec.peak = alloc
  BY VecFields, KVectorAssumption DEF Inv, TypeOK
<1>2. alloc' = IF n > alloc THEN n ELSE alloc
  BY <1>1 DEF Assign
<1>3. CASE alloc < Capacity
  <2>1. /\ size' = n
        /\ \A i \in 1..n : slots'[i] = [live |-> TRUE, to |-> i - 1, data |-> w[i]]
    BY <1>1, <1>3 DEF Assign, Slots
  <2>2. Vec' = [elems |-> w, peak |-> alloc']
    BY <2>1, InOrderMaps
  <2>3. Ops!Assign(Vec, w) = [elems |-> w, peak |-> IF n > alloc THEN n ELSE alloc]
    BY <1>1, <1>3 DEF Ops!Assign, Ops!HasRoom
  <2> QED BY <1>2, <2>2, <2>3
<1>4. CASE ~(alloc < Capacity)
  <2>1. slots' = Emptied /\ size' = 0
    BY <1>1, <1>4 DEF Assign, Emptied
  <2>2. DeleteAll
    BY <1>1, <1>2, <1>4, <2>1 DEF DeleteAll
  <2>3. Ops!Assign(Vec, w) = Ops!DeleteAll(Vec)
    BY <1>1, <1>4 DEF Ops!Assign, Ops!HasRoom
  <2> QED BY <2>2, <2>3, DeleteAllMaps
<1> QED BY <1>3, <1>4

LEMMA CopyFromMaps ==
  ASSUME Inv', NEW n \in 0..Capacity, NEW w \in [1..n -> Data], CopyFrom(w)
  PROVE  Vec' = Ops!Assign(Ops!EmptyVector, w)
<1>1. Capacity \in Nat \ {0} /\ n \in Nat /\ Len(w) = n
  BY KVectorAssumption
<1>2. /\ size' = n /\ alloc' = n
      /\ \A i \in 1..n : slots'[i] = [live |-> TRUE, to |-> i - 1, data |-> w[i]]
  BY <1>1 DEF CopyFrom, Slots
<1>3. Vec' = [elems |-> w, peak |-> n]
  BY <1>2, InOrderMaps
<1>4. Ops!Assign(Ops!EmptyVector, w) = [elems |-> w, peak |-> IF n > 0 THEN n ELSE 0]
  BY <1>1 DEF Ops!Assign, Ops!HasRoom, Ops!EmptyVector
<1> QED BY <1>1, <1>3, <1>4

-----------------------------------------------------------------------------
(***************************************************************************)
(* Every step of a K_Vector is a step of the abstract vector.              *)
(***************************************************************************)
LEMMA InitMaps == Init => Abstract!Init
<1> SUFFICES ASSUME Init PROVE Abstract!Init
  OBVIOUS
<1>1. [i \in 1..size |-> slots[Holder(i - 1)].data] = << >>
  <2>1. size = 0 /\ 1..0 = {}
    BY DEF Init
  <2> QED BY <2>1
<1> QED BY <1>1 DEF Init, Vec, Abstract!Init, Abstract!EmptyVector

(* The operations of VecSeq are those that KVector is said to have.        *)
LEMMA SameOps ==
  ASSUME NEW v, NEW w, NEW s, NEW d
  PROVE  /\ Abstract!Insert(v, s, d) = Ops!Insert(v, s, d)
         /\ Abstract!PopAt(v, s) = Ops!PopAt(v, s)
         /\ Abstract!Write(v, s, d) = Ops!Write(v, s, d)
         /\ Abstract!DeleteAll(v) = Ops!DeleteAll(v)
         /\ Abstract!Assign(v, w) = Ops!Assign(v, w)
         /\ Abstract!EmptyVector = Ops!EmptyVector
BY DEF Abstract!Insert, Ops!Insert, Abstract!PopAt, Ops!PopAt, Abstract!Write, Ops!Write,
       Abstract!DeleteAll, Ops!DeleteAll, Abstract!Assign, Ops!Assign, Abstract!EmptyVector,
       Ops!EmptyVector, Abstract!HasRoom, Ops!HasRoom, Abstract!Size, Ops!Size

LEMMA NextMaps == Inv /\ [Next]_vars => [Abstract!Next]_(Abstract!vars)
<1> SUFFICES ASSUME Inv, [Next]_vars PROVE [Abstract!Next]_(Abstract!vars)
  OBVIOUS
<1>1. /\ Inv' /\ Capacity \in Nat /\ size \in Nat /\ size <= Capacity
      /\ Abstract!Size(Vec) = size /\ DOMAIN Vec.elems = 1..size
  BY NextInv, VecFields, LiveCount, KVectorAssumption DEF Inv, TypeOK, Abstract!Size
<1>2. ASSUME ~halted, UNCHANGED halted, NEW s \in 0..size, NEW d \in Data, InsertAt(s, d)
      PROVE  Abstract!Next
  <2>1. Vec' = Abstract!Insert(Vec, s, d)
    BY <1>1, <1>2, SameOps, InsertMaps
  <2> QED BY <1>1, <1>2, <2>1 DEF Abstract!Next, Abstract!DoInsert, Abstract!Running
<1>3. ASSUME ~halted, UNCHANGED halted, NEW s \in 0..Capacity, PopAt(s)
      PROVE  Abstract!Next
  <2>1. Vec' = Abstract!PopAt(Vec, s)
    BY <1>1, <1>3, SameOps, PopMaps
  <2> QED BY <1>3, <2>1 DEF Abstract!Next, Abstract!DoPop, Abstract!Running
<1>4. CASE DoInsert
  BY <1>2, <1>4 DEF DoInsert, Running
<1>5. CASE DoPush
  <2>1. size \in 0..size
    BY <1>1
  <2> QED BY <1>2, <1>5, <2>1 DEF DoPush, Running
<1>6. CASE DoPop
  BY <1>3, <1>6 DEF DoPop, Running, NoIndex
<1>7. CASE DoPopBack
  <2>1. LastIndex \in 0..Capacity
    BY <1>1 DEF LastIndex, NoIndex
  <2> QED BY <1>3, <1>7, <2>1 DEF DoPopBack, Running
<1>8. CASE DoWrite
  <2>1. PICK s \in 0..Capacity, d \in Data : WriteAt(s, d)
    BY <1>8 DEF DoWrite, NoIndex
  <2>2. s < size /\ Vec' = Abstract!Write(Vec, s, d)
    <3>1. s \in Nat /\ Inv'
      BY <1>1
    <3>2. s < size /\ Vec' = Ops!Write(Vec, s, d)
      BY <2>1, <3>1, WriteMaps
    <3> QED BY <3>2, SameOps
  <2>3. s + 1 \in 1..size /\ s + 1 - 1 = s
    BY <1>1, <2>2
  <2>a. PICK i \in 1..size : i - 1 = s
    BY <2>3
  <2>4. i \in DOMAIN Vec.elems /\ i - 1 = s
    BY <1>1, <2>a, Zenon
  <2>5. Vec' = Abstract!Write(Vec, i - 1, d)
    BY <2>2, <2>4
  <2> QED BY <1>8, <2>4, <2>5
          DEF DoWrite, Running, Abstract!Next, Abstract!DoWrite, Abstract!Running
<1>9. CASE DoDeleteAll
  <2>1. Vec' = Abstract!DeleteAll(Vec)
    BY <1>1, <1>9, SameOps, DeleteAllMaps DEF DoDeleteAll
  <2> QED BY <1>9, <2>1
          DEF DoDeleteAll, Running, Abstract!Next, Abstract!DoClear, Abstract!Running
<1>10. CASE DoAssign
  <2>1. PICK n \in 0..Capacity : \E w \in [1..n -> Data] : Assign(w)
    BY <1>10 DEF DoAssign
  <2>a. PICK w \in [1..n -> Data] : Assign(w)
    BY <2>1
  <2>2. Vec' = Abstract!Assign(Vec, w)
    BY <1>1, <2>a, SameOps, AssignMaps
  <2> QED BY <1>10, <2>2
          DEF DoAssign, Running, Abstract!Next, Abstract!DoAssign, Abstract!Running
<1>11. CASE DoCopy
  <2>1. PICK n \in 0..Capacity : \E w \in [1..n -> Data] : CopyFrom(w)
    BY <1>11 DEF DoCopy
  <2>a. PICK w \in [1..n -> Data] : CopyFrom(w)
    BY <2>1
  <2>2. Vec' = Abstract!Assign(Abstract!EmptyVector, w)
    BY <1>1, <2>a, SameOps, CopyFromMaps
  <2> QED BY <1>11, <2>2
          DEF DoCopy, Running, Abstract!Next, Abstract!DoCopy, Abstract!Running
<1>12. CASE DoOutOfBounds
  <2>1. Vec' = Vec
    BY <1>12 DEF DoOutOfBounds, Vec, Holder, LiveSlots
  <2> QED BY <1>12, <2>1 DEF DoOutOfBounds, Abstract!Next, Abstract!DoHalt
<1>13. CASE UNCHANGED vars
  BY <1>13 DEF vars, Abstract!vars, Vec, Holder, LiveSlots
<1> QED BY <1>4, <1>5, <1>6, <1>7, <1>8, <1>9, <1>10, <1>11, <1>12, <1>13 DEF Next

LEMMA CallsAreExact ==
  ASSUME Inv, [Next]_vars, NEW s \in 0..NoIndex, NEW d \in Data
  PROVE  /\ s <= size /\ InsertAt(s, d) => Vec' = Ops!Insert(Vec, s, d)
         /\ PopAt(s)      => Vec' = Ops!PopAt(Vec, s)
         /\ WriteAt(s, d) => Vec' = Ops!Write(Vec, s, d)
<1>1. Inv' /\ s \in Nat /\ size \in Nat
  BY NextInv, KVectorAssumption DEF NoIndex, Inv, TypeOK
<1>2. s <= size => s \in 0..size
  BY <1>1
<1> QED BY <1>1, <1>2, InsertMaps, PopMaps, WriteMaps

(* A K_Vector of any capacity and element type is the sequence that VecSeq *)
(* promises, whatever calls are made, and each call has the effect of its  *)
(* index on that sequence.                                                 *)
THEOREM VectorImplementsVecSeq == Spec => ImplementsVecSeq
<1> DEFINE Exact == \A s \in 0..NoIndex, d \in Data :
                      /\ s <= size /\ InsertAt(s, d) => Vec' = Ops!Insert(Vec, s, d)
                      /\ PopAt(s)      => Vec' = Ops!PopAt(Vec, s)
                      /\ WriteAt(s, d) => Vec' = Ops!Write(Vec, s, d)
<1>1. Spec => []Inv
  BY InitInv, NextInv, PTL DEF Spec
<1>2. Spec => Abstract!Spec
  BY <1>1, InitMaps, NextMaps, PTL DEF Spec, Abstract!Spec
<1>3. Inv /\ [Next]_vars => Exact
  BY CallsAreExact
<1>4. Spec => [][Exact]_vars
  <2> HIDE DEF Exact
  <2> QED BY <1>1, <1>3, PTL DEF Spec
<1> QED BY <1>2, <1>4 DEF ImplementsVecSeq, CallsExact

=============================================================================
