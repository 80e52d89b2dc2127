----------------------------- MODULE NatLemmas ------------------------------
(***************************************************************************)
(* Facts about natural numbers that the proofs of several components cite. *)
(***************************************************************************)
EXTENDS Naturals, FiniteSets, FiniteSetTheorems, WellFoundedInduction, TLAPS

(* A non-empty set of numbers up to n has a least element: a search loop   *)
(* that stops at its first hit finds one.  (By the well-foundedness of the *)
(* finite sets of elements below each element.)                            *)
LEMMA LeastExists ==
  ASSUME NEW n \in Nat, NEW D \in SUBSET (1..n), D # {}
  PROVE \E i \in D : \A j \in D : i <= j
<1> DEFINE Below(i) == {j \in D : j <= i}
           T == {Below(i) : i \in D}
           R == StrictSubsetOrdering(1..n)
<1>1. IsWellFoundedOn(R, FiniteSubsetsOf(1..n))
  BY FS_StrictSubsetOrderingWellFounded
<1>2. FiniteSubsetsOf(1..n) = SUBSET (1..n)
  <2>1. IsFiniteSet(1..n)
    BY FS_Interval, 1 \in Int, n \in Int
  <2> QED BY <2>1, FS_FiniteSubsetsOfFinite
<1>3. T \subseteq SUBSET (1..n) /\ T # {}
  OBVIOUS
<1>4. PICK X \in T : \A Y \in T : <<Y, X>> \notin R
  <2> HIDE DEF T, R
  <2> QED BY <1>1, <1>2, <1>3, WFMin
<1>5. PICK i \in D : X = Below(i)
  BY <1>4
<1>6. ASSUME NEW j \in D PROVE i <= j
  <2>1. <<Below(j), Below(i)>> \notin R
    BY <1>4, <1>5
  <2>2. SUFFICES ASSUME j < i PROVE FALSE
    OBVIOUS
  <2>3. Below(j) \subseteq Below(i) /\ i \in Below(i) /\ i \notin Below(j)
    <3>1. \A k \in D : k \in Int
      OBVIOUS
    <3>2. i \in Below(i) /\ i \notin Below(j)
      BY <2>2, <3>1
    <3>3. ASSUME NEW k \in Below(j) PROVE k \in Below(i)
      <4>1. k \in D /\ k <= j
        OBVIOUS
      <4>2. k <= i
        BY <4>1, <2>2, <3>1
      <4> QED BY <4>1, <4>2
    <3> QED BY <3>2, <3>3
  <2> QED BY <2>1, <2>3 DEF StrictSubsetOrdering
<1> QED BY <1>6

(* The same for numbers that count from 0.                                 *)
LEMMA LeastIndexExists ==
  ASSUME NEW n \in Nat, NEW D \in SUBSET (0..n), D # {}
  PROVE \E i \in D : \A j \in D : i <= j
<1> DEFINE U == {i + 1 : i \in D}
<1>1. U \in SUBSET (1..(n + 1)) /\ U # {} /\ n + 1 \in Nat
  <2>1. \A i \in D : i + 1 \in 1..(n + 1)
    OBVIOUS
  <2>2. U \in SUBSET (1..(n + 1))
    BY <2>1
  <2>3. U # {}
    BY Zenon
  <2> QED BY <2>2, <2>3
<1>2. PICK u \in U : \A w \in U : u <= w
  <2> HIDE DEF U
  <2> QED BY <1>1, LeastExists
<1>3. PICK i \in D : u = i + 1
  BY <1>2
<1>4. \A j \in D : i + 1 <= j + 1
  BY <1>2, <1>3
<1> QED BY <1>4

(* And a greatest.                                                         *)
LEMMA GreatestExists ==
  ASSUME NEW n \in Nat, NEW D \in SUBSET (1..n), D # {}
  PROVE \E i \in D : \A j \in D : j <= i
<1> DEFINE U == {(n + 1) - i : i \in D}
<1>1. U \in SUBSET (1..n) /\ U # {}
  <2>1. \A i \in D : (n + 1) - i \in 1..n
    OBVIOUS
  <2>2. U \in SUBSET (1..n)
    BY <2>1
  <2>3. U # {}
    BY Zenon
  <2> QED BY <2>2, <2>3
<1>2. PICK u \in U : \A w \in U : u <= w
  <2> HIDE DEF U
  <2> QED BY <1>1, LeastExists
<1>3. PICK i \in D : u = (n + 1) - i
  BY <1>2
<1>4. \A j \in D : (n + 1) - i <= (n + 1) - j
  BY <1>2, <1>3
<1>5. \A j \in D : j <= i
  <2>1. D \subseteq Nat
    OBVIOUS
  <2> HIDE DEF U
  <2> QED BY <1>4, <2>1
<1> QED BY <1>5

-----------------------------------------------------------------------------
(***************************************************************************)
(* Induction and recursion.  The library states them for predicates and    *)
(* operators; for sets and functions they follow from the least element.   *)
(***************************************************************************)
(* What holds of 0 and goes from each number to the next holds up to n.    *)
LEMMA Induction ==
  ASSUME NEW n \in Nat, NEW D, 0 \in D,
         \A k \in 0..(n - 1) : k \in D => k + 1 \in D
  PROVE \A k \in 0..n : k \in D
<1> DEFINE B == {k \in 0..n : k \notin D}
<1>1. SUFFICES ASSUME B # {} PROVE FALSE
  OBVIOUS
<1>2. PICK b \in B : \A j \in B : b <= j
  BY <1>1, LeastIndexExists
<1>3. b \in 0..n /\ b \notin D /\ b # 0
  OBVIOUS
<1>4. b - 1 \in 0..(n - 1) /\ b - 1 \in 0..n /\ ~(b <= b - 1)
  BY <1>3
<1>5. b - 1 \in D
  BY <1>2, <1>4
<1>6. (b - 1) + 1 = b
  BY <1>3
<1> QED BY <1>3, <1>4, <1>5, <1>6

(* A fold that takes the greatest index first, as those of the community   *)
(* modules do, is defined on each set of indices.                          *)
PicksGreatest(pick, n) ==
  \A t \in SUBSET (1..n) : t # {} => pick[t] \in t /\ \A j \in t : j <= pick[t]

IsFold(it, n, base, step, pick) ==
  \A t \in SUBSET (1..n) :
    it[t] = IF t = {} THEN base ELSE step[<<pick[t], it[t \ {pick[t]}]>>]

LEMMA FoldExists ==
  ASSUME NEW n \in Nat, NEW A, NEW base \in A, NEW step \in [(1..n) \X A -> A],
         NEW pick, PicksGreatest(pick, n)
  PROVE \E it \in [SUBSET (1..n) -> A] : IsFold(it, n, base, step, pick)
<1> USE DEF PicksGreatest, IsFold
<1> DEFINE Good(it, m) ==
      /\ it \in [SUBSET (1..m) -> A]
      /\ \A t \in SUBSET (1..m) :
           it[t] = IF t = {} THEN base ELSE step[<<pick[t], it[t \ {pick[t]}]>>]
    D == {m \in 0..n : \E it : Good(it, m)}
<1>1. 0 \in D
  <2> DEFINE it == [t \in SUBSET (1..0) |-> base]
  <2>1. SUBSET (1..0) = {{}}
    BY 1..0 = {}
  <2>2. Good(it, 0)
    BY <2>1
  <2> QED BY <2>2, 0 \in 0..n
<1>2. ASSUME NEW m \in 0..(n - 1), m \in D PROVE m + 1 \in D
  <2>1. PICK it : Good(it, m)
    BY <1>2
  <2> DEFINE Next(t) == IF m + 1 \in t THEN step[<<m + 1, it[t \ {m + 1}]>>] ELSE it[t]
             ext == [t \in SUBSET (1..(m + 1)) |-> Next(t)]
  <2>2. m + 1 \in 1..n /\ m + 1 \in 0..n /\ m \in Nat
    OBVIOUS
  <2>3. ASSUME NEW t \in SUBSET (1..(m + 1))
        PROVE  /\ t \ {m + 1} \in SUBSET (1..m)
               /\ t \in SUBSET (1..n)
               /\ m + 1 \notin t => t \in SUBSET (1..m)
    BY <2>2
  <2>4. ext \in [SUBSET (1..(m + 1)) -> A]
    <3> SUFFICES ASSUME NEW t \in SUBSET (1..(m + 1)) PROVE Next(t) \in A
      BY Zenon
    <3>1. CASE m + 1 \in t
      <4>1. it[t \ {m + 1}] \in A
        BY <2>1, <2>3
      <4> QED BY <3>1, <4>1, <2>2
    <3>2. CASE m + 1 \notin t
      BY <3>2, <2>1, <2>3
    <3> QED BY <3>1, <3>2
  <2>5. ASSUME NEW t \in SUBSET (1..(m + 1))
        PROVE ext[t] = IF t = {} THEN base ELSE step[<<pick[t], ext[t \ {pick[t]}]>>]
    <3>1. CASE m + 1 \in t
      <4>1. pick[t] \in t /\ m + 1 <= pick[t]
        BY <3>1, <2>3
      <4>2. pick[t] = m + 1
        <5>1. pick[t] \in 1..(m + 1)
          BY <4>1
        <5> QED BY <4>1, <5>1, <2>2
      <4>3. t \ {m + 1} \in SUBSET (1..(m + 1)) /\ m + 1 \notin t \ {m + 1}
        OBVIOUS
      <4>4. ext[t \ {m + 1}] = it[t \ {m + 1}]
        BY <4>3
      <4>5. ext[t] = step[<<m + 1, it[t \ {m + 1}]>>]
        BY <3>1
      <4> HIDE DEF ext
      <4> QED BY <3>1, <4>2, <4>4, <4>5
    <3>2. CASE m + 1 \notin t
      <4>1. t \in SUBSET (1..m) /\ ext[t] = it[t]
        BY <3>2, <2>3
      <4>2. CASE t = {}
        BY <4>1, <4>2, <2>1
      <4>3. CASE t # {}
        <5>1. pick[t] \in t
          BY <4>3, <2>3
        <5>2. t \ {pick[t]} \in SUBSET (1..m) /\ t \ {pick[t]} \in SUBSET (1..(m + 1))
              /\ m + 1 \notin t \ {pick[t]}
          BY <4>1, <3>2
        <5>3. ext[t \ {pick[t]}] = it[t \ {pick[t]}]
          BY <5>2
        <5>4. it[t] = step[<<pick[t], it[t \ {pick[t]}]>>]
          BY <4>1, <4>3, <2>1
        <5> HIDE DEF ext
        <5> QED BY <4>1, <4>3, <5>3, <5>4
      <4> QED BY <4>2, <4>3
    <3> QED BY <3>1, <3>2
  <2>6. Good(ext, m + 1)
    <3> HIDE DEF ext
    <3> QED BY <2>4, <2>5
  <2> HIDE DEF Good
  <2> QED BY <2>2, <2>6
<1>3. n \in D
  <2> HIDE DEF D
  <2>1. \A k \in 0..n : k \in D
    BY <1>1, <1>2, Induction
  <2> QED BY <2>1
<1> QED BY <1>3

=============================================================================
