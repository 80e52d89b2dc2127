----------------------------- MODULE Memory_proofs --------------------------
(***************************************************************************)
(* Proofs about KHeap, for a heap of any size and a MemoryMap of any       *)
(* capacity, and about Pmm, for any set of memory maps and any bounds.     *)
(*                                                                         *)
(* The inductive invariant of KHeap is Good: the map is in order, the held *)
(* blocks lie apart, no free entry and no gap that ConJoin may close       *)
(* overlaps one, and a used entry is a held block.  The last part is what  *)
(* makes kfree safe: the entry it frees is a block of its caller, so it    *)
(* overlaps no other.  Each operation on the map has a lemma that it keeps *)
(* Good.                                                                   *)
(*                                                                         *)
(* In Pmm, while pages are only reserved the used bits are a prefix of the *)
(* bitmap, and those of the prefix are held once and no other is (Prefix): *)
(* neither HandedOutOnce nor UsedIsPrefix is inductive without the other.  *)
(* What the bits stand for follows from what the last loop of pmm::init    *)
(* has counted so far (Counted), and from the array being GRUB's map       *)
(* without its first entry when the map is in one piece.                   *)
(***************************************************************************)
EXTENDS KHeap, Pmm, NatLemmas, FiniteSetTheorems, TLAPS

(***************************************************************************)
(* What the operations of VecOps return, element by element: with these    *)
(* lemmas the proofs about the users of a vector need not look into it.    *)
(***************************************************************************)
LEMMA VectorFields ==
  ASSUME NEW S, NEW v \in VectorOf(S)
  PROVE  /\ v.elems \in Seq(S)
         /\ v.peak \in 0..Capacity
         /\ Size(v) \in Nat
         /\ v.elems \in [1..Size(v) -> S]
         /\ \A k \in Indices(v) : At(v, k) \in S
         /\ \A k \in Indices(v) : k \in Nat /\ k + 1 \in 1..Size(v)
<1>1. v.elems \in Seq(S) /\ v.peak \in 0..Capacity
  BY DEF VectorOf
<1>2. Size(v) \in Nat /\ v.elems \in [1..Size(v) -> S]
  BY <1>1 DEF Size
<1>3. \A k \in Indices(v) : k \in Nat /\ k + 1 \in 1..Size(v)
  BY <1>2 DEF Indices
<1>4. \A k \in Indices(v) : At(v, k) \in S
  BY <1>2, <1>3 DEF At
<1> QED BY <1>1, <1>2, <1>3, <1>4

(* A function on 1..n is a sequence of length n.                           *)
LEMMA FunctionIsSeq ==
  ASSUME NEW S, NEW n \in Nat, NEW f \in [1..n -> S]
  PROVE  f \in Seq(S) /\ Len(f) = n
<1>1. f \in Seq(S)
  OBVIOUS
<1>2. DOMAIN f = 1..Len(f) /\ Len(f) \in Nat
  BY <1>1
<1> QED BY <1>1, <1>2

LEMMA WriteVector ==
  ASSUME NEW S, NEW v \in VectorOf(S), NEW s \in Indices(v), NEW d \in S
  PROVE  /\ Write(v, s, d) \in VectorOf(S)
         /\ Size(Write(v, s, d)) = Size(v)
         /\ \A k \in Indices(v) :
              At(Write(v, s, d), k) = IF k = s THEN d ELSE At(v, k)
<1> DEFINE w == Write(v, s, d)
<1>1. PICK e \in Seq(S), p \in 0..Capacity : v = [elems |-> e, peak |-> p]
  BY DEF VectorOf
<1>2. w = [elems |-> [e EXCEPT ![s + 1] = d], peak |-> p]
  BY <1>1 DEF Write
<1>3. Size(v) = Len(e) /\ Len(e) \in Nat /\ s + 1 \in 1..Len(e)
  BY <1>1 DEF Size, Indices
<1>4. /\ [e EXCEPT ![s + 1] = d] \in [1..Len(e) -> S]
      /\ \A k \in 1..Len(e) :
           [e EXCEPT ![s + 1] = d][k] = IF k = s + 1 THEN d ELSE e[k]
  BY <1>3
<1>5. [e EXCEPT ![s + 1] = d] \in Seq(S) /\ Len([e EXCEPT ![s + 1] = d]) = Len(e)
  BY <1>3, <1>4, FunctionIsSeq
<1>6. w \in VectorOf(S)
  BY <1>2, <1>5 DEF VectorOf
<1>7. Size(w) = Size(v)
  BY <1>2, <1>3, <1>5 DEF Size
<1>8. ASSUME NEW k \in Indices(v)
      PROVE  At(w, k) = IF k = s THEN d ELSE At(v, k)
  <2>1. k + 1 \in 1..Len(e) /\ k \in Nat /\ s \in Nat
    BY <1>3 DEF Indices
  <2>2. At(w, k) = [e EXCEPT ![s + 1] = d][k + 1] /\ At(v, k) = e[k + 1]
    <3> HIDE DEF w
    <3>1. w.elems = [e EXCEPT ![s + 1] = d] /\ v.elems = e
      BY <1>1, <1>2
    <3> QED BY <3>1 DEF At
  <2> QED BY <1>4, <2>1, <2>2
<1> QED BY <1>6, <1>7, <1>8

LEMMA InsertVector ==
  ASSUME NEW S, NEW v \in VectorOf(S), NEW s \in 0..Size(v), NEW d \in S,
         HasRoom(v)
  PROVE  /\ Insert(v, s, d) \in VectorOf(S)
         /\ Size(Insert(v, s, d)) = Size(v) + 1
         /\ \A k \in 0..Size(v) :
              At(Insert(v, s, d), k) = IF k < s THEN At(v, k)
                                       ELSE IF k = s THEN d ELSE At(v, k - 1)
<1> DEFINE w == Insert(v, s, d)
           e == v.elems
           f == [i \in 1..(Size(v) + 1) |->
                   IF i <= s THEN e[i] ELSE IF i = s + 1 THEN d ELSE e[i - 1]]
           p == IF Size(v) < v.peak THEN v.peak ELSE v.peak + 1
<1>1. w = [elems |-> f, peak |-> p]
  BY DEF Insert
<1>2. Size(v) \in Nat /\ e \in [1..Size(v) -> S] /\ v.peak \in 0..Capacity
  BY VectorFields
<1>3. Capacity \in Nat /\ s \in Nat /\ s <= Size(v)
  BY <1>2, CapacityAssumption
<1>4. p \in 0..Capacity
  BY <1>2, <1>3 DEF HasRoom
<1>5. f \in [1..(Size(v) + 1) -> S]
  <2>1. ASSUME NEW i \in 1..(Size(v) + 1) PROVE f[i] \in S
    BY <1>2, <1>3
  <2> QED BY <2>1
<1>6. f \in Seq(S) /\ Len(f) = Size(v) + 1
  <2>1. Size(v) + 1 \in Nat
    BY <1>2
  <2> HIDE DEF f
  <2> QED BY <1>5, <2>1, FunctionIsSeq
<1>7. w \in VectorOf(S) /\ Size(w) = Size(v) + 1
  <2> HIDE DEF f, p
  <2> QED BY <1>1, <1>4, <1>6 DEF VectorOf, Size
<1>8. ASSUME NEW k \in 0..Size(v)
      PROVE  At(w, k) = IF k < s THEN At(v, k)
                        ELSE IF k = s THEN d ELSE At(v, k - 1)
  <2>1. At(w, k) = f[k + 1]
    BY <1>1 DEF At
  <2>2. k + 1 \in 1..(Size(v) + 1) /\ k \in Nat
    BY <1>2
  <2>3. f[k + 1] = IF k + 1 <= s THEN e[k + 1]
                   ELSE IF k + 1 = s + 1 THEN d ELSE e[k + 1 - 1]
    BY <2>2
  <2>4. CASE k < s
    BY <1>3, <2>1, <2>2, <2>3, <2>4 DEF At
  <2>5. CASE k = s
    BY <1>3, <2>1, <2>2, <2>3, <2>5 DEF At
  <2>6. CASE k > s
    <3>1. At(v, k - 1) = e[k + 1 - 1]
      BY <1>3, <2>2, <2>6 DEF At
    <3> QED BY <1>3, <2>1, <2>2, <2>3, <2>6, <3>1
  <2> QED BY <1>3, <2>2, <2>4, <2>5, <2>6
<1> QED BY <1>7, <1>8

LEMMA PopVector ==
  ASSUME NEW S, NEW v \in VectorOf(S), NEW s \in Indices(v)
  PROVE  /\ PopAt(v, s) \in VectorOf(S)
         /\ Size(PopAt(v, s)) = Size(v) - 1
         /\ \A k \in 0..(Size(v) - 2) :
              At(PopAt(v, s), k) = IF k < s THEN At(v, k) ELSE At(v, k + 1)
<1> DEFINE w == PopAt(v, s)
           e == v.elems
           f == [i \in 1..(Size(v) - 1) |-> IF i <= s THEN e[i] ELSE e[i + 1]]
<1>1. Size(v) \in Nat /\ e \in [1..Size(v) -> S] /\ v.peak \in 0..Capacity
  BY VectorFields
<1>2. s \in Nat /\ s < Size(v) /\ Size(v) - 1 \in Nat
  BY <1>1 DEF Indices
<1>3. w = [elems |-> f, peak |-> v.peak]
  <2>1. PICK x \in Seq(S), p \in 0..Capacity : v = [elems |-> x, peak |-> p]
    BY DEF VectorOf
  <2>2. w = [v EXCEPT !.elems = f]
    BY <1>2 DEF PopAt
  <2> HIDE DEF f
  <2> QED BY <2>1, <2>2
<1>4. f \in [1..(Size(v) - 1) -> S]
  <2>1. ASSUME NEW i \in 1..(Size(v) - 1) PROVE f[i] \in S
    BY <1>1, <1>2
  <2> QED BY <2>1
<1>5. f \in Seq(S) /\ Len(f) = Size(v) - 1
  <2> HIDE DEF f
  <2> QED BY <1>2, <1>4, FunctionIsSeq
<1>6. w \in VectorOf(S) /\ Size(w) = Size(v) - 1
  <2> HIDE DEF f
  <2> QED BY <1>1, <1>3, <1>5 DEF VectorOf, Size
<1>7. ASSUME NEW k \in 0..(Size(v) - 2)
      PROVE  At(w, k) = IF k < s THEN At(v, k) ELSE At(v, k + 1)
  <2>1. At(w, k) = f[k + 1]
    BY <1>3 DEF At
  <2>2. k + 1 \in 1..(Size(v) - 1) /\ k \in Nat
    BY <1>1, <1>2
  <2>3. f[k + 1] = IF k + 1 <= s THEN e[k + 1] ELSE e[k + 1 + 1]
    BY <2>2
  <2> QED BY <1>2, <2>1, <2>2, <2>3 DEF At
<1> QED BY <1>6, <1>7

-----------------------------------------------------------------------------
Good(m, h) ==
  /\ m \in VectorOf(Entry)
  /\ h \subseteq Block
  /\ InOrder(m)
  /\ HeldApart(h)
  /\ FreeNotHeld(m, h)
  /\ GapsNotHeld(m, h)
  /\ UsedHeld(m, h)

LEMMA EntryFields ==
  ASSUME NEW m \in VectorOf(Entry), NEW i \in Indices(m)
  PROVE  /\ At(m, i) \in Entry
         /\ At(m, i).start \in Nat
         /\ At(m, i).end \in Nat
         /\ At(m, i).used \in BOOLEAN
         /\ i \in Nat /\ i < Size(m) /\ Size(m) \in Nat
<1>1. At(m, i) \in Entry /\ Size(m) \in Nat
  BY VectorFields
<1>2. i \in Nat /\ i < Size(m)
  BY <1>1 DEF Indices
<1> QED BY <1>1, <1>2 DEF Entry

LEMMA LimitFacts == Base \in Nat /\ Limit \in Nat /\ Base <= Limit
<1>1. Base \in Nat /\ Pages \in Nat /\ PageSize \in Nat
  BY KHeapAssumption, CapacityAssumption
<1>2. Pages * PageSize \in Nat
  BY <1>1
<1> QED BY <1>1, <1>2 DEF Limit

(* A search that stops at its first hit finds one of the hits.             *)
LEMMA FirstOfFinds ==
  ASSUME NEW m \in VectorOf(Entry), NEW S \in SUBSET Indices(m), S # {}
  PROVE  FirstOf(S) \in S
<1>1. Size(m) \in Nat
  BY VectorFields
<1>2. S \in SUBSET (0..Size(m))
  BY <1>1 DEF Indices
<1>3. \E i \in S : \A j \in S : i <= j
  BY <1>1, <1>2, LeastIndexExists
<1> QED BY <1>3 DEF FirstOf

-----------------------------------------------------------------------------
(***************************************************************************)
(* kmalloc.                                                                *)
(***************************************************************************)

(* What the map is after a block was carved off entry i: the block fills   *)
(* the entry, it comes before the rest of it, or only the rest is listed.  *)
LEMMA CarveCases ==
  ASSUME NEW m \in VectorOf(Entry), NEW i \in Indices(m), NEW n \in Nat,
         Bytes(At(m, i)) >= n, At(m, i).start <= At(m, i).end
  PROVE
    LET e == At(m, i)
        c == Carve(m, i, n)
    IN  /\ Taken(e, n) \in Entry
        /\ c \in VectorOf(Entry)
        /\ \/ /\ e.start + n = e.end
              /\ Size(c) = Size(m)
              /\ \A k \in Indices(m) :
                   At(c, k) = IF k = i THEN Taken(e, n) ELSE At(m, k)
           \/ /\ e.start + n + 1 <= e.end
              /\ Size(c) = Size(m)
              /\ \A k \in Indices(m) :
                   At(c, k) = IF k = i THEN Rest(e, n) ELSE At(m, k)
           \/ /\ e.start + n + 1 <= e.end
              /\ Size(c) = Size(m) + 1
              /\ \A k \in 0..Size(m) :
                   At(c, k) = IF k < i THEN At(m, k)
                              ELSE IF k = i THEN Taken(e, n)
                              ELSE IF k = i + 1 THEN Rest(e, n)
                              ELSE At(m, k - 1)
<1> DEFINE e == At(m, i)
           c == Carve(m, i, n)
<1>1. e.start \in Nat /\ e.end \in Nat /\ i \in Nat /\ Size(m) \in Nat /\ i < Size(m)
  BY EntryFields
<1>2. Taken(e, n) \in Entry /\ Rest(e, n) \in Entry
  BY <1>1 DEF Taken, Rest, Entry
<1>3. CASE Bytes(e) = n
  <2>1. c = Write(m, i, Taken(e, n)) /\ e.start + n = e.end
    BY <1>1, <1>3 DEF Carve, Bytes
  <2> HIDE DEF c, e
  <2>2. /\ c \in VectorOf(Entry) /\ Size(c) = Size(m)
        /\ \A k \in Indices(m) :
             At(c, k) = IF k = i THEN Taken(e, n) ELSE At(m, k)
    BY <1>2, <2>1, WriteVector
  <2> QED BY <1>2, <2>1, <2>2 DEF e, c
<1>4. CASE Bytes(e) # n
  <2> DEFINE w == Write(m, i, Rest(e, n))
  <2>1. c = Insert(w, i, Taken(e, n)) /\ e.start + n + 1 <= e.end
    BY <1>1, <1>4 DEF Carve, Bytes
  <2> HIDE DEF c, e
  <2>2. /\ w \in VectorOf(Entry) /\ Size(w) = Size(m)
        /\ \A k \in Indices(m) :
             At(w, k) = IF k = i THEN Rest(e, n) ELSE At(m, k)
    BY <1>2, WriteVector
  <2> HIDE DEF w
  <2>3. CASE ~HasRoom(w)
    <3>1. c = w
      BY <2>1, <2>3 DEF Insert
    <3> QED BY <1>2, <2>1, <2>2, <3>1 DEF e, c
  <2>4. CASE HasRoom(w)
    <3>1. i \in 0..Size(w)
      BY <1>1, <2>2
    <3>2. /\ c \in VectorOf(Entry) /\ Size(c) = Size(w) + 1
          /\ \A k \in 0..Size(w) :
               At(c, k) = IF k < i THEN At(w, k)
                          ELSE IF k = i THEN Taken(e, n) ELSE At(w, k - 1)
      BY <1>2, <2>1, <2>2, <2>4, <3>1, InsertVector
    <3>3. ASSUME NEW k \in 0..Size(m)
          PROVE  At(c, k) = IF k < i THEN At(m, k)
                            ELSE IF k = i THEN Taken(e, n)
                            ELSE IF k = i + 1 THEN Rest(e, n)
                            ELSE At(m, k - 1)
      <4>1. k \in Nat /\ k \in 0..Size(w)
        BY <1>1, <2>2
      <4>2. CASE k < i
        BY <1>1, <2>2, <3>2, <4>1, <4>2 DEF Indices
      <4>3. CASE k = i
        BY <1>1, <3>2, <4>1, <4>3
      <4>4. CASE k > i
        <5>1. k - 1 \in Indices(m) /\ (k - 1 = i <=> k = i + 1)
          BY <1>1, <4>1, <4>4, <2>2 DEF Indices
        <5>2. At(c, k) = At(w, k - 1)
          BY <1>1, <3>2, <4>1, <4>4
        <5> QED BY <1>1, <2>2, <4>1, <4>4, <5>1, <5>2
      <4> QED BY <1>1, <4>1, <4>2, <4>3, <4>4
    <3> QED BY <1>2, <2>1, <2>2, <3>2, <3>3 DEF e, c
  <2> QED BY <2>3, <2>4
<1> QED BY <1>3, <1>4

(* The facts about a good map that the lemmas below use entry by entry.    *)
LEMMA GoodEntry ==
  ASSUME NEW m, NEW h, Good(m, h), NEW i \in Indices(m)
  PROVE  /\ At(m, i).start \in Nat /\ At(m, i).end \in Nat
         /\ At(m, i).used \in BOOLEAN
         /\ Base <= At(m, i).start /\ At(m, i).end <= Limit
         /\ At(m, i).start <= At(m, i).end
         /\ \A j \in Indices(m) : i < j => At(m, i).end <= At(m, j).start
         /\ i \in Nat /\ i < Size(m) /\ Size(m) \in Nat
<1>1. m \in VectorOf(Entry) /\ InOrder(m)
  BY DEF Good
<1>2. /\ At(m, i).start \in Nat /\ At(m, i).end \in Nat
      /\ At(m, i).used \in BOOLEAN
      /\ i \in Nat /\ i < Size(m) /\ Size(m) \in Nat
  BY <1>1, EntryFields
<1> QED BY <1>1, <1>2 DEF InOrder

LEMMA GoodBlock ==
  ASSUME NEW m, NEW h, Good(m, h), NEW b \in h
  PROVE  /\ b \in Block /\ b.at \in Nat /\ b.size \in Nat /\ b.size > 0
         /\ Base <= b.at /\ b.at + b.size <= Limit
         /\ \A c \in h : b # c => b.at + b.size <= c.at \/ c.at + c.size <= b.at
         /\ \A i \in Indices(m) : ~At(m, i).used =>
              b.at + b.size <= At(m, i).start \/ At(m, i).end <= b.at
         /\ \A i \in Indices(m) :
              i + 1 < Size(m) /\ At(m, i).end + 1 = At(m, i + 1).start
                => b.at + b.size <= At(m, i).end \/ At(m, i).end < b.at
<1>1. b \in Block
  BY DEF Good
<1>2. b.at \in Nat /\ b.size \in Nat
  BY <1>1 DEF Block
<1>3. /\ b.size > 0 /\ Base <= b.at /\ b.at + b.size <= Limit
      /\ \A c \in h : b # c => b.at + b.size <= c.at \/ c.at + c.size <= b.at
  BY DEF Good, HeldApart, Before
<1>4. \A i \in Indices(m) : ~At(m, i).used =>
        b.at + b.size <= At(m, i).start \/ At(m, i).end <= b.at
  BY DEF Good, FreeNotHeld, Before
<1>5. \A i \in Indices(m) :
        i + 1 < Size(m) /\ At(m, i).end + 1 = At(m, i + 1).start
          => b.at + b.size <= At(m, i).end \/ At(m, i).end < b.at
  BY DEF Good, GapsNotHeld, Before
<1> QED BY <1>1, <1>2, <1>3, <1>4, <1>5

(* The block that kmalloc takes from a free entry overlaps no held block.  *)
LEMMA GrantedApart ==
  ASSUME NEW m, NEW h, Good(m, h), NEW n \in Nat \ {0}, NEW i \in Fits(m, n),
         NEW b, b = [at |-> At(m, i).start, size |-> n]
  PROVE  /\ b \in Block
         /\ \A c \in h : c.at + c.size <= b.at \/ b.at + b.size <= c.at
         /\ \A c \in h : c.at # b.at
         /\ HeldApart(h \cup {b})
<1>1. i \in Indices(m) /\ ~At(m, i).used /\ At(m, i).end - At(m, i).start >= n
  BY DEF Fits, Bytes
<1>2. /\ At(m, i).start \in Nat /\ At(m, i).end \in Nat
      /\ Base <= At(m, i).start /\ At(m, i).end <= Limit
      /\ b.at = At(m, i).start /\ b.size = n
      /\ b.at + b.size <= At(m, i).end
  <2>1. /\ At(m, i).start \in Nat /\ At(m, i).end \in Nat
        /\ Base <= At(m, i).start /\ At(m, i).end <= Limit
    BY <1>1, GoodEntry
  <2> QED BY <1>1, <2>1
<1>3. b \in Block
  BY <1>2 DEF Block
<1>4. \A c \in h : c.at + c.size <= b.at \/ b.at + b.size <= c.at
  <2> TAKE c \in h
  <2>1. c.at + c.size <= At(m, i).start \/ At(m, i).end <= c.at
    BY <1>1, GoodBlock
  <2>2. c.at \in Nat /\ c.size \in Nat
    BY GoodBlock
  <2> QED BY <1>2, <2>1, <2>2
<1>5. \A c \in h : c.at # b.at
  <2> TAKE c \in h
  <2>1. c.at \in Nat /\ c.size \in Nat /\ c.size > 0
    BY GoodBlock
  <2> QED BY <1>2, <1>4, <2>1
<1>6. HeldApart(h \cup {b})
  <2>1. b.size > 0 /\ Base <= b.at /\ b.at + b.size <= Limit
    BY <1>2, LimitFacts
  <2>2. HeldApart(h)
    BY DEF Good
  <2> QED BY <1>4, <2>1, <2>2 DEF HeldApart, Before
<1> QED BY <1>3, <1>4, <1>5, <1>6

LEMMA CarveGood ==
  ASSUME NEW m, NEW h, Good(m, h), NEW n \in Nat \ {0}, NEW i \in Fits(m, n)
  PROVE  Good(Carve(m, i, n), h \cup {[at |-> At(m, i).start, size |-> n]})
<1> DEFINE e == At(m, i)
           b == [at |-> e.start, size |-> n]
           g == h \cup {b}
           c == Carve(m, i, n)
<1>1. i \in Indices(m) /\ ~e.used /\ Bytes(e) >= n /\ m \in VectorOf(Entry)
  BY DEF Fits, Good
<1>2. /\ e.start \in Nat /\ e.end \in Nat /\ e.start <= e.end
      /\ Base <= e.start /\ e.end <= Limit
      /\ i \in Nat /\ i < Size(m) /\ Size(m) \in Nat
  BY <1>1, GoodEntry
<1>3. /\ b \in Block
      /\ \A x \in h : x.at + x.size <= b.at \/ b.at + b.size <= x.at
      /\ HeldApart(g)
  BY GrantedApart
<1>4. h \subseteq Block /\ g \subseteq Block
  BY <1>3 DEF Good
<1>5. /\ Taken(e, n).start = e.start /\ Taken(e, n).end = e.start + n
      /\ Taken(e, n).used = TRUE
      /\ Rest(e, n).start = e.start + n + 1 /\ Rest(e, n).end = e.end
      /\ Rest(e, n).used = FALSE
  BY DEF Taken, Rest
<1>6. /\ b.at = e.start /\ b.size = n
      /\ [at |-> Taken(e, n).start, size |-> Bytes(Taken(e, n))] = b
  BY <1>2, <1>5 DEF Bytes
<1>7. Base \in Nat /\ Limit \in Nat
  BY LimitFacts
<1>8. /\ \A k \in Indices(m) :
           /\ At(m, k).start \in Nat /\ At(m, k).end \in Nat
           /\ At(m, k).used \in BOOLEAN
           /\ Base <= At(m, k).start /\ At(m, k).end <= Limit
           /\ At(m, k).start <= At(m, k).end
           /\ \A j \in Indices(m) : k < j => At(m, k).end <= At(m, j).start
      /\ \A x \in g : x.at \in Nat /\ x.size \in Nat /\ x.size > 0
      /\ Size(m) \in Nat /\ i \in Nat
  <2>1. \A x \in g : x.at \in Nat /\ x.size \in Nat
    BY <1>4 DEF Block
  <2>2. \A x \in g : x.size > 0
    BY <1>3 DEF HeldApart
  <2> QED BY <1>2, <2>1, <2>2, GoodEntry
(* A held block and the entries of m, the block granted included: it lies  *)
(* before a free entry of m, after it, or is the start of entry i.         *)
<1>9. \A x \in g, k \in Indices(m) : ~At(m, k).used =>
        \/ x.at + x.size <= At(m, k).start
        \/ At(m, k).end <= x.at
        \/ k = i /\ x.at = e.start /\ x.size = n
  <2> TAKE x \in g, k \in Indices(m)
  <2>1. CASE x \in h
    BY <2>1, GoodBlock
  <2>2. CASE x = b /\ k = i
    BY <2>2
  <2>3. CASE x = b /\ k < i
    BY <1>1, <1>8, <2>3
  <2>4. CASE x = b /\ k > i
    <3>1. e.end <= At(m, k).start /\ x.at + x.size <= e.end
      BY <1>1, <1>2, <1>8, <2>4 DEF Bytes
    <3> QED BY <1>2, <1>8, <3>1
  <2>5. k \in Nat
    BY <1>2 DEF Indices
  <2> QED BY <1>2, <2>1, <2>2, <2>3, <2>4, <2>5
<1>10. \A x \in g, k \in Indices(m) :
         k + 1 < Size(m) /\ At(m, k).end + 1 = At(m, k + 1).start
           => x.at + x.size <= At(m, k).end \/ At(m, k).end < x.at
  <2> SUFFICES ASSUME NEW x \in g, NEW k \in Indices(m), k + 1 < Size(m),
                      At(m, k).end + 1 = At(m, k + 1).start
               PROVE  x.at + x.size <= At(m, k).end \/ At(m, k).end < x.at
    OBVIOUS
  <2>1. k \in Nat /\ k + 1 \in Indices(m)
    BY <1>2 DEF Indices
  <2>2. CASE x \in h
    BY <2>2, GoodBlock
  <2>3. CASE x = b /\ k < i
    <3>1. At(m, k).end + 1 <= e.start
      <4>1. CASE k + 1 = i
        BY <1>2, <1>8, <4>1
      <4>2. CASE k + 1 < i
        <5>1. At(m, k + 1).start <= At(m, k + 1).end
              /\ At(m, k + 1).end <= e.start
          BY <1>1, <1>8, <2>1, <4>2
        <5> QED BY <1>1, <1>8, <2>1, <5>1
      <4> QED BY <1>2, <2>1, <2>3, <4>1, <4>2
    <3> QED BY <1>2, <1>8, <2>3, <3>1
  <2>4. CASE x = b /\ k >= i
    <3>1. e.end <= At(m, k).end
      <4>1. CASE k = i
        BY <1>2, <4>1
      <4>2. CASE k > i
        <5>1. e.end <= At(m, k).start /\ At(m, k).start <= At(m, k).end
          BY <1>1, <1>8, <4>2, <2>1
        <5> QED BY <1>2, <1>8, <5>1
      <4> QED BY <1>2, <2>1, <2>4, <4>1, <4>2
    <3>2. x.at + x.size <= e.end
      BY <1>1, <1>2, <2>4 DEF Bytes
    <3> QED BY <1>2, <1>8, <3>1, <3>2
  <2> QED BY <1>2, <2>1, <2>2, <2>3, <2>4
<1>11. \A k \in Indices(m) : At(m, k).used =>
         [at |-> At(m, k).start, size |-> Bytes(At(m, k))] \in g
  BY DEF Good, UsedHeld
<1>12. /\ c \in VectorOf(Entry)
       /\ \/ /\ e.start + n = e.end
             /\ Size(c) = Size(m)
             /\ \A k \in Indices(m) :
                  At(c, k) = IF k = i THEN Taken(e, n) ELSE At(m, k)
          \/ /\ e.start + n + 1 <= e.end
             /\ Size(c) = Size(m)
             /\ \A k \in Indices(m) :
                  At(c, k) = IF k = i THEN Rest(e, n) ELSE At(m, k)
          \/ /\ e.start + n + 1 <= e.end
             /\ Size(c) = Size(m) + 1
             /\ \A k \in 0..Size(m) :
                  At(c, k) = IF k < i THEN At(m, k)
                             ELSE IF k = i THEN Taken(e, n)
                             ELSE IF k = i + 1 THEN Rest(e, n)
                             ELSE At(m, k - 1)
  BY <1>1, <1>2, CarveCases
<1> SUFFICES InOrder(c) /\ FreeNotHeld(c, g) /\ GapsNotHeld(c, g) /\ UsedHeld(c, g)
  BY <1>3, <1>4, <1>12 DEF Good
<1> HIDE DEF b, g, c, e
<1>13. CASE /\ e.start + n = e.end
            /\ Size(c) = Size(m)
            /\ \A k \in Indices(m) :
                 At(c, k) = IF k = i THEN Taken(e, n) ELSE At(m, k)
  <2>1. Indices(c) = Indices(m)
    BY <1>13 DEF Indices
  <2>2. \A k \in Indices(m) : /\ At(c, k).start = At(m, k).start
                              /\ At(c, k).end = At(m, k).end
                              /\ k # i => At(c, k) = At(m, k)
                              /\ ~At(c, k).used => ~At(m, k).used /\ k # i
    BY <1>5, <1>13 DEF e
  <2>3. InOrder(c)
    BY <1>8, <2>1, <2>2 DEF InOrder
  <2>4. FreeNotHeld(c, g)
    BY <1>9, <2>1, <2>2 DEF FreeNotHeld, Before
  <2>5. GapsNotHeld(c, g)
    <3>1. \A k \in Indices(m) : k + 1 < Size(m) => k + 1 \in Indices(m)
      BY <1>8 DEF Indices
    <3> QED BY <1>10, <1>13, <2>1, <2>2, <3>1 DEF GapsNotHeld, Before
  <2>6. UsedHeld(c, g)
    <3>1. At(c, i) = Taken(e, n)
      BY <1>1, <1>13
    <3>2. b \in g
      BY DEF g
    <3> QED BY <1>6, <1>11, <2>1, <2>2, <3>1, <3>2 DEF UsedHeld
  <2> QED BY <2>3, <2>4, <2>5, <2>6
<1>14. CASE /\ e.start + n + 1 <= e.end
            /\ Size(c) = Size(m)
            /\ \A k \in Indices(m) :
                 At(c, k) = IF k = i THEN Rest(e, n) ELSE At(m, k)
  <2>1. Indices(c) = Indices(m)
    BY <1>14 DEF Indices
  <2>2. \A k \in Indices(m) :
          /\ At(c, k).start = IF k = i THEN e.start + n + 1 ELSE At(m, k).start
          /\ At(c, k).end = At(m, k).end
          /\ k # i => At(c, k) = At(m, k)
          /\ At(c, k).used <=> At(m, k).used
    BY <1>1, <1>5, <1>14 DEF e
  <2>3. \A k \in Indices(m) : /\ At(c, k).start \in Nat
                              /\ At(m, k).start <= At(c, k).start
                              /\ At(c, k).start <= At(c, k).end
    BY <1>2, <1>8, <1>14, <2>2 DEF e
  <2>4. InOrder(c)
    BY <1>7, <1>8, <2>1, <2>2, <2>3 DEF InOrder
  <2>5. FreeNotHeld(c, g)
    <3> SUFFICES ASSUME NEW x \in g, NEW k \in Indices(m), ~At(m, k).used
                 PROVE  x.at + x.size <= At(c, k).start \/ At(c, k).end <= x.at
      BY <2>1, <2>2 DEF FreeNotHeld, Before
    <3> QED BY <1>2, <1>8, <1>9, <2>2, <2>3
  <2>6. GapsNotHeld(c, g)
    <3> SUFFICES ASSUME NEW x \in g, NEW k \in Indices(m), k + 1 < Size(m),
                        At(m, k).end + 1 = At(c, k + 1).start
                 PROVE  x.at + x.size <= At(m, k).end \/ At(m, k).end < x.at
      BY <1>14, <2>1, <2>2 DEF GapsNotHeld, Before
    <3>1. k \in Nat /\ k + 1 \in Indices(m)
      BY <1>8 DEF Indices
    <3>2. k + 1 # i
      <4>1. ASSUME k + 1 = i PROVE FALSE
        <5>1. At(m, k).end <= e.start
          BY <1>1, <1>8, <3>1, <4>1 DEF e
        <5> QED BY <1>2, <1>8, <2>2, <3>1, <4>1, <5>1
      <4> QED BY <4>1
    <3> QED BY <1>10, <2>2, <3>1, <3>2
  <2>7. UsedHeld(c, g)
    <3>1. \A k \in Indices(m) : At(m, k).used => k # i
      BY <1>1 DEF e
    <3> QED BY <1>11, <2>1, <2>2, <3>1 DEF UsedHeld
  <2> QED BY <2>4, <2>5, <2>6, <2>7
<1>15. CASE /\ e.start + n + 1 <= e.end
            /\ Size(c) = Size(m) + 1
            /\ \A k \in 0..Size(m) :
                 At(c, k) = IF k < i THEN At(m, k)
                            ELSE IF k = i THEN Taken(e, n)
                            ELSE IF k = i + 1 THEN Rest(e, n)
                            ELSE At(m, k - 1)
  <2>1. Indices(c) = 0..Size(m) /\ \A k \in 0..Size(m) : k \in Nat
    BY <1>8, <1>15 DEF Indices
  <2>2. ASSUME NEW k \in 0..Size(m)
        PROVE  /\ k <= i => k \in Indices(m)
               /\ k > i => k - 1 \in Indices(m)
    BY <1>2, <2>1 DEF Indices
  <2>3. \A k \in 0..Size(m) :
          /\ k <= i => At(c, k).start = At(m, k).start
          /\ k < i => At(c, k) = At(m, k)
          /\ k = i => /\ At(c, k).end = e.start + n
                      /\ At(c, k) = Taken(e, n)
          /\ k > i => At(c, k).end = At(m, k - 1).end
          /\ k = i + 1 => /\ At(c, k).start = e.start + n + 1
                          /\ ~At(c, k).used
          /\ k > i + 1 => At(c, k) = At(m, k - 1)
    <3> TAKE k \in 0..Size(m)
    <3>1. CASE k < i
      BY <1>2, <1>15, <2>1, <3>1
    <3>2. CASE k = i
      BY <1>2, <1>5, <1>15, <2>1, <3>2 DEF e
    <3>3. CASE k = i + 1
      <4>1. At(c, k) = Rest(e, n) /\ k - 1 = i
        BY <1>2, <1>15, <2>1, <3>3
      <4> QED BY <1>2, <1>5, <2>1, <3>3, <4>1 DEF e
    <3>4. CASE k > i + 1
      BY <1>2, <1>15, <2>1, <3>4
    <3> QED BY <1>2, <2>1, <3>1, <3>2, <3>3, <3>4
  <2>4. \A k \in 0..Size(m) :
          /\ At(c, k).start \in Nat /\ At(c, k).end \in Nat
          /\ At(c, k).start <= At(c, k).end
          /\ k > i => At(m, k - 1).start <= At(c, k).start
          /\ k > i => e.start + n <= At(c, k).start
          /\ Base <= At(c, k).start /\ At(c, k).end <= Limit
    <3> TAKE k \in 0..Size(m)
    <3>1. CASE k < i
      <4>1. k \in Indices(m) /\ At(c, k) = At(m, k)
        BY <1>2, <2>1, <2>2, <2>3, <3>1
      <4> QED BY <1>2, <1>8, <2>1, <3>1, <4>1
    <3>2. CASE k = i
      <4>1. At(c, k).start = e.start /\ At(c, k).end = e.start + n
        BY <1>2, <2>3, <3>2 DEF e
      <4>2. ~(k > i)
        BY <1>2, <3>2
      <4> QED BY <1>2, <1>7, <1>15, <4>1, <4>2 DEF e
    <3>3. CASE k = i + 1
      <4>1. /\ At(c, k).start = e.start + n + 1 /\ At(c, k).end = e.end
            /\ k - 1 = i
        BY <1>2, <2>1, <2>3, <3>3 DEF e
      <4> QED BY <1>2, <1>7, <1>15, <3>3, <4>1 DEF e
    <3>4. CASE k > i + 1
      <4>1. k - 1 \in Indices(m) /\ At(c, k) = At(m, k - 1) /\ i < k - 1
        BY <1>2, <2>1, <2>2, <2>3, <3>4
      <4>2. e.end <= At(m, k - 1).start
        BY <1>1, <1>8, <4>1 DEF e
      <4> QED BY <1>2, <1>7, <1>8, <1>15, <3>4, <4>1, <4>2
    <3> QED BY <1>2, <2>1, <3>1, <3>2, <3>3, <3>4
  <2>5. InOrder(c)
    <3>1. ASSUME NEW j \in 0..Size(m), NEW k \in 0..Size(m), j < k
          PROVE  At(c, j).end <= At(c, k).start
      <4>1. CASE k <= i
        <5>1. /\ j \in Indices(m) /\ k \in Indices(m)
              /\ At(c, j) = At(m, j) /\ At(c, k).start = At(m, k).start
          BY <1>2, <2>1, <2>2, <2>3, <3>1, <4>1
        <5> QED BY <1>8, <3>1, <5>1
      <4>2. CASE j > i
        <5>1. /\ j - 1 \in Indices(m) /\ k - 1 \in Indices(m) /\ j - 1 < k - 1
              /\ At(c, j).end = At(m, j - 1).end
              /\ At(m, k - 1).start <= At(c, k).start
          BY <1>2, <2>1, <2>2, <2>3, <2>4, <3>1, <4>2
        <5>2. At(m, j - 1).end <= At(m, k - 1).start
          BY <1>8, <5>1
        <5> QED BY <1>8, <2>4, <5>1, <5>2
      <4>3. CASE j = i /\ k > i
        BY <2>3, <2>4, <4>3
      <4>4. CASE j < i /\ k > i
        <5>1. j \in Indices(m) /\ At(c, j) = At(m, j)
          BY <1>2, <2>1, <2>2, <2>3, <4>4
        <5>2. At(m, j).end <= e.start
          BY <1>1, <1>8, <4>4, <5>1 DEF e
        <5>3. e.start + n <= At(c, k).start
          BY <2>4, <4>4
        <5> QED BY <1>2, <1>8, <2>4, <5>1, <5>2, <5>3
      <4> QED BY <1>2, <2>1, <3>1, <4>1, <4>2, <4>3, <4>4
    <3> QED BY <2>1, <2>4, <3>1 DEF InOrder
  <2>6. FreeNotHeld(c, g)
    <3> SUFFICES ASSUME NEW x \in g, NEW k \in 0..Size(m), ~At(c, k).used
                 PROVE  x.at + x.size <= At(c, k).start \/ At(c, k).end <= x.at
      BY <2>1 DEF FreeNotHeld, Before
    <3>1. CASE k < i
      <4>1. k \in Indices(m) /\ At(c, k) = At(m, k) /\ k # i
        BY <1>2, <2>1, <2>2, <2>3, <3>1
      <4> QED BY <1>9, <4>1
    <3>2. CASE k = i
      BY <1>5, <2>3, <3>2
    <3>3. CASE k = i + 1
      <4>1. At(c, k).start = e.start + n + 1 /\ At(c, k).end = e.end
        BY <1>2, <2>1, <2>3, <3>3 DEF e
      <4>2. \/ x.at + x.size <= e.start
            \/ e.end <= x.at
            \/ x.at = e.start /\ x.size = n
        BY <1>1, <1>9 DEF e
      <4> QED BY <1>2, <1>8, <4>1, <4>2
    <3>4. CASE k > i + 1
      <4>1. k - 1 \in Indices(m) /\ At(c, k) = At(m, k - 1) /\ k - 1 # i
        BY <1>2, <2>1, <2>2, <2>3, <3>4
      <4> QED BY <1>9, <4>1
    <3> QED BY <1>2, <2>1, <3>1, <3>2, <3>3, <3>4
  <2>7. GapsNotHeld(c, g)
    <3> SUFFICES ASSUME NEW x \in g, NEW k \in 0..Size(m), k < Size(m),
                        At(c, k).end + 1 = At(c, k + 1).start
                 PROVE  x.at + x.size <= At(c, k).end \/ At(c, k).end < x.at
      BY <1>8, <1>15, <2>1 DEF GapsNotHeld, Before
    <3>0. k \in Nat /\ k + 1 \in 0..Size(m)
      BY <1>8, <2>1
    <3>1. CASE k < i
      <4>1. /\ k \in Indices(m) /\ At(c, k) = At(m, k) /\ k + 1 < Size(m)
            /\ At(c, k + 1).start = At(m, k + 1).start
        BY <1>2, <2>2, <2>3, <3>0, <3>1
      <4> QED BY <1>10, <4>1
    <3>2. CASE k = i
      <4>1. At(c, k).end = e.start + n /\ n > 0
        BY <2>3, <3>2
      <4>2. \/ x.at + x.size <= e.start
            \/ e.end <= x.at
            \/ x.at = e.start /\ x.size = n
        BY <1>1, <1>9 DEF e
      <4> QED BY <1>2, <1>8, <1>15, <4>1, <4>2
    <3>3. CASE k > i
      <4>1. /\ k - 1 \in Indices(m) /\ At(c, k).end = At(m, k - 1).end
            /\ (k - 1) + 1 < Size(m) /\ (k - 1) + 1 = k
        BY <1>8, <2>2, <2>3, <3>0, <3>3
      <4>2. At(c, k + 1) = At(m, k)
        <5>1. k + 1 > i + 1 /\ (k + 1) - 1 = k
          BY <1>8, <3>0, <3>3
        <5> QED BY <2>3, <3>0, <5>1
      <4> QED BY <1>10, <4>1, <4>2
    <3> QED BY <1>2, <3>0, <3>1, <3>2, <3>3
  <2>8. UsedHeld(c, g)
    <3> SUFFICES ASSUME NEW k \in 0..Size(m), At(c, k).used
                 PROVE  [at |-> At(c, k).start, size |-> Bytes(At(c, k))] \in g
      BY <2>1 DEF UsedHeld
    <3>1. CASE k < i
      <4>1. k \in Indices(m) /\ At(c, k) = At(m, k)
        BY <1>2, <2>1, <2>2, <2>3, <3>1
      <4> QED BY <1>11, <4>1
    <3>2. CASE k = i
      <4>1. At(c, k) = Taken(e, n) /\ b \in g
        BY <2>3, <3>2 DEF g
      <4> QED BY <1>6, <4>1
    <3>3. CASE k = i + 1
      BY <2>3, <3>3
    <3>4. CASE k > i + 1
      <4>1. k - 1 \in Indices(m) /\ At(c, k) = At(m, k - 1)
        BY <1>2, <2>1, <2>2, <2>3, <3>4
      <4> QED BY <1>11, <4>1
    <3> QED BY <1>2, <2>1, <3>1, <3>2, <3>3, <3>4
  <2> QED BY <2>5, <2>6, <2>7, <2>8
<1> QED BY <1>12, <1>13, <1>14, <1>15

-----------------------------------------------------------------------------
(***************************************************************************)
(* ConJoin and kfree.                                                      *)
(***************************************************************************)
LEMMA ConJoinCases ==
  ASSUME NEW m \in VectorOf(Entry), NEW i \in Indices(m), Joinable(m, i)
  PROVE
    LET c == ConJoin(m, i)
    IN  /\ c \in VectorOf(Entry)
        /\ Size(c) = Size(m) - 1
        /\ \A k \in 0..(Size(m) - 2) :
             /\ k < i => At(c, k) = At(m, k)
             /\ k = i => /\ At(c, k).start = At(m, i).start
                         /\ At(c, k).end = At(m, i + 1).end
                         /\ At(c, k).used = At(m, i).used
             /\ k > i => At(c, k) = At(m, k + 1)
<1> DEFINE J == [At(m, i) EXCEPT !.end = At(m, i + 1).end]
           w == Write(m, i, J)
           c == ConJoin(m, i)
<1>1. /\ i \in Nat /\ Size(m) \in Nat /\ i + 1 < Size(m)
      /\ i + 1 \in Indices(m)
  <2>1. i \in Nat /\ Size(m) \in Nat
    BY EntryFields
  <2> QED BY <2>1 DEF Joinable, Indices
<1>2. /\ J \in Entry /\ J.start = At(m, i).start
      /\ J.end = At(m, i + 1).end /\ J.used = At(m, i).used
  <2>1. At(m, i) \in Entry /\ At(m, i + 1).end \in Nat
    BY <1>1, EntryFields
  <2>2. PICK s \in Nat, t \in Nat, u \in BOOLEAN :
          At(m, i) = [start |-> s, end |-> t, used |-> u]
    BY <2>1 DEF Entry
  <2> QED BY <2>1, <2>2 DEF Entry
<1>3. c = PopAt(w, i + 1)
  BY DEF ConJoin
<1> HIDE DEF J, c
<1>4. /\ w \in VectorOf(Entry) /\ Size(w) = Size(m)
      /\ \A k \in Indices(m) : At(w, k) = IF k = i THEN J ELSE At(m, k)
  BY <1>2, WriteVector
<1> HIDE DEF w
<1>5. i + 1 \in Indices(w)
  BY <1>1, <1>4 DEF Indices
<1>6. /\ c \in VectorOf(Entry) /\ Size(c) = Size(w) - 1
      /\ \A k \in 0..(Size(w) - 2) :
           At(c, k) = IF k < i + 1 THEN At(w, k) ELSE At(w, k + 1)
  BY <1>3, <1>4, <1>5, PopVector
<1>7. ASSUME NEW k \in 0..(Size(m) - 2)
      PROVE  /\ k < i => At(c, k) = At(m, k)
             /\ k = i => At(c, k) = J
             /\ k > i => At(c, k) = At(m, k + 1)
  <2>1. /\ k \in Nat /\ k \in Indices(m) /\ k + 1 \in Indices(m)
        /\ k \in 0..(Size(w) - 2)
    BY <1>1, <1>4 DEF Indices
  <2> QED BY <1>1, <1>4, <1>6, <2>1
<1> QED BY <1>2, <1>4, <1>6, <1>7 DEF c

LEMMA ConJoinGood ==
  ASSUME NEW m, NEW h, Good(m, h), NEW i \in Indices(m)
  PROVE  Good(ConJoin(m, i), h) /\ Size(ConJoin(m, i)) >= i + 1
<1>1. m \in VectorOf(Entry) /\ h \subseteq Block /\ HeldApart(h)
  BY DEF Good
<1>2. i \in Nat /\ Size(m) \in Nat /\ i < Size(m)
  BY <1>1, EntryFields
<1>3. CASE ~Joinable(m, i)
  BY <1>2, <1>3 DEF ConJoin
<1>4. CASE Joinable(m, i)
  <2> DEFINE c == ConJoin(m, i)
             e == At(m, i)
             f == At(m, i + 1)
  <2>1. /\ c \in VectorOf(Entry)
        /\ Size(c) = Size(m) - 1
        /\ \A k \in 0..(Size(m) - 2) :
             /\ k < i => At(c, k) = At(m, k)
             /\ k = i => /\ At(c, k).start = e.start
                         /\ At(c, k).end = f.end
                         /\ At(c, k).used = e.used
             /\ k > i => At(c, k) = At(m, k + 1)
    BY <1>1, <1>4, ConJoinCases
  <2>2. /\ i + 1 < Size(m) /\ i + 1 \in Indices(m)
        /\ ~e.used /\ ~f.used
        /\ e.end = f.start \/ e.end + 1 = f.start
    BY <1>2, <1>4 DEF Joinable, Touches, Indices
  <2>3. \A k \in Indices(m) :
          /\ At(m, k).start \in Nat /\ At(m, k).end \in Nat
          /\ At(m, k).used \in BOOLEAN
          /\ Base <= At(m, k).start /\ At(m, k).end <= Limit
          /\ At(m, k).start <= At(m, k).end
          /\ \A j \in Indices(m) : k < j => At(m, k).end <= At(m, j).start
    BY GoodEntry
  <2>4. \A x \in h : x.at \in Nat /\ x.size \in Nat /\ x.size > 0
    BY GoodBlock
  <2>5. /\ e.start \in Nat /\ e.end \in Nat /\ f.start \in Nat /\ f.end \in Nat
        /\ e.start <= f.end /\ Base <= e.start /\ f.end <= Limit
    <3>1. e.start <= e.end /\ f.start <= f.end /\ e.end <= f.start
      BY <1>2, <2>2, <2>3
    <3> QED BY <2>2, <2>3, <3>1
  (* A held block lies before the joined entry or after it: were it between *)
  (* the two entries, it would be the lost byte, which no block contains.   *)
  <2>6. \A x \in h : x.at + x.size <= e.start \/ f.end <= x.at
    <3> TAKE x \in h
    <3>1. x.at + x.size <= e.start \/ e.end <= x.at
      BY <2>2, GoodBlock
    <3>2. x.at + x.size <= f.start \/ f.end <= x.at
      BY <2>2, GoodBlock
    <3>3. e.end + 1 = f.start => x.at + x.size <= e.end \/ e.end < x.at
      BY <2>2, GoodBlock
    <3> QED BY <2>2, <2>4, <2>5, <3>1, <3>2, <3>3
  <2> HIDE DEF c, e, f
  <2>7. Indices(c) = 0..(Size(m) - 2)
    BY <1>2, <2>1 DEF Indices
  <2>8. \A k \in 0..(Size(m) - 2) :
          /\ k \in Nat /\ k \in Indices(m) /\ k + 1 \in Indices(m)
    BY <1>2 DEF Indices
  (* Where the entries of the joined map start and end.                     *)
  <2>9. \A k \in 0..(Size(m) - 2) :
          /\ k <= i => At(c, k).start = At(m, k).start
          /\ k > i  => At(c, k).start = At(m, k + 1).start
          /\ k < i  => At(c, k).end = At(m, k).end
          /\ k >= i => At(c, k).end = At(m, k + 1).end
    <3> TAKE k \in 0..(Size(m) - 2)
    <3>1. CASE k < i
      BY <1>2, <2>1, <2>8, <3>1
    <3>2. CASE k = i
      BY <1>2, <2>1, <2>8, <3>2 DEF e, f
    <3>3. CASE k > i
      BY <1>2, <2>1, <2>8, <3>3
    <3> QED BY <1>2, <2>8, <3>1, <3>2, <3>3
  <2>10. InOrder(c)
    <3>1. ASSUME NEW k \in 0..(Size(m) - 2)
          PROVE  /\ Base <= At(c, k).start
                 /\ At(c, k).start <= At(c, k).end
                 /\ At(c, k).end <= Limit
      <4>1. CASE k < i
        BY <1>2, <2>3, <2>8, <2>9, <4>1
      <4>2. CASE k = i
        BY <2>1, <2>5, <4>2
      <4>3. CASE k > i
        BY <1>2, <2>3, <2>8, <2>9, <4>3
      <4> QED BY <1>2, <2>8, <4>1, <4>2, <4>3
    <3>2. ASSUME NEW j \in 0..(Size(m) - 2), NEW k \in 0..(Size(m) - 2), j < k
          PROVE  At(c, j).end <= At(c, k).start
      <4>0. /\ j \in Nat /\ k \in Nat /\ j \in Indices(m) /\ k \in Indices(m)
            /\ j + 1 \in Indices(m) /\ k + 1 \in Indices(m)
        BY <2>8
      <4>1. CASE k <= i
        <5>1. At(c, j).end = At(m, j).end /\ At(c, k).start = At(m, k).start
          BY <1>2, <2>9, <3>2, <4>0, <4>1
        <5> QED BY <2>3, <3>2, <4>0, <5>1
      <4>2. CASE j >= i
        <5>1. /\ At(c, j).end = At(m, j + 1).end
              /\ At(c, k).start = At(m, k + 1).start
              /\ j + 1 < k + 1
          BY <1>2, <2>9, <3>2, <4>0, <4>2
        <5> QED BY <2>3, <4>0, <5>1
      <4>3. CASE j < i /\ k > i
        <5>1. /\ At(c, j).end = At(m, j).end
              /\ At(c, k).start = At(m, k + 1).start
              /\ j < k + 1
          BY <1>2, <2>9, <4>0, <4>3
        <5> QED BY <2>3, <4>0, <5>1
      <4> QED BY <1>2, <4>0, <4>1, <4>2, <4>3
    <3> QED BY <2>7, <3>1, <3>2 DEF InOrder
  <2>11. FreeNotHeld(c, h)
    <3> SUFFICES ASSUME NEW x \in h, NEW k \in 0..(Size(m) - 2), ~At(c, k).used
                 PROVE  x.at + x.size <= At(c, k).start \/ At(c, k).end <= x.at
      BY <2>7 DEF FreeNotHeld, Before
    <3>1. CASE k < i
      BY <2>1, <2>8, <3>1, GoodBlock
    <3>2. CASE k = i
      BY <2>1, <2>6, <3>2
    <3>3. CASE k > i
      BY <2>1, <2>8, <3>3, GoodBlock
    <3> QED BY <1>2, <2>8, <3>1, <3>2, <3>3
  <2>12. GapsNotHeld(c, h)
    <3> SUFFICES ASSUME NEW x \in h, NEW k \in 0..(Size(m) - 2),
                        k + 1 < Size(m) - 1,
                        At(c, k).end + 1 = At(c, k + 1).start
                 PROVE  x.at + x.size <= At(c, k).end \/ At(c, k).end < x.at
      BY <2>1, <2>7 DEF GapsNotHeld, Before
    <3>0. /\ k \in Nat /\ k \in Indices(m) /\ k + 1 \in Indices(m)
          /\ k + 1 \in 0..(Size(m) - 2)
      BY <1>2, <2>8
    <3>1. CASE k < i
      <4>1. /\ At(c, k).end = At(m, k).end
            /\ At(c, k + 1).start = At(m, k + 1).start
            /\ k + 1 < Size(m)
        BY <1>2, <2>9, <3>0, <3>1
      <4> QED BY <3>0, <4>1, GoodBlock
    <3>2. CASE k >= i
      <4>1. /\ At(c, k).end = At(m, k + 1).end
            /\ At(c, k + 1).start = At(m, (k + 1) + 1).start
            /\ (k + 1) + 1 < Size(m)
        BY <1>2, <2>9, <3>0, <3>2
      <4> QED BY <3>0, <4>1, GoodBlock
    <3> QED BY <1>2, <3>0, <3>1, <3>2
  <2>13. UsedHeld(c, h)
    <3> SUFFICES ASSUME NEW k \in 0..(Size(m) - 2), At(c, k).used
                 PROVE  [at |-> At(c, k).start, size |-> Bytes(At(c, k))] \in h
      BY <2>7 DEF UsedHeld
    <3>0. \A j \in Indices(m) : At(m, j).used =>
            [at |-> At(m, j).start, size |-> Bytes(At(m, j))] \in h
      BY DEF Good, UsedHeld
    <3>1. CASE k < i
      BY <2>1, <2>8, <3>0, <3>1
    <3>2. CASE k = i
      BY <2>1, <2>2, <3>2
    <3>3. CASE k > i
      BY <2>1, <2>8, <3>0, <3>3
    <3> QED BY <1>2, <2>8, <3>1, <3>2, <3>3
  <2>14. Size(c) >= i + 1
    BY <1>2, <2>1, <2>2
  <2> QED BY <1>1, <2>1, <2>10, <2>11, <2>12, <2>13, <2>14 DEF Good, c
<1> QED BY <1>3, <1>4

(* Marking the entry of a held block free, with the block given back.      *)
LEMMA MarkFreeGood ==
  ASSUME NEW m, NEW h, Good(m, h), NEW p, NEW i \in UsedAt(m, p)
  PROVE  /\ Good(MarkFree(m, i), {b \in h : b.at # p})
         /\ Size(MarkFree(m, i)) = Size(m)
         /\ i \in Indices(m)
<1> DEFINE c == MarkFree(m, i)
           g == {b \in h : b.at # p}
           J == [At(m, i) EXCEPT !.used = FALSE]
           own == [at |-> At(m, i).start, size |-> Bytes(At(m, i))]
<1>1. /\ m \in VectorOf(Entry) /\ i \in Indices(m)
      /\ At(m, i).start = p /\ At(m, i).used
  BY DEF Good, UsedAt
<1>2. \A k \in Indices(m) :
        /\ At(m, k).start \in Nat /\ At(m, k).end \in Nat
        /\ At(m, k).start <= At(m, k).end
        /\ \A j \in Indices(m) : k < j => At(m, k).end <= At(m, j).start
        /\ k \in Nat
  BY GoodEntry
<1>3. /\ J \in Entry /\ J.start = At(m, i).start
      /\ J.end = At(m, i).end /\ J.used = FALSE
  <2>1. At(m, i) \in Entry
    BY <1>1, EntryFields
  <2>2. PICK s \in Nat, t \in Nat, u \in BOOLEAN :
          At(m, i) = [start |-> s, end |-> t, used |-> u]
    BY <2>1 DEF Entry
  <2> QED BY <2>1, <2>2 DEF Entry
<1>4. /\ c \in VectorOf(Entry) /\ Size(c) = Size(m)
      /\ \A k \in Indices(m) : At(c, k) = IF k = i THEN J ELSE At(m, k)
  <2>1. c = Write(m, i, J)
    BY DEF MarkFree
  <2> HIDE DEF J, c
  <2> QED BY <1>1, <1>3, <2>1, WriteVector
<1> HIDE DEF J, c
<1>5. /\ Indices(c) = Indices(m)
      /\ \A k \in Indices(m) : /\ At(c, k).start = At(m, k).start
                               /\ At(c, k).end = At(m, k).end
                               /\ k # i => At(c, k) = At(m, k)
                               /\ At(c, k).used => At(m, k).used /\ k # i
  BY <1>3, <1>4 DEF Indices
(* The entry is a block of h: no other held block overlaps it.             *)
<1>6. own \in h /\ own.at = p /\ own.at + own.size = At(m, i).end
  <2>1. own \in h
    BY <1>1 DEF Good, UsedHeld
  <2>2. At(m, i).start \in Nat /\ At(m, i).end \in Nat
        /\ At(m, i).start <= At(m, i).end
    BY <1>1, <1>2
  <2> QED BY <1>1, <2>1, <2>2 DEF Bytes
<1> HIDE DEF own
<1>7. \A x \in g : x.at + x.size <= At(m, i).start \/ At(m, i).end <= x.at
  <2> TAKE x \in g
  <2>1. x \in h /\ x # own
    BY <1>6
  <2>2. x.at + x.size <= own.at \/ own.at + own.size <= x.at
    BY <1>6, <2>1, GoodBlock
  <2> QED BY <1>1, <1>6, <2>2
<1>8. InOrder(c)
  BY <1>5 DEF Good, InOrder
<1>9. g \subseteq Block /\ HeldApart(g)
  BY DEF Good, HeldApart
<1>10. FreeNotHeld(c, g)
  <2> SUFFICES ASSUME NEW x \in g, NEW k \in Indices(m), ~At(c, k).used
               PROVE  x.at + x.size <= At(c, k).start \/ At(c, k).end <= x.at
    BY <1>5 DEF FreeNotHeld, Before
  <2>1. CASE k = i
    BY <1>5, <1>7, <2>1
  <2>2. CASE k # i
    BY <1>5, <2>2, GoodBlock
  <2> QED BY <2>1, <2>2
<1>11. GapsNotHeld(c, g)
  <2> SUFFICES ASSUME NEW x \in g, NEW k \in Indices(m), k + 1 < Size(m),
                      At(c, k).end + 1 = At(c, k + 1).start
               PROVE  x.at + x.size <= At(c, k).end \/ At(c, k).end < x.at
    BY <1>4, <1>5 DEF GapsNotHeld, Before
  <2>1. k + 1 \in Indices(m)
    BY <1>1, EntryFields DEF Indices
  <2> QED BY <1>5, <2>1, GoodBlock
<1>12. UsedHeld(c, g)
  <2> SUFFICES ASSUME NEW k \in Indices(m), At(c, k).used
               PROVE  [at |-> At(m, k).start, size |-> Bytes(At(m, k))] \in g
    BY <1>5 DEF UsedHeld, Bytes
  <2> DEFINE x == [at |-> At(m, k).start, size |-> Bytes(At(m, k))]
  <2>1. x \in h /\ k # i
    BY <1>5 DEF Good, UsedHeld
  <2>2. At(m, k).start < At(m, k).end
    <3>1. x.size > 0
      BY <2>1, GoodBlock
    <3> QED BY <1>2, <3>1 DEF Bytes
  <2>3. At(m, i).start < At(m, i).end
    <3>1. own.size > 0
      BY <1>6, GoodBlock
    <3> QED BY <1>1, <1>2, <3>1 DEF Bytes, own
  <2>4. At(m, k).start # p
    <3>1. CASE k < i
      BY <1>1, <1>2, <2>2, <3>1
    <3>2. CASE i < k
      BY <1>1, <1>2, <2>3, <3>2
    <3> QED BY <1>1, <1>2, <2>1, <3>1, <3>2
  <2> QED BY <2>1, <2>4
<1> QED BY <1>1, <1>4, <1>8, <1>9, <1>10, <1>11, <1>12 DEF Good, c

LEMMA ReleasedGood ==
  ASSUME NEW m, NEW h, Good(m, h), NEW p, NEW save \in BOOLEAN,
         NEW g, g = {b \in h : b.at # p}
  PROVE  Good(Released(m, p, save), g)
<1>1. CASE UsedAt(m, p) = {}
  <2>1. UsedHeld(m, g)
    <3> SUFFICES ASSUME NEW k \in Indices(m), At(m, k).used
                 PROVE  [at |-> At(m, k).start, size |-> Bytes(At(m, k))] \in g
      BY DEF UsedHeld
    <3>1. At(m, k).start # p
      BY <1>1 DEF UsedAt
    <3> QED BY <3>1 DEF Good, UsedHeld
  <2>2. g \subseteq Block /\ HeldApart(g) /\ FreeNotHeld(m, g) /\ GapsNotHeld(m, g)
    BY DEF Good, HeldApart, FreeNotHeld, GapsNotHeld
  <2> QED BY <1>1, <2>1, <2>2 DEF Good, Released
<1>2. CASE UsedAt(m, p) # {}
  <2> DEFINE i == FirstOf(UsedAt(m, p))
             f == MarkFree(m, i)
  <2>1. i \in UsedAt(m, p)
    BY <1>2, FirstOfFinds DEF UsedAt, Good
  <2>2. Good(f, g) /\ i \in Indices(f)
    <3>1. /\ Good(f, {b \in h : b.at # p})
          /\ Size(f) = Size(m) /\ i \in Indices(m)
      BY <2>1, MarkFreeGood
    <3>2. Good(f, g)
      <4> HIDE DEF f
      <4> QED BY <3>1, Zenon
    <3> QED BY <3>1, <3>2 DEF Indices
  <2>3. Released(m, p, save) \in {f, JoinAround(f, i)}
    BY <1>2 DEF Released
  <2> HIDE DEF f, i
  <2>4. Good(JoinAround(f, i), g)
    <3>1. Good(ConJoin(f, i), g) /\ Size(ConJoin(f, i)) >= i + 1
      BY <2>2, ConJoinGood
    <3>2. CASE i > 0
      <4>1. i - 1 \in Indices(ConJoin(f, i))
        <5>1. ConJoin(f, i) \in VectorOf(Entry) /\ f \in VectorOf(Entry)
          BY <2>2, <3>1 DEF Good
        <5>2. Size(ConJoin(f, i)) \in Nat /\ i \in Nat
          BY <2>2, <5>1, VectorFields, EntryFields
        <5> QED BY <3>1, <3>2, <5>2 DEF Indices
      <4> QED BY <3>1, <3>2, <4>1, ConJoinGood DEF JoinAround
    <3>3. CASE ~(i > 0)
      BY <3>1, <3>3 DEF JoinAround
    <3> QED BY <3>2, <3>3
  <2> QED BY <2>2, <2>3, <2>4
<1> QED BY <1>1, <1>2

-----------------------------------------------------------------------------
(***************************************************************************)
(* The specification.                                                      *)
(***************************************************************************)
(* The kernel has not stopped while init_memory is at work.                *)
Booting == boot # 0 => stopped = "no"

Inv == Good(map, held) /\ TypeOK /\ Booting

(* init_memory lists its pages in order: page k starts where page k - 1    *)
(* ends.                                                                   *)
LEMMA PageBounds ==
  ASSUME NEW k \in 0..(Pages - 1)
  PROVE  /\ PageEntry(k) \in Entry
         /\ Base <= PageEntry(k).start
         /\ PageEntry(k).start <= PageEntry(k).end
         /\ PageEntry(k).end <= Limit
         /\ PageEntry(k).used = FALSE
         /\ \A j \in 0..(Pages - 1) :
              k < j => PageEntry(k).end <= PageEntry(j).start
<1>1. Pages \in Nat /\ PageSize \in Nat /\ Base \in Nat /\ k \in Nat /\ k < Pages
  BY KHeapAssumption, CapacityAssumption
<1>2. \A a, b \in Nat : a <= b => a * PageSize <= b * PageSize
  <2> SUFFICES ASSUME NEW a \in Nat, NEW b \in Nat, a <= b
               PROVE  a * PageSize <= b * PageSize
    OBVIOUS
  <2>1. b - a \in Nat /\ (b - a) * PageSize >= 0
    BY <1>1
  <2>2. (b - a) * PageSize = b * PageSize - a * PageSize
    BY <1>1
  <2> QED BY <1>1, <2>1, <2>2
<1>3. k * PageSize \in Nat /\ (k + 1) * PageSize \in Nat /\ Pages * PageSize \in Nat
  BY <1>1
<1>4. /\ k * PageSize <= (k + 1) * PageSize
      /\ (k + 1) * PageSize <= Pages * PageSize
  BY <1>1, <1>2
<1>5. \A j \in 0..(Pages - 1) :
        k < j => (k + 1) * PageSize <= j * PageSize /\ j * PageSize \in Nat
  BY <1>1, <1>2
<1>6. \A j \in Nat : /\ PageEntry(j).start = Base + j * PageSize
                     /\ PageEntry(j).end = Base + (j + 1) * PageSize
                     /\ PageEntry(j).used = FALSE
  BY DEF PageEntry
<1>7. PageEntry(k) \in Entry
  BY <1>1, <1>3 DEF PageEntry, Entry
<1> DEFINE first == k * PageSize
           next  == (k + 1) * PageSize
           last  == Pages * PageSize
<1>8. /\ first \in Nat /\ next \in Nat /\ last \in Nat
      /\ first <= next /\ next <= last
      /\ PageEntry(k).start = Base + first /\ PageEntry(k).end = Base + next
      /\ Limit = Base + last
  BY <1>1, <1>3, <1>4, <1>6 DEF Limit
<1>9. ASSUME NEW j \in 0..(Pages - 1), k < j
      PROVE  PageEntry(k).end <= PageEntry(j).start
  <2> DEFINE other == j * PageSize
  <2>1. other \in Nat /\ next <= other /\ PageEntry(j).start = Base + other
    <3>1. j \in Nat
      BY <1>1
    <3> QED BY <1>5, <1>6, <1>9, <3>1
  <2> HIDE DEF next, other
  <2> QED BY <1>1, <1>8, <2>1
<1>10. /\ Base <= PageEntry(k).start
       /\ PageEntry(k).start <= PageEntry(k).end
       /\ PageEntry(k).end <= Limit
  <2> HIDE DEF first, next, last
  <2> QED BY <1>1, <1>8
<1> QED BY <1>1, <1>6, <1>7, <1>9, <1>10

LEMMA InitInv == Init => Inv
<1> SUFFICES ASSUME Init PROVE Inv
  OBVIOUS
<1>1. Pages \in Nat /\ Pages \in 0..Capacity
  BY KHeapAssumption, CapacityAssumption
<1>2. /\ map.elems = [k \in 1..Pages |-> PageEntry(k - 1)]
      /\ map = [elems |-> map.elems, peak |-> Pages]
      /\ held = {}
  BY DEF Init
<1>3. map.elems \in [1..Pages -> Entry]
  <2>1. \A k \in 1..Pages : PageEntry(k - 1) \in Entry
    <3> TAKE k \in 1..Pages
    <3>1. k - 1 \in 0..(Pages - 1)
      BY <1>1
    <3> QED BY <3>1, PageBounds
  <2> QED BY <1>2, <2>1
<1>4. map.elems \in Seq(Entry) /\ Len(map.elems) = Pages
  BY <1>1, <1>3, FunctionIsSeq
<1>5. map \in VectorOf(Entry)
  BY <1>1, <1>2, <1>4 DEF VectorOf
<1>6. /\ Indices(map) = 0..(Pages - 1)
      /\ \A k \in Indices(map) : At(map, k) = PageEntry(k)
  <2>1. Indices(map) = 0..(Pages - 1)
    BY <1>4 DEF Indices, Size
  <2>2. ASSUME NEW k \in 0..(Pages - 1) PROVE At(map, k) = PageEntry(k)
    <3>1. k + 1 \in 1..Pages /\ (k + 1) - 1 = k
      BY <1>1
    <3>2. map.elems[k + 1] = PageEntry((k + 1) - 1)
      BY <1>2, <3>1
    <3> QED BY <3>1, <3>2 DEF At
  <2> QED BY <2>1, <2>2
<1>7. InOrder(map) /\ UsedHeld(map, held)
  BY <1>6, PageBounds DEF InOrder, UsedHeld
<1>8. HeldApart(held) /\ FreeNotHeld(map, held) /\ GapsNotHeld(map, held)
  BY <1>2 DEF HeldApart, FreeNotHeld, GapsNotHeld
<1>9. saving \in BOOLEAN /\ stopped \in {"no", "oom", "oob"} /\ held \subseteq Block
  BY DEF Init
<1>10. boot \in 0..(Pages + 1)
  BY <1>1 DEF Init
<1>11. Booting
  BY DEF Init, Booting
<1> QED BY <1>2, <1>5, <1>7, <1>8, <1>9, <1>10, <1>11
  DEF Inv, Good, TypeOK

LEMMA GrantInv ==
  ASSUME Inv, NEW n \in Nat \ {0}, Grant(n)
  PROVE  Good(map, held)' /\ (held \subseteq Block)'
<1>1. Fits(map, n) # {}
  BY DEF Grant
<1>2. FirstOf(Fits(map, n)) \in Fits(map, n)
  BY <1>1, FirstOfFinds DEF Inv, Good, Fits
<1>3. Good(map, held)'
  BY <1>2, CarveGood DEF Inv, Grant
<1> QED BY <1>3 DEF Good

(* end_debug takes a block for its report and gives it back.               *)
LEMMA EndDebugInv ==
  ASSUME Inv, EndDebug
  PROVE  Good(map, held)'
<1> DEFINE fits  == Fits(map, ReportBytes)
           i     == FirstOf(fits)
           taken == Carve(map, i, ReportBytes)
           b     == [at |-> At(map, i).start, size |-> ReportBytes]
<1>1. Good(map, held) /\ held' = held
  BY DEF Inv, EndDebug
<1>2. CASE fits = {}
  <2>1. map' = map
    BY <1>2 DEF EndDebug
  <2> QED BY <1>1, <2>1
<1>3. CASE fits # {}
  <2>1. map' = Released(taken, b.at, FALSE)
    BY <1>3 DEF EndDebug
  <2>2. i \in fits /\ ReportBytes \in Nat \ {0}
    BY <1>1, <1>3, FirstOfFinds, KHeapAssumption DEF Good, Fits
  <2>3. Good(taken, held \cup {b}) /\ \A x \in held : x.at # b.at
    BY <1>1, <2>2, CarveGood, GrantedApart
  <2>4. held = {x \in held \cup {b} : x.at # b.at}
    BY <2>3
  <2>5. Good(Released(taken, b.at, FALSE), held)
    <3> HIDE DEF taken, b
    <3> QED BY <2>3, <2>4, ReleasedGood
  <2> HIDE DEF taken, b
  <2> QED BY <1>1, <2>1, <2>5
<1> QED BY <1>2, <1>3

LEMMA NextInv == Inv /\ [Next]_vars => Inv'
<1> SUFFICES ASSUME Inv, [Next]_vars PROVE Inv'
  OBVIOUS
<1>1. Good(map, held) /\ map \in VectorOf(Entry)
  BY DEF Inv, Good
<1>2. Pages \in Nat
  BY KHeapAssumption, CapacityAssumption
<1>3. /\ saving \in BOOLEAN /\ boot \in 0..(Pages + 1)
      /\ stopped \in {"no", "oom", "oob"} /\ held \subseteq Block
      /\ boot # 0 => stopped = "no"
  BY DEF Inv, TypeOK, Booting
<1> SUFFICES Good(map, held)' /\ (saving \in BOOLEAN)' /\ (boot \in 0..(Pages + 1))'
             /\ (stopped \in {"no", "oom", "oob"})' /\ Booting'
  BY DEF Inv, TypeOK, Good
<1>4. CASE BootJoin
  <2>1. map' = ConJoin(map, 0) /\ held' = held
    BY <1>4 DEF BootJoin
  <2>2. Good(ConJoin(map, 0), held)
    <3>1. CASE 0 \in Indices(map)
      BY <1>1, <3>1, ConJoinGood
    <3>2. CASE 0 \notin Indices(map)
      <4>1. Size(map) \in Nat
        BY <1>1, VectorFields
      <4>2. ConJoin(map, 0) = map
        BY <3>2, <4>1 DEF Indices, ConJoin, Joinable
      <4> QED BY <1>1, <4>2
    <3> QED BY <3>1, <3>2
  <2>3. Good(map, held)'
    BY <2>1, <2>2
  <2> QED BY <1>2, <1>3, <1>4, <2>3 DEF BootJoin, Booting
<1>5. CASE BootDebugMap
  <2>1. Good(map, held)'
    BY <1>5, GrantInv, KHeapAssumption DEF BootDebugMap
  <2> QED BY <1>2, <1>3, <1>5, <2>1 DEF BootDebugMap, Grant, Booting
<1>6. CASE DoKmalloc
  <2>1. PICK n \in 1..MaxAlloc : Kmalloc(n)
    BY <1>6 DEF DoKmalloc
  <2>2. n \in Nat \ {0}
    BY KHeapAssumption
  <2>3. Good(map, held)'
    BY <2>1, <2>2, GrantInv DEF Kmalloc
  <2> QED BY <1>3, <2>1, <2>3 DEF Kmalloc, Grant, Ready, Booting
<1>7. CASE DoKmallocFault
  BY <1>1, <1>3, <1>7 DEF DoKmallocFault, KmallocFault, Ready, Booting
<1>8. CASE DoKfree
  <2>1. PICK p \in (0..Limit) \ {Base} : Kfree(p)
    BY <1>8 DEF DoKfree
  <2>2. Good(map, held)'
    BY <1>1, <1>3, <2>1, ReleasedGood DEF Kfree
  <2> QED BY <1>3, <2>1, <2>2 DEF Kfree, Ready, Booting
<1>9. CASE StartDebug
  BY <1>1, <1>3, <1>9 DEF StartDebug, Ready, Booting
<1>10. CASE EndDebug
  <2>1. Good(map, held)'
    BY <1>10, EndDebugInv
  <2>2. stopped' \in {"no", "oom", "oob"}
    BY <1>10 DEF EndDebug
  <2> QED BY <1>3, <1>10, <2>1, <2>2 DEF EndDebug, Ready, Booting
<1>11. CASE UNCHANGED vars
  BY <1>1, <1>3, <1>11 DEF vars, Booting
<1> QED BY <1>4, <1>5, <1>6, <1>7, <1>8, <1>9, <1>10, <1>11 DEF Next

LEMMA InvAlways == Spec => []Inv
BY InitInv, NextInv, PTL DEF Spec

(* Every variable of the heap stays in its range.                          *)
THEOREM HeapTypeOK == Spec => []TypeOK
<1>1. Inv => TypeOK
  BY DEF Inv
<1> QED BY <1>1, InvAlways, PTL

(* MemoryMap stays in address order, without overlap, within the heap.     *)
THEOREM HeapOrdered == Spec => []Ordered
<1>1. Inv => Ordered
  BY DEF Inv, Good, Ordered
<1> QED BY <1>1, InvAlways, PTL

(* No two held blocks overlap, and nothing that kmalloc may still hand out *)
(* overlaps one, however full MemoryMap is.                                *)
THEOREM HeapHeldSafe == Spec => []HeldSafe
<1>1. Inv => HeldSafe
  BY DEF Inv, Good, HeldSafe
<1> QED BY <1>1, InvAlways, PTL

(* Every used entry is a block that a caller holds.                        *)
THEOREM HeapUsedIsHeld == Spec => []UsedIsHeld
<1>1. Inv => UsedIsHeld
  BY DEF Inv, Good, UsedIsHeld
<1> QED BY <1>1, InvAlways, PTL

-----------------------------------------------------------------------------
(***************************************************************************)
(* The heap implements Allocator.                                          *)
(***************************************************************************)
LEMMA InitMaps == Init => Alloc!Init
BY DEF Init, Alloc!Init

(* A kmalloc, of init_memory or of a caller, is an Alloc.                  *)
LEMMA GrantMaps ==
  ASSUME Inv, NEW n \in 1..MaxAlloc, Grant(n), stopped = "no"
  PROVE  Alloc!Alloc
<1> DEFINE i == FirstOf(Fits(map, n))
           b == [at |-> At(map, i).start, size |-> n]
<1>1. n \in Nat \ {0}
  BY KHeapAssumption
<1>2. Good(map, held) /\ i \in Fits(map, n)
  BY FirstOfFinds DEF Inv, Good, Fits, Grant
<1>3. /\ \A c \in held : c.at + c.size <= b.at \/ b.at + b.size <= c.at
      /\ HeldApart(held \cup {b})
      /\ b \in Block
  BY <1>1, <1>2, GrantedApart
<1>4. Base <= b.at /\ b.at + b.size <= Limit
  BY <1>3 DEF HeldApart, Before
<1>5. b.at \in Base..Limit
  <2>1. At(map, i).start \in Nat /\ b.at = At(map, i).start /\ b.size = n
    BY <1>2, GoodEntry DEF Fits
  <2> QED BY <1>1, <1>4, <2>1, LimitFacts
<1>6. held' = held \cup {b} /\ stopped' = stopped
  BY DEF Grant
<1> QED BY <1>3, <1>4, <1>5, <1>6 DEF Alloc!Alloc, Alloc!InHeap, Alloc!Apart

(* A kfree frees the one held block that starts at its pointer, or, with a *)
(* pointer that starts none, changes nothing.                              *)
LEMMA KfreeMaps ==
  ASSUME Inv, NEW p, Kfree(p)
  PROVE  [Alloc!Next]_(Alloc!vars)
<1>1. stopped = "no" /\ held' = {b \in held : b.at # p}
  BY DEF Kfree, Ready
<1>2. CASE \A b \in held : b.at # p
  <2>1. held' = held
    BY <1>1, <1>2
  <2>2. UsedAt(map, p) = {}
    <3>1. ASSUME NEW i \in UsedAt(map, p) PROVE FALSE
      <4>1. [at |-> At(map, i).start, size |-> Bytes(At(map, i))] \in held
            /\ At(map, i).start = p
        BY DEF UsedAt, Inv, Good, UsedHeld
      <4> QED BY <1>2, <4>1
    <3> QED BY <3>1
  <2>3. stopped' = "no"
    BY <2>2 DEF Kfree, ReleaseFails
  <2> QED BY <1>1, <2>1, <2>3 DEF Alloc!vars
<1>3. CASE \E b \in held : b.at = p
  <2>1. PICK b \in held : b.at = p
    BY <1>3
  <2>2. \A c \in held : c.at = p => c = b
    <3> SUFFICES ASSUME NEW c \in held, c.at = p, c # b PROVE FALSE
      OBVIOUS
    <3>1. /\ b.at \in Nat /\ b.size \in Nat /\ b.size > 0
          /\ c.size \in Nat /\ c.size > 0
          /\ c.at + c.size <= b.at \/ b.at + b.size <= c.at
      BY GoodBlock DEF Inv
    <3> QED BY <2>1, <3>1
  <2>3. held' = held \ {b}
    BY <1>1, <2>1, <2>2
  <2> QED BY <1>1, <2>3 DEF Alloc!Next, Alloc!Free
<1> QED BY <1>2, <1>3

LEMMA NextMaps == Inv /\ [Next]_vars => [Alloc!Next]_(Alloc!vars)
<1> SUFFICES ASSUME Inv, [Next]_vars PROVE [Alloc!Next]_(Alloc!vars)
  OBVIOUS
<1>1. CASE BootJoin
  BY <1>1 DEF BootJoin, Alloc!vars
<1>2. CASE BootDebugMap
  <2>1. stopped = "no"
    BY <1>2 DEF BootDebugMap, Inv, Booting
  <2> QED BY <1>2, <2>1, GrantMaps, KHeapAssumption DEF BootDebugMap, Alloc!Next
<1>3. CASE DoKmalloc
  <2>1. PICK n \in 1..MaxAlloc : Kmalloc(n)
    BY <1>3 DEF DoKmalloc
  <2> QED BY <2>1, GrantMaps DEF Kmalloc, Ready, Alloc!Next
<1>4. CASE DoKmallocFault
  BY <1>4 DEF DoKmallocFault, KmallocFault, Ready, Alloc!Next, Alloc!Stop
<1>5. CASE DoKfree
  BY <1>5, KfreeMaps DEF DoKfree
<1>6. CASE StartDebug
  BY <1>6 DEF StartDebug, Alloc!vars
<1>7. CASE EndDebug
  <2>1. stopped = "no" /\ held' = held
    BY <1>7 DEF EndDebug, Ready
  <2>2. CASE stopped' = "no"
    BY <2>1, <2>2 DEF Alloc!vars
  <2>3. CASE stopped' # "no"
    BY <2>1, <2>3 DEF Alloc!Next, Alloc!Stop
  <2> QED BY <2>2, <2>3
<1>8. CASE UNCHANGED vars
  BY <1>8 DEF vars, Alloc!vars
<1> QED BY <1>1, <1>2, <1>3, <1>4, <1>5, <1>6, <1>7, <1>8 DEF Next

(* kmalloc and kfree are an allocator, whatever the size of the heap and   *)
(* the capacity of MemoryMap.                                              *)
THEOREM HeapImplementsAllocator == Spec => ImplementsAllocator
<1>1. Spec => Alloc!Spec
  BY InitMaps, NextMaps, InvAlways, PTL DEF Spec, Alloc!Spec
<1> QED BY <1>1 DEF ImplementsAllocator

-----------------------------------------------------------------------------
(***************************************************************************)
(* That the heap stays whole: as long as MemoryMap has never been full, it *)
(* lists all memory from Base to Limit and every block that is held; kfree *)
(* runs off its end only at the last entry; and, without debugging, no     *)
(* step leaves more in pieces than there was.                              *)
(*                                                                         *)
(* Tiling is inductive relative to Good, which gives the order of the      *)
(* entries.  It says nothing of a map whose peak is Capacity, and no       *)
(* operation lowers the peak, so each operation may be taken to have had   *)
(* room.  The two others need no such condition.                           *)
(***************************************************************************)

Whole(m) ==
  /\ Size(m) > 0
  /\ At(m, 0).start = Base
  /\ At(m, Size(m) - 1).end = Limit
  /\ \A i \in Indices(m) : i + 1 < Size(m) => Touches(At(m, i), At(m, i + 1))

Found(m, h) ==
  \A b \in h : \E i \in Indices(m) :
    At(m, i).used /\ At(m, i).start = b.at /\ Bytes(At(m, i)) = b.size

Tiling(m, h) == m.peak < Capacity => Whole(m) /\ Found(m, h)

LEMMA TiledIsTiling == Tiled <=> Tiling(map, held)
BY DEF Tiled, Tiling, NeverFull, HeldFound, Whole, Found

(* What the operations of a vector do to its peak.                         *)
LEMMA WritePeak ==
  ASSUME NEW S, NEW v \in VectorOf(S), NEW s, NEW d
  PROVE  Write(v, s, d).peak = v.peak
<1>1. PICK e \in Seq(S), p \in 0..Capacity : v = [elems |-> e, peak |-> p]
  BY DEF VectorOf
<1>2. Write(v, s, d) = [elems |-> [e EXCEPT ![s + 1] = d], peak |-> p]
  BY <1>1 DEF Write
<1> QED BY <1>1, <1>2

LEMMA PopPeak ==
  ASSUME NEW S, NEW v \in VectorOf(S), NEW s
  PROVE  PopAt(v, s).peak = v.peak
<1>1. PICK e \in Seq(S), p \in 0..Capacity : v = [elems |-> e, peak |-> p]
  BY DEF VectorOf
<1> DEFINE f == [i \in 1..(Size(v) - 1) |-> IF i <= s THEN v.elems[i] ELSE v.elems[i + 1]]
<1>2. PopAt(v, s) = IF s < Size(v) THEN [v EXCEPT !.elems = f] ELSE v
  BY DEF PopAt
<1> HIDE DEF f
<1>3. [v EXCEPT !.elems = f] = [elems |-> f, peak |-> p]
  BY <1>1
<1> QED BY <1>1, <1>2, <1>3

LEMMA InsertPeak ==
  ASSUME NEW S, NEW v \in VectorOf(S), NEW s, NEW d
  PROVE  Insert(v, s, d).peak < Capacity => v.peak < Capacity
<1>1. v.peak \in Nat /\ v.peak <= Capacity /\ Capacity \in Nat
  BY VectorFields, CapacityAssumption
<1>2. CASE ~HasRoom(v)
  BY <1>2 DEF Insert
<1>3. CASE HasRoom(v)
  BY <1>3 DEF HasRoom
<1> QED BY <1>2, <1>3

LEMMA CarvePeak ==
  ASSUME NEW m \in VectorOf(Entry), NEW i \in Indices(m), NEW n \in Nat,
         Bytes(At(m, i)) >= n, At(m, i).start <= At(m, i).end,
         Carve(m, i, n).peak < Capacity
  PROVE  m.peak < Capacity
<1> DEFINE e == At(m, i)
           w == Write(m, i, Rest(e, n))
<1>1. w.peak = m.peak /\ Write(m, i, Taken(e, n)).peak = m.peak
  BY WritePeak
<1>2. Bytes(e) # n => w \in VectorOf(Entry)
  <2>1. e.start \in Nat /\ e.end \in Nat
    BY EntryFields
  <2>2. Rest(e, n) \in Entry
    BY <2>1 DEF Rest, Entry
  <2> QED BY <2>2, WriteVector
<1>3. Bytes(e) # n => (Insert(w, i, Taken(e, n)).peak < Capacity => w.peak < Capacity)
  BY <1>2, InsertPeak
<1> QED BY <1>1, <1>3 DEF Carve

LEMMA ConJoinPeak ==
  ASSUME NEW m \in VectorOf(Entry), NEW i \in Indices(m)
  PROVE  ConJoin(m, i).peak = m.peak
<1> DEFINE J == [At(m, i) EXCEPT !.end = At(m, i + 1).end]
           w == Write(m, i, J)
<1>1. CASE ~Joinable(m, i)
  BY <1>1 DEF ConJoin
<1>2. CASE Joinable(m, i)
  <2>1. ConJoin(m, i) = PopAt(w, i + 1) /\ w.peak = m.peak
    BY <1>2, WritePeak DEF ConJoin
  <2>2. w \in VectorOf(Entry)
    <3>1. i + 1 \in Indices(m)
      BY <1>2, EntryFields DEF Joinable, Indices
    <3>2. At(m, i) \in Entry /\ At(m, i + 1).end \in Nat
      BY <3>1, EntryFields
    <3>3. PICK s \in Nat, t \in Nat, u \in BOOLEAN :
            At(m, i) = [start |-> s, end |-> t, used |-> u]
      BY <3>2 DEF Entry
    <3>4. J \in Entry
      BY <3>2, <3>3 DEF Entry
    <3> HIDE DEF J
    <3> QED BY <3>4, WriteVector
  <2> HIDE DEF w
  <2> QED BY <2>1, <2>2, PopPeak
<1> QED BY <1>1, <1>2

-----------------------------------------------------------------------------
(***************************************************************************)
(* kmalloc.                                                                *)
(***************************************************************************)

(* A map that takes inserts lists the block it has lost.                   *)
LEMMA CarveListed ==
  ASSUME NEW m \in VectorOf(Entry), NEW i \in Indices(m), NEW n \in Nat,
         Bytes(At(m, i)) >= n, At(m, i).start <= At(m, i).end, HasRoom(m)
  PROVE  Bytes(At(m, i)) # n => Size(Carve(m, i, n)) = Size(m) + 1
<1> DEFINE e == At(m, i)
           w == Write(m, i, Rest(e, n))
<1> SUFFICES ASSUME Bytes(e) # n PROVE Size(Insert(w, i, Taken(e, n))) = Size(m) + 1
  BY DEF Carve
<1>1. e.start \in Nat /\ e.end \in Nat /\ i \in Nat /\ Size(m) \in Nat /\ i < Size(m)
  BY EntryFields
<1>2. Taken(e, n) \in Entry /\ Rest(e, n) \in Entry
  BY <1>1 DEF Taken, Rest, Entry
<1>3. w \in VectorOf(Entry) /\ Size(w) = Size(m) /\ HasRoom(w)
  BY <1>2, WriteVector, WritePeak DEF HasRoom
<1> HIDE DEF w
<1>4. i \in 0..Size(w)
  BY <1>1, <1>3
<1> QED BY <1>2, <1>3, <1>4, InsertVector

LEMMA CarveTiling ==
  ASSUME NEW m, NEW h, Good(m, h), Tiling(m, h), NEW n \in Nat \ {0}, NEW i \in Fits(m, n)
  PROVE  Tiling(Carve(m, i, n), h \cup {[at |-> At(m, i).start, size |-> n]})
<1> DEFINE e == At(m, i)
           b == [at |-> e.start, size |-> n]
           c == Carve(m, i, n)
<1>1. i \in Indices(m) /\ ~e.used /\ Bytes(e) >= n /\ m \in VectorOf(Entry)
  BY DEF Fits, Good
<1>2. /\ e.start \in Nat /\ e.end \in Nat /\ e.start <= e.end
      /\ i \in Nat /\ i < Size(m) /\ Size(m) \in Nat
  BY <1>1, GoodEntry
<1> SUFFICES ASSUME c.peak < Capacity PROVE Whole(c) /\ Found(c, h \cup {b})
  BY DEF Tiling
<1>3. m.peak < Capacity /\ Whole(m) /\ Found(m, h)
  BY <1>1, <1>2, CarvePeak DEF Tiling
<1>4. /\ Taken(e, n).start = e.start /\ Taken(e, n).end = e.start + n
      /\ Taken(e, n).used = TRUE /\ Bytes(Taken(e, n)) = n
      /\ Rest(e, n).start = e.start + n + 1 /\ Rest(e, n).end = e.end
  BY <1>2 DEF Taken, Rest, Bytes
<1>5. b.at = e.start /\ b.size = n
  OBVIOUS
<1>6. \A k \in Indices(m) : k \in Nat /\ k < Size(m)
  BY <1>2 DEF Indices
<1>7. /\ c \in VectorOf(Entry)
      /\ \/ /\ e.start + n = e.end
            /\ Size(c) = Size(m)
            /\ \A k \in Indices(m) :
                 At(c, k) = IF k = i THEN Taken(e, n) ELSE At(m, k)
         \/ /\ e.start + n + 1 <= e.end
            /\ Size(c) = Size(m) + 1
            /\ \A k \in 0..Size(m) :
                 At(c, k) = IF k < i THEN At(m, k)
                            ELSE IF k = i THEN Taken(e, n)
                            ELSE IF k = i + 1 THEN Rest(e, n)
                            ELSE At(m, k - 1)
  <2>1. n \in Nat /\ HasRoom(m)
    BY <1>3 DEF HasRoom
  <2>2. Bytes(e) # n => Size(c) = Size(m) + 1
    BY <1>1, <1>2, <2>1, CarveListed
  <2>3. Bytes(e) = e.end - e.start
    BY DEF Bytes
  <2> HIDE DEF c, e
  <2> QED BY <1>1, <1>2, <2>1, <2>2, <2>3, CarveCases DEF c, e
<1> HIDE DEF c, e, b
(* The block fills the entry.                                              *)
<1>8. CASE Size(c) = Size(m)
  <2>1. /\ e.start + n = e.end
        /\ \A k \in Indices(m) : At(c, k) = IF k = i THEN Taken(e, n) ELSE At(m, k)
    BY <1>2, <1>7, <1>8
  <2>2. Indices(c) = Indices(m) /\ 0 \in Indices(m) /\ Size(m) - 1 \in Indices(m)
    BY <1>2, <1>8 DEF Indices
  <2>3. \A k \in Indices(m) : At(c, k).start = At(m, k).start /\ At(c, k).end = At(m, k).end
    BY <1>4, <2>1 DEF e
  <2>4. \A k \in Indices(m) : k + 1 < Size(m) => k + 1 \in Indices(m)
    BY <1>2, <1>6 DEF Indices
  <2>5. Whole(c)
    BY <1>3, <1>8, <2>2, <2>3, <2>4 DEF Whole, Touches
  <2>6. ASSUME NEW x \in h
        PROVE  \E k \in Indices(c) : At(c, k).used /\ At(c, k).start = x.at /\ Bytes(At(c, k)) = x.size
    <3>1. PICK k \in Indices(m) : At(m, k).used /\ At(m, k).start = x.at /\ Bytes(At(m, k)) = x.size
      BY <1>3 DEF Found
    <3>2. k # i
      BY <1>1, <3>1 DEF e
    <3> QED BY <2>1, <2>2, <3>1, <3>2
  <2>7. i \in Indices(c) /\ At(c, i) = Taken(e, n)
    BY <1>1, <2>1, <2>2
  <2> QED BY <1>4, <1>5, <2>5, <2>6, <2>7 DEF Found
(* The block and the rest of the entry.                                    *)
<1>9. CASE Size(c) = Size(m) + 1
  <2>1. \A k \in 0..Size(m) : /\ k \in Nat
                              /\ k < i => At(c, k) = At(m, k)
                              /\ k = i => At(c, k) = Taken(e, n)
                              /\ k = i + 1 => At(c, k) = Rest(e, n)
                              /\ k > i + 1 => At(c, k) = At(m, k - 1)
    BY <1>2, <1>7, <1>9
  <2>2. Indices(c) = 0..Size(m) /\ 0 \in 0..Size(m) /\ Size(m) \in 0..Size(m)
    BY <1>2, <1>9 DEF Indices
  <2>3. At(c, 0).start = Base
    <3>1. At(m, 0).start = Base
      BY <1>3 DEF Whole
    <3>2. CASE i = 0
      BY <1>4, <2>1, <2>2, <3>1, <3>2 DEF e
    <3>3. CASE 0 < i
      BY <2>1, <2>2, <3>1, <3>3
    <3> QED BY <1>2, <3>2, <3>3
  <2>4. At(c, Size(m)).end = Limit
    <3>1. At(m, Size(m) - 1).end = Limit
      BY <1>3 DEF Whole
    <3>2. CASE Size(m) = i + 1
      <4>1. Size(m) - 1 = i
        BY <1>2, <3>2
      <4> QED BY <1>4, <2>1, <2>2, <3>1, <3>2, <4>1 DEF e
    <3>3. CASE Size(m) > i + 1
      BY <2>1, <2>2, <3>1, <3>3
    <3> QED BY <1>2, <3>2, <3>3
  <2>5. ASSUME NEW k \in 0..Size(m), k + 1 < Size(m) + 1
        PROVE  Touches(At(c, k), At(c, k + 1))
    <3>1. k \in Nat /\ k < Size(m) /\ k + 1 \in 0..Size(m)
      BY <1>2, <2>5
    <3>2. \A j \in Nat : j + 1 < Size(m) => At(m, j).end = At(m, j + 1).start
                                            \/ At(m, j).end + 1 = At(m, j + 1).start
      BY <1>2, <1>3 DEF Whole, Touches, Indices
    <3>3. CASE k + 1 < i
      <4>1. At(c, k) = At(m, k) /\ At(c, k + 1) = At(m, k + 1) /\ k + 1 < Size(m)
        BY <1>2, <2>1, <3>1, <3>3
      <4> QED BY <3>1, <3>2, <4>1 DEF Touches
    <3>4. CASE k + 1 = i
      <4>1. At(c, k) = At(m, k) /\ At(c, k + 1).start = At(m, k + 1).start /\ k + 1 < Size(m)
        BY <1>2, <1>4, <2>1, <3>1, <3>4 DEF e
      <4> QED BY <3>1, <3>2, <4>1 DEF Touches
    <3>5. CASE k = i
      <4>1. At(c, k).end = e.start + n /\ At(c, k + 1).start = e.start + n + 1
        BY <1>2, <1>4, <2>1, <3>1, <3>5
      <4> QED BY <1>2, <4>1 DEF Touches
    <3>6. CASE k = i + 1
      <4>1. At(c, k).end = At(m, i).end /\ At(c, k + 1) = At(m, k + 1 - 1) /\ k + 1 - 1 = i + 1
            /\ i + 1 < Size(m)
        BY <1>2, <1>4, <2>1, <3>1, <3>6 DEF e
      <4> QED BY <1>2, <3>2, <4>1 DEF Touches
    <3>7. CASE k > i + 1
      <4>1. /\ At(c, k) = At(m, k - 1) /\ At(c, k + 1) = At(m, k + 1 - 1)
            /\ k + 1 - 1 = k - 1 + 1 /\ k - 1 + 1 < Size(m) /\ k - 1 \in Nat
        BY <1>2, <2>1, <3>1, <3>7
      <4> QED BY <3>2, <4>1 DEF Touches
    <3> QED BY <1>2, <3>1, <3>3, <3>4, <3>5, <3>6, <3>7
  <2>6. Whole(c)
    <3>1. Size(c) > 0 /\ Size(c) - 1 = Size(m)
      BY <1>2, <1>9
    <3> QED BY <1>9, <2>2, <2>3, <2>4, <2>5, <3>1 DEF Whole
  <2>7. ASSUME NEW x \in h
        PROVE  \E k \in Indices(c) : At(c, k).used /\ At(c, k).start = x.at /\ Bytes(At(c, k)) = x.size
    <3>1. PICK k \in Indices(m) : At(m, k).used /\ At(m, k).start = x.at /\ Bytes(At(m, k)) = x.size
      BY <1>3 DEF Found
    <3>2. k # i /\ k \in Nat /\ k < Size(m)
      BY <1>1, <1>6, <3>1 DEF e
    <3>3. CASE k < i
      <4>1. k \in Indices(c) /\ At(c, k) = At(m, k)
        BY <1>2, <2>1, <2>2, <3>2, <3>3
      <4> QED BY <3>1, <4>1
    <3>4. CASE k > i
      <4>1. PICK q \in 0..Size(m) : q > i + 1 /\ q - 1 = k
        <5>1. k + 1 \in 0..Size(m) /\ k + 1 > i + 1 /\ k + 1 - 1 = k
          BY <1>2, <3>2, <3>4
        <5> QED BY <1>2, <3>2, <5>1
      <4>2. q \in Indices(c) /\ At(c, q) = At(m, k)
        BY <2>1, <2>2, <4>1
      <4> QED BY <3>1, <4>2
    <3>5. k < i \/ k > i
      BY <1>2, <3>2
    <3> QED BY <3>3, <3>4, <3>5, Zenon
  <2>8. i \in Indices(c) /\ At(c, i) = Taken(e, n)
    BY <1>2, <2>1, <2>2
  <2> QED BY <1>4, <1>5, <2>6, <2>7, <2>8 DEF Found
<1> QED BY <1>7, <1>8, <1>9

-----------------------------------------------------------------------------
(***************************************************************************)
(* kfree.                                                                  *)
(***************************************************************************)
LEMMA ConJoinTiling ==
  ASSUME NEW m, NEW h, Good(m, h), Tiling(m, h), NEW i \in Indices(m)
  PROVE  Tiling(ConJoin(m, i), h)
<1> DEFINE c == ConJoin(m, i)
           e == At(m, i)
           f == At(m, i + 1)
<1>1. m \in VectorOf(Entry) /\ i \in Nat /\ Size(m) \in Nat /\ i < Size(m)
  BY EntryFields DEF Good
<1>2. CASE ~Joinable(m, i)
  BY <1>2 DEF ConJoin
<1>3. CASE Joinable(m, i)
  <2> SUFFICES ASSUME c.peak < Capacity PROVE Whole(c) /\ Found(c, h)
    BY DEF Tiling
  <2>1. Whole(m) /\ Found(m, h)
    BY <1>1, ConJoinPeak DEF Tiling
  <2>2. /\ c \in VectorOf(Entry)
        /\ Size(c) = Size(m) - 1
        /\ \A k \in 0..(Size(m) - 2) :
             /\ k < i => At(c, k) = At(m, k)
             /\ k = i => At(c, k).start = e.start /\ At(c, k).end = f.end
             /\ k > i => At(c, k) = At(m, k + 1)
    BY <1>1, <1>3, ConJoinCases
  <2>3. i + 1 < Size(m) /\ ~e.used /\ ~f.used
    BY <1>3 DEF Joinable
  <2> HIDE DEF c
  <2>4. Indices(c) = 0..(Size(m) - 2) /\ \A k \in Indices(c) : k \in Nat /\ k < Size(m) - 1
    BY <1>1, <2>2 DEF Indices
  <2>5. \A k \in Indices(c) :
          /\ k <= i => At(c, k).start = At(m, k).start
          /\ k > i  => At(c, k).start = At(m, k + 1).start
          /\ k < i  => At(c, k).end = At(m, k).end
          /\ k >= i => At(c, k).end = At(m, k + 1).end
    BY <1>1, <2>2, <2>4
  <2>6. ASSUME NEW k \in Indices(c), k + 1 < Size(c)
        PROVE  Touches(At(c, k), At(c, k + 1))
    <3>1. k \in Nat /\ k + 1 \in Indices(c) /\ k < Size(m) - 1
      BY <1>1, <2>2, <2>4, <2>6
    <3>2. \A j \in Nat : j + 1 < Size(m) => At(m, j).end = At(m, j + 1).start
                                            \/ At(m, j).end + 1 = At(m, j + 1).start
      BY <1>1, <2>1 DEF Whole, Touches, Indices
    <3>3. CASE k < i
      <4>1. At(c, k).end = At(m, k).end /\ At(c, k + 1).start = At(m, k + 1).start
        BY <1>1, <2>5, <3>1, <3>3
      <4>2. k + 1 < Size(m)
        BY <1>1, <3>1
      <4> QED BY <3>1, <3>2, <4>1, <4>2 DEF Touches
    <3>4. CASE k >= i
      <4>1. At(c, k).end = At(m, k + 1).end /\ At(c, k + 1).start = At(m, k + 1 + 1).start
        BY <1>1, <2>5, <3>1, <3>4
      <4>2. k + 1 \in Nat /\ k + 1 + 1 < Size(m)
        BY <1>1, <2>2, <2>6, <3>1
      <4> QED BY <3>2, <4>1, <4>2 DEF Touches
    <3> QED BY <1>1, <3>1, <3>3, <3>4
  <2>7. Whole(c)
    <3>1. /\ Size(c) > 0 /\ 0 \in Indices(c) /\ 0 <= i
          /\ Size(c) - 1 \in Indices(c) /\ Size(c) - 1 >= i /\ Size(c) - 1 + 1 = Size(m) - 1
      BY <1>1, <2>2, <2>3, <2>4
    <3>2. At(c, 0).start = At(m, 0).start /\ At(c, Size(c) - 1).end = At(m, Size(m) - 1).end
      <4>1. At(c, Size(c) - 1).end = At(m, Size(c) - 1 + 1).end
        BY <2>5, <3>1
      <4> QED BY <2>5, <3>1, <4>1
    <3> QED BY <2>1, <2>6, <3>1, <3>2 DEF Whole
  <2>8. ASSUME NEW x \in h
        PROVE  \E k \in Indices(c) : At(c, k).used /\ At(c, k).start = x.at /\ Bytes(At(c, k)) = x.size
    <3>1. PICK k \in Indices(m) : At(m, k).used /\ At(m, k).start = x.at /\ Bytes(At(m, k)) = x.size
      BY <2>1 DEF Found
    <3>2. k # i /\ k # i + 1 /\ k \in Nat /\ k < Size(m)
      BY <1>1, <2>3, <3>1 DEF Indices
    <3>3. CASE k < i
      <4>1. k \in Indices(c) /\ At(c, k) = At(m, k)
        BY <1>1, <2>2, <2>3, <2>4, <3>2, <3>3
      <4> QED BY <3>1, <4>1
    <3>4. CASE k > i + 1
      <4>1. PICK q \in 0..(Size(m) - 2) : q > i /\ q + 1 = k
        <5>1. k - 1 \in 0..(Size(m) - 2) /\ k - 1 > i /\ k - 1 + 1 = k
          BY <1>1, <3>2, <3>4
        <5> QED BY <5>1
      <4>2. q \in Indices(c) /\ At(c, q) = At(m, k)
        BY <2>2, <2>4, <4>1
      <4> QED BY <3>1, <4>2
    <3> QED BY <1>1, <3>2, <3>3, <3>4
  <2> QED BY <2>7, <2>8 DEF Found
<1> QED BY <1>2, <1>3

(* The entry of a block given back keeps its place.                        *)
LEMMA MarkFreeEntries ==
  ASSUME NEW m, NEW h, Good(m, h), NEW p, NEW i \in UsedAt(m, p)
  PROVE  LET c == MarkFree(m, i)
         IN  /\ i \in Indices(m) /\ m \in VectorOf(Entry)
             /\ c.peak = m.peak /\ Size(c) = Size(m) /\ Indices(c) = Indices(m)
             /\ \A k \in Indices(m) : /\ At(c, k).start = At(m, k).start
                                      /\ At(c, k).end = At(m, k).end
                                      /\ k # i => At(c, k) = At(m, k)
             /\ At(c, i).used = FALSE
<1> DEFINE c == MarkFree(m, i)
           J == [At(m, i) EXCEPT !.used = FALSE]
<1>1. m \in VectorOf(Entry) /\ i \in Indices(m)
  BY DEF Good, UsedAt
<1>2. J \in Entry /\ J.start = At(m, i).start /\ J.end = At(m, i).end /\ J.used = FALSE
  <2>1. At(m, i) \in Entry
    BY <1>1, EntryFields
  <2>2. PICK s \in Nat, t \in Nat, u \in BOOLEAN :
          At(m, i) = [start |-> s, end |-> t, used |-> u]
    BY <2>1 DEF Entry
  <2> QED BY <2>1, <2>2 DEF Entry
<1>3. c = Write(m, i, J)
  BY DEF MarkFree
<1> HIDE DEF J, c
<1>4. /\ c.peak = m.peak /\ Size(c) = Size(m)
      /\ \A k \in Indices(m) : At(c, k) = IF k = i THEN J ELSE At(m, k)
  BY <1>1, <1>2, <1>3, WriteVector, WritePeak
<1>5. Indices(c) = Indices(m)
  BY <1>4 DEF Indices
<1> QED BY <1>1, <1>2, <1>4, <1>5 DEF c

LEMMA MarkFreeTiling ==
  ASSUME NEW m, NEW h, Good(m, h), Tiling(m, h), NEW p, NEW i \in UsedAt(m, p)
  PROVE  Tiling(MarkFree(m, i), {b \in h : b.at # p})
<1> DEFINE c == MarkFree(m, i)
           g == {b \in h : b.at # p}
<1>1. /\ i \in Indices(m) /\ m \in VectorOf(Entry)
      /\ c.peak = m.peak /\ Size(c) = Size(m) /\ Indices(c) = Indices(m)
      /\ \A k \in Indices(m) : /\ At(c, k).start = At(m, k).start
                               /\ At(c, k).end = At(m, k).end
                               /\ k # i => At(c, k) = At(m, k)
  BY MarkFreeEntries
<1>2. Size(m) \in Nat /\ At(m, i).start = p
  BY <1>1, VectorFields DEF UsedAt
<1> HIDE DEF c
<1> SUFFICES ASSUME c.peak < Capacity PROVE Whole(c) /\ Found(c, g)
  BY DEF Tiling, c
<1>3. Whole(m) /\ Found(m, h)
  BY <1>1 DEF Tiling
<1>4. Whole(c)
  <2>1. Size(m) > 0 /\ 0 \in Indices(m) /\ Size(m) - 1 \in Indices(m)
    BY <1>2, <1>3 DEF Whole, Indices
  <2>2. \A k \in Indices(m) : k + 1 < Size(m) => k + 1 \in Indices(m)
    BY <1>2 DEF Indices
  <2> QED BY <1>1, <1>3, <2>1, <2>2 DEF Whole, Touches
<1>5. Found(c, g)
  <2> SUFFICES ASSUME NEW x \in g
               PROVE  \E k \in Indices(c) : At(c, k).used /\ At(c, k).start = x.at
                                            /\ Bytes(At(c, k)) = x.size
    BY DEF Found
  <2>1. PICK k \in Indices(m) : At(m, k).used /\ At(m, k).start = x.at /\ Bytes(At(m, k)) = x.size
    BY <1>3 DEF Found
  <2>2. k # i
    BY <1>2, <2>1
  <2> QED BY <1>1, <2>1, <2>2
<1> QED BY <1>4, <1>5

LEMMA ReleasedTiling ==
  ASSUME NEW m, NEW h, Good(m, h), Tiling(m, h), NEW p, NEW save \in BOOLEAN,
         NEW g, g = {b \in h : b.at # p}
  PROVE  Tiling(Released(m, p, save), g)
<1>1. CASE UsedAt(m, p) = {}
  <2>1. Tiling(m, g)
    BY DEF Tiling, Found
  <2> QED BY <1>1, <2>1 DEF Released
<1>2. CASE UsedAt(m, p) # {}
  <2> DEFINE i == FirstOf(UsedAt(m, p))
             f == MarkFree(m, i)
  <2>1. i \in UsedAt(m, p)
    BY <1>2, FirstOfFinds DEF UsedAt, Good
  <2>2. Good(f, g) /\ Tiling(f, g) /\ i \in Indices(f)
    <3>1. /\ Good(f, {b \in h : b.at # p}) /\ Tiling(f, {b \in h : b.at # p})
          /\ Size(f) = Size(m) /\ i \in Indices(m)
      BY <2>1, MarkFreeGood, MarkFreeTiling
    <3>2. Good(f, g) /\ Tiling(f, g)
      <4> HIDE DEF f
      <4> QED BY <3>1, Zenon
    <3> QED BY <3>1, <3>2 DEF Indices
  <2>3. Released(m, p, save) \in {f, JoinAround(f, i)}
    BY <1>2 DEF Released
  <2> HIDE DEF f, i
  <2>4. Tiling(JoinAround(f, i), g)
    <3>1. /\ Good(ConJoin(f, i), g) /\ Size(ConJoin(f, i)) >= i + 1
          /\ Tiling(ConJoin(f, i), g)
      BY <2>2, ConJoinGood, ConJoinTiling
    <3>2. CASE i > 0
      <4>1. i - 1 \in Indices(ConJoin(f, i))
        <5>1. ConJoin(f, i) \in VectorOf(Entry) /\ f \in VectorOf(Entry)
          BY <2>2, <3>1 DEF Good
        <5>2. Size(ConJoin(f, i)) \in Nat /\ i \in Nat
          BY <2>2, <5>1, VectorFields, EntryFields
        <5> QED BY <3>1, <3>2, <5>2 DEF Indices
      <4> QED BY <3>1, <3>2, <4>1, ConJoinTiling DEF JoinAround
    <3>3. CASE ~(i > 0)
      BY <3>1, <3>3 DEF JoinAround
    <3> QED BY <3>2, <3>3
  <2> QED BY <2>2, <2>3, <2>4
<1> QED BY <1>1, <1>2

-----------------------------------------------------------------------------
(***************************************************************************)
(* The specification.                                                      *)
(***************************************************************************)
LEMMA InitTiling == Init => Tiling(map, held)
<1> SUFFICES ASSUME Init PROVE Whole(map) /\ Found(map, held)
  BY DEF Tiling
<1>1. Pages \in Nat /\ Pages > 0 /\ PageSize \in Nat /\ Base \in Nat
  BY KHeapAssumption, CapacityAssumption
<1>2. map.elems = [k \in 1..Pages |-> PageEntry(k - 1)] /\ held = {}
  BY DEF Init
<1>3. Size(map) = Pages
  <2>1. Good(map, held)
    BY InitInv DEF Inv
  <2>2. Size(map) \in Nat /\ map.elems \in [1..Size(map) -> Entry]
    BY <2>1, VectorFields DEF Good
  <2>3. 1..Size(map) = 1..Pages
    BY <1>2, <2>2
  <2>4. \A a, b \in Nat : 1..a = 1..b => a = b
    <3> SUFFICES ASSUME NEW a \in Nat, NEW b \in Nat, 1..a = 1..b, a # b PROVE FALSE
      OBVIOUS
    <3>1. CASE a < b
      <4>1. b \in 1..b /\ b \notin 1..a
        BY <3>1
      <4> QED BY <4>1
    <3>2. CASE b < a
      <4>1. a \in 1..a /\ a \notin 1..b
        BY <3>2
      <4> QED BY <4>1
    <3> QED BY <3>1, <3>2
  <2> QED BY <1>1, <2>2, <2>3, <2>4
<1>4. ASSUME NEW k \in 0..(Pages - 1) PROVE At(map, k) = PageEntry(k)
  <2>1. k + 1 \in 1..Pages /\ (k + 1) - 1 = k
    BY <1>1
  <2>2. map.elems[k + 1] = PageEntry((k + 1) - 1)
    BY <1>2, <2>1
  <2> QED BY <2>1, <2>2 DEF At
<1>5. \A k \in Nat : PageEntry(k).start = Base + k * PageSize
                    /\ PageEntry(k).end = Base + (k + 1) * PageSize
  BY DEF PageEntry
<1>6. At(map, 0).start = Base /\ At(map, Pages - 1).end = Limit
  <2>1. 0 \in 0..(Pages - 1) /\ Pages - 1 \in 0..(Pages - 1) /\ Pages - 1 \in Nat
        /\ Pages - 1 + 1 = Pages
    BY <1>1
  <2>2. At(map, 0).start = Base + 0 * PageSize
    BY <1>4, <1>5, <2>1
  <2>3. At(map, Pages - 1).end = Base + (Pages - 1 + 1) * PageSize
    BY <1>4, <1>5, <2>1
  <2>4. 0 * PageSize = 0
    BY <1>1
  <2> QED BY <1>1, <2>1, <2>2, <2>3, <2>4 DEF Limit
<1>7. ASSUME NEW k \in Indices(map), k + 1 < Pages
      PROVE  Touches(At(map, k), At(map, k + 1))
  <2>1. k \in Nat /\ k \in 0..(Pages - 1) /\ k + 1 \in 0..(Pages - 1) /\ k + 1 \in Nat
    BY <1>1, <1>3, <1>7 DEF Indices
  <2> QED BY <1>4, <1>5, <2>1 DEF Touches
<1> QED BY <1>1, <1>2, <1>3, <1>6, <1>7 DEF Whole, Found

LEMMA GrantTiling ==
  ASSUME Inv, Tiling(map, held), NEW n \in Nat \ {0}, Grant(n)
  PROVE  Tiling(map', held')
<1>1. FirstOf(Fits(map, n)) \in Fits(map, n)
  BY FirstOfFinds DEF Inv, Good, Fits, Grant
<1> QED BY <1>1, CarveTiling DEF Inv, Grant

LEMMA EndDebugTiling ==
  ASSUME Inv, Tiling(map, held), EndDebug
  PROVE  Tiling(map', held')
<1> DEFINE fits  == Fits(map, ReportBytes)
           i     == FirstOf(fits)
           taken == Carve(map, i, ReportBytes)
           b     == [at |-> At(map, i).start, size |-> ReportBytes]
<1>1. Good(map, held) /\ held' = held
  BY DEF Inv, EndDebug
<1>2. CASE fits = {}
  <2>1. map' = map
    BY <1>2 DEF EndDebug
  <2> QED BY <1>1, <2>1
<1>3. CASE fits # {}
  <2>1. map' = Released(taken, b.at, FALSE)
    BY <1>3 DEF EndDebug
  <2>2. i \in fits /\ ReportBytes \in Nat \ {0}
    BY <1>1, <1>3, FirstOfFinds, KHeapAssumption DEF Good, Fits
  <2>3. /\ Good(taken, held \cup {b}) /\ Tiling(taken, held \cup {b})
        /\ \A x \in held : x.at # b.at
    BY <1>1, <2>2, CarveGood, CarveTiling, GrantedApart
  <2>4. held = {x \in held \cup {b} : x.at # b.at}
    BY <2>3
  <2>5. Tiling(Released(taken, b.at, FALSE), held)
    <3> HIDE DEF taken, b
    <3> QED BY <2>3, <2>4, ReleasedTiling
  <2> HIDE DEF taken, b
  <2> QED BY <1>1, <2>1, <2>5
<1> QED BY <1>2, <1>3

LEMMA NextTiling == Inv /\ Tiling(map, held) /\ [Next]_vars => Tiling(map', held')
<1> SUFFICES ASSUME Inv, Tiling(map, held), [Next]_vars PROVE Tiling(map', held')
  OBVIOUS
<1>1. Good(map, held) /\ map \in VectorOf(Entry) /\ saving \in BOOLEAN
  BY DEF Inv, Good, TypeOK
<1>2. CASE BootJoin
  <2>1. map' = ConJoin(map, 0) /\ held' = held
    BY <1>2 DEF BootJoin
  <2>2. CASE 0 \in Indices(map)
    BY <1>1, <2>1, <2>2, ConJoinTiling
  <2>3. CASE 0 \notin Indices(map)
    <3>1. Size(map) \in Nat
      BY <1>1, VectorFields
    <3>2. ConJoin(map, 0) = map
      BY <2>3, <3>1 DEF Indices, ConJoin, Joinable
    <3> QED BY <2>1, <3>2
  <2> QED BY <2>2, <2>3
<1>3. CASE BootDebugMap
  BY <1>3, GrantTiling, KHeapAssumption DEF BootDebugMap
<1>4. CASE DoKmalloc
  <2>1. PICK n \in 1..MaxAlloc : Kmalloc(n)
    BY <1>4 DEF DoKmalloc
  <2>2. n \in Nat \ {0}
    BY KHeapAssumption
  <2> QED BY <2>1, <2>2, GrantTiling DEF Kmalloc
<1>5. CASE DoKmallocFault
  BY <1>5 DEF DoKmallocFault, KmallocFault
<1>6. CASE DoKfree
  <2>1. PICK p \in (0..Limit) \ {Base} : Kfree(p)
    BY <1>6 DEF DoKfree
  <2> QED BY <1>1, <2>1, ReleasedTiling DEF Kfree
<1>7. CASE StartDebug
  BY <1>7 DEF StartDebug
<1>8. CASE EndDebug
  BY <1>8, EndDebugTiling
<1>9. CASE UNCHANGED vars
  BY <1>9 DEF vars
<1> QED BY <1>2, <1>3, <1>4, <1>5, <1>6, <1>7, <1>8, <1>9 DEF Next

(* As long as MemoryMap has never been full, the heap has lost no memory   *)
(* and kfree will find every block that is held, for a heap and a map of   *)
(* any size.                                                               *)
THEOREM HeapTiled == Spec => []Tiled
<1> DEFINE T == Tiling(map, held)
<1>1. Inv /\ T /\ [Next]_vars => T'
  BY NextTiling
<1>2. Init => T
  BY InitTiling
<1>3. T => Tiled
  BY TiledIsTiling
<1> HIDE DEF T
<1> QED BY <1>1, <1>2, <1>3, InvAlways, PTL DEF Spec

-----------------------------------------------------------------------------
(***************************************************************************)
(* Where ConJoin may ask for an entry that is not there.                   *)
(***************************************************************************)

(* Only for the entry that was freed, and only if it is the last: joining  *)
(* it with the next leaves the one before it a neighbour.                  *)
LEMMA FailsAtLast ==
  ASSUME NEW m, NEW h, Good(m, h), NEW p, NEW save, ReleaseFails(m, p, save)
  PROVE  /\ Size(m) \in Nat /\ Size(m) - 1 \in Indices(m)
         /\ At(m, Size(m) - 1).used /\ At(m, Size(m) - 1).start = p
<1> DEFINE i == FirstOf(UsedAt(m, p))
           f == MarkFree(m, i)
           g == {b \in h : b.at # p}
<1>1. i \in UsedAt(m, p) /\ i \in Indices(m) /\ m \in VectorOf(Entry)
  BY FirstOfFinds DEF UsedAt, Good, ReleaseFails
<1>2. Good(f, g) /\ Size(f) = Size(m) /\ At(m, i).used /\ At(m, i).start = p
  BY <1>1, MarkFreeGood DEF UsedAt
<1>3. JoinFails(f, i)
  BY DEF ReleaseFails
<1> HIDE DEF i, f
<1>4. /\ i \in Nat /\ Size(m) \in Nat /\ i < Size(m) /\ i \in Indices(f)
  BY <1>1, <1>2, EntryFields DEF Indices
<1>5. ConJoin(f, i) \in VectorOf(Entry) /\ Size(ConJoin(f, i)) >= i + 1
  BY <1>2, <1>4, ConJoinGood DEF Good
<1>6. Size(ConJoin(f, i)) \in Nat
  BY <1>5, VectorFields
<1>7. ~NextMissing(ConJoin(f, i), i - 1)
  BY <1>4, <1>5, <1>6 DEF NextMissing
<1>8. i + 1 >= Size(m)
  BY <1>2, <1>3, <1>7 DEF JoinFails, NextMissing
<1>9. i = Size(m) - 1
  BY <1>4, <1>8
<1> QED BY <1>1, <1>2, <1>4, <1>9

(* For the block of end_debug's report the last entry is one that was used *)
(* before, or one that the block fills.                                    *)
LEMMA ReportAtLast ==
  ASSUME NEW m, NEW h, Good(m, h), NEW n \in Nat \ {0}, NEW i \in Fits(m, n), NEW p,
         ReleaseFails(Carve(m, i, n), p, FALSE)
  PROVE  At(m, Size(m) - 1).used \/ Bytes(At(m, Size(m) - 1)) = n
<1> DEFINE e == At(m, i)
           c == Carve(m, i, n)
           last == Size(c) - 1
<1>1. i \in Indices(m) /\ Bytes(e) >= n /\ m \in VectorOf(Entry) /\ n \in Nat
  BY DEF Fits, Good
<1>2. /\ e.start \in Nat /\ e.end \in Nat /\ e.start <= e.end
      /\ i \in Nat /\ i < Size(m) /\ Size(m) \in Nat
  BY <1>1, GoodEntry
<1>3. Good(c, h \cup {[at |-> e.start, size |-> n]})
  BY CarveGood
<1>4. Size(c) \in Nat /\ last \in Indices(c) /\ At(c, last).used
  <2> HIDE DEF c
  <2> QED BY <1>3, FailsAtLast DEF c
<1>5. Rest(e, n).used = FALSE
  BY DEF Rest
<1>6. last \in Nat
  BY <1>4 DEF Indices
<1>7. Size(c) = Size(m) \/ Size(c) = Size(m) + 1
  <2> HIDE DEF c, e
  <2> QED BY <1>1, <1>2, CarveCases DEF c, e
<1>8. CASE Size(c) = Size(m)
  <2>1. \/ e.start + n = e.end /\ \A k \in Indices(m) : k # i => At(c, k) = At(m, k)
        \/ \A k \in Indices(m) : At(c, k) = IF k = i THEN Rest(e, n) ELSE At(m, k)
    <3> HIDE DEF c, e
    <3> QED BY <1>1, <1>2, <1>8, CarveCases DEF c, e
  <2>2. last \in Indices(m) /\ last = Size(m) - 1
    BY <1>4, <1>8 DEF Indices
  <2>3. e.start + n = e.end => Bytes(e) = n
    BY <1>2 DEF Bytes
  <2> HIDE DEF c
  <2> QED BY <1>4, <1>5, <2>1, <2>2, <2>3
<1>9. CASE Size(c) = Size(m) + 1
  <2>1. \A k \in 0..Size(m) : k > i => At(c, k) = IF k = i + 1 THEN Rest(e, n) ELSE At(m, k - 1)
    <3> HIDE DEF c, e
    <3>1. \A k \in 0..Size(m) :
            At(c, k) = IF k < i THEN At(m, k)
                       ELSE IF k = i THEN Taken(e, n)
                       ELSE IF k = i + 1 THEN Rest(e, n)
                       ELSE At(m, k - 1)
      BY <1>1, <1>2, <1>9, CarveCases DEF c, e
    <3> QED BY <1>2, <3>1
  <2>2. last = Size(m) /\ Size(m) \in 0..Size(m) /\ Size(m) > i
    BY <1>2, <1>9
  <2>3. At(c, Size(m)) = At(m, Size(m) - 1)
    <3> HIDE DEF c, last
    <3> QED BY <1>4, <1>5, <2>1, <2>2
  <2> QED BY <1>4, <2>2, <2>3
<1> QED BY <1>7, <1>8, <1>9

(* kfree and end_debug run off the end of MemoryMap only when they free    *)
(* its last entry, for a heap and a map of any size.                       *)
THEOREM HeapOverrunOnlyAtEnd == Spec => OverrunOnlyAtEnd
<1> DEFINE Excuse == \/ At(map, Size(map) - 1).used
                     \/ Bytes(At(map, Size(map) - 1)) = ReportBytes
           A == stopped = "no" /\ stopped' = "oob" => Excuse
<1>1. Inv /\ [Next]_vars => A
  <2> SUFFICES ASSUME Inv, [Next]_vars, stopped = "no", stopped' = "oob"
               PROVE  Excuse
    OBVIOUS
  <2>1. Good(map, held)
    BY DEF Inv
  <2>2. CASE DoKfree
    <3>1. PICK p \in (0..Limit) \ {Base} : Kfree(p)
      BY <2>2 DEF DoKfree
    <3>2. ReleaseFails(map, p, saving)
      BY <3>1 DEF Kfree
    <3> QED BY <2>1, <3>2, FailsAtLast
  <2>3. CASE EndDebug
    <3> DEFINE fits == Fits(map, ReportBytes)
               i == FirstOf(fits)
    <3>1. fits # {} /\ ReleaseFails(Carve(map, i, ReportBytes), At(map, i).start, FALSE)
      BY <2>3 DEF EndDebug
    <3>2. i \in fits /\ ReportBytes \in Nat \ {0}
      BY <2>1, <3>1, FirstOfFinds, KHeapAssumption DEF Good, Fits
    <3> HIDE DEF i
    <3> QED BY <2>1, <3>1, <3>2, ReportAtLast
  <2>4. CASE BootJoin \/ BootDebugMap \/ DoKmalloc \/ DoKmallocFault \/ StartDebug \/ UNCHANGED vars
    <3>1. stopped' = stopped \/ stopped' = "oom"
      BY <2>4 DEF BootJoin, BootDebugMap, DoKmalloc, Kmalloc, Grant, DoKmallocFault,
                  KmallocFault, StartDebug, vars
    <3> QED BY <3>1
  <2> QED BY <2>2, <2>3, <2>4 DEF Next
<1>2. Spec => [][A]_vars
  <2> HIDE DEF A
  <2> QED BY <1>1, InvAlways, PTL DEF Spec
<1> QED BY <1>2 DEF OverrunOnlyAtEnd

-----------------------------------------------------------------------------
(***************************************************************************)
(* How many neighbours ConJoin would merge.                                *)
(***************************************************************************)
LEMMA FragmentsFinite ==
  ASSUME NEW m \in VectorOf(Entry)
  PROVE  IsFiniteSet(Fragments(m)) /\ Cardinality(Fragments(m)) \in Nat
<1>1. Size(m) \in Nat
  BY VectorFields
<1>2. IsFiniteSet(0..(Size(m) - 1))
  BY <1>1, FS_Interval
<1>3. Fragments(m) \in SUBSET (0..(Size(m) - 1))
  BY DEF Fragments, Indices
<1> QED BY <1>2, <1>3, FS_Subset, FS_CardinalityType

(* A set that maps one to one into a finite set is no larger.              *)
LEMMA OneToOne ==
  ASSUME NEW S, NEW T, IsFiniteSet(T), NEW g \in [S -> T],
         \A a, b \in S : g[a] = g[b] => a = b
  PROVE  Cardinality(S) <= Cardinality(T)
<1>1. g \in Injection(S, T)
  BY DEF Injection, IsInjective
<1> QED BY <1>1, FS_Injection

(* kmalloc adds none: the rest of an entry keeps its end and no longer     *)
(* touches what is before it.                                              *)
LEMMA CarveFragments ==
  ASSUME NEW m, NEW h, Good(m, h), NEW n \in Nat \ {0}, NEW i \in Fits(m, n)
  PROVE  Cardinality(Fragments(Carve(m, i, n))) <= Cardinality(Fragments(m))
<1> DEFINE e == At(m, i)
           c == Carve(m, i, n)
<1>1. i \in Indices(m) /\ ~e.used /\ Bytes(e) >= n /\ m \in VectorOf(Entry) /\ n \in Nat
  BY DEF Fits, Good
<1>2. /\ e.start \in Nat /\ e.end \in Nat /\ e.start <= e.end
      /\ i \in Nat /\ i < Size(m) /\ Size(m) \in Nat
  BY <1>1, GoodEntry
<1>3. /\ Taken(e, n).used = TRUE /\ Rest(e, n).used = FALSE
      /\ Rest(e, n).start = e.start + n + 1 /\ Rest(e, n).end = e.end
  BY DEF Taken, Rest
<1>4. \A k \in Indices(m) : k \in Nat /\ At(m, k).end \in Nat
  BY <1>1, EntryFields
<1>5. \A k \in Indices(m) : k < i => At(m, k).end <= e.start
  BY <1>1 DEF Good, InOrder
<1>6. IsFiniteSet(Fragments(m))
  BY <1>1, FragmentsFinite
<1>7. /\ c \in VectorOf(Entry)
      /\ \/ /\ Size(c) = Size(m)
            /\ \A k \in Indices(m) :
                 At(c, k) = IF k = i THEN Taken(e, n) ELSE At(m, k)
         \/ /\ Size(c) = Size(m)
            /\ \A k \in Indices(m) :
                 At(c, k) = IF k = i THEN Rest(e, n) ELSE At(m, k)
         \/ /\ Size(c) = Size(m) + 1
            /\ \A k \in 0..Size(m) :
                 At(c, k) = IF k < i THEN At(m, k)
                            ELSE IF k = i THEN Taken(e, n)
                            ELSE IF k = i + 1 THEN Rest(e, n)
                            ELSE At(m, k - 1)
  <2> HIDE DEF c, e
  <2> QED BY <1>1, <1>2, CarveCases DEF c, e
<1> HIDE DEF c
<1>8. CASE /\ Size(c) = Size(m)
           /\ \A k \in Indices(m) : At(c, k) = IF k = i THEN Taken(e, n) ELSE At(m, k)
  <2>1. Fragments(c) \subseteq Fragments(m)
    <3> SUFFICES ASSUME NEW k \in Indices(c), Joinable(c, k)
                 PROVE  k \in Indices(m) /\ Joinable(m, k)
      BY DEF Fragments
    <3>1. k \in Indices(m) /\ k + 1 \in Indices(m) /\ k + 1 < Size(m)
      BY <1>2, <1>8 DEF Joinable, Indices
    <3>2. k # i /\ k + 1 # i
      BY <1>3, <1>8, <3>1 DEF Joinable
    <3>3. At(c, k) = At(m, k) /\ At(c, k + 1) = At(m, k + 1)
      BY <1>8, <3>1, <3>2
    <3> QED BY <3>1, <3>3 DEF Joinable
  <2> QED BY <1>6, <2>1, FS_Subset DEF c
<1>9. CASE /\ Size(c) = Size(m)
           /\ \A k \in Indices(m) : At(c, k) = IF k = i THEN Rest(e, n) ELSE At(m, k)
  <2>1. Fragments(c) \subseteq Fragments(m)
    <3> SUFFICES ASSUME NEW k \in Indices(c), Joinable(c, k)
                 PROVE  k \in Indices(m) /\ Joinable(m, k)
      BY DEF Fragments
    <3>1. /\ k \in Indices(m) /\ k + 1 \in Indices(m) /\ k + 1 < Size(m)
          /\ k \in Nat /\ k < k + 1
      BY <1>2, <1>9 DEF Joinable, Indices
    <3>2. k + 1 # i
      <4> SUFFICES ASSUME k + 1 = i PROVE FALSE
        OBVIOUS
      <4>1. k # i /\ k < i
        BY <3>1
      <4>2. At(c, k) = At(m, k) /\ At(c, i) = Rest(e, n)
        BY <1>1, <1>9, <3>1, <4>1
      <4>3. At(m, k).end = e.start + n + 1 \/ At(m, k).end + 1 = e.start + n + 1
        BY <1>3, <4>2 DEF Joinable, Touches
      <4>4. At(m, k).end <= e.start /\ At(m, k).end \in Nat
        BY <1>4, <1>5, <3>1, <4>1
      <4> QED BY <1>2, <4>3, <4>4
    <3>3. At(c, k + 1) = At(m, k + 1)
      BY <1>9, <3>1, <3>2
    <3>4. At(c, k).end = At(m, k).end /\ ~At(m, k).used
      BY <1>1, <1>3, <1>9, <3>1 DEF Joinable
    <3> QED BY <3>1, <3>3, <3>4 DEF Joinable, Touches
  <2> QED BY <1>6, <2>1, FS_Subset DEF c
<1>10. CASE /\ Size(c) = Size(m) + 1
            /\ \A k \in 0..Size(m) :
                 At(c, k) = IF k < i THEN At(m, k)
                            ELSE IF k = i THEN Taken(e, n)
                            ELSE IF k = i + 1 THEN Rest(e, n)
                            ELSE At(m, k - 1)
  <2> DEFINE g == [k \in Fragments(c) |-> IF k < i THEN k ELSE k - 1]
  <2>1. ASSUME NEW k \in Fragments(c)
        PROVE  /\ k \in Nat
               /\ k < i => k + 1 < i /\ k \in Fragments(m)
               /\ ~(k < i) => k - 1 >= i /\ k - 1 \in Fragments(m)
    <3>1. /\ k \in 0..Size(m) /\ k + 1 \in 0..Size(m) /\ k \in Nat
          /\ k + 1 < Size(m) + 1 /\ Joinable(c, k)
      BY <1>2, <1>10 DEF Fragments, Joinable, Indices
    <3>2. k # i /\ k + 1 # i
      BY <1>2, <1>3, <1>10, <3>1 DEF Joinable
    <3>3. CASE k < i
      <4>1. k + 1 < i /\ k + 1 < Size(m) /\ k \in Indices(m)
        BY <1>2, <3>1, <3>2, <3>3 DEF Indices
      <4>2. At(c, k) = At(m, k) /\ At(c, k + 1) = At(m, k + 1)
        BY <1>10, <3>1, <3>3, <4>1
      <4> QED BY <3>1, <3>3, <4>1, <4>2 DEF Fragments, Joinable
    <3>4. CASE k = i + 1
      <4>1. i + 1 < Size(m) /\ k - 1 = i /\ i + 2 \in 0..Size(m) /\ k + 1 = i + 2
        BY <1>2, <3>1, <3>4
      <4>2. At(c, k) = Rest(e, n) /\ At(c, k + 1) = At(m, i + 1)
        <5>1. ~(i + 2 < i) /\ i + 2 # i /\ i + 2 # i + 1 /\ (i + 2) - 1 = i + 1
              /\ ~(i + 1 < i) /\ i + 1 # i
          BY <1>2
        <5> QED BY <1>10, <3>1, <3>4, <4>1, <5>1
      <4>3. Joinable(m, i)
        BY <1>1, <1>3, <3>1, <4>1, <4>2 DEF Joinable, Touches
      <4> QED BY <1>1, <1>2, <3>1, <3>4, <4>1, <4>3 DEF Fragments
    <3>5. CASE k > i + 1
      <4>1. /\ k - 1 \in Indices(m) /\ k - 1 >= i /\ (k - 1) + 1 = k /\ k < Size(m)
            /\ ~(k < i) /\ ~(k + 1 < i) /\ k + 1 # i + 1 /\ (k + 1) - 1 = k /\ k # i + 1
        BY <1>2, <3>1, <3>5 DEF Indices
      <4>2. At(c, k) = At(m, k - 1) /\ At(c, k + 1) = At(m, k)
        BY <1>10, <3>1, <3>2, <4>1
      <4> QED BY <3>1, <4>1, <4>2 DEF Fragments, Joinable
    <3> QED BY <1>2, <3>1, <3>2, <3>3, <3>4, <3>5
  <2>2. g \in [Fragments(c) -> Fragments(m)]
    BY <2>1
  <2>3. \A a, b \in Fragments(c) : g[a] = g[b] => a = b
    BY <1>2, <2>1
  <2> HIDE DEF g
  <2> QED BY <1>6, <2>2, <2>3, OneToOne DEF c
<1> QED BY <1>7, <1>8, <1>9, <1>10

(* Joining entry i with the next makes one less, and moves those after it. *)
LEMMA ConJoinFragments ==
  ASSUME NEW m \in VectorOf(Entry), NEW i \in Indices(m),
         NEW D, \A k \in D : k < i
  PROVE  Cardinality(Fragments(ConJoin(m, i)) \ D)
           <= Cardinality((Fragments(m) \ {i}) \ D)
<1> DEFINE c == ConJoin(m, i)
<1>1. i \in Nat /\ Size(m) \in Nat /\ i < Size(m)
  BY EntryFields
<1>2. IsFiniteSet((Fragments(m) \ {i}) \ D)
  <2>1. (Fragments(m) \ {i}) \ D \in SUBSET Fragments(m)
    OBVIOUS
  <2> QED BY <2>1, FragmentsFinite, FS_Subset
<1>3. CASE ~Joinable(m, i)
  <2>1. c = m /\ Fragments(m) = Fragments(m) \ {i}
    BY <1>3 DEF ConJoin, Fragments
  <2>2. Fragments(c) \ D = (Fragments(m) \ {i}) \ D
    BY <2>1
  <2>3. Cardinality((Fragments(m) \ {i}) \ D) \in Nat
    BY <1>2, FS_CardinalityType
  <2> QED BY <2>2, <2>3
<1>4. CASE Joinable(m, i)
  <2> DEFINE S == Fragments(c) \ D
             T == (Fragments(m) \ {i}) \ D
             g == [k \in S |-> IF k < i THEN k ELSE k + 1]
  <2>1. /\ Size(c) = Size(m) - 1
        /\ \A k \in 0..(Size(m) - 2) :
             /\ k < i => At(c, k) = At(m, k)
             /\ k = i => /\ At(c, k).start = At(m, i).start
                         /\ At(c, k).end = At(m, i + 1).end
                         /\ At(c, k).used = At(m, i).used
             /\ k > i => At(c, k) = At(m, k + 1)
    BY <1>4, ConJoinCases
  <2>2. i + 1 < Size(m) /\ ~At(m, i).used /\ ~At(m, i + 1).used
    BY <1>4 DEF Joinable
  <2> HIDE DEF c
  <2>3. ASSUME NEW k \in Fragments(c)
        PROVE  /\ k \in Nat
               /\ k < i => k \in Fragments(m)
               /\ ~(k < i) => k + 1 \in Fragments(m)
    <3>1. /\ k \in 0..(Size(m) - 2) /\ k + 1 \in 0..(Size(m) - 2) /\ k \in Nat
          /\ k + 1 < Size(m) - 1 /\ Joinable(c, k)
          /\ k \in Indices(m) /\ k + 1 \in Indices(m)
      BY <1>1, <2>1 DEF Fragments, Joinable, Indices
    <3>2. CASE k + 1 < i
      <4>1. At(c, k) = At(m, k) /\ At(c, k + 1) = At(m, k + 1)
        BY <1>1, <2>1, <3>1, <3>2
      <4> QED BY <1>1, <3>1, <3>2, <4>1 DEF Fragments, Joinable
    <3>3. CASE k + 1 = i
      <4>1. At(c, k) = At(m, k) /\ At(c, k + 1).start = At(m, k + 1).start
        BY <1>1, <2>1, <3>1, <3>3
      <4> QED BY <1>1, <2>2, <3>1, <3>3, <4>1 DEF Fragments, Joinable, Touches
    <3>4. CASE k = i
      <4>1. At(c, k).end = At(m, k + 1).end /\ At(c, k + 1) = At(m, (k + 1) + 1)
        BY <1>1, <2>1, <3>1, <3>4
      <4> QED BY <1>1, <2>2, <3>1, <3>4, <4>1 DEF Fragments, Joinable, Touches
    <3>5. CASE k > i
      <4>1. At(c, k) = At(m, k + 1) /\ At(c, k + 1) = At(m, (k + 1) + 1)
        BY <1>1, <2>1, <3>1, <3>5
      <4> QED BY <1>1, <3>1, <3>5, <4>1 DEF Fragments, Joinable
    <3> QED BY <1>1, <3>1, <3>2, <3>3, <3>4, <3>5
  <2>4. ASSUME NEW k \in S
        PROVE  g[k] \in T
    <3>1. CASE k < i
      BY <1>1, <2>3, <3>1
    <3>2. CASE ~(k < i)
      <4>1. k + 1 \in Fragments(m) /\ k \in Nat /\ k + 1 > i
        BY <1>1, <2>3, <3>2
      <4>2. k + 1 \notin D /\ k + 1 # i
        BY <1>1, <4>1
      <4> QED BY <3>2, <4>1, <4>2
    <3> QED BY <3>1, <3>2
  <2>5. g \in [S -> T]
    BY <2>4
  <2>6. \A a, b \in S : g[a] = g[b] => a = b
    BY <1>1, <2>3
  <2> HIDE DEF g, S, T
  <2>7. Cardinality(S) <= Cardinality(T)
    BY <1>2, <2>5, <2>6, OneToOne DEF T
  <2> QED BY <2>7 DEF S, T, c
<1> QED BY <1>3, <1>4

(* Only the freed entry and the one before it can join what they could not.*)
LEMMA ReleasedFragments ==
  ASSUME NEW m, NEW h, Good(m, h), NEW p, ~ReleaseFails(m, p, FALSE)
  PROVE  Cardinality(Fragments(Released(m, p, FALSE))) <= Cardinality(Fragments(m))
<1>1. IsFiniteSet(Fragments(m)) /\ Cardinality(Fragments(m)) \in Nat
  BY FragmentsFinite DEF Good
<1>2. CASE UsedAt(m, p) = {}
  BY <1>1, <1>2 DEF Released
<1>3. CASE UsedAt(m, p) # {}
  <2> DEFINE i == FirstOf(UsedAt(m, p))
             f == MarkFree(m, i)
             g == {b \in h : b.at # p}
             c == ConJoin(f, i)
  <2>1. i \in UsedAt(m, p) /\ At(m, i).used
    BY <1>3, FirstOfFinds DEF UsedAt, Good
  <2>2. Released(m, p, FALSE) = JoinAround(f, i)
    BY <1>3 DEF Released, ReleaseFails
  <2>3. Good(f, g) /\ Size(f) = Size(m) /\ i \in Indices(m)
    BY <2>1, MarkFreeGood
  <2>4. \A k \in Indices(m) : k # i => At(f, k) = At(m, k)
    BY <2>1, MarkFreeEntries
  <2> HIDE DEF f, i
  <2>5. /\ i \in Nat /\ i < Size(m) /\ Size(m) \in Nat
        /\ i \in Indices(f) /\ f \in VectorOf(Entry)
    BY <2>3, EntryFields DEF Good, Indices
  <2>6. (Fragments(f) \ {i}) \ {i - 1} \in SUBSET Fragments(m)
    <3> SUFFICES ASSUME NEW k \in Indices(f), Joinable(f, k), k # i, k # i - 1
                 PROVE  k \in Indices(m) /\ Joinable(m, k)
      BY DEF Fragments
    <3>1. /\ k \in Indices(m) /\ k + 1 \in Indices(m) /\ k + 1 # i
          /\ k + 1 < Size(m)
      BY <2>3, <2>5 DEF Joinable, Indices
    <3>2. At(f, k) = At(m, k) /\ At(f, k + 1) = At(m, k + 1)
      BY <2>4, <3>1
    <3> QED BY <3>1, <3>2 DEF Joinable
  <2>7. Cardinality((Fragments(f) \ {i}) \ {i - 1}) <= Cardinality(Fragments(m))
    BY <1>1, <2>6, FS_Subset
  <2>8. Cardinality(Fragments(c) \ {i - 1}) <= Cardinality((Fragments(f) \ {i}) \ {i - 1})
    <3>1. \A k \in {i - 1} : k < i
      BY <2>5
    <3> HIDE DEF c
    <3> QED BY <2>5, <3>1, ConJoinFragments DEF c
  <2>9. Good(c, g) /\ Size(c) >= i + 1 /\ c \in VectorOf(Entry)
    BY <2>3, <2>5, ConJoinGood DEF Good
  <2>10. Size(c) \in Nat /\ IsFiniteSet(Fragments(c))
    BY <2>9, VectorFields, FragmentsFinite
  <2> HIDE DEF c
  <2>11. /\ Cardinality(Fragments(c) \ {i - 1}) \in Nat
         /\ Cardinality((Fragments(f) \ {i}) \ {i - 1}) \in Nat
    <3>1. IsFiniteSet(Fragments(f))
      BY <2>5, FragmentsFinite
    <3> QED BY <2>10, <3>1, FS_RemoveElement, FS_CardinalityType
  <2>12. CASE i > 0
    <3>1. i - 1 \in Indices(c)
      BY <2>5, <2>9, <2>10, <2>12 DEF Indices
    <3>2. Cardinality(Fragments(ConJoin(c, i - 1)) \ {})
            <= Cardinality((Fragments(c) \ {i - 1}) \ {})
      BY <2>9, <3>1, ConJoinFragments
    <3>3. /\ Fragments(ConJoin(c, i - 1)) \ {} = Fragments(ConJoin(c, i - 1))
          /\ (Fragments(c) \ {i - 1}) \ {} = Fragments(c) \ {i - 1}
      OBVIOUS
    <3>4. Cardinality(Fragments(ConJoin(c, i - 1))) \in Nat
      <4>1. Good(ConJoin(c, i - 1), g)
        BY <2>9, <3>1, ConJoinGood
      <4> QED BY <4>1, FragmentsFinite DEF Good
    <3>5. Cardinality(Fragments(ConJoin(c, i - 1))) <= Cardinality(Fragments(m))
      BY <1>1, <2>7, <2>8, <2>11, <3>2, <3>3, <3>4
    <3> QED BY <2>2, <2>12, <3>5 DEF JoinAround, c
  <2>13. CASE ~(i > 0)
    <3>1. Fragments(c) \ {i - 1} = Fragments(c)
      BY <2>5, <2>13 DEF Fragments, Indices
    <3>2. Cardinality(Fragments(c)) <= Cardinality(Fragments(m))
      BY <1>1, <2>7, <2>8, <2>11, <3>1
    <3> QED BY <2>2, <2>13, <3>2 DEF JoinAround, c
  <2> QED BY <2>12, <2>13
<1> QED BY <1>2, <1>3

LEMMA GrantFragments ==
  ASSUME Inv, NEW n \in Nat \ {0}, Grant(n)
  PROVE  Cardinality(Fragments(map')) <= Cardinality(Fragments(map))
<1>1. FirstOf(Fits(map, n)) \in Fits(map, n)
  BY FirstOfFinds DEF Inv, Good, Fits, Grant
<1> QED BY <1>1, CarveFragments DEF Inv, Grant

LEMMA EndDebugFragments ==
  ASSUME Inv, EndDebug, stopped' = "no"
  PROVE  Cardinality(Fragments(map')) <= Cardinality(Fragments(map))
<1> DEFINE fits  == Fits(map, ReportBytes)
           i     == FirstOf(fits)
           taken == Carve(map, i, ReportBytes)
           b     == [at |-> At(map, i).start, size |-> ReportBytes]
<1>1. Good(map, held) /\ map \in VectorOf(Entry)
  BY DEF Inv, Good
<1>2. fits # {} /\ map' = Released(taken, b.at, FALSE) /\ ~ReleaseFails(taken, b.at, FALSE)
  BY DEF EndDebug
<1>3. i \in fits /\ ReportBytes \in Nat \ {0}
  BY <1>1, <1>2, FirstOfFinds, KHeapAssumption DEF Fits
<1>4. Good(taken, held \cup {b})
  BY <1>1, <1>3, CarveGood
<1>5. Cardinality(Fragments(taken)) <= Cardinality(Fragments(map))
  BY <1>1, <1>3, CarveFragments
<1> HIDE DEF taken, b
<1>6. Cardinality(Fragments(map')) <= Cardinality(Fragments(taken))
  BY <1>2, <1>4, ReleasedFragments
<1>7. /\ Cardinality(Fragments(map)) \in Nat
      /\ Cardinality(Fragments(taken)) \in Nat
      /\ Cardinality(Fragments(map')) \in Nat
  <2>1. Good(map', {x \in held \cup {b} : x.at # b.at})
    BY <1>2, <1>4, ReleasedGood
  <2> QED BY <1>1, <1>4, <2>1, FragmentsFinite DEF Good
<1> QED BY <1>5, <1>6, <1>7

(* Without debugging no step leaves more pairs of free neighbours that     *)
(* ConJoin would merge, for a heap and a map of any size, full or not.     *)
THEOREM HeapNoNewFragments == Spec => NoNewFragments
<1> DEFINE Fewer == Cardinality(Fragments(map')) <= Cardinality(Fragments(map))
           A == ~saving /\ stopped' = "no" => Fewer
<1>1. Inv /\ [Next]_vars => A
  <2> SUFFICES ASSUME Inv, [Next]_vars, ~saving, stopped' = "no" PROVE Fewer
    OBVIOUS
  <2>1. Good(map, held) /\ map \in VectorOf(Entry) /\ saving = FALSE
    BY DEF Inv, Good, TypeOK
  <2>2. IsFiniteSet(Fragments(map)) /\ Cardinality(Fragments(map)) \in Nat
    BY <2>1, FragmentsFinite
  <2>3. CASE BootJoin
    <3>1. map' = ConJoin(map, 0)
      BY <2>3 DEF BootJoin
    <3>2. CASE 0 \in Indices(map)
      <4>1. Cardinality(Fragments(map') \ {}) <= Cardinality((Fragments(map) \ {0}) \ {})
        BY <2>1, <3>1, <3>2, ConJoinFragments
      <4>2. Fragments(map') \ {} = Fragments(map')
            /\ (Fragments(map) \ {0}) \ {} = Fragments(map) \ {0}
        OBVIOUS
      <4>3. Cardinality(Fragments(map) \ {0}) \in Nat
            /\ Cardinality(Fragments(map) \ {0}) <= Cardinality(Fragments(map))
        <5>1. Fragments(map) \ {0} \in SUBSET Fragments(map)
          OBVIOUS
        <5> QED BY <2>2, <5>1, FS_Subset, FS_CardinalityType
      <4>4. Cardinality(Fragments(map')) \in Nat
        <5>1. Good(map', held)
          BY <2>1, <3>1, <3>2, ConJoinGood
        <5> QED BY <5>1, FragmentsFinite DEF Good
      <4> QED BY <2>2, <4>1, <4>2, <4>3, <4>4
    <3>3. CASE 0 \notin Indices(map)
      <4>1. Size(map) \in Nat
        BY <2>1, VectorFields
      <4>2. ConJoin(map, 0) = map
        BY <3>3, <4>1 DEF Indices, ConJoin, Joinable
      <4> QED BY <2>2, <3>1, <4>2
    <3> QED BY <3>2, <3>3
  <2>4. CASE BootDebugMap
    BY <2>4, GrantFragments, KHeapAssumption DEF BootDebugMap
  <2>5. CASE DoKmalloc
    <3>1. PICK n \in 1..MaxAlloc : Kmalloc(n)
      BY <2>5 DEF DoKmalloc
    <3>2. n \in Nat \ {0}
      BY KHeapAssumption
    <3> QED BY <3>1, <3>2, GrantFragments DEF Kmalloc
  <2>6. CASE DoKfree
    <3>1. PICK p \in (0..Limit) \ {Base} : Kfree(p)
      BY <2>6 DEF DoKfree
    <3>2. map' = Released(map, p, FALSE) /\ ~ReleaseFails(map, p, FALSE)
      BY <2>1, <3>1 DEF Kfree
    <3> QED BY <2>1, <3>2, ReleasedFragments
  <2>7. CASE EndDebug
    BY <2>7, EndDebugFragments
  <2>8. CASE DoKmallocFault \/ StartDebug \/ UNCHANGED vars
    <3>1. map' = map
      BY <2>8 DEF DoKmallocFault, KmallocFault, StartDebug, vars
    <3> QED BY <2>2, <3>1
  <2> QED BY <2>3, <2>4, <2>5, <2>6, <2>7, <2>8 DEF Next
<1>2. Spec => [][A]_vars
  <2> HIDE DEF A
  <2> QED BY <1>1, InvAlways, PTL DEF Spec
<1> QED BY <1>2 DEF NoNewFragments

-----------------------------------------------------------------------------
(***************************************************************************)
(* The properties of Pmm for any set of memory maps and any bounds.        *)
(***************************************************************************)
Shape ==
  /\ machine \in Machines
  /\ array = IF status = "off" THEN << >> ELSE Filled(machine)
  /\ PmmTypeOK
  /\ ~BitmapMade => pool.used = {} /\ history = {}
  /\ status = "off" => installed = 0
  /\ status = "count" => turn > 0
  /\ status = "book" => turn > 0

Prefix ==
  BitmapMade /\ history = {} =>
    \E n \in 0..Bits :
      /\ pool.used = 0..(n - 1)
      /\ \A b \in Bit : pool.held[PageOf(b)] = (IF b < n THEN 1 ELSE 0)

(* What has been counted of a map in one piece: its region, once passed.   *)
Counted ==
  OnePiece(machine) /\ status # "off" =>
    installed = IF status = "count" /\ (\A k \in Available(array) : turn <= k)
                THEN 0 ELSE Region(machine).pages

(* No page below the last region is held by a caller of ReservePage.       *)
AboveLast ==
  BitmapMade /\ "force" \notin history =>
    \A p \in Frames : pool.held[p] > 0 => p >= Last

PmmInv == Shape /\ Prefix /\ Counted /\ AboveLast

-----------------------------------------------------------------------------
(***************************************************************************)
(* The memory map.                                                         *)
(***************************************************************************)
LEMMA WalkedType ==
  ASSUME NEW m \in Machines
  PROVE  /\ m.given \in Seq(Regions) /\ m.given # << >>
         /\ m.behind \in Seq(Regions) /\ Tail(m.given) \in Seq(Regions)
         /\ Walked(m) \in Seq(Regions)
<1>1. m \in [given : Seq(Regions) \ {<< >>}, behind : Seq(Regions)]
  BY PmmAssumption
<1>2. m.given \in Seq(Regions) /\ m.given # << >> /\ m.behind \in Seq(Regions)
  BY <1>1
<1>3. Tail(m.given) \in Seq(Regions)
  BY <1>2
<1> QED BY <1>2, <1>3 DEF Walked

(* MemoryArray has regions for entries.                                    *)
LEMMA FilledType ==
  ASSUME NEW m \in Machines
  PROVE  /\ MemoryEntries(m) \in Nat
         /\ DOMAIN Filled(m) = 1..MemoryEntries(m)
         /\ \A k \in DOMAIN Filled(m) : Filled(m)[k] \in Regions
<1>1. Walked(m) \in Seq(Regions)
  BY WalkedType
<1>2. PICK l \in Nat : l = Len(Walked(m))
  BY <1>1
<1>3. DOMAIN Walked(m) = 1..l
  BY <1>1, <1>2
<1>4. NonNull(m) \in SUBSET (1..l)
  BY <1>3 DEF NonNull
<1>5. IsFiniteSet(1..l)
  BY FS_Interval, 1 \in Int, l \in Int
<1>6. IsFiniteSet(NonNull(m))
  BY <1>4, <1>5, FS_Subset
<1>7. MemoryEntries(m) \in Nat
  BY <1>6, FS_CardinalityType DEF MemoryEntries
<1>8. \A k \in NonNull(m) : Walked(m)[k] \in Regions
  BY <1>1, <1>2, <1>4, <1>3
<1>9. Zero \in Regions
  BY DEF Zero, Regions
<1> QED BY <1>7, <1>8, <1>9 DEF Filled

LEMMA MaxOf ==
  ASSUME NEW n \in Nat, NEW D \in SUBSET (1..n), D # {}
  PROVE  Max(D) \in D
BY GreatestExists DEF Max

LEMMA MinOf ==
  ASSUME NEW n \in Nat, NEW D \in SUBSET (1..n), D # {}
  PROVE  Min(D) \in D
BY LeastExists DEF Min

(* The entries that count and the places that pages are measured from.     *)
LEMMA Places ==
  ASSUME Shape
  PROVE  /\ First \in Nat /\ Last \in Nat
         /\ Available(array) \subseteq DOMAIN array
         /\ \E n \in Nat : DOMAIN array = 1..n
         /\ \A k \in DOMAIN array : array[k] \in Regions
<1>1. PICK n \in Nat : /\ DOMAIN array = 1..n
                       /\ \A k \in DOMAIN array : array[k] \in Regions
  <2>1. CASE status = "off"
    <3>1. array = << >>
      BY <2>1 DEF Shape
    <3>2. DOMAIN array = 1..0
      BY <3>1
    <3> QED BY <3>2
  <2>2. CASE status # "off"
    <3>1. array = Filled(machine) /\ machine \in Machines
      BY <2>2 DEF Shape
    <3> QED BY <3>1, FilledType
  <2> QED BY <2>1, <2>2
<1>2. Available(array) \in SUBSET (1..n)
  BY <1>1 DEF Available
<1>3. \A k \in Available(array) : array[k].first \in Nat
  BY <1>1, <1>2 DEF Regions
<1>4. First \in Nat
  BY <1>2, <1>3, MinOf DEF First
<1>5. Last \in Nat
  BY <1>2, <1>3, MaxOf DEF Last
<1> QED BY <1>1, <1>2, <1>4, <1>5

(* The bitmap has a bit for each page that was counted, but for those that *)
(* do not fill a byte.                                                     *)
LEMMA BitsOf ==
  ASSUME NEW n \in Nat, NEW b \in Nat \ {0}
  PROVE  /\ (n \div b) * b \in Nat
         /\ (n \div b) * b <= n /\ (n \div b) * b > n - b
<1>1. PICK q \in Nat : q = n \div b
  BY n \div b \in Nat
<1>2. PICK r \in 0..(b - 1) : r = n % b
  BY n % b \in 0..(b - 1)
<1>3. n = b * (n \div b) + (n % b)
  BY Z3
<1>4. n = q * b + r /\ q * b \in Nat
  BY <1>1, <1>2, <1>3
<1> QED BY <1>1, <1>2, <1>4

LEMMA BitsType ==
  ASSUME installed \in Nat
  PROVE  Bits \in Nat /\ Bits <= installed /\ Bits > installed - ByteBits
BY BitsOf, PmmAssumption DEF Bits

(* A map in one piece becomes the array that GRUB's map is without its     *)
(* first entry: what the loops find behind the map is left out, and is not *)
(* counted either.                                                         *)
LEMMA OnePieceArray ==
  ASSUME NEW m \in Machines, OnePiece(m)
  PROVE  /\ DOMAIN Filled(m) = DOMAIN Tail(m.given)
         /\ \E k \in DOMAIN Filled(m) :
              /\ Available(Filled(m)) = {k}
              /\ Filled(m)[k] = Region(m)
<1> DEFINE t == Tail(m.given)
<1>1. t \in Seq(Regions) /\ m.behind \in Seq(Regions)
  BY WalkedType
<1>2. PICK l \in Nat, z \in Nat : l = Len(t) /\ z = Len(m.behind)
  BY <1>1, Len(t) \in Nat, Len(m.behind) \in Nat
<1>3. /\ DOMAIN t = 1..l /\ DOMAIN m.behind = 1..z
      /\ \A k \in 1..l : t[k] \in Regions
  BY <1>1, <1>2
<1>4. /\ DOMAIN Walked(m) = 1..(l + z)
      /\ \A k \in 1..l : Walked(m)[k] = t[k]
      /\ \A k \in (l + 1)..(l + z) : Walked(m)[k] = m.behind[k - l]
  <2>1. Walked(m) = t \o m.behind
    BY DEF Walked
  <2> HIDE DEF t
  <2> QED BY <1>1, <1>2, <2>1
<1>5. NonNull(m) = 1..l
  <2>1. \A k \in 1..l : Walked(m)[k].first > 0
    BY <1>3, <1>4 DEF OnePiece
  <2>2. \A k \in (l + 1)..(l + z) : Walked(m)[k].first = 0
    <3> SUFFICES ASSUME NEW k \in (l + 1)..(l + z) PROVE Walked(m)[k].first = 0
      OBVIOUS
    <3>1. k - l \in 1..z
      OBVIOUS
    <3>2. Walked(m)[k] = Zero
      BY <1>3, <1>4, <3>1 DEF OnePiece
    <3> QED BY <3>2 DEF Zero
  <2> QED BY <1>4, <2>1, <2>2 DEF NonNull
<1>6. MemoryEntries(m) = l
  BY <1>5, FS_Interval, 1 \in Int, l \in Int DEF MemoryEntries
<1>7. DOMAIN Filled(m) = 1..l /\ \A k \in 1..l : Filled(m)[k] = t[k]
  BY <1>4, <1>5, <1>6 DEF Filled
<1>8. FreeRegions(t) = Available(Filled(m))
  BY <1>3, <1>7 DEF FreeRegions, Available
<1>9. PICK k : FreeRegions(t) = {k}
  <2>1. IsFiniteSet(1..l)
    BY FS_Interval, 1 \in Int, l \in Int
  <2>2. FreeRegions(t) \in SUBSET (1..l)
    BY <1>3 DEF FreeRegions
  <2>3. IsFiniteSet(FreeRegions(t))
    BY <2>1, <2>2, FS_Subset
  <2> QED BY <2>3, FS_Singleton DEF OnePiece
<1>10. k \in 1..l
  BY <1>3, <1>9 DEF FreeRegions
<1>11. Region(m) = t[k]
  BY <1>9 DEF Region
<1> QED BY <1>3, <1>7, <1>8, <1>9, <1>10, <1>11

-----------------------------------------------------------------------------
(***************************************************************************)
(* The bits.                                                               *)
(***************************************************************************)
(* The bit that ReservePage takes is one of the bitmap, if that has any.   *)
LEMMA FirstClearIsBit ==
  ASSUME Bits \in Nat, Bit # {}
  PROVE  /\ FirstClear(pool) \in Bit
         /\ Clear(pool) # {} =>
              /\ FirstClear(pool) \in Clear(pool)
              /\ \A c \in Clear(pool) : FirstClear(pool) <= c
<1>1. Bits - 1 \in Nat /\ Bit = 0..(Bits - 1)
  BY DEF Bit
<1>2. Clear(pool) \in SUBSET (0..(Bits - 1))
  BY <1>1 DEF Clear
<1>3. CASE Clear(pool) = {}
  BY <1>1, <1>3 DEF FirstClear
<1>4. CASE Clear(pool) # {}
  <2>1. \E b \in Clear(pool) : \A c \in Clear(pool) : b <= c
    BY <1>1, <1>2, <1>4, LeastIndexExists
  <2> QED BY <1>1, <1>2, <1>4, <2>1 DEF FirstClear
<1> QED BY <1>3, <1>4

(* And the first behind a prefix that is in use.                           *)
LEMMA FirstClearBehind ==
  ASSUME Bits \in Nat, NEW n \in 0..Bits, pool.used = 0..(n - 1),
         Clear(pool) # {}
  PROVE  n \in Bit /\ FirstClear(pool) = n
<1>1. Clear(pool) = n..(Bits - 1)
  BY DEF Clear, Bit
<1>2. n \in Bit /\ n \in Clear(pool)
  BY <1>1 DEF Bit
<1>3. FirstClear(pool) \in Clear(pool) /\ FirstClear(pool) <= n
  BY <1>2, FirstClearIsBit
<1> QED BY <1>1, <1>2, <1>3

(* The pages of the bits lie among those that are told apart.              *)
LEMMA PageOfType ==
  ASSUME Shape
  PROVE  /\ Bits \in Nat
         /\ Bit \subseteq Frames /\ Frames \subseteq Nat
         /\ \A b \in Bit : PageOf(b) \in Frames /\ PageOf(b) >= Last
<1>1. Bits \in Nat /\ Last \in Nat
  BY BitsType, Places DEF Shape, PmmTypeOK
<1> QED BY <1>1 DEF Bit, Frames, PageOf

-----------------------------------------------------------------------------
(***************************************************************************)
(* pmm::init.                                                              *)
(***************************************************************************)
LEMMA InitHolds ==
  ASSUME PmmStart
  PROVE  PmmInv
<1>1. PmmTypeOK
  BY DEF PmmStart, PmmTypeOK, BitmapMade
<1>2. Shape
  BY <1>1 DEF PmmStart, Shape, BitmapMade
<1> QED BY <1>2 DEF PmmStart, PmmInv, Prefix, Counted, AboveLast, BitmapMade

LEMMA PmmInitStep ==
  ASSUME PmmInv, PmmInit
  PROVE  PmmInv'
<1> USE DEF PmmInv
<1>1. /\ machine' = machine /\ machine \in Machines
      /\ array' = Filled(machine) /\ status' = "count" /\ turn' = 1
      /\ installed' = 0 /\ installed = 0
      /\ pool' = pool /\ pool.used = {} /\ history' = {} /\ ~BitmapMade'
  BY DEF PmmInit, Shape, BitmapMade
<1>2. Shape'
  <2>1. PmmTypeOK'
    BY <1>1 DEF PmmTypeOK
  <2> QED BY <1>1, <2>1 DEF Shape, BitmapMade
<1>3. Counted'
  <2>1. SUFFICES ASSUME OnePiece(machine)
                 PROVE  \A k \in Available(array') : 1 <= k
    BY <1>1 DEF Counted
  <2>2. DOMAIN array' = 1..MemoryEntries(machine) /\ MemoryEntries(machine) \in Nat
    BY <1>1, FilledType
  <2> QED BY <2>2 DEF Available
<1> QED BY <1>1, <1>2, <1>3 DEF Prefix, AboveLast

LEMMA CountEntryStep ==
  ASSUME PmmInv, CountEntry
  PROVE  PmmInv'
<1> USE DEF PmmInv
<1>1. /\ machine' = machine /\ array' = array /\ pool' = pool
      /\ history' = history /\ status' = status /\ status = "count"
      /\ turn \in DOMAIN array /\ turn' = turn + 1 /\ turn \in Nat /\ installed \in Nat
      /\ pool.used = {} /\ history = {} /\ ~BitmapMade /\ ~BitmapMade' /\ turn > 0
      /\ array = Filled(machine) /\ machine \in Machines
  BY DEF CountEntry, Shape, BitmapMade, PmmTypeOK
<1>2. /\ installed' = IF turn \in Available(array)
                      THEN installed + array[turn].pages ELSE installed
  BY DEF CountEntry
<1>3. array[turn].pages \in Nat
  BY <1>1, Places DEF Regions
<1>4. Shape'
  <2>1. installed' \in Nat
    BY <1>1, <1>2, <1>3
  <2>2. PmmTypeOK'
    BY <1>1, <2>1 DEF PmmTypeOK, Shape
  <2> QED BY <1>1, <2>2 DEF Shape, BitmapMade
<1>5. Counted'
  <2>1. SUFFICES ASSUME OnePiece(machine)
                 PROVE  installed' = IF \A k \in Available(array) : turn + 1 <= k
                                     THEN 0 ELSE Region(machine).pages
    BY <1>1 DEF Counted
  <2>2. PICK f \in DOMAIN array : /\ Available(array) = {f}
                                  /\ array[f] = Region(machine)
    BY <1>1, <2>1, OnePieceArray
  <2>3. f \in Nat
    BY Places
  <2>4. installed = IF turn <= f THEN 0 ELSE Region(machine).pages
    BY <1>1, <2>1, <2>2 DEF Counted
  <2>5. installed' = IF turn = f THEN installed + Region(machine).pages ELSE installed
    BY <1>2, <2>2
  <2>6. (\A k \in Available(array) : turn + 1 <= k) <=> turn + 1 <= f
    BY <2>2
  <2>7. Region(machine).pages \in Nat
    BY <2>2, Places DEF Regions
  <2> QED BY <1>1, <2>3, <2>4, <2>5, <2>6, <2>7
<1> QED BY <1>1, <1>4, <1>5 DEF Prefix, AboveLast

LEMMA MakeBitmapStep ==
  ASSUME PmmInv, MakeBitmap
  PROVE  PmmInv'
<1> USE DEF PmmInv
<1>1. /\ machine' = machine /\ array' = array /\ installed' = installed
      /\ history' = history /\ status' = "ok" /\ status = "count" /\ turn' = 0
      /\ turn \notin DOMAIN array /\ turn \in Nat /\ turn > 0 /\ installed \in Nat
      /\ pool' = [used |-> {}, held |-> [p \in Frames |-> 0]]
      /\ history = {} /\ array = Filled(machine) /\ machine \in Machines
  BY DEF MakeBitmap, Shape, BitmapMade, PmmTypeOK
<1>2. Frames' = Frames /\ Bit' = Bit /\ Bits' = Bits /\ Last' = Last
  BY <1>1 DEF Frames, Bit, Bits, Last, Available
<1>3. Shape'
  <2>1. 0 \in 0..MaxHeld
    BY PmmAssumption
  <2>2. PmmTypeOK'
    BY <1>1, <1>2, <2>1 DEF PmmTypeOK
  <2> QED BY <1>1, <2>2 DEF Shape, BitmapMade
<1>4. Prefix'
  <2>1. Bits \in Nat /\ \A b \in Bit : b \in Nat /\ PageOf(b) \in Frames
    BY PageOfType DEF Bit
  <2>2. \A b \in Bit : PageOf(b)' = PageOf(b)
    BY <1>2 DEF PageOf
  <2>3. pool'.used = 0..(0 - 1) /\ 0 \in 0..Bits
    BY <1>1, <2>1
  <2>4. \A b \in Bit : pool'.held[PageOf(b)] = 0 /\ ~(b < 0)
    BY <1>1, <2>1
  <2> QED BY <1>2, <2>2, <2>3, <2>4 DEF Prefix
<1>5. Counted'
  <2>1. SUFFICES ASSUME OnePiece(machine)
                 PROVE  installed = Region(machine).pages
    BY <1>1 DEF Counted
  <2>2. PICK f \in DOMAIN array : Available(array) = {f}
    BY <1>1, <2>1, OnePieceArray
  <2>3. PICK n \in Nat : DOMAIN array = 1..n
    BY Places
  <2>4. ~(turn <= f)
    BY <1>1, <2>2, <2>3
  <2> QED BY <1>1, <2>1, <2>2, <2>4 DEF Counted
<1>6. AboveLast'
  <2>1. \A p \in Frames : ~(pool'.held[p] > 0)
    BY <1>1
  <2> QED BY <1>2, <2>1 DEF AboveLast
<1> QED BY <1>3, <1>4, <1>5, <1>6

-----------------------------------------------------------------------------
(***************************************************************************)
(* The interface.  No operation after pmm::init moves the bits.            *)
(***************************************************************************)
Settled == /\ machine' = machine /\ array' = array /\ installed' = installed
           /\ status \in {"ok", "book"} /\ status' \notin {"off", "count"}

LEMMA SettledKeeps ==
  ASSUME Shape, Settled
  PROVE  /\ Bits' = Bits /\ Bit' = Bit /\ Frames' = Frames /\ Last' = Last
         /\ BitmapMade /\ BitmapMade'
         /\ \A b \in Bit : PageOf(b)' = PageOf(b)
BY DEF Settled, Bits, Bit, Frames, Last, Available, BitmapMade, PageOf

LEMMA SettledCounted ==
  ASSUME Shape, Settled, Counted
  PROVE  Counted'
<1>1. /\ machine' = machine /\ array' = array /\ installed' = installed
      /\ status # "off" /\ status # "count" /\ status' # "count"
  BY DEF Settled
<1> QED BY <1>1 DEF Counted

(* A step that leaves a proper pool keeps the shape.                       *)
LEMMA SettledShape ==
  ASSUME Shape, Settled,
         pool.used' \subseteq Bit, pool.held' \in [Frames -> 0..MaxHeld],
         turn' \in Nat, status' = "book" => turn' > 0,
         history' \subseteq {"free", "force", "exhausted"},
         status' \in {"ok", "book", "assert", "stray"}
  PROVE  Shape'
<1>1. PmmTypeOK'
  BY SettledKeeps DEF PmmTypeOK, Shape, Settled
<1> QED BY <1>1, SettledKeeps DEF Shape, Settled

LEMMA ReserveBookStep ==
  ASSUME PmmInv, NEW n \in 1..MaxBook, ReserveBook(n)
  PROVE  PmmInv'
<1>1. /\ pool' = pool /\ history' = history /\ turn' = n /\ status' = "book"
      /\ Settled /\ Shape
  BY DEF ReserveBook, Settled, PmmInv
<1>2. /\ Bits' = Bits /\ Bit' = Bit /\ Frames' = Frames /\ Last' = Last
      /\ BitmapMade /\ BitmapMade' /\ \A b \in Bit : PageOf(b)' = PageOf(b)
  BY <1>1, SettledKeeps
<1>3. Shape'
  BY <1>1, <1>2, SettledShape DEF Shape, PmmTypeOK
<1>4. Prefix'
  BY <1>1, <1>2 DEF Prefix, PmmInv
<1>5. AboveLast'
  BY <1>1, <1>2 DEF AboveLast, PmmInv
<1> QED BY <1>1, <1>3, <1>4, <1>5, SettledCounted DEF PmmInv

LEMMA ReservePageStep ==
  ASSUME PmmInv, ReservePage
  PROVE  PmmInv'
<1>1. Settled /\ Shape
  BY DEF ReservePage, Settled, PmmInv
<1>2. /\ Bits' = Bits /\ Bit' = Bit /\ Frames' = Frames /\ Last' = Last
      /\ BitmapMade /\ BitmapMade' /\ \A b \in Bit : PageOf(b)' = PageOf(b)
  BY <1>1, SettledKeeps
<1>3. /\ Bits \in Nat /\ Bit \subseteq Frames /\ Frames \subseteq Nat
      /\ \A b \in Bit : PageOf(b) \in Frames /\ PageOf(b) >= Last
  BY <1>1, PageOfType
<1>4. /\ history' = IF Clear(pool) = {} THEN history \cup {"exhausted"} ELSE history
      /\ history \subseteq {"free", "force", "exhausted"}
      /\ pool.used \subseteq Bit /\ pool.held \in [Frames -> 0..MaxHeld]
      /\ turn \in Nat /\ turn > 0 /\ MaxHeld \in Nat
  BY <1>1, <1>2, PmmAssumption DEF ReservePage, Shape, PmmTypeOK
<1>5. CASE Bit = {}
  <2>1. pool' = pool /\ turn' = turn /\ status' = "stray"
    BY <1>5 DEF ReservePage
  <2>2. Shape'
    BY <1>1, <1>4, <2>1, SettledShape
  <2>3. Clear(pool) = {}
    BY <1>5 DEF Clear
  <2>4. Prefix'
    BY <1>4, <2>3 DEF Prefix
  <2>5. AboveLast'
    BY <1>2, <1>4, <2>1 DEF AboveLast, PmmInv
  <2> QED BY <1>1, <2>2, <2>4, <2>5, SettledCounted DEF PmmInv
<1>6. CASE Bit # {}
  <2>1. PICK b \in Bit : b = FirstClear(pool)
    BY <1>3, <1>6, FirstClearIsBit
  <2>2. /\ pool'.used = pool.used \cup {b}
        /\ pool'.held = [pool.held EXCEPT ![PageOf(b)] = @ + 1]
        /\ \A p \in Frames : pool'.held[p] <= MaxHeld
        /\ turn' = turn - 1 /\ status' = IF turn = 1 THEN "ok" ELSE "book"
    BY <1>6, <2>1 DEF ReservePage, Reserve, Bounded
  <2>3. PageOf(b) \in Frames /\ PageOf(b) >= Last
    BY <1>3
  <2>4. \A p \in Frames : /\ pool'.held[p] \in 0..MaxHeld
                          /\ p # PageOf(b) => pool'.held[p] = pool.held[p]
    <3>1. \A p \in Frames : pool.held[p] \in 0..MaxHeld
      BY <1>4
    <3>2. \A p \in Frames : pool'.held[p] = IF p = PageOf(b) THEN pool.held[p] + 1
                                            ELSE pool.held[p]
      BY <1>4, <2>2
    <3> QED BY <1>4, <2>2, <3>1, <3>2
  <2>5. Shape'
    <3>1. pool'.held \in [Frames -> 0..MaxHeld]
      BY <1>4, <2>2, <2>4
    <3> QED BY <1>1, <1>4, <2>2, <3>1, SettledShape
  <2>6. Prefix'
    <3>1. SUFFICES ASSUME history' = {}
                   PROVE  \E n \in 0..Bits :
                            /\ pool'.used = 0..(n - 1)
                            /\ \A c \in Bit : pool'.held[PageOf(c)]
                                                = (IF c < n THEN 1 ELSE 0)
      BY <1>2 DEF Prefix
    <3>2. history = {} /\ Clear(pool) # {}
      BY <1>4, <3>1
    <3>3. PICK n \in 0..Bits :
            /\ pool.used = 0..(n - 1)
            /\ \A c \in Bit : pool.held[PageOf(c)] = (IF c < n THEN 1 ELSE 0)
      BY <1>2, <3>2 DEF Prefix, PmmInv
    <3>4. b = n /\ n \in Bit
      BY <1>3, <2>1, <3>2, <3>3, FirstClearBehind
    <3>5. n + 1 \in 0..Bits /\ pool'.used = 0..((n + 1) - 1)
      BY <1>3, <2>2, <3>3, <3>4 DEF Bit
    <3>6. ASSUME NEW c \in Bit
          PROVE  pool'.held[PageOf(c)] = (IF c < n + 1 THEN 1 ELSE 0)
      <4>1. c \in Nat /\ Last \in Nat /\ n \in Nat
        BY <1>1, <1>3, Places
      <4>2. CASE c = n
        <5>1. pool.held[PageOf(n)] = 0
          BY <3>3, <3>4, <4>1
        <5>2. pool'.held[PageOf(n)] = 0 + 1
          BY <1>4, <2>2, <2>3, <3>4, <5>1
        <5> QED BY <4>1, <4>2, <5>2
      <4>3. CASE c # n
        <5>1. PageOf(c) # PageOf(b)
          BY <3>4, <4>1, <4>3 DEF PageOf
        <5>2. pool'.held[PageOf(c)] = (IF c < n THEN 1 ELSE 0)
          BY <1>3, <2>4, <3>3, <5>1
        <5> QED BY <4>1, <4>3, <5>2
      <4> QED BY <4>2, <4>3
    <3> QED BY <3>5, <3>6
  <2>7. AboveLast'
    <3>1. SUFFICES ASSUME "force" \notin history'
                   PROVE  \A p \in Frames : pool'.held[p] > 0 => p >= Last
      BY <1>2 DEF AboveLast
    <3>2. \A p \in Frames : pool.held[p] > 0 => p >= Last
      BY <1>2, <1>4, <3>1 DEF AboveLast, PmmInv
    <3> QED BY <2>3, <2>4, <3>2
  <2> QED BY <1>1, <2>5, <2>6, <2>7, SettledCounted DEF PmmInv
<1> QED BY <1>5, <1>6

LEMMA FreeBookStep ==
  ASSUME PmmInv, NEW p \in Frames, NEW n \in 1..MaxBook, FreeBook(p, n)
  PROVE  PmmInv'
<1>1. /\ Settled /\ Shape
      /\ history' = history \cup {"free"} /\ turn' = turn /\ status' \in {"ok", "stray"}
      /\ pool'.used = pool.used \ FreedBits(p, n)
      /\ pool'.held = [q \in Frames |-> IF q \in p..(p + n - 1)
                                        THEN pool.held[q] - 1 ELSE pool.held[q]]
      /\ \A q \in p..(p + n - 1) : q \in Frames /\ pool.held[q] > 0
  BY DEF FreeBook, Settled, PmmInv, Returned
<1>2. /\ Frames' = Frames /\ Last' = Last /\ BitmapMade /\ BitmapMade'
  BY <1>1, SettledKeeps
<1>3. /\ history \subseteq {"free", "force", "exhausted"} /\ turn \in Nat
      /\ pool.used \subseteq Bit /\ pool.held \in [Frames -> 0..MaxHeld]
      /\ MaxHeld \in Nat
  BY <1>1, <1>2, PmmAssumption DEF Shape, PmmTypeOK
<1>4. \A q \in Frames : /\ pool'.held[q] \in 0..MaxHeld
                        /\ pool'.held[q] <= pool.held[q]
                        /\ pool.held[q] \in 0..MaxHeld
  BY <1>1, <1>3
<1>5. Shape'
  <2>1. pool'.held \in [Frames -> 0..MaxHeld]
    BY <1>1, <1>4
  <2>2. pool'.used \subseteq Bit
    BY <1>1, <1>3
  <2> QED BY <1>1, <1>3, <2>1, <2>2, SettledShape
<1>6. Prefix'
  BY <1>1 DEF Prefix
<1>7. AboveLast'
  BY <1>1, <1>2, <1>3, <1>4 DEF AboveLast, PmmInv
<1> QED BY <1>1, <1>5, <1>6, <1>7, SettledCounted DEF PmmInv

LEMMA ForcedType ==
  ASSUME Shape, BitmapMade, NEW p \in Bit, NEW k \in Nat,
         p..(p + k - 1) \subseteq Bit, Bounded(Forced(pool, p, k))
  PROVE  /\ Forced(pool, p, k).used \subseteq Bit
         /\ Forced(pool, p, k).held \in [Frames -> 0..MaxHeld]
<1>1. /\ pool.used \subseteq Bit /\ pool.held \in [Frames -> 0..MaxHeld]
      /\ MaxHeld \in Nat
  BY PmmAssumption DEF Shape, PmmTypeOK
<1>2. \A q \in Frames : Forced(pool, p, k).held[q] <= MaxHeld
  BY DEF Bounded
<1>3. Forced(pool, p, k).held
        = [q \in Frames |-> IF q \in p..(p + k - 1) THEN pool.held[q] + 1
                            ELSE pool.held[q]]
  BY DEF Forced
<1>4. \A q \in Frames : Forced(pool, p, k).held[q] \in 0..MaxHeld
  BY <1>1, <1>2, <1>3
<1> QED BY <1>1, <1>3, <1>4 DEF Forced

LEMMA ForceBookStep ==
  ASSUME PmmInv, NEW p \in Bit, NEW n \in 1..MaxBook, ForceBook(p, n)
  PROVE  PmmInv'
<1>1. /\ Settled /\ Shape /\ p..(p + n - 1) \subseteq Bit
      /\ history' = history \cup {"force"} /\ turn' = turn /\ status' \in {"ok", "assert"}
      /\ \E k \in 0..n : pool' = Forced(pool, p, k) /\ Bounded(pool')
  BY DEF ForceBook, Settled, PmmInv
<1>2. PICK k \in 0..n : pool' = Forced(pool, p, k) /\ Bounded(Forced(pool, p, k))
  BY <1>1
<1>3. BitmapMade
  BY <1>1, SettledKeeps
<1>4. p..(p + k - 1) \subseteq Bit
  <2>1. p \in Nat
    BY <1>1, PageOfType DEF Bit
  <2> QED BY <1>1, <2>1
<1>5. pool'.used \subseteq Bit /\ pool'.held \in [Frames -> 0..MaxHeld]
  BY <1>1, <1>2, <1>3, <1>4, ForcedType
<1>6. Shape'
  BY <1>1, <1>5, SettledShape DEF Shape, PmmTypeOK
<1>7. Prefix' /\ AboveLast'
  BY <1>1 DEF Prefix, AboveLast
<1> QED BY <1>1, <1>6, <1>7, SettledCounted DEF PmmInv

LEMMA StutterStep ==
  ASSUME PmmInv, UNCHANGED pmmVars
  PROVE  PmmInv'
<1>1. /\ machine' = machine /\ array' = array /\ installed' = installed
      /\ turn' = turn /\ pool' = pool /\ history' = history /\ status' = status
  BY DEF pmmVars
<1>2. /\ Bits' = Bits /\ Bit' = Bit /\ Frames' = Frames /\ Last' = Last
      /\ BitmapMade' = BitmapMade /\ \A b \in Bit : PageOf(b)' = PageOf(b)
  BY <1>1 DEF Bits, Bit, Frames, Last, Available, BitmapMade, PageOf
<1>3. Shape' /\ Prefix'
  BY <1>1, <1>2 DEF PmmInv, Shape, PmmTypeOK, Prefix
<1>4. Counted' /\ AboveLast'
  BY <1>1, <1>2 DEF PmmInv, Counted, AboveLast
<1> QED BY <1>3, <1>4 DEF PmmInv

-----------------------------------------------------------------------------
(* The invariant, which the type correctness of Pmm is a part of.          *)
THEOREM PmmInvariant == PmmSpec => []PmmInv
<1>1. PmmStart => PmmInv
  BY InitHolds
<1>2. PmmInv /\ [PmmNext]_pmmVars => PmmInv'
  <2> SUFFICES ASSUME PmmInv, [PmmNext]_pmmVars PROVE PmmInv'
    OBVIOUS
  <2>1. CASE PmmInit
    BY <2>1, PmmInitStep
  <2>2. CASE CountEntry
    BY <2>2, CountEntryStep
  <2>3. CASE MakeBitmap
    BY <2>3, MakeBitmapStep
  <2>4. CASE DoReserveBook
    BY <2>4, ReserveBookStep DEF DoReserveBook
  <2>5. CASE ReservePage
    BY <2>5, ReservePageStep
  <2>6. CASE DoFreeBlock
    <3>1. 1 \in 1..MaxBook
      BY PmmAssumption
    <3> QED BY <2>6, <3>1, FreeBookStep DEF DoFreeBlock, FreeBlock
  <2>7. CASE DoFreeBook
    <3>1. 2..MaxBook \subseteq 1..MaxBook
      BY PmmAssumption
    <3> QED BY <2>7, <3>1, FreeBookStep DEF DoFreeBook
  <2>8. CASE DoForceBook
    BY <2>8, ForceBookStep DEF DoForceBook
  <2>9. CASE UNCHANGED pmmVars
    BY <2>9, StutterStep
  <2> QED BY <2>1, <2>2, <2>3, <2>4, <2>5, <2>6, <2>7, <2>8, <2>9 DEF PmmNext
<1> QED BY <1>1, <1>2, PTL DEF PmmSpec

(* While pages are only reserved and there are some, ReservePage answers   *)
(* no page twice, and marks exactly those that it has answered.            *)
THEOREM NoPageTwice == PmmSpec => []HandedOutOnce
<1>1. PmmInv => HandedOutOnce
  <2> SUFFICES ASSUME PmmInv PROVE HandedOutOnce
    OBVIOUS
  <2>1. PmmTypeOK
    BY DEF PmmInv, Shape
  <2>2. ASSUME BitmapMade, history = {}, NEW b \in Bit
        PROVE  pool.held[PageOf(b)] = (IF b \in pool.used THEN 1 ELSE 0)
    <3>1. PICK n \in 0..Bits :
            /\ pool.used = 0..(n - 1)
            /\ \A c \in Bit : pool.held[PageOf(c)] = (IF c < n THEN 1 ELSE 0)
      BY <2>2 DEF PmmInv, Prefix
    <3>2. Bits \in Nat
      BY PageOfType DEF PmmInv
    <3>3. b \in pool.used <=> b < n
      BY <3>1, <3>2 DEF Bit
    <3> QED BY <3>1, <3>3
  <2> QED BY <2>1, <2>2 DEF HandedOutOnce
<1> QED BY <1>1, PmmInvariant, PTL

(* And it answers the pages in address order, leaving none out.            *)
THEOREM BooksAreConsecutive == PmmSpec => []UsedIsPrefix
<1>1. PmmInv => UsedIsPrefix
  <2> SUFFICES ASSUME PmmInv, history = {}
               PROVE  pool.used = 0..(Cardinality(pool.used) - 1)
    BY DEF UsedIsPrefix
  <2>1. Bits \in Nat
    BY PageOfType DEF PmmInv
  <2>2. PICK n \in Nat : pool.used = 0..(n - 1)
    <3>1. CASE BitmapMade
      BY <2>1, <3>1 DEF PmmInv, Prefix
    <3>2. CASE ~BitmapMade
      <4>1. pool.used = 0..(0 - 1)
        BY <3>2 DEF PmmInv, Shape
      <4> QED BY <4>1
    <3> QED BY <3>1, <3>2
  <2>3. Cardinality(0..(n - 1)) = n
    BY FS_Interval, 0 \in Int, n - 1 \in Int
  <2> QED BY <2>2, <2>3
<1> QED BY <1>1, PmmInvariant, PTL

(* On a machine with one free region besides the first all that is given   *)
(* out is memory, and all of the region is, but for the end that does not  *)
(* fill a byte of the bitmap.                                              *)
THEOREM GivesOutMemory == PmmSpec => []PagesAreMemory
<1>1. PmmInv => PagesAreMemory
  <2> SUFFICES ASSUME PmmInv, BitmapMade, OnePiece(machine)
               PROVE  /\ Bits > Region(machine).pages - ByteBits
                      /\ "force" \notin history =>
                           \A p \in Frames : pool.held[p] > 0 =>
                             p \in Region(machine).first
                                   ..(Region(machine).first
                                        + Region(machine).pages - 1)
    BY DEF PagesAreMemory
  <2>1. /\ machine \in Machines /\ array = Filled(machine)
        /\ status # "off" /\ status # "count" /\ installed \in Nat
    BY DEF PmmInv, Shape, PmmTypeOK, BitmapMade
  <2>2. PICK f \in DOMAIN array : /\ Available(array) = {f}
                                  /\ array[f] = Region(machine)
    BY <2>1, OnePieceArray
  <2>3. f \in Nat /\ array[f] \in Regions
    BY Places DEF PmmInv
  <2>4. Last = Region(machine).first
    <3>1. Max({f}) = f
      BY <2>3 DEF Max
    <3> QED BY <2>2, <3>1 DEF Last
  <2>5. installed = Region(machine).pages
    BY <2>1 DEF PmmInv, Counted
  <2>6. /\ Bits \in Nat /\ Bits <= Region(machine).pages
        /\ Bits > Region(machine).pages - ByteBits
    BY <2>1, <2>5, BitsType
  <2>7. Region(machine).first \in Nat /\ Region(machine).pages \in Nat
    BY <2>2, <2>3 DEF Regions
  <2>8. ASSUME "force" \notin history, NEW p \in Frames, pool.held[p] > 0
        PROVE  p \in Region(machine).first
                     ..(Region(machine).first + Region(machine).pages - 1)
    <3>1. p >= Region(machine).first
      BY <2>4, <2>8 DEF PmmInv, AboveLast
    <3>2. p \in 0..(Region(machine).first + Bits - 1)
      BY <2>4 DEF Frames
    <3> QED BY <2>6, <2>7, <3>1, <3>2
  <2> QED BY <2>6, <2>8
<1> QED BY <1>1, PmmInvariant, PTL

=============================================================================
