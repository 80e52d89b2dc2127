------------------------------- MODULE KVector ------------------------------
(***************************************************************************)
(* K_Vector (src/lib/vector/k_vector): a vector whose elements stay in the *)
(* slots they were first put in.  A slot says whether it is live           *)
(* (DoesPoint) and, when it is, which index of the vector it holds         *)
(* (PointsTo); inserting and removing renumber the live slots and move     *)
(* nothing.  A removed element leaves its data behind in a dead slot.      *)
(*                                                                         *)
(* There is one bank: content_size is 1 after every constructor and no     *)
(* operation changes it.  The PointsTo of a dead slot (2^32 - 1, and less  *)
(* after later removals) is never used while the slot is dead: it is       *)
(* NoIndex here, which no live slot holds.                                 *)
(***************************************************************************)
EXTENDS Naturals, Sequences

CONSTANTS Capacity,  \* slots of a bank: 1000
          Data,      \* the values of the element type T
          NoData     \* what a slot of a zeroed bank holds

ASSUME KVectorAssumption == /\ Capacity \in Nat \ {0}
                            /\ NoData \notin Data

VARIABLES slots,     \* content[0].h
          alloc,     \* content[0].alloc: the slots 1..alloc have been used
          size,      \* VectorSize
          halted     \* operator[] has reached ASSERT_NOT_REACHED

vars == <<slots, alloc, size, halted>>

Slots   == 1..Capacity
NoIndex == Capacity

Slot  == [live : BOOLEAN, to : Nat, data : Data \cup {NoData}]
Blank == [live |-> FALSE, to |-> NoIndex, data |-> NoData]

LiveSlots == {i \in Slots : slots[i].live}
NeverDead == {}
DeadSlots == {i \in 1..alloc : ~slots[i].live}
Holds(s)  == \E i \in LiveSlots : slots[i].to = s
Holder(s) == CHOOSE i \in LiveSlots : slots[i].to = s

(* What becomes of slot i when it is renumbered, and when it is popped.    *)
Renumbered(i, n) == [slots[i] EXCEPT !.to = n]
Killed(i)        == [slots[i] EXCEPT !.live = FALSE, !.to = NoIndex]

Running == ~halted /\ UNCHANGED halted

-----------------------------------------------------------------------------
(***************************************************************************)
(* The constructors: a bank of zeroed memory, nothing in it.               *)
(***************************************************************************)
Init == /\ slots = [i \in Slots |-> Blank]
        /\ alloc = 0
        /\ size = 0
        /\ halted = FALSE

(***************************************************************************)
(* insert_at.  When the bank has room the new element takes the first dead *)
(* slot or, if all used ones are live, the next unused one, and the live   *)
(* slots from index s on move up.  A bank whose 1000 slots have all been   *)
(* used is left alone, its dead slots included.                            *)
(***************************************************************************)
Target == IF DeadSlots = {} THEN alloc + 1
          ELSE CHOOSE i \in DeadSlots : \A j \in DeadSlots : i <= j

ShiftedAfter(s) ==
  [i \in Slots |-> IF slots[i].live /\ slots[i].to > s
                   THEN Renumbered(i, slots[i].to + 1)
                   ELSE slots[i]]

ShiftedFrom(s) ==
  [i \in Slots |-> IF slots[i].live /\ slots[i].to >= s
                   THEN Renumbered(i, slots[i].to + 1)
                   ELSE slots[i]]

FillSlot(s, d) ==
  /\ slots' = [ShiftedFrom(s) EXCEPT
                 ![Target] = [live |-> TRUE, to |-> s, data |-> d]]
  /\ alloc' = IF DeadSlots = {} THEN alloc + 1 ELSE alloc
  /\ size' = size + 1

InsertAt(s, d) ==
  IF alloc < Capacity THEN FillSlot(s, d) ELSE UNCHANGED <<slots, alloc, size>>

(***************************************************************************)
(* pop_at.  The live slot of index s dies, those above it move down.  An   *)
(* index that no slot holds changes nothing: there is none above it.       *)
(***************************************************************************)
PopAt(s) ==
  /\ slots' = [i \in Slots |->
                 IF ~slots[i].live \/ slots[i].to < s THEN slots[i]
                 ELSE IF slots[i].to = s
                 THEN Killed(i)
                 ELSE Renumbered(i, slots[i].to - 1)]
  /\ size' = IF Holds(s) THEN size - 1 ELSE size
  /\ UNCHANGED alloc

(* pop_back on an empty vector asks for index 2^32 - 1.                    *)
LastIndex == IF size = 0 THEN NoIndex ELSE size - 1

(***************************************************************************)
(* delete_all pops from the back until VectorSize is 0; operator= does     *)
(* that and pushes the elements of w, which take the slots from the first  *)
(* on until the bank has no unused slot left.                              *)
(***************************************************************************)
Emptied == [i \in Slots |-> Killed(i)]

DeleteAll == slots' = Emptied /\ size' = 0 /\ UNCHANGED alloc

Assign(w) ==
  /\ slots' = [i \in Slots |->
                 IF i <= Len(w) /\ alloc < Capacity
                 THEN [live |-> TRUE, to |-> i - 1, data |-> w[i]]
                 ELSE Emptied[i]]
  /\ size' = IF alloc < Capacity THEN Len(w) ELSE 0
  /\ alloc' = IF alloc < Len(w) THEN Len(w) ELSE alloc

(* The copy and move constructors: a fresh bank, then a push per element.  *)
CopyFrom(w) ==
  /\ slots' = [i \in Slots |->
                 IF i <= Len(w) THEN [live |-> TRUE, to |-> i - 1, data |-> w[i]]
                 ELSE Blank]
  /\ size' = Len(w)
  /\ alloc' = Len(w)

(* operator[] returns a reference into the slot of index s.                *)
WriteAt(s, d) ==
  /\ Holds(s)
  /\ slots' = [slots EXCEPT ![Holder(s)].data = d]
  /\ UNCHANGED <<alloc, size>>

-----------------------------------------------------------------------------
DoInsert == Running /\ \E s \in 0..size, d \in Data : InsertAt(s, d)
DoPush   == Running /\ \E d \in Data : InsertAt(size, d)
DoPop    == Running /\ \E s \in 0..NoIndex : PopAt(s)
DoPopBack == Running /\ PopAt(LastIndex)
DoWrite  == Running /\ \E s \in 0..NoIndex, d \in Data : WriteAt(s, d)
DoDeleteAll == Running /\ DeleteAll
DoAssign == Running /\ \E n \in 0..Capacity : \E w \in [1..n -> Data] : Assign(w)
DoCopy   == Running /\ \E n \in 0..Capacity : \E w \in [1..n -> Data] : CopyFrom(w)
DoOutOfBounds == /\ ~halted
                 /\ \E s \in 0..NoIndex : ~Holds(s)
                 /\ halted' = TRUE
                 /\ UNCHANGED <<slots, alloc, size>>

Next == \/ DoInsert \/ DoPush \/ DoPop \/ DoPopBack \/ DoWrite
        \/ DoDeleteAll \/ DoAssign \/ DoCopy \/ DoOutOfBounds

Spec == Init /\ [][Next]_vars

-----------------------------------------------------------------------------
(***************************************************************************)
(* Properties.                                                             *)
(***************************************************************************)

(* The fields stay in their ranges, and no slot beyond alloc is live.      *)
TypeOK ==
  /\ slots \in [Slots -> Slot]
  /\ alloc \in 0..Capacity
  /\ size \in Nat
  /\ halted \in BOOLEAN
  /\ \A i \in LiveSlots : i <= alloc

(* After any mix of inserts, pops and assignments the live slots hold each *)
(* of the indices 0..size-1 exactly once: operator[] finds an element for  *)
(* every index below size() and for no other, and delete_all, which pops   *)
(* from the back until VectorSize is 0, terminates.                        *)
NoIndexShared ==
  \A i, j \in LiveSlots : slots[i].to = slots[j].to => i = j
IndicesBelowSize == \A i \in LiveSlots : slots[i].to < size
EveryIndexHeld   == \A s \in 0..(size - 1) : Holds(s)

IndicesExact == NoIndexShared /\ IndicesBelowSize /\ EveryIndexHeld

(* Every call has the effect of its index on the sequence of elements:     *)
(* renumbering slots in place, reusing dead ones, and refusing to insert   *)
(* once all have been used, is insertion into, removal from and assignment *)
(* to a sequence whose peak is alloc.                                      *)
Vec == [elems |-> [i \in 1..size |-> slots[Holder(i - 1)].data],
        peak  |-> alloc]
Ops == INSTANCE VecOps

CallsExact ==
  [][\A s \in 0..NoIndex, d \in Data :
       /\ s <= size /\ InsertAt(s, d) => Vec' = Ops!Insert(Vec, s, d)
       /\ PopAt(s)      => Vec' = Ops!PopAt(Vec, s)
       /\ WriteAt(s, d) => Vec' = Ops!Write(Vec, s, d)]_vars

(* And no call does anything else: a vector that anyone uses in any way is *)
(* the VecSeq it promises, whose peak grows only when all its slots are    *)
(* live -- dead slots are taken before new ones.                           *)
Abstract == INSTANCE VecSeq WITH vec <- Vec
ImplementsVecSeq == Abstract!Spec /\ CallsExact

=============================================================================
