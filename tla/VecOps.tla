------------------------------- MODULE VecOps -------------------------------
(***************************************************************************)
(* What a K_Vector (lib/vector/k_vector) promises its users, as operations *)
(* on a value: a vector is a record of the elements it holds, in index     *)
(* order, and of the most elements it has ever held.  The peak matters     *)
(* because the slots of a K_Vector are never given back: once Capacity of  *)
(* them have been in use at the same time, insert_at does nothing for ever *)
(* after, even when the vector has been emptied.                           *)
(*                                                                         *)
(* Indices count from 0, as in the code.  KVector shows that the slots of  *)
(* the implementation have this meaning; KHeap uses it for MemoryMap.      *)
(***************************************************************************)
EXTENDS Naturals, Sequences

CONSTANT Capacity    \* the 1000 slots of the one content bank there is

ASSUME CapacityAssumption == Capacity \in Nat \ {0}

(* A vector over the elements of S.                                        *)
VectorOf(S) == [elems : Seq(S), peak : 0..Capacity]

EmptyVector == [elems |-> << >>, peak |-> 0]

Size(v)    == Len(v.elems)
Indices(v) == 0..(Size(v) - 1)

(* operator[] : the element at index s of v, for s < Size(v).              *)
At(v, s) == v.elems[s + 1]

(* v[s] = d, through the reference that operator[] returns.                *)
Write(v, s, d) == [v EXCEPT !.elems[s + 1] = d]

HasRoom(v) == v.peak < Capacity

(* insert_at(s, d), for s <= Size(v).                                      *)
Insert(v, s, d) ==
  IF HasRoom(v)
  THEN [elems |-> [i \in 1..(Size(v) + 1) |->
                     IF i <= s THEN v.elems[i]
                     ELSE IF i = s + 1 THEN d ELSE v.elems[i - 1]],
        peak  |-> IF Size(v) < v.peak THEN v.peak ELSE v.peak + 1]
  ELSE v

PushBack(v, d) == Insert(v, Size(v), d)

(* pop_at(s): an index that no element has removes nothing.                *)
PopAt(v, s) ==
  IF s < Size(v)
  THEN [v EXCEPT !.elems = [i \in 1..(Size(v) - 1) |->
                              IF i <= s THEN v.elems[i] ELSE v.elems[i + 1]]]
  ELSE v

DeleteAll(v) == [v EXCEPT !.elems = << >>]

(* operator=: the elements of w are pushed one by one on the emptied v.    *)
Assign(v, w) ==
  IF HasRoom(v)
  THEN [elems |-> w, peak |-> IF Len(w) > v.peak THEN Len(w) ELSE v.peak]
  ELSE DeleteAll(v)

=============================================================================
