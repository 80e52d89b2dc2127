------------------------------- MODULE VecSeq -------------------------------
(***************************************************************************)
(* The abstract K_Vector: one vector, used by any sequence of calls of its *)
(* interface.  The kernel stops (ASSERT_NOT_REACHED, then fault 0x14) when *)
(* operator[] is asked for an index that no element has.                   *)
(***************************************************************************)
EXTENDS VecOps

CONSTANT Data        \* the values of the element type T

VARIABLES vec,       \* the vector, a value of VecOps
          halted     \* an out-of-bounds operator[] has stopped the kernel

vars == <<vec, halted>>

Init == vec = EmptyVector /\ halted = FALSE

Running == ~halted /\ UNCHANGED halted

DoInsert  == /\ Running
             /\ \E s \in 0..Size(vec), d \in Data : vec' = Insert(vec, s, d)
DoPop     == /\ Running
             /\ \E s \in 0..Capacity : vec' = PopAt(vec, s)
DoWrite   == /\ Running
             /\ \E i \in DOMAIN vec.elems, d \in Data :
                  vec' = Write(vec, i - 1, d)
DoClear   == Running /\ vec' = DeleteAll(vec)
DoAssign  == /\ Running
             /\ \E n \in 0..Capacity : \E w \in [1..n -> Data] :
                  vec' = Assign(vec, w)
DoCopy    == /\ Running
             /\ \E n \in 0..Capacity : \E w \in [1..n -> Data] :
                  vec' = Assign(EmptyVector, w)
DoHalt    == ~halted /\ halted' = TRUE /\ UNCHANGED vec

Next == \/ DoInsert \/ DoPop \/ DoWrite \/ DoClear
        \/ DoAssign \/ DoCopy \/ DoHalt

Spec == Init /\ [][Next]_vars

=============================================================================
