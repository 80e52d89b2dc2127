------------------------------ MODULE Allocator -----------------------------
(***************************************************************************)
(* What the users of kmalloc and kfree rely on: a block that has been      *)
(* handed out shares no byte with any other until it is freed, and lies in *)
(* the memory the heap was given.  The heap may refuse to go on: it then   *)
(* stops the kernel and hands out nothing more.                            *)
(***************************************************************************)
EXTENDS Naturals

CONSTANTS Base, Limit,   \* the heap is the bytes Base..Limit-1
          MaxAlloc       \* the largest request

VARIABLES held,          \* the blocks handed out and not freed
          stopped

vars == <<held, stopped>>

Block == [at : Nat, size : Nat]

Apart(b, c) == b.at + b.size <= c.at \/ c.at + c.size <= b.at
InHeap(b)   == Base <= b.at /\ b.at + b.size <= Limit

Init == held = {} /\ stopped = FALSE

Alloc == /\ ~stopped
         /\ \E a \in Base..Limit, n \in 1..MaxAlloc :
              LET b == [at |-> a, size |-> n] IN
              /\ InHeap(b)
              /\ \A c \in held : Apart(b, c)
              /\ held' = held \cup {b}
         /\ UNCHANGED stopped

Free  == /\ ~stopped
         /\ \E b \in held : held' = held \ {b}
         /\ stopped' \in BOOLEAN

Stop  == ~stopped /\ stopped' = TRUE /\ UNCHANGED held

Next == Alloc \/ Free \/ Stop

Spec == Init /\ [][Next]_vars

=============================================================================
