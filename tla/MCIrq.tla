-------------------------------- MODULE MCIrq -------------------------------
(***************************************************************************)
(* Irq for TLC: two ticks, two keys and one request of each drive, at      *)
(* any points of the boot.                                                 *)
(***************************************************************************)
EXTENDS Irq

FewEdges == [l \in Lines |-> CASE l = Timer -> 2 [] l = Kbd -> 2 [] OTHER -> 1]

=============================================================================
