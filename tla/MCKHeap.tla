------------------------------- MODULE MCKHeap ------------------------------
(***************************************************************************)
(* KHeap for TLC.  Pages of a few bytes keep what the code distinguishes:  *)
(* a request that fills a free entry, one that leaves a rest, one that     *)
(* leaves nothing but the lost byte, one that spans what were two pages.   *)
(***************************************************************************)
EXTENDS KHeap

=============================================================================
