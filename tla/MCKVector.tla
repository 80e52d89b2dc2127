------------------------------ MODULE MCKVector -----------------------------
(***************************************************************************)
(* KVector for TLC: a bank of Capacity slots (4 instead of 1000) and two   *)
(* element values, enough to tell every element from its neighbours.       *)
(***************************************************************************)
EXTENDS KVector

=============================================================================
