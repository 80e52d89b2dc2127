------------------------------ MODULE MCConsole ------------------------------
(* The keys: none, Q, W's release, "]", space, an arrow's prefix, backspace *)
(* and enter.                                                              *)
EXTENDS Console

MCKeys == {0, 16, 145, 27, 57, 224, Backspace, Enter}
=============================================================================
