-------------------------- MODULE MCDisplayServer --------------------------
(* A narrow place and one that covers part of it and of its title bar, on  *)
(* a screen of two by three pixels.  Windows differ in nothing but name.   *)
EXTENDS DisplayServer, TLC

MCPlaces == {[x |-> 0, y |-> 0, w |-> 2, h |-> 1],
             [x |-> 1, y |-> 1, w |-> 1, h |-> 1]}

Alike == Permutations(Windows)
=============================================================================
