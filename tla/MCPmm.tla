-------------------------------- MODULE MCPmm -------------------------------
(* Pmm for TLC.                                                            *)
EXTENDS Pmm

Map(given, behind) == [given |-> given, behind |-> behind]
Free(first, pages) == [first |-> first, pages |-> pages, free |-> TRUE]
Taken(first, pages) == [first |-> first, pages |-> pages, free |-> FALSE]

\* The map of a usual PC, in small: memory below the BIOS, the BIOS, memory,
\* what the BIOS keeps.  Then machines with a piece of memory on either side
\* of a hole, without memory behind the BIOS, with a region at address 0 in
\* the middle, and with something behind the map that is not zero.
MCMachines ==
  {Map(<<Free(0, 1), Taken(1, 1), Free(2, 7), Taken(9, 1)>>, <<Zero, Zero, Zero>>),
   Map(<<Free(0, 1), Taken(1, 1), Free(2, 2), Taken(4, 1), Free(5, 2)>>, <<Zero>>),
   Map(<<Free(0, 1), Taken(1, 1)>>, <<Zero>>),
   Map(<<Free(0, 1), Zero, Taken(1, 1), Free(2, 4)>>, <<Zero>>),
   Map(<<Free(0, 1), Free(1, 2)>>, <<Free(5, 1), Taken(7, 1), Free(6, 1)>>)}
=============================================================================
