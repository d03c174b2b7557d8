------------------------------ MODULE MCXectl ------------------------------
(* Xectl with a 5-bit word and 4-byte pages; every scalar of 6 bits.  The  *)
(* shorter BAR ends before the last register of ucGetGTConfig; the other   *)
(* one is that of the Raptor Lake GPU.                                     *)
EXTENDS Xectl

MCScalars == 0 .. 2 * Word - 1
MCBarLengths == {\h100000, \h1000000}
MCRooms == {0, 1, 4, 8, 9}

=============================================================================
