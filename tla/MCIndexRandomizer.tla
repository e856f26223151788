------------------------- MODULE MCIndexRandomizer -------------------------
(* Two generators of four dimensions for TLC.                              *)
EXTENDS IndexRandomizer

CONSTANTS g1, g2

TwoGenerators == {g1, g2}
=============================================================================
