--------------------------- MODULE MCSymbolPlaces ---------------------------
(* An instance of SymbolPlaces for TLC: the two processes of MCSdmDatabase *)
(* and the places of the symbols their heap can hold, all alike.           *)
EXTENDS MCSdmDatabase, SymbolPlaces

PlacedSymmetry == Permutations(Procs) \cup Permutations(Places)
=============================================================================
