---------------------------- MODULE MCSymbolVector ----------------------------
(* Instances of SymbolVector for TLC.                                      *)
EXTENDS SymbolVector

CONSTANTS x, y, nil

TwoSymbols == {x, y}

\* They share dimension 1, leading in one and trailing in the other.
FourDims == {<<0, 1>>, <<1, 3>>}

\* Either way around four dimensions, and beyond.
AllWays == {0, -5, 6}
=============================================================================
