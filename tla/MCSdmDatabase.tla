--------------------------- MODULE MCSdmDatabase ---------------------------
(* Instances of SdmDatabase for TLC.                                       *)
EXTENDS SdmDatabase, TLC

CONSTANTS p1, p2, nil

(* One process.  "A" is a plain space and "_h" a hidden one; "y" is a long *)
(* name.  The draws overlap: 1 and 2 share an element, leading in one and  *)
(* trailing in the other when the dither is one half.                      *)
SoloProcs  == {p1}
SoloSpaces == {"A", "_h"}
SoloHidden == {"_h"}
SoloNames  == {"x", "y"}
SoloLong   == {"y"}
SoloSymId  == {<<"A", "x">>, <<"_h", "y">>}
SoloShuffles == << <<0, 1>>, <<1, 2>>, <<2, 0>>, <<1, 0>> >>

(* Two processes that learn into one space.                                *)
PairProcs  == {p1, p2}
PairSpaces == {"A"}
PairNames  == {"x", "y"}
PairSymId  == {<<"A", "x">>, <<"A", "y">>}

PairShuffles == << <<0, 1>>, <<1, 2>> >>
OneTarget == {<<"A", "x">>}
CrossedShuffles == << <<0, 1>>, <<1, 0>> >>

EmptySet == {}
=============================================================================
