------------------------------ MODULE MCTopology ------------------------------
(* Instances of Topology for TLC.                                          *)
EXTENDS Topology

CONSTANTS w1, w2, nil

Team2 == {w1, w2}

(* One space with two symbols that overlap, and a third yet to be linked.  *)
OneSpace == {"S"}
ThreeNames == {"a", "b", "c"}
TwoLinked ==
  {[order |-> [sp \in OneSpace |-> <<"a", "b">>],
    vector |-> [id \in OneSpace \X ThreeNames |->
                  CASE id[2] = "a" -> {0, 2}
                    [] id[2] = "b" -> {1, 2}
                    [] OTHER -> {}]]}
Middle == {{2}}

(* Two spaces with a symbol of one name; the first has another one.        *)
TwoSpaces == {"S", "T"}
TwoNames == {"a", "b"}
OneEach ==
  {[order |-> [sp \in TwoSpaces |-> IF sp = "S" THEN <<"a", "b">> ELSE <<"a">>],
    vector |-> [id \in TwoSpaces \X TwoNames |->
                  CASE id = <<"S", "a">> -> {0, 2}
                    [] id = <<"S", "b">> -> {1}
                    [] id = <<"T", "a">> -> {3}
                    [] OTHER -> {}]]}
=============================================================================
