---------------------------- MODULE MCFrameTrainer ----------------------------
(* Instances of FrameTrainer for TLC.                                      *)
EXTENDS FrameTrainer

\* Two frames that may alternate, a line with its id only, a term twice.
SomeLines == {<<>>, <<"f">>, <<"f", "a", "b">>, <<"g", "b", "b">>}

AllSwitches == [frameids : BOOLEAN, reverse_index : BOOLEAN,
                cotrain : BOOLEAN, symmetric : BOOLEAN]
=============================================================================
