----------------------------- MODULE MCAffinity -----------------------------
(* Instances of Affinity for TLC.                                          *)
EXTENDS Affinity

Digits == <<"0", "1", "2", "3">>

\* "c" is too dense to be a neighbour, "1" looks like an index.
OneWord == {<<"a">>, <<"b">>, <<"c">>, <<"1">>}
Tables == {<<>>, <<<<"a">>>>, <<<<"b">>, <<"a">>>>, <<<<"a">>, <<"c">>, <<"1">>>>}
AllBut(names, far) ==
  {<<m, n>> \in names \X names : {m, n} # far}
OneWordNear == AllBut(OneWord, {<<"a">>, <<"1">>})
CDense == {<<"c">>}

\* A name of two words.
TwoWord == {<<"new", "york">>, <<"b">>}
TwoWordTables == {<<<<"b">>, <<"new", "york">>>>}
TwoWordNear == TwoWord \X TwoWord

NoneDense == {}
=============================================================================
