------------------------------- MODULE MCSdmi --------------------------------
(* A name, one with a wild card, one in a space of its own and one that is  *)
(* no symbol; files of up to three of these lines.                          *)
EXTENDS Sdmi

MCPlain == [part \in {"words", "s", "a", "b", "a*"} |->
              IF part = "a*" THEN "a" ELSE part]

MCWords == {<<"a">>, <<"a*">>, <<"s", "b">>, <<"s", "a", "b">>}

MCContents ==
  {<<>>, <<<<"a">>, <<"a">>>>, <<<<"s", "b">>, <<>>, <<"a*">>>>,
   <<<<"s", "a", "b">>, <<"a">>>>}

=============================================================================
