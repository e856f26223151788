---------------------------- MODULE MCPrefixIndex ----------------------------
(* Names of up to two letters out of three, some the prefix of another, and *)
(* a longest prefix that is no name.                                        *)
EXTENDS PrefixIndex

MCNames    == {<<1>>, <<2>>, <<3>>, <<1, 2>>, <<2, 1>>, <<2, 3>>, <<2, 3, 1>>}
MCPrefixes == {<<>>, <<1>>, <<2>>, <<2, 2>>, <<2, 3>>}

=============================================================================
