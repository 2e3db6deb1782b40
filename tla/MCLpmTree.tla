----------------------------- MODULE MCLpmTree ------------------------------
(* Every name of one or two components over two components, so that names   *)
(* share prefixes, and one of three.                                        *)
EXTENDS LpmTree

MCKeys == {<<"a">>, <<"b">>, <<"a", "a">>, <<"a", "b">>, <<"a", "a", "a">>}
=============================================================================
