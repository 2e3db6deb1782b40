---------------------------- MODULE MCForwarder -----------------------------
EXTENDS Forwarder, TLC

\* One name.
OneName == {<<"a">>}

\* A name and one below it, so that the two entries share a path in the PIT.
NestedNames == {<<"a">>, <<"a", "b">>}

DefaultRoute == {<<>>}

\* Next hops carry no order, and neither do nonces: the tables are all that
\* tells them apart.
Symmetry == Permutations(NextHopFaces) \cup Permutations(Nonces)
=============================================================================
