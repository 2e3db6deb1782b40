-------------------------------- MODULE Lpm ---------------------------------
(***************************************************************************)
(* What the longest-prefix-match tree of daemon/table/Lpm.go answers, seen *)
(* from outside: PIT, FIB and StrategyTable each own one such tree.        *)
(*                                                                         *)
(* A tree is described by two sets of names.  "stored" holds the names     *)
(* whose node carries a value.  "branched" holds the names whose node has  *)
(* ever had a child: node.table is non-nil there and node.count is         *)
(* positive, and because Delete never decrements count such a node is      *)
(* never reclaimed.  LpmTree models the linked nodes themselves and shows  *)
(* that these two sets are all a caller can observe.                       *)
(***************************************************************************)
EXTENDS Naturals, Sequences

Prefixes(key) == {SubSeq(key, 1, len) : len \in 0 .. Len(key)}

ProperPrefixes(key) == Prefixes(key) \ {key}

\* The root always exists; a node lives while it has a value or a past child.
Nodes(stored, branched) == {<<>>} \cup branched \cup stored

\* node.FindLongestPrefixMatch: the longest prefix of key that has a value.
\* The answer is a set of at most one name; {} is the "not found" result.
FindLongestPrefixMatch(stored, key) ==
  {p \in Prefixes(key) \cap stored :
      \A q \in Prefixes(key) \cap stored : Len(q) <= Len(p)}

\* node.FindExactMatch: the walk down the tree stops at the last prefix of
\* key that has a node.  If that is not key itself the code still returns the
\* value of the node where the walk stopped, provided its child table exists.
FindExactMatch(stored, branched, key) ==
  {p \in Prefixes(key) \cap stored :
      /\ \A q \in Prefixes(key) : Len(q) > Len(p) => q \notin Nodes(stored, branched)
      /\ p = key \/ p \in branched}

\* node.AddOrUpdate gives every node above the new one a child table.
BranchesOf(branched, key) == branched \cup ProperPrefixes(key)
=============================================================================
