------------------------------ MODULE LpmSpec -------------------------------
(***************************************************************************)
(* The longest-prefix-match tree as its callers may think of it: a set of  *)
(* names with a value, and the set of names a child was ever added under.  *)
(***************************************************************************)
EXTENDS Lpm

CONSTANT Keys     \* the names the caller adds, updates and deletes

VARIABLES stored, branched

vars == <<stored, branched>>

Init == stored = {} /\ branched = {}

Add(key) ==
  /\ stored' = stored \cup {key}
  /\ branched' = BranchesOf(branched, key)

Remove(key) ==
  /\ stored' = stored \ {key}
  /\ UNCHANGED branched

Next == \E key \in Keys : Add(key) \/ Remove(key)

Spec == Init /\ [][Next]_vars
=============================================================================
