-------------------------------- MODULE Maps --------------------------------
(***************************************************************************)
(* Go maps as partial functions: the tables of the daemon are maps keyed   *)
(* by a name or by a face, so their domain changes as entries come and go. *)
(***************************************************************************)

\* m is a map whose keys are in S.
HasKeysIn(m, S) == DOMAIN m \subseteq S /\ m = [x \in DOMAIN m |-> m[x]]

\* m is a map from some of the keys in S to values in T.
IsMap(m, S, T) == HasKeysIn(m, S) /\ \A x \in DOMAIN m : m[x] \in T

EmptyMap == [x \in {} |-> x]

\* m[k] = v
Put(m, k, v) == [x \in DOMAIN m \cup {k} |-> IF x = k THEN v ELSE m[x]]

\* delete(m, k) for every k in K; keys that are absent are ignored, as in Go.
Drop(m, K) == [x \in DOMAIN m \ K |-> m[x]]
=============================================================================
