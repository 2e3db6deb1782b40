------------------------------ MODULE LruCache ------------------------------
(***************************************************************************)
(* daemon/mgmt/LRU.go: a list of entries, the one touched last in front,   *)
(* and a map from key to entry, of which only the list is kept here.       *)
(***************************************************************************)
EXTENDS Naturals, Sequences

CONSTANT CacheSize    \* ManagementConfig.CacheSize; 0 is no limit

ASSUME CacheSizeAssumption == CacheSize \in Nat

Keys(cache) == {cache[k].key : k \in DOMAIN cache}

\* The element that the map has for key.
Place(cache, key) == CHOOSE k \in DOMAIN cache : cache[k].key = key

Lookup(cache, key) == cache[Place(cache, key)]

\* list.MoveToFront for the k-th element.
MoveToFront(list, k) ==
  [n \in DOMAIN list |-> IF n = 1 THEN list[k] ELSE IF n <= k THEN list[n - 1] ELSE list[n]]

\* Get moves the entry that is found to the front.
Get(cache, key) ==
  IF key \in Keys(cache) THEN MoveToFront(cache, Place(cache, key)) ELSE cache

\* Seeded fault: the newest entry goes.
RemoveOldest_Front(cache) ==
  IF CacheSize # 0 /\ Len(cache) > CacheSize THEN Tail(cache) ELSE cache

\* RemoveOldest for as long as there are too many, which is at most once.
RemoveOldest(cache) ==
  IF CacheSize # 0 /\ Len(cache) > CacheSize
  THEN SubSeq(cache, 1, Len(cache) - 1) ELSE cache

\* Seeded fault: the value of a key that is there stays as it is.
Add_KeepsOld(cache, key, value) ==
  RemoveOldest(IF key \in Keys(cache) THEN Get(cache, key)
               ELSE <<[key |-> key, value |-> value]>> \o cache)

\* Add replaces the value of a key that is there.
Add(cache, key, value) ==
  RemoveOldest(IF key \in Keys(cache)
               THEN Get([cache EXCEPT ![Place(cache, key)].value = value], key)
               ELSE <<[key |-> key, value |-> value]>> \o cache)
=============================================================================
