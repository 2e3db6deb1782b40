--------------------------- MODULE LpmTreeProofs ----------------------------
(***************************************************************************)
(* Proofs that the linked nodes of the longest-prefix-match tree are what  *)
(* Lpm says of them, for any components, names and bound.                  *)
(*                                                                         *)
(* The methods of a node call themselves on a child, so each is a function *)
(* defined by recursion.  It is first shown to exist, which makes its      *)
(* equation a fact, and what it returns then follows by induction over the *)
(* components that are left.  Induction itself comes from Nat being well-  *)
(* founded.  The inductive invariant Sound says of every node that it hangs*)
(* below nodes with a child table and that count is positive exactly when  *)
(* it has one itself; that nothing else is lost when Delete reclaims a     *)
(* node rests on both.                                                     *)
(***************************************************************************)
EXTENDS LpmTree, Integers, WellFoundedInduction, TLAPS

-----------------------------------------------------------------------------
(* Induction, and the functions that are defined by it *)

LEMMA Induction ==
  ASSUME NEW S, S \subseteq Nat, 0 \in S, \A n \in S : n + 1 \in S
  PROVE  S = Nat
<1>. SUFFICES ASSUME S # Nat PROVE FALSE
  OBVIOUS
<1>. DEFINE R == OpToRel(<, Nat)
            T == Nat \ S
<1>1. \E x \in T : \A y \in T : <<y, x>> \notin R
  <2>1. IsWellFoundedOn(R, Nat) /\ T \subseteq Nat /\ T # {}
    BY NatLessThanWellFounded
  <2>. HIDE DEF R, T
  <2>. QED  BY <2>1, WFMin
<1>2. \A x, y \in Nat : <<y, x>> \in R <=> y < x
  BY DEF OpToRel
<1>. HIDE DEF R
<1>3. PICK n \in T : \A m \in T : <<m, n>> \notin R
  BY <1>1
<1>4. n \in Nat /\ n # 0 /\ n - 1 \in Nat /\ n - 1 < n
  OBVIOUS
<1>5. n - 1 \notin T
  BY <1>2, <1>3, <1>4
<1>. QED  BY <1>4, <1>5

\* What the call for the last "left" components of key makes of the next call, f.
Longest(t, key, f, left) ==
  LET len == Len(key) - left
      val == t[Path(key, len)].val
  IN  IF left = 0 \/ ~HasChild(t, key, len) THEN val
      ELSE IF f[left - 1] = {} THEN val ELSE f[left - 1]

Exact(t, key, f, left) ==
  LET len == Len(key) - left
      n == t[Path(key, len)]
  IN  IF left = 0 THEN n.val
      ELSE IF ~n.open THEN {}
      ELSE IF ~HasChild(t, key, len) THEN n.val
      ELSE f[left - 1]

Deleted(t, key, f, left) ==
  LET len == Len(key) - left
  IN  IF left = 0 THEN [t EXCEPT ![key] = Node({}, @.open, @.count)]
      ELSE IF ~HasChild(t, key, len) THEN t
      ELSE Reclaim(f[left - 1], Path(key, len + 1))

\* The tree that AddOrUpdate has come to with the first len components.
Grown(t, key, f, len) == IF len = 0 THEN t ELSE Grow(f[len - 1], key, len - 1)

\* t with val at key.
Valued(t, key, val) == [t EXCEPT ![key] = Node({val}, @.open, @.count)]

\* FindLongestPrefixMatch is what its recursive calls make it.
LEMMA LongestIs ==
  ASSUME NEW t, NEW key \in Seq(Components)
  PROVE  \E f : /\ FindLongestPrefixMatch(t, key) = f[Len(key)]
                /\ \A left \in 0 .. Len(key) : f[left] = Longest(t, key, f, left)
<1>. DEFINE Is(n, f) == f = [left \in 0 .. n |-> Longest(t, key, f, left)]
            S == {n \in Nat : \E f : Is(n, f)}
            f == CHOOSE g : Is(Len(key), g)
<1>1. 0 \in S
  <2>. DEFINE g == [left \in 0 .. 0 |-> t[Path(key, Len(key) - left)].val]
  <2>1. Is(0, g)
    BY DEF Longest
  <2>. QED  BY <2>1
<1>2. ASSUME NEW n \in S
      PROVE  n + 1 \in S
  <2>1. PICK g : Is(n, g)
    OBVIOUS
  <2>. DEFINE h == [left \in 0 .. n + 1 |->
                     IF left \in 0 .. n THEN g[left] ELSE Longest(t, key, g, left)]
  <2>2. ASSUME NEW left \in 0 .. n + 1
        PROVE  h[left] = Longest(t, key, h, left)
    <3>1. left # 0 => left - 1 \in 0 .. n /\ h[left - 1] = g[left - 1]
      OBVIOUS
    <3>2. h[left] = Longest(t, key, g, left)
      BY <2>1
    <3>. HIDE DEF h
    <3>. QED  BY <3>1, <3>2 DEF Longest
  <2>3. Is(n + 1, h)
    <3>1. h = [left \in 0 .. n + 1 |-> h[left]]
      OBVIOUS
    <3>. HIDE DEF h
    <3>. QED  BY <2>2, <3>1
  <2>. HIDE DEF h, Is
  <2>. QED  BY <2>3
<1>3. \E g : Is(Len(key), g)
  <2>1. Len(key) \in Nat /\ S \subseteq Nat
    OBVIOUS
  <2>. HIDE DEF S
  <2>2. Len(key) \in S
    BY <1>1, <1>2, <2>1, Induction
  <2>. QED  BY <2>2 DEF S
<1>4. Is(Len(key), f)
  <2>. HIDE DEF Is
  <2>. QED  BY <1>3
<1>5. FindLongestPrefixMatch(t, key) = f[Len(key)]
  BY DEF FindLongestPrefixMatch, Longest
<1>. HIDE DEF f
<1>. QED  BY <1>4, <1>5

\* So is FindExactMatch, ...
LEMMA ExactIs ==
  ASSUME NEW t, NEW key \in Seq(Components)
  PROVE  \E f : /\ FindExactMatch(t, key) = f[Len(key)]
                /\ \A left \in 0 .. Len(key) : f[left] = Exact(t, key, f, left)
<1>. DEFINE Is(n, f) == f = [left \in 0 .. n |-> Exact(t, key, f, left)]
            S == {n \in Nat : \E f : Is(n, f)}
            f == CHOOSE g : Is(Len(key), g)
<1>1. 0 \in S
  <2>. DEFINE g == [left \in 0 .. 0 |-> t[Path(key, Len(key) - left)].val]
  <2>1. Is(0, g)
    BY DEF Exact
  <2>. QED  BY <2>1
<1>2. ASSUME NEW n \in S
      PROVE  n + 1 \in S
  <2>1. PICK g : Is(n, g)
    OBVIOUS
  <2>. DEFINE h == [left \in 0 .. n + 1 |->
                     IF left \in 0 .. n THEN g[left] ELSE Exact(t, key, g, left)]
  <2>2. ASSUME NEW left \in 0 .. n + 1
        PROVE  h[left] = Exact(t, key, h, left)
    <3>1. left # 0 => left - 1 \in 0 .. n /\ h[left - 1] = g[left - 1]
      OBVIOUS
    <3>2. h[left] = Exact(t, key, g, left)
      BY <2>1
    <3>. HIDE DEF h
    <3>. QED  BY <3>1, <3>2 DEF Exact
  <2>3. Is(n + 1, h)
    <3>1. h = [left \in 0 .. n + 1 |-> h[left]]
      OBVIOUS
    <3>. HIDE DEF h
    <3>. QED  BY <2>2, <3>1
  <2>. HIDE DEF h, Is
  <2>. QED  BY <2>3
<1>3. \E g : Is(Len(key), g)
  <2>1. Len(key) \in Nat /\ S \subseteq Nat
    OBVIOUS
  <2>. HIDE DEF S
  <2>2. Len(key) \in S
    BY <1>1, <1>2, <2>1, Induction
  <2>. QED  BY <2>2 DEF S
<1>4. Is(Len(key), f)
  <2>. HIDE DEF Is
  <2>. QED  BY <1>3
<1>5. FindExactMatch(t, key) = f[Len(key)]
  BY DEF FindExactMatch, Exact
<1>. HIDE DEF f
<1>. QED  BY <1>4, <1>5

\* ... AddOrUpdate ...
LEMMA GrownIs ==
  ASSUME NEW t, NEW key \in Seq(Components), NEW val
  PROVE  \E f : /\ AddOrUpdate(t, key, val) = Valued(f[Len(key)], key, val)
                /\ \A len \in 0 .. Len(key) : f[len] = Grown(t, key, f, len)
<1>. DEFINE Is(n, f) == f = [len \in 0 .. n |-> Grown(t, key, f, len)]
            S == {n \in Nat : \E f : Is(n, f)}
            f == CHOOSE g : Is(Len(key), g)
<1>1. 0 \in S
  <2>. DEFINE g == [len \in 0 .. 0 |-> t]
  <2>1. Is(0, g)
    BY DEF Grown
  <2>. QED  BY <2>1
<1>2. ASSUME NEW n \in S
      PROVE  n + 1 \in S
  <2>1. PICK g : Is(n, g)
    OBVIOUS
  <2>. DEFINE h == [len \in 0 .. n + 1 |->
                     IF len \in 0 .. n THEN g[len] ELSE Grown(t, key, g, len)]
  <2>2. ASSUME NEW len \in 0 .. n + 1
        PROVE  h[len] = Grown(t, key, h, len)
    <3>1. len # 0 => len - 1 \in 0 .. n /\ h[len - 1] = g[len - 1]
      OBVIOUS
    <3>2. h[len] = Grown(t, key, g, len)
      BY <2>1
    <3>. HIDE DEF h
    <3>. QED  BY <3>1, <3>2 DEF Grown
  <2>3. Is(n + 1, h)
    <3>1. h = [len \in 0 .. n + 1 |-> h[len]]
      OBVIOUS
    <3>. HIDE DEF h
    <3>. QED  BY <2>2, <3>1
  <2>. HIDE DEF h, Is
  <2>. QED  BY <2>3
<1>3. \E g : Is(Len(key), g)
  <2>1. Len(key) \in Nat /\ S \subseteq Nat
    OBVIOUS
  <2>. HIDE DEF S
  <2>2. Len(key) \in S
    BY <1>1, <1>2, <2>1, Induction
  <2>. QED  BY <2>2 DEF S
<1>4. Is(Len(key), f)
  <2>. HIDE DEF Is
  <2>. QED  BY <1>3
<1>5. AddOrUpdate(t, key, val) = Valued(f[Len(key)], key, val)
  BY DEF AddOrUpdate, Valued, Grown
<1>. HIDE DEF f
<1>. QED  BY <1>4, <1>5

\* ... and Delete.
LEMMA DeletedIs ==
  ASSUME NEW t, NEW key \in Seq(Components)
  PROVE  \E f : /\ Delete(t, key) = f[Len(key)]
                /\ \A left \in 0 .. Len(key) : f[left] = Deleted(t, key, f, left)
<1>. DEFINE Is(n, f) == f = [left \in 0 .. n |-> Deleted(t, key, f, left)]
            S == {n \in Nat : \E f : Is(n, f)}
            f == CHOOSE g : Is(Len(key), g)
<1>1. 0 \in S
  <2>. DEFINE g == [left \in 0 .. 0 |-> [t EXCEPT ![key] = Node({}, @.open, @.count)]]
  <2>1. Is(0, g)
    BY DEF Deleted
  <2>. QED  BY <2>1
<1>2. ASSUME NEW n \in S
      PROVE  n + 1 \in S
  <2>1. PICK g : Is(n, g)
    OBVIOUS
  <2>. DEFINE h == [left \in 0 .. n + 1 |->
                     IF left \in 0 .. n THEN g[left] ELSE Deleted(t, key, g, left)]
  <2>2. ASSUME NEW left \in 0 .. n + 1
        PROVE  h[left] = Deleted(t, key, h, left)
    <3>1. left # 0 => left - 1 \in 0 .. n /\ h[left - 1] = g[left - 1]
      OBVIOUS
    <3>2. h[left] = Deleted(t, key, g, left)
      BY <2>1
    <3>. HIDE DEF h
    <3>. QED  BY <3>1, <3>2 DEF Deleted
  <2>3. Is(n + 1, h)
    <3>1. h = [left \in 0 .. n + 1 |-> h[left]]
      OBVIOUS
    <3>. HIDE DEF h
    <3>. QED  BY <2>2, <3>1
  <2>. HIDE DEF h, Is
  <2>. QED  BY <2>3
<1>3. \E g : Is(Len(key), g)
  <2>1. Len(key) \in Nat /\ S \subseteq Nat
    OBVIOUS
  <2>. HIDE DEF S
  <2>2. Len(key) \in S
    BY <1>1, <1>2, <2>1, Induction
  <2>. QED  BY <2>2 DEF S
<1>4. Is(Len(key), f)
  <2>. HIDE DEF Is
  <2>. QED  BY <1>3
<1>5. Delete(t, key) = f[Len(key)]
  BY DEF Delete, Deleted
<1>. HIDE DEF f
<1>. QED  BY <1>4, <1>5

-----------------------------------------------------------------------------
(* Paths *)

LEMMA Paths ==
  ASSUME NEW key \in Seq(Components), NEW len \in 0 .. Len(key)
  PROVE  /\ Path(key, len) \in Seq(Components)
         /\ Len(Path(key, len)) = len
         /\ \A n \in 1 .. len : Path(key, len)[n] = key[n]
BY DEF Path

LEMMA WholePath ==
  ASSUME NEW key \in Seq(Components)
  PROVE  Path(key, Len(key)) = key /\ Path(key, 0) = <<>>
<1>1. Len(key) \in 0 .. Len(key)
  OBVIOUS
<1>. QED  BY <1>1, Paths

LEMMA PathOfPath ==
  ASSUME NEW key \in Seq(Components), NEW len \in 0 .. Len(key), NEW m \in 0 .. len
  PROVE  Path(Path(key, len), m) = Path(key, m)
<1>. DEFINE p == Path(key, len)
            q == Path(p, m)
            r == Path(key, m)
<1>1. p \in Seq(Components) /\ Len(p) = len /\ \A n \in 1 .. len : p[n] = key[n]
  BY Paths
<1>2. q \in Seq(Components) /\ Len(q) = m /\ \A n \in 1 .. m : q[n] = p[n]
  BY <1>1, Paths
<1>3. r \in Seq(Components) /\ Len(r) = m /\ \A n \in 1 .. m : r[n] = key[n]
  BY Paths
<1>4. \A n \in 1 .. m : q[n] = r[n]
  <2>. HIDE DEF p, q, r
  <2>. QED  BY <1>1, <1>2, <1>3
<1>5. q = r
  <2>. HIDE DEF p, q, r
  <2>. QED  BY <1>2, <1>3, <1>4
<1>. QED  BY <1>5

LEMMA PathsDiffer ==
  ASSUME NEW key \in Seq(Components), NEW l \in 0 .. Len(key), NEW m \in 0 .. Len(key),
         Path(key, l) = Path(key, m)
  PROVE  l = m
BY Paths

LEMMA PrefixesArePaths ==
  ASSUME NEW key \in Seq(Components)
  PROVE  /\ Abstract!Prefixes(key) = {Path(key, len) : len \in 0 .. Len(key)}
         /\ Abstract!ProperPrefixes(key) = {Path(key, len) : len \in 0 .. Len(key) - 1}
<1>1. Abstract!Prefixes(key) = {Path(key, len) : len \in 0 .. Len(key)}
  BY DEF Abstract!Prefixes, Path
<1>2. \A len \in 0 .. Len(key) : Path(key, len) = key <=> len = Len(key)
  BY Paths, WholePath
<1>3. Abstract!ProperPrefixes(key) = {Path(key, len) : len \in 0 .. Len(key)} \ {key}
  BY <1>1 DEF Abstract!ProperPrefixes
<1>4. \A len \in 0 .. Len(key) : len # Len(key) <=> len \in 0 .. Len(key) - 1
  OBVIOUS
<1>5. \A len \in 0 .. Len(key) - 1 : len \in 0 .. Len(key)
  OBVIOUS
<1>. QED  BY <1>1, <1>2, <1>3, <1>4, <1>5, Zenon

-----------------------------------------------------------------------------
(* The invariant of a tree: TreeOK, and what a node is *)

NodeOK(t, p) ==
  /\ t[p] = Node(t[p].val, t[p].open, t[p].count)
  /\ t[p].val \in {{}, {p}}
  /\ t[p].open \in BOOLEAN
  /\ t[p].count \in Nat

Counted(t, p) == t[p].open <=> t[p].count > 0

Hangs(t, p) ==
  \A len \in 0 .. Len(p) - 1 : Path(p, len) \in DOMAIN t /\ t[Path(p, len)].open

Sound(t) ==
  /\ <<>> \in DOMAIN t
  /\ DOMAIN t \subseteq Seq(Components)
  /\ \A p \in DOMAIN t :
       NodeOK(t, p) /\ Counted(t, p) /\ Hangs(t, p) /\ (p # <<>> => ~Empty(t[p]))

\* What the callers see of t.
StoredIn(t) == {p \in DOMAIN t : t[p].val # {}}
BranchedIn(t) == {p \in DOMAIN t : t[p].open}

LEMMA SoundImplies == Sound(tree) => TreeOK
BY DEF Sound, Counted, Hangs, TreeOK

LEMMA InitSound == Init => Sound(tree)
<1>. SUFFICES ASSUME Init PROVE Sound(tree)
  OBVIOUS
<1>1. DOMAIN tree = {<<>>} /\ tree[<<>>] = Node({}, FALSE, 0)
  BY DEF Init, Put, EmptyMap, NewNode
<1>2. <<>> \in Seq(Components) /\ Len(<<>>) = 0
  OBVIOUS
<1>3. NodeOK(tree, <<>>) /\ Counted(tree, <<>>)
  BY <1>1 DEF NodeOK, Counted, Node
<1>4. Hangs(tree, <<>>)
  BY <1>2 DEF Hangs
<1>. QED  BY <1>1, <1>2, <1>3, <1>4 DEF Sound

\* A node lies below every node that its path leads through.
LEMMA Above ==
  ASSUME NEW t, Sound(t), NEW key \in Seq(Components),
         NEW l \in 0 .. Len(key), Path(key, l) \in DOMAIN t, NEW m \in 0 .. l - 1
  PROVE  Path(key, m) \in DOMAIN t /\ t[Path(key, m)].open /\ t[Path(key, m)].count > 0
<1>1. Len(Path(key, l)) = l
  BY Paths
<1>2. Path(Path(key, l), m) \in DOMAIN t /\ t[Path(Path(key, l), m)].open
  BY <1>1 DEF Sound, Hangs
<1>3. Path(Path(key, l), m) = Path(key, m)
  BY PathOfPath
<1>. QED  BY <1>2, <1>3 DEF Sound, Counted

LEMMA HasChildIs ==
  ASSUME NEW t, Sound(t), NEW key \in Seq(Components), NEW len \in 0 .. Len(key) - 1
  PROVE  HasChild(t, key, len) <=> Path(key, len + 1) \in DOMAIN t
<1>1. len + 1 \in 0 .. Len(key) /\ len \in 0 .. (len + 1) - 1
  OBVIOUS
<1>2. Path(key, len + 1) \in DOMAIN t => t[Path(key, len)].open
  BY <1>1, Above
<1>. QED  BY <1>2 DEF HasChild

\* The nodes are the root, what is stored, and what has been branched.
LEMMA NodesAre ==
  ASSUME NEW t, Sound(t)
  PROVE  Abstract!Nodes(StoredIn(t), BranchedIn(t)) = DOMAIN t
<1>1. \A p \in DOMAIN t : p = <<>> \/ p \in BranchedIn(t) \/ p \in StoredIn(t)
  BY DEF Sound, Counted, NodeOK, Empty, StoredIn, BranchedIn
<1>2. <<>> \in DOMAIN t /\ BranchedIn(t) \subseteq DOMAIN t /\ StoredIn(t) \subseteq DOMAIN t
  BY DEF Sound, StoredIn, BranchedIn
<1>. QED  BY <1>1, <1>2 DEF Abstract!Nodes

-----------------------------------------------------------------------------
(* The look-ups *)

\* No node of t is on the path of key beyond len.
NoneBelow(t, key, len) == \A m \in len + 1 .. Len(key) : Path(key, m) \notin DOMAIN t

LEMMA StopsAtMissingChild ==
  ASSUME NEW t, Sound(t), NEW key \in Seq(Components), NEW len \in 0 .. Len(key) - 1,
         ~HasChild(t, key, len)
  PROVE  NoneBelow(t, key, len)
<1>. SUFFICES ASSUME NEW m \in len + 1 .. Len(key), Path(key, m) \in DOMAIN t
              PROVE  FALSE
  BY DEF NoneBelow
<1>1. m \in 0 .. Len(key) /\ Path(key, len + 1) \notin DOMAIN t
  BY HasChildIs
<1>2. m # len + 1
  BY <1>1
<1>3. len + 1 \in 0 .. m - 1
  BY <1>2
<1>. QED  BY <1>1, <1>3, Above

\* v is what is stored for the longest of the prefixes of key, from len on, that
\* is stored, or nothing.
IsLongest(t, key, len, v) ==
  \/ /\ v = {}
     /\ \A l \in len .. Len(key) : Path(key, l) \notin StoredIn(t)
  \/ \E m \in len .. Len(key) :
       /\ v = {Path(key, m)} /\ Path(key, m) \in StoredIn(t)
       /\ \A l \in m + 1 .. Len(key) : Path(key, l) \notin StoredIn(t)

LEMMA LongestOnPath ==
  ASSUME NEW t, Sound(t), NEW key \in Seq(Components)
  PROVE  IsLongest(t, key, 0, FindLongestPrefixMatch(t, key))
<1>1. PICK f : /\ FindLongestPrefixMatch(t, key) = f[Len(key)]
               /\ \A left \in 0 .. Len(key) : f[left] = Longest(t, key, f, left)
  BY LongestIs
<1>. DEFINE P(left) == left \in 0 .. Len(key) /\ Path(key, Len(key) - left) \in DOMAIN t
                         => IsLongest(t, key, Len(key) - left, f[left])
            S == {left \in Nat : P(left)}
<1>2. ASSUME NEW l \in 0 .. Len(key), Path(key, l) \in DOMAIN t
      PROVE  \/ t[Path(key, l)].val = {} /\ Path(key, l) \notin StoredIn(t)
             \/ t[Path(key, l)].val = {Path(key, l)} /\ Path(key, l) \in StoredIn(t)
  BY <1>2 DEF Sound, NodeOK, StoredIn
<1>3. ASSUME NEW left \in 0 .. Len(key), Path(key, Len(key) - left) \in DOMAIN t,
             left = 0 \/ ~HasChild(t, key, Len(key) - left)
      PROVE  P(left)
  <2>. DEFINE len == Len(key) - left
  <2>1. len \in 0 .. Len(key)
    OBVIOUS
  <2>2. f[left] = t[Path(key, len)].val
    BY <1>1, <1>3 DEF Longest
  <2>3. NoneBelow(t, key, len)
    <3>1. CASE left = 0
      BY <3>1 DEF NoneBelow
    <3>2. CASE left # 0
      BY <1>3, <3>2, StopsAtMissingChild
    <3>. QED  BY <3>1, <3>2
  <2>4. \A l \in len + 1 .. Len(key) : Path(key, l) \notin StoredIn(t)
    BY <2>3 DEF NoneBelow, StoredIn
  <2>5. \A l \in len .. Len(key) : l = len \/ l \in len + 1 .. Len(key)
    BY <2>1
  <2>6. Path(key, len) \in DOMAIN t /\ len \in len .. Len(key)
    BY <1>3, <2>1
  <2>7. IsLongest(t, key, len, f[left])
    <3>. HIDE DEF len
    <3>. QED  BY <1>2, <2>1, <2>2, <2>4, <2>5, <2>6 DEF IsLongest
  <2>. QED  BY <2>7
<1>4. 0 \in S
  <2>1. Path(key, Len(key) - 0) \in DOMAIN t => P(0)
    BY <1>3
  <2>. QED  BY <2>1
<1>5. ASSUME NEW n \in S
      PROVE  n + 1 \in S
  <2>. SUFFICES ASSUME n + 1 \in 0 .. Len(key), Path(key, Len(key) - (n + 1)) \in DOMAIN t,
                       HasChild(t, key, Len(key) - (n + 1))
                PROVE  IsLongest(t, key, Len(key) - (n + 1), f[n + 1])
    BY <1>3
  <2>. DEFINE len == Len(key) - (n + 1)
  <2>1. len \in 0 .. Len(key) - 1 /\ len + 1 = Len(key) - n /\ n \in 0 .. Len(key)
    OBVIOUS
  <2>2. Path(key, len + 1) \in DOMAIN t
    BY <2>1, HasChildIs
  <2>3. IsLongest(t, key, len + 1, f[n])
    BY <2>1, <2>2
  <2>4. f[n + 1] = Longest(t, key, f, n + 1)
    BY <1>1
  <2>9. f[n + 1] = IF f[n] = {} THEN t[Path(key, len)].val ELSE f[n]
    BY <2>4 DEF Longest
  <2>5. \A l \in len .. Len(key) : l = len \/ l \in len + 1 .. Len(key)
    <3>1. len \in Int /\ Len(key) \in Int
      OBVIOUS
    <3>. HIDE DEF len
    <3>. QED  BY <3>1
  <2>6. len \in len .. Len(key) /\ \A l \in len + 1 .. Len(key) : l \in len .. Len(key)
    BY <2>1
  <2>7. IsLongest(t, key, len, f[n + 1])
    <3>. HIDE DEF len
    <3>1. CASE f[n] = {}
      <4>1. \A l \in len + 1 .. Len(key) : Path(key, l) \notin StoredIn(t)
        BY <2>3, <3>1 DEF IsLongest
      <4>2. len \in 0 .. Len(key) /\ Path(key, len) \in DOMAIN t
        BY <2>1 DEF len
      <4>. QED  BY <1>2, <2>9, <2>5, <2>6, <3>1, <4>1, <4>2 DEF IsLongest
    <3>2. CASE f[n] # {}
      BY <2>3, <2>9, <2>6, <3>2 DEF IsLongest
    <3>. QED  BY <3>1, <3>2
  <2>. QED  BY <2>7
<1>6. P(Len(key))
  <2>1. Len(key) \in Nat /\ S \subseteq Nat
    OBVIOUS
  <2>. HIDE DEF P
  <2>2. \A n \in S : n + 1 \in S
    BY <1>5
  <2>3. S = Nat
    <3>. HIDE DEF S
    <3>. QED  BY <1>4, <2>1, <2>2, Induction
  <2>. QED  BY <2>1, <2>3
<1>7. Len(key) \in 0 .. Len(key) /\ Len(key) - Len(key) = 0 /\ Path(key, 0) \in DOMAIN t
  BY WholePath DEF Sound
<1>. QED  BY <1>1, <1>6, <1>7

LEMMA LongestAgrees ==
  ASSUME NEW t, Sound(t), NEW key \in Seq(Components)
  PROVE  FindLongestPrefixMatch(t, key) = Abstract!FindLongestPrefixMatch(StoredIn(t), key)
<1>. DEFINE v == FindLongestPrefixMatch(t, key)
            P == {Path(key, len) : len \in 0 .. Len(key)} \cap StoredIn(t)
            w == {p \in P : \A q \in P : Len(q) <= Len(p)}
<1>1. IsLongest(t, key, 0, v)
  BY LongestOnPath
<1>2. Abstract!FindLongestPrefixMatch(StoredIn(t), key) = w
  BY PrefixesArePaths DEF Abstract!FindLongestPrefixMatch
<1>3. \A l \in 0 .. Len(key) : Len(Path(key, l)) = l
  BY Paths
<1>4. v = w
  <2>. HIDE DEF v
  <2>1. CASE v = {} /\ \A l \in 0 .. Len(key) : Path(key, l) \notin StoredIn(t)
    BY <2>1
  <2>2. ASSUME NEW m \in 0 .. Len(key), v = {Path(key, m)}, Path(key, m) \in StoredIn(t),
               \A l \in m + 1 .. Len(key) : Path(key, l) \notin StoredIn(t)
        PROVE  v = w
    <3>1. \A l \in 0 .. Len(key) : Path(key, l) \in StoredIn(t) => l <= m
      BY <2>2
    <3>2. \A q \in P : Len(q) <= m
      BY <1>3, <3>1
    <3>3. Path(key, m) \in P /\ Len(Path(key, m)) = m
      BY <1>3, <2>2
    <3>4. Path(key, m) \in w
      BY <3>2, <3>3
    <3>5. ASSUME NEW p \in w
          PROVE  p = Path(key, m)
      <4>1. PICK l \in 0 .. Len(key) : p = Path(key, l) /\ p \in StoredIn(t)
        OBVIOUS
      <4>2. Len(p) = l /\ m <= Len(p)
        BY <1>3, <3>3, <4>1
      <4>3. l = m
        BY <3>1, <4>1, <4>2
      <4>. QED  BY <4>1, <4>3
    <3>. HIDE DEF w
    <3>. QED  BY <2>2, <3>4, <3>5
  <2>. QED  BY <1>1, <2>1, <2>2 DEF IsLongest
<1>. HIDE DEF v, w
<1>5. FindLongestPrefixMatch(t, key) = w
  BY <1>4 DEF v
<1>. QED  BY <1>2, <1>5

\* The walk ends at the last prefix of key that has a node.
EndsAt(t, key, m) == Path(key, m) \in DOMAIN t /\ NoneBelow(t, key, m)

IsExact(t, key, len, v) ==
  \E m \in len .. Len(key) :
    /\ EndsAt(t, key, m)
    /\ v = IF m = Len(key) \/ t[Path(key, m)].open THEN t[Path(key, m)].val ELSE {}

LEMMA ExactOnPath ==
  ASSUME NEW t, Sound(t), NEW key \in Seq(Components)
  PROVE  IsExact(t, key, 0, FindExactMatch(t, key))
<1>1. PICK f : /\ FindExactMatch(t, key) = f[Len(key)]
               /\ \A left \in 0 .. Len(key) : f[left] = Exact(t, key, f, left)
  BY ExactIs
<1>. DEFINE P(left) == left \in 0 .. Len(key) /\ Path(key, Len(key) - left) \in DOMAIN t
                         => IsExact(t, key, Len(key) - left, f[left])
            S == {left \in Nat : P(left)}
<1>2. ASSUME NEW left \in 0 .. Len(key), Path(key, Len(key) - left) \in DOMAIN t,
             left = 0 \/ ~HasChild(t, key, Len(key) - left)
      PROVE  P(left)
  <2>. DEFINE len == Len(key) - left
  <2>1. len \in 0 .. Len(key) /\ len \in len .. Len(key) /\ (left = 0 <=> len = Len(key))
    OBVIOUS
  <2>2. NoneBelow(t, key, len)
    <3>1. CASE left = 0
      BY <3>1 DEF NoneBelow
    <3>2. CASE left # 0
      BY <1>2, <3>2, StopsAtMissingChild
    <3>. QED  BY <3>1, <3>2
  <2>3. f[left] = IF left = 0 \/ t[Path(key, len)].open THEN t[Path(key, len)].val ELSE {}
    BY <1>1, <1>2 DEF Exact
  <2>4. Path(key, len) \in DOMAIN t
    BY <1>2
  <2>5. IsExact(t, key, len, f[left])
    <3>. HIDE DEF len
    <3>. QED  BY <2>1, <2>2, <2>3, <2>4 DEF IsExact, EndsAt
  <2>. QED  BY <2>5
<1>3. 0 \in S
  <2>1. Path(key, Len(key) - 0) \in DOMAIN t => P(0)
    BY <1>2
  <2>. QED  BY <2>1
<1>4. ASSUME NEW n \in S
      PROVE  n + 1 \in S
  <2>. SUFFICES ASSUME n + 1 \in 0 .. Len(key), Path(key, Len(key) - (n + 1)) \in DOMAIN t,
                       HasChild(t, key, Len(key) - (n + 1))
                PROVE  IsExact(t, key, Len(key) - (n + 1), f[n + 1])
    BY <1>2
  <2>. DEFINE len == Len(key) - (n + 1)
  <2>1. len \in 0 .. Len(key) - 1 /\ len + 1 = Len(key) - n /\ n \in 0 .. Len(key)
    OBVIOUS
  <2>2. Path(key, len + 1) \in DOMAIN t
    BY <2>1, HasChildIs
  <2>3. IsExact(t, key, len + 1, f[n])
    BY <2>1, <2>2
  <2>4. f[n + 1] = f[n]
    BY <1>1 DEF Exact, HasChild
  <2>5. \A l \in len + 1 .. Len(key) : l \in len .. Len(key)
    BY <2>1
  <2>6. IsExact(t, key, len, f[n + 1])
    <3>. HIDE DEF len
    <3>. QED  BY <2>3, <2>4, <2>5 DEF IsExact
  <2>. QED  BY <2>6
<1>5. P(Len(key))
  <2>1. Len(key) \in Nat /\ S \subseteq Nat
    OBVIOUS
  <2>. HIDE DEF P
  <2>2. \A n \in S : n + 1 \in S
    BY <1>4
  <2>3. S = Nat
    <3>. HIDE DEF S
    <3>. QED  BY <1>3, <2>1, <2>2, Induction
  <2>. QED  BY <2>1, <2>3
<1>6. Len(key) \in 0 .. Len(key) /\ Len(key) - Len(key) = 0 /\ Path(key, 0) \in DOMAIN t
  BY WholePath DEF Sound
<1>. QED  BY <1>1, <1>5, <1>6

LEMMA ExactAgrees ==
  ASSUME NEW t, Sound(t), NEW key \in Seq(Components)
  PROVE  FindExactMatch(t, key) = Abstract!FindExactMatch(StoredIn(t), BranchedIn(t), key)
<1>. DEFINE v == FindExactMatch(t, key)
            All == {Path(key, len) : len \in 0 .. Len(key)}
            w == {p \in All \cap StoredIn(t) :
                    /\ \A q \in All : Len(q) > Len(p) => q \notin DOMAIN t
                    /\ p = key \/ p \in BranchedIn(t)}
<1>1. PICK m \in 0 .. Len(key) :
        /\ EndsAt(t, key, m)
        /\ v = IF m = Len(key) \/ t[Path(key, m)].open THEN t[Path(key, m)].val ELSE {}
  BY ExactOnPath DEF IsExact
<1>2. Abstract!FindExactMatch(StoredIn(t), BranchedIn(t), key) = w
  BY PrefixesArePaths, NodesAre DEF Abstract!FindExactMatch
<1>3. \A l \in 0 .. Len(key) : Len(Path(key, l)) = l /\ (Path(key, l) = key <=> l = Len(key))
  BY Paths, WholePath
<1>4. Path(key, m) \in DOMAIN t /\ \A l \in 0 .. Len(key) : l > m => Path(key, l) \notin DOMAIN t
  BY <1>1 DEF EndsAt, NoneBelow
<1>5. ASSUME NEW p \in w
      PROVE  p = Path(key, m)
  <2>1. PICK l \in 0 .. Len(key) : p = Path(key, l) /\ p \in DOMAIN t
    BY DEF StoredIn
  <2>2. Path(key, m) \in All /\ Len(Path(key, m)) = m /\ Len(p) = l
    BY <1>3, <2>1
  <2>3. ~(m > l) /\ ~(l > m)
    BY <1>4, <2>1, <2>2
  <2>. QED  BY <2>1, <2>3
<1>6. Path(key, m) \in w <=> /\ t[Path(key, m)].val # {}
                             /\ m = Len(key) \/ t[Path(key, m)].open
  <2>1. Path(key, m) \in All /\ \A q \in All : Len(q) > Len(Path(key, m)) => q \notin DOMAIN t
    BY <1>3, <1>4
  <2>2. Path(key, m) \in StoredIn(t) <=> t[Path(key, m)].val # {}
    BY <1>4 DEF StoredIn
  <2>3. Path(key, m) \in BranchedIn(t) <=> t[Path(key, m)].open
    BY <1>4 DEF BranchedIn
  <2>4. Path(key, m) = key <=> m = Len(key)
    BY <1>3
  <2>. HIDE DEF All
  <2>. QED  BY <2>1, <2>2, <2>3, <2>4
<1>7. t[Path(key, m)].val \in {{}, {Path(key, m)}}
  BY <1>4 DEF Sound, NodeOK
<1>8. v = w
  <2>. HIDE DEF v, w
  <2>1. CASE Path(key, m) \in w
    BY <1>1, <1>5, <1>6, <1>7, <2>1
  <2>2. CASE Path(key, m) \notin w
    BY <1>1, <1>5, <1>6, <1>7, <2>2
  <2>. QED  BY <2>1, <2>2
<1>. HIDE DEF v, w
<1>9. FindExactMatch(t, key) = w
  BY <1>8 DEF v
<1>. QED  BY <1>2, <1>9

-----------------------------------------------------------------------------
(* Deleting *)

\* The value at key is gone.
Cleared(t, key) == [t EXCEPT ![key] = Node({}, @.open, @.count)]

\* Only the node of key itself can be reclaimed: every other one on the way back
\* has a child.
LEMMA DeleteIs ==
  ASSUME NEW t, Sound(t), NEW key \in Seq(Components)
  PROVE  Delete(t, key) = IF key \notin DOMAIN t THEN t
                          ELSE IF key = <<>> THEN Cleared(t, key)
                          ELSE Reclaim(Cleared(t, key), key)
<1>1. PICK f : /\ Delete(t, key) = f[Len(key)]
               /\ \A left \in 0 .. Len(key) : f[left] = Deleted(t, key, f, left)
  BY DeletedIs
<1>2. Path(key, Len(key)) = key /\ Path(key, 0) = <<>> /\ <<>> \in DOMAIN t
  BY WholePath DEF Sound
<1>3. f[0] = Cleared(t, key)
  <2>1. 0 \in 0 .. Len(key)
    OBVIOUS
  <2>2. f[0] = Deleted(t, key, f, 0)
    BY <1>1, <2>1
  <2>. QED  BY <2>2, Zenon DEF Deleted, Cleared
<1>4. CASE key = <<>>
  BY <1>1, <1>2, <1>3, <1>4
<1>5. CASE key # <<>>
  <2>. DEFINE r == IF key \in DOMAIN t THEN Reclaim(Cleared(t, key), key) ELSE t
              S == {n \in Nat : n + 1 \in 0 .. Len(key) => f[n + 1] = r}
  <2>1. Len(key) \in Nat \ {0}
    BY <1>5
  <2>2. 0 \in S
    <3>1. Len(key) - 1 \in 0 .. Len(key) - 1 /\ (Len(key) - 1) + 1 = Len(key)
            /\ 1 \in 0 .. Len(key) /\ 1 - 1 = 0 /\ 1 # 0
      BY <2>1
    <3>2. HasChild(t, key, Len(key) - 1) <=> key \in DOMAIN t
      BY <1>2, <3>1, HasChildIs
    <3>3. f[1] = r
      BY <1>1, <1>2, <1>3, <3>1, <3>2 DEF Deleted
    <3>. QED  BY <3>3
  <2>3. ASSUME NEW n \in S
        PROVE  n + 1 \in S
    <3>. SUFFICES ASSUME (n + 1) + 1 \in 0 .. Len(key)
                  PROVE  f[(n + 1) + 1] = r
      OBVIOUS
    <3>. DEFINE len == Len(key) - (n + 2)
    <3>1. /\ len \in 0 .. Len(key) - 2 /\ len + 1 \in 0 .. Len(key) - 1 /\ len + 1 \in 0 .. Len(key)
          /\ n + 1 \in 0 .. Len(key) /\ n + 2 \in 0 .. Len(key) /\ (n + 2) - 1 = n + 1 /\ n + 2 # 0
      BY <2>1
    <3>2. f[n + 1] = r
      BY <3>1
    <3>3. f[n + 2] = IF ~HasChild(t, key, len) THEN t ELSE Reclaim(r, Path(key, len + 1))
      BY <1>1, <3>1, <3>2 DEF Deleted
    <3>4. HasChild(t, key, len) <=> Path(key, len + 1) \in DOMAIN t
      BY <3>1, HasChildIs
    <3>. DEFINE p == Path(key, len + 1)
    <3>5. CASE key \in DOMAIN t
      <4>1. p \in DOMAIN t /\ t[p].count > 0
        <5>1. Len(key) \in 0 .. Len(key) /\ Path(key, Len(key)) \in DOMAIN t
          BY <1>2, <2>1, <3>5
        <5>. QED  BY <3>1, <5>1, Above
      <4>2. p # key /\ Len(p) = len + 1 /\ Len(p) < Len(key)
        <5>1. Len(p) = len + 1
          BY <3>1, Paths
        <5>2. len + 1 < Len(key)
          BY <2>1, <3>1
        <5>. HIDE DEF p, len
        <5>. QED  BY <2>1, <5>1, <5>2
      <4>3. Cleared(t, key)[p] = t[p]
        BY <4>2 DEF Cleared
      <4>4. r[p] = t[p]
        <5>1. DOMAIN Cleared(t, key) = DOMAIN t
          BY DEF Cleared
        <5>2. p \notin Subtree(Cleared(t, key), key)
          BY <2>1, <3>1, <4>2 DEF Subtree
        <5>3. p \in DOMAIN Cleared(t, key) \ Subtree(Cleared(t, key), key)
          BY <4>1, <5>1, <5>2
        <5>4. Drop(Cleared(t, key), Subtree(Cleared(t, key), key))[p] = Cleared(t, key)[p]
          BY <5>3 DEF Drop
        <5>. QED  BY <3>5, <4>3, <5>4 DEF Reclaim
      <4>5. ~Empty(r[p])
        BY <4>1, <4>4 DEF Empty
      <4>6. Reclaim(r, p) = r
        BY <4>5 DEF Reclaim
      <4>. HIDE DEF r, p
      <4>7. f[n + 2] = r
        BY <3>3, <3>4, <4>1, <4>6 DEF p
      <4>. QED  BY <4>7
    <3>6. CASE key \notin DOMAIN t
      <4>1. r = t
        BY <3>6
      <4>2. p \in DOMAIN t => p # <<>> /\ ~Empty(t[p])
        <5>1. Len(p) = len + 1
          BY <3>1, Paths
        <5>2. p # <<>>
          BY <3>1, <5>1
        <5>. QED  BY <5>2 DEF Sound
      <4>3. p \in DOMAIN t => Reclaim(t, p) = t
        BY <4>2 DEF Reclaim
      <4>. HIDE DEF r, p
      <4>4. f[n + 2] = r
        BY <3>3, <3>4, <4>1, <4>3 DEF p
      <4>. QED  BY <4>4
    <3>. QED  BY <3>5, <3>6
  <2>4. \A n \in S : n + 1 \in S
    BY <2>3
  <2>5. S \subseteq Nat
    OBVIOUS
  <2>6. S = Nat
    <3>. HIDE DEF S
    <3>. QED  BY <2>2, <2>4, <2>5, Induction
  <2>. HIDE DEF r
  <2>7. Len(key) - 1 \in Nat /\ (Len(key) - 1) + 1 \in 0 .. Len(key) /\ (Len(key) - 1) + 1 = Len(key)
    BY <2>1
  <2>8. f[Len(key)] = r
    BY <2>6, <2>7
  <2>9. Delete(t, key) = r
    BY <1>1, <2>8
  <2>. QED  BY <1>5, <2>9 DEF r
<1>. QED  BY <1>4, <1>5

LEMMA DeleteKeeps ==
  ASSUME NEW t, Sound(t), NEW key \in Seq(Components)
  PROVE  /\ Sound(Delete(t, key))
         /\ StoredIn(Delete(t, key)) = StoredIn(t) \ {key}
         /\ BranchedIn(Delete(t, key)) = BranchedIn(t)
<1>1. CASE key \notin DOMAIN t
  <2>1. Delete(t, key) = t
    BY <1>1, DeleteIs
  <2>. QED  BY <1>1, <2>1 DEF StoredIn
<1>2. CASE key \in DOMAIN t
  <2>. DEFINE c == Cleared(t, key)
              d == Delete(t, key)
              gone == key # <<>> /\ t[key].count = 0
  <2>1. /\ DOMAIN c = DOMAIN t
        /\ c[key] = Node({}, t[key].open, t[key].count)
        /\ \A p \in DOMAIN t : p # key => c[p] = t[p]
    BY <1>2 DEF Cleared
  <2>2. Subtree(c, key) = {key} \/ ~gone
    <3>. SUFFICES ASSUME gone PROVE Subtree(c, key) = {key}
      OBVIOUS
    <3>1. key \in Subtree(c, key)
      BY <1>2, <2>1, WholePath DEF Subtree
    <3>2. ASSUME NEW q \in Subtree(c, key), q # key
          PROVE  FALSE
      <4>1. q \in DOMAIN t /\ q \in Seq(Components) /\ Len(q) >= Len(key) /\ Path(q, Len(key)) = key
        BY <2>1 DEF Subtree, Sound
      <4>2. Len(q) # Len(key)
        BY <3>2, <4>1, WholePath
      <4>3. Len(key) \in 0 .. Len(q) - 1 /\ Len(q) \in 0 .. Len(q) /\ Path(q, Len(q)) = q
        BY <4>1, <4>2, WholePath
      <4>4. t[key].count > 0
        BY <4>1, <4>3, Above
      <4>. QED  BY <4>4
    <3>. QED  BY <3>1, <3>2
  <2>3. Empty(c[key]) <=> t[key].count = 0
    BY <2>1 DEF Empty, Node
  <2>4. d = IF gone THEN Drop(c, {key}) ELSE c
    <3>. HIDE DEF c
    <3>1. d = IF key = <<>> THEN c ELSE Reclaim(c, key)
      BY <1>2, DeleteIs DEF c
    <3>. QED  BY <2>2, <2>3, <3>1 DEF Reclaim
  <2>5. /\ DOMAIN d = DOMAIN t \ (IF gone THEN {key} ELSE {})
        /\ \A p \in DOMAIN d : d[p] = c[p]
    <3>. HIDE DEF c, gone
    <3>. QED  BY <2>1, <2>4 DEF Drop
  <2>6. NodeOK(t, key) /\ Counted(t, key) /\ Hangs(t, key)
    BY <1>2 DEF Sound
  <2>7. ASSUME NEW p \in DOMAIN d
        PROVE  /\ p \in DOMAIN t
               /\ d[p].open = t[p].open /\ d[p].count = t[p].count
               /\ d[p].val = IF p = key THEN {} ELSE t[p].val
               /\ d[p] = Node(d[p].val, d[p].open, d[p].count)
    <3>1. p \in DOMAIN t /\ NodeOK(t, p) /\ d[p] = c[p]
      BY <2>5 DEF Sound
    <3>2. CASE p = key
      BY <2>1, <3>1, <3>2 DEF Node
    <3>3. CASE p # key
      BY <2>1, <3>1, <3>3 DEF NodeOK
    <3>. QED  BY <3>1, <3>2, <3>3
  <2>8. gone => ~t[key].open
    BY <2>6 DEF Counted
  <2>9. \A p \in DOMAIN t : t[p].open => p \in DOMAIN d
    BY <2>5, <2>8
  <2>. HIDE DEF c, d
  <2>10. ASSUME NEW p \in DOMAIN d
         PROVE  NodeOK(d, p) /\ Counted(d, p) /\ Hangs(d, p) /\ (p # <<>> => ~Empty(d[p]))
    <3>1. p \in DOMAIN t /\ NodeOK(t, p) /\ Counted(t, p) /\ Hangs(t, p)
            /\ (p # <<>> => ~Empty(t[p]))
      BY <2>7 DEF Sound
    <3>2. NodeOK(d, p) /\ Counted(d, p)
      BY <2>7, <3>1 DEF NodeOK, Counted
    <3>3. Hangs(d, p)
      <4>. SUFFICES ASSUME NEW len \in 0 .. Len(p) - 1
                    PROVE  Path(p, len) \in DOMAIN d /\ d[Path(p, len)].open
        BY DEF Hangs
      <4>1. Path(p, len) \in DOMAIN t /\ t[Path(p, len)].open
        BY <3>1 DEF Hangs
      <4>. QED  BY <2>7, <2>9, <4>1
    <3>4. p # <<>> => ~Empty(d[p])
      <4>1. p = key /\ p # <<>> => t[p].count # 0
        BY <2>5
      <4>. QED  BY <2>7, <3>1, <4>1 DEF Empty
    <3>. QED  BY <3>2, <3>3, <3>4
  <2>11. <<>> \in DOMAIN d /\ DOMAIN d \subseteq Seq(Components)
    BY <2>5 DEF Sound
  <2>12. Sound(d)
    BY <2>10, <2>11 DEF Sound
  <2>13. StoredIn(d) = StoredIn(t) \ {key}
    BY <2>5, <2>7 DEF StoredIn
  <2>14. BranchedIn(d) = BranchedIn(t)
    BY <2>7, <2>9 DEF BranchedIn
  <2>. QED  BY <2>12, <2>13, <2>14 DEF d
<1>. QED  BY <1>1, <1>2

-----------------------------------------------------------------------------
(* Adding *)

\* What t has become when the nodes for the first len components are there.  The
\* last of them, if it is new, has a child table that nothing was put in yet.
IsGrown(t, key, len, g) ==
  /\ DOMAIN g = DOMAIN t \cup {Path(key, l) : l \in 0 .. len}
  /\ \A p \in DOMAIN g :
       /\ NodeOK(g, p)
       /\ g[p].val = IF p \in DOMAIN t THEN t[p].val ELSE {}
  /\ \A p \in DOMAIN g : (p # Path(key, len) \/ p \in DOMAIN t) =>
       /\ Counted(g, p)
       /\ g[p].open <=> \/ p \in DOMAIN t /\ t[p].open
                        \/ \E l \in 0 .. len - 1 : p = Path(key, l)
  /\ Path(key, len) \notin DOMAIN t =>
       (g[Path(key, len)].open <=> len < Len(key)) /\ g[Path(key, len)].count = 0

LEMMA GrowOne ==
  ASSUME NEW t, Sound(t), NEW key \in Seq(Components), NEW len \in 0 .. Len(key) - 1,
         NEW g, IsGrown(t, key, len, g)
  PROVE  IsGrown(t, key, len + 1, Grow(g, key, len))
<1>. DEFINE p == Path(key, len)
            q == Path(key, len + 1)
            h == Grow(g, key, len)
<1>1. /\ len \in 0 .. Len(key) /\ len + 1 \in 0 .. Len(key) /\ len < Len(key)
      /\ \A l : l \in 0 .. len + 1 <=> l \in 0 .. len \/ l = len + 1
      /\ \A l : l \in 0 .. (len + 1) - 1 <=> l \in 0 .. len - 1 \/ l = len
      /\ \A l \in 0 .. len : l \in 0 .. Len(key) /\ l # len + 1
      /\ len \in 0 .. len
  OBVIOUS
<1>2. \A l \in 0 .. len : Path(key, l) # q
  BY <1>1, PathsDiffer
<1>3. p \in DOMAIN g /\ p # q
  BY <1>1, <1>2 DEF IsGrown
<1>4. q \in DOMAIN g <=> q \in DOMAIN t
  BY <1>2 DEF IsGrown
<1>5. \A l \in 0 .. len - 1 : Path(key, l) # p
  BY <1>1, PathsDiffer
<1>6. {Path(key, l) : l \in 0 .. len + 1} = {Path(key, l) : l \in 0 .. len} \cup {q}
  BY <1>1
<1>7. \A x : (\E l \in 0 .. (len + 1) - 1 : x = Path(key, l))
               <=> x = p \/ (\E l \in 0 .. len - 1 : x = Path(key, l))
  BY <1>1
<1>8. q \in Seq(Components)
  BY <1>1, Paths
<1>9. CASE q \in DOMAIN t
  <2>1. p \in DOMAIN t /\ t[p].open
    BY <1>1, <1>9, Above
  <2>2. g[p].open
    BY <1>3, <2>1 DEF IsGrown
  <2>3. h = g
    BY <1>4, <1>9, <2>2 DEF Grow, HasChild
  <2>. HIDE DEF p, q, h
  <2>4. \A x \in DOMAIN g : x \in DOMAIN t \/ x # p
    BY <2>1
  <2>5. IsGrown(t, key, len + 1, g)
    BY <1>2, <1>4, <1>6, <1>7, <1>9, <2>1, <2>4 DEF IsGrown, p, q
  <2>. QED  BY <2>3, <2>5 DEF h
<1>10. CASE q \notin DOMAIN t
  <2>1. h = Put([g EXCEPT ![p] = Node(@.val, TRUE, @.count + 1)], q, NewNode(len + 1 < Len(key)))
    BY <1>4, <1>10 DEF Grow, HasChild
  <2>2. /\ DOMAIN h = DOMAIN g \cup {q}
        /\ h[q] = Node({}, len + 1 < Len(key), 0)
        /\ h[p] = Node(g[p].val, TRUE, g[p].count + 1)
        /\ \A x \in DOMAIN g : x # p => h[x] = g[x]
    <3>. HIDE DEF p, q, h
    <3>. QED  BY <1>3, <1>4, <1>10, <2>1 DEF Put, NewNode
  <2>. HIDE DEF h
  <2>3. DOMAIN h = DOMAIN t \cup {Path(key, l) : l \in 0 .. len + 1}
    <3>. HIDE DEF p, q
    <3>. QED  BY <1>6, <2>2 DEF IsGrown
  <2>. HIDE DEF p, q
  <2>4. NodeOK(g, p) /\ g[p].val = IF p \in DOMAIN t THEN t[p].val ELSE {}
    BY <1>3 DEF IsGrown
  <2>5. NodeOK(h, p) /\ h[p].val = g[p].val /\ h[p].open /\ Counted(h, p)
    BY <2>2, <2>4 DEF NodeOK, Counted, Node
  <2>6. NodeOK(h, q) /\ h[q].val = {} /\ (h[q].open <=> len + 1 < Len(key)) /\ h[q].count = 0
    <3>. DEFINE more == len + 1 < Len(key)
    <3>1. h[q] = Node({}, more, 0) /\ more \in BOOLEAN
      BY <2>2
    <3>. HIDE DEF more
    <3>2. h[q].val = {} /\ h[q].open = more /\ h[q].count = 0
      BY <3>1 DEF Node
    <3>3. h[q] = Node(h[q].val, h[q].open, h[q].count)
      BY <3>1, <3>2, Zenon
    <3>4. h[q].open \in BOOLEAN
      BY <3>1, <3>2, Zenon
    <3>5. NodeOK(h, q)
      BY <3>2, <3>3, <3>4 DEF NodeOK
    <3>. QED  BY <3>2, <3>5, Zenon DEF more
  <2>7. ASSUME NEW x \in DOMAIN h
        PROVE  NodeOK(h, x) /\ h[x].val = IF x \in DOMAIN t THEN t[x].val ELSE {}
    <3>1. CASE x = p
      BY <2>4, <2>5, <3>1
    <3>2. CASE x = q
      BY <1>10, <2>6, <3>2
    <3>3. CASE x # p /\ x # q
      <4>1. x \in DOMAIN g /\ h[x] = g[x]
        BY <2>2, <3>3
      <4>. QED  BY <4>1 DEF IsGrown, NodeOK
    <3>. QED  BY <3>1, <3>2, <3>3
  <2>8. ASSUME NEW x \in DOMAIN h, x # q
        PROVE  /\ Counted(h, x)
               /\ h[x].open <=> \/ x \in DOMAIN t /\ t[x].open
                                \/ x = p \/ (\E l \in 0 .. len - 1 : x = Path(key, l))
    <3>1. CASE x = p
      BY <2>5, <3>1
    <3>2. CASE x # p
      <4>1. x \in DOMAIN g /\ h[x] = g[x]
        BY <2>2, <2>8, <3>2
      <4>. QED  BY <3>2, <4>1 DEF IsGrown, Counted, p
    <3>. QED  BY <3>1, <3>2
  <2>9. IsGrown(t, key, len + 1, h)
    BY <1>7, <1>10, <2>3, <2>6, <2>7, <2>8 DEF IsGrown, q
  <2>. QED  BY <2>9 DEF h
<1>. QED  BY <1>9, <1>10

LEMMA GrownToKey ==
  ASSUME NEW t, Sound(t), NEW key \in Seq(Components), NEW val
  PROVE  \E g : /\ AddOrUpdate(t, key, val) = Valued(g, key, val)
                /\ IsGrown(t, key, Len(key), g)
<1>1. PICK f : /\ AddOrUpdate(t, key, val) = Valued(f[Len(key)], key, val)
               /\ \A len \in 0 .. Len(key) : f[len] = Grown(t, key, f, len)
  BY GrownIs
<1>. DEFINE S == {n \in Nat : n \in 0 .. Len(key) => IsGrown(t, key, n, f[n])}
<1>2. 0 \in S
  <2>1. 0 \in 0 .. Len(key)
    OBVIOUS
  <2>2. f[0] = Grown(t, key, f, 0)
    BY <1>1, <2>1
  <2>3. f[0] = t
    BY <2>2, Zenon DEF Grown
  <2>4. Path(key, 0) = <<>> /\ <<>> \in DOMAIN t
    BY WholePath DEF Sound
  <2>5. DOMAIN t = DOMAIN t \cup {Path(key, l) : l \in 0 .. 0}
    <3>1. \A l \in 0 .. 0 : l = 0
      OBVIOUS
    <3>. QED  BY <2>4, <3>1
  <2>6. \A l \in 0 .. 0 - 1 : FALSE
    OBVIOUS
  <2>7. IsGrown(t, key, 0, t)
    BY <2>4, <2>5, <2>6 DEF IsGrown, Sound
  <2>. QED  BY <2>3, <2>7
<1>3. ASSUME NEW n \in S
      PROVE  n + 1 \in S
  <2>. SUFFICES ASSUME n + 1 \in 0 .. Len(key)
                PROVE  IsGrown(t, key, n + 1, f[n + 1])
    OBVIOUS
  <2>1. n \in 0 .. Len(key) /\ n \in 0 .. Len(key) - 1 /\ n + 1 # 0 /\ (n + 1) - 1 = n
    OBVIOUS
  <2>2. IsGrown(t, key, n, f[n])
    BY <2>1
  <2>3. f[n + 1] = Grow(f[n], key, n)
    BY <1>1, <2>1 DEF Grown
  <2>4. IsGrown(t, key, n + 1, Grow(f[n], key, n))
    BY <2>1, <2>2, GrowOne
  <2>. QED  BY <2>3, <2>4
<1>4. IsGrown(t, key, Len(key), f[Len(key)])
  <2>1. Len(key) \in Nat /\ Len(key) \in 0 .. Len(key) /\ S \subseteq Nat
    OBVIOUS
  <2>2. \A n \in S : n + 1 \in S
    BY <1>3
  <2>3. S = Nat
    <3>. HIDE DEF S
    <3>. QED  BY <1>2, <2>1, <2>2, Induction
  <2>. QED  BY <2>1, <2>3
<1>. QED  BY <1>1, <1>4

LEMMA AddKeeps ==
  ASSUME NEW t, Sound(t), NEW key \in Seq(Components)
  PROVE  LET a == AddOrUpdate(t, key, key)
         IN  /\ Sound(a)
             /\ StoredIn(a) = StoredIn(t) \cup {key}
             /\ BranchedIn(a) = BranchedIn(t) \cup Abstract!ProperPrefixes(key)
<1>. DEFINE a == AddOrUpdate(t, key, key)
            On(p) == \E l \in 0 .. Len(key) - 1 : p = Path(key, l)
<1>1. PICK g : /\ a = Valued(g, key, key)
               /\ IsGrown(t, key, Len(key), g)
  BY GrownToKey
<1>2. Path(key, Len(key)) = key /\ Len(key) \in 0 .. Len(key) /\ ~(Len(key) < Len(key))
        /\ (\A l \in 0 .. Len(key) : l = Len(key) \/ l \in 0 .. Len(key) - 1)
        /\ \A l \in 0 .. Len(key) - 1 : l \in 0 .. Len(key)
  BY WholePath
<1>3. DOMAIN g = DOMAIN t \cup {Path(key, l) : l \in 0 .. Len(key)}
  BY <1>1 DEF IsGrown
<1>4. key \in DOMAIN g
  BY <1>2, <1>3
<1>5. ~On(key)
  <2>. SUFFICES ASSUME NEW l \in 0 .. Len(key) - 1, key = Path(key, l)
                PROVE  FALSE
    OBVIOUS
  <2>1. Len(Path(key, l)) = l
    BY <1>2, Paths
  <2>. QED  BY <2>1
<1>. HIDE DEF a
<1>6. /\ DOMAIN a = DOMAIN g
      /\ a[key] = Node({key}, g[key].open, g[key].count)
      /\ \A p \in DOMAIN g : p # key => a[p] = g[p]
  BY <1>1, <1>4 DEF Valued
<1>7. ASSUME NEW p \in DOMAIN g
      PROVE  /\ NodeOK(g, p) /\ Counted(g, p)
             /\ (g[p].open <=> (p \in DOMAIN t /\ t[p].open) \/ On(p))
             /\ g[p].val = IF p \in DOMAIN t THEN t[p].val ELSE {}
  <2>1. NodeOK(g, p) /\ g[p].val = IF p \in DOMAIN t THEN t[p].val ELSE {}
    BY <1>1 DEF IsGrown
  <2>2. CASE p # key \/ p \in DOMAIN t
    BY <1>1, <1>2, <2>1, <2>2 DEF IsGrown
  <2>3. CASE p = key /\ p \notin DOMAIN t
    <3>1. ~g[p].open /\ g[p].count = 0
      BY <1>1, <1>2, <2>3 DEF IsGrown
    <3>2. ~On(p)
      BY <1>5, <2>3
    <3>. QED  BY <2>1, <2>3, <3>1, <3>2 DEF Counted
  <2>. QED  BY <2>2, <2>3
<1>8. ASSUME NEW p \in DOMAIN a
      PROVE  /\ NodeOK(a, p) /\ Counted(a, p)
             /\ a[p].open <=> (p \in DOMAIN t /\ t[p].open) \/ On(p)
             /\ a[p].val = IF p = key THEN {key} ELSE IF p \in DOMAIN t THEN t[p].val ELSE {}
  <2>. HIDE DEF On
  <2>1. CASE p = key
    <3>1. a[p] = Node({p}, g[p].open, g[p].count)
      BY <1>6, <2>1
    <3>. QED  BY <1>4, <1>7, <2>1, <3>1 DEF NodeOK, Counted, Node
  <2>2. CASE p # key
    BY <1>6, <1>7, <2>2 DEF NodeOK, Counted
  <2>. QED  BY <2>1, <2>2
<1>9. \A p : On(p) => p \in DOMAIN a
  BY <1>2, <1>3, <1>6
<1>10. \A p : p \in DOMAIN a <=> p \in DOMAIN t \/ p = key \/ On(p)
  BY <1>2, <1>3, <1>6
<1>11. ASSUME NEW p \in DOMAIN a
       PROVE  Hangs(a, p)
  <2>. SUFFICES ASSUME NEW m \in 0 .. Len(p) - 1
                PROVE  Path(p, m) \in DOMAIN a /\ a[Path(p, m)].open
    BY DEF Hangs
  <2>1. CASE p \in DOMAIN t
    <3>1. Path(p, m) \in DOMAIN t /\ t[Path(p, m)].open
      BY <2>1 DEF Sound, Hangs
    <3>. QED  BY <1>8, <1>10, <3>1
  <2>2. CASE p = key \/ On(p)
    <3>1. PICK l \in 0 .. Len(key) : p = Path(key, l)
      BY <1>2, <2>2
    <3>2. Len(p) = l
      BY <3>1, Paths
    <3>3. Path(p, m) = Path(key, m) /\ m \in 0 .. Len(key) - 1
      BY <3>1, <3>2, PathOfPath
    <3>4. On(Path(p, m))
      BY <3>3
    <3>. QED  BY <1>8, <1>9, <3>4
  <2>. QED  BY <1>10, <2>1, <2>2
<1>12. ASSUME NEW p \in DOMAIN a, p # <<>>, Empty(a[p])
       PROVE  FALSE
  <2>. HIDE DEF On
  <2>1. a[p].val = {} /\ ~a[p].open
    BY <1>8, <1>12 DEF Empty, Counted
  <2>2. p # key /\ p \in DOMAIN t /\ t[p].val = {} /\ ~t[p].open
    BY <1>8, <1>10, <2>1
  <2>. QED  BY <1>12, <2>2 DEF Sound, Counted, NodeOK, Empty
<1>13. <<>> \in DOMAIN a /\ DOMAIN a \subseteq Seq(Components)
  BY <1>2, <1>3, <1>6, Paths DEF Sound
<1>14. Sound(a)
  BY <1>8, <1>11, <1>12, <1>13 DEF Sound
<1>15. StoredIn(a) = StoredIn(t) \cup {key}
  <2>. HIDE DEF On
  <2>1. key \in DOMAIN a /\ \A p \in DOMAIN t : p \in DOMAIN a
    BY <1>10
  <2>. QED  BY <1>8, <2>1 DEF StoredIn
<1>16. BranchedIn(a) = BranchedIn(t) \cup {p \in DOMAIN a : On(p)}
  <2>. HIDE DEF On
  <2>. QED  BY <1>8, <1>10 DEF BranchedIn
<1>17. {p \in DOMAIN a : On(p)} = Abstract!ProperPrefixes(key)
  BY <1>9, PrefixesArePaths
<1>. QED  BY <1>14, <1>15, <1>16, <1>17 DEF a

-----------------------------------------------------------------------------
(* The theorems *)

LEMMA Views == Stored = StoredIn(tree) /\ Branched = BranchedIn(tree)
BY DEF Stored, StoredIn, Branched, BranchedIn

LEMMA Step ==
  ASSUME Sound(tree), [Next]_tree
  PROVE  Sound(tree)' /\ [Abstract!Next]_<<Stored, Branched>>
<1>1. ASSUME NEW key \in Keys, Add(key)
      PROVE  Sound(tree)' /\ Abstract!Add(key)
  <2>1. key \in Seq(Components)
    BY KeysAssumption
  <2>2. tree' = AddOrUpdate(tree, key, key)
    BY <1>1 DEF Add
  <2>3. /\ Sound(tree')
        /\ StoredIn(tree') = StoredIn(tree) \cup {key}
        /\ BranchedIn(tree') = BranchedIn(tree) \cup Abstract!ProperPrefixes(key)
    BY <2>1, <2>2, AddKeeps
  <2>4. Stored' = StoredIn(tree') /\ Branched' = BranchedIn(tree')
    BY DEF Stored, StoredIn, Branched, BranchedIn
  <2>. QED  BY <2>3, <2>4, Views DEF Abstract!Add, Abstract!BranchesOf
<1>2. ASSUME NEW key \in Keys, Remove(key)
      PROVE  Sound(tree)' /\ Abstract!Remove(key)
  <2>1. key \in Seq(Components)
    BY KeysAssumption
  <2>2. tree' = Delete(tree, key)
    BY <1>2 DEF Remove
  <2>3. /\ Sound(tree')
        /\ StoredIn(tree') = StoredIn(tree) \ {key}
        /\ BranchedIn(tree') = BranchedIn(tree)
    BY <2>1, <2>2, DeleteKeeps
  <2>4. Stored' = StoredIn(tree') /\ Branched' = BranchedIn(tree')
    BY DEF Stored, StoredIn, Branched, BranchedIn
  <2>. QED  BY <2>3, <2>4, Views DEF Abstract!Remove
<1>3. CASE UNCHANGED tree
  BY <1>3 DEF Stored, Branched
<1>. QED  BY <1>1, <1>2, <1>3 DEF Next, Abstract!Next

LEMMA InitStep == Init => Abstract!Init
BY DEF Init, Abstract!Init, Put, EmptyMap, NewNode, Node, Stored, Branched

LEMMA Invariance == Spec => []Sound(tree)
<1>1. Sound(tree) /\ [Next]_tree => Sound(tree)'
  BY Step
<1>. QED  BY <1>1, InitSound, PTL DEF Spec

\* However names are added and deleted, count tells whether a node has children,
\* a node is reached through the child tables of all those above it, and no
\* deletion leaves a node without value and child behind.
THEOREM TreeIsOK == Spec => []TreeOK
BY Invariance, SoundImplies, PTL

\* For every name, the walk down the nodes finds what the set of stored names
\* has as the longest prefix, and the exact match with its early ends finds what
\* the two sets of names predict.
THEOREM LookupsAgree == Spec => []AnswersAgree
<1>1. Sound(tree) => AnswersAgree
  BY KeysAssumption, LongestAgrees, ExactAgrees, Views DEF AnswersAgree
<1>. QED  BY <1>1, Invariance, PTL

\* Adding a name that must make nodes on the way, and deleting one with the nodes
\* it leaves empty, adds and deletes that name and no other.
THEOREM TreeImplementsNames == Spec => ImplementsAbstractTree
<1>1. Sound(tree) /\ [Next]_tree => [Abstract!Next]_<<Stored, Branched>>
  BY Step
<1>. QED
  BY <1>1, InitStep, Invariance, PTL DEF Spec, ImplementsAbstractTree, Abstract!Spec, Abstract!vars
=============================================================================
