------------------------------ MODULE LpmTree -------------------------------
(***************************************************************************)
(* The linked nodes of daemon/table/Lpm.go.  A node has a value, a child   *)
(* table that is nil until the first child is added, and a counter of the  *)
(* children ever added.  The value stored for a name is the entry of that  *)
(* name, so the name itself stands for it.                                 *)
(*                                                                         *)
(* A node hangs below one other, so the path to it stands for its address: *)
(* the child that the table of the node at p has for a component is the    *)
(* node at p followed by that component.  A method that calls itself on a  *)
(* child with key[1:] is a function of the length of the key it is given.  *)
(***************************************************************************)
EXTENDS Naturals, Sequences, Maps

CONSTANTS
  Components, \* what names are made of
  Keys,       \* the names the caller adds, updates, deletes and looks up
  MaxCount    \* bound on node.count, which the code only ever increments

ASSUME KeysAssumption == Keys \subseteq Seq(Components)
ASSUME MaxCountAssumption == MaxCount \in Nat \ {0}

VARIABLE tree   \* the nodes that the root leads to: path -> node

\* A value is {} (nil) or {key}: the form in which the look-ups return it.
Node(val, open, count) == [val |-> val, open |-> open, count |-> count]

\* &node{table: nil} and &node{table: new(sync.Map)}
NewNode(open) == Node({}, open, 0)

Empty(n) == n.val = {} /\ n.count = 0

Path(key, len) == SubSeq(key, 1, len)

\* The node at the first len components has a child for the next one.
HasChild(t, key, len) == t[Path(key, len)].open /\ Path(key, len + 1) \in DOMAIN t

-----------------------------------------------------------------------------
FindLongestPrefixMatch(t, key) ==
  LET find[left \in 0 .. Len(key)] ==
        LET len == Len(key) - left
            val == t[Path(key, len)].val
        IN  IF left = 0 \/ ~HasChild(t, key, len) THEN val
            ELSE IF find[left - 1] = {} THEN val ELSE find[left - 1]
  IN  find[Len(key)]

\* Seeded fault: a missing child is answered "not found" at once.
FindExactMatch_StopsAtMissingChild(t, key) ==
  IF key \in DOMAIN t THEN t[key].val ELSE {}

FindExactMatch(t, key) ==
  LET find[left \in 0 .. Len(key)] ==
        LET len == Len(key) - left
            n == t[Path(key, len)]
        IN  IF left = 0 THEN n.val
            ELSE IF ~n.open THEN {}
            ELSE IF ~HasChild(t, key, len) THEN n.val
            ELSE find[left - 1]
  IN  find[Len(key)]

-----------------------------------------------------------------------------
\* Seeded fault: a new child is not counted.
Grow_Uncounted(t, key, len) ==
  IF HasChild(t, key, len) THEN t
  ELSE Put([t EXCEPT ![Path(key, len)].open = TRUE],
           Path(key, len + 1), NewNode(len + 1 < Len(key)))

\* The child for the next component, created if it is missing.
Grow(t, key, len) ==
  IF HasChild(t, key, len) THEN t
  ELSE Put([t EXCEPT ![Path(key, len)] = Node(@.val, TRUE, @.count + 1)],
           Path(key, len + 1), NewNode(len + 1 < Len(key)))

AddOrUpdate(t, key, val) ==
  LET grow[len \in 0 .. Len(key)] ==
        IF len = 0 THEN t ELSE Grow(grow[len - 1], key, len - 1)
      grown == grow[Len(key)]
  IN  [grown EXCEPT ![key] = Node({val}, @.open, @.count)]

\* The node at p and what hangs below it.
Subtree(t, p) == {q \in DOMAIN t : Len(q) >= Len(p) /\ Path(q, Len(p)) = p}

\* Seeded fault: the node goes although names below it are still stored.
Reclaim_Subtree(t, p) == IF t[p].val = {} THEN Drop(t, Subtree(t, p)) ELSE t

\* After the recursive call an empty child is taken out; count is left alone.
Reclaim(t, p) == IF Empty(t[p]) THEN Drop(t, Subtree(t, p)) ELSE t

Delete(t, key) ==
  LET delete[left \in 0 .. Len(key)] ==
        LET len == Len(key) - left
        IN  IF left = 0 THEN [t EXCEPT ![key] = Node({}, @.open, @.count)]
            ELSE IF ~HasChild(t, key, len) THEN t
            ELSE Reclaim(delete[left - 1], Path(key, len + 1))
  IN  delete[Len(key)]

-----------------------------------------------------------------------------
Init == tree = Put(EmptyMap, <<>>, NewNode(FALSE))

Add(key) ==
  /\ tree' = AddOrUpdate(tree, key, key)
  /\ \A p \in DOMAIN tree' : tree'[p].count <= MaxCount

Remove(key) == tree' = Delete(tree, key)

Next == \E key \in Keys : Add(key) \/ Remove(key)

Spec == Init /\ [][Next]_tree

-----------------------------------------------------------------------------
(* Properties *)

\* A node has a child table exactly when it ever had a child, which is when
\* count is positive, and every node above a node has one: this makes "count"
\* a safe witness for "has no children" in empty().  No deletion leaves a node
\* behind that has no value and never had a child.
TreeOK ==
  \A p \in DOMAIN tree :
    /\ tree[p].open <=> tree[p].count > 0
    /\ \A len \in 0 .. Len(p) - 1 :
         Path(p, len) \in DOMAIN tree /\ tree[Path(p, len)].open
    /\ p # <<>> => ~Empty(tree[p])

Stored == {p \in DOMAIN tree : tree[p].val # {}}
Branched == {p \in DOMAIN tree : tree[p].open}

Abstract == INSTANCE LpmSpec WITH stored <- Stored, branched <- Branched

\* After any sequence of additions and deletions both look-ups answer, for every
\* name, what the two sets of names predict.
AnswersAgree ==
  \A key \in Keys :
    /\ FindLongestPrefixMatch(tree, key) = Abstract!FindLongestPrefixMatch(Stored, key)
    /\ FindExactMatch(tree, key) = Abstract!FindExactMatch(Stored, Branched, key)

\* Adding and deleting on the linked nodes adds and deletes the name, and only
\* that name: the tree never loses a value stored under another name.
ImplementsAbstractTree == Abstract!Spec

=============================================================================
