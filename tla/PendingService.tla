-------------------------- MODULE PendingService ---------------------------
(***************************************************************************)
(* What a router promises its neighbours about content requests, without   *)
(* tables, timers or routes.  A face that asks for a name is owed the data *)
(* for as long as its interest lives.  Data that arrives, unless it has    *)
(* been on its way for too long, goes exactly to the other faces then owed *)
(* it, and settles what they are owed, so nobody waits on for data that    *)
(* came, or gets data it did not ask for, twice, or late.  What is owed is *)
(* given up only on time, on an interest that cannot be routed, or on a    *)
(* Nack.                                                                   *)
(***************************************************************************)
EXTENDS Naturals, Lpm

CONSTANTS Names, Faces, Nonces, Lifetimes

VARIABLES
  owed,    \* time left to answer the interest of a face for a name, 0 if none
  recv,    \* the packet handled in the last step, if any
  sent     \* the packets handed to faces in the last step

vars == <<owed, recv, sent>>

Interest(f, n, x) == [kind |-> "interest", face |-> f, name |-> n, nonce |-> x]
Nack(f, n, x)     == [kind |-> "nack", face |-> f, name |-> n, nonce |-> x]
Data(f, n)        == [kind |-> "data", face |-> f, name |-> n]
SpentData(f, n)   == [kind |-> "spentData", face |-> f, name |-> n]

Init ==
  /\ owed = [f \in Faces |-> [n \in Names |-> 0]]
  /\ recv = {}
  /\ sent = {}

NobodyIsOwed(m) == \A g \in Faces : owed[g][m] = 0

\* Nobody is owed m any more.
Settle(m) == owed' = [f \in Faces |-> [owed[f] EXCEPT ![m] = 0]]

\* The interest is taken on; at most one copy of it is passed on, elsewhere.
Accept(f, n, x) ==
  /\ recv' = {Interest(f, n, x)}
  /\ \E life \in Lifetimes : owed' = [owed EXCEPT ![f][n] = life]
  /\ sent' = {} \/ \E g \in Faces \ {f} : sent' = {Interest(g, n, x)}

\* The interest is turned back; for want of a route the name is given up.
Refuse(f, n, x) ==
  /\ recv' = {Interest(f, n, x)}
  /\ sent' = {Nack(f, n, x)}
  /\ UNCHANGED owed \/ Settle(n)

\* The interest is answered at once; that happens only if nobody waits for it.
Reply(f, n, x) ==
  /\ NobodyIsOwed(n)
  /\ recv' = {Interest(f, n, x)}
  /\ sent' = {Data(f, n)}
  /\ UNCHANGED owed

\* Data n answers the requests for m, the longest prefix of its name that
\* somebody is owed, and so the requests for n itself if there are any.
Answer(f, n) ==
  /\ recv' = {Data(f, n)}
  /\ \E m \in Prefixes(n) \cap Names :
       /\ \A k \in Prefixes(n) \cap Names : Len(k) > Len(m) => NobodyIsOwed(k)
       /\ sent' = {Data(g, n) : g \in {h \in Faces \ {f} : owed[h][m] > 0}}
       /\ Settle(m)

\* Data that nobody is owed under its own name may be passed over.
IgnoreData(f, n) ==
  /\ NobodyIsOwed(n)
  /\ recv' = {Data(f, n)}
  /\ sent' = {}
  /\ UNCHANGED owed

DropSpentData(f, n) ==
  /\ recv' = {SpentData(f, n)}
  /\ sent' = {}
  /\ UNCHANGED owed

\* A Nack is kept, passed on, or ends the waiting for m.
HandleNack(f, n, x) ==
  /\ recv' = {Nack(f, n, x)}
  /\ \E m \in Prefixes(n) \cap Names :
       /\ \A p \in sent' : \E g \in Faces \ {f}, y \in Nonces : p = Nack(g, m, y)
       /\ UNCHANGED owed \/ Settle(m)

Elapse(d) == IF d = 0 THEN 0 ELSE d - 1

Internal ==
  /\ recv' = {}
  /\ sent' = {}
  /\ \/ UNCHANGED owed
     \/ owed' = [f \in Faces |-> [n \in Names |-> Elapse(owed[f][n])]]

Next ==
  \/ \E f \in Faces, n \in Names :
       \/ \E x \in Nonces : Accept(f, n, x) \/ Refuse(f, n, x) \/ Reply(f, n, x)
       \/ Answer(f, n)
       \/ IgnoreData(f, n)
       \/ DropSpentData(f, n)
       \/ \E x \in Nonces : HandleNack(f, n, x)
  \/ Internal

Spec == Init /\ [][Next]_vars
=============================================================================
