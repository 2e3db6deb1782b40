-------------------------- MODULE ForwarderProofs ---------------------------
(***************************************************************************)
(* Proofs that Forwarder keeps its safety invariants, for any names, faces,*)
(* nonces, lifetimes, costs and content store capacity.                    *)
(*                                                                         *)
(* Most invariants speak of one PIT entry and its timer, so the inductive  *)
(* invariant is a property EntryInv of each (entry, timer) pair, and every *)
(* handler does one of three things to the pairs: it renews one pair       *)
(* (lemma Renewed), makes one expire (lemma Expired), or marks one.        *)
(***************************************************************************)
EXTENDS Forwarder, FiniteSetTheorems, SequenceTheorems, TLAPS

OnePending(out) ==
  \A g, h \in DOMAIN out :
    (\A k \in {g, h} : out[k].exp > 0 /\ ~out[k].nacked) => g = h

DistinctNonces(in) ==
  \A g, h \in DOMAIN in : in[g].nonce = in[h].nonce => g = h

CoveredBy(in, d) ==
  /\ \E f \in DOMAIN in : in[f].exp = d
  /\ \A f \in DOMAIN in : in[f].exp <= d

EntryInv(e, d) ==
  /\ IsPITEntry(e)
  /\ CoveredBy(e.in, d)
  /\ DOMAIN e.out # {}
  /\ OnePending(e.out)
  /\ DistinctNonces(e.in)

PITInv ==
  /\ HasKeysIn(pit, Names)
  /\ HasKeysIn(timer, Names)
  /\ DOMAIN timer = DOMAIN pit
  /\ \A n \in DOMAIN pit : timer[n] \in Time /\ EntryInv(pit[n], timer[n])

CSInv ==
  /\ cs \subseteq Names
  /\ IsFiniteSet(cs)
  /\ Cardinality(cs) <= CSSize

FIBInv ==
  /\ HasKeysIn(fib, Routes)
  /\ \A p \in DOMAIN fib : IsMap(fib[p], NextHopFaces, Costs)

IOInv ==
  /\ alive \in BOOLEAN
  /\ recv \subseteq Packets
  /\ sent \subseteq Packets

IInv == PITInv /\ CSInv /\ FIBInv /\ IOInv /\ PendingIsNotCached

-----------------------------------------------------------------------------
(* Time and maps *)

LEMMA TimeIsNat == MaxLifetime \in Nat /\ Time \subseteq Nat /\ Lifetimes \subseteq Time \ {0}
BY LifetimesAssumption DEF Time

\* One tick keeps a duration in range and keeps the order of two durations.
LEMMA ElapseProperties ==
  ASSUME NEW d \in Time
  PROVE  /\ Elapse(d) \in Time
         /\ Elapse(d) <= d
         /\ \A b \in Time : b <= d => Elapse(b) <= Elapse(d)
BY TimeIsNat DEF Elapse, Time

LEMMA PutProperties ==
  ASSUME NEW S, NEW m, HasKeysIn(m, S), NEW k \in S, NEW v
  PROVE  /\ HasKeysIn(Put(m, k, v), S)
         /\ DOMAIN Put(m, k, v) = DOMAIN m \cup {k}
         /\ Put(m, k, v)[k] = v
         /\ \A x \in DOMAIN m \ {k} : Put(m, k, v)[x] = m[x]
BY DEF HasKeysIn, Put

LEMMA PutIsMap ==
  ASSUME NEW S, NEW T, NEW m, IsMap(m, S, T), NEW k \in S, NEW v \in T
  PROVE  /\ IsMap(Put(m, k, v), S, T)
         /\ DOMAIN Put(m, k, v) = DOMAIN m \cup {k}
         /\ Put(m, k, v)[k] = v
         /\ \A x \in DOMAIN m \ {k} : Put(m, k, v)[x] = m[x]
BY PutProperties DEF IsMap

LEMMA EmptyMapProperties ==
  /\ DOMAIN EmptyMap = {}
  /\ \A S : HasKeysIn(EmptyMap, S)
BY DEF EmptyMap, HasKeysIn

-----------------------------------------------------------------------------
(* The tree's look-up *)

\* The whole name is its only prefix of full length.
LEMMA FullPrefix ==
  ASSUME NEW n \in Names
  PROVE  /\ Len(n) \in Nat
         /\ n \in Prefixes(n)
         /\ \A m \in Prefixes(n) : Len(m) \in Nat /\ Len(m) <= Len(n)
         /\ \A m \in Prefixes(n) : Len(n) <= Len(m) => m = n
<1> DEFINE L == Len(n)
<1>1. n \in Seq(Components)
  BY NamesAssumption
<1>2. L \in Nat /\ SubSeq(n, 1, L) = n
  BY <1>1, SubSeqFull, LenProperties
<1>3. \A len \in 0 .. L : Len(SubSeq(n, 1, len)) = len
  <2> TAKE len \in 0 .. L
  <2>1. \A i \in 1 .. len : n[i] \in Components
    BY <1>1, <1>2, ElementOfSeq
  <2> QED BY <1>2, <2>1, SubSeqProperties
<1> HIDE DEF L
<1>4. L \in 0 .. L /\ \A len \in 0 .. L : len \in Nat /\ len <= L /\ (L <= len => len = L)
  BY <1>2
<1>5. Prefixes(n) = {SubSeq(n, 1, len) : len \in 0 .. L}
  BY DEF Prefixes, L
<1>6. n \in Prefixes(n)
  BY <1>2, <1>4, <1>5
<1>7. ASSUME NEW m \in Prefixes(n)
      PROVE  Len(m) \in Nat /\ Len(m) <= L /\ (L <= Len(m) => m = n)
  <2>1. PICK len \in 0 .. L : m = SubSeq(n, 1, len)
    BY <1>5
  <2>2. Len(m) = len
    BY <1>3, <2>1
  <2> QED BY <1>2, <1>4, <2>1, <2>2
<1> QED BY <1>2, <1>6, <1>7 DEF L

\* A pending name is found as itself, and a look-up that finds nothing was for
\* a name that is not pending.
LEMMA PITMatchProperties ==
  ASSUME NEW n \in Names
  PROVE  /\ PITMatch(n) \subseteq DOMAIN pit
         /\ n \in DOMAIN pit => PITMatch(n) = {n}
<1>1. PITMatch(n) \subseteq DOMAIN pit
  BY DEF PITMatch, FindExactMatch
<1>2. ASSUME n \in DOMAIN pit, NEW m \in PITMatch(n)
      PROVE  m = n
  BY <1>2, FullPrefix DEF PITMatch, FindExactMatch, Nodes
<1>3. n \in DOMAIN pit => n \in PITMatch(n)
  BY FullPrefix DEF PITMatch, FindExactMatch
<1> QED BY <1>1, <1>2, <1>3

-----------------------------------------------------------------------------
(* What the handlers do to the entries and their timers *)

\* Making entry n expire takes it out, takes out whatever else is due, and
\* leaves the other pairs as they were.  p is the table after the handler's own
\* changes, which are confined to n.
LEMMA Expired ==
  ASSUME PITInv, NEW n \in Names, NEW p,
         HasKeysIn(p, Names),
         DOMAIN p \ {n} = DOMAIN pit \ {n},
         \A k \in DOMAIN pit \ {n} : p[k] = pit[k],
         SetExpiryTime(p, timer, n, 0)
  PROVE  /\ PITInv'
         /\ DOMAIN pit' \subseteq DOMAIN pit \ {n}
         /\ \A k \in DOMAIN pit' : pit'[k] = pit[k] /\ timer'[k] = timer[k]
         /\ \A k \in DOMAIN pit \ {n} : k \notin DOMAIN pit' => timer[k] = 0
<1> DEFINE t == Put(timer, n, 0)
<1>1. /\ HasKeysIn(t, Names)
      /\ DOMAIN t = DOMAIN pit \cup {n}
      /\ t[n] = 0
      /\ \A k \in DOMAIN pit \ {n} : t[k] = timer[k]
  BY PutProperties DEF PITInv
<1>2. pit' = Drop(p, Due(t)) /\ timer' = Drop(t, Due(t))
  BY DEF SetExpiryTime, DealEvent
<1> HIDE DEF t
<1>3. Due(t) \subseteq DOMAIN t /\ n \in Due(t)
  BY <1>1 DEF Due
<1>4. /\ HasKeysIn(pit', Names)
      /\ DOMAIN pit' = DOMAIN p \ Due(t)
      /\ \A k \in DOMAIN pit' : pit'[k] = p[k]
  BY <1>2 DEF Drop, HasKeysIn
<1>5. /\ HasKeysIn(timer', Names)
      /\ DOMAIN timer' = DOMAIN t \ Due(t)
      /\ \A k \in DOMAIN timer' : timer'[k] = t[k]
  BY <1>1, <1>2 DEF Drop, HasKeysIn
<1>6. DOMAIN pit' \subseteq DOMAIN pit \ {n} /\ DOMAIN timer' = DOMAIN pit'
  BY <1>1, <1>3, <1>4, <1>5
<1>7. \A k \in DOMAIN pit' : pit'[k] = pit[k] /\ timer'[k] = timer[k]
  BY <1>1, <1>4, <1>5, <1>6
<1>8. \A k \in DOMAIN pit \ {n} : k \notin DOMAIN pit' => timer[k] = 0
  BY <1>1, <1>4 DEF Due
<1> QED BY <1>4, <1>5, <1>6, <1>7, <1>8 DEF PITInv

\* Firing the due timers takes out their entries and no others.
LEMMA Fired ==
  ASSUME PITInv, DealEvent(pit, timer)
  PROVE  /\ PITInv'
         /\ DOMAIN pit' \subseteq DOMAIN pit
         /\ \A k \in DOMAIN pit' : pit'[k] = pit[k] /\ timer'[k] = timer[k]
         /\ \A k \in DOMAIN pit : k \notin DOMAIN pit' => timer[k] = 0
<1>1. /\ HasKeysIn(pit', Names)
      /\ DOMAIN pit' = DOMAIN pit \ Due(timer)
      /\ \A k \in DOMAIN pit' : pit'[k] = pit[k]
  BY DEF PITInv, DealEvent, Drop, HasKeysIn
<1>2. /\ HasKeysIn(timer', Names)
      /\ DOMAIN timer' = DOMAIN timer \ Due(timer)
      /\ \A k \in DOMAIN timer' : timer'[k] = timer[k]
  BY DEF PITInv, DealEvent, Drop, HasKeysIn
<1> QED BY <1>1, <1>2 DEF PITInv, Due

\* Recording an interest replaces one pair by a good one.
LEMMA Renewed ==
  ASSUME PITInv, NEW n \in Names, NEW e, NEW d \in Time \ {0},
         EntryInv(e, d),
         SetExpiryTime(Put(pit, n, e), timer, n, d)
  PROVE  /\ PITInv'
         /\ DOMAIN pit' = DOMAIN pit \cup {n}
         /\ pit'[n] = e
         /\ \A k \in DOMAIN pit \ {n} : pit'[k] = pit[k]
<1>1. pit' = Put(pit, n, e) /\ timer' = Put(timer, n, d)
  BY DEF SetExpiryTime
<1>2. /\ HasKeysIn(pit', Names)
      /\ DOMAIN pit' = DOMAIN pit \cup {n}
      /\ pit'[n] = e
      /\ \A k \in DOMAIN pit \ {n} : pit'[k] = pit[k]
  BY <1>1 DEF PITInv, Put, HasKeysIn
<1>3. /\ HasKeysIn(timer', Names)
      /\ DOMAIN timer' = DOMAIN timer \cup {n}
      /\ timer'[n] = d
      /\ \A k \in DOMAIN timer \ {n} : timer'[k] = timer[k]
  BY <1>1 DEF PITInv, Put, HasKeysIn
<1> QED BY <1>2, <1>3 DEF PITInv

-----------------------------------------------------------------------------
(* The entries the handlers write *)

LEMMA EntryOfProperties ==
  ASSUME PITInv, NEW n \in Names
  PROVE  /\ IsPITEntry(EntryOf(n))
         /\ OnePending(EntryOf(n).out)
         /\ DistinctNonces(EntryOf(n).in)
<1>1. CASE n \in DOMAIN pit
  BY <1>1 DEF EntryOf, PITInv, EntryInv
<1>2. CASE n \notin DOMAIN pit
  BY <1>2, EmptyMapProperties
     DEF EntryOf, NewPITEntry, IsPITEntry, IsMap, OnePending, DistinctNonces
<1> QED BY <1>1, <1>2

\* An interest that is not a duplicate gets its in-record beside the others.
LEMMA WithInRecordProperties ==
  ASSUME NEW e, IsPITEntry(e), DistinctNonces(e.in),
         NEW f \in Faces, NEW x \in Nonces, NEW life \in Lifetimes,
         ~DuplicateNonceInOther(e, x, f)
  PROVE  LET w == WithInRecord(e, f, x, life) IN
         /\ IsPITEntry(w)
         /\ w.out = e.out
         /\ DOMAIN w.in = DOMAIN e.in \cup {f}
         /\ w.in[f] = [nonce |-> x, exp |-> life]
         /\ \A g \in DOMAIN e.in \ {f} : w.in[g] = e.in[g]
         /\ DistinctNonces(w.in)
<1> DEFINE r == [nonce |-> x, exp |-> life]
           w == WithInRecord(e, f, x, life)
<1>1. r \in InRecord
  BY TimeIsNat DEF InRecord
<1>2. w = [in |-> Put(e.in, f, r), out |-> e.out]
  BY DEF WithInRecord, IsPITEntry
<1>3. /\ IsMap(w.in, Faces, InRecord)
      /\ DOMAIN w.in = DOMAIN e.in \cup {f}
      /\ w.in[f] = r
      /\ \A g \in DOMAIN e.in \ {f} : w.in[g] = e.in[g]
  BY <1>1, <1>2 DEF IsPITEntry, IsMap, HasKeysIn, Put
<1>4. IsPITEntry(w) /\ w.out = e.out
  BY <1>2, <1>3 DEF IsPITEntry
<1>5. \A g \in DOMAIN e.in \ {f} : e.in[g].nonce # x
  BY DEF DuplicateNonceInOther
<1>6. DistinctNonces(w.in)
  BY <1>3, <1>5 DEF DistinctNonces
<1> QED BY <1>3, <1>4, <1>6

\* A new out-record beside out-records none of which is pending.
LEMMA WithOutRecordProperties ==
  ASSUME NEW e, IsPITEntry(e), ~HasPendingOutRecords(e),
         NEW u \in Faces, NEW x \in Nonces, NEW life \in Lifetimes
  PROVE  LET w == WithOutRecord(e, u, x, life) IN
         /\ IsPITEntry(w)
         /\ w.in = e.in
         /\ DOMAIN w.out = DOMAIN e.out \cup {u}
         /\ OnePending(w.out)
<1> DEFINE r == [nonce |-> x, exp |-> life, nacked |-> FALSE]
           w == WithOutRecord(e, u, x, life)
<1>1. r \in OutRecord
  BY TimeIsNat DEF OutRecord
<1>2. w = [in |-> e.in, out |-> Put(e.out, u, r)]
  BY DEF WithOutRecord, IsPITEntry
<1> HIDE DEF r, w
<1>3. /\ IsMap(w.out, Faces, OutRecord)
      /\ DOMAIN w.out = DOMAIN e.out \cup {u}
      /\ \A g \in DOMAIN e.out \ {u} : w.out[g] = e.out[g]
  BY <1>1, <1>2 DEF IsPITEntry, IsMap, HasKeysIn, Put
<1>4. IsPITEntry(w) /\ w.in = e.in
  BY <1>2, <1>3 DEF IsPITEntry
<1>5. \A g \in DOMAIN w.out \ {u} : ~(w.out[g].exp > 0 /\ ~w.out[g].nacked)
  BY <1>3 DEF HasPendingOutRecords
<1>6. OnePending(w.out)
  BY <1>5 DEF OnePending
<1> QED BY <1>3, <1>4, <1>6 DEF r, w

\* A Nack only ever takes an upstream off the pending ones.
LEMMA WithNackProperties ==
  ASSUME NEW e, NEW d, EntryInv(e, d), NEW f \in DOMAIN e.out
  PROVE  EntryInv(WithNack(e, f), d)
<1> DEFINE r == [e.out[f] EXCEPT !.nacked = TRUE]
           w == WithNack(e, f)
<1>1. e.out[f] \in OutRecord
  BY DEF EntryInv, IsPITEntry, IsMap
<1>2. r \in OutRecord /\ r.nacked = TRUE
  BY <1>1 DEF OutRecord
<1>3. w = [in |-> e.in, out |-> [e.out EXCEPT ![f] = r]]
  <2>1. w = [e EXCEPT !.out = [e.out EXCEPT ![f] = r]]
    BY DEF WithNack
  <2>2. e = [in |-> e.in, out |-> e.out]
    BY DEF EntryInv, IsPITEntry
  <2> QED BY <2>1, <2>2
<1> HIDE DEF r, w
<1>4. /\ IsMap(w.out, Faces, OutRecord)
      /\ DOMAIN w.out = DOMAIN e.out
      /\ w.out[f] = r
      /\ \A g \in DOMAIN e.out \ {f} : w.out[g] = e.out[g]
  BY <1>2, <1>3 DEF EntryInv, IsPITEntry, IsMap, HasKeysIn
<1>5. IsPITEntry(w) /\ w.in = e.in
  BY <1>3, <1>4 DEF EntryInv, IsPITEntry
<1>6. OnePending(w.out)
  BY <1>2, <1>4 DEF EntryInv, OnePending
<1> QED BY <1>4, <1>5, <1>6 DEF EntryInv, w

\* One tick ages records without changing anything else.
LEMMA ElapseInRecords ==
  ASSUME NEW r, IsMap(r, Faces, InRecord)
  PROVE  /\ IsMap(ElapseRecords(r), Faces, InRecord)
         /\ DOMAIN ElapseRecords(r) = DOMAIN r
         /\ \A g \in DOMAIN r :
              /\ r[g].exp \in Time
              /\ ElapseRecords(r)[g].exp = Elapse(r[g].exp)
              /\ ElapseRecords(r)[g].nonce = r[g].nonce
<1> DEFINE aged(g) == [r[g] EXCEPT !.exp = Elapse(@)]
<1>1. ASSUME NEW g \in DOMAIN r
      PROVE  /\ r[g].exp \in Time
             /\ aged(g) \in InRecord
             /\ aged(g).exp = Elapse(r[g].exp)
             /\ aged(g).nonce = r[g].nonce
  <2>1. r[g] \in [nonce : Nonces, exp : Time]
    BY DEF IsMap, InRecord
  <2>2. Elapse(r[g].exp) \in Time
    BY <2>1, ElapseProperties
  <2> QED BY <2>1, <2>2 DEF InRecord
<1>2. ElapseRecords(r) = [g \in DOMAIN r |-> aged(g)]
  BY DEF ElapseRecords
<1> HIDE DEF aged
<1> QED BY <1>1, <1>2 DEF IsMap, HasKeysIn

LEMMA ElapseOutRecords ==
  ASSUME NEW r, IsMap(r, Faces, OutRecord)
  PROVE  /\ IsMap(ElapseRecords(r), Faces, OutRecord)
         /\ DOMAIN ElapseRecords(r) = DOMAIN r
         /\ \A g \in DOMAIN r :
              /\ r[g].exp \in Time
              /\ ElapseRecords(r)[g].exp = Elapse(r[g].exp)
              /\ ElapseRecords(r)[g].nacked = r[g].nacked
<1> DEFINE aged(g) == [r[g] EXCEPT !.exp = Elapse(@)]
<1>1. ASSUME NEW g \in DOMAIN r
      PROVE  /\ r[g].exp \in Time
             /\ aged(g) \in OutRecord
             /\ aged(g).exp = Elapse(r[g].exp)
             /\ aged(g).nacked = r[g].nacked
  <2>1. r[g] \in [nonce : Nonces, exp : Time, nacked : BOOLEAN]
    BY DEF IsMap, OutRecord
  <2>2. Elapse(r[g].exp) \in Time
    BY <2>1, ElapseProperties
  <2> QED BY <2>1, <2>2 DEF OutRecord
<1>2. ElapseRecords(r) = [g \in DOMAIN r |-> aged(g)]
  BY DEF ElapseRecords
<1> HIDE DEF aged
<1> QED BY <1>1, <1>2 DEF IsMap, HasKeysIn

\* One tick ages an entry and its timer together.
LEMMA ElapseEntry ==
  ASSUME NEW e, NEW d \in Time, EntryInv(e, d)
  PROVE  EntryInv([in |-> ElapseRecords(e.in), out |-> ElapseRecords(e.out)], Elapse(d))
<1> DEFINE ins == ElapseRecords(e.in)
           outs == ElapseRecords(e.out)
<1>1. IsMap(e.in, Faces, InRecord) /\ IsMap(e.out, Faces, OutRecord)
  BY DEF EntryInv, IsPITEntry
<1>2. /\ IsMap(ins, Faces, InRecord)
      /\ DOMAIN ins = DOMAIN e.in
      /\ \A g \in DOMAIN e.in :
           /\ e.in[g].exp \in Time
           /\ ins[g].exp = Elapse(e.in[g].exp)
           /\ ins[g].nonce = e.in[g].nonce
  BY <1>1, ElapseInRecords
<1>3. /\ IsMap(outs, Faces, OutRecord)
      /\ DOMAIN outs = DOMAIN e.out
      /\ \A g \in DOMAIN e.out :
           /\ e.out[g].exp \in Time
           /\ outs[g].exp = Elapse(e.out[g].exp)
           /\ outs[g].nacked = e.out[g].nacked
  BY <1>1, ElapseOutRecords
<1> HIDE DEF ins, outs
<1>4. CoveredBy(ins, Elapse(d))
  BY <1>2, ElapseProperties DEF EntryInv, CoveredBy
<1>5. \A g \in DOMAIN e.out : outs[g].exp > 0 => e.out[g].exp > 0
  <2>1. \A b \in Time : Elapse(b) > 0 => b > 0
    BY TimeIsNat DEF Elapse
  <2> QED BY <1>3, <2>1
<1>6. OnePending(outs)
  BY <1>3, <1>5 DEF EntryInv, OnePending
<1>7. DistinctNonces(ins)
  BY <1>2 DEF EntryInv, DistinctNonces
<1> QED BY <1>2, <1>3, <1>4, <1>6, <1>7 DEF EntryInv, IsPITEntry, ins, outs

LEMMA Ticked ==
  ASSUME PITInv, Tick
  PROVE  PITInv' /\ DOMAIN pit' = DOMAIN pit
<1>1. /\ HasKeysIn(pit', Names)
      /\ DOMAIN pit' = DOMAIN pit
      /\ \A n \in DOMAIN pit :
           pit'[n] = [in |-> ElapseRecords(pit[n].in), out |-> ElapseRecords(pit[n].out)]
  BY DEF PITInv, Tick, HasKeysIn
<1>2. /\ HasKeysIn(timer', Names)
      /\ DOMAIN timer' = DOMAIN timer
      /\ \A n \in DOMAIN timer : timer'[n] = Elapse(timer[n])
  BY DEF PITInv, Tick, HasKeysIn
<1>3. \A n \in DOMAIN pit : timer'[n] \in Time /\ EntryInv(pit'[n], timer'[n])
  BY <1>1, <1>2, ElapseEntry, ElapseProperties DEF PITInv
<1> QED BY <1>1, <1>2, <1>3 DEF PITInv

-----------------------------------------------------------------------------
(* The content store never exceeds its capacity *)

LEMMA CSAfterInsertProperties ==
  ASSUME CSInv, NEW n \in Names, NEW c \in CSAfterInsert(n)
  PROVE  /\ c \subseteq cs \cup {n}
         /\ IsFiniteSet(c)
         /\ Cardinality(c) <= CSSize
<1>1. /\ IsFiniteSet(cs) /\ Cardinality(cs) \in Nat /\ Cardinality(cs) <= CSSize
      /\ CSSize \in Nat
  BY FS_CardinalityType, CSSizeAssumption DEF CSInv
<1>2. CASE n \in cs \/ Cardinality(cs) < CSSize
  <2>1. c = cs \cup {n}
    BY <1>2 DEF CSAfterInsert
  <2>2. IsFiniteSet(c) /\ Cardinality(c) = IF n \in cs THEN Cardinality(cs) ELSE Cardinality(cs) + 1
    BY <1>1, <2>1, FS_AddElement
  <2> QED BY <1>1, <1>2, <2>1, <2>2
<1>3. CASE ~(n \in cs \/ Cardinality(cs) < CSSize)
  <2>1. PICK victim \in cs : c = (cs \ {victim}) \cup {n}
    BY <1>3 DEF CSAfterInsert
  <2>2. IsFiniteSet(cs \ {victim}) /\ Cardinality(cs \ {victim}) = Cardinality(cs) - 1
    BY <1>1, FS_RemoveElement
  <2>3. IsFiniteSet(c) /\ Cardinality(c) = Cardinality(cs \ {victim}) + 1
    BY <1>3, <2>1, <2>2, FS_AddElement
  <2> QED BY <1>1, <2>1, <2>2, <2>3
<1> QED BY <1>2, <1>3

-----------------------------------------------------------------------------
(* The handlers *)

LEMMA PacketTypes ==
  ASSUME NEW f \in Faces, NEW n \in Names
  PROVE  /\ Data(f, n) \in Packets
         /\ SpentData(f, n) \in Packets
         /\ \A x \in Nonces : Interest(f, n, x) \in Packets /\ Nack(f, n, x) \in Packets
BY DEF Packets, Data, SpentData, Interest, Nack

\* A write confined to entry n is what lemma Expired asks of it.
LEMMA PutIsConfined ==
  ASSUME PITInv, NEW n \in Names, NEW e
  PROVE  /\ HasKeysIn(Put(pit, n, e), Names)
         /\ DOMAIN Put(pit, n, e) \ {n} = DOMAIN pit \ {n}
         /\ \A k \in DOMAIN pit \ {n} : Put(pit, n, e)[k] = pit[k]
BY DEF PITInv, Put, HasKeysIn

\* What holds when OnContentStoreMiss calls the strategy.
LEMMA Recorded ==
  ASSUME IInv, NEW f \in Faces, NEW n \in Names, NEW x \in Nonces,
         NEW life \in Lifetimes, NEW d \in Time, NEW e,
         e = WithInRecord(EntryOf(n), f, x, life),
         OnContentStoreMiss(f, n, x, e, d)
  PROVE  /\ IsPITEntry(e)
         /\ e.out = EntryOf(n).out
         /\ OnePending(e.out)
         /\ DistinctNonces(e.in)
         /\ CoveredBy(e.in, d)
         /\ d # 0
         /\ n \notin cs
         /\ recv' \subseteq Packets
         /\ UNCHANGED <<cs, fib, alive>>
<1>1. PITInv /\ PendingIsNotCached
  BY DEF IInv
<1>2. ~DuplicateNonceInOther(EntryOf(n), x, f)
  BY DEF OnContentStoreMiss, MissesContentStore
<1>3. /\ IsPITEntry(e)
      /\ e.out = EntryOf(n).out
      /\ DistinctNonces(e.in)
      /\ f \in DOMAIN e.in
      /\ e.in[f] = [nonce |-> x, exp |-> life]
  BY <1>1, <1>2, EntryOfProperties, WithInRecordProperties
<1>4. OnePending(e.out)
  BY <1>1, <1>3, EntryOfProperties
<1>5. CoveredBy(e.in, d)
  BY DEF OnContentStoreMiss, IsLongestExpiry, CoveredBy
<1>6. life <= d
  BY <1>3, <1>5 DEF CoveredBy
<1>7. d # 0
  BY <1>6, TimeIsNat, LifetimesAssumption
<1>8. n \notin cs
  <2>1. CASE HasInRecords(EntryOf(n))
    <3>1. n \in DOMAIN pit
      BY <2>1, EmptyMapProperties DEF HasInRecords, EntryOf, NewPITEntry
    <3> QED BY <1>1, <3>1 DEF PendingIsNotCached
  <2>2. CASE n \notin cs
    BY <2>2
  <2> QED BY <2>1, <2>2 DEF OnContentStoreMiss, MissesContentStore
<1>9. recv' \subseteq Packets /\ UNCHANGED <<cs, fib, alive>>
  BY PacketTypes DEF OnContentStoreMiss
<1> QED BY <1>3, <1>4, <1>5, <1>7, <1>8, <1>9

LEMMA AggregateInv ==
  ASSUME IInv, NEW f \in Faces, NEW n \in Names, NEW x \in Nonces,
         NEW life \in Lifetimes, Aggregate(f, n, x, life)
  PROVE  IInv'
<1> DEFINE e == WithInRecord(EntryOf(n), f, x, life)
<1>1. PICK d \in Time :
        /\ OnContentStoreMiss(f, n, x, e, d)
        /\ HasPendingOutRecords(e)
        /\ SetExpiryTime(Put(pit, n, e), timer, n, d)
        /\ sent' = {}
  BY DEF Aggregate
<1> HIDE DEF e
<1>2. /\ IsPITEntry(e) /\ OnePending(e.out) /\ DistinctNonces(e.in)
      /\ CoveredBy(e.in, d) /\ d # 0 /\ n \notin cs
      /\ recv' \subseteq Packets
      /\ UNCHANGED <<cs, fib, alive>>
  BY <1>1, Recorded DEF e
<1>3. EntryInv(e, d)
  BY <1>1, <1>2 DEF EntryInv, HasPendingOutRecords
<1>4. PITInv' /\ DOMAIN pit' = DOMAIN pit \cup {n}
  BY <1>1, <1>2, <1>3, Renewed DEF IInv
<1>5. PendingIsNotCached'
  BY <1>2, <1>4 DEF IInv, PendingIsNotCached
<1> QED BY <1>1, <1>2, <1>4, <1>5 DEF IInv, CSInv, FIBInv, IOInv

LEMMA RejectNoRouteInv ==
  ASSUME IInv, NEW f \in Faces, NEW n \in Names, NEW x \in Nonces,
         NEW life \in Lifetimes, RejectNoRoute(f, n, x, life)
  PROVE  IInv'
<1> DEFINE e == WithInRecord(EntryOf(n), f, x, life)
<1>1. PICK d \in Time :
        /\ OnContentStoreMiss(f, n, x, e, d)
        /\ SetExpiryTime(Put(pit, n, e), timer, n, 0)
        /\ sent' = {Nack(f, n, x)}
  BY DEF RejectNoRoute
<1>2. recv' \subseteq Packets /\ UNCHANGED <<cs, fib, alive>>
  BY <1>1, Recorded
<1>3. PITInv' /\ DOMAIN pit' \subseteq DOMAIN pit
  BY <1>1, PutIsConfined, Expired DEF IInv
<1>4. sent' \subseteq Packets
  BY <1>1, PacketTypes
<1> QED BY <1>2, <1>3, <1>4 DEF IInv, CSInv, FIBInv, IOInv, PendingIsNotCached

LEMMA ForwardInv ==
  ASSUME IInv, NEW f \in Faces, NEW n \in Names, NEW x \in Nonces,
         NEW life \in Lifetimes, Forward(f, n, x, life)
  PROVE  IInv'
<1> DEFINE e == WithInRecord(EntryOf(n), f, x, life)
           w(u) == WithOutRecord(e, u, x, life)
<1>1. PICK d \in Time, u \in LowestCostNextHops(f, n) :
        /\ OnContentStoreMiss(f, n, x, e, d)
        /\ ~HasPendingOutRecords(e)
        /\ SetExpiryTime(Put(pit, n, w(u)), timer, n, d)
        /\ sent' = {Interest(u, n, x)}
  BY DEF Forward
<1> HIDE DEF e, w
<1>2. u \in Faces
  BY DEF LowestCostNextHops
<1>3. /\ IsPITEntry(e) /\ DistinctNonces(e.in)
      /\ CoveredBy(e.in, d) /\ d # 0 /\ n \notin cs
      /\ recv' \subseteq Packets
      /\ UNCHANGED <<cs, fib, alive>>
  BY <1>1, Recorded DEF e
<1>4. /\ IsPITEntry(w(u)) /\ w(u).in = e.in
      /\ DOMAIN w(u).out # {} /\ OnePending(w(u).out)
  BY <1>1, <1>2, <1>3, WithOutRecordProperties DEF w
<1>5. EntryInv(w(u), d)
  BY <1>3, <1>4 DEF EntryInv
<1>6. PITInv' /\ DOMAIN pit' = DOMAIN pit \cup {n}
  BY <1>1, <1>3, <1>5, Renewed DEF IInv
<1>7. PendingIsNotCached'
  BY <1>3, <1>6 DEF IInv, PendingIsNotCached
<1>8. sent' \subseteq Packets
  BY <1>1, <1>2, PacketTypes
<1> QED BY <1>3, <1>6, <1>7, <1>8 DEF IInv, CSInv, FIBInv, IOInv

LEMMA ReturnedInterestInv ==
  ASSUME IInv, NEW f \in Faces, NEW n \in Names, NEW x \in Nonces,
         \/ TTLExpired(f, n, x)
         \/ DuplicateNonce(f, n, x)
         \/ OnContentStoreHit(f, n, x)
  PROVE  IInv'
<1>1. CASE TTLExpired(f, n, x) \/ DuplicateNonce(f, n, x)
  <2>1. OnInterestLoop(f, n, x)
    BY <1>1 DEF TTLExpired, DuplicateNonce
  <2>2. recv' \subseteq Packets /\ sent' \subseteq Packets
    BY <2>1, PacketTypes DEF OnInterestLoop
  <2> QED BY <2>1, <2>2
          DEF OnInterestLoop, tables, IInv, PITInv, CSInv, FIBInv, IOInv, PendingIsNotCached
<1>2. CASE OnContentStoreHit(f, n, x)
  <2>1. /\ SetExpiryTime(Put(pit, n, EntryOf(n)), timer, n, 0)
        /\ recv' = {Interest(f, n, x)} /\ sent' = {Data(f, n)}
        /\ UNCHANGED <<cs, fib, alive>>
    BY <1>2 DEF OnContentStoreHit
  <2>2. PITInv' /\ DOMAIN pit' \subseteq DOMAIN pit
    BY <2>1, PutIsConfined, Expired DEF IInv
  <2>3. recv' \subseteq Packets /\ sent' \subseteq Packets
    BY <2>1, PacketTypes
  <2> QED BY <2>1, <2>2, <2>3 DEF IInv, CSInv, FIBInv, IOInv, PendingIsNotCached
<1> QED BY <1>1, <1>2

LEMMA DataInv ==
  ASSUME IInv, NEW f \in Faces, NEW n \in Names, IncomingData(f, n)
  PROVE  IInv'
<1>1. CASE OnDataUnsolicited(f, n)
  <2>1. n \notin DOMAIN pit
    BY <1>1, PITMatchProperties DEF OnDataUnsolicited
  <2>2. CSInv' /\ cs' \subseteq cs \cup {n}
    BY <1>1, CSAfterInsertProperties DEF OnDataUnsolicited, IInv, CSInv
  <2>3. recv' \subseteq Packets /\ sent' \subseteq Packets
    BY <1>1, PacketTypes DEF OnDataUnsolicited
  <2> QED BY <1>1, <2>1, <2>2, <2>3
          DEF OnDataUnsolicited, IInv, PITInv, FIBInv, IOInv, PendingIsNotCached
<1>2. ASSUME NEW noCache \in BOOLEAN, OnIncomingData(f, n, noCache)
      PROVE  IInv'
  <2>1. PICK m \in PITMatch(n) :
          /\ SetExpiryTime(Drop(pit, {n}), timer, m, 0)
          /\ IF noCache THEN UNCHANGED cs ELSE cs' \in CSAfterInsert(n)
          /\ recv' = {Data(f, n)}
          /\ sent' = {Data(g, n) : g \in DownStreams(pit[m], f)}
          /\ UNCHANGED <<branched, fib, alive>>
    BY <1>2 DEF OnIncomingData
  <2>2. PITInv /\ m \in DOMAIN pit /\ m \in Names /\ IsPITEntry(pit[m])
    BY PITMatchProperties DEF IInv, PITInv, EntryInv, HasKeysIn
  <2>3. n \in DOMAIN pit => m = n
    BY PITMatchProperties
  <2>4. /\ HasKeysIn(Drop(pit, {n}), Names)
        /\ DOMAIN Drop(pit, {n}) = DOMAIN pit \ {n}
        /\ \A k \in DOMAIN pit \ {n} : Drop(pit, {n})[k] = pit[k]
    BY <2>2 DEF PITInv, Drop, HasKeysIn
  <2>5. /\ DOMAIN Drop(pit, {n}) \ {m} = DOMAIN pit \ {m}
        /\ \A k \in DOMAIN pit \ {m} : Drop(pit, {n})[k] = pit[k]
    BY <2>3, <2>4
  <2>6. PITInv' /\ DOMAIN pit' \subseteq DOMAIN pit \ {m}
    BY <2>1, <2>2, <2>4, <2>5, Expired
  <2>7. n \notin DOMAIN pit'
    BY <2>3, <2>6
  <2>8. CSInv' /\ cs' \subseteq cs \cup {n}
    BY <2>1, CSAfterInsertProperties DEF IInv, CSInv
  <2>9. DownStreams(pit[m], f) \subseteq Faces
    BY <2>2 DEF DownStreams, IsPITEntry, IsMap, HasKeysIn
  <2>10. recv' \subseteq Packets /\ sent' \subseteq Packets
    BY <2>1, <2>9, PacketTypes
  <2> QED BY <2>1, <2>6, <2>7, <2>8, <2>10 DEF IInv, FIBInv, IOInv, PendingIsNotCached
<1>3. CASE DropSpentData(f, n)
  <2>1. recv' \subseteq Packets /\ sent' \subseteq Packets /\ UNCHANGED tables
    BY <1>3, PacketTypes DEF DropSpentData
  <2> QED BY <2>1 DEF tables, IInv, PITInv, CSInv, FIBInv, IOInv, PendingIsNotCached
<1> QED BY <1>1, <1>2, <1>3 DEF IncomingData

LEMMA OnIncomingNackInv ==
  ASSUME IInv, NEW f \in Faces, NEW n \in Names, NEW x \in Nonces, NEW m \in PITMatch(n),
         OnIncomingNack(f, n, x, m)
  PROVE  /\ PITInv' /\ CSInv' /\ FIBInv' /\ PendingIsNotCached'
         /\ recv' \subseteq Packets
         /\ \A F \in SUBSET DOMAIN pit[m].in : Nacks(m, F) \subseteq Packets
<1> DEFINE e == WithNack(pit[m], f)
<1>1. PITInv /\ m \in DOMAIN pit /\ m \in Names /\ EntryInv(pit[m], timer[m])
  BY PITMatchProperties DEF IInv, PITInv, HasKeysIn
<1>2. /\ f \in DOMAIN pit[m].out
      /\ IF NackFinishes(e)
         THEN SetExpiryTime(Put(pit, m, e), timer, m, 0)
         ELSE pit' = Put(pit, m, e) /\ UNCHANGED timer
      /\ recv' = {Nack(f, n, x)}
      /\ UNCHANGED <<branched, cs, fib>>
  BY DEF OnIncomingNack
<1>3. EntryInv(e, timer[m])
  BY <1>1, <1>2, WithNackProperties
<1> HIDE DEF e
<1>4. PITInv' /\ DOMAIN pit' \subseteq DOMAIN pit
  <2>1. CASE NackFinishes(e)
    BY <1>1, <1>2, <2>1, PutIsConfined, Expired
  <2>2. CASE ~NackFinishes(e)
    <3>1. pit' = Put(pit, m, e) /\ timer' = timer
      BY <1>2, <2>2
    <3>2. /\ HasKeysIn(pit', Names)
          /\ DOMAIN pit' = DOMAIN pit
          /\ pit'[m] = e
          /\ \A k \in DOMAIN pit \ {m} : pit'[k] = pit[k]
      BY <1>1, <3>1 DEF PITInv, Put, HasKeysIn
    <3> QED BY <1>3, <3>1, <3>2 DEF PITInv, IInv
  <2> QED BY <2>1, <2>2
<1>5. \A g \in DOMAIN pit[m].in : g \in Faces /\ pit[m].in[g].nonce \in Nonces
  BY <1>1 DEF EntryInv, IsPITEntry, IsMap, HasKeysIn, InRecord
<1>6. \A F \in SUBSET DOMAIN pit[m].in : Nacks(m, F) \subseteq Packets
  BY <1>1, <1>5, PacketTypes DEF Nacks
<1> QED BY <1>2, <1>4, <1>6, PacketTypes DEF IInv, CSInv, FIBInv, PendingIsNotCached

LEMMA NackInv ==
  ASSUME IInv, NEW f \in Faces, NEW n \in Names, IncomingNack(f, n)
  PROVE  IInv'
<1>1. PICK x \in Nonces : \/ DiscardNack(f, n, x)
                         \/ AwaitOtherUpstreams(f, n, x)
                         \/ PropagateNack(f, n, x)
                         \/ PropagateNackPanics(f, n, x)
  BY DEF IncomingNack
<1>2. CASE DiscardNack(f, n, x)
  BY <1>2, PacketTypes
     DEF DiscardNack, tables, IInv, PITInv, CSInv, FIBInv, IOInv, PendingIsNotCached
<1>3. CASE ~DiscardNack(f, n, x)
  <2>1. PICK m \in PITMatch(n) :
          /\ OnIncomingNack(f, n, x, m)
          /\ sent' = {} \/ \E F \in SUBSET DOMAIN pit[m].in : sent' = Nacks(m, F)
          /\ alive' = alive \/ alive' = FALSE
    BY <1>1, <1>3 DEF AwaitOtherUpstreams, PropagateNack, PropagateNackPanics
  <2> QED BY <2>1, OnIncomingNackInv DEF IInv, IOInv
<1> QED BY <1>2, <1>3

LEMMA RouteUpdateInv ==
  ASSUME IInv, RouteUpdate
  PROVE  IInv'
<1>1. PICK p \in Routes, u \in NextHopFaces :
        (\E cost \in Costs : AddRoute(p, u, cost)) \/ RemoveRoute(p, u)
  BY DEF RouteUpdate
<1>2. FIBInv
  BY DEF IInv
<1>3. ASSUME NEW cost \in Costs, AddRoute(p, u, cost)
      PROVE  FIBInv'
  <2> DEFINE hops == IF p \in DOMAIN fib THEN fib[p] ELSE EmptyMap
  <2>1. IsMap(hops, NextHopFaces, Costs)
    BY <1>2, EmptyMapProperties DEF FIBInv, IsMap
  <2>2. IsMap(Put(hops, u, cost), NextHopFaces, Costs)
    BY <2>1, PutIsMap
  <2>3. fib' = Put(fib, p, Put(hops, u, cost))
    BY <1>3 DEF AddRoute
  <2> HIDE DEF hops
  <2>4. /\ HasKeysIn(fib', Routes)
        /\ DOMAIN fib' = DOMAIN fib \cup {p}
        /\ fib'[p] = Put(hops, u, cost)
        /\ \A k \in DOMAIN fib \ {p} : fib'[k] = fib[k]
    BY <1>2, <2>3 DEF FIBInv, Put, HasKeysIn
  <2> QED BY <1>2, <2>2, <2>4 DEF FIBInv
<1>4. ASSUME RemoveRoute(p, u)
      PROVE  FIBInv'
  <2> DEFINE hops == Drop(fib[p], {u})
  <2>1. p \in DOMAIN fib /\ IsMap(fib[p], NextHopFaces, Costs)
    BY <1>2, <1>4 DEF FIBInv, RemoveRoute
  <2>2. IsMap(hops, NextHopFaces, Costs)
    BY <2>1 DEF IsMap, HasKeysIn, Drop
  <2>3. fib' = Drop(fib, {p}) \/ fib' = Put(fib, p, hops)
    BY <1>4 DEF RemoveRoute
  <2> HIDE DEF hops
  <2>4. CASE fib' = Drop(fib, {p})
    <3>1. /\ HasKeysIn(fib', Routes)
          /\ DOMAIN fib' = DOMAIN fib \ {p}
          /\ \A k \in DOMAIN fib \ {p} : fib'[k] = fib[k]
      BY <1>2, <2>4 DEF FIBInv, Drop, HasKeysIn
    <3> QED BY <1>2, <3>1 DEF FIBInv
  <2>5. CASE fib' = Put(fib, p, hops)
    <3>1. /\ HasKeysIn(fib', Routes)
          /\ DOMAIN fib' = DOMAIN fib \cup {p}
          /\ fib'[p] = hops
          /\ \A k \in DOMAIN fib \ {p} : fib'[k] = fib[k]
      BY <1>2, <2>5 DEF FIBInv, Put, HasKeysIn
    <3> QED BY <1>2, <2>2, <3>1 DEF FIBInv
  <2> QED BY <2>3, <2>4, <2>5
<1>5. UNCHANGED <<pit, timer, cs, alive>> /\ recv' = {} /\ sent' = {}
  BY <1>1 DEF AddRoute, RemoveRoute
<1>6. FIBInv'
  BY <1>1, <1>3, <1>4
<1> QED BY <1>5, <1>6 DEF IInv, PITInv, CSInv, IOInv, PendingIsNotCached

LEMMA ClockInv ==
  ASSUME IInv, FireTimers \/ Tick
  PROVE  IInv'
<1>1. PITInv' /\ DOMAIN pit' \subseteq DOMAIN pit
  <2>1. CASE FireTimers
    BY <2>1, Fired DEF IInv, FireTimers
  <2>2. CASE Tick
    BY <2>2, Ticked DEF IInv
  <2> QED BY <2>1, <2>2
<1>2. UNCHANGED <<cs, fib, alive>> /\ recv' = {} /\ sent' = {}
  BY DEF FireTimers, Tick
<1> QED BY <1>1, <1>2 DEF IInv, CSInv, FIBInv, IOInv, PendingIsNotCached

-----------------------------------------------------------------------------
(* The inductive invariant *)

LEMMA InitInv == Init => IInv
<1> SUFFICES ASSUME Init PROVE IInv
  OBVIOUS
<1>1. PITInv
  BY EmptyMapProperties DEF Init, PITInv
<1>2. CSInv
  BY FS_EmptySet, CSSizeAssumption DEF Init, CSInv
<1>3. FIBInv
  BY EmptyMapProperties DEF Init, FIBInv
<1> QED BY <1>1, <1>2, <1>3 DEF Init, IInv, IOInv, PendingIsNotCached

LEMMA NextInv == IInv /\ [Next]_vars => IInv'
<1> SUFFICES ASSUME IInv, [Next]_vars PROVE IInv'
  OBVIOUS
<1>1. ASSUME NEW f \in Faces, NEW n \in Names, IncomingInterest(f, n)
      PROVE  IInv'
  BY <1>1, ReturnedInterestInv, AggregateInv, RejectNoRouteInv, ForwardInv
     DEF IncomingInterest
<1>2. ASSUME NEW f \in Faces, NEW n \in Names, IncomingData(f, n)
      PROVE  IInv'
  BY <1>2, DataInv
<1>3. ASSUME NEW f \in Faces, NEW n \in Names, IncomingNack(f, n)
      PROVE  IInv'
  BY <1>3, NackInv
<1>4. CASE RouteUpdate
  BY <1>4, RouteUpdateInv
<1>5. CASE FireTimers \/ Tick
  BY <1>5, ClockInv
<1>6. CASE UNCHANGED vars
  BY <1>6 DEF vars, IInv, PITInv, CSInv, FIBInv, IOInv, PendingIsNotCached
<1> QED BY <1>1, <1>2, <1>3, <1>4, <1>5, <1>6 DEF Next

\* The conjunction the theorems below are read off from.
LEMMA Invariance == Spec => []IInv
BY InitInv, NextInv, PTL DEF Spec

-----------------------------------------------------------------------------
(* What makes somebody wait longer *)

\* Entry k was there before, with all its waiting faces, and none of them waits
\* longer than before.
NotProlonged(k) ==
  /\ k \in DOMAIN pit
  /\ timer'[k] <= timer[k]
  /\ \A f \in DOMAIN pit'[k].in :
       /\ f \in DOMAIN pit[k].in
       /\ pit'[k].in[f].nonce = pit[k].in[f].nonce
       /\ pit'[k].in[f].exp <= pit[k].in[f].exp

LEMMA KeptIsNotProlonged ==
  ASSUME PITInv, NEW k \in DOMAIN pit, pit'[k].in = pit[k].in, timer'[k] = timer[k]
  PROVE  NotProlonged(k)
<1>1. timer[k] \in Nat /\ IsPITEntry(pit[k])
  BY TimeIsNat DEF PITInv, EntryInv
<1>2. \A f \in DOMAIN pit[k].in : pit[k].in[f].exp \in Nat
  BY <1>1, TimeIsNat DEF IsPITEntry, IsMap, InRecord
<1>. QED  BY <1>1, <1>2 DEF NotProlonged

\* Data, whether it is expected or not.
LEMMA DataProlongsNothing ==
  ASSUME IInv, NEW f \in Faces, NEW n \in Names, IncomingData(f, n)
  PROVE  \A k \in DOMAIN pit' : NotProlonged(k)
<1>. PITInv
  BY DEF IInv
<1>1. CASE OnDataUnsolicited(f, n)
  BY <1>1, KeptIsNotProlonged DEF OnDataUnsolicited
<1>2. ASSUME NEW noCache \in BOOLEAN, OnIncomingData(f, n, noCache)
      PROVE  \A k \in DOMAIN pit' : NotProlonged(k)
  <2>1. PICK m \in PITMatch(n) : SetExpiryTime(Drop(pit, {n}), timer, m, 0)
    BY <1>2 DEF OnIncomingData
  <2>2. m \in Names /\ (n \in DOMAIN pit => m = n)
    BY PITMatchProperties DEF PITInv, HasKeysIn
  <2>3. /\ HasKeysIn(Drop(pit, {n}), Names)
        /\ DOMAIN Drop(pit, {n}) = DOMAIN pit \ {n}
        /\ \A k \in DOMAIN pit \ {n} : Drop(pit, {n})[k] = pit[k]
    BY DEF PITInv, Drop, HasKeysIn
  <2>4. /\ DOMAIN Drop(pit, {n}) \ {m} = DOMAIN pit \ {m}
        /\ \A k \in DOMAIN pit \ {m} : Drop(pit, {n})[k] = pit[k]
    BY <2>2, <2>3
  <2>5. /\ DOMAIN pit' \subseteq DOMAIN pit
        /\ \A k \in DOMAIN pit' : pit'[k] = pit[k] /\ timer'[k] = timer[k]
    BY <2>1, <2>2, <2>3, <2>4, Expired
  <2>. QED  BY <2>5, KeptIsNotProlonged
<1>3. CASE DropSpentData(f, n)
  BY <1>3, KeptIsNotProlonged DEF DropSpentData, tables
<1>. QED  BY <1>1, <1>2, <1>3 DEF IncomingData

\* A Nack marks an out-record, or ends the entry.
LEMMA NackProlongsNothing ==
  ASSUME IInv, NEW f \in Faces, NEW n \in Names, IncomingNack(f, n)
  PROVE  \A k \in DOMAIN pit' : NotProlonged(k)
<1>. PITInv
  BY DEF IInv
<1>1. PICK x \in Nonces :
        DiscardNack(f, n, x) \/ \E m \in PITMatch(n) : OnIncomingNack(f, n, x, m)
  BY DEF IncomingNack, AwaitOtherUpstreams, PropagateNack, PropagateNackPanics
<1>2. CASE DiscardNack(f, n, x)
  BY <1>2, KeptIsNotProlonged DEF DiscardNack, tables
<1>3. ASSUME NEW m \in PITMatch(n), OnIncomingNack(f, n, x, m)
      PROVE  \A k \in DOMAIN pit' : NotProlonged(k)
  <2>. DEFINE e == WithNack(pit[m], f)
  <2>1. m \in DOMAIN pit /\ m \in Names /\ EntryInv(pit[m], timer[m])
    BY PITMatchProperties DEF PITInv, HasKeysIn
  <2>2. e.in = pit[m].in
    BY <2>1 DEF WithNack, EntryInv, IsPITEntry
  <2>3. IF NackFinishes(e)
        THEN SetExpiryTime(Put(pit, m, e), timer, m, 0)
        ELSE pit' = Put(pit, m, e) /\ UNCHANGED timer
    BY <1>3 DEF OnIncomingNack
  <2>. HIDE DEF e
  <2>4. CASE NackFinishes(e)
    <3>1. /\ DOMAIN pit' \subseteq DOMAIN pit
          /\ \A k \in DOMAIN pit' : pit'[k] = pit[k] /\ timer'[k] = timer[k]
      BY <2>1, <2>3, <2>4, PutIsConfined, Expired
    <3>. QED  BY <3>1, KeptIsNotProlonged
  <2>5. CASE ~NackFinishes(e)
    <3>1. pit' = Put(pit, m, e) /\ timer' = timer
      BY <2>3, <2>5
    <3>2. /\ DOMAIN pit' = DOMAIN pit
          /\ pit'[m] = e
          /\ \A k \in DOMAIN pit \ {m} : pit'[k] = pit[k]
      BY <2>1, <3>1 DEF PITInv, Put, HasKeysIn
    <3>. QED  BY <2>2, <3>1, <3>2, KeptIsNotProlonged
  <2>. QED  BY <2>4, <2>5
<1>. QED  BY <1>1, <1>2, <1>3

LEMMA TickProlongsNothing ==
  ASSUME PITInv, Tick
  PROVE  \A k \in DOMAIN pit' : NotProlonged(k)
<1>. SUFFICES ASSUME NEW k \in DOMAIN pit' PROVE NotProlonged(k)
  OBVIOUS
<1>1. k \in DOMAIN pit /\ timer[k] \in Time /\ IsMap(pit[k].in, Faces, InRecord)
  BY DEF Tick, PITInv, EntryInv, IsPITEntry
<1>2. timer'[k] = Elapse(timer[k]) /\ pit'[k].in = ElapseRecords(pit[k].in)
  BY <1>1 DEF Tick, PITInv
<1>. QED  BY <1>1, <1>2, ElapseInRecords, ElapseProperties DEF NotProlonged

-----------------------------------------------------------------------------
(* Theorems *)

\* Without an interest coming in nobody begins to wait, no entry comes into being
\* and no timer or in-record is prolonged, whatever data, Nacks and route updates
\* come and however the timers fire.  This is why the PIT drains (PITDrains).
THEOREM OnlyInterestsProlong ==
  Spec => [][(\A p \in recv' : p.kind # "interest")
               => \A k \in DOMAIN pit' : NotProlonged(k)]_vars
<1>1. ASSUME IInv, Next, \A p \in recv' : p.kind # "interest"
      PROVE  \A k \in DOMAIN pit' : NotProlonged(k)
  <2>. PITInv
    BY <1>1 DEF IInv
  <2>1. ASSUME NEW f \in Faces, NEW n \in Names, IncomingInterest(f, n)
        PROVE  FALSE
    <3>1. \E x \in Nonces : recv' = {Interest(f, n, x)}
      BY <2>1 DEF IncomingInterest, TTLExpired, DuplicateNonce, OnInterestLoop,
                  OnContentStoreHit, Aggregate, RejectNoRoute, Forward, OnContentStoreMiss
    <3>. QED  BY <1>1, <3>1 DEF Interest
  <2>2. CASE RouteUpdate
    BY <2>2, KeptIsNotProlonged DEF RouteUpdate, AddRoute, RemoveRoute
  <2>3. CASE FireTimers
    BY <2>3, Fired, KeptIsNotProlonged DEF FireTimers
  <2>4. CASE Tick
    BY <2>4, TickProlongsNothing
  <2>. QED
    BY <1>1, <2>1, <2>2, <2>3, <2>4, DataProlongsNothing, NackProlongsNothing DEF Next
<1>. QED  BY <1>1, Invariance, PTL DEF Spec

\* The tables, the content store's size included, always have the shape their
\* Go types and the configuration prescribe.
THEOREM TypeCorrect == Spec => []TypeOK
<1>1. IInv => TypeOK
  BY DEF IInv, PITInv, EntryInv, CSInv, FIBInv, IOInv, TypeOK, IsMap
<1> QED BY <1>1, Invariance, PTL

\* A PIT entry has a timer as long as its longest in-record: it is neither
\* leaked nor finalised early (Forwarder.SetExpiryTime, OnInterestFinalize).
THEOREM TimersAlwaysCoverRecords == Spec => []TimersCoverRecords
<1>1. IInv => TimersCoverRecords
  BY DEF IInv, PITInv, EntryInv, CoveredBy, TimersCoverRecords
<1> QED BY <1>1, Invariance, PTL

\* At most one copy of an interest is in flight
\* (BestRouteStrategy.AfterReceiveInterest and HasPendingOutRecords).
THEOREM AlwaysOnePendingUpstream == Spec => []OnePendingUpstream
<1>1. IInv => OnePendingUpstream
  BY DEF IInv, PITInv, EntryInv, OnePending, OnePendingUpstream
<1> QED BY <1>1, Invariance, PTL

\* Whoever waits in the PIT waits for an upstream that has been asked.
THEOREM WaitersAlwaysHaveUpstream == Spec => []WaitersHaveUpstream
<1>1. IInv => WaitersHaveUpstream
  BY DEF IInv, PITInv, EntryInv, CoveredBy, WaitersHaveUpstream
<1> QED BY <1>1, Invariance, PTL

\* A name is never pending and cached at once, so the shortcut of
\* OnIncomingInterest past the content store loses no answer.
THEOREM PendingIsNeverCached == Spec => []PendingIsNotCached
<1>1. IInv => PendingIsNotCached
  BY DEF IInv
<1> QED BY <1>1, Invariance, PTL

\* Two faces never wait with the same nonce (Algorithm.FindDuplicateNonce).
THEOREM NoncesAlwaysTellFacesApart == Spec => []NoncesTellFacesApart
<1>1. IInv => NoncesTellFacesApart
  BY DEF IInv, PITInv, EntryInv, DistinctNonces, NoncesTellFacesApart
<1> QED BY <1>1, Invariance, PTL

-----------------------------------------------------------------------------
(* The PIT is kept in the tree that LpmTree is about *)

\* At most one name is added, with the nodes above it; then names are deleted.
AddsThenRemoves ==
  \/ /\ UNCHANGED branched
     /\ DOMAIN pit' \subseteq DOMAIN pit
  \/ \E n \in Names : /\ branched' = BranchesOf(branched, n)
                      /\ DOMAIN pit' \subseteq DOMAIN pit \cup {n}

HangsOnTree == \A n \in DOMAIN pit : ProperPrefixes(n) \subseteq branched

LEMMA TimersOnlyRemove ==
  /\ \A p, t : DealEvent(p, t) => DOMAIN pit' \subseteq DOMAIN p
  /\ \A p, t, n, d : SetExpiryTime(p, t, n, d) => DOMAIN pit' \subseteq DOMAIN p
BY DEF SetExpiryTime, DealEvent, Drop

LEMMA PutAddsOne == \A p, n, e : DOMAIN Put(p, n, e) = DOMAIN p \cup {n}
BY DEF Put

LEMMA InterestAdds ==
  ASSUME NEW f \in Faces, NEW n \in Names, IncomingInterest(f, n)
  PROVE  AddsThenRemoves
<1>1. PICK x \in Nonces :
        \/ OnInterestLoop(f, n, x)
        \/ OnContentStoreHit(f, n, x)
        \/ \E life \in Lifetimes : \/ Aggregate(f, n, x, life)
                                   \/ RejectNoRoute(f, n, x, life)
                                   \/ Forward(f, n, x, life)
  BY DEF IncomingInterest, TTLExpired, DuplicateNonce
<1>2. CASE OnInterestLoop(f, n, x)
  BY <1>2 DEF OnInterestLoop, tables, AddsThenRemoves
<1>3. CASE ~OnInterestLoop(f, n, x)
  <2>1. /\ branched' = BranchesOf(branched, n)
        /\ \E e, d : SetExpiryTime(Put(pit, n, e), timer, n, d)
    BY <1>1, <1>3 DEF OnContentStoreHit, Aggregate, RejectNoRoute, Forward, OnContentStoreMiss
  <2>2. DOMAIN pit' \subseteq DOMAIN pit \cup {n}
    <3>1. PICK e, d : SetExpiryTime(Put(pit, n, e), timer, n, d)
      BY <2>1
    <3>2. DOMAIN pit' \subseteq DOMAIN Put(pit, n, e)
      BY <3>1, TimersOnlyRemove
    <3>. QED  BY <3>2, PutAddsOne
  <2>. QED  BY <2>1, <2>2 DEF AddsThenRemoves
<1>. QED  BY <1>2, <1>3

LEMMA DataRemoves ==
  ASSUME NEW f \in Faces, NEW n \in Names, IncomingData(f, n)
  PROVE  AddsThenRemoves
<1>1. CASE OnDataUnsolicited(f, n)
  BY <1>1 DEF OnDataUnsolicited, AddsThenRemoves
<1>2. CASE \E noCache \in BOOLEAN : OnIncomingData(f, n, noCache)
  <2>1. UNCHANGED branched /\ \E m : SetExpiryTime(Drop(pit, {n}), timer, m, 0)
    BY <1>2 DEF OnIncomingData
  <2>2. DOMAIN pit' \subseteq DOMAIN pit
    BY <2>1, TimersOnlyRemove DEF Drop
  <2>. QED  BY <2>1, <2>2 DEF AddsThenRemoves
<1>3. CASE DropSpentData(f, n)
  BY <1>3 DEF DropSpentData, tables, AddsThenRemoves
<1>. QED  BY <1>1, <1>2, <1>3 DEF IncomingData

LEMMA NackRemoves ==
  ASSUME NEW f \in Faces, NEW n \in Names, IncomingNack(f, n)
  PROVE  AddsThenRemoves
<1>1. PICK x \in Nonces :
        DiscardNack(f, n, x) \/ \E m \in PITMatch(n) : OnIncomingNack(f, n, x, m)
  BY DEF IncomingNack, AwaitOtherUpstreams, PropagateNack, PropagateNackPanics
<1>2. CASE DiscardNack(f, n, x)
  BY <1>2 DEF DiscardNack, tables, AddsThenRemoves
<1>3. ASSUME NEW m \in PITMatch(n), OnIncomingNack(f, n, x, m)
      PROVE  AddsThenRemoves
  <2>1. m \in DOMAIN pit
    BY DEF PITMatch, FindExactMatch
  <2>2. /\ UNCHANGED branched
        /\ \E e : SetExpiryTime(Put(pit, m, e), timer, m, 0) \/ pit' = Put(pit, m, e)
    BY <1>3 DEF OnIncomingNack
  <2>3. DOMAIN pit' \subseteq DOMAIN pit
    BY <2>1, <2>2, TimersOnlyRemove, PutAddsOne
  <2>. QED  BY <2>2, <2>3 DEF AddsThenRemoves
<1>. QED  BY <1>1, <1>2, <1>3

\* Every step does to the tree of the PIT at most one addition of LpmSpec and then
\* some deletions, so the names and branches that PITMatch looks at are those of a tree
\* that LpmTree reaches, for which LpmTreeProofs shows what FindExactMatch answers.
THEOREM PITChangesAsItsTree == Spec => [][AddsThenRemoves]_vars
<1>1. Next => AddsThenRemoves
  <2>. SUFFICES ASSUME Next PROVE AddsThenRemoves
    OBVIOUS
  <2>1. CASE RouteUpdate
    BY <2>1 DEF RouteUpdate, AddRoute, RemoveRoute, AddsThenRemoves
  <2>2. CASE FireTimers
    BY <2>2, TimersOnlyRemove DEF FireTimers, AddsThenRemoves
  <2>3. CASE Tick
    BY <2>3 DEF Tick, AddsThenRemoves
  <2>. QED
    BY <2>1, <2>2, <2>3, InterestAdds, DataRemoves, NackRemoves DEF Next
<1>. QED  BY <1>1, PTL DEF Spec

\* The node of every pending name is reached: all nodes above it have a child table.
THEOREM PITHangsOnItsTree == Spec => []HangsOnTree
<1>1. Init => HangsOnTree
  BY EmptyMapProperties DEF Init, HangsOnTree
<1>2. HangsOnTree /\ [AddsThenRemoves]_vars => HangsOnTree'
  BY DEF HangsOnTree, AddsThenRemoves, BranchesOf, vars
<1>. QED  BY <1>1, <1>2, PITChangesAsItsTree, PTL DEF Spec

-----------------------------------------------------------------------------
(* Forwarder implements PendingService: whatever the tables, timers, routes *)
(* and cache are doing, data reaches exactly the faces that are owed it,    *)
(* and what is owed is given up only for the reasons that PendingService    *)
(* allows.                                                                  *)
(*                                                                          *)
(* The mapping reads what face f is owed for name n off the PIT.  Every     *)
(* handler is shown to change that table in one of four ways: not at all,   *)
(* by accepting an interest, by settling a name, or by ageing everything.   *)


Owing(p, f, n) ==
  IF n \in DOMAIN p /\ f \in DOMAIN p[n].in THEN p[n].in[f].exp ELSE 0

LEMMA OwedIsOwing == Owed = [f \in Faces |-> [n \in Names |-> Owing(pit, f, n)]]
BY DEF Owed, Owing

LEMMA OwedIsOwingNext == Owed' = [f \in Faces |-> [n \in Names |-> Owing(pit', f, n)]]
BY DEF Owed, Owing

LEMMA SameOwed ==
  ASSUME \A f \in Faces, n \in Names : Owing(pit', f, n) = Owing(pit, f, n)
  PROVE  Owed' = Owed
BY OwedIsOwing, OwedIsOwingNext

LEMMA SettledOwed ==
  ASSUME NEW m \in Names,
         \A f \in Faces, n \in Names :
           Owing(pit', f, n) = IF n = m THEN 0 ELSE Owing(pit, f, n)
  PROVE  Pending!Settle(m)
<1>1. \A f \in Faces : [Owed[f] EXCEPT ![m] = 0]
                     = [n \in Names |-> IF n = m THEN 0 ELSE Owing(pit, f, n)]
  BY OwedIsOwing
<1>2. Owed' = [f \in Faces |-> [Owed[f] EXCEPT ![m] = 0]]
  BY <1>1, OwedIsOwingNext
<1> QED BY <1>2 DEF Pending!Settle

LEMMA AcceptedOwed ==
  ASSUME NEW f \in Faces, NEW m \in Names, NEW life,
         \A g \in Faces, n \in Names :
           Owing(pit', g, n) = IF g = f /\ n = m THEN life ELSE Owing(pit, g, n)
  PROVE  Owed' = [Owed EXCEPT ![f][m] = life]
<1>1. [Owed EXCEPT ![f][m] = life] =
        [g \in Faces |-> [n \in Names |->
           IF g = f /\ n = m THEN life ELSE Owing(pit, g, n)]]
  <2>1. [Owed EXCEPT ![f][m] = life] =
          [g \in Faces |-> IF g = f THEN [Owed[f] EXCEPT ![m] = life] ELSE Owed[g]]
    BY OwedIsOwing
  <2>2. [Owed[f] EXCEPT ![m] = life] =
          [n \in Names |-> IF n = m THEN life ELSE Owing(pit, f, n)]
    BY OwedIsOwing
  <2>3. \A g \in Faces : Owed[g] = [n \in Names |-> Owing(pit, g, n)]
    BY OwedIsOwing
  <2> QED BY <2>1, <2>2, <2>3
<1> QED BY <1>1, OwedIsOwingNext

-----------------------------------------------------------------------------
(* What expiry, firing, recording and ticking do to what is owed *)

\* An entry whose timer has run out owes nobody anything.
LEMMA DueOwesNothing ==
  ASSUME PITInv, NEW k \in DOMAIN pit, timer[k] = 0, NEW f \in Faces
  PROVE  Owing(pit, f, k) = 0
<1>1. ASSUME f \in DOMAIN pit[k].in
      PROVE  pit[k].in[f].exp = 0
  <2>1. pit[k].in[f] \in [nonce : Nonces, exp : Time]
    BY <1>1 DEF PITInv, EntryInv, IsPITEntry, IsMap, InRecord
  <2>2. pit[k].in[f].exp \in Nat
    BY <2>1, TimeIsNat
  <2>3. pit[k].in[f].exp <= 0
    BY <1>1 DEF PITInv, EntryInv, CoveredBy
  <2> QED BY <2>2, <2>3
<1> QED BY <1>1 DEF Owing

LEMMA ExpiredOwes ==
  ASSUME PITInv, NEW n \in Names, NEW p,
         HasKeysIn(p, Names),
         DOMAIN p \ {n} = DOMAIN pit \ {n},
         \A k \in DOMAIN pit \ {n} : p[k] = pit[k],
         SetExpiryTime(p, timer, n, 0)
  PROVE  \A f \in Faces, k \in Names :
           Owing(pit', f, k) = IF k = n THEN 0 ELSE Owing(pit, f, k)
<1> TAKE f \in Faces, k \in Names
<1>1. /\ DOMAIN pit' \subseteq DOMAIN pit \ {n}
      /\ \A j \in DOMAIN pit' : pit'[j] = pit[j]
      /\ \A j \in DOMAIN pit \ {n} : j \notin DOMAIN pit' => timer[j] = 0
  BY Expired
<1>2. CASE k = n
  BY <1>1, <1>2 DEF Owing
<1>3. CASE k # n /\ k \in DOMAIN pit'
  BY <1>1, <1>3 DEF Owing
<1>4. CASE k # n /\ k \notin DOMAIN pit'
  <2>1. Owing(pit', f, k) = 0
    BY <1>4 DEF Owing
  <2>2. CASE k \in DOMAIN pit
    BY <1>1, <1>4, <2>1, <2>2, DueOwesNothing
  <2>3. CASE k \notin DOMAIN pit
    BY <1>4, <2>1, <2>3 DEF Owing
  <2> QED BY <2>2, <2>3
<1> QED BY <1>2, <1>3, <1>4

LEMMA FiredOwes ==
  ASSUME PITInv, DealEvent(pit, timer)
  PROVE  \A f \in Faces, k \in Names : Owing(pit', f, k) = Owing(pit, f, k)
<1> TAKE f \in Faces, k \in Names
<1>1. /\ DOMAIN pit' \subseteq DOMAIN pit
      /\ \A j \in DOMAIN pit' : pit'[j] = pit[j]
      /\ \A j \in DOMAIN pit : j \notin DOMAIN pit' => timer[j] = 0
  BY Fired
<1>2. CASE k \in DOMAIN pit'
  BY <1>1, <1>2 DEF Owing
<1>3. CASE k \in DOMAIN pit \ DOMAIN pit'
  <2>1. Owing(pit, f, k) = 0
    BY <1>1, <1>3, DueOwesNothing
  <2> QED BY <1>3, <2>1 DEF Owing
<1>4. CASE k \notin DOMAIN pit
  BY <1>1, <1>4 DEF Owing
<1> QED BY <1>2, <1>3, <1>4

\* Recording the interest of f in the entry of n, with the in-records in.
LEMMA RecordedOwes ==
  ASSUME NEW f \in Faces, NEW n \in Names, NEW x \in Nonces, NEW life \in Lifetimes, NEW e,
         DOMAIN pit' = DOMAIN pit \cup {n},
         pit'[n] = e,
         \A k \in DOMAIN pit \ {n} : pit'[k] = pit[k],
         DOMAIN e.in = DOMAIN EntryOf(n).in \cup {f},
         e.in[f] = [nonce |-> x, exp |-> life],
         \A g \in DOMAIN EntryOf(n).in \ {f} : e.in[g] = EntryOf(n).in[g]
  PROVE  \A g \in Faces, k \in Names :
           Owing(pit', g, k) = IF g = f /\ k = n THEN life ELSE Owing(pit, g, k)
<1> TAKE g \in Faces, k \in Names
<1>1. CASE k # n
  BY <1>1 DEF Owing
<1>2. CASE k = n /\ g = f
  BY <1>2 DEF Owing
<1>3. CASE k = n /\ g # f
  <2>1. CASE n \in DOMAIN pit
    BY <1>3, <2>1 DEF Owing, EntryOf
  <2>2. CASE n \notin DOMAIN pit
    <3>1. DOMAIN EntryOf(n).in = {}
      BY <2>2, EmptyMapProperties DEF EntryOf, NewPITEntry
    <3> QED BY <1>3, <2>2, <3>1 DEF Owing
  <2> QED BY <2>1, <2>2
<1> QED BY <1>1, <1>2, <1>3

LEMMA TickedOwes ==
  ASSUME PITInv, Tick
  PROVE  Owed' = [f \in Faces |-> [n \in Names |-> Elapse(Owed[f][n])]]
<1>1. ASSUME NEW f \in Faces, NEW n \in Names
      PROVE  Owing(pit', f, n) = Elapse(Owing(pit, f, n))
  <2>1. /\ DOMAIN pit' = DOMAIN pit
        /\ \A k \in DOMAIN pit :
             pit'[k] = [in |-> ElapseRecords(pit[k].in), out |-> ElapseRecords(pit[k].out)]
    BY DEF Tick
  <2>2. CASE n \in DOMAIN pit
    <3>1. IsMap(pit[n].in, Faces, InRecord)
      BY <2>2 DEF PITInv, EntryInv, IsPITEntry
    <3>2. pit'[n].in = ElapseRecords(pit[n].in)
      BY <2>1, <2>2
    <3>3. /\ DOMAIN pit'[n].in = DOMAIN pit[n].in
          /\ \A g \in DOMAIN pit[n].in : pit'[n].in[g].exp = Elapse(pit[n].in[g].exp)
      BY <3>1, <3>2, ElapseInRecords
    <3>4. Elapse(0) = 0
      BY DEF Elapse
    <3> QED BY <2>1, <2>2, <3>3, <3>4 DEF Owing
  <2>3. CASE n \notin DOMAIN pit
    BY <2>1, <2>3 DEF Owing, Elapse
  <2> QED BY <2>2, <2>3
<1>2. \A f \in Faces, n \in Names : Owed[f][n] = Owing(pit, f, n)
  BY OwedIsOwing
<1> QED BY <1>1, <1>2, OwedIsOwingNext

-----------------------------------------------------------------------------
(* Every handler is a step of the service *)

LEMMA InterestRefines ==
  ASSUME IInv, NEW f \in Faces, NEW n \in Names, IncomingInterest(f, n)
  PROVE  \E x \in Nonces :
           Pending!Accept(f, n, x) \/ Pending!Refuse(f, n, x) \/ Pending!Reply(f, n, x)
<1> PICK x \in Nonces :
      \/ TTLExpired(f, n, x)
      \/ DuplicateNonce(f, n, x)
      \/ OnContentStoreHit(f, n, x)
      \/ \E life \in Lifetimes :
           \/ Aggregate(f, n, x, life)
           \/ RejectNoRoute(f, n, x, life)
           \/ Forward(f, n, x, life)
  BY DEF IncomingInterest
<1>1. PITInv
  BY DEF IInv
<1>2. CASE TTLExpired(f, n, x) \/ DuplicateNonce(f, n, x)
  <2>1. OnInterestLoop(f, n, x)
    BY <1>2 DEF TTLExpired, DuplicateNonce
  <2>2. Owed' = Owed
    BY <2>1, SameOwed DEF OnInterestLoop, tables
  <2>3. Pending!Refuse(f, n, x)
    BY <2>1, <2>2
       DEF OnInterestLoop, Pending!Refuse, Pending!Interest, Pending!Nack, Interest, Nack
  <2> QED BY <2>3
<1>3. CASE OnContentStoreHit(f, n, x)
  <2>1. /\ ~HasInRecords(EntryOf(n))
        /\ SetExpiryTime(Put(pit, n, EntryOf(n)), timer, n, 0)
        /\ recv' = {Interest(f, n, x)} /\ sent' = {Data(f, n)}
    BY <1>3 DEF OnContentStoreHit
  <2>2. \A g \in Faces : Owing(pit, g, n) = 0
    BY <2>1 DEF HasInRecords, EntryOf, Owing
  <2>3. \A g \in Faces, k \in Names :
          Owing(pit', g, k) = IF k = n THEN 0 ELSE Owing(pit, g, k)
    BY <1>1, <2>1, PutIsConfined, ExpiredOwes
  <2>4. Owed' = Owed
    BY <2>2, <2>3, SameOwed
  <2>5. \A g \in Faces : Owed[g][n] = 0
    BY <2>2, OwedIsOwing
  <2>6. Pending!Reply(f, n, x)
    BY <2>1, <2>4, <2>5
       DEF Pending!Reply, Pending!NobodyIsOwed, Pending!Interest, Pending!Data, Interest, Data
  <2> QED BY <2>6
<1>4. ASSUME NEW life \in Lifetimes, RejectNoRoute(f, n, x, life)
      PROVE  Pending!Refuse(f, n, x)
  <2> DEFINE e == WithInRecord(EntryOf(n), f, x, life)
  <2>1. /\ SetExpiryTime(Put(pit, n, e), timer, n, 0)
        /\ recv' = {Interest(f, n, x)} /\ sent' = {Nack(f, n, x)}
    BY <1>4 DEF RejectNoRoute, OnContentStoreMiss
  <2>2. \A g \in Faces, k \in Names :
          Owing(pit', g, k) = IF k = n THEN 0 ELSE Owing(pit, g, k)
    BY <1>1, <2>1, PutIsConfined, ExpiredOwes
  <2>3. Pending!Settle(n)
    BY <2>2, SettledOwed
  <2> QED BY <2>1, <2>3
          DEF Pending!Refuse, Pending!Interest, Pending!Nack, Interest, Nack
<1>5. ASSUME NEW life \in Lifetimes, NEW d \in Time, NEW e, NEW w,
             e = WithInRecord(EntryOf(n), f, x, life),
             OnContentStoreMiss(f, n, x, e, d),
             w.in = e.in,
             SetExpiryTime(Put(pit, n, w), timer, n, d)
      PROVE  Owed' = [Owed EXCEPT ![f][n] = life] /\ recv' = {Interest(f, n, x)}
  <2>1. d # 0 /\ recv' = {Interest(f, n, x)}
    BY <1>5, Recorded DEF OnContentStoreMiss
  <2>2. /\ DOMAIN e.in = DOMAIN EntryOf(n).in \cup {f}
        /\ e.in[f] = [nonce |-> x, exp |-> life]
        /\ \A g \in DOMAIN EntryOf(n).in \ {f} : e.in[g] = EntryOf(n).in[g]
    BY <1>1, <1>5, EntryOfProperties, WithInRecordProperties
       DEF OnContentStoreMiss, MissesContentStore
  <2>3. /\ DOMAIN pit' = DOMAIN pit \cup {n}
        /\ pit'[n] = w
        /\ \A k \in DOMAIN pit \ {n} : pit'[k] = pit[k]
    BY <1>5, <2>1 DEF SetExpiryTime, Put
  <2>4. \A g \in Faces, k \in Names :
          Owing(pit', g, k) = IF g = f /\ k = n THEN life ELSE Owing(pit, g, k)
    BY <1>5, <2>2, <2>3, RecordedOwes
  <2> QED BY <2>1, <2>4, AcceptedOwed
<1>6. ASSUME NEW life \in Lifetimes, Aggregate(f, n, x, life)
      PROVE  Pending!Accept(f, n, x)
  <2> DEFINE e == WithInRecord(EntryOf(n), f, x, life)
  <2>1. PICK d \in Time :
          /\ OnContentStoreMiss(f, n, x, e, d)
          /\ SetExpiryTime(Put(pit, n, e), timer, n, d)
          /\ sent' = {}
    BY <1>6 DEF Aggregate
  <2>2. Owed' = [Owed EXCEPT ![f][n] = life] /\ recv' = {Interest(f, n, x)}
    BY <1>5, <2>1
  <2> QED BY <2>1, <2>2 DEF Pending!Accept, Pending!Interest, Interest
<1>7. ASSUME NEW life \in Lifetimes, Forward(f, n, x, life)
      PROVE  Pending!Accept(f, n, x)
  <2> DEFINE e == WithInRecord(EntryOf(n), f, x, life)
  <2>1. PICK d \in Time, u \in LowestCostNextHops(f, n) :
          /\ OnContentStoreMiss(f, n, x, e, d)
          /\ SetExpiryTime(Put(pit, n, WithOutRecord(e, u, x, life)), timer, n, d)
          /\ ~HasPendingOutRecords(e)
          /\ sent' = {Interest(u, n, x)}
    BY <1>7 DEF Forward
  <2>2. u \in Faces \ {f}
    BY DEF LowestCostNextHops
  <2>3. IsPITEntry(e)
    BY <2>1, Recorded
  <2>4. WithOutRecord(e, u, x, life).in = e.in
    BY <2>1, <2>2, <2>3, WithOutRecordProperties
  <2>5. Owed' = [Owed EXCEPT ![f][n] = life] /\ recv' = {Interest(f, n, x)}
    BY <1>5, <2>1, <2>4
  <2> QED BY <2>1, <2>2, <2>5 DEF Pending!Accept, Pending!Interest, Interest
<1> QED BY <1>2, <1>3, <1>4, <1>6, <1>7

\* Nobody is owed a name that is not pending.
LEMMA OwedIsPending ==
  ASSUME NEW k \in Names, k \notin DOMAIN pit
  PROVE  Pending!NobodyIsOwed(k)
BY OwedIsOwing DEF Owing, Pending!NobodyIsOwed

LEMMA DataRefines ==
  ASSUME IInv, NEW f \in Faces, NEW n \in Names, IncomingData(f, n)
  PROVE  Pending!Answer(f, n) \/ Pending!IgnoreData(f, n) \/ Pending!DropSpentData(f, n)
<1>1. CASE OnDataUnsolicited(f, n)
  <2>1. Owed' = Owed
    BY <1>1, SameOwed DEF OnDataUnsolicited
  <2>2. Pending!NobodyIsOwed(n)
    BY <1>1, PITMatchProperties, OwedIsPending DEF OnDataUnsolicited
  <2> QED BY <1>1, <2>1, <2>2 DEF OnDataUnsolicited, Pending!IgnoreData, Pending!Data, Data
<1>2. ASSUME NEW noCache \in BOOLEAN, OnIncomingData(f, n, noCache)
      PROVE  Pending!Answer(f, n)
  <2>1. PICK m \in PITMatch(n) :
          /\ SetExpiryTime(Drop(pit, {n}), timer, m, 0)
          /\ recv' = {Data(f, n)}
          /\ sent' = {Data(g, n) : g \in DownStreams(pit[m], f)}
    BY <1>2 DEF OnIncomingData
  <2>2. PITInv /\ m \in DOMAIN pit /\ m \in Names /\ IsPITEntry(pit[m])
    BY PITMatchProperties DEF IInv, PITInv, EntryInv, HasKeysIn
  <2>3. n \in DOMAIN pit => m = n
    BY PITMatchProperties
  <2>4. m \in Pending!Prefixes(n)
    BY DEF PITMatch, FindExactMatch, Prefixes, Pending!Prefixes
  <2>5. /\ HasKeysIn(Drop(pit, {n}), Names)
        /\ DOMAIN Drop(pit, {n}) = DOMAIN pit \ {n}
        /\ \A k \in DOMAIN pit \ {n} : Drop(pit, {n})[k] = pit[k]
    BY <2>2 DEF PITInv, Drop, HasKeysIn
  <2>6. \A g \in Faces, k \in Names :
          Owing(pit', g, k) = IF k = m THEN 0 ELSE Owing(pit, g, k)
    <3>1. /\ DOMAIN Drop(pit, {n}) \ {m} = DOMAIN pit \ {m}
          /\ \A k \in DOMAIN pit \ {m} : Drop(pit, {n})[k] = pit[k]
      BY <2>3, <2>5
    <3> QED BY <2>1, <2>2, <2>5, <3>1, ExpiredOwes
  <2>7. Pending!Settle(m)
    BY <2>2, <2>6, SettledOwed
  <2>8. DownStreams(pit[m], f) = {h \in Faces \ {f} : Owed[h][m] > 0}
    <3>1. DOMAIN pit[m].in \subseteq Faces
      BY <2>2 DEF IsPITEntry, IsMap, HasKeysIn
    <3>2. \A h \in Faces : Owed[h][m] = Owing(pit, h, m)
      BY <2>2, OwedIsOwing
    <3> QED BY <2>2, <3>1, <3>2 DEF DownStreams, Owing
  <2>9. sent' = {Pending!Data(g, n) : g \in {h \in Faces \ {f} : Owed[h][m] > 0}}
    BY <2>1, <2>8 DEF Pending!Data, Data
  <2>10. \A k \in Pending!Prefixes(n) \cap Names :
           Len(k) > Len(m) => Pending!NobodyIsOwed(k)
    <3>1. \A k \in Prefixes(n) : Len(k) > Len(m) => k \notin DOMAIN pit
      BY DEF PITMatch, FindExactMatch, Nodes
    <3> QED BY <3>1, OwedIsPending DEF Prefixes, Pending!Prefixes
  <2> QED BY <2>1, <2>2, <2>4, <2>7, <2>9, <2>10 DEF Pending!Answer, Pending!Data, Data
<1>3. CASE DropSpentData(f, n)
  <2>1. Owed' = Owed
    BY <1>3, SameOwed DEF DropSpentData, tables
  <2> QED BY <1>3, <2>1
          DEF DropSpentData, Pending!DropSpentData, Pending!SpentData, SpentData
<1> QED BY <1>1, <1>2, <1>3 DEF IncomingData

\* Marking an out-record changes nothing that is owed; finishing settles m.
LEMMA NackOwes ==
  ASSUME IInv, NEW f \in Faces, NEW n \in Names, NEW x \in Nonces, NEW m \in PITMatch(n),
         OnIncomingNack(f, n, x, m)
  PROVE  Owed' = Owed \/ Pending!Settle(m)
<1> DEFINE e == WithNack(pit[m], f)
<1>1. PITInv /\ m \in DOMAIN pit /\ m \in Names /\ EntryInv(pit[m], timer[m])
  BY PITMatchProperties DEF IInv, PITInv, HasKeysIn
<1>2. \/ SetExpiryTime(Put(pit, m, e), timer, m, 0)
      \/ pit' = Put(pit, m, e)
  BY DEF OnIncomingNack
<1>3. CASE SetExpiryTime(Put(pit, m, e), timer, m, 0)
  <2>1. \A g \in Faces, k \in Names :
          Owing(pit', g, k) = IF k = m THEN 0 ELSE Owing(pit, g, k)
    BY <1>1, <1>3, PutIsConfined, ExpiredOwes
  <2> QED BY <1>1, <2>1, SettledOwed
<1>4. CASE pit' = Put(pit, m, e)
  <2>1. e.in = pit[m].in
    <3>1. pit[m] = [in |-> pit[m].in, out |-> pit[m].out]
      BY <1>1 DEF EntryInv, IsPITEntry
    <3> QED BY <3>1 DEF WithNack
  <2> HIDE DEF e
  <2>2. /\ DOMAIN pit' = DOMAIN pit
        /\ pit'[m] = e
        /\ \A k \in DOMAIN pit \ {m} : pit'[k] = pit[k]
    BY <1>1, <1>4 DEF Put
  <2>3. \A g \in Faces, k \in Names : Owing(pit', g, k) = Owing(pit, g, k)
    BY <2>1, <2>2 DEF Owing
  <2> QED BY <2>3, SameOwed
<1> QED BY <1>2, <1>3, <1>4

LEMMA HandledNackRefines ==
  ASSUME IInv, NEW f \in Faces, NEW n \in Names, NEW x \in Nonces,
         \/ AwaitOtherUpstreams(f, n, x)
         \/ PropagateNack(f, n, x)
         \/ PropagateNackPanics(f, n, x)
  PROVE  Pending!HandleNack(f, n, x)
<1>1. PICK m \in PITMatch(n) :
        /\ OnIncomingNack(f, n, x, m)
        /\ \/ sent' = {}
           \/ \E F \in SUBSET (DOMAIN pit[m].in \ {f}) : sent' = Nacks(m, F)
  <2>1. CASE PropagateNack(f, n, x)
    <3>1. PICK m \in PITMatch(n) :
            /\ OnIncomingNack(f, n, x, m)
            /\ f \notin DOMAIN pit[m].in
            /\ sent' = Nacks(m, DOMAIN pit[m].in)
      BY <2>1 DEF PropagateNack
    <3>2. DOMAIN pit[m].in \in SUBSET (DOMAIN pit[m].in \ {f})
      BY <3>1
    <3> QED BY <3>1, <3>2
  <2>2. CASE AwaitOtherUpstreams(f, n, x)
    BY <2>2 DEF AwaitOtherUpstreams
  <2>3. CASE PropagateNackPanics(f, n, x)
    BY <2>3 DEF PropagateNackPanics
  <2> QED BY <2>1, <2>2, <2>3
<1>2. m \in DOMAIN pit /\ m \in Names /\ IsPITEntry(pit[m])
  BY PITMatchProperties DEF IInv, PITInv, EntryInv, HasKeysIn
<1>3. m \in Pending!Prefixes(n)
  BY DEF PITMatch, FindExactMatch, Prefixes, Pending!Prefixes
<1>4. recv' = {Nack(f, n, x)}
  BY <1>1 DEF OnIncomingNack
<1>5. ASSUME NEW p \in sent'
      PROVE  \E g \in Faces \ {f}, y \in Nonces : p = Nack(g, m, y)
  <2>1. PICK F \in SUBSET (DOMAIN pit[m].in \ {f}) : sent' = Nacks(m, F)
    BY <1>1, <1>5
  <2>2. PICK g \in F : p = Nack(g, m, pit[m].in[g].nonce)
    BY <1>5, <2>1 DEF Nacks
  <2>3. g \in Faces \ {f} /\ pit[m].in[g].nonce \in Nonces
    BY <1>2, <2>1, <2>2 DEF IsPITEntry, IsMap, HasKeysIn, InRecord
  <2> QED BY <2>2, <2>3
<1>6. Owed' = Owed \/ Pending!Settle(m)
  BY <1>1, NackOwes
<1> QED BY <1>2, <1>3, <1>4, <1>5, <1>6 DEF Pending!HandleNack, Pending!Nack, Nack

LEMMA NackRefines ==
  ASSUME IInv, NEW f \in Faces, NEW n \in Names, IncomingNack(f, n)
  PROVE  \E x \in Nonces : Pending!HandleNack(f, n, x)
<1>1. PICK x \in Nonces : \/ DiscardNack(f, n, x)
                         \/ AwaitOtherUpstreams(f, n, x)
                         \/ PropagateNack(f, n, x)
                         \/ PropagateNackPanics(f, n, x)
  BY DEF IncomingNack
<1>2. CASE DiscardNack(f, n, x)
  <2>1. Owed' = Owed
    BY <1>2, SameOwed DEF DiscardNack, tables
  <2>2. n \in Pending!Prefixes(n)
    BY FullPrefix DEF Prefixes, Pending!Prefixes
  <2> QED BY <1>2, <2>1, <2>2 DEF DiscardNack, Pending!HandleNack, Pending!Nack, Nack
<1> QED BY <1>1, <1>2, HandledNackRefines

LEMMA InternalRefines ==
  ASSUME IInv, RouteUpdate \/ FireTimers \/ Tick
  PROVE  Pending!Internal
<1>1. PITInv /\ recv' = {} /\ sent' = {}
  BY DEF IInv, RouteUpdate, AddRoute, RemoveRoute, FireTimers, Tick
<1>2. CASE RouteUpdate
  <2>1. Owed' = Owed
    BY <1>2, SameOwed DEF RouteUpdate, AddRoute, RemoveRoute
  <2> QED BY <1>1, <2>1 DEF Pending!Internal
<1>3. CASE FireTimers
  <2>1. Owed' = Owed
    BY <1>1, <1>3, FiredOwes, SameOwed DEF FireTimers
  <2> QED BY <1>1, <2>1 DEF Pending!Internal
<1>4. CASE Tick
  BY <1>1, <1>4, TickedOwes DEF Pending!Internal, Pending!Elapse, Elapse
<1> QED BY <1>2, <1>3, <1>4

-----------------------------------------------------------------------------

\* The pull pipelines, strategy, PIT, content store and timers together keep
\* the promise of PendingService, for every configuration.
THEOREM PromiseIsKept == Spec => KeepsPromise
<1>1. Init => Pending!Init
  <2> SUFFICES ASSUME Init PROVE Pending!Init
    OBVIOUS
  <2>1. \A f \in Faces, n \in Names : Owing(pit, f, n) = 0
    BY EmptyMapProperties DEF Init, Owing
  <2> QED BY <2>1, OwedIsOwing DEF Init, Pending!Init
<1>2. IInv /\ [Next]_vars => [Pending!Next]_Pending!vars
  <2> SUFFICES ASSUME IInv, [Next]_vars PROVE [Pending!Next]_Pending!vars
    OBVIOUS
  <2>1. ASSUME NEW f \in Faces, NEW n \in Names, IncomingInterest(f, n)
        PROVE  Pending!Next
    BY <2>1, InterestRefines DEF Pending!Next
  <2>2. ASSUME NEW f \in Faces, NEW n \in Names, IncomingData(f, n)
        PROVE  Pending!Next
    BY <2>2, DataRefines DEF Pending!Next
  <2>3. ASSUME NEW f \in Faces, NEW n \in Names, IncomingNack(f, n)
        PROVE  Pending!Next
    BY <2>3, NackRefines DEF Pending!Next
  <2>4. CASE RouteUpdate \/ FireTimers \/ Tick
    BY <2>4, InternalRefines DEF Pending!Next
  <2>5. CASE UNCHANGED vars
    <3>1. Owed' = Owed
      BY <2>5, SameOwed DEF vars
    <3> QED BY <2>5, <3>1 DEF vars, Pending!vars
  <2> QED BY <2>1, <2>2, <2>3, <2>4, <2>5 DEF Next
<1> QED BY <1>1, <1>2, Invariance, PTL DEF Spec, KeepsPromise, Pending!Spec
=============================================================================
