----------------------------- MODULE Forwarder ------------------------------
(***************************************************************************)
(* The pull pipelines of one router: daemon/fw/Forwarder.go with the       *)
(* best-route strategy, the pending interest table, the FIB and the        *)
(* content store.  One goroutine runs all of it (Forwarder.Start): each    *)
(* turn of its loop first fires the due timers, then handles at most one   *)
(* packet, so a handler is one atomic step and the interleavings are those *)
(* of packets, timers, route updates and the passing of time.              *)
(*                                                                         *)
(* Time is kept as what remains of each duration, in abstract units, so    *)
(* "expired" is 0.  A handler runs within one unit.                        *)
(***************************************************************************)
EXTENDS Naturals, FiniteSets, Lpm, Maps

CONSTANTS
  Components,    \* of names
  Names,         \* content names, sequences of components
  Routes,        \* prefixes that may have a FIB entry
  Faces,         \* the router's logic faces
  NextHopFaces,  \* the faces a route may point to
  Nonces,
  Lifetimes,     \* the InterestLifeTime values interests carry
  Costs,
  CSSize,        \* capacity of the content store
  CacheUnsolicitedData    \* configuration switch of the same name

MaxLifetime == CHOOSE l \in Lifetimes : \A k \in Lifetimes : k <= l
Time == 0 .. MaxLifetime

ASSUME NamesAssumption == Names \cup Routes \subseteq Seq(Components)
ASSUME FacesAssumption == NextHopFaces \subseteq Faces
ASSUME LifetimesAssumption ==
  /\ Lifetimes \subseteq Nat \ {0}
  /\ MaxLifetime \in Lifetimes
  /\ \A l \in Lifetimes : l <= MaxLifetime
ASSUME CostsAssumption == Costs \subseteq Nat
ASSUME CSSizeAssumption == CSSize \in Nat \ {0}
ASSUME SwitchAssumption == CacheUnsolicitedData \in BOOLEAN

VARIABLES
  pit,        \* PIT: name -> entry
  branched,   \* shape of the PIT's tree (module Lpm)
  timer,      \* heapTimer: name -> time left until OnInterestFinalize
  cs,         \* names of the cached data packets
  fib,        \* FIB: prefix -> (face -> cost)
  alive,      \* FALSE once a handler has panicked
  recv,       \* the packet handled in the last step, if any
  sent        \* the packets handed to faces in the last step

tables == <<pit, branched, timer, cs, fib, alive>>
vars == <<pit, branched, timer, cs, fib, alive, recv, sent>>

-----------------------------------------------------------------------------
(* Packets, by the face they arrive from or leave through *)

Interest(f, n, x) == [kind |-> "interest", face |-> f, name |-> n, nonce |-> x]
Nack(f, n, x)     == [kind |-> "nack", face |-> f, name |-> n, nonce |-> x]
Data(f, n)        == [kind |-> "data", face |-> f, name |-> n]
SpentData(f, n)   == [kind |-> "spentData", face |-> f, name |-> n]   \* its TTL is 0

Packets ==
       [kind : {"interest", "nack"}, face : Faces, name : Names, nonce : Nonces]
  \cup [kind : {"data", "spentData"}, face : Faces, name : Names]

(* PIT entries *)

InRecord  == [nonce : Nonces, exp : Time]
OutRecord == [nonce : Nonces, exp : Time, nacked : BOOLEAN]
IsPITEntry(e) ==
  /\ e = [in |-> e.in, out |-> e.out]
  /\ IsMap(e.in, Faces, InRecord)
  /\ IsMap(e.out, Faces, OutRecord)

NewPITEntry == [in |-> EmptyMap, out |-> EmptyMap]

\* PIT.Insert: the entry an interest named n works on.
EntryOf(n) == IF n \in DOMAIN pit THEN pit[n] ELSE NewPITEntry

\* The name of the entry that PIT.Find and PIT.FindDataMatches return.
PITMatch(n) == FindExactMatch(DOMAIN pit, branched, n)

HasInRecords(e) == DOMAIN e.in # {}

\* Seeded fault: only the nonce of the ingress itself is compared.
DuplicateNonceInOther_SameFace(e, x, f) ==
  \E g \in DOMAIN e.in : g = f /\ e.in[g].nonce = x

\* FindDuplicateNonce(...) & DuplicateNonceInOther
DuplicateNonceInOther(e, x, f) ==
  \E g \in DOMAIN e.in : g # f /\ e.in[g].nonce = x

\* Seeded faults: the sense of the Nack test inverted; every record must pend.
HasPendingOutRecords_Nacked(e) ==
  \E g \in DOMAIN e.out : e.out[g].exp > 0 /\ e.out[g].nacked

HasPendingOutRecords_All(e) ==
  \A g \in DOMAIN e.out : e.out[g].exp > 0 /\ ~e.out[g].nacked

HasPendingOutRecords(e) ==
  \E g \in DOMAIN e.out : e.out[g].exp > 0 /\ ~e.out[g].nacked

-----------------------------------------------------------------------------
(* Timers.  The heap timer is a library: DealEvent runs every event whose  *)
(* deadline has passed, and here each of them is OnInterestFinalize.       *)

Due(t) == {n \in DOMAIN t : t[n] = 0}

\* DealEvent on tables p and t: OnInterestFinalize for every due entry.
DealEvent(p, t) ==
  /\ pit' = Drop(p, Due(t))
  /\ timer' = Drop(t, Due(t))

\* Seeded fault: expiring an entry at once leaves it to the next loop turn.
SetExpiryTime_Lazily(p, t, n, duration) ==
  /\ pit' = p
  /\ timer' = Put(t, n, duration)

\* Seeded fault: an armed timer is cancelled and not replaced.
SetExpiryTime_CancelOnly(p, t, n, duration) ==
  IF duration = 0
  THEN DealEvent(p, Put(t, n, 0))
  ELSE pit' = p /\ timer' = IF n \in DOMAIN t THEN Drop(t, {n}) ELSE Put(t, n, duration)

\* Forwarder.SetExpiryTime on tables p and t: replace the entry's timer, and
\* fire the due timers (of any entry) when the entry is to expire now.
SetExpiryTime(p, t, n, duration) ==
  IF duration = 0
  THEN DealEvent(p, Put(t, n, 0))
  ELSE pit' = p /\ timer' = Put(t, n, duration)

\* Seeded fault: the timer follows the newest interest, not the longest one.
IsLongestExpiry_Newest(in, f, d) == d = in[f].exp

\* The loop over in-records in OnContentStoreMiss: d is the largest remaining
\* lifetime.  (f is the face whose interest is being recorded.)
IsLongestExpiry(in, f, d) ==
  /\ \E g \in DOMAIN in : in[g].exp = d
  /\ \A g \in DOMAIN in : in[g].exp <= d

(* Content store (UniversalCSPolicy over the gcache library): at capacity an *)
(* insertion evicts some other packet; which one depends on the policy.      *)

\* Seeded fault: the store grows beyond its capacity.
CSAfterInsert_Unbounded(n) == {cs \cup {n}}

CSAfterInsert(n) ==
  IF n \in cs \/ Cardinality(cs) < CSSize
  THEN {cs \cup {n}}
  ELSE {(cs \ {victim}) \cup {n} : victim \in cs}

(* BestRouteStrategy.findLowestCostNextHop: the cheapest next hops of the     *)
(* longest matching prefix, the ingress face excluded.  Equal costs are       *)
(* ordered by Go's map iteration, so any of them may be taken.                *)
LowestCostNextHops(f, n) ==
  {u \in Faces \ {f} :
      \E p \in FindLongestPrefixMatch(DOMAIN fib, n) :
        /\ u \in DOMAIN fib[p]
        /\ \A v \in DOMAIN fib[p] \ {f} : fib[p][u] <= fib[p][v]}

-----------------------------------------------------------------------------
(* Interests *)

\* Incoming Interest -> Interest loop: the TTL is used up, or the nonce is
\* known from another face.  The interest goes back as a Nack.
OnInterestLoop(f, n, x) ==
  /\ recv' = {Interest(f, n, x)}
  /\ sent' = {Nack(f, n, x)}
  /\ UNCHANGED tables

TTLExpired(f, n, x) == OnInterestLoop(f, n, x)

DuplicateNonce(f, n, x) ==
  /\ DuplicateNonceInOther(EntryOf(n), x, f)
  /\ OnInterestLoop(f, n, x)

\* Incoming Interest -> ContentStore hit: the new entry expires at once and the
\* cached packet goes back.
OnContentStoreHit(f, n, x) ==
  /\ ~HasInRecords(EntryOf(n))
  /\ n \in cs
  /\ SetExpiryTime(Put(pit, n, EntryOf(n)), timer, n, 0)
  /\ branched' = BranchesOf(branched, n)
  /\ recv' = {Interest(f, n, x)}
  /\ sent' = {Data(f, n)}
  /\ UNCHANGED <<cs, fib, alive>>

\* The entry once OnContentStoreMiss has recorded the interest.
WithInRecord(e, f, x, life) ==
  [e EXCEPT !.in = Put(@, f, [nonce |-> x, exp |-> life])]

\* OnOutgoingInterest: the entry once the interest is sent to face u.
WithOutRecord(e, u, x, life) ==
  [e EXCEPT !.out = Put(@, u, [nonce |-> x, exp |-> life, nacked |-> FALSE])]

\* What takes an incoming interest to ContentStore miss: an interest for the
\* name is already waiting, or the name is not cached.
MissesContentStore(f, n, x) ==
  /\ ~DuplicateNonceInOther(EntryOf(n), x, f)
  /\ HasInRecords(EntryOf(n)) \/ n \notin cs

\* ContentStore miss, up to the call of the strategy: e is the entry with the
\* new in-record, d the expiry the timer is armed with.
OnContentStoreMiss(f, n, x, e, d) ==
  /\ MissesContentStore(f, n, x)
  /\ IsLongestExpiry(e.in, f, d)
  /\ branched' = BranchesOf(branched, n)
  /\ recv' = {Interest(f, n, x)}
  /\ UNCHANGED <<cs, fib, alive>>

\* BestRouteStrategy.AfterReceiveInterest, an upstream is already being asked:
\* the interest is aggregated.
Aggregate(f, n, x, life) ==
  \E d \in Time :
    LET e == WithInRecord(EntryOf(n), f, x, life)
    IN  /\ OnContentStoreMiss(f, n, x, e, d)
        /\ HasPendingOutRecords(e)
        /\ SetExpiryTime(Put(pit, n, e), timer, n, d)
        /\ sent' = {}

\* AfterReceiveInterest, no next hop: Nack to the ingress, then
\* rejectPendingInterest overrides the timer that was just armed.
RejectNoRoute(f, n, x, life) ==
  \E d \in Time :
    LET e == WithInRecord(EntryOf(n), f, x, life)
    IN  /\ OnContentStoreMiss(f, n, x, e, d)
        /\ ~HasPendingOutRecords(e)
        /\ LowestCostNextHops(f, n) = {}
        /\ SetExpiryTime(Put(pit, n, e), timer, n, 0)
        /\ sent' = {Nack(f, n, x)}

\* AfterReceiveInterest, sendInterest -> Outgoing Interest.
Forward(f, n, x, life) ==
  \E d \in Time, u \in LowestCostNextHops(f, n) :
    LET e == WithInRecord(EntryOf(n), f, x, life)
    IN  /\ OnContentStoreMiss(f, n, x, e, d)
        /\ ~HasPendingOutRecords(e)
        /\ SetExpiryTime(Put(pit, n, WithOutRecord(e, u, x, life)), timer, n, d)
        /\ sent' = {Interest(u, n, x)}

-----------------------------------------------------------------------------
(* Data *)

\* Data whose TTL is used up is dropped before the tables are looked at.
DropSpentData(f, n) ==
  /\ recv' = {SpentData(f, n)}
  /\ sent' = {}
  /\ UNCHANGED tables

\* Seeded fault: data is taken for unsolicited without a look into the PIT.
OnDataUnsolicited_Unlooked(f, n) ==
  /\ IF CacheUnsolicitedData THEN cs' \in CSAfterInsert(n) ELSE UNCHANGED cs
  /\ recv' = {Data(f, n)}
  /\ sent' = {}
  /\ UNCHANGED <<pit, branched, timer, fib, alive>>

\* Incoming Data -> Data unsolicited.
OnDataUnsolicited(f, n) ==
  /\ PITMatch(n) = {}
  /\ IF CacheUnsolicitedData THEN cs' \in CSAfterInsert(n) ELSE UNCHANGED cs
  /\ recv' = {Data(f, n)}
  /\ sent' = {}
  /\ UNCHANGED <<pit, branched, timer, fib, alive>>

\* Seeded fault: expired in-records are answered too.
DownStreams_Expired(e, f) == DOMAIN e.in \ {f}

\* sendDataToAll: the downstreams still waiting, the ingress excluded.
DownStreams(e, f) == {g \in DOMAIN e.in \ {f} : e.in[g].exp > 0}

\* Incoming Data matching entry m.  FindDataMatches takes the data's own name
\* out of the tree; the expiry then takes out m.  The entry is gone when the
\* strategy deletes its records, so those deletions leave no trace.
OnIncomingData(f, n, noCache) ==
  \E m \in PITMatch(n) :
    /\ SetExpiryTime(Drop(pit, {n}), timer, m, 0)
    /\ IF noCache THEN UNCHANGED cs ELSE cs' \in CSAfterInsert(n)
    /\ recv' = {Data(f, n)}
    /\ sent' = {Data(g, n) : g \in DownStreams(pit[m], f)}
    /\ UNCHANGED <<branched, fib, alive>>

-----------------------------------------------------------------------------
(* Nacks *)

\* Marking the out-record of face f.
WithNack(e, f) == [e EXCEPT !.out[f].nacked = TRUE]

\* OnIncomingNack's test for "every out-record has expired or been nacked".
\* The code's condition for an unfinished record reads "unexpired and nacked".
NackFinishes(e) ==
  \A g \in DOMAIN e.out : ~(e.out[g].exp > 0 /\ e.out[g].nacked)

\* Incoming Nack for the last interest sent to f by entry m, up to the call of
\* the strategy.
OnIncomingNack(f, n, x, m) ==
  /\ f \in DOMAIN pit[m].out
  /\ pit[m].out[f].nonce = x
  /\ LET e == WithNack(pit[m], f)
     IN  IF NackFinishes(e)
         THEN SetExpiryTime(Put(pit, m, e), timer, m, 0)
         ELSE pit' = Put(pit, m, e) /\ UNCHANGED timer
  /\ recv' = {Nack(f, n, x)}
  /\ UNCHANGED <<branched, cs, fib>>

\* Incoming Nack that answers no interest on record: no entry, no out-record of
\* that face, or another nonce.
DiscardNack(f, n, x) ==
  /\ \A m \in PITMatch(n) :
       f \in DOMAIN pit[m].out => pit[m].out[f].nonce # x
  /\ recv' = {Nack(f, n, x)}
  /\ sent' = {}
  /\ UNCHANGED tables

AllNacked(e) == \A g \in DOMAIN e.out : e.out[g].nacked

\* AfterReceiveNack, another upstream has not answered: wait for it.
AwaitOtherUpstreams(f, n, x) ==
  \E m \in PITMatch(n) :
    /\ OnIncomingNack(f, n, x, m)
    /\ ~AllNacked(WithNack(pit[m], f))
    /\ sent' = {}
    /\ UNCHANGED alive

\* The Nacks of sendNackToAll, each carrying its in-record's own interest.
Nacks(m, F) == {Nack(g, m, pit[m].in[g].nonce) : g \in F}

\* AfterReceiveNack, every upstream nacked: sendNackToAll.
PropagateNack(f, n, x) ==
  \E m \in PITMatch(n) :
    /\ OnIncomingNack(f, n, x, m)
    /\ AllNacked(WithNack(pit[m], f))
    /\ f \notin DOMAIN pit[m].in
    /\ sent' = Nacks(m, DOMAIN pit[m].in)
    /\ UNCHANGED alive

\* sendNackToAll when the Nack comes from a face that also has an in-record:
\* the slot of that face is a nil pointer, which OnOutgoingNack dereferences.
\* The in-records are visited in any order, so some Nacks may have left before.
PropagateNackPanics(f, n, x) ==
  \E m \in PITMatch(n) :
    /\ OnIncomingNack(f, n, x, m)
    /\ AllNacked(WithNack(pit[m], f))
    /\ f \in DOMAIN pit[m].in
    /\ \E F \in SUBSET (DOMAIN pit[m].in \ {f}) : sent' = Nacks(m, F)
    /\ alive' = FALSE

-----------------------------------------------------------------------------
(* Routes, as the management component changes them between two packets *)

\* FIB.AddOrUpdate
AddRoute(p, u, cost) ==
  /\ LET hops == IF p \in DOMAIN fib THEN fib[p] ELSE EmptyMap
     IN  fib' = Put(fib, p, Put(hops, u, cost))
  /\ recv' = {} /\ sent' = {}
  /\ UNCHANGED <<pit, branched, timer, cs, alive>>

\* FIBEntry.RemoveNextHop, and FIB.EraseByFIBEntry when no next hop is left.
RemoveRoute(p, u) ==
  /\ p \in DOMAIN fib
  /\ u \in DOMAIN fib[p]
  /\ LET hops == Drop(fib[p], {u})
     IN  fib' = IF DOMAIN hops = {} THEN Drop(fib, {p}) ELSE Put(fib, p, hops)
  /\ recv' = {} /\ sent' = {}
  /\ UNCHANGED <<pit, branched, timer, cs, alive>>

-----------------------------------------------------------------------------
(* The loop of Forwarder.Start, and time *)

FireTimers ==
  /\ Due(timer) # {}
  /\ DealEvent(pit, timer)
  /\ recv' = {} /\ sent' = {}
  /\ UNCHANGED <<branched, cs, fib, alive>>

Elapse(d) == IF d = 0 THEN 0 ELSE d - 1

ElapseRecords(r) == [g \in DOMAIN r |-> [r[g] EXCEPT !.exp = Elapse(@)]]

\* One unit of time passes: every remaining duration shrinks.
Tick ==
  /\ pit' = [n \in DOMAIN pit |->
               [in |-> ElapseRecords(pit[n].in), out |-> ElapseRecords(pit[n].out)]]
  /\ timer' = [n \in DOMAIN timer |-> Elapse(timer[n])]
  /\ recv' = {} /\ sent' = {}
  /\ UNCHANGED <<branched, cs, fib, alive>>

Init ==
  /\ pit = EmptyMap
  /\ branched = {}
  /\ timer = EmptyMap
  /\ cs = {}
  /\ fib = EmptyMap
  /\ alive = TRUE
  /\ recv = {}
  /\ sent = {}

IncomingInterest(f, n) ==
  \E x \in Nonces :
    \/ TTLExpired(f, n, x)
    \/ DuplicateNonce(f, n, x)
    \/ OnContentStoreHit(f, n, x)
    \/ \E life \in Lifetimes :
         \/ Aggregate(f, n, x, life)
         \/ RejectNoRoute(f, n, x, life)
         \/ Forward(f, n, x, life)

IncomingData(f, n) ==
  \/ DropSpentData(f, n)
  \/ OnDataUnsolicited(f, n)
  \/ \E noCache \in BOOLEAN : OnIncomingData(f, n, noCache)

IncomingNack(f, n) ==
  \E x \in Nonces :
    \/ DiscardNack(f, n, x)
    \/ AwaitOtherUpstreams(f, n, x)
    \/ PropagateNack(f, n, x)
    \/ PropagateNackPanics(f, n, x)

RouteUpdate ==
  \E p \in Routes, u \in NextHopFaces :
    \/ \E cost \in Costs : AddRoute(p, u, cost)
    \/ RemoveRoute(p, u)

Next ==
  /\ alive
  /\ \/ \E f \in Faces, n \in Names :
          IncomingInterest(f, n) \/ IncomingData(f, n) \/ IncomingNack(f, n)
     \/ RouteUpdate
     \/ FireTimers
     \/ Tick

Spec == Init /\ [][Next]_vars

\* The loop turns and the clock runs: what PIT clean-up may rely on.
FairSpec == Spec /\ WF_vars(alive /\ FireTimers) /\ WF_vars(alive /\ Tick)

-----------------------------------------------------------------------------
(* Properties *)

\* Every table holds what its Go type and its configuration allow.
TypeOK ==
  /\ HasKeysIn(pit, Names)
  /\ \A n \in DOMAIN pit : IsPITEntry(pit[n])
  /\ IsMap(timer, Names, Time)
  /\ cs \subseteq Names
  /\ Cardinality(cs) <= CSSize
  /\ HasKeysIn(fib, Routes)
  /\ \A p \in DOMAIN fib : IsMap(fib[p], NextHopFaces, Costs)
  /\ alive \in BOOLEAN
  /\ recv \subseteq Packets
  /\ sent \subseteq Packets

\* Every PIT entry has an armed timer that runs exactly as long as its longest
\* in-record, and no timer outlives its entry: an entry is neither leaked nor
\* finalised while a downstream still waits (SetExpiryTime, OnInterestFinalize).
TimersCoverRecords ==
  /\ DOMAIN timer = DOMAIN pit
  /\ \A n \in DOMAIN pit :
       /\ \E f \in DOMAIN pit[n].in : pit[n].in[f].exp = timer[n]
       /\ \A f \in DOMAIN pit[n].in : pit[n].in[f].exp <= timer[n]

\* A name is being asked of at most one upstream at a time: aggregation and
\* retransmission never put two copies of an interest in flight.
OnePendingUpstream ==
  \A n \in DOMAIN pit : \A g, h \in DOMAIN pit[n].out :
    (\A k \in {g, h} : pit[n].out[k].exp > 0 /\ ~pit[n].out[k].nacked) => g = h

\* Whoever waits in the PIT waits for an upstream that has been asked: no
\* interest is aggregated onto an entry that was never forwarded.
WaitersHaveUpstream ==
  \A n \in DOMAIN pit : DOMAIN pit[n].in # {} /\ DOMAIN pit[n].out # {}

\* No interest waits for an upstream while its data sits in the content store:
\* this is why OnIncomingInterest may skip the store for a pending name.
PendingIsNotCached == DOMAIN pit \cap cs = {}

\* Two faces never wait with the same nonce: an interest that comes round a
\* loop never makes the router wait for itself.
NoncesTellFacesApart ==
  \A n \in DOMAIN pit : \A g, h \in DOMAIN pit[n].in :
    pit[n].in[g].nonce = pit[n].in[h].nonce => g = h

\* What a face is owed for a name is its unexpired in-record.
Owed ==
  [f \in Faces |-> [n \in Names |->
     IF n \in DOMAIN pit /\ f \in DOMAIN pit[n].in THEN pit[n].in[f].exp ELSE 0]]

Pending == INSTANCE PendingService WITH owed <- Owed

\* Tables, timers, content store and strategy together keep the promise of
\* PendingService: data goes to exactly the faces still owed it, once, unless its
\* TTL is used up, and none that somebody is owed is ignored.
KeepsPromise == Pending!Spec

\* Once no more interests arrive the PIT empties: no timer is lost, whatever
\* data, Nacks and route updates still arrive.  (A panic ends everything.)
PITDrains ==
  <>[][\A p \in recv' : p.kind # "interest"]_vars
    => <>[](pit = EmptyMap \/ ~alive)

-----------------------------------------------------------------------------
(* A statement of the documentation that the code does not keep *)

\* When every upstream has nacked, the Nack goes to every downstream except the
\* face it came from (the comment of sendNackToAll).
NackReachesDownstreams ==
  [][\A f \in Faces, n \in DOMAIN pit, x \in Nonces :
       /\ recv' = {Nack(f, n, x)}
       /\ f \in DOMAIN pit[n].out
       /\ pit[n].out[f].nonce = x
       /\ \A g \in DOMAIN pit[n].out \ {f} : pit[n].out[g].nacked
       => \A g \in DOMAIN pit[n].in \ {f} : \E y \in Nonces : Nack(g, n, y) \in sent']_vars
=============================================================================
