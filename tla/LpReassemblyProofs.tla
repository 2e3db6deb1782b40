------------------------- MODULE LpReassemblyProofs -------------------------
(***************************************************************************)
(* Proofs that LpReassembly keeps its invariants, for any numbers of       *)
(* packets, fragments, restarts and packet numbers and any timeout.        *)
(*                                                                         *)
(* The argument: a number of the current run of the router that is still   *)
(* below lpPacketId will not be used again, and the number lpPacketId      *)
(* itself is on fragments of the packet being sent only (SentInv).  So two *)
(* fragments with one number and one run are of one packet, and the table  *)
(* files fragments by number (PartialInv).                                 *)
(***************************************************************************)
EXTENDS LpReassembly, FiniteSetTheorems, TLAPS

SentInv ==
  /\ \A f \in sent :
       /\ f.pkt \in 1 .. packets
       /\ f.seq < f.count
       /\ f.boot <= boot
       /\ f.boot = boot =>
            /\ f.id <= lpPacketId
            /\ f.id = lpPacketId => \E s \in sending : s.pkt = f.pkt
  /\ \A f, g \in sent : f.boot = g.boot /\ f.id = g.id => f.pkt = g.pkt
  /\ \A f, g \in sent : f.pkt = g.pkt => f.count = g.count

SendingInv ==
  /\ \A s, t \in sending : s = t
  /\ \A s \in sending :
       /\ s.pkt \in 1 .. packets
       /\ \A f \in sent : f.pkt = s.pkt => f.count = s.count

\* The entry e is filed under the number k.
PartialInv(e, k) ==
  /\ IsPartial(e)
  /\ \A q \in DOMAIN e.fragments :
       /\ e.fragments[q] \in sent
       /\ e.fragments[q].count <= MaxFragmentNum
       /\ e.fragments[q].id = k
       /\ e.fragments[q].seq = q
  /\ \E q \in DOMAIN e.fragments : e.fragments[q].count = e.count
  /\ e.nReceived = Cardinality(DOMAIN e.fragments)

TableInv ==
  \A k \in DOMAIN mPartialPackets :
    /\ PartialInv(mPartialPackets[k], k)
    /\ mPartialPackets[k].nReceived < mPartialPackets[k].count

\* The table keeps what arrived for a packet that is not delivered yet, unless
\* the packet is too large.
KeptInv ==
  \A f \in arrived :
    \/ ~ OnlyFor(f.pkt, f.id)
    \/ f.count > MaxFragmentNum
    \/ f.pkt \in delivered
    \/ f.id \in DOMAIN mPartialPackets
       /\ f.seq \in DOMAIN mPartialPackets[f.id].fragments

\* Packets that are too large are not delivered.
DeliveredInv == \A p \in delivered : \E f \in sent : f.pkt = p /\ f.count <= MaxFragmentNum

IInv ==
  /\ TypeOK
  /\ timeoutEventHeap = {}
  /\ SentInv
  /\ SendingInv
  /\ TableInv
  /\ KeptInv
  /\ DeliveredInv
  /\ UpIsOnePacket

-----------------------------------------------------------------------------
(* Entries of the receiver's table *)

LEMMA PartialIsFinite ==
  ASSUME NEW e, IsPartial(e)
  PROVE  /\ e.count \in Nat \ {0}
         /\ IsFiniteSet(DOMAIN e.fragments)
         /\ DOMAIN e.fragments \subseteq 0 .. e.count - 1
         /\ Cardinality(0 .. e.count - 1) = e.count
<1>1. e.count \in Nat \ {0}
  BY CountsAssumption DEF IsPartial
<1>2. DOMAIN e.fragments \subseteq 0 .. e.count - 1
  BY DEF IsPartial, IsMap, HasKeysIn
<1>3. IsFiniteSet(0 .. e.count - 1) /\ Cardinality(0 .. e.count - 1) = e.count
  <2>. DEFINE n == e.count
  <2>1. n \in Nat \ {0}
    BY <1>1
  <2>. HIDE DEF n
  <2>2. n - 1 \in Int /\ 0 \in Int /\ ~ (0 > n - 1) /\ (n - 1) - 0 + 1 = n
    BY <2>1
  <2>3. IsFiniteSet(0 .. n - 1) /\ Cardinality(0 .. n - 1) = n
    BY <2>2, FS_Interval
  <2>. QED  BY <2>3 DEF n
<1>. QED  BY <1>1, <1>2, <1>3, FS_Subset

\* An entry that counts right reassembles when, and only when, it is full.
LEMMA FullMeansWhole ==
  ASSUME NEW e, IsPartial(e), e.nReceived = Cardinality(DOMAIN e.fragments)
  PROVE  Reassembles(e) <=> DOMAIN e.fragments = 0 .. e.count - 1
<1>1. IsFiniteSet(0 .. e.count - 1)
  BY PartialIsFinite, FS_Interval
<1>2. Cardinality(DOMAIN e.fragments) <= e.count /\ Cardinality(DOMAIN e.fragments) \in Nat
  BY <1>1, PartialIsFinite, FS_Subset, FS_CardinalityType
<1>3. CASE Reassembles(e)
  <2>1. Cardinality(DOMAIN e.fragments) = Cardinality(0 .. e.count - 1)
    BY <1>2, <1>3, PartialIsFinite DEF Reassembles
  <2>. QED  BY <1>1, <1>3, <2>1, PartialIsFinite, FS_Subset
<1>4. CASE DOMAIN e.fragments = 0 .. e.count - 1
  BY <1>4, PartialIsFinite DEF Reassembles
<1>. QED  BY <1>3, <1>4

\* The first fragment of a number makes an entry for it.
LEMMA NewPartialInv ==
  ASSUME NEW f \in sent, sent \subseteq Fragment, f.seq < f.count, f.count <= MaxFragmentNum
  PROVE  PartialInv(NewPartial(f), f.id) /\ f.seq \in DOMAIN NewPartial(f).fragments
<1>. DEFINE e == NewPartial(f)
<1>2. f \in Fragment /\ f.count \in Counts /\ f.count \in Nat /\ f.seq \in Nat
  BY CountsAssumption DEF Fragment
<1>1. /\ e = [count |-> e.count, fragments |-> e.fragments,
              nReceived |-> e.nReceived, left |-> e.left]
      /\ e.count = f.count /\ e.nReceived = 1 /\ e.left = ReassembleTimeout
      /\ e.fragments = Put(EmptyMap, f.seq, f)
  BY <1>2, MaxFragmentNumAssumption DEF NewPartial
<1>3. DOMAIN e.fragments = {f.seq} /\ e.fragments[f.seq] = f
  BY <1>1 DEF Put, EmptyMap
<1>4. IsMap(e.fragments, 0 .. e.count - 1, Fragment)
  <2>1. f.seq \in 0 .. f.count - 1
    BY <1>2
  <2>2. IsMap(Put(EmptyMap, f.seq, f), 0 .. f.count - 1, Fragment)
    BY <1>2, <2>1 DEF Put, EmptyMap, IsMap, HasKeysIn
  <2>. QED  BY <1>1, <2>2
<1>5. e.nReceived = Cardinality(DOMAIN e.fragments)
  BY <1>1, <1>3, FS_Singleton
<1>6. IsPartial(e)
  BY <1>1, <1>2, <1>4, TimeoutAssumption DEF IsPartial
<1>. QED  BY <1>1, <1>3, <1>5, <1>6 DEF PartialInv

\* A further fragment keeps the entry right, and takes its place in it.
LEMMA AddLpPacketInv ==
  ASSUME NEW f \in sent, sent \subseteq Fragment,
         NEW e, PartialInv(e, f.id)
  PROVE  /\ PartialInv(AddLpPacket(e, f), f.id)
         /\ DOMAIN e.fragments \subseteq DOMAIN AddLpPacket(e, f).fragments
         /\ f.seq < e.count /\ f.count <= MaxFragmentNum =>
              f.seq \in DOMAIN AddLpPacket(e, f).fragments
         /\ AddLpPacket(e, f).count = e.count
<1>. DEFINE a == AddLpPacket(e, f)
<1>1. f \in Fragment /\ f.seq \in Nat /\ f.count \in Nat /\ MaxFragmentNum \in Nat
  BY CountsAssumption, MaxFragmentNumAssumption DEF Fragment
<1>2. e.count \in Nat /\ IsFiniteSet(DOMAIN e.fragments) /\ IsPartial(e)
  BY PartialIsFinite DEF PartialInv
<1>3. CASE Ignores(e, f)
  <2>1. a = e
    BY <1>3 DEF AddLpPacket
  <2>. QED  BY <1>1, <1>2, <1>3, <2>1 DEF Ignores
<1>4. CASE ~ Ignores(e, f)
  <2>1. /\ a = [e EXCEPT !.fragments = Put(e.fragments, f.seq, f),
                         !.nReceived = e.nReceived + 1,
                         !.left = ReassembleTimeout]
    BY <1>4 DEF AddLpPacket
  <2>2. e = [count |-> e.count, fragments |-> e.fragments,
             nReceived |-> e.nReceived, left |-> e.left]
    BY <1>2 DEF IsPartial
  <2>3. a = [count |-> e.count, fragments |-> Put(e.fragments, f.seq, f),
             nReceived |-> e.nReceived + 1, left |-> ReassembleTimeout]
    BY <2>1, <2>2
  <2>. HIDE DEF a
  <2>4. /\ a.count = e.count /\ a.nReceived = e.nReceived + 1
        /\ a.fragments = Put(e.fragments, f.seq, f) /\ a.left = ReassembleTimeout
    BY <2>3
  <2>. DEFINE p == Put(e.fragments, f.seq, f)
  <2>5. /\ DOMAIN p = DOMAIN e.fragments \cup {f.seq}
        /\ p[f.seq] = f
        /\ \A q \in DOMAIN e.fragments : q # f.seq /\ p[q] = e.fragments[q]
    BY <1>4 DEF Put, Ignores
  <2>6. IsMap(p, 0 .. e.count - 1, Fragment)
    <3>1. f.seq \in 0 .. e.count - 1
      BY <1>1, <1>2, <1>4 DEF Ignores
    <3>2. IsMap(e.fragments, 0 .. e.count - 1, Fragment)
      BY <1>2 DEF IsPartial
    <3>. QED  BY <1>1, <3>1, <3>2 DEF Put, IsMap, HasKeysIn
  <2>. HIDE DEF p
  <2>7. Cardinality(DOMAIN p) = Cardinality(DOMAIN e.fragments) + 1
    BY <1>2, <1>4, <2>5, FS_AddElement DEF Ignores
  <2>8. a.nReceived = Cardinality(DOMAIN a.fragments) /\ a.nReceived \in Nat
    <3>1. Cardinality(DOMAIN e.fragments) \in Nat
      BY <1>2, FS_CardinalityType
    <3>. QED  BY <2>4, <2>7, <3>1 DEF PartialInv, p
  <2>9. IsPartial(a)
    <3>1. e.count \in Counts
      BY <1>2 DEF IsPartial
    <3>2. ReassembleTimeout \in 0 .. ReassembleTimeout
      BY TimeoutAssumption
    <3>3. a = [count |-> a.count, fragments |-> a.fragments,
               nReceived |-> a.nReceived, left |-> a.left]
      BY <2>3, <2>4
    <3>4. IsMap(a.fragments, 0 .. a.count - 1, Fragment)
      BY <2>4, <2>6 DEF p
    <3>. QED  BY <2>4, <2>8, <3>1, <3>2, <3>3, <3>4 DEF IsPartial
  <2>10. \A q \in DOMAIN p : /\ p[q] \in sent /\ p[q].id = f.id /\ p[q].seq = q
                             /\ p[q].count <= MaxFragmentNum
    BY <1>1, <1>4, <2>5 DEF PartialInv, Ignores
  <2>11. \E q \in DOMAIN p : p[q].count = e.count
    BY <2>5 DEF PartialInv
  <2>12. PartialInv(a, f.id)
    BY <2>4, <2>8, <2>9, <2>10, <2>11 DEF PartialInv, p
  <2>. QED  BY <2>4, <2>5, <2>12 DEF a, p
<1>. QED  BY <1>3, <1>4

-----------------------------------------------------------------------------
(* The sending side *)

LEMMA InitInv == Init => IInv
BY DEF Init, IInv, TypeOK, SentInv, SendingInv, TableInv, KeptInv, DeliveredInv,
       UpIsOnePacket, EmptyMap

\* The table stays right while more fragments are sent.
LEMMA SendKeepsTable ==
  ASSUME IInv, sent \subseteq sent', UNCHANGED receiver
  PROVE  TableInv' /\ KeptInv' /\ DeliveredInv'
<1>1. TableInv'
  BY DEF IInv, TableInv, PartialInv, receiver
<1>2. KeptInv' /\ DeliveredInv'
  BY DEF IInv, KeptInv, DeliveredInv, OnlyFor, receiver
<1>. QED  BY <1>1, <1>2

LEMMA BeginPacketInv ==
  ASSUME IInv, NEW n \in Counts, BeginPacket(n)
  PROVE  SentInv' /\ SendingInv' /\ sent' = sent
<1>. USE DEF IInv
<1>1. packets \in Nat /\ packets' = packets + 1 /\ sent' = sent /\ sending = {}
      /\ lpPacketId' = lpPacketId /\ boot' = boot
      /\ sending' = {[pkt |-> packets + 1, count |-> n, seq |-> 0]}
  BY DEF BeginPacket, TypeOK
<1>2. \A f \in sent : f.pkt \in 1 .. packets /\ f.pkt # packets + 1
  BY <1>1 DEF SentInv
<1>3. 1 .. packets \subseteq 1 .. packets' /\ packets + 1 \in 1 .. packets'
  BY <1>1
<1>4. SentInv'
  BY <1>1, <1>2, <1>3 DEF SentInv
<1>5. SendingInv'
  BY <1>1, <1>2, <1>3 DEF SendingInv
<1>. QED  BY <1>1, <1>4, <1>5

LEMMA SendFragmentInv ==
  ASSUME IInv, SendFragment
  PROVE  SentInv' /\ SendingInv' /\ sent \subseteq sent' /\ sent' \subseteq Fragment
<1>. USE DEF IInv
<1>1. PICK s \in sending :
        /\ s.seq < s.count
        /\ sent' = sent \cup {[pkt |-> s.pkt, boot |-> boot, id |-> lpPacketId,
                               seq |-> s.seq, count |-> s.count]}
        /\ sending' = {[s EXCEPT !.seq = s.seq + 1]}
        /\ UNCHANGED <<lpPacketId, boot, packets>>
  BY DEF SendFragment
<1>. DEFINE f == [pkt |-> s.pkt, boot |-> boot, id |-> lpPacketId,
                  seq |-> s.seq, count |-> s.count]
            t == [s EXCEPT !.seq = s.seq + 1]
<1>2. /\ s = [pkt |-> s.pkt, count |-> s.count, seq |-> s.seq]
      /\ s.pkt \in Nat /\ s.count \in Counts /\ s.seq \in Nat
      /\ boot \in Nat /\ lpPacketId \in Nat
  BY CountsAssumption DEF TypeOK
<1>3. t.pkt = s.pkt /\ t.count = s.count
  BY <1>2
<1>4. f.pkt = s.pkt /\ f.boot = boot /\ f.id = lpPacketId /\ f.seq = s.seq /\ f.count = s.count
  OBVIOUS
<1>5. f \in Fragment
  BY <1>2 DEF Fragment
<1>6. sent' = sent \cup {f} /\ sending' = {t}
  BY <1>1
<1>. HIDE DEF f, t
<1>7. SentInv'
  <2>1. \A g \in sent' :
          /\ g.pkt \in 1 .. packets /\ g.seq < g.count /\ g.boot <= boot
          /\ g.boot = boot =>
               /\ g.id <= lpPacketId
               /\ g.id = lpPacketId => \E r \in sending' : r.pkt = g.pkt
    BY <1>1, <1>2, <1>3, <1>4, <1>6 DEF SentInv, SendingInv
  <2>2. \A g \in sent : g.boot = f.boot /\ g.id = f.id => g.pkt = f.pkt
    BY <1>1, <1>4 DEF SentInv, SendingInv
  <2>3. \A g \in sent : g.pkt = f.pkt => g.count = f.count
    BY <1>4 DEF SendingInv
  <2>. QED  BY <1>1, <1>6, <2>1, <2>2, <2>3 DEF SentInv
<1>8. SendingInv'
  BY <1>1, <1>3, <1>4, <1>6 DEF SendingInv
<1>9. sent \subseteq Fragment
  BY DEF TypeOK
<1>. QED  BY <1>5, <1>6, <1>7, <1>8, <1>9

\* A number that is used up, by this face or another, is not used again.
LEMMA NumberMovesOnInv ==
  ASSUME IInv, EndPacket \/ OtherFaceSends
  PROVE  SentInv' /\ SendingInv' /\ sent' = sent
<1>1. /\ lpPacketId' = lpPacketId + 1 /\ sent' = sent /\ boot' = boot
      /\ packets' = packets /\ sending' \subseteq sending
  BY DEF EndPacket, OtherFaceSends
<1>2. lpPacketId \in Nat /\ \A f \in sent : f.id \in Nat
  BY DEF IInv, TypeOK, Fragment
<1>3. SentInv'
  BY <1>1, <1>2 DEF IInv, SentInv
<1>. QED  BY <1>1, <1>3 DEF IInv, SendingInv

LEMMA RestartInv ==
  ASSUME IInv, Restart
  PROVE  SentInv' /\ SendingInv' /\ sent' = sent
<1>1. boot' = boot + 1 /\ sending' = {} /\ sent' = sent /\ packets' = packets
  BY DEF Restart
<1>2. boot \in Nat /\ \A f \in sent : f.boot \in Nat
  BY DEF IInv, TypeOK, Fragment
<1>3. \A f \in sent : f.boot <= boot' /\ f.boot # boot'
  BY <1>1, <1>2 DEF IInv, SentInv
<1>4. SentInv'
  BY <1>1, <1>3 DEF IInv, SentInv
<1>. QED  BY <1>1, <1>4 DEF SendingInv

LEMMA SendInv ==
  ASSUME IInv, Send
  PROVE  IInv'
<1>1. /\ SentInv' /\ SendingInv' /\ sent \subseteq sent' /\ sent' \subseteq Fragment
  <2>1. sent \subseteq Fragment
    BY DEF IInv, TypeOK
  <2>. QED  BY <2>1, BeginPacketInv, SendFragmentInv, NumberMovesOnInv, RestartInv DEF Send
<1>2. TableInv' /\ KeptInv' /\ DeliveredInv'
  BY <1>1, SendKeepsTable DEF Send
<1>3. UpIsOnePacket'
  BY DEF Send, UpIsOnePacket
<1>4. (lpPacketId \in Nat /\ boot \in Nat /\ packets \in Nat)'
  BY DEF IInv, TypeOK, Send, BeginPacket, SendFragment, EndPacket, OtherFaceSends, Restart
<1>5. (\A s \in sending :
        /\ s = [pkt |-> s.pkt, count |-> s.count, seq |-> s.seq]
        /\ s.pkt \in Nat /\ s.count \in Counts /\ s.seq \in 0 .. s.count)'
  <2>1. \A s \in sending :
          /\ s = [pkt |-> s.pkt, count |-> s.count, seq |-> s.seq]
          /\ s.pkt \in Nat /\ s.count \in Counts /\ s.count \in Nat /\ s.seq \in 0 .. s.count
    BY CountsAssumption DEF IInv, TypeOK
  <2>2. CASE \E n \in Counts : BeginPacket(n)
    <3>1. PICK n \in Counts : BeginPacket(n)
      BY <2>2
    <3>2. packets + 1 \in Nat /\ 0 \in 0 .. n
      BY CountsAssumption DEF IInv, TypeOK
    <3>. QED  BY <3>1, <3>2 DEF BeginPacket
  <2>3. CASE SendFragment
    <3>1. PICK s \in sending : s.seq < s.count /\ sending' = {[s EXCEPT !.seq = s.seq + 1]}
      BY <2>3 DEF SendFragment
    <3>2. s.seq + 1 \in 0 .. s.count
      BY <2>1, <3>1
    <3>. QED  BY <2>1, <3>1, <3>2
  <2>4. CASE EndPacket \/ OtherFaceSends \/ Restart
    BY <2>1, <2>4 DEF EndPacket, OtherFaceSends, Restart
  <2>. QED  BY <2>2, <2>3, <2>4 DEF Send
<1>6. (/\ \A k \in DOMAIN mPartialPackets : IsPartial(mPartialPackets[k])
       /\ arrived \subseteq sent
       /\ received \subseteq arrived)'
  BY <1>1 DEF IInv, TypeOK, Send, receiver, IsPartial
<1>7. timeoutEventHeap' = {}
  BY DEF IInv, Send, receiver
<1>8. TypeOK'
  BY <1>1, <1>4, <1>5, <1>6 DEF TypeOK
<1>. QED  BY <1>1, <1>2, <1>3, <1>7, <1>8 DEF IInv

-----------------------------------------------------------------------------
(* The receiving side *)

LEMMA EntryAfterInv ==
  ASSUME IInv, NEW f \in sent, f.id \in DOMAIN mPartialPackets \/ f.count <= MaxFragmentNum
  PROVE  /\ PartialInv(EntryAfter(f), f.id)
         /\ f.id \in DOMAIN mPartialPackets =>
              DOMAIN mPartialPackets[f.id].fragments \subseteq DOMAIN EntryAfter(f).fragments
         /\ OnlyFor(f.pkt, f.id) /\ f.count <= MaxFragmentNum =>
              f.seq \in DOMAIN EntryAfter(f).fragments
<1>1. sent \subseteq Fragment /\ f.seq < f.count /\ f.seq \in Nat /\ f.count \in Nat
  BY CountsAssumption DEF IInv, TypeOK, SentInv, Fragment
<1>2. CASE f.id \in DOMAIN mPartialPackets
  <2>. DEFINE e == mPartialPackets[f.id]
  <2>1. PartialInv(e, f.id) /\ EntryAfter(f) = AddLpPacket(e, f)
    BY <1>2 DEF IInv, TableInv, EntryAfter
  <2>2. OnlyFor(f.pkt, f.id) => e.count = f.count
    BY <2>1 DEF OnlyFor, PartialInv, IInv, SentInv
  <2>. HIDE DEF e
  <2>3. OnlyFor(f.pkt, f.id) => f.seq < e.count
    BY <1>1, <2>2
  <2>4. /\ PartialInv(AddLpPacket(e, f), f.id)
        /\ DOMAIN e.fragments \subseteq DOMAIN AddLpPacket(e, f).fragments
        /\ OnlyFor(f.pkt, f.id) /\ f.count <= MaxFragmentNum =>
             f.seq \in DOMAIN AddLpPacket(e, f).fragments
    BY <1>1, <2>1, <2>3, AddLpPacketInv
  <2>. QED  BY <2>1, <2>4 DEF e
<1>3. CASE f.id \notin DOMAIN mPartialPackets
  BY <1>1, <1>3, NewPartialInv DEF EntryAfter
<1>. QED  BY <1>2, <1>3

\* With no events in the heap, every entry stays.
LEMMA NothingTimesOut ==
  ASSUME IInv, NEW table, ProcessTimeoutEvent(table)
  PROVE  /\ timeoutEventHeap' = {}
         /\ DOMAIN mPartialPackets' = DOMAIN table
         /\ \A k \in DOMAIN table : mPartialPackets'[k] = table[k]
BY DEF IInv, ProcessTimeoutEvent, Drop

\* The first fragment of too large a packet makes an empty entry.
LEMMA TooLargeIsEmpty ==
  ASSUME IInv, NEW f \in sent, f.id \notin DOMAIN mPartialPackets, ~ (f.count <= MaxFragmentNum)
  PROVE  EntryAfter(f).fragments = EmptyMap /\ Reassembles(EntryAfter(f)) /\ f.count > MaxFragmentNum
<1>1. f.count > MaxFragmentNum
  BY CountsAssumption, MaxFragmentNumAssumption DEF IInv, TypeOK, Fragment
<1>. QED  BY <1>1 DEF EntryAfter, NewPartial, Reassembles

\* What a full entry hands up is one packet.
LEMMA EntryIsOnePacket ==
  ASSUME IInv, NEW e, NEW k, PartialInv(e, k), Reassembles(e)
  PROVE  /\ \A s \in DOMAIN e.fragments : e.fragments[s].seq = s
         /\ \A s, t \in DOMAIN e.fragments :
              e.fragments[s].boot = e.fragments[t].boot => e.fragments[s].pkt = e.fragments[t].pkt
         /\ OneBoot(e.fragments) =>
              \A s \in DOMAIN e.fragments : DOMAIN e.fragments = 0 .. e.fragments[s].count - 1
         /\ DOMAIN e.fragments # {}
<1>1. DOMAIN e.fragments = 0 .. e.count - 1
  BY FullMeansWhole DEF PartialInv
<1>2. \A s, t \in DOMAIN e.fragments :
        e.fragments[s].boot = e.fragments[t].boot => e.fragments[s].pkt = e.fragments[t].pkt
  BY DEF PartialInv, IInv, SentInv
<1>3. OneBoot(e.fragments) => \A s \in DOMAIN e.fragments : e.fragments[s].count = e.count
  BY <1>2 DEF OneBoot, PartialInv, IInv, SentInv
<1>. QED  BY <1>1, <1>2, <1>3 DEF PartialInv

LEMMA ReceiveWholeInv ==
  ASSUME IInv, NEW f \in sent, ReceivePacket(f), ReceiveWhole(f), UNCHANGED sender
  PROVE  TableInv' /\ KeptInv' /\ DeliveredInv' /\ UpIsOnePacket' /\ timeoutEventHeap' = {}
<1>1. /\ up' = {Put(EmptyMap, 0, f)} /\ sent' = sent /\ arrived' = arrived \cup {f}
      /\ mPartialPackets' = mPartialPackets /\ timeoutEventHeap' = {}
      /\ f.count = 1 /\ packets' = packets
  BY DEF ReceiveWhole, ReceivePacket, sender, IInv
<1>. DEFINE u == Put(EmptyMap, 0, f)
<1>2. DOMAIN u = {0} /\ u[0] = f
  BY DEF Put, EmptyMap
<1>3. f.seq = 0 /\ f.pkt \in 1 .. packets
  BY <1>1 DEF IInv, TypeOK, Fragment, SentInv
<1>4. up' = {u}
  BY <1>1
<1>. HIDE DEF u
<1>5. 0 .. f.count - 1 = {0}
  BY <1>1
<1>6. UpIsOnePacket'
  BY <1>2, <1>3, <1>4, <1>5 DEF UpIsOnePacket
<1>7. TableInv'
  BY <1>1 DEF IInv, TableInv, PartialInv
<1>8. f.pkt \in delivered' /\ delivered \subseteq delivered'
  BY <1>2, <1>3, <1>4 DEF ReceivePacket
<1>9. KeptInv'
  BY <1>1, <1>8 DEF IInv, KeptInv, OnlyFor
<1>10. DeliveredInv'
  <2>1. f.count <= MaxFragmentNum
    BY <1>1, MaxFragmentNumAssumption
  <2>2. \A p \in delivered' \ delivered : p = f.pkt
    BY <1>2, <1>4 DEF ReceivePacket
  <2>. QED  BY <1>1, <2>1, <2>2 DEF IInv, DeliveredInv
<1>. QED  BY <1>1, <1>6, <1>7, <1>9, <1>10

LEMMA ReceiveFragmentInv ==
  ASSUME IInv, NEW f \in sent, ReceivePacket(f), ReceiveFragment(f), UNCHANGED sender,
         f.id \in DOMAIN mPartialPackets \/ f.count <= MaxFragmentNum
  PROVE  TableInv' /\ KeptInv' /\ DeliveredInv' /\ UpIsOnePacket' /\ timeoutEventHeap' = {}
<1>. DEFINE e == EntryAfter(f)
<1>0. sent' = sent /\ packets' = packets /\ arrived' = arrived \cup {f} /\ delivered \subseteq delivered'
  BY DEF ReceivePacket, sender
<1>1. /\ PartialInv(e, f.id)
      /\ f.id \in DOMAIN mPartialPackets =>
           DOMAIN mPartialPackets[f.id].fragments \subseteq DOMAIN e.fragments
      /\ OnlyFor(f.pkt, f.id) /\ f.count <= MaxFragmentNum => f.seq \in DOMAIN e.fragments
  BY EntryAfterInv
<1>2. CASE Reassembles(e)
  <2>1. up' = {e.fragments} /\ ProcessTimeoutEvent(Drop(mPartialPackets, {f.id}))
    BY <1>2 DEF ReceiveFragment
  <2>2. /\ timeoutEventHeap' = {}
        /\ DOMAIN mPartialPackets' = DOMAIN mPartialPackets \ {f.id}
        /\ \A k \in DOMAIN mPartialPackets' : mPartialPackets'[k] = mPartialPackets[k]
    <3>1. DOMAIN Drop(mPartialPackets, {f.id}) = DOMAIN mPartialPackets \ {f.id}
      BY DEF Drop
    <3>2. \A k \in DOMAIN mPartialPackets \ {f.id} :
            Drop(mPartialPackets, {f.id})[k] = mPartialPackets[k]
      BY DEF Drop
    <3>. QED  BY <2>1, <3>1, <3>2, NothingTimesOut
  <2>3. OnlyFor(f.pkt, f.id) /\ f.count <= MaxFragmentNum => f.pkt \in delivered'
    <3>1. OnlyFor(f.pkt, f.id) => \A q \in DOMAIN e.fragments : e.fragments[q].pkt = f.pkt
      BY <1>1 DEF OnlyFor, PartialInv
    <3>2. f.pkt \in 1 .. packets
      BY DEF IInv, SentInv
    <3>. HIDE DEF e
    <3>3. OnlyFor(f.pkt, f.id) /\ f.count <= MaxFragmentNum =>
            {e.fragments[s].pkt : s \in DOMAIN e.fragments} = {f.pkt}
      BY <1>1, <3>1
    <3>. QED  BY <2>1, <3>2, <3>3 DEF ReceivePacket
  <2>. HIDE DEF e
  <2>7. DeliveredInv'
    <3>1. ASSUME NEW p \in delivered', p \notin delivered
          PROVE  \E g \in sent : g.pkt = p /\ g.count <= MaxFragmentNum
      <4>1. {e.fragments[s].pkt : s \in DOMAIN e.fragments} = {p}
        BY <2>1, <3>1 DEF ReceivePacket
      <4>2. PICK s \in DOMAIN e.fragments : e.fragments[s].pkt = p
        BY <4>1
      <4>. QED  BY <1>1, <4>2 DEF PartialInv
    <3>. QED  BY <1>0, <3>1 DEF IInv, DeliveredInv
  <2>4. UpIsOnePacket'
    BY <1>1, <1>2, <2>1, EntryIsOnePacket DEF UpIsOnePacket
  <2>5. TableInv'
    BY <1>0, <2>2 DEF IInv, TableInv, PartialInv
  <2>6. KeptInv'
    <3>. SUFFICES ASSUME NEW g \in arrived', OnlyFor(g.pkt, g.id), g.pkt \notin delivered',
                         ~ (g.count > MaxFragmentNum)
                  PROVE  /\ g.id \in DOMAIN mPartialPackets'
                         /\ g.seq \in DOMAIN mPartialPackets'[g.id].fragments
      BY <1>0 DEF KeptInv, OnlyFor
    <3>1. g # f /\ g \in arrived /\ g \in sent /\ g.count <= MaxFragmentNum
      <4>1. g \in sent
        BY <1>0 DEF IInv, TypeOK
      <4>2. g.count <= MaxFragmentNum
        BY <4>1, CountsAssumption, MaxFragmentNumAssumption DEF IInv, TypeOK, Fragment
      <4>. QED  BY <1>0, <2>3, <4>1, <4>2
    <3>2. g.id # f.id
      <4>1. g.pkt = f.pkt => g.count = f.count
        BY <3>1 DEF IInv, SentInv
      <4>2. OnlyFor(g.pkt, g.id) /\ g.id = f.id => g.pkt = f.pkt
        BY DEF OnlyFor
      <4>. QED  BY <2>3, <3>1, <4>1, <4>2
    <3>. QED  BY <1>0, <2>2, <3>1, <3>2 DEF IInv, KeptInv
  <2>. QED  BY <2>2, <2>4, <2>5, <2>6, <2>7
<1>3. CASE ~ Reassembles(e)
  <2>1. up' = {} /\ ProcessTimeoutEvent(Put(mPartialPackets, f.id, e))
    BY <1>3 DEF ReceiveFragment
  <2>. HIDE DEF e
  <2>2. /\ timeoutEventHeap' = {}
        /\ DOMAIN mPartialPackets' = DOMAIN mPartialPackets \cup {f.id}
        /\ mPartialPackets'[f.id] = e
        /\ \A k \in DOMAIN mPartialPackets' \ {f.id} : mPartialPackets'[k] = mPartialPackets[k]
    <3>1. DOMAIN Put(mPartialPackets, f.id, e) = DOMAIN mPartialPackets \cup {f.id}
      BY DEF Put
    <3>2. Put(mPartialPackets, f.id, e)[f.id] = e
      BY DEF Put
    <3>3. \A k \in DOMAIN mPartialPackets \ {f.id} :
            Put(mPartialPackets, f.id, e)[k] = mPartialPackets[k]
      BY DEF Put
    <3>. QED  BY <2>1, <3>1, <3>2, <3>3, NothingTimesOut
  <2>3. UpIsOnePacket'
    BY <2>1 DEF UpIsOnePacket
  <2>4. e.nReceived < e.count
    BY <1>1, <1>3, PartialIsFinite, FS_CardinalityType DEF PartialInv, Reassembles
  <2>5. TableInv'
    BY <1>0, <1>1, <2>2, <2>4 DEF IInv, TableInv, PartialInv
  <2>6. KeptInv'
    <3>. SUFFICES ASSUME NEW g \in arrived', OnlyFor(g.pkt, g.id), g.pkt \notin delivered',
                         ~ (g.count > MaxFragmentNum)
                  PROVE  /\ g.id \in DOMAIN mPartialPackets'
                         /\ g.seq \in DOMAIN mPartialPackets'[g.id].fragments
      BY <1>0 DEF KeptInv, OnlyFor
    <3>1. CASE g = f
      <4>1. f.count <= MaxFragmentNum
        BY <3>1, CountsAssumption, MaxFragmentNumAssumption DEF IInv, TypeOK, Fragment
      <4>. QED  BY <1>1, <2>2, <3>1, <4>1
    <3>2. CASE g # f
      <4>1. /\ g.id \in DOMAIN mPartialPackets
            /\ g.seq \in DOMAIN mPartialPackets[g.id].fragments
        BY <1>0, <3>2 DEF IInv, KeptInv
      <4>. QED  BY <1>1, <2>2, <4>1
    <3>. QED  BY <3>1, <3>2
  <2>7. DeliveredInv'
    BY <1>0, <2>1 DEF IInv, DeliveredInv, ReceivePacket
  <2>. QED  BY <2>2, <2>3, <2>5, <2>6, <2>7
<1>. QED  BY <1>2, <1>3

LEMMA ReceiveTooLargeInv ==
  ASSUME IInv, NEW f \in sent, ReceivePacket(f), ReceiveFragment(f), UNCHANGED sender,
         f.id \notin DOMAIN mPartialPackets, ~ (f.count <= MaxFragmentNum)
  PROVE  TableInv' /\ KeptInv' /\ DeliveredInv' /\ UpIsOnePacket' /\ timeoutEventHeap' = {}
<1>1. /\ up' = {EmptyMap} /\ f.count > MaxFragmentNum
      /\ ProcessTimeoutEvent(Drop(mPartialPackets, {f.id}))
  BY TooLargeIsEmpty DEF ReceiveFragment
<1>2. /\ timeoutEventHeap' = {}
      /\ DOMAIN mPartialPackets' = DOMAIN mPartialPackets
      /\ \A k \in DOMAIN mPartialPackets : mPartialPackets'[k] = mPartialPackets[k]
  <2>1. /\ DOMAIN Drop(mPartialPackets, {f.id}) = DOMAIN mPartialPackets
        /\ \A k \in DOMAIN mPartialPackets :
             Drop(mPartialPackets, {f.id})[k] = mPartialPackets[k]
    BY DEF Drop
  <2>. QED  BY <1>1, <2>1, NothingTimesOut
<1>3. /\ sent' = sent /\ arrived' = arrived \cup {f} /\ received' = {f}
      /\ delivered' = delivered
  <2>1. {EmptyMap[s].pkt : s \in DOMAIN EmptyMap} = {}
    BY DEF EmptyMap
  <2>. QED  BY <1>1, <2>1 DEF ReceivePacket, sender
<1>4. TableInv'
  BY <1>2, <1>3 DEF IInv, TableInv, PartialInv
<1>5. KeptInv' /\ DeliveredInv'
  BY <1>1, <1>2, <1>3 DEF IInv, KeptInv, DeliveredInv, OnlyFor
<1>6. UpIsOnePacket'
  BY <1>1, <1>3 DEF UpIsOnePacket, EmptyMap
<1>. QED  BY <1>2, <1>4, <1>5, <1>6

LEMMA ReceiveInv ==
  ASSUME IInv, Receive
  PROVE  IInv'
<1>1. PICK f \in sent : ReceivePacket(f) /\ UNCHANGED sender
  BY DEF Receive
<1>2. TableInv' /\ KeptInv' /\ DeliveredInv' /\ UpIsOnePacket' /\ timeoutEventHeap' = {}
  BY <1>1, ReceiveWholeInv, ReceiveFragmentInv, ReceiveTooLargeInv DEF ReceivePacket
<1>3. SentInv' /\ SendingInv'
  BY <1>1 DEF IInv, SentInv, SendingInv, sender
<1>4. TypeOK'
  BY <1>1, <1>2 DEF IInv, TypeOK, TableInv, PartialInv, ReceivePacket, sender
<1>. QED  BY <1>2, <1>3, <1>4 DEF IInv

LEMMA TickInv ==
  ASSUME IInv, Tick
  PROVE  IInv'
<1>1. /\ UNCHANGED <<sender, arrived, delivered>> /\ up' = {} /\ received' = {}
      /\ timeoutEventHeap' = {}
  BY DEF Tick, IInv
<1>2. DOMAIN mPartialPackets' = DOMAIN mPartialPackets
  BY DEF Tick
<1>3. ASSUME NEW k \in DOMAIN mPartialPackets
      PROVE  /\ PartialInv(mPartialPackets'[k], k)
             /\ mPartialPackets'[k].nReceived < mPartialPackets'[k].count
             /\ mPartialPackets'[k].fragments = mPartialPackets[k].fragments
  <2>. DEFINE e == mPartialPackets[k]
  <2>1. PartialInv(e, k) /\ e.nReceived < e.count
    BY DEF IInv, TableInv
  <2>2. mPartialPackets'[k] = [e EXCEPT !.left = Minus1(e.left)]
    BY DEF Tick
  <2>. HIDE DEF e
  <2>3. e = [count |-> e.count, fragments |-> e.fragments,
             nReceived |-> e.nReceived, left |-> e.left]
    BY <2>1 DEF PartialInv, IsPartial
  <2>. DEFINE a == [e EXCEPT !.left = Minus1(e.left)]
  <2>4. a = [count |-> e.count, fragments |-> e.fragments,
             nReceived |-> e.nReceived, left |-> Minus1(e.left)]
    BY <2>3
  <2>. HIDE DEF a
  <2>5. /\ a.count = e.count /\ a.fragments = e.fragments
        /\ a.nReceived = e.nReceived /\ a.left = Minus1(e.left)
    BY <2>4
  <2>6. Minus1(e.left) \in 0 .. ReassembleTimeout
    BY <2>1, TimeoutAssumption DEF PartialInv, IsPartial, Minus1
  <2>7. a = [count |-> a.count, fragments |-> a.fragments,
             nReceived |-> a.nReceived, left |-> a.left]
    BY <2>4, <2>5
  <2>8. IsPartial(a)
    BY <2>1, <2>5, <2>6, <2>7 DEF PartialInv, IsPartial
  <2>9. PartialInv(a, k) /\ a.nReceived < a.count
    BY <2>1, <2>5, <2>8 DEF PartialInv
  <2>. QED  BY <2>2, <2>5, <2>9 DEF a, e
<1>4. TableInv'
  BY <1>1, <1>2, <1>3 DEF TableInv, PartialInv, sender
<1>5. KeptInv' /\ DeliveredInv'
  BY <1>1, <1>2, <1>3 DEF IInv, KeptInv, DeliveredInv, OnlyFor, sender
<1>6. SentInv' /\ SendingInv' /\ UpIsOnePacket'
  BY <1>1 DEF IInv, SentInv, SendingInv, UpIsOnePacket, sender
<1>7. TypeOK'
  BY <1>1, <1>4 DEF IInv, TypeOK, TableInv, PartialInv, sender
<1>. QED  BY <1>1, <1>4, <1>5, <1>6, <1>7 DEF IInv

-----------------------------------------------------------------------------
(* The theorems *)

LEMMA Inductive == Spec => []IInv
<1>1. IInv /\ [Next]_vars => IInv'
  <2>. SUFFICES ASSUME IInv, [Next]_vars PROVE IInv'
    OBVIOUS
  <2>1. CASE UNCHANGED vars
    BY <2>1 DEF vars, IInv, TypeOK, SentInv, SendingInv, TableInv, PartialInv,
                IsPartial, KeptInv, DeliveredInv, OnlyFor, UpIsOnePacket
  <2>. QED  BY <2>1, SendInv, ReceiveInv, TickInv DEF Next
<1>. QED  BY <1>1, InitInv, PTL DEF Spec

\* LinkService and LpReassemble keep their data in shape.
THEOREM TypeCorrect == Spec => []TypeOK
BY Inductive, PTL DEF IInv

\* No packet handed to a logic face mixes fragments of two packets that one
\* run of the sender numbered, or lacks one, however the faces that share the
\* packet number interleave and whatever the link does to the fragments.
THEOREM HandsUpOnePacket == Spec => []UpIsOnePacket
BY Inductive, PTL DEF IInv

\* The table holds incomplete packets only, and their counters are right.
THEOREM PartialsStayIncomplete == Spec => []PartialsAreIncomplete
<1>1. IInv => PartialsAreIncomplete
  BY DEF IInv, TableInv, PartialInv, PartialsAreIncomplete
<1>. QED  BY <1>1, Inductive, PTL

\* A packet all of whose fragments arrived under a number of its own has been
\* handed to the logic face if it has at most MaxFragmentNum, and only then.
THEOREM WholePacketsAreDelivered == Spec => []WholeIsDelivered
<1>1. IInv => WholeIsDelivered
  <2>. SUFFICES ASSUME IInv, NEW f \in arrived,
                       OnlyFor(f.pkt, f.id), AllArrived(f),
                       f.count <= MaxFragmentNum, f.pkt \notin delivered
                PROVE  FALSE
    <3>1. ASSUME IInv, NEW h \in arrived, h.pkt \in delivered
          PROVE  h.count <= MaxFragmentNum
      <4>1. PICK g \in sent : g.pkt = h.pkt /\ g.count <= MaxFragmentNum
        BY <3>1 DEF IInv, DeliveredInv
      <4>. QED  BY <3>1, <4>1 DEF IInv, TypeOK, SentInv
    <3>. QED  BY <3>1 DEF WholeIsDelivered
  <2>. DEFINE e == mPartialPackets[f.id]
  <2>1. /\ f \in sent /\ f.seq \in 0 .. f.count - 1
        /\ f.id \in DOMAIN mPartialPackets
        /\ PartialInv(e, f.id) /\ e.nReceived < e.count
    BY CountsAssumption, MaxFragmentNumAssumption
       DEF IInv, TypeOK, Fragment, SentInv, KeptInv, TableInv
  <2>2. e.count = f.count
    BY <2>1 DEF PartialInv, OnlyFor, IInv, SentInv
  <2>3. 0 .. f.count - 1 \subseteq DOMAIN e.fragments
    <3>1. \A g \in arrived : g.pkt = f.pkt => g.count = f.count
      BY DEF IInv, TypeOK, SentInv
    <3>2. ~ (f.count > MaxFragmentNum)
      BY CountsAssumption, MaxFragmentNumAssumption DEF IInv, TypeOK, Fragment
    <3>. QED  BY <3>1, <3>2 DEF AllArrived, IInv, KeptInv
  <2>. HIDE DEF e
  <2>4. DOMAIN e.fragments = 0 .. e.count - 1
    BY <2>1, <2>2, <2>3, PartialIsFinite DEF PartialInv
  <2>5. e.nReceived >= e.count
    BY <2>1, <2>4, FullMeansWhole DEF PartialInv, Reassembles
  <2>6. e.nReceived \in Nat /\ e.count \in Nat
    BY <2>1, PartialIsFinite DEF PartialInv, IsPartial
  <2>. QED  BY <2>1, <2>5, <2>6
<1>. QED  BY <1>1, Inductive, PTL

-----------------------------------------------------------------------------
(* Nothing is ever dropped *)

\* The fragments of a are fragments of b, at the same places.
IsPartOf(a, b) == \A q \in DOMAIN a : q \in DOMAIN b /\ b[q] = a[q]

\* What entry k holds is in the table afterwards, or goes up.
KeptOrUp(k) ==
  \/ /\ k \in DOMAIN mPartialPackets'
     /\ IsPartOf(mPartialPackets[k].fragments, mPartialPackets'[k].fragments)
  \/ \E u \in up' : IsPartOf(mPartialPackets[k].fragments, u)

LEMMA EntryOnlyGrows ==
  ASSUME IInv, NEW f, f.id \in DOMAIN mPartialPackets
  PROVE  IsPartOf(mPartialPackets[f.id].fragments, EntryAfter(f).fragments)
<1>. DEFINE e == mPartialPackets[f.id]
<1>1. e = [count |-> e.count, fragments |-> e.fragments,
           nReceived |-> e.nReceived, left |-> e.left]
  BY DEF IInv, TableInv, PartialInv, IsPartial
<1>2. EntryAfter(f) = AddLpPacket(e, f)
  BY DEF EntryAfter
<1>. HIDE DEF e
<1>3. AddLpPacket(e, f).fragments =
        IF Ignores(e, f) THEN e.fragments ELSE Put(e.fragments, f.seq, f)
  BY <1>1 DEF AddLpPacket
<1>4. IsPartOf(e.fragments, AddLpPacket(e, f).fragments)
  BY <1>3 DEF IsPartOf, Put, Ignores
<1>. QED  BY <1>2, <1>4 DEF e

LEMMA FragmentForgetsNothing ==
  ASSUME IInv, NEW f \in sent, ReceiveFragment(f), NEW k \in DOMAIN mPartialPackets
  PROVE  KeptOrUp(k)
<1>. DEFINE e == EntryAfter(f)
<1>1. k = f.id => IsPartOf(mPartialPackets[k].fragments, e.fragments)
  BY EntryOnlyGrows
<1>2. CASE Reassembles(e)
  <2>1. up' = {e.fragments} /\ ProcessTimeoutEvent(Drop(mPartialPackets, {f.id}))
    BY <1>2 DEF ReceiveFragment
  <2>. HIDE DEF e
  <2>2. k # f.id => k \in DOMAIN mPartialPackets' /\ mPartialPackets'[k] = mPartialPackets[k]
    BY <2>1, NothingTimesOut DEF Drop
  <2>. QED  BY <1>1, <2>1, <2>2 DEF KeptOrUp, IsPartOf
<1>3. CASE ~Reassembles(e)
  <2>1. ProcessTimeoutEvent(Put(mPartialPackets, f.id, e))
    BY <1>3 DEF ReceiveFragment
  <2>. HIDE DEF e
  <2>2. /\ k \in DOMAIN mPartialPackets'
        /\ mPartialPackets'[k] = IF k = f.id THEN e ELSE mPartialPackets[k]
    BY <2>1, NothingTimesOut DEF Put
  <2>. QED  BY <1>1, <2>2 DEF KeptOrUp, IsPartOf
<1>. QED  BY <1>2, <1>3

\* A fragment that is in the table stays there until its packet goes up, however much
\* time passes and whatever ReassembleTimeout is: ReceiveFragment puts no event on the
\* empty heap, so processTimeoutEvent never finds one.
THEOREM FragmentsAreNeverDropped ==
  Spec => [][\A k \in DOMAIN mPartialPackets : KeptOrUp(k)]_vars
<1>1. ASSUME IInv, Next, NEW k \in DOMAIN mPartialPackets
      PROVE  KeptOrUp(k)
  <2>1. CASE Send
    BY <2>1 DEF Send, receiver, KeptOrUp, IsPartOf
  <2>2. CASE Receive
    <3>1. PICK f \in sent : ReceiveWhole(f) \/ ReceiveFragment(f)
      BY <2>2 DEF Receive, ReceivePacket
    <3>2. CASE ReceiveWhole(f)
      BY <3>2 DEF ReceiveWhole, KeptOrUp, IsPartOf
    <3>. QED  BY <1>1, <3>1, <3>2, FragmentForgetsNothing
  <2>3. CASE Tick
    <3>1. mPartialPackets[k] = [count |-> mPartialPackets[k].count,
                                fragments |-> mPartialPackets[k].fragments,
                                nReceived |-> mPartialPackets[k].nReceived,
                                left |-> mPartialPackets[k].left]
      BY <1>1 DEF IInv, TableInv, PartialInv, IsPartial
    <3>2. k \in DOMAIN mPartialPackets'
          /\ mPartialPackets'[k].fragments = mPartialPackets[k].fragments
      BY <1>1, <2>3, <3>1 DEF Tick
    <3>. QED  BY <3>2 DEF KeptOrUp, IsPartOf
  <2>. QED  BY <1>1, <2>1, <2>2, <2>3 DEF Next
<1>2. IInv /\ Next => \A k \in DOMAIN mPartialPackets : KeptOrUp(k)
  BY <1>1
<1>. QED  BY <1>2, Inductive, PTL DEF Spec
=============================================================================
