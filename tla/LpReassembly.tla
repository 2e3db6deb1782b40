---------------------------- MODULE LpReassembly ----------------------------
(***************************************************************************)
(* Packets cut into LpPacket fragments by the LinkService of one router    *)
(* and put together by the LinkService at the other end of the link        *)
(* (daemon/lf/LinkService.go, LpReassemble.go, LpReassembleDataStruct.go). *)
(*                                                                         *)
(* One face sends; the other faces of its router share the packet number   *)
(* lpPacketId with it and may move it on between any two fragments.  The   *)
(* link loses, delays, duplicates and reorders: a fragment once sent may   *)
(* arrive any number of times.  The sending router may restart, which      *)
(* starts the numbers anew while the receiver's table stays.               *)
(***************************************************************************)
EXTENDS Naturals, FiniteSets, Maps

CONSTANTS
  Counts,             \* numbers of fragments a packet is cut into
  MaxFragmentNum,     \* more fragments than this are not put together
  MaxPackets,         \* bound: packets the face sends
  MaxId,              \* bound: the packet numbers a run of the router uses
  MaxBoot,            \* bound: restarts of the sending router
  ReassembleTimeout   \* in abstract units

ASSUME CountsAssumption == Counts \subseteq Nat \ {0}
ASSUME MaxFragmentNumAssumption == MaxFragmentNum \in Nat \ {0}
ASSUME BoundsAssumption == {MaxPackets, MaxId, MaxBoot} \subseteq Nat
ASSUME TimeoutAssumption == ReassembleTimeout \in Nat \ {0}

VARIABLES
  lpPacketId,       \* the number shared by all faces of the sending router
  boot,             \* restarts of that router so far
  packets,          \* packets the face has begun to send
  sending,          \* the packet in sendByteBuffer, if any
  sent,             \* every fragment put on the link so far
  mPartialPackets,  \* the receiver's table: id -> partial packet
  timeoutEventHeap, \* the events [key, left] in its heap
  arrived,          \* history: every fragment that has reached the receiver
  delivered,        \* history: the packets handed to the logic face
  received,         \* the fragment handled in the last step, if any
  up                \* the fragments, by position, of what was put together in
                    \* the last step, if anything was

sender == <<lpPacketId, boot, packets, sending, sent>>
receiver == <<mPartialPackets, timeoutEventHeap, arrived, delivered>>
vars == <<lpPacketId, boot, packets, sending, sent,
          mPartialPackets, timeoutEventHeap, arrived, delivered, received, up>>

-----------------------------------------------------------------------------
(* The sending side *)

Fragment == [pkt : Nat, boot : Nat, id : Nat, seq : Nat, count : Counts]

\* sendByteBuffer is called with a packet of n fragments.
BeginPacket(n) ==
  /\ sending = {}
  /\ packets < MaxPackets
  /\ packets' = packets + 1
  /\ sending' = {[pkt |-> packets + 1, count |-> n, seq |-> 0]}
  /\ UNCHANGED <<lpPacketId, boot, sent>>

\* Seeded fault: the loop runs once more than there are fragments.
SendFragment_OneMore ==
  \E s \in sending :
    /\ s.seq <= s.count
    /\ sent' = sent \cup {[pkt |-> s.pkt, boot |-> boot, id |-> lpPacketId,
                           seq |-> s.seq, count |-> s.count]}
    /\ sending' = {[s EXCEPT !.seq = @ + 1]}
    /\ UNCHANGED <<lpPacketId, boot, packets>>

\* sendFragment for the next fragment, under the number of this moment.
SendFragment ==
  \E s \in sending :
    /\ s.seq < s.count
    /\ sent' = sent \cup {[pkt |-> s.pkt, boot |-> boot, id |-> lpPacketId,
                           seq |-> s.seq, count |-> s.count]}
    /\ sending' = {[s EXCEPT !.seq = @ + 1]}
    /\ UNCHANGED <<lpPacketId, boot, packets>>

\* Seeded fault: the number is left for the next packet to use again.
EndPacket_SameNumber ==
  \E s \in sending :
    /\ s.seq = s.count
    /\ sending' = {}
    /\ UNCHANGED <<lpPacketId, boot, packets, sent>>

\* The packet is out and its number is used up.
EndPacket ==
  \E s \in sending :
    /\ s.seq = s.count
    /\ lpPacketId < MaxId
    /\ lpPacketId' = lpPacketId + 1
    /\ sending' = {}
    /\ UNCHANGED <<boot, packets, sent>>

\* Another face of the router finishes a packet of its own.
OtherFaceSends ==
  /\ lpPacketId < MaxId
  /\ lpPacketId' = lpPacketId + 1
  /\ UNCHANGED <<boot, packets, sending, sent>>

\* The process ends, in the middle of a packet perhaps, and starts again.
Restart ==
  /\ boot < MaxBoot
  /\ boot' = boot + 1
  /\ lpPacketId' = 0
  /\ sending' = {}
  /\ UNCHANGED <<packets, sent>>

-----------------------------------------------------------------------------
(* The receiving side: a partial packet holds its fragments by position *)

IsPartial(e) ==
  /\ e = [count |-> e.count, fragments |-> e.fragments,
          nReceived |-> e.nReceived, left |-> e.left]
  /\ e.count \in Counts
  /\ IsMap(e.fragments, 0 .. e.count - 1, Fragment)
  /\ e.nReceived \in Nat
  /\ e.left \in 0 .. ReassembleTimeout

\* Seeded fault: a packet of the largest number of fragments is refused too.
NewPartial_TooStrict(f) ==
  IF f.count >= MaxFragmentNum
  THEN [count |-> 0, fragments |-> EmptyMap, nReceived |-> 0, left |-> 0]
  ELSE [count |-> f.count, fragments |-> Put(EmptyMap, f.seq, f),
        nReceived |-> 1, left |-> ReassembleTimeout]

\* A fragment of too large a packet leaves the new entry as it was made: empty.
NewPartial(f) ==
  IF f.count > MaxFragmentNum
  THEN [count |-> 0, fragments |-> EmptyMap, nReceived |-> 0, left |-> 0]
  ELSE [count |-> f.count, fragments |-> Put(EmptyMap, f.seq, f),
        nReceived |-> 1, left |-> ReassembleTimeout]

Ignores(e, f) ==
  f.count > MaxFragmentNum \/ f.seq >= e.count \/ f.seq \in DOMAIN e.fragments

\* Seeded fault: a fragment that came before replaces the one in its place.
AddLpPacket_Again(e, f) ==
  IF f.count > MaxFragmentNum \/ f.seq >= e.count
  THEN e
  ELSE [e EXCEPT !.fragments = Put(@, f.seq, f),
                 !.nReceived = @ + 1,
                 !.left = ReassembleTimeout]

\* A fragment of too large a packet, out of place, or that came before changes
\* nothing.
AddLpPacket(e, f) ==
  IF Ignores(e, f)
  THEN e
  ELSE [e EXCEPT !.fragments = Put(@, f.seq, f),
                 !.nReceived = @ + 1,
                 !.left = ReassembleTimeout]

EntryAfter(f) ==
  IF f.id \in DOMAIN mPartialPackets
  THEN AddLpPacket(mPartialPackets[f.id], f)
  ELSE NewPartial(f)

\* DoReassemble does not return nil.  For an empty entry it returns a packet
\* without content.
Reassembles(e) == e.nReceived >= e.count

\* Each due event is taken off the heap.  Its entry, if it is there still, is
\* deleted when it has time left; otherwise the event goes back and is due
\* again, so that the loop does not end while such an entry is there.
ProcessTimeoutEvent(table) ==
  LET due == {e \in timeoutEventHeap : e.left = 0}
      entries == {e.key : e \in due} \cap DOMAIN table
  IN  /\ \A k \in entries : table[k].left > 0
      /\ timeoutEventHeap' = timeoutEventHeap \ due
      /\ mPartialPackets' = Drop(table, entries)

\* A packet of one fragment does not go through the table.
ReceiveWhole(f) ==
  /\ f.count = 1
  /\ up' = {Put(EmptyMap, 0, f)}
  /\ UNCHANGED <<mPartialPackets, timeoutEventHeap>>

\* LpReassemble.ReceiveFragment
ReceiveFragment(f) ==
  LET e == EntryAfter(f)
  IN  /\ f.count > 1
      /\ IF Reassembles(e)
         THEN /\ up' = {e.fragments}
              /\ ProcessTimeoutEvent(Drop(mPartialPackets, {f.id}))
         ELSE /\ up' = {}
              /\ ProcessTimeoutEvent(Put(mPartialPackets, f.id, e))

\* LinkService.ReceivePacket.  A packet without content does not decode, and so
\* does not reach the logic face.
ReceivePacket(f) ==
  /\ ReceiveWhole(f) \/ ReceiveFragment(f)
  /\ arrived' = arrived \cup {f}
  /\ delivered' = delivered \cup
       {p \in 1 .. packets : \E u \in up' : {u[s].pkt : s \in DOMAIN u} = {p}}
  /\ received' = {f}

-----------------------------------------------------------------------------
Send ==
  /\ \/ \E n \in Counts : BeginPacket(n)
     \/ SendFragment
     \/ EndPacket
     \/ OtherFaceSends
     \/ Restart
  /\ received' = {}
  /\ up' = {}
  /\ UNCHANGED receiver

Receive == \E f \in sent : ReceivePacket(f) /\ UNCHANGED sender

Minus1(t) == IF t = 0 THEN 0 ELSE t - 1

\* A unit of time passes while a partial packet waits.
Tick ==
  /\ \E k \in DOMAIN mPartialPackets : mPartialPackets[k].left > 0
  /\ mPartialPackets' =
       [k \in DOMAIN mPartialPackets |->
         [mPartialPackets[k] EXCEPT !.left = Minus1(@)]]
  /\ timeoutEventHeap' =
       {[e EXCEPT !.left = Minus1(@)] : e \in timeoutEventHeap}
  /\ received' = {}
  /\ up' = {}
  /\ UNCHANGED <<sender, arrived, delivered>>

Init ==
  /\ lpPacketId = 0
  /\ boot = 0
  /\ packets = 0
  /\ sending = {}
  /\ sent = {}
  /\ mPartialPackets = EmptyMap
  /\ timeoutEventHeap = {}
  /\ arrived = {}
  /\ delivered = {}
  /\ received = {}
  /\ up = {}

Next == Send \/ Receive \/ Tick

Spec == Init /\ [][Next]_vars

-----------------------------------------------------------------------------
TypeOK ==
  /\ lpPacketId \in Nat /\ boot \in Nat /\ packets \in Nat
  /\ \A s \in sending :
       /\ s = [pkt |-> s.pkt, count |-> s.count, seq |-> s.seq]
       /\ s.pkt \in Nat /\ s.count \in Counts /\ s.seq \in 0 .. s.count
  /\ sent \subseteq Fragment
  /\ \A k \in DOMAIN mPartialPackets : IsPartial(mPartialPackets[k])
  /\ arrived \subseteq sent
  /\ received \subseteq arrived

OneBoot(u) == \A s, t \in DOMAIN u : u[s].boot = u[t].boot

\* What is put together has every fragment in its place.  Two of its fragments
\* that one run of the sending router sent are of the same packet, and when all
\* are, none is missing.  It is empty only on account of too large a packet.
UpIsOnePacket ==
  \A u \in up :
    /\ \A s \in DOMAIN u : u[s].seq = s
    /\ \A s, t \in DOMAIN u : u[s].boot = u[t].boot => u[s].pkt = u[t].pkt
    /\ OneBoot(u) => \A s \in DOMAIN u : DOMAIN u = 0 .. u[s].count - 1
    /\ DOMAIN u = {} => \E f \in received : f.count > MaxFragmentNum

\* A partial packet in the table lacks a fragment, and counts right.
PartialsAreIncomplete ==
  \A k \in DOMAIN mPartialPackets :
    LET e == mPartialPackets[k]
    IN  /\ e.nReceived = Cardinality(DOMAIN e.fragments)
        /\ e.nReceived < e.count

\* The number k was used for packet p only.
OnlyFor(p, k) == \A f \in sent : f.id = k => f.pkt = p

\* Every fragment of the packet that f is part of arrived under f's number.
AllArrived(f) ==
  \A q \in 0 .. f.count - 1 :
    \E g \in arrived : g.pkt = f.pkt /\ g.id = f.id /\ g.seq = q

\* Once all fragments of a packet have arrived under one number that no other
\* packet used, in whatever order and with whatever repetitions and gaps, the
\* packet has been handed to the logic face, unless it is too large.
WholeIsDelivered ==
  \A f \in arrived :
    OnlyFor(f.pkt, f.id) /\ AllArrived(f) =>
      (f.pkt \in delivered <=> f.count <= MaxFragmentNum)

=============================================================================
