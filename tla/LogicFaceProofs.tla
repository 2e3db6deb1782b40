-------------------------- MODULE LogicFaceProofs ---------------------------
(***************************************************************************)
(* Proofs about LogicFace, for queues of any size.  The goroutines race in *)
(* Shutdown, but one that has come to closing has marked the face down     *)
(* before, nothing marks it up again, and who finds the channels closed    *)
(* panics before it gets to the callback.                                  *)
(*                                                                         *)
(* The liveness theorems follow from fairness by the rule for WF: each     *)
(* goroutine of a face that is down has a few places left, in the order of *)
(* Ways, and a step of its own takes it from one to the next.  Only the    *)
(* receiving pump, which others may overtake, needs SF.                    *)
(***************************************************************************)
EXTENDS LogicFace, TLAPS

\* Where a goroutine may go without having marked the face down.
Elsewhere == {"read", "take", "hand", "write", "tick", "send", "idle",
              "elsewhere", "scan", "mark", "remove", "done"}

PcInv ==
  /\ pc \in [Threads -> Elsewhere \cup {"close"}]
  /\ \A t \in Closers : pc[t] = "close" => ~state

QueueInv ==
  /\ sendQue \in 0 .. LFSendQueSize
  /\ recvQue \in 0 .. LFRecvQueSize
  /\ packetQueue \in 0 .. PacketQueueSize

ShutdownInv ==
  /\ closed => ~state /\ conn = "broken" /\ evicted = 1
  /\ ~closed => evicted = 0

IInv == PcInv /\ QueueInv /\ ShutdownInv

Moves(t) == \E to \in Elsewhere : pc' = [pc EXCEPT ![t] = to]

FaceKept ==
  /\ state' = state /\ closed' = closed /\ evicted' = evicted
  /\ conn = "broken" => conn' = "broken"

LEMMA ClosersAre ==
  /\ Closers = {"reader", "recvPump", "sendPump", "cleaner", "manager"}
  /\ Threads = Closers \cup {"heartbeat", "forwarder"}
  /\ \A t \in Closers : AfterShutdown[t] \in {"done", "remove"}
BY DEF Closers, Threads, AfterShutdown

-----------------------------------------------------------------------------
(* What a step of a goroutine does to the invariant *)

LEMMA CallShutdownMoves ==
  ASSUME NEW t \in Closers, NEW from, CallShutdown(t, from)
  PROVE  Moves(t)
<1>1. CASE state
  BY <1>1 DEF CallShutdown, Goto, Moves, Elsewhere
<1>2. CASE ~state
  BY <1>2, ClosersAre DEF CallShutdown, Goto, Moves, Elsewhere
<1>. QED  BY <1>1, <1>2

LEMMA ToTakeOrDoneMoves ==
  ASSUME NEW t, NEW from, ToTakeOrDone(t, from)
  PROVE  Moves(t)
<1>1. CASE state
  BY <1>1 DEF ToTakeOrDone, Goto, Moves, Elsewhere
<1>2. CASE ~state
  BY <1>2 DEF ToTakeOrDone, Goto, Moves, Elsewhere
<1>. QED  BY <1>1, <1>2

LEMMA PcKept ==
  ASSUME IInv, FaceKept, UNCHANGED pc \/ \E t \in Threads : Moves(t)
  PROVE  PcInv' /\ ShutdownInv'
<1>1. ShutdownInv'
  BY DEF IInv, ShutdownInv, FaceKept
<1>2. state' = state
  BY DEF FaceKept
<1>3. CASE UNCHANGED pc
  BY <1>1, <1>2, <1>3 DEF IInv, PcInv
<1>4. ASSUME NEW t \in Threads, Moves(t) PROVE PcInv'
  <2>1. PICK to \in Elsewhere : pc' = [pc EXCEPT ![t] = to]
    BY <1>4 DEF Moves
  <2>2. "close" \notin Elsewhere
    BY DEF Elsewhere
  <2>3. pc' \in [Threads -> Elsewhere \cup {"close"}]
    BY <2>1 DEF IInv, PcInv
  <2>4. ASSUME NEW s \in Closers, pc'[s] = "close" PROVE pc[s] = "close"
    BY <2>1, <2>2, <2>4, ClosersAre DEF IInv, PcInv
  <2>. QED  BY <1>2, <2>3, <2>4 DEF IInv, PcInv
<1>. QED  BY <1>1, <1>3, <1>4

\* What every step but those of Shutdown is shown to do.
LEMMA StepInv ==
  ASSUME IInv, FaceKept, UNCHANGED pc \/ \E t \in Threads : Moves(t),
         QueueInv'
  PROVE  IInv'
BY PcKept DEF IInv

-----------------------------------------------------------------------------
(* The invariant holds at first and is kept *)

LEMMA InitInv == Init => IInv
<1>. SUFFICES ASSUME Init PROVE IInv
  OBVIOUS
<1>1. DOMAIN pc = Threads /\ \A t \in Threads : pc[t] \in Elsewhere
  <2>1. CASE persistent
    BY <2>1, ClosersAre DEF Init, Elsewhere
  <2>2. CASE ~persistent
    BY <2>2, ClosersAre DEF Init, Elsewhere
  <2>. QED  BY <2>1, <2>2
<1>2. pc \in [Threads -> Elsewhere]
  <2>1. pc = [t \in DOMAIN pc |-> pc[t]]
    BY DEF Init
  <2>. QED  BY <1>1, <2>1
<1>3. PcInv
  <2>1. \A t \in Closers : pc[t] # "close"
    BY <1>1, ClosersAre DEF Elsewhere
  <2>. QED  BY <1>2, <2>1 DEF PcInv
<1>4. QueueInv
  BY QueueAssumption DEF Init, QueueInv
<1>5. ShutdownInv
  <2>1. ~closed /\ evicted = 0
    BY DEF Init
  <2>. QED  BY <2>1 DEF ShutdownInv
<1>. QED  BY <1>3, <1>4, <1>5 DEF IInv

LEMMA MarkInv ==
  ASSUME IInv, NEW t \in Closers, ShutdownMark(t)
  PROVE  IInv'
<1>1. ~state'
  <2>1. state' = FALSE
    BY DEF ShutdownMark
  <2>. QED  BY <2>1
<1>2. PcInv'
  <2>1. pc' = [pc EXCEPT ![t] = "close"]
    BY DEF ShutdownMark, Goto
  <2>2. pc' \in [Threads -> Elsewhere \cup {"close"}]
    BY <2>1 DEF IInv, PcInv
  <2>. QED  BY <1>1, <2>2 DEF PcInv
<1>3. ShutdownInv'
  BY <1>1 DEF IInv, ShutdownInv, ShutdownMark
<1>4. QueueInv'
  BY DEF IInv, QueueInv, ShutdownMark, queues
<1>. QED  BY <1>2, <1>3, <1>4 DEF IInv

\* Who comes to the closing second panics; who comes first has the face down.
LEMMA CloseInv ==
  ASSUME IInv, NEW t \in Closers, ShutdownClose(t)
  PROVE  IInv'
<1>1. ~state /\ state' = state /\ pc' = [pc EXCEPT ![t] = AfterShutdown[t]]
  BY DEF IInv, PcInv, ShutdownClose, Goto
<1>2. PcInv'
  <2>1. AfterShutdown[t] \in Elsewhere
    BY ClosersAre DEF Elsewhere
  <2>2. pc' \in [Threads -> Elsewhere \cup {"close"}]
    BY <1>1, <2>1 DEF IInv, PcInv
  <2>. QED  BY <1>1, <2>2 DEF PcInv
<1>3. ShutdownInv'
  <2>1. CASE closed
    BY <1>1, <2>1 DEF IInv, ShutdownInv, ShutdownClose
  <2>2. CASE ~closed
    <3>1. closed' = TRUE /\ conn' = "broken" /\ evicted' = 1
      BY <2>2 DEF IInv, ShutdownInv, ShutdownClose
    <3>2. closed' /\ conn' = "broken"
      BY <3>1
    <3>. QED  BY <1>1, <3>1, <3>2 DEF ShutdownInv
  <2>. QED  BY <2>1, <2>2
<1>4. QueueInv'
  BY DEF IInv, QueueInv, ShutdownClose, queues
<1>. QED  BY <1>2, <1>3, <1>4 DEF IInv

LEMMA ReaderInv ==
  ASSUME IInv, Reader
  PROVE  IInv'
<1>1. FaceKept
  BY DEF Reader, ReadPacket, ReadHeartbeat, ReadError, ReadMalformed, face, FaceKept
<1>2. UNCHANGED pc \/ Moves("reader")
  BY ClosersAre, CallShutdownMoves
     DEF Reader, ReadPacket, ReadHeartbeat, ReadError, ReadMalformed
<1>3. QueueInv'
  BY QueueAssumption
     DEF IInv, QueueInv, Reader, ReadPacket, ReadHeartbeat, ReadError, ReadMalformed, queues
<1>. QED  BY <1>1, <1>2, <1>3, ClosersAre, StepInv DEF IInv

LEMMA RecvPumpInv ==
  ASSUME IInv, RecvPump
  PROVE  IInv'
<1>1. FaceKept
  BY DEF RecvPump, RecvTake, RecvClosed, RecvHand, face, FaceKept
<1>2. Moves("recvPump")
  <2>1. CASE RecvTake
    BY <2>1 DEF RecvTake, Goto, Moves, Elsewhere
  <2>2. CASE RecvClosed
    BY <2>2, ClosersAre, CallShutdownMoves DEF RecvClosed
  <2>3. CASE RecvHand
    BY <2>3, ToTakeOrDoneMoves DEF RecvHand
  <2>. QED  BY <2>1, <2>2, <2>3 DEF RecvPump
<1>3. QueueInv'
  BY QueueAssumption
     DEF IInv, QueueInv, RecvPump, RecvTake, RecvClosed, RecvHand, queues
<1>. QED  BY <1>1, <1>2, <1>3, ClosersAre, StepInv DEF IInv

LEMMA SendPumpInv ==
  ASSUME IInv, SendPump
  PROVE  IInv'
<1>1. FaceKept
  BY DEF SendPump, SendTake, SendClosed, Write, face, FaceKept
<1>2. Moves("sendPump")
  <2>1. CASE SendTake
    BY <2>1 DEF SendTake, Goto, Moves, Elsewhere
  <2>2. CASE SendClosed
    BY <2>2, ClosersAre, CallShutdownMoves DEF SendClosed
  <2>3. CASE Write
    BY <2>3, ClosersAre, CallShutdownMoves, ToTakeOrDoneMoves DEF Write
  <2>. QED  BY <2>1, <2>2, <2>3 DEF SendPump
<1>3. QueueInv'
  BY QueueAssumption DEF IInv, QueueInv, SendPump, SendTake, SendClosed, Write, queues
<1>. QED  BY <1>1, <1>2, <1>3, ClosersAre, StepInv DEF IInv

LEMMA HeartbeatInv ==
  ASSUME IInv, Heartbeat
  PROVE  IInv'
<1>1. FaceKept
  BY DEF Heartbeat, HeartbeatTest, HeartbeatSend, face, FaceKept
<1>2. Moves("heartbeat")
  BY DEF Heartbeat, HeartbeatTest, HeartbeatSend, Goto, Moves, Elsewhere
<1>3. QueueInv'
  BY QueueAssumption DEF IInv, QueueInv, Heartbeat, HeartbeatTest, HeartbeatSend, queues
<1>. QED  BY <1>1, <1>2, <1>3, ClosersAre, StepInv DEF IInv

LEMMA ForwarderInv ==
  ASSUME IInv, Forwarder
  PROVE  IInv'
<1>1. FaceKept
  BY DEF Forwarder, OthersHand, ForwarderTake, ForwarderReturns, AddPkt2SendQue, face, FaceKept
<1>2. UNCHANGED pc \/ Moves("forwarder")
  BY DEF Forwarder, OthersHand, ForwarderTake, ForwarderReturns, AddPkt2SendQue,
         Goto, Moves, Elsewhere
<1>3. QueueInv'
  BY QueueAssumption
     DEF IInv, QueueInv, Forwarder, OthersHand, ForwarderTake, ForwarderReturns,
         AddPkt2SendQue, queues
<1>. QED  BY <1>1, <1>2, <1>3, ClosersAre, StepInv DEF IInv

LEMMA RemovalInv ==
  ASSUME IInv, Cleaner \/ Manager
  PROVE  IInv'
<1>1. FaceKept
  BY DEF Cleaner, CleanerFinds, Manager, ManagerFinds, Remove, face, FaceKept
<1>2. Moves("cleaner") \/ Moves("manager")
  <2>1. CASE CleanerFinds
    <3>1. CASE Goto("cleaner", "scan", "remove")
      BY <3>1 DEF Goto, Moves, Elsewhere
    <3>2. CASE CallShutdown("cleaner", "scan")
      BY <3>2, ClosersAre, CallShutdownMoves
    <3>. QED  BY <2>1, <3>1, <3>2 DEF CleanerFinds
  <2>2. CASE ManagerFinds
    BY <2>2, ClosersAre, CallShutdownMoves DEF ManagerFinds
  <2>3. CASE Remove("cleaner", "scan") \/ Remove("manager", "idle")
    BY <2>3 DEF Remove, Goto, Moves, Elsewhere
  <2>. QED  BY <2>1, <2>2, <2>3 DEF Cleaner, Manager
<1>3. QueueInv'
  BY DEF IInv, QueueInv, Cleaner, CleanerFinds, Manager, ManagerFinds, Remove, queues
<1>. QED  BY <1>1, <1>2, <1>3, ClosersAre, StepInv

LEMMA SurroundingsInv ==
  ASSUME IInv, PeerChanges \/ Expire \/ UNCHANGED vars
  PROVE  IInv'
<1>1. FaceKept
  BY DEF PeerChanges, Expire, vars, face, FaceKept
<1>2. UNCHANGED pc
  BY DEF PeerChanges, Expire, vars
<1>3. QueueInv'
  BY DEF IInv, QueueInv, PeerChanges, Expire, vars, queues
<1>. QED  BY <1>1, <1>2, <1>3, StepInv DEF IInv

-----------------------------------------------------------------------------
LEMMA NextInv ==
  ASSUME IInv, [Next]_vars
  PROVE  IInv'
BY MarkInv, CloseInv, ReaderInv, RecvPumpInv, SendPumpInv, HeartbeatInv, ForwarderInv,
   RemovalInv, SurroundingsInv DEF Next, Shutdown

LEMMA Inductive == Spec => []IInv
<1>1. IInv /\ [Next]_vars => IInv'
  BY NextInv
<1>. QED  BY <1>1, InitInv, PTL DEF Spec

\* The goroutines and queues of a face keep their types, and no queue holds
\* more than it is made for.
THEOREM TypeCorrect == Spec => []TypeOK
<1>1. IInv => TypeOK
  <2>. SUFFICES ASSUME IInv PROVE TypeOK
    OBVIOUS
  <2>1. evicted \in Nat
    BY DEF IInv, ShutdownInv
  <2>2. pc \in [Threads -> {"read", "take", "hand", "write", "tick", "send", "idle",
                            "elsewhere", "scan", "mark", "close", "remove", "done"}]
    BY DEF IInv, PcInv, Elsewhere
  <2>. QED  BY <2>1, <2>2 DEF IInv, QueueInv, TypeOK
<1>. QED  BY <1>1, Inductive, PTL

\* Whatever goroutines are in Shutdown at a time, the face is taken out of the
\* FIB at most once, and only when its queues and connection are closed.
THEOREM AlwaysEvictedOnce == Spec => []EvictedOnce
<1>1. IInv => EvictedOnce
  BY DEF IInv, ShutdownInv, EvictedOnce
<1>. QED  BY <1>1, Inductive, PTL

-----------------------------------------------------------------------------
(* Where the goroutines go *)

\* The places in the code of each.
Places ==
  [reader    |-> {"read", "mark", "close", "done"},
   recvPump  |-> {"take", "hand", "mark", "close", "done"},
   sendPump  |-> {"take", "write", "mark", "close", "done"},
   heartbeat |-> {"tick", "send", "done"},
   forwarder |-> {"idle", "send", "elsewhere"},
   cleaner   |-> {"scan", "mark", "close", "remove"},
   manager   |-> {"idle", "mark", "close", "remove"}]

\* How each may go on when the face is down.
Ways ==
  [reader    |-> {<<"read", "done">>, <<"mark", "close">>, <<"close", "done">>},
   recvPump  |-> {<<"take", "hand">>, <<"take", "done">>, <<"hand", "done">>,
                  <<"mark", "close">>, <<"close", "done">>},
   sendPump  |-> {<<"take", "write">>, <<"take", "done">>, <<"write", "done">>,
                  <<"mark", "close">>, <<"close", "done">>},
   heartbeat |-> {<<"send", "tick">>, <<"tick", "done">>},
   forwarder |-> {<<"send", "idle">>, <<"idle", "elsewhere">>, <<"elsewhere", "idle">>},
   cleaner   |-> {<<"scan", "remove">>, <<"mark", "close">>, <<"close", "remove">>,
                  <<"remove", "scan">>},
   manager   |-> {<<"idle", "remove">>, <<"mark", "close">>, <<"close", "remove">>,
                  <<"remove", "idle">>}]

PlaceInv == \A t \in Threads : pc[t] \in Places[t]

\* A face that is down is closed, or somebody is about to close it.
ClosingInv ==
  /\ ~state /\ ~closed => \E t \in Closers : pc[t] = "close"
  /\ closed => conn = "broken"

EndInv == IInv /\ PlaceInv /\ ClosingInv

GoesTo(t, to) ==
  /\ to \in Places[t]
  /\ pc' = [pc EXCEPT ![t] = to]
  /\ ~state => <<pc[t], to>> \in Ways[t]
  /\ pc[t] = "close" => ShutdownClose(t)
  /\ t = "cleaner" /\ pc[t] = "remove" => ~inTable'
  /\ t = "forwarder" /\ pc[t] = "idle" => packetQueue' = packetQueue - 1

LEMMA PlacesAre ==
  /\ Places["reader"] = {"read", "mark", "close", "done"}
  /\ Places["recvPump"] = {"take", "hand", "mark", "close", "done"}
  /\ Places["sendPump"] = {"take", "write", "mark", "close", "done"}
  /\ Places["heartbeat"] = {"tick", "send", "done"}
  /\ Places["forwarder"] = {"idle", "send", "elsewhere"}
  /\ Places["cleaner"] = {"scan", "mark", "close", "remove"}
  /\ Places["manager"] = {"idle", "mark", "close", "remove"}
BY DEF Places

LEMMA WaysAre ==
  /\ Ways["reader"] = {<<"read", "done">>, <<"mark", "close">>, <<"close", "done">>}
  /\ Ways["recvPump"] = {<<"take", "hand">>, <<"take", "done">>, <<"hand", "done">>,
                         <<"mark", "close">>, <<"close", "done">>}
  /\ Ways["sendPump"] = {<<"take", "write">>, <<"take", "done">>, <<"write", "done">>,
                         <<"mark", "close">>, <<"close", "done">>}
  /\ Ways["heartbeat"] = {<<"send", "tick">>, <<"tick", "done">>}
  /\ Ways["forwarder"] = {<<"send", "idle">>, <<"idle", "elsewhere">>,
                          <<"elsewhere", "idle">>}
  /\ Ways["cleaner"] = {<<"scan", "remove">>, <<"mark", "close">>, <<"close", "remove">>,
                        <<"remove", "scan">>}
  /\ Ways["manager"] = {<<"idle", "remove">>, <<"mark", "close">>, <<"close", "remove">>,
                        <<"remove", "idle">>}
BY DEF Ways

LEMMA AfterShutdownIs ==
  /\ AfterShutdown["reader"] = "done" /\ AfterShutdown["recvPump"] = "done"
  /\ AfterShutdown["sendPump"] = "done"
  /\ AfterShutdown["cleaner"] = "remove" /\ AfterShutdown["manager"] = "remove"
BY DEF AfterShutdown

\* A step moves one goroutine at most, to a place that it has.
LEMMA StepGoes ==
  ASSUME Next
  PROVE  UNCHANGED pc \/ \E t \in Threads : \E to : GoesTo(t, to)
<1>1. ASSUME NEW t \in Closers, Shutdown(t)
      PROVE  \E to : GoesTo(t, to)
  <2>1. CASE ShutdownMark(t)
    BY <2>1, ClosersAre, PlacesAre, WaysAre DEF ShutdownMark, Goto, GoesTo
  <2>2. CASE ShutdownClose(t)
    <3>1. Goto(t, "close", AfterShutdown[t])
      BY <2>2 DEF ShutdownClose
    <3>. QED
      BY <2>2, <3>1, ClosersAre, PlacesAre, WaysAre, AfterShutdownIs DEF Goto, GoesTo
  <2>. QED  BY <1>1, <2>1, <2>2 DEF Shutdown
<1>2. CASE Reader
  <2>1. UNCHANGED pc \/ CallShutdown("reader", "read")
    BY <1>2 DEF Reader, ReadPacket, ReadHeartbeat, ReadError, ReadMalformed
  <2>. QED
    BY <2>1, ClosersAre, PlacesAre, WaysAre, AfterShutdownIs DEF CallShutdown, Goto, GoesTo
<1>3. CASE RecvPump
  <2>1. \/ Goto("recvPump", "take", "hand") \/ CallShutdown("recvPump", "take")
        \/ ToTakeOrDone("recvPump", "hand")
    BY <1>3 DEF RecvPump, RecvTake, RecvClosed, RecvHand
  <2>. QED
    BY <2>1, ClosersAre, PlacesAre, WaysAre, AfterShutdownIs
       DEF CallShutdown, ToTakeOrDone, Goto, GoesTo
<1>4. CASE SendPump
  <2>1. \/ Goto("sendPump", "take", "write") \/ CallShutdown("sendPump", "take")
        \/ ToTakeOrDone("sendPump", "write") \/ CallShutdown("sendPump", "write")
    BY <1>4 DEF SendPump, SendTake, SendClosed, Write
  <2>. QED
    BY <2>1, ClosersAre, PlacesAre, WaysAre, AfterShutdownIs
       DEF CallShutdown, ToTakeOrDone, Goto, GoesTo
<1>5. CASE Heartbeat
  <2>1. \/ state /\ Goto("heartbeat", "tick", "send")
        \/ Goto("heartbeat", "tick", "done")
        \/ Goto("heartbeat", "send", "tick")
    BY <1>5 DEF Heartbeat, HeartbeatTest, HeartbeatSend
  <2>. QED  BY <2>1, ClosersAre, PlacesAre, WaysAre DEF Goto, GoesTo
<1>6. CASE Forwarder
  <2>1. \/ UNCHANGED pc
        \/ /\ state /\ Goto("forwarder", "idle", "send")
           /\ packetQueue' = packetQueue - 1
        \/ /\ Goto("forwarder", "idle", "elsewhere")
           /\ packetQueue' = packetQueue - 1
        \/ Goto("forwarder", "elsewhere", "idle")
        \/ Goto("forwarder", "send", "idle")
    BY <1>6 DEF Forwarder, OthersHand, ForwarderTake, ForwarderReturns, AddPkt2SendQue
  <2>. QED  BY <2>1, ClosersAre, PlacesAre, WaysAre DEF Goto, GoesTo
<1>7. CASE Cleaner
  <2>1. CASE CleanerFinds
    <3>1. Goto("cleaner", "scan", "remove") \/ CallShutdown("cleaner", "scan")
      BY <2>1 DEF CleanerFinds
    <3>. QED
      BY <3>1, ClosersAre, PlacesAre, WaysAre, AfterShutdownIs DEF CallShutdown, Goto, GoesTo
  <2>2. CASE Remove("cleaner", "scan")
    <3>1. Goto("cleaner", "remove", "scan") /\ inTable' = FALSE
      BY <2>2 DEF Remove
    <3>. QED  BY <3>1, ClosersAre, PlacesAre, WaysAre DEF Goto, GoesTo
  <2>. QED  BY <1>7, <2>1, <2>2 DEF Cleaner
<1>8. CASE Manager
  <2>1. CallShutdown("manager", "idle") \/ Goto("manager", "remove", "idle")
    BY <1>8 DEF Manager, ManagerFinds, Remove
  <2>2. CASE CallShutdown("manager", "idle")
    BY <2>2, ClosersAre, PlacesAre, WaysAre, AfterShutdownIs DEF CallShutdown, Goto, GoesTo
  <2>3. CASE Goto("manager", "remove", "idle")
    <3>1. "manager" \in Threads /\ GoesTo("manager", "idle")
      BY <2>3, ClosersAre, PlacesAre, WaysAre DEF Goto, GoesTo
    <3>. QED  BY <3>1
  <2>. QED  BY <2>1, <2>2, <2>3
<1>9. CASE PeerChanges \/ Expire
  BY <1>9 DEF PeerChanges, Expire
<1>10. CASE \E t \in Closers : Shutdown(t)
  <2>1. PICK t \in Closers : Shutdown(t)
    BY <1>10
  <2>2. t \in Threads /\ \E to : GoesTo(t, to)
    BY <1>1, <2>1, ClosersAre
  <2>. QED  BY <2>2
<1>. QED
  BY <1>2, <1>3, <1>4, <1>5, <1>6, <1>7, <1>8, <1>9, <1>10 DEF Next

LEMMA KeepsFace ==
  ASSUME Next, \A t \in Closers : ~Shutdown(t)
  PROVE  FaceKept
<1>1. CASE Reader \/ RecvPump \/ SendPump
  BY <1>1 DEF Reader, ReadPacket, ReadHeartbeat, ReadError, ReadMalformed, RecvPump,
              RecvTake, RecvClosed, RecvHand, SendPump, SendTake, SendClosed, Write, face, FaceKept
<1>2. CASE Heartbeat \/ Forwarder
  BY <1>2 DEF Heartbeat, HeartbeatTest, HeartbeatSend, Forwarder, OthersHand, ForwarderTake,
              ForwarderReturns, AddPkt2SendQue, face, FaceKept
<1>3. CASE Cleaner \/ Manager \/ PeerChanges \/ Expire
  BY <1>3 DEF Cleaner, CleanerFinds, Manager, ManagerFinds, Remove, PeerChanges, Expire,
              face, FaceKept
<1>. QED  BY <1>1, <1>2, <1>3 DEF Next

LEMMA EndInvStep ==
  ASSUME EndInv, [Next]_vars
  PROVE  EndInv'
<1>1. IInv'
  BY NextInv DEF EndInv
<1>2. CASE UNCHANGED vars
  BY <1>1, <1>2 DEF EndInv, PlaceInv, ClosingInv, vars
<1>3. CASE Next
  <2>1. pc = [t \in Threads |-> pc[t]]
    BY DEF EndInv, IInv, PcInv
  <2>2. PlaceInv'
    <3>1. CASE UNCHANGED pc
      BY <3>1 DEF EndInv, PlaceInv
    <3>2. ASSUME NEW t \in Threads, NEW to, GoesTo(t, to) PROVE PlaceInv'
      BY <2>1, <3>2 DEF EndInv, PlaceInv, GoesTo
    <3>. QED  BY <1>3, <3>1, <3>2, StepGoes
  <2>3. CASE \A t \in Closers : ~Shutdown(t)
    <3>1. FaceKept
      BY <1>3, <2>3, KeepsFace
    <3>2. ASSUME NEW t \in Closers, pc[t] = "close" PROVE pc'[t] = "close"
      <4>1. ~ShutdownClose(t)
        BY <2>3 DEF Shutdown
      <4>2. ASSUME NEW s \in Threads, NEW to, GoesTo(s, to) PROVE pc'[t] = "close"
        BY <2>1, <3>2, <4>1, <4>2, ClosersAre DEF GoesTo
      <4>. QED  BY <1>3, <3>2, <4>2, StepGoes
    <3>. QED  BY <1>1, <2>2, <3>1, <3>2 DEF EndInv, ClosingInv, FaceKept
  <2>4. ASSUME NEW t \in Closers, Shutdown(t) PROVE ClosingInv'
    <3>1. CASE ShutdownMark(t)
      <4>1. pc'[t] = "close" /\ UNCHANGED <<closed, conn>>
        BY <2>1, <3>1, ClosersAre DEF ShutdownMark, Goto
      <4>. QED  BY <4>1 DEF EndInv, ClosingInv
    <3>2. CASE ShutdownClose(t)
      <4>1. CASE closed
        BY <3>2, <4>1 DEF EndInv, ClosingInv, ShutdownClose
      <4>2. CASE ~closed
        <5>1. closed' = TRUE /\ conn' = "broken"
          BY <3>2, <4>2 DEF ShutdownClose
        <5>2. closed' /\ conn' = "broken"
          BY <5>1
        <5>. QED  BY <5>2 DEF ClosingInv
      <4>. QED  BY <4>1, <4>2
    <3>. QED  BY <2>4, <3>1, <3>2 DEF Shutdown
  <2>. QED  BY <1>1, <2>2, <2>3, <2>4 DEF EndInv
<1>. QED  BY <1>2, <1>3

LEMMA EndInvInit == Init => EndInv
<1>. SUFFICES ASSUME Init PROVE EndInv
  OBVIOUS
<1>1. PlaceInv
  <2>1. CASE persistent
    BY <2>1, ClosersAre, PlacesAre DEF Init, PlaceInv
  <2>2. CASE ~persistent
    BY <2>2, ClosersAre, PlacesAre DEF Init, PlaceInv
  <2>. QED  BY <2>1, <2>2
<1>2. state /\ ~closed
  BY DEF Init
<1>. QED  BY <1>1, <1>2, InitInv DEF EndInv, ClosingInv

LEMMA EndInductive == Spec => []EndInv
<1>1. EndInv /\ [Next]_vars => EndInv'
  BY EndInvStep
<1>. QED  BY <1>1, EndInvInit, PTL DEF Spec

\* What no step undoes, and where goroutines go once the face is down.
LEMMA DownStep ==
  ASSUME EndInv, [Next]_vars
  PROVE  /\ ~alive => ~alive'
         /\ ~state => ~state'
         /\ closed => closed'
         /\ ~inTable => ~inTable'
         /\ ~state => \A t \in Threads : pc'[t] = pc[t] \/ <<pc[t], pc'[t]>> \in Ways[t]
         /\ pc["forwarder"] = "idle" =>
              pc'["forwarder"] = "idle" \/ packetQueue' = packetQueue - 1
         /\ pc["cleaner"] = "remove" => pc'["cleaner"] = "remove" \/ ~inTable'
<1>1. CASE UNCHANGED vars
  BY <1>1 DEF vars, EndInv, IInv, QueueInv
<1>2. CASE Next
  <2>1. pc = [t \in Threads |-> pc[t]]
    BY DEF EndInv, IInv, PcInv
  <2>2. alive
    BY <1>2 DEF Next
  <2>3. (~state => ~state') /\ (closed => closed')
    <3>1. ASSUME NEW t \in Closers, Shutdown(t)
          PROVE  (~state => ~state') /\ (closed => closed')
      BY <3>1 DEF Shutdown, ShutdownMark, ShutdownClose
    <3>. QED  BY <1>2, <3>1, KeepsFace DEF FaceKept
  <2>4. ~inTable => ~inTable'
    <3>1. CASE \E t \in Closers : Shutdown(t)
      BY <3>1 DEF Shutdown, ShutdownMark, ShutdownClose
    <3>2. CASE Reader \/ RecvPump \/ SendPump
      BY <3>2 DEF Reader, ReadPacket, ReadHeartbeat, ReadError, ReadMalformed, RecvPump,
                  RecvTake, RecvClosed, RecvHand, SendPump, SendTake, SendClosed, Write
    <3>3. CASE Heartbeat \/ Forwarder
      BY <3>3 DEF Heartbeat, HeartbeatTest, HeartbeatSend, Forwarder, OthersHand, ForwarderTake,
                  ForwarderReturns, AddPkt2SendQue
    <3>4. CASE Cleaner \/ Manager \/ PeerChanges \/ Expire
      BY <3>4 DEF Cleaner, CleanerFinds, Manager, ManagerFinds, Remove, PeerChanges, Expire
    <3>. QED  BY <1>2, <3>1, <3>2, <3>3, <3>4 DEF Next
  <2>5. ASSUME ~state
        PROVE  \A t \in Threads : pc'[t] = pc[t] \/ <<pc[t], pc'[t]>> \in Ways[t]
    BY <1>2, <2>1, <2>5, StepGoes DEF GoesTo
  <2>6. pc["forwarder"] = "idle" => pc'["forwarder"] = "idle" \/ packetQueue' = packetQueue - 1
    <3>1. ASSUME NEW t \in Threads, NEW to, GoesTo(t, to), pc["forwarder"] = "idle"
          PROVE  pc'["forwarder"] = "idle" \/ packetQueue' = packetQueue - 1
      BY <2>1, <3>1, ClosersAre DEF GoesTo
    <3>. QED  BY <1>2, <3>1, StepGoes
  <2>7. pc["cleaner"] = "remove" => pc'["cleaner"] = "remove" \/ ~inTable'
    <3>1. ASSUME NEW t \in Threads, NEW to, GoesTo(t, to), pc["cleaner"] = "remove"
          PROVE  pc'["cleaner"] = "remove" \/ ~inTable'
      BY <2>1, <3>1, ClosersAre DEF GoesTo
    <3>. QED  BY <1>2, <3>1, StepGoes
  <2>. QED  BY <2>2, <2>3, <2>4, <2>5, <2>6, <2>7
<1>. QED  BY <1>1, <1>2

-----------------------------------------------------------------------------
(* Goroutines end.  The prover knows nothing of ENABLED: that an action can *)
(* be taken when its guard holds is the hypothesis []EnabledByGuards, which *)
(* only reads the guards off the actions.                                   *)

ShutdownGoesOn(t) == ENABLED <<alive /\ Shutdown(t)>>_vars

EnabledByGuards ==
  alive =>
    /\ \A t \in Closers : pc[t] \in {"mark", "close"} => ShutdownGoesOn(t)
    /\ pc["reader"] = "read" /\ conn = "broken" => ENABLED <<alive /\ ReadError>>_vars
    /\ pc["recvPump"] = "take" /\ (recvQue > 0 \/ closed)
         => ENABLED <<alive /\ (RecvTake \/ RecvClosed)>>_vars
    /\ pc["recvPump"] = "hand" /\ packetQueue < PacketQueueSize
         => ENABLED <<alive /\ RecvHand>>_vars
    /\ (\/ pc["sendPump"] = "take" /\ (sendQue > 0 \/ closed)
        \/ pc["sendPump"] = "write" /\ conn # "stalls")
         => ENABLED <<alive /\ SendPump>>_vars
    /\ (\/ pc["heartbeat"] = "tick" /\ (~state \/ sendQue < HeartbeatLimit)
        \/ pc["heartbeat"] = "send" /\ (closed \/ sendQue < LFSendQueSize))
         => ENABLED <<alive /\ Heartbeat>>_vars
    /\ pc["forwarder"] = "idle" /\ packetQueue > 0 => ENABLED <<alive /\ ForwarderTake>>_vars
    /\ pc["forwarder"] = "send" /\ (closed \/ sendQue < LFSendQueSize)
         => ENABLED <<alive /\ AddPkt2SendQue>>_vars
    /\ (\/ pc["cleaner"] = "scan" /\ inTable /\ ~state
        \/ pc["cleaner"] = "remove")
         => ENABLED <<alive /\ Cleaner>>_vars

First(t) == alive /\ ~closed /\ pc[t] = "close"
Marked(t) == alive /\ closed /\ pc[t] = "mark"
Late(t) == alive /\ closed /\ pc[t] = "close"

Settles(t) ==
  /\ First(t) ~> (~alive \/ closed)
  /\ Marked(t) ~> (~alive \/ Late(t))
  /\ Late(t) ~> ~alive

LEMMA ShutdownsAreFair == Fairness => \A t \in Closers : ShutdownIsFair(t)
BY PTL DEF Fairness

\* How one step changes what a goroutine in Shutdown has before it.
LEMMA SettlingStep ==
  ASSUME EndInv, [Next]_vars, NEW t \in Closers
  PROVE  /\ First(t) => First(t)' \/ ~alive' \/ closed'
         /\ First(t) /\ Shutdown(t) => ~alive' \/ closed'
         /\ Marked(t) => Marked(t)' \/ Late(t)' \/ ~alive'
         /\ Marked(t) /\ Shutdown(t) => Late(t)' \/ ~alive'
         /\ Late(t) => Late(t)' \/ ~alive'
         /\ Late(t) /\ Shutdown(t) => ~alive'
<1>1. t \in Threads /\ pc = [s \in Threads |-> pc[s]] /\ (closed => closed' /\ ~state)
  BY DownStep, ClosersAre DEF EndInv, IInv, PcInv, ShutdownInv
<1>2. ASSUME pc[t] = "close"
      PROVE  pc'[t] = "close" \/ ShutdownClose(t)
  <2>1. CASE UNCHANGED vars
    BY <1>2, <2>1 DEF vars
  <2>2. CASE Next
    <3>1. ASSUME NEW s \in Threads, NEW to, GoesTo(s, to)
          PROVE  pc'[t] = "close" \/ ShutdownClose(t)
      BY <1>1, <1>2, <3>1 DEF GoesTo
    <3>. QED  BY <1>2, <2>2, <3>1, StepGoes
  <2>. QED  BY <2>1, <2>2
<1>3. ShutdownClose(t) => ~alive' \/ closed'
  BY DEF ShutdownClose
<1>4. ShutdownClose(t) /\ closed => ~alive'
  BY DEF ShutdownClose
<1>5. pc[t] = "mark" /\ closed => pc'[t] \in {"mark", "close"}
  <2>1. <<"mark", pc'[t]>> \in Ways[t] => pc'[t] = "close"
    BY ClosersAre, WaysAre
  <2>. QED  BY <1>1, <2>1, DownStep
<1>6. pc[t] = "mark" /\ Shutdown(t) => pc'[t] = "close"
  BY <1>1 DEF Shutdown, ShutdownMark, ShutdownClose, Goto
<1>7. pc[t] = "close" /\ Shutdown(t) => ShutdownClose(t)
  BY DEF Shutdown, ShutdownMark, Goto
<1>. QED  BY <1>1, <1>2, <1>3, <1>4, <1>5, <1>6, <1>7 DEF First, Marked, Late

LEMMA ShutdownSettles ==
  ASSUME NEW t \in Closers
  PROVE  Spec /\ []EnabledByGuards => Settles(t)
<1>1. Fairness => ShutdownIsFair(t)
  BY ShutdownsAreFair
<1>2. (First(t) \/ Marked(t) \/ Late(t)) /\ EnabledByGuards => ShutdownGoesOn(t)
  BY DEF First, Marked, Late, EnabledByGuards
<1>3. EndInv /\ First(t) /\ [Next]_vars => First(t)' \/ (~alive \/ closed)'
  BY SettlingStep
<1>4. EndInv /\ First(t) /\ [Next]_vars /\ <<alive /\ Shutdown(t)>>_vars => (~alive \/ closed)'
  BY SettlingStep
<1>5. EndInv /\ Marked(t) /\ [Next]_vars => Marked(t)' \/ (~alive \/ Late(t))'
  BY SettlingStep
<1>6. EndInv /\ Marked(t) /\ [Next]_vars /\ <<alive /\ Shutdown(t)>>_vars => (~alive \/ Late(t))'
  BY SettlingStep
<1>7. EndInv /\ Late(t) /\ [Next]_vars => Late(t)' \/ (~alive)'
  BY SettlingStep
<1>8. EndInv /\ Late(t) /\ [Next]_vars /\ <<alive /\ Shutdown(t)>>_vars => (~alive)'
  BY SettlingStep
<1>9. Spec /\ []EnabledByGuards => (First(t) ~> (~alive \/ closed))
  BY <1>1, <1>2, <1>3, <1>4, EndInductive, PTL DEF Spec, ShutdownIsFair, ShutdownGoesOn
<1>10. Spec /\ []EnabledByGuards => (Marked(t) ~> (~alive \/ Late(t)))
  BY <1>1, <1>2, <1>5, <1>6, EndInductive, PTL DEF Spec, ShutdownIsFair, ShutdownGoesOn
<1>11. Spec /\ []EnabledByGuards => (Late(t) ~> ~alive)
  BY <1>1, <1>2, <1>7, <1>8, EndInductive, PTL DEF Spec, ShutdownIsFair, ShutdownGoesOn
<1>. QED  BY <1>9, <1>10, <1>11, PTL DEF Settles

\* A face that is down is closed in the end.
DownCloses == ~state ~> (~alive \/ closed)

LEMMA FaceCloses == Spec /\ []EnabledByGuards => DownCloses
<1>1. EndInv /\ ~state =>
        \/ ~alive \/ closed
        \/ First("reader") \/ First("recvPump") \/ First("sendPump")
        \/ First("cleaner") \/ First("manager")
  BY ClosersAre DEF EndInv, ClosingInv, First
<1>2. Spec /\ []EnabledByGuards => Settles("reader")
  BY ShutdownSettles, ClosersAre
<1>3. Spec /\ []EnabledByGuards => Settles("recvPump")
  BY ShutdownSettles, ClosersAre
<1>4. Spec /\ []EnabledByGuards => Settles("sendPump")
  BY ShutdownSettles, ClosersAre
<1>5. Spec /\ []EnabledByGuards => Settles("cleaner")
  BY ShutdownSettles, ClosersAre
<1>6. Spec /\ []EnabledByGuards => Settles("manager")
  BY ShutdownSettles, ClosersAre
<1>. QED
  BY <1>1, <1>2, <1>3, <1>4, <1>5, <1>6, EndInductive, PTL DEF Settles, DownCloses

\* A goroutine that is at place p of its code when the face is closed.
At(t, p) == alive /\ closed /\ pc[t] = p

Ended(t) == pc[t] = "done"

\* What a step does to a goroutine of a closed face.
LEMMA ClosedStep ==
  ASSUME EndInv, [Next]_vars, closed, NEW t \in Threads
  PROVE  /\ ~state /\ conn = "broken" /\ closed'
         /\ pc'[t] = pc[t] \/ <<pc[t], pc'[t]>> \in Ways[t]
         /\ pc[t] \in Places[t]
BY DownStep DEF EndInv, IInv, ShutdownInv, PlaceInv, ClosingInv

LEMMA ReaderEnds ==
  Spec /\ []EnabledByGuards => (closed ~> (~alive \/ Ended("reader")))
<1>1. EndInv /\ closed => \/ ~alive \/ Ended("reader")
                          \/ At("reader", "read") \/ Marked("reader") \/ Late("reader")
  BY ClosersAre, PlacesAre DEF EndInv, PlaceInv, At, Ended, Marked, Late
<1>2. EndInv /\ At("reader", "read") /\ [Next]_vars =>
        At("reader", "read")' \/ (~alive \/ Ended("reader"))'
  BY ClosedStep, ClosersAre, WaysAre DEF At, Ended
<1>3. EndInv /\ At("reader", "read") /\ [Next]_vars /\ <<alive /\ ReadError>>_vars =>
        (~alive \/ Ended("reader"))'
  <2>. SUFFICES ASSUME EndInv, At("reader", "read"), [Next]_vars, ReadError
                PROVE  Ended("reader")'
    OBVIOUS
  <2>1. ~state /\ "reader" \in Threads /\ pc = [s \in Threads |-> pc[s]]
    BY ClosersAre DEF At, EndInv, IInv, PcInv, ShutdownInv
  <2>. QED  BY <2>1, AfterShutdownIs DEF ReadError, CallShutdown, Goto, Ended
<1>4. EndInv /\ At("reader", "read") /\ EnabledByGuards => ENABLED <<alive /\ ReadError>>_vars
  BY DEF At, EndInv, ClosingInv, EnabledByGuards
<1>5. Spec /\ []EnabledByGuards => Settles("reader")
  BY ShutdownSettles, ClosersAre
<1>6. Spec /\ []EnabledByGuards => (At("reader", "read") ~> (~alive \/ Ended("reader")))
  BY <1>2, <1>3, <1>4, EndInductive, PTL DEF Spec, Fairness
<1>. QED  BY <1>1, <1>5, <1>6, EndInductive, PTL DEF Settles

LEMMA SendPumpEnds ==
  Spec /\ []EnabledByGuards => (closed ~> (~alive \/ Ended("sendPump")))
<1>1. EndInv /\ closed => \/ ~alive \/ Ended("sendPump")
                          \/ At("sendPump", "take") \/ At("sendPump", "write")
                          \/ Marked("sendPump") \/ Late("sendPump")
  BY ClosersAre, PlacesAre DEF EndInv, PlaceInv, At, Ended, Marked, Late
<1>2. EndInv /\ At("sendPump", "take") /\ [Next]_vars =>
        At("sendPump", "take")' \/ (~alive \/ At("sendPump", "write") \/ Ended("sendPump"))'
  BY ClosedStep, ClosersAre, WaysAre DEF At, Ended
<1>3. EndInv /\ At("sendPump", "write") /\ [Next]_vars =>
        At("sendPump", "write")' \/ (~alive \/ Ended("sendPump"))'
  BY ClosedStep, ClosersAre, WaysAre DEF At, Ended
<1>4. ASSUME EndInv, closed, pc["sendPump"] \in {"take", "write"}, SendPump
      PROVE  pc'["sendPump"] # pc["sendPump"]
  <2>1. ~state /\ "sendPump" \in Threads /\ pc = [s \in Threads |-> pc[s]]
    BY <1>4, ClosersAre DEF EndInv, IInv, PcInv, ShutdownInv
  <2>. QED
    BY <1>4, <2>1, AfterShutdownIs
       DEF SendPump, SendTake, SendClosed, Write, ToTakeOrDone, CallShutdown, Goto
<1>5. EndInv /\ At("sendPump", "take") /\ [Next]_vars /\ <<alive /\ SendPump>>_vars =>
        (~alive \/ At("sendPump", "write") \/ Ended("sendPump"))'
  BY <1>4, ClosedStep, ClosersAre, WaysAre DEF At, Ended
<1>6. EndInv /\ At("sendPump", "write") /\ [Next]_vars /\ <<alive /\ SendPump>>_vars =>
        (~alive \/ Ended("sendPump"))'
  BY <1>4, ClosedStep, ClosersAre, WaysAre DEF At, Ended
<1>7. /\ EndInv /\ EnabledByGuards
      /\ At("sendPump", "take") \/ At("sendPump", "write")
      => ENABLED <<alive /\ SendPump>>_vars
  BY DEF At, EndInv, ClosingInv, EnabledByGuards
<1>8. Spec /\ []EnabledByGuards => Settles("sendPump")
  BY ShutdownSettles, ClosersAre
<1>9. Spec /\ []EnabledByGuards =>
        (At("sendPump", "take") ~> (~alive \/ At("sendPump", "write") \/ Ended("sendPump")))
  BY <1>2, <1>5, <1>7, EndInductive, PTL DEF Spec, Fairness
<1>10. Spec /\ []EnabledByGuards => (At("sendPump", "write") ~> (~alive \/ Ended("sendPump")))
  BY <1>3, <1>6, <1>7, EndInductive, PTL DEF Spec, Fairness
<1>. QED  BY <1>1, <1>8, <1>9, <1>10, EndInductive, PTL DEF Settles

LEMMA HeartbeatEnds ==
  Spec /\ []EnabledByGuards => (closed ~> (~alive \/ Ended("heartbeat")))
<1>1. EndInv /\ closed => \/ ~alive \/ Ended("heartbeat")
                          \/ At("heartbeat", "tick") \/ At("heartbeat", "send")
  BY ClosersAre, PlacesAre DEF EndInv, PlaceInv, At, Ended
<1>2. EndInv /\ At("heartbeat", "send") /\ [Next]_vars =>
        At("heartbeat", "send")' \/ (~alive \/ At("heartbeat", "tick"))'
  BY ClosedStep, ClosersAre, WaysAre DEF At, Ended
<1>3. EndInv /\ At("heartbeat", "tick") /\ [Next]_vars =>
        At("heartbeat", "tick")' \/ (~alive \/ Ended("heartbeat"))'
  BY ClosedStep, ClosersAre, WaysAre DEF At, Ended
<1>4. ASSUME EndInv, closed, Heartbeat
      PROVE  pc'["heartbeat"] # pc["heartbeat"]
  <2>1. ~state /\ "heartbeat" \in Threads /\ pc = [s \in Threads |-> pc[s]]
    BY <1>4, ClosersAre DEF EndInv, IInv, PcInv, ShutdownInv
  <2>. QED  BY <1>4, <2>1 DEF Heartbeat, HeartbeatTest, HeartbeatSend, Goto
<1>5. EndInv /\ At("heartbeat", "send") /\ [Next]_vars /\ <<alive /\ Heartbeat>>_vars =>
        (~alive \/ At("heartbeat", "tick"))'
  BY <1>4, ClosedStep, ClosersAre, WaysAre DEF At, Ended
<1>6. EndInv /\ At("heartbeat", "tick") /\ [Next]_vars /\ <<alive /\ Heartbeat>>_vars =>
        (~alive \/ Ended("heartbeat"))'
  BY <1>4, ClosedStep, ClosersAre, WaysAre DEF At, Ended
<1>7. /\ EndInv /\ EnabledByGuards
      /\ At("heartbeat", "tick") \/ At("heartbeat", "send")
      => ENABLED <<alive /\ Heartbeat>>_vars
  BY DEF At, EndInv, IInv, ShutdownInv, EnabledByGuards
<1>8. Spec /\ []EnabledByGuards => (At("heartbeat", "send") ~> (~alive \/ At("heartbeat", "tick")))
  BY <1>2, <1>5, <1>7, EndInductive, PTL DEF Spec, Fairness
<1>9. Spec /\ []EnabledByGuards => (At("heartbeat", "tick") ~> (~alive \/ Ended("heartbeat")))
  BY <1>3, <1>6, <1>7, EndInductive, PTL DEF Spec, Fairness
<1>. QED  BY <1>1, <1>8, <1>9, EndInductive, PTL

\* The receiving pump may wait for the forwarder, which a closed face does not
\* hold up, and which takes a packet and so makes room, if not for long.
Room == packetQueue < PacketQueueSize

ForwarderIsElsewhere == pc["forwarder"] = "elsewhere"

LEMMA RecvPumpEndsToo ==
  Spec /\ []EnabledByGuards /\ []<>~ForwarderIsElsewhere
    => (closed ~> (~alive \/ Ended("recvPump")))
<1>. DEFINE Take == At("recvPump", "take")
            Hand == At("recvPump", "hand")
            Full == Hand /\ ~Room
            Sends == Full /\ pc["forwarder"] = "send"
            Idle == Full /\ pc["forwarder"] = "idle"
            HasRoom == Hand /\ Room
            End == ~alive \/ Ended("recvPump")
            Away == ForwarderIsElsewhere
<1>1. EndInv /\ closed => End \/ Take \/ Hand \/ Marked("recvPump") \/ Late("recvPump")
  BY ClosersAre, PlacesAre DEF EndInv, PlaceInv, At, Ended, Marked, Late
<1>2. EndInv => /\ packetQueue \in 0 .. PacketQueueSize
                /\ PacketQueueSize \in Nat \ {0}
                /\ {"recvPump", "forwarder"} \subseteq Threads
                /\ pc = [s \in Threads |-> pc[s]]
                /\ pc["forwarder"] \in {"idle", "send", "elsewhere"}
                /\ closed => ~state
  BY ClosersAre, PlacesAre, QueueAssumption
     DEF EndInv, PlaceInv, IInv, QueueInv, PcInv, ShutdownInv
<1>3. ASSUME EndInv, [Next]_vars, closed
      PROVE  /\ closed'
             /\ pc["recvPump"] = "take" => pc'["recvPump"] \in {"take", "hand", "done"}
             /\ pc["recvPump"] = "hand" => pc'["recvPump"] \in {"hand", "done"}
             /\ pc["forwarder"] = "idle" =>
                  pc'["forwarder"] = "idle" \/ packetQueue' = packetQueue - 1
             /\ pc["forwarder"] = "send" => pc'["forwarder"] \in {"send", "idle"}
             /\ packetQueue' \in 0 .. PacketQueueSize
  <2>1. EndInv'
    BY <1>3, EndInvStep
  <2>2. packetQueue' \in 0 .. PacketQueueSize
    BY <2>1 DEF EndInv, IInv, QueueInv
  <2>. QED  BY <1>3, <2>2, ClosedStep, DownStep, ClosersAre, WaysAre
<1>4. EndInv /\ Take /\ [Next]_vars => Take' \/ (End \/ Hand)'
  BY <1>3 DEF At, Ended
<1>5. EndInv /\ Hand /\ [Next]_vars => Hand' \/ End'
  BY <1>3 DEF At, Ended
<1>6. EndInv /\ Idle /\ [Next]_vars => Idle' \/ (End \/ HasRoom)'
  BY <1>2, <1>3 DEF At, Ended, Room
<1>7. EndInv /\ Sends /\ [Next]_vars => Sends' \/ (End \/ Idle \/ HasRoom)'
  BY <1>2, <1>3 DEF At, Ended
<1>8. ASSUME EndInv, closed, pc["recvPump"] \in {"take", "hand"}, RecvPump
      PROVE  pc'["recvPump"] # pc["recvPump"]
  BY <1>2, <1>8, AfterShutdownIs
     DEF RecvPump, RecvTake, RecvClosed, RecvHand, ToTakeOrDone, CallShutdown, Goto
<1>9. EndInv /\ Take /\ [Next]_vars /\ <<alive /\ (RecvTake \/ RecvClosed)>>_vars
        => (End \/ Hand)'
  BY <1>4, <1>8 DEF At, RecvPump
<1>10. EndInv /\ Hand /\ [Next]_vars /\ <<alive /\ RecvHand>>_vars => End'
  BY <1>5, <1>8 DEF At, RecvPump
<1>11. EndInv /\ Idle /\ [Next]_vars /\ <<alive /\ ForwarderTake>>_vars => (End \/ HasRoom)'
  <2>. SUFFICES ASSUME EndInv, Idle, [Next]_vars, ForwarderTake
                PROVE  (End \/ HasRoom)'
    OBVIOUS
  <2>1. packetQueue' = packetQueue - 1
    BY DEF ForwarderTake
  <2>. QED  BY <1>2, <1>5, <2>1 DEF At, Room
<1>12. EndInv /\ Sends /\ [Next]_vars /\ <<alive /\ AddPkt2SendQue>>_vars
         => (End \/ Idle \/ HasRoom)'
  <2>. SUFFICES ASSUME EndInv, Sends, [Next]_vars, AddPkt2SendQue
                PROVE  (End \/ Idle \/ HasRoom)'
    OBVIOUS
  <2>1. pc'["forwarder"] = "idle"
    BY <1>2 DEF AddPkt2SendQue, Goto
  <2>. QED  BY <1>5, <2>1
<1>13. EndInv /\ Take /\ EnabledByGuards => ENABLED <<alive /\ (RecvTake \/ RecvClosed)>>_vars
  BY DEF At, EnabledByGuards
<1>14. EndInv /\ HasRoom /\ EnabledByGuards => ENABLED <<alive /\ RecvHand>>_vars
  BY DEF At, Room, EnabledByGuards
<1>15. EndInv /\ Idle /\ EnabledByGuards => ENABLED <<alive /\ ForwarderTake>>_vars
  <2>. SUFFICES ASSUME EndInv, Idle, EnabledByGuards PROVE ENABLED <<alive /\ ForwarderTake>>_vars
    OBVIOUS
  <2>1. packetQueue > 0
    BY <1>2 DEF Room
  <2>. QED  BY <2>1 DEF At, EnabledByGuards
<1>16. EndInv /\ Sends /\ EnabledByGuards => ENABLED <<alive /\ AddPkt2SendQue>>_vars
  BY DEF At, EnabledByGuards
<1>17. EndInv /\ Hand => Sends \/ Idle \/ HasRoom \/ Away
  BY <1>2 DEF ForwarderIsElsewhere
<1>18. ~alive => End
  OBVIOUS
<1>. HIDE DEF Take, Hand, Sends, Idle, HasRoom, End, Away
<1>19. Spec /\ []EnabledByGuards => (Take ~> (End \/ Hand))
  BY <1>4, <1>9, <1>13, EndInductive, PTL DEF Spec, Fairness
<1>20. Spec /\ []EnabledByGuards => (Idle ~> (End \/ HasRoom))
  BY <1>6, <1>11, <1>15, EndInductive, PTL DEF Spec, Fairness
<1>21. Spec /\ []EnabledByGuards => (Sends ~> (End \/ Idle \/ HasRoom))
  BY <1>7, <1>12, <1>16, EndInductive, PTL DEF Spec, Fairness
<1>22. Spec /\ []EnabledByGuards /\ []<>~Away => (Hand ~> (End \/ HasRoom))
  BY <1>5, <1>17, <1>20, <1>21, EndInductive, PTL DEF Spec
<1>23. Spec /\ []EnabledByGuards /\ []<>~Away => (Hand ~> End)
  BY <1>5, <1>10, <1>14, <1>22, EndInductive, PTL DEF Spec, Fairness
<1>24. Spec /\ []EnabledByGuards => Settles("recvPump")
  BY ShutdownSettles, ClosersAre
<1>25. Spec /\ []EnabledByGuards /\ []<>~Away => (closed ~> End)
  BY <1>1, <1>18, <1>19, <1>23, <1>24, EndInductive, PTL DEF Settles
<1>. QED  BY <1>25 DEF End, Away

LEMMA EndedStays ==
  ASSUME EndInv, [Next]_vars, NEW t \in {"reader", "sendPump", "heartbeat"},
         ~state, Ended(t)
  PROVE  Ended(t)'
BY DownStep, ClosersAre, WaysAre DEF Ended

\* Whoever shuts a face down, and wherever its reader, its sending pump and its
\* heartbeat wait at that moment, they end, or the daemon does, with queues of any
\* size.  The hypothesis only says what ENABLED is where the guards hold.
THEOREM GoroutinesAlwaysEnd == Spec /\ []EnabledByGuards => GoroutinesEnd
<1>1. EndInv /\ ~state /\ [Next]_vars => (~state)'
  BY DownStep
<1>2. EndInv /\ ~alive /\ [Next]_vars => (~alive)'
  BY DownStep
<1>3. EndInv /\ ~state /\ [Next]_vars =>
        /\ Ended("reader") => Ended("reader")'
        /\ Ended("sendPump") => Ended("sendPump")'
        /\ Ended("heartbeat") => Ended("heartbeat")'
  BY EndedStays
<1>4. Ended("reader") /\ Ended("sendPump") /\ Ended("heartbeat")
        <=> \A t \in {"reader", "sendPump", "heartbeat"} : pc[t] = "done"
  BY DEF Ended
<1>5. Spec /\ []EnabledByGuards =>
        (~state ~> (~alive \/ (Ended("reader") /\ Ended("sendPump") /\ Ended("heartbeat"))))
  BY <1>1, <1>2, <1>3, FaceCloses, ReaderEnds, SendPumpEnds, HeartbeatEnds,
     EndInductive, PTL DEF Spec, DownCloses
<1>. QED  BY <1>4, <1>5, PTL DEF GoroutinesEnd

\* The receiving pump of a face that is down ends too, or the daemon does, with
\* queues of any size and however many packets other faces hand the forwarder,
\* unless that waits for good in the queue of another face.  The hypothesis is that
\* of GoroutinesAlwaysEnd.
THEOREM RecvPumpAlwaysEnds == Spec /\ []EnabledByGuards => RecvPumpEnds
<1>1. ForwarderIsElsewhere <=> pc["forwarder"] = "elsewhere"
  BY DEF ForwarderIsElsewhere
<1>2. Ended("recvPump") <=> pc["recvPump"] = "done"
  BY DEF Ended
<1>. HIDE DEF Ended
<1>3. Spec /\ []EnabledByGuards =>
        \/ ~state ~> (~alive \/ Ended("recvPump"))
        \/ <>[]ForwarderIsElsewhere
  BY FaceCloses, RecvPumpEndsToo, PTL DEF DownCloses
<1>. QED  BY <1>1, <1>2, <1>3, PTL DEF RecvPumpEnds

-----------------------------------------------------------------------------
(* Faces leave the table *)

Listed(p) == alive /\ ~state /\ inTable /\ pc["cleaner"] = p

Removed == ~alive \/ ~inTable

LEMMA ListedStep ==
  ASSUME EndInv, [Next]_vars, ~state, inTable
  PROVE  /\ Listed("scan") => (Listed("scan") \/ Listed("remove") \/ Removed)'
         /\ Listed("mark") => (Listed("mark") \/ Listed("close") \/ Removed)'
         /\ Listed("close") => (Listed("close") \/ Listed("remove") \/ Removed)'
         /\ Listed("remove") => (Listed("remove") \/ Removed)'
         /\ pc = [t \in Threads |-> pc[t]] /\ "cleaner" \in Threads
<1>1. ~state' /\ pc = [t \in Threads |-> pc[t]] /\ "cleaner" \in Threads
  BY DownStep, ClosersAre DEF EndInv, IInv, PcInv
<1>2. /\ pc'["cleaner"] = pc["cleaner"] \/ <<pc["cleaner"], pc'["cleaner"]>> \in Ways["cleaner"]
      /\ pc["cleaner"] = "remove" => pc'["cleaner"] = "remove" \/ ~inTable'
  BY DownStep, ClosersAre
<1>. QED  BY <1>1, <1>2, WaysAre DEF Listed, Removed

\* The cleaner takes a face that is down off the table, unless management does so
\* first or the daemon ends, although it may be in the middle of a Shutdown itself.
\* The hypothesis is that of GoroutinesAlwaysEnd.
THEOREM DownFaceIsAlwaysRemoved == Spec /\ []EnabledByGuards => DownFaceIsRemoved
<1>1. EndInv /\ ~state => \/ Removed \/ Listed("scan") \/ Listed("mark")
                          \/ Listed("close") \/ Listed("remove")
  BY ClosersAre, PlacesAre DEF EndInv, PlaceInv, Listed, Removed
<1>2. ASSUME NEW p \in {"scan", "mark", "close", "remove"}
      PROVE  Listed(p) => ~state /\ inTable /\ alive /\ pc["cleaner"] = p
  BY DEF Listed
<1>3. /\ EndInv /\ Listed("scan") /\ [Next]_vars
           => Listed("scan")' \/ (Listed("remove") \/ Removed)'
      /\ EndInv /\ Listed("mark") /\ [Next]_vars
           => Listed("mark")' \/ (Listed("close") \/ Removed)'
      /\ EndInv /\ Listed("close") /\ [Next]_vars
           => Listed("close")' \/ (Listed("remove") \/ Removed)'
      /\ EndInv /\ Listed("remove") /\ [Next]_vars => Listed("remove")' \/ Removed'
  BY <1>2, ListedStep
<1>4. EndInv /\ Listed("scan") /\ [Next]_vars /\ <<alive /\ Cleaner>>_vars
        => (Listed("remove") \/ Removed)'
  <2>. SUFFICES ASSUME EndInv, Listed("scan"), [Next]_vars, Cleaner
                PROVE  (Listed("remove") \/ Removed)'
    OBVIOUS
  <2>1. pc'["cleaner"] = "remove"
    BY <1>2, ListedStep, AfterShutdownIs DEF Cleaner, CleanerFinds, Remove, CallShutdown, Goto
  <2>. QED  BY <1>3, <2>1 DEF Listed
<1>5. EndInv /\ Listed("mark") /\ [Next]_vars /\ <<alive /\ Shutdown("cleaner")>>_vars
        => (Listed("close") \/ Removed)'
  <2>. SUFFICES ASSUME EndInv, Listed("mark"), [Next]_vars, Shutdown("cleaner")
                PROVE  (Listed("close") \/ Removed)'
    OBVIOUS
  <2>1. pc'["cleaner"] = "close"
    BY <1>2, ListedStep DEF Shutdown, ShutdownMark, ShutdownClose, Goto
  <2>. QED  BY <1>3, <2>1 DEF Listed
<1>6. EndInv /\ Listed("close") /\ [Next]_vars /\ <<alive /\ Shutdown("cleaner")>>_vars
        => (Listed("remove") \/ Removed)'
  <2>. SUFFICES ASSUME EndInv, Listed("close"), [Next]_vars, Shutdown("cleaner")
                PROVE  (Listed("remove") \/ Removed)'
    OBVIOUS
  <2>1. pc'["cleaner"] = "remove"
    BY <1>2, ListedStep, AfterShutdownIs DEF Shutdown, ShutdownMark, ShutdownClose, Goto
  <2>. QED  BY <1>3, <2>1 DEF Listed
<1>7. EndInv /\ Listed("remove") /\ [Next]_vars /\ <<alive /\ Cleaner>>_vars => Removed'
  <2>. SUFFICES ASSUME EndInv, Listed("remove"), [Next]_vars, Cleaner PROVE Removed'
    OBVIOUS
  <2>1. pc'["cleaner"] # "remove"
    BY <1>2, ListedStep, AfterShutdownIs DEF Cleaner, CleanerFinds, Remove, CallShutdown, Goto
  <2>. QED  BY <1>3, <2>1 DEF Listed
<1>8. /\ EnabledByGuards /\ (Listed("scan") \/ Listed("remove"))
           => ENABLED <<alive /\ Cleaner>>_vars
      /\ EnabledByGuards /\ (Listed("mark") \/ Listed("close")) => ShutdownGoesOn("cleaner")
  <2>1. ASSUME EnabledByGuards, Listed("scan") \/ Listed("remove")
        PROVE  ENABLED <<alive /\ Cleaner>>_vars
    BY <2>1 DEF Listed, EnabledByGuards
  <2>2. ASSUME EnabledByGuards, Listed("mark") \/ Listed("close")
        PROVE  ShutdownGoesOn("cleaner")
    BY <2>2, ClosersAre DEF Listed, EnabledByGuards
  <2>. QED  BY <2>1, <2>2
<1>9. Fairness => ShutdownIsFair("cleaner")
  BY ShutdownsAreFair, ClosersAre
<1>10. Spec /\ []EnabledByGuards => (Listed("scan") ~> (Listed("remove") \/ Removed))
  BY <1>3, <1>4, <1>8, EndInductive, PTL DEF Spec, Fairness
<1>11. Spec /\ []EnabledByGuards => (Listed("mark") ~> (Listed("close") \/ Removed))
  BY <1>3, <1>5, <1>8, <1>9, EndInductive, PTL DEF Spec, ShutdownIsFair, ShutdownGoesOn
<1>12. Spec /\ []EnabledByGuards => (Listed("close") ~> (Listed("remove") \/ Removed))
  BY <1>3, <1>6, <1>8, <1>9, EndInductive, PTL DEF Spec, ShutdownIsFair, ShutdownGoesOn
<1>13. Spec /\ []EnabledByGuards => (Listed("remove") ~> Removed)
  BY <1>3, <1>7, <1>8, EndInductive, PTL DEF Spec, Fairness
<1>. QED
  BY <1>1, <1>10, <1>11, <1>12, <1>13, EndInductive, PTL DEF DownFaceIsRemoved, Removed
=============================================================================
