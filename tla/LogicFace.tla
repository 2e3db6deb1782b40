----------------------------- MODULE LogicFace ------------------------------
(***************************************************************************)
(* One logic face over a stream transport, with everything that runs on it *)
(* (daemon/lf/LogicFace.go, StreamTransport.go, LogicFaceSystem.go,        *)
(* LogicFaceTable.go, daemon/mgmt/FaceManager.go): the goroutine that      *)
(* reads the connection, the two pumps behind the queues recvQue and       *)
(* sendQue, the heartbeat of a persistent face, the forwarder, the face    *)
(* cleaner, and the management goroutine that deletes faces.  Any of them  *)
(* but the heartbeat and the forwarder may call Shutdown, which locks      *)
(* nothing.                                                                *)
(*                                                                         *)
(* Packets are not told apart, so a queue is its length.  A panic that no  *)
(* one recovers ends the daemon.                                           *)
(***************************************************************************)
EXTENDS Naturals

CONSTANTS
  LFSendQueSize, LFRecvQueSize,  \* configuration values of these names
  PacketQueueSize,               \* capacity of the forwarder's packet queue
  HeartbeatLimit                 \* no heartbeat onto this many packets

ASSUME QueueAssumption ==
  {LFSendQueSize, LFRecvQueSize, PacketQueueSize, HeartbeatLimit} \subseteq Nat \ {0}

\* The goroutines that may call Shutdown, and where each goes on after it.
AfterShutdown ==
  [reader |-> "done", recvPump |-> "done", sendPump |-> "done",
   cleaner |-> "remove", manager |-> "remove"]

Closers == DOMAIN AfterShutdown
Threads == Closers \cup {"heartbeat", "forwarder"}

VARIABLES
  pc,           \* where each goroutine is
  state,        \* the flag of the face: TRUE is up
  persistent,   \* Persistence > 0
  fresh,        \* expireTime has not passed
  sendQue, recvQue,   \* the number of packets in each queue of the face
  packetQueue,  \* the number in the forwarder's queue, from whatever face
  closed,       \* the channels have been closed
  conn,         \* the connection: the peer "reads", or "stalls", or it is "broken"
  inTable,      \* the face is in the LogicFaceTable
  evicted,      \* calls of onShutdownCallback
  alive         \* the daemon has not ended in a panic

queues == <<sendQue, recvQue, packetQueue>>
face == <<state, closed, conn, evicted, alive>>
vars == <<pc, state, persistent, fresh, sendQue, recvQue, packetQueue,
          closed, conn, inTable, evicted, alive>>

Goto(t, from, to) == pc[t] = from /\ pc' = [pc EXCEPT ![t] = to]

-----------------------------------------------------------------------------
(* LogicFace.Shutdown: the test, which is one step with the call, the      *)
(* assignment, and all the closing                                         *)

CallShutdown(t, from) == Goto(t, from, IF state THEN "mark" ELSE AfterShutdown[t])

ShutdownMark(t) ==
  /\ Goto(t, "mark", "close")
  /\ state' = FALSE
  /\ UNCHANGED <<closed, conn, evicted, alive,
                 queues, inTable, persistent, fresh>>

\* Seeded fault: closing a closed channel is taken not to matter.
ShutdownClose_Again(t) ==
  /\ Goto(t, "close", AfterShutdown[t])
  /\ closed' = TRUE /\ conn' = "broken" /\ evicted' = evicted + 1
  /\ UNCHANGED <<state, alive, queues, inTable, persistent, fresh>>

\* Seeded fault: the connection is left open.
ShutdownClose_KeepConn(t) ==
  /\ Goto(t, "close", AfterShutdown[t])
  /\ IF closed
     THEN alive' = FALSE /\ UNCHANGED <<closed, evicted>>
     ELSE closed' = TRUE /\ evicted' = evicted + 1 /\ UNCHANGED alive
  /\ UNCHANGED <<state, conn, queues, inTable, persistent, fresh>>

\* The channels, which panics when one is closed already; then the connection;
\* then the callback that takes the face out of the FIB.
ShutdownClose(t) ==
  /\ Goto(t, "close", AfterShutdown[t])
  /\ IF closed
     THEN alive' = FALSE /\ UNCHANGED <<closed, conn, evicted>>
     ELSE closed' = TRUE /\ conn' = "broken" /\ evicted' = evicted + 1 /\ UNCHANGED alive
  /\ UNCHANGED <<state, queues, inTable, persistent, fresh>>

Shutdown(t) == ShutdownMark(t) \/ ShutdownClose(t)

-----------------------------------------------------------------------------
(* StreamTransport.Receive, down to LogicFace.ReceivePacket *)

\* Seeded fault: the queue takes any number of packets.
ReadPacket_NoLimit ==
  /\ conn # "broken" /\ pc["reader"] = "read"
  /\ state /\ ~closed
  /\ recvQue' = recvQue + 1
  /\ UNCHANGED <<pc, face, sendQue, packetQueue, inTable, persistent, fresh>>

\* A packet for a face that is down or a queue that is full is dropped; the
\* panic of a closed channel is recovered.
ReadPacket ==
  /\ conn # "broken" /\ pc["reader"] = "read"
  /\ state /\ ~closed /\ recvQue < LFRecvQueSize
  /\ recvQue' = recvQue + 1
  /\ UNCHANGED <<pc, face, sendQue, packetQueue, inTable, persistent, fresh>>

\* A heartbeat refreshes the face and goes no further.  The peers that send
\* them are routers, whose readers never stall.
ReadHeartbeat ==
  /\ conn = "reads" /\ pc["reader"] = "read"
  /\ fresh' = TRUE
  /\ UNCHANGED <<pc, face, queues, inTable, persistent>>

ReadError ==
  /\ conn = "broken"
  /\ CallShutdown("reader", "read")
  /\ UNCHANGED <<face, queues, inTable, persistent, fresh>>

\* What the peer sent does not decode.
ReadMalformed ==
  /\ conn # "broken"
  /\ CallShutdown("reader", "read")
  /\ UNCHANGED <<face, queues, inTable, persistent, fresh>>

Reader == ReadPacket \/ ReadHeartbeat \/ ReadError \/ ReadMalformed

-----------------------------------------------------------------------------
(* The two pumps.  A closed channel still gives out what it holds; a pump  *)
(* looks at state before it waits for a packet.                            *)

ToTakeOrDone(t, from) == Goto(t, from, IF state THEN "take" ELSE "done")

RecvTake ==
  /\ recvQue > 0
  /\ Goto("recvPump", "take", "hand")
  /\ recvQue' = recvQue - 1
  /\ UNCHANGED <<face, sendQue, packetQueue, inTable, persistent, fresh>>

RecvClosed ==
  /\ recvQue = 0 /\ closed
  /\ CallShutdown("recvPump", "take")
  /\ UNCHANGED <<face, queues, inTable, persistent, fresh>>

\* onReceivePacket, which waits for room in the forwarder's queue.  A packet
\* without an identifier does not refresh the face.
RecvHand ==
  /\ packetQueue < PacketQueueSize
  /\ ToTakeOrDone("recvPump", "hand")
  /\ packetQueue' = packetQueue + 1
  /\ fresh' = TRUE \/ UNCHANGED fresh
  /\ UNCHANGED <<face, sendQue, recvQue, inTable, persistent>>

SendTake ==
  /\ sendQue > 0
  /\ Goto("sendPump", "take", "write")
  /\ sendQue' = sendQue - 1
  /\ UNCHANGED <<face, recvQue, packetQueue, inTable, persistent, fresh>>

SendClosed ==
  /\ sendQue = 0 /\ closed
  /\ CallShutdown("sendPump", "take")
  /\ UNCHANGED <<face, queues, inTable, persistent, fresh>>

\* StreamTransport.Send waits while the peer does not read.
Write ==
  /\ \/ conn = "reads" /\ ToTakeOrDone("sendPump", "write")
     \/ conn = "broken" /\ CallShutdown("sendPump", "write")
  /\ UNCHANGED <<face, queues, inTable, persistent, fresh>>

RecvPump == RecvTake \/ RecvClosed \/ RecvHand
SendPump == SendTake \/ SendClosed \/ Write

-----------------------------------------------------------------------------
(* The heartbeat of a persistent face, whose sending nothing recovers *)

\* The ticker fires: the face must be up and its queue short.
HeartbeatTest ==
  /\ IF state
     THEN sendQue < HeartbeatLimit /\ Goto("heartbeat", "tick", "send")
     ELSE Goto("heartbeat", "tick", "done")
  /\ UNCHANGED <<face, queues, inTable, persistent, fresh>>

HeartbeatSend ==
  /\ Goto("heartbeat", "send", "tick")
  /\ IF closed
     THEN alive' = FALSE /\ UNCHANGED sendQue
     ELSE /\ sendQue < LFSendQueSize
          /\ sendQue' = sendQue + 1 /\ UNCHANGED alive
  /\ UNCHANGED <<state, closed, conn, evicted,
                 recvQue, packetQueue, inTable, persistent, fresh>>

Heartbeat == HeartbeatTest \/ HeartbeatSend

-----------------------------------------------------------------------------
(* The forwarder: it handles packets of this face and of others, and may   *)
(* send each on through this face, if it is up, or through another.        *)

\* The pump of another face puts a packet into the forwarder's queue.
OthersHand ==
  /\ packetQueue < PacketQueueSize
  /\ packetQueue' = packetQueue + 1
  /\ UNCHANGED <<pc, face, sendQue, recvQue, inTable, persistent, fresh>>

ForwarderTake ==
  /\ packetQueue > 0
  /\ packetQueue' = packetQueue - 1
  /\ \/ pc["forwarder"] = "idle" /\ UNCHANGED pc
     \/ state /\ Goto("forwarder", "idle", "send")
     \/ Goto("forwarder", "idle", "elsewhere")
  /\ UNCHANGED <<face, sendQue, recvQue, inTable, persistent, fresh>>

\* There is room in the sending queue of the other face.
ForwarderReturns ==
  /\ Goto("forwarder", "elsewhere", "idle")
  /\ UNCHANGED <<face, queues, inTable, persistent, fresh>>

\* Seeded fault: closing the queue does not wake who waits for room in it.
AddPkt2SendQue_Waits ==
  /\ sendQue < LFSendQueSize
  /\ Goto("forwarder", "send", "idle")
  /\ sendQue' = IF closed THEN sendQue ELSE sendQue + 1
  /\ UNCHANGED <<face, recvQue, packetQueue, inTable, persistent, fresh>>

\* addPkt2SendQue waits for room; the panic of a closed channel is recovered.
AddPkt2SendQue ==
  /\ closed \/ sendQue < LFSendQueSize
  /\ Goto("forwarder", "send", "idle")
  /\ sendQue' = IF closed THEN sendQue ELSE sendQue + 1
  /\ UNCHANGED <<face, recvQue, packetQueue, inTable, persistent, fresh>>

Forwarder == OthersHand \/ ForwarderTake \/ ForwarderReturns \/ AddPkt2SendQue

-----------------------------------------------------------------------------
(* Faces are deleted by the cleaner and by a management command *)

\* Seeded fault: faces that are down are not looked at.
CleanerFinds_UpOnly ==
  /\ inTable
  /\ state /\ ~fresh /\ ~persistent /\ CallShutdown("cleaner", "scan")
  /\ UNCHANGED <<face, queues, inTable, persistent, fresh>>

\* Seeded fault: only faces that are down are cleaned.
CleanerFinds_DownOnly ==
  /\ inTable
  /\ ~state /\ Goto("cleaner", "scan", "remove")
  /\ UNCHANGED <<face, queues, inTable, persistent, fresh>>

\* doFaceClean comes upon a face that is down or idle.
CleanerFinds ==
  /\ inTable
  /\ \/ ~state /\ Goto("cleaner", "scan", "remove")
     \/ state /\ ~fresh /\ ~persistent /\ CallShutdown("cleaner", "scan")
  /\ UNCHANGED <<face, queues, inTable, persistent, fresh>>

\* delLogicFace finds the face in the table.
ManagerFinds ==
  /\ inTable
  /\ CallShutdown("manager", "idle")
  /\ UNCHANGED <<face, queues, inTable, persistent, fresh>>

\* RemoveByLogicFaceId.  (FaceTable has the table's count.)
Remove(t, idle) ==
  /\ Goto(t, "remove", idle)
  /\ inTable' = FALSE
  /\ UNCHANGED <<face, queues, persistent, fresh>>

Cleaner == CleanerFinds \/ Remove("cleaner", "scan")
Manager == ManagerFinds \/ Remove("manager", "idle")

-----------------------------------------------------------------------------
(* The other end, and time *)

\* The peer stops reading for good, or its end of the connection breaks.
PeerChanges ==
  /\ \/ conn = "reads" /\ conn' = "stalls"
     \/ conn # "broken" /\ conn' = "broken"
  /\ UNCHANGED <<pc, state, closed, evicted, alive, queues, inTable, persistent, fresh>>

\* expireTime passes.  Only the cleaner looks at it, and only when a face that is
\* not persistent is up.
Expire ==
  /\ fresh /\ state /\ ~persistent
  /\ fresh' = FALSE
  /\ UNCHANGED <<pc, face, queues, inTable, persistent>>

-----------------------------------------------------------------------------
Init ==
  /\ persistent \in BOOLEAN
  /\ pc = [reader |-> "read", recvPump |-> "take", sendPump |-> "take",
           heartbeat |-> IF persistent THEN "tick" ELSE "done",
           forwarder |-> "idle", cleaner |-> "scan", manager |-> "idle"]
  /\ state = TRUE
  /\ fresh = TRUE
  /\ sendQue = 0 /\ recvQue = 0 /\ packetQueue = 0
  /\ closed = FALSE
  /\ conn = "reads"
  /\ inTable = TRUE
  /\ evicted = 0
  /\ alive = TRUE

Next ==
  /\ alive
  /\ \/ \E t \in Closers : Shutdown(t)
     \/ Reader \/ RecvPump \/ SendPump \/ Heartbeat \/ Forwarder \/ Cleaner \/ Manager
     \/ PeerChanges \/ Expire

ShutdownIsFair(t) == WF_vars(alive /\ Shutdown(t))

\* Every goroutine that can run does; ReadPacket, ReadHeartbeat and ReadMalformed
\* wait for the peer, OthersHand and ForwarderReturns for other faces, whose peers
\* may never read again, and ManagerFinds for a command.  A pump that waits for
\* room in the forwarder's queue is not overtaken for ever by those of other faces.
Fairness ==
  /\ \A t \in Closers : ShutdownIsFair(t)
  /\ WF_vars(alive /\ ReadError)
  /\ WF_vars(alive /\ (RecvTake \/ RecvClosed))
  /\ SF_vars(alive /\ RecvHand)
  /\ WF_vars(alive /\ SendPump)
  /\ WF_vars(alive /\ Heartbeat)
  /\ WF_vars(alive /\ AddPkt2SendQue)
  /\ WF_vars(alive /\ ForwarderTake)
  /\ WF_vars(alive /\ Cleaner)
  /\ WF_vars(alive /\ Remove("manager", "idle"))
  /\ WF_vars(alive /\ Expire)

Spec == Init /\ [][Next]_vars /\ Fairness

-----------------------------------------------------------------------------
TypeOK ==
  /\ pc \in [Threads -> {"read", "take", "hand", "write", "tick", "send", "idle",
                         "elsewhere", "scan", "mark", "close", "remove", "done"}]
  /\ sendQue \in 0 .. LFSendQueSize
  /\ recvQue \in 0 .. LFRecvQueSize
  /\ packetQueue \in 0 .. PacketQueueSize
  /\ evicted \in Nat

\* The face is taken out of the FIB at most once, although several goroutines
\* may be in Shutdown at a time, and never while its connection is open.
EvictedOnce ==
  /\ evicted <= 1
  /\ evicted = 1 => conn = "broken" /\ closed /\ ~state

\* Once a face is down, its reader, its sending pump and its heartbeat end, whoever
\* shuts it down and wherever they wait at that moment, unless the daemon ends.
GoroutinesEnd ==
  ~state ~> (~alive \/ \A t \in {"reader", "sendPump", "heartbeat"} : pc[t] = "done")

\* So does its receiving pump, even out of a wait for the forwarder, unless the
\* forwarder waits for good in the sending queue of some other face.
RecvPumpEnds ==
  \/ ~state ~> (~alive \/ pc["recvPump"] = "done")
  \/ <>[](pc["forwarder"] = "elsewhere")

\* A peer that stops reading holds the forwarder up for a time only: the
\* cleaner closes a face without traffic, which frees a blocked sender.
ForwarderIsReleased ==
  (~persistent /\ pc["forwarder"] = "send") ~> (~alive \/ pc["forwarder"] # "send")

\* A face that is down leaves the face table.
DownFaceIsRemoved == ~state ~> (~alive \/ ~inTable)

\* RunProtect.go says that a goroutine started by GoroutineNoPanic, as all of
\* these are, does not panic.
DaemonSurvives == alive
=============================================================================
