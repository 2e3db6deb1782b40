----------------------------- MODULE FaceTable ------------------------------
(***************************************************************************)
(* How logic faces come and go (daemon/lf).  The table lists the faces     *)
(* that are there; a listener of a network card and the UDP listener map   *)
(* the address that a packet comes from to the face it is handed to.       *)
(* Packets from new peers, connections, management commands and the        *)
(* default routes create faces; the cleaner, management, the monitor of    *)
(* the network cards and the peers end them.  None of them holds a lock    *)
(* from one access of a map to the next.                                   *)
(*                                                                         *)
(* A step is one access of the table or of a map.  What a face does with a *)
(* packet, and Shutdown as two goroutines run it, is LogicFace's.  The      *)
(* inner face, to management, is left out but for its deletion.            *)
(***************************************************************************)
EXTENDS Integers, FiniteSets, Maps

CONSTANTS
  Macs,          \* addresses of Ethernet peers
  Addrs,         \* addresses of UDP peers
  EtherWorkers,  \* the receiveRoutineNum goroutines of each network card's listener
  UdpWorkers,    \* those of the UDP listener
  Callers,       \* goroutines that carry out commands and make default routes
  FaceIds,       \* what lastId counts through: ids are new, and told apart
  MaxBusy,       \* bound: goroutines between two accesses of the table and maps
  MaxStreams,    \* bound: connections made
  MaxListeners,  \* bound: times the network card is opened
  SizeModulus    \* the size is an unsigned number, 2^64 in the code

ASSUME BoundsAssumption ==
  {MaxBusy, MaxStreams, MaxListeners, SizeModulus} \subseteq Nat \ {0}

VARIABLES
  faces,     \* every face created: id -> where to and what state
  listed,    \* the ids in the table
  size,      \* mSize
  mapped,    \* etherFaceMap of every listener, and udpAddrFaceMap
  open,      \* mInterfaceListeners: the listener of the network bad, if any
  started,   \* the number of listeners started
  bad,       \* badDev: the network card could not be opened
  job,       \* what each goroutine that handles packets or commands does
  monitor,   \* what the monitor does: the listener it will store, if any
  clean,     \* what the cleaner does: the face it destroys, if any
  alive,     \* the daemon runs
  raced      \* history: keys whose face was up when its mapping was deleted, or
             \* that two goroutines made a face for

tableVars == <<faces, listed, size>>
cardVars == <<open, started, bad, monitor>>
vars == <<tableVars, mapped, cardVars, clean, job, alive, raced>>

Multicast == "01:00:5e:00:17:aa"
ASSUME MulticastAssumption == Multicast \notin Macs
Key(kind, on, to) == [kind |-> kind, on |-> on, to |-> to]
Stream == Key("stream", 0, "none")  \* a TCP or Unix connection

\* The receive routines of the listeners, which overlap, and those who create faces.
Routines == [of : {"listener"}, n : 1..MaxListeners, w : EtherWorkers]
Workers == {[of |-> "udp", n |-> w] : w \in UdpWorkers}
Managers == {[of |-> "manager", n |-> c] : c \in Callers}
Procs == Routines \cup Workers \cup Managers

Idle == [at |-> "idle"]
Up(f) == faces[f].up

\* The daemon ends, and its tables with it.
Ends ==
  /\ alive' = FALSE
  /\ faces' = EmptyMap /\ listed' = {} /\ size' = 0
  /\ mapped' = EmptyMap /\ raced' = {}
  /\ open' = {} /\ started' = 0 /\ bad' = FALSE /\ monitor' = {}
  /\ clean' = {}
  /\ job' = [p \in Procs |-> Idle]

Goes(p, j) == job' = [job EXCEPT ![p] = j]
At(p, where) == job[p].at = where

Busy == Cardinality({p \in Procs : job[p].at \notin {"idle", "ended"}})
          + Cardinality(clean) + Cardinality(monitor)
MayBegin == Busy < MaxBusy
Begins(p) == At(p, "idle") /\ MayBegin

-----------------------------------------------------------------------------
(* The table *)

NewIds == FaceIds \ DOMAIN faces
NewFace(k, keep) == [key |-> k, up |-> TRUE, keep |-> keep]

\* createEtherLogicFace and its like: a face is initialised, added and started.
AddLogicFace(f, k, keep) ==
  /\ faces' = Put(faces, f, NewFace(k, keep))
  /\ listed' = listed \cup {f}
  /\ size' = (size + 1) % SizeModulus

\* RemoveByLogicFaceId counts down whether the face is listed or not.
RemoveByLogicFaceId(f) ==
  /\ listed' = listed \ {f}
  /\ size' = (size - 1) % SizeModulus
  /\ UNCHANGED faces

\* The faces of fs after Shutdown; their persistence matters no more.
Shut(fs) ==
  [f \in DOMAIN faces |->
     IF f \in fs THEN [key |-> faces[f].key, up |-> FALSE, keep |-> FALSE] ELSE faces[f]]

-----------------------------------------------------------------------------
(* The maps *)

\* Seeded fault: the face is stored under an address it is not looked up with.
StoreLogicFace_Elsewhere(k, f) == mapped' = Put(mapped, Key(k.kind, k.on, Multicast), f)

\* AddLogicFace of the listeners and the Store of CreateUdpLogicFace.
StoreLogicFace(k, f) == mapped' = Put(mapped, k, f)

\* DeleteLogicFace of the listeners in ls, for the peer to.
Unmap(ls, to) ==
  LET ks == {Key("ether", l, to) : l \in ls}
  IN  /\ mapped' = Drop(mapped, ks)
      /\ raced' = raced \cup {k \in ks \cap DOMAIN mapped : Up(mapped[k])}

\* Someone is about to make a face for k, or to map one.
Making(k) == \E p \in Procs : job[p].at \in {"create", "store", "map"} /\ job[p].key = k

\* GetLogicFaceByMacAddr and GetLogicFaceByRemoteUri, and what p does with a
\* face that is mapped.
LookUp(p, k, keep, then) ==
  /\ IF k \in DOMAIN mapped
     THEN Goes(p, [at |-> then, key |-> k, face |-> mapped[k], keep |-> keep]) /\ UNCHANGED raced
     ELSE /\ Goes(p, [at |-> "create", key |-> k, keep |-> keep])
          /\ raced' = IF Making(k) THEN raced \cup {k} ELSE raced
  /\ UNCHANGED <<tableVars, mapped, cardVars, clean, alive>>

\* The face is made.  Faces of listeners are never cleaned by themselves, those
\* of UDP peers are, before a command says otherwise.
CreateFace(p, then) ==
  /\ At(p, "create")
  /\ \E f \in NewIds :
       /\ AddLogicFace(f, job[p].key, job[p].key.kind = "ether")
       /\ Goes(p, [at |-> then, key |-> job[p].key, face |-> f, keep |-> job[p].keep])
  /\ UNCHANGED <<mapped, cardVars, clean, alive, raced>>

-----------------------------------------------------------------------------
(* Packets from the network card: InterfaceListener *)

Receive(p, m) ==
  p.n <= started /\ Begins(p) /\ LookUp(p, Key("ether", p.n, m), TRUE, "found")

\* The mapping of a face that is down is deleted, and the packet handed to it.
OnReceive(p) ==
  /\ At(p, "found")
  /\ IF Up(job[p].face) THEN UNCHANGED <<mapped, raced>> ELSE Unmap({p.n}, job[p].key.to)
  /\ Goes(p, Idle)
  /\ UNCHANGED <<tableVars, cardVars, clean, alive>>

\* If the face cannot be made, LogFatal ends the daemon.
CreateFails(p) == At(p, "create") /\ Ends

StoresFace(p, then) ==
  /\ At(p, "store")
  /\ StoreLogicFace(job[p].key, job[p].face)
  /\ Goes(p, [at |-> then, key |-> job[p].key, face |-> job[p].face, keep |-> job[p].keep])
  /\ UNCHANGED <<tableVars, cardVars, clean, alive, raced>>

\* AddLogicFace; the packet is handed to the face.
MapsFace(p) ==
  /\ At(p, "map")
  /\ StoreLogicFace(job[p].key, job[p].face)
  /\ Goes(p, Idle)
  /\ UNCHANGED <<tableVars, cardVars, clean, alive, raced>>

Routine(p) ==
  \/ \E m \in Macs : Receive(p, m)
  \/ OnReceive(p) \/ CreateFace(p, "map") \/ CreateFails(p) \/ MapsFace(p)

-----------------------------------------------------------------------------
(* Packets from UDP peers: UdpListener *)

ReceiveUdp(p, a) ==
  /\ Begins(p)
  /\ LET k == Key("udp", 0, a)
     IN  Goes(p, IF k \in DOMAIN mapped
                 THEN [at |-> "found", key |-> k, face |-> mapped[k], keep |-> FALSE]
                 ELSE [at |-> "new", key |-> k])
  /\ UNCHANGED <<tableVars, mapped, cardVars, clean, alive, raced>>

\* CreateUdpLogicFace looks again.
LookAgain(p) == At(p, "new") /\ LookUp(p, job[p].key, FALSE, "map")

\* A packet that cannot be parsed ends the goroutine.
ParseError(p) ==
  /\ At(p, "idle")
  /\ Goes(p, [at |-> "ended"])
  /\ UNCHANGED <<tableVars, mapped, cardVars, clean, alive, raced>>

\* If its face is down, DeleteLogicFace calls itself until the stack overflows.
OnReceiveUdp(p) ==
  /\ At(p, "found")
  /\ \/ /\ Up(job[p].face)
        /\ Goes(p, Idle)
        /\ UNCHANGED <<tableVars, mapped, cardVars, clean, alive, raced>>
     \/ ~Up(job[p].face) /\ Ends

\* No socket for the face: the packet is dropped, the command fails.
NoSocket(p) ==
  /\ At(p, "create")
  /\ Goes(p, Idle)
  /\ UNCHANGED <<tableVars, mapped, cardVars, clean, alive, raced>>

Worker(p) ==
  \/ \E a \in Addrs : ReceiveUdp(p, a)
  \/ ParseError(p) \/ OnReceiveUdp(p) \/ LookAgain(p)
  \/ CreateFace(p, "store") \/ NoSocket(p) \/ StoresFace(p, "map") \/ MapsFace(p)

-----------------------------------------------------------------------------
(* Commands and default routes: addLogicFace, delLogicFace, SetUpDefaultRoute *)

\* CreateEtherLogicFace wants an open network card.  The face that is mapped is
\* taken as it is, down or not.
AddEther(p, m, keep) == Begins(p) /\ \E l \in open : LookUp(p, Key("ether", l, m), keep, "persist")
AddUdp(p, a, keep)   == Begins(p) /\ LookUp(p, Key("udp", 0, a), keep, "persist")

MayConnect == Cardinality({f \in DOMAIN faces : faces[f].key = Stream}) < MaxStreams

\* A stream is connected first.  A Unix face is kept until its persistence is set.
AddStream(p, born, keep) ==
  /\ Begins(p) /\ MayConnect
  /\ \E f \in NewIds :
       /\ AddLogicFace(f, Stream, born)
       /\ Goes(p, [at |-> "persist", key |-> Stream, face |-> f, keep |-> keep])
  /\ UNCHANGED <<mapped, cardVars, clean, alive, raced>>

\* Of a Unix socket that refuses, CreateUnixLogicFace panics.
DialUnixFails(p) == At(p, "idle") /\ Ends

\* SetPersistence, and the answer or the routes.
SetPersistence(p) ==
  /\ At(p, "persist")
  /\ LET f == job[p].face
     IN  faces' = Put(faces, f, [key |-> faces[f].key, up |-> Up(f), keep |-> job[p].keep /\ Up(f)])
  /\ Goes(p, Idle)
  /\ UNCHANGED <<listed, size, mapped, cardVars, clean, alive, raced>>

\* Seeded fault: a face that is not listed any more is deleted again.
DelLogicFace_Unlisted(p, f) ==
  /\ Begins(p)
  /\ \A q \in Managers : ~At(q, "remove")
  /\ faces' = Shut({f})
  /\ Goes(p, [at |-> "remove", face |-> f])
  /\ UNCHANGED <<listed, size, mapped, cardVars, clean, alive, raced>>

\* GetLogicFacePtrById and Shutdown, in the one goroutine that carries out
\* commands, ...
DelLogicFace(p, f) ==
  /\ Begins(p) /\ f \in listed
  /\ \A q \in Managers : ~At(q, "remove")
  /\ faces' = Shut({f})
  /\ Goes(p, [at |-> "remove", face |-> f])
  /\ UNCHANGED <<listed, size, mapped, cardVars, clean, alive, raced>>

\* ... then the table.  The maps keep the face.
EndDelete(p) ==
  /\ At(p, "remove")
  /\ RemoveByLogicFaceId(job[p].face)
  /\ Goes(p, Idle)
  /\ UNCHANGED <<mapped, cardVars, clean, alive, raced>>

\* Without the inner face the dispatcher ends the daemon.
DelInnerFace(p) == At(p, "idle") /\ Ends

Caller(p) ==
  \/ \E keep \in BOOLEAN :
       \/ \E m \in Macs : AddEther(p, m, keep)
       \/ \E a \in Addrs : AddUdp(p, a, keep)
       \/ AddStream(p, keep, keep) \/ AddStream(p, TRUE, keep)
  \/ CreateFace(p, "store") \/ NoSocket(p) \/ StoresFace(p, "persist") \/ SetPersistence(p)
  \/ DialUnixFails(p) \/ DelInnerFace(p)
  \/ EndDelete(p) \/ \E f \in DOMAIN faces : DelLogicFace(p, f)

-----------------------------------------------------------------------------
(* Connections: TcpListener and UnixStreamListener *)

\* accept: a TCP face may be cleaned, a Unix face is kept.
Accept(keep) ==
  /\ MayConnect
  /\ \E f \in NewIds : AddLogicFace(f, Stream, keep)
  /\ UNCHANGED <<mapped, cardVars, clean, job, alive, raced>>

\* The reader ends with the connection, and shuts the face down.
PeerCloses(f) ==
  /\ Up(f) /\ faces[f].key = Stream
  /\ faces' = Shut({f})
  /\ UNCHANGED <<listed, size, mapped, cardVars, clean, job, alive, raced>>

-----------------------------------------------------------------------------
(* The monitor, which finds the network card up or down: EthernetListener *)

\* closeInterfaceListener: the faces that are mapped go down, and the
\* listener's own.
CloseListener(l) ==
  /\ monitor = {} /\ l \in open
  /\ faces' = Shut({mapped[k] : k \in {x \in DOMAIN mapped : x.kind = "ether" /\ x.on = l}}
                    \cup {f \in DOMAIN faces : faces[f].key = Key("ether", l, Multicast)})
  /\ open' = open \ {l}
  /\ UNCHANGED <<listed, size, mapped, started, bad, monitor, clean, job, alive, raced>>

\* CreateInterfaceListener: its face is made and its goroutines start, ...
StartListener ==
  /\ monitor = {} /\ open = {} /\ ~bad /\ MayBegin
  /\ started < MaxListeners
  /\ \E f \in NewIds : AddLogicFace(f, Key("ether", started + 1, Multicast), TRUE)
  /\ started' = started + 1
  /\ monitor' = {started + 1}
  /\ UNCHANGED <<mapped, open, bad, clean, job, alive, raced>>

\* ... and the listener is stored.
StoreListener ==
  /\ monitor # {}
  /\ open' = monitor
  /\ monitor' = {}
  /\ UNCHANGED <<tableVars, mapped, started, bad, clean, job, alive, raced>>

\* A card that cannot be opened is not tried again.
StartFails ==
  /\ monitor = {} /\ open = {} /\ ~bad
  /\ bad' = TRUE
  /\ UNCHANGED <<tableVars, mapped, open, started, monitor, clean, job, alive, raced>>

MonitorDev == StartListener \/ StoreListener \/ StartFails \/ \E l \in open : CloseListener(l)

-----------------------------------------------------------------------------
(* The cleaner: LogicFaceSystem *)

\* Seeded fault: the face is not shut down first.
CleansIdle_StillUp(f) == Up(f) /\ ~faces[f].keep /\ UNCHANGED faces

\* A face without persistence may have been idle for LogicFaceIdleTime.
CleansIdle(f) == Up(f) /\ ~faces[f].keep /\ faces' = Shut({f})

\* doFaceClean comes to a face of the table, round after round.
DoFaceClean(f) ==
  /\ clean = {} /\ MayBegin /\ f \in listed
  /\ CleansIdle(f) \/ (~Up(f) /\ UNCHANGED faces)
  /\ clean' = {[face |-> f, at |-> "unmap"]}
  /\ UNCHANGED <<listed, size, mapped, cardVars, job, alive, raced>>

\* destroyFace: the mapping of an Ethernet peer is deleted in the listener that
\* the card has now, that of a UDP peer by the DeleteLogicFace that never returns, ...
DestroyUnmaps ==
  \E c \in clean :
    /\ c.at = "unmap"
    /\ \/ faces[c.face].key.kind = "udp" /\ Ends
       \/ /\ faces[c.face].key.kind # "udp"
          /\ IF faces[c.face].key.kind = "ether"
             THEN Unmap(open, faces[c.face].key.to) ELSE UNCHANGED <<mapped, raced>>
          /\ clean' = {[face |-> c.face, at |-> "remove"]}
          /\ UNCHANGED <<tableVars, cardVars, job, alive>>

\* ... and the face is removed from the table.
DestroyRemoves ==
  \E c \in clean :
    /\ c.at = "remove"
    /\ RemoveByLogicFaceId(c.face)
    /\ clean' = {}
    /\ UNCHANGED <<mapped, cardVars, job, alive, raced>>

Cleaner == DestroyUnmaps \/ DestroyRemoves \/ \E f \in listed : DoFaceClean(f)

-----------------------------------------------------------------------------
\* The goroutines of the system are started.
Init ==
  /\ faces = EmptyMap
  /\ listed = {}
  /\ size = 0
  /\ mapped = EmptyMap
  /\ open = {}
  /\ started = 0
  /\ bad = FALSE
  /\ job = [p \in Procs |-> Idle]
  /\ monitor = {}
  /\ clean = {}
  /\ alive = TRUE
  /\ raced = {}

Next ==
  /\ alive
  /\ \/ \E p \in Routines : Routine(p)
     \/ \E p \in Workers : Worker(p)
     \/ \E p \in Managers : Caller(p)
     \/ Accept(FALSE) \/ Accept(TRUE)
     \/ \E f \in DOMAIN faces : PeerCloses(f)
     \/ MonitorDev \/ Cleaner

Spec == Init /\ [][Next]_vars

-----------------------------------------------------------------------------
(* Properties *)

\* A face that works is in the table, so that commands, routes and the cleaner
\* find it: whoever takes a face out has shut it down (destroyFace,
\* delLogicFace), whatever the other goroutines do with it meanwhile.
LiveFacesAreListed == \A f \in DOMAIN faces : Up(f) => f \in listed

\* A face that leaves the table is counted down once, or twice if a command and the
\* cleaner both remove it, but never more often and never before it leaves: the
\* size is short of the number of faces listed, modulo SizeModulus, by no more
\* than the faces that have left (RemoveByLogicFaceId).
SizeIsNearlyExact ==
  \E d \in 0 .. Cardinality(DOMAIN faces \ listed) :
    (size + d) % SizeModulus = Cardinality(listed) % SizeModulus

\* A peer has one face that is up.  The maps that the listeners look in before
\* they make a face ensure it but for two races: two goroutines that have both
\* looked, and one that deletes the mapping of a face that was down when it
\* looked and has been replaced since.
OnePerPeer ==
  \A f, g \in DOMAIN faces :
    /\ Up(f) /\ Up(g) /\ faces[f].key = faces[g].key
    /\ faces[f].key.kind \in {"ether", "udp"}
    /\ faces[f].key \notin raced
    => f = g
=============================================================================
