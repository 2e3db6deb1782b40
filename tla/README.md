# A formal model of the MIR daemon

This directory is a TLA+ development of `mir-go`, a Go router for the
Multi-Identifier Network (MIN): modules that model the daemon's core, TLC
configurations that check them on small instances, and theorems that TLAPS
proves for every instance. Paths below are relative to `src/daemon/`.

## 1. The system

Neighbours send *Interests* (requests for a named content), *Data* and *Nacks*,
plus *GPPkts* (pushed packets). A packet travels

    socket -> Transport -> LinkService (reassembly) -> LogicFace.recvQue
           -> PacketValidator (pool) -> BlockQueue -> Forwarder (one goroutine)
           -> LogicFace.sendQue -> LinkService (fragmentation) -> Transport

and management commands enter as Interests for `/min-mir/mgmt/localhost`, which
the FIB routes to an inner face whose other end is the Dispatcher.

| component | state | operations | concurrency |
|---|---|---|---|
| Forwarder (`fw/Forwarder.go`, `StrategyBase.go`, `BestRouteStrategy.go`, `Algorithm.go`) | heap timer; owns PIT, FIB, CS, StrategyTable | pipelines OnIncoming/OnOutgoing Interest, Data, Nack, GPPkt; OnInterestFinalize; SetExpiryTime | one goroutine; timers run inside its loop and inside handlers |
| PIT (`table/PIT.go`, `PITEntry.go`) | entry per name: in-records, out-records with expiry | Insert, Find, FindDataMatches, Erase | forwarder only |
| LPM tree (`table/Lpm.go`) | linked nodes with value, child table, child counter | AddOrUpdate, Delete, FindLongestPrefixMatch, FindExactMatch | locked by its table |
| FIB (`table/FIB.go`, `FIBEntry.go`) | tree of entries: next hops with cost; version | look-ups, AddOrUpdate, RemoveNextHop, Erase | forwarder reads, management and face cleaner write |
| CS (`table/UniversalCS*.go`) | bounded cache (gcache: LRU, LFU, ARC) | Insert, Find | forwarder, CsManager |
| StrategyTable | strategy per prefix | Insert, FindEffectiveStrategyEntry | written at start-up |
| RoundRobinStrategy | rotation counter | AfterReceiveGPPkt | ticker goroutine increments it |
| PacketValidator | goroutine pool | ReceiveMINPacket | concurrent, then a bounded queue |
| LogicFace (`lf/LogicFace.go`) | state flag, recvQue, sendQue, expiry | ReceivePacket, Send*, Shutdown, heartbeat | receiver, two pumps, heartbeat, cleaner, management; no lock on the flag |
| LogicFaceTable / LogicFaceSystem / FaceCreator | id -> face, size, version | Add, Remove, doFaceClean, Create*LogicFace | listeners, cleaner, management |
| LinkService / LpReassemble | packet counter; partial packets | ReceivePacket, sendByteBuffer, ReceiveFragment | one counter shared by all faces |
| StreamTransport | receive buffer | Receive, readPktAndDeal, Send | one receiver per face |
| Dispatcher (`mgmt/Dispatcher.go`, `LRU.go`, `StatusDatasetContext.go`) | command table, dataset fragment cache | Start loop, queryStorage, Done | one goroutine; registration locks |
| FibManager, FaceManager, CsManager | - | add, remove, list; NextHopCleaner callback | Dispatcher goroutine, and the goroutine that shuts a face down |
| Listeners (`lf/EthernetListener.go`, `InterfaceListener.go`, `UdpListener.go`, `TcpListener.go`, `UnixStreamListener.go`) | listeners by card, face maps by peer address | onReceive, accept, monitorDev, closeInterfaceListener | receive routines, monitor, cleaner, management; each map has a lock of its own |
| IdentityManager (`mgmt/IdentityManager.go`), `mirgen`, `mird`, `mir`, `mirc` | data base of identities, key chain in memory, password file, identity files | ten commands; set-up and change of the password; start | several programs on one data base and one file |
| plugins, configuration | anchors, options | - | mostly I/O |

`minlib` (packets, timer heap, queues), `gcache` and `ants` are libraries that
are not in the repository; they are modelled from how the code uses them.

### What is hard, and what makes each component correct

* **Forwarder and PIT.** The records of an entry have different lifetimes,
  downstreams retransmit, and timers fire between and *inside* handlers.
  Correct means: an entry lives exactly as long as somebody waits
  (`TimersCoverRecords`); one upstream at a time is asked (`OnePendingUpstream`);
  nobody waits without an upstream having been asked (`WaitersHaveUpstream`);
  skipping the content store for a pending name is safe (`PendingIsNotCached`);
  loops are recognised (`NoncesTellFacesApart`); the PIT drains (`PITDrains`);
  and as a whole, data goes to exactly those who are owed it (`KeepsPromise`).
* **LPM tree.** What a look-up answers depends on nodes left by earlier
  additions and deletions: the tree must not lose names (`ImplementsAbstractTree`)
  and its answers must be a function of two visible sets (`AnswersAgree`).
* **FIB management.** Two levels of locks, pointers to entries kept across critical
  sections, and check-then-act between face table, tree and entry. Correct means: a
  dead face stays a next hop only if the route was written after its cleaning began
  (`DeadRoutesAreLate`), nobody's erasing hits a route that was written safely
  (`KeptRoutesStay`), the forwarder meets an empty entry only for a moment
  (`EmptyIsBeingErased`), and the locks do not deadlock (`WorkGoesOn`, and
  `NothingElseBlocks`: goroutines wait for nothing but these locks).
* **Logic faces.** Six goroutines and no lock on the state flag. Correct means: a
  face is closed and evicted once (`EvictedOnce`), its reader, sending pump and
  heartbeat end (`GoroutinesEnd`), and so does its receiving pump, unless the
  forwarder stays blocked in another face (`RecvPumpEnds`); it leaves the table
  (`DownFaceIsRemoved`), it does not block the forwarder for ever if it is not
  persistent (`ForwarderIsReleased`), and no queue is closed twice or
  sent on when closed outside a recover (`DaemonSurvives`, which fails).
* **Reassembly.** All faces of a router share one packet number. Correct means:
  fragments of different packets never mix (`UpIsOnePacket`), what is whole is
  delivered unless it has more than `MaxFragmentNum` fragments
  (`WholeIsDelivered`), what is not waits with a right count
  (`PartialsAreIncomplete`). What stays incomplete is never dropped (section 5).
* **Framing.** Packets are cut out of a stream in order, however reads split it.
* **Management dispatcher.** One goroutine answers everybody, lists go through a
  small cache in slices, and versions do not tell all states of a table apart.
  Correct means: the list a client is told of was begun after it asked, unless it
  joined another client's list in the making, and it accepts no slice of an older
  one (`NeverOlderThanAsked`); the slices of one list make it up (`ListsAreWhole`);
  the cache evicts what was touched least recently (`RecentSlicesHit`); and every
  interest taken is answered (`NobodyIsForgotten`).
* **Identities.** Several programs, a data base, a key chain in memory and a password
  file that have to agree although users and restarts come between any two steps:
  `RunsAsConfigured`, `RestartLosesNothing`, `ExportsAreLocked`, `SavedPasswordOpens`
  (unless `mirgen -rp` changed the password while another run asked for it), and
  `ResetIsSaved`, which fails.
* **Face table and listeners.** Check-then-act over three maps by many goroutines.
  Correct means: who works is found (`LiveFacesAreListed`), the count is short by no
  more than one for each face that has left (`SizeIsNearlyExact`; it is not exact, see
  section 5), and a peer has one face unless one of two races comes in between
  (`OnePerPeer`).

`PROJECT.json` lists every hazard with its line.

## 2. The modules

    Maps            Go maps as partial functions
    Lpm             what the LPM tree answers, as operators on two sets of names
    LpmSpec         abstract specification of the tree (a set of names)
    LpmTree         the linked nodes; implements LpmSpec
    PendingService  abstract specification of the router: what faces are owed
    Forwarder       pipelines + best-route strategy + PIT + FIB + CS + timers
    LpmTreeProofs   LpmTree implements LpmSpec, and answers as Lpm does   (TLAPS)
    ForwarderProofs invariants of Forwarder, and that it implements PendingService   (TLAPS)
    LpReassembly    sending and receiving LinkService, and the link between
    LpReassemblyProofs   invariants of LpReassembly   (TLAPS)
    LogicFace       one face with its goroutines, the forwarder, cleaner, management
    LogicFaceProofs      invariants of LogicFace, and that goroutines end and faces leave   (TLAPS)
    FibManagement   the FIB's locks, management commands, next-hop cleaners, reader
    FibManagementProofs  invariants of FibManagement, that its locks do not deadlock, and
                    that it changes its tree as LpmSpec does   (TLAPS)
    FaceTable       the face table, the listeners' face maps, who makes and ends faces
    FaceTableProofs      invariants of FaceTable      (TLAPS)
    Commands        the registered commands, and which interests reach a handler
    LruCache        the cache of slices, as operators on a sequence
    Dispatcher      the dispatcher's loop, lists in slices, mirc clients
    DispatcherProofs     nobody is forgotten, lists are whole and not too old   (TLAPS)
    IdentityManager identities: mirgen, mird, mir, mirc and the daemon's handlers
    IdentityManagerProofs  invariants of IdentityManager  (TLAPS)
    MCForwarder, MCLpmTree, MCFibManagement, MCFaceTable, MCDispatcher, MCIdentityManager
                    instances for TLC

`Dispatcher` and `IdentityManager` both build on `Commands`. What a command does to
the FIB is in `FibManagement`, what it does to faces in `FaceTable`; `Dispatcher`
keeps of either table only that it changed and whether that was counted.

### Forwarder

One goroutine runs `Forwarder.Start`: a turn fires due timers and handles at most
one packet. A handler is therefore one action, and everything it calls (strategy,
PIT, CS, SetExpiryTime with its nested `DealEvent`) is part of that action.

| variable | code |
|---|---|
| `pit` | `Forwarder.PIT`: name -> in- and out-records by face (nonce, time left, nacked) |
| `branched` | names whose node in the PIT's tree has a child table (see Lpm) |
| `timer` | `heapTimer`: name -> time left before OnInterestFinalize |
| `cs` | names in the content store |
| `fib` | prefix -> face -> cost |
| `alive` | FALSE after a panic: `ProtectRun` does not recover |
| `recv`, `sent` | the packet handled and the packets sent in the last step; history for the refinement, hidden from the state graph by `VIEW tables` |

| action | code path |
|---|---|
| `TTLExpired`, `DuplicateNonce` | OnIncomingInterest -> OnInterestLoop |
| `OnContentStoreHit` | OnIncomingInterest -> OnContentStoreHit -> AfterContentStoreHit -> OnOutgoingData |
| `Aggregate`, `RejectNoRoute`, `Forward` | OnIncomingInterest -> OnContentStoreMiss -> AfterReceiveInterest, one per return of the strategy |
| `DropSpentData`, `OnDataUnsolicited`, `OnIncomingData` | OnIncomingData, one per way through it: the TTL is 0, no entry matches, an entry does (then sendDataToAll) |
| `DiscardNack`, `AwaitOtherUpstreams`, `PropagateNack`, `PropagateNackPanics` | OnIncomingNack -> AfterReceiveNack -> sendNackToAll |
| `AddRoute`, `RemoveRoute` | the effect of FibManager on the FIB |
| `FireTimers`, `Tick` | heapTimer.DealEvent at the top of the loop, and the clock |

Modelling decisions:

* *Time* is the remaining duration of each record and timer, in abstract units, so
  that states do not grow with the clock. A handler takes no time. `Tick` may pass
  an expired timer (the loop can be late), so records and timers rest at 0.
* *Data* of packets is its name; signatures, payload and TTL are dropped, an
  exhausted TTL being possible for every interest (`TTLExpired`) and every Data
  (`DropSpentData`).
* *Equal costs*: `sort.Slice` over Go's map order is unstable, so any cheapest
  next hop may be taken.
* *Eviction*: any cached packet may be the victim (LRU, LFU and ARC are all allowed).
* *sendNackToAll* visits a map: any subset of the Nacks may have left before the
  nil slot of the ingress stops the goroutine.
* *Route updates* happen between packets. The code's finer interleavings, and its
  data races, are in FibManagement.
* The strategy table has best-route at `/` only, its default.
* `minlib` names are sequences of components; the tables' look-ups use `Lpm`.

### Lpm, LpmSpec, LpmTree

`LpmTree` has the nodes of `table/Lpm.go` (value, child table possibly nil, child
counter). A node hangs below exactly one other, so the path to a node stands for its
address: the entry of a child table for a component is the node at that longer path. A
method that calls itself on a child with the rest of the key is a recursive function of
the number of components that are left. Two quirks of the code are kept: `count` is
never decremented, so a node that ever had a child is never reclaimed, and
`FindExactMatch` returns the value of the node where the walk stops when a child is
missing. `Lpm` states what a caller can observe as operators on `stored` and `branched`;
the refinement `ImplementsAbstractTree` and `AnswersAgree` justify using `Lpm` in
`Forwarder` and `FibManagement`, and both are proved for all names. That these two
modules change their trees in steps of `LpmSpec` only is proved as well
(`PITChangesAsItsTree`, `FIBChangesAsItsTree`). `MaxCount` bounds the counter.

### PendingService

The abstract router has one variable of its own, `owed[f][n]`: the time left to
answer face `f`'s interest in `n`. The refinement mapping takes it from unexpired
in-records. It promises: data answers the longest prefix of its name that somebody
is owed; it goes to exactly the *other* faces still owed that, and settles it. It may
be passed over only if its TTL is spent or nobody is owed the very name (whether a
shorter name is matched is a matter of which nodes the PIT's tree has, see `Lpm`). A
reply from the cache happens only if nobody is waiting; an accepted interest is passed
on at most once and never back; Nacks never go back to where they came from; nothing
else changes what is owed except time, a refusal or a Nack.

### LpReassembly

One face sends packets, each cut into some number of fragments, to the
LinkService at the other end.

| variable | code |
|---|---|
| `lpPacketId` | the package variable of that name, shared by all faces of the router |
| `boot`, `packets` | restarts of the sending router; packets begun |
| `sending` | the loop of `sendByteBuffer`: packet, next fragment, number of fragments |
| `sent` | every fragment ever put on the link |
| `mPartialPackets`, `timeoutEventHeap` | the fields of `LpReassemble` |
| `arrived`, `delivered`, `received`, `up` | history: fragments that came, packets handed up, the fragment of the last step and what went up in it |

| action | code path |
|---|---|
| `BeginPacket`, `SendFragment`, `EndPacket` | `LinkService.sendByteBuffer`: one step per fragment, because `lpPacketId` is read for each and increased after the last |
| `OtherFaceSends` | the same increase by any other face |
| `Restart` | the process ends, perhaps in mid-packet, and starts with number 0 |
| `ReceivePacket` | `LinkService.ReceivePacket` with `ReceiveFragment`, `AddLpPacket`, `DoReassemble`, `processTimeoutEvent` |
| `Tick` | the clock |

* The link is the set `sent`: a fragment may never arrive (loss), arrive late or
  out of order, or arrive again (duplication).
* The receiver's key is the peer's address and the packet number; the model has
  one peer, so the key is the number. The bytes of a packet are its identity.
* `AddLpPacket` takes no fragment of a packet that has more than `MaxFragmentNum`. The
  first of them still makes an entry, which stays empty, counts as whole, and goes up
  as an empty packet; it does not decode, so the logic face gets nothing.
* `timeoutEventHeap` is modelled with all that the code does to it. As the code
  never pushes onto an empty heap, it stays empty, which is part of the proof and
  why partial packets are never dropped.
* `UpIsOnePacket` speaks of the fragments of one run of the sender. Across a
  restart fragments do mix, since the numbers start anew and old partial packets
  are not dropped.

### LogicFace

One face over a stream transport and everything that touches it, one action per
stretch of code between two points where a goroutine can wait or another can
interfere.

| variable | code |
|---|---|
| `pc` | where each goroutine stands: the transport's reader, the two pumps of `LogicFace.Start`, the heartbeat, the forwarder, the cleaner, management |
| `state`, `persistent`, `fresh` | `state`, `Persistence > 0`, and whether `expireTime` is still ahead |
| `sendQue`, `recvQue`, `packetQueue` | the face's channels and the forwarder's queue, as lengths |
| `closed` | the channels are closed |
| `conn` | the connection: the other end reads, or has stopped reading, or either end is closed |
| `inTable` | the face is in the face table (whose count is in FaceTable) |
| `evicted` | calls of `onShutdownCallback` |
| `alive` | FALSE after a panic that nothing recovers |

| action | code path |
|---|---|
| `CallShutdown`, `ShutdownMark`, `ShutdownClose` | `LogicFace.Shutdown`: the test of `state`, its assignment, and the closing |
| `ReadPacket`, `ReadHeartbeat`, `ReadError`, `ReadMalformed` | `StreamTransport.Receive` down to `LogicFace.ReceivePacket`; bytes that are no packet shut the face down as an error does |
| `RecvTake`, `RecvClosed`, `RecvHand`; `SendTake`, `SendClosed`, `Write` | the two pumps |
| `HeartbeatTest`, `HeartbeatSend` | the heartbeat of a persistent face |
| `ForwarderTake`, `AddPkt2SendQue` | the forwarder handling a packet and blocking on a full `sendQue` |
| `OthersHand`, `ForwarderReturns` | packets of other faces come to the forwarder; it gets out of the `sendQue` of another face, in which it may be blocked as it may in this one's |
| `CleanerFinds`, `ManagerFinds`, `Remove` | `doFaceClean`, `delLogicFace`, `RemoveByLogicFaceId` |
| `PeerChanges`, `Expire` | the other end, and time |

* *Merged steps.* The test in `Shutdown` is one step with whatever led to the
  call. The two channels, the connection and the callback are closed in one step:
  the first `close` already panics for the loser of the race, and no other
  goroutine tells these moments apart in a way the properties see. The reader's
  test of `state` and its send, which does not block, are one step too.
* *Data.* Packets are not told apart.
* *Surroundings.* A peer that stops reading does so for good, the worst case for a
  sender. Heartbeats come only from peers that read. Signatures are not
  verified (`needValidate` is off), so the validator is the wait of `RecvHand` for
  room in the forwarder's queue; with verification the pool comes in between
  (planned as `PacketPath`).

### FibManagement

The goroutines that change the FIB, one action per critical section or per look-up:
the Dispatcher's, which executes one command after another, the one of
`SetUpDefaultRoute`, and for each face the one that shuts it down, in which the
callback `NextHopCleaner` runs. Entries are objects that goroutines point to, so
that an entry may be changed that is not in the tree any more, and may come to be
erased by prefix when a younger entry has taken its place.

| variable | code |
|---|---|
| `tree`, `branched` | `FIB.lpm`, as in Lpm |
| `entry` | the `FIBEntry` objects that something points to: identifier, next hops, readOnly |
| `job` | the call the Dispatcher and the route loader are in: where it is, its arguments, the entry it found |
| `cleaning` | `NextHopCleaner` per face: where it is, the entries still to visit, the entry whose `RWlock` it holds |
| `reading`, `copying` | the entry that the forwarder has looked up, and whether it holds its read lock |
| `up`, `table` | faces not shut down; faces in the LogicFaceTable |
| `alive` | FALSE after a fatal error of the Go runtime |
| `late`, `kept` | history: routes written after the cleaner of their face took its list; routes written when nobody was about to erase their prefix |

| action | code path |
|---|---|
| `BeginCommand` | AddNextHop, RemoveNextHop: the face is looked up |
| `FindToAdd`, `Lock`, `Write` | AddNextHop; FIB.AddOrUpdate, from taking `rwLocker` to writing the next hop |
| `WriteRaces` | the map write of AddOrUpdate meets another goroutine at the same map |
| `FindToRemove`, `Unhop`, `Test`, `EraseEmpty` | RemoveNextHop: look-up, RemoveNextHop of the entry, HasNextHops, EraseByFIBEntry |
| `FaceGoesDown`, `BeginDelete`, `EndDelete`, `RemoveByLogicFaceId` | a face is shut down by itself or the cleaner, or deleted by command; it leaves the table |
| `List`, `Visit`, `EraseVisited`, `Finish` | NextHopCleaner: GetAllEntry, then for each entry the deletion, under `RWlock`, and the erase |
| `LookUp`; `BeginRead`, `EndRead` | the forwarder's look-up, which takes `rwLocker`; later GetNextHops of the entry found, which takes its `RWlock` |

* *Locks.* `rwLocker` is held over a step only by AddOrUpdate, `RWlock` only by a
  cleaner waiting for `rwLocker` and by the forwarder; every other critical section
  is one step whose guard says that the lock is free. Starvation is not modelled.
* AddOrUpdate writes the next hops without `RWlock`. Where another goroutine may be
  at the same map, the runtime may notice and end the daemon (`WriteRaces`) or not
  (`Write`).
* The test and the mark of `Shutdown`, whose races are in LogicFace, are one step
  with one winner. Faces are there from the start. The inner face of management
  cannot be named by a command's face id here. Costs, versions and listing are left
  out.

### FaceTable

Any number of faces and every goroutine that makes or ends one. A step is one access
of a shared map, as each map is locked for one access only.

| variable | code |
|---|---|
| `faces` | every `LogicFace` made: the address it sends to, `state`, and whether the cleaner may take it (`Persistence`) |
| `listed`, `size` | `LogicFaceTable.mLogicFaceTable` and `mSize` |
| `mapped` | `etherFaceMap` of each `InterfaceListener`, and `udpAddrFaceMap` |
| `open`, `started`, `bad` | `mInterfaceListeners`, listeners made so far, `badDev` |
| `job` | what a receive routine, a UDP worker, or a goroutine with a command or a default route has in hand |
| `monitor`, `clean` | what `monitorDev` and the cleaner have in hand |
| `raced` | history: addresses for which two goroutines raced |

| action | code path |
|---|---|
| `Receive`, `OnReceive`, `MapsFace`, `CreateFails` | InterfaceListener: processReceivedFrame, onReceive |
| `ReceiveUdp`, `LookAgain`, `OnReceiveUdp`, `ParseError` | UdpListener: processUdpPacket, onReceive |
| `AddEther`, `AddUdp`, `AddStream`, `DialUnixFails` | CreateEtherLogicFace and its like, from addLogicFace or SetUpDefaultRoute |
| `CreateFace`, `NoSocket`, `StoresFace`, `SetPersistence` | the steps of those that follow a look-up in vain |
| `DelLogicFace`, `EndDelete`, `DelInnerFace` | delLogicFace: Shutdown, then the table |
| `Accept`, `PeerCloses` | TCP and Unix connections |
| `StartListener`, `StoreListener`, `StartFails`, `CloseListener` | monitorDev |
| `DoFaceClean`, `DestroyUnmaps`, `DestroyRemoves` | doFaceClean and destroyFace |

* The daemon ends, and its tables with it, where the code does: an Ethernet face that
  cannot be made (`LogFatal`), a Unix socket that refuses (nil pointer), the deletion
  of the inner face, and `UdpListener.DeleteLogicFace`, which calls itself for ever.
* The listener of a card has as many receive routines as `EtherWorkers` has members,
  which overlap; the UDP listener as many as `UdpWorkers`. Commands and default routes
  come from `Callers`; as in the code, one of them at a time deletes faces.
* Not found is not mapped: the look-ups return a face that is down as well, and
  `CreateUdpLogicFace` and `CreateEtherLogicFace` hand it out.
* `destroyFace` deletes the mapping in the listener the card has *now*, which may not be
  the one the face belonged to; a listener that was closed keeps its receive routines.
* `raced` marks an address when a look-up fails while another goroutine is making or
  storing a face for it, and when a mapping is deleted whose face is up. `OnePerPeer`
  is about the other addresses: it says that these two are the only ways to a second
  face.
* Ids are never reused. What Shutdown does as its goroutines run it is in LogicFace.

### Commands, LruCache and Dispatcher

`Commands` is the table of registered commands with the parameters their validators
want, and what the checks at the head of `Dispatcher.Start` let through: an error of
`ParseControlParameters` is logged and passed over, so that a garbled command comes to
its validator with what could be parsed (`Admitted`), or with nothing, on which the
validator panics (`Panics`). `LruCache` is
`mgmt/LRU.go` as a sequence, the entry used last in front: `Place` is the element that
the map has for a key, `MoveToFront` the list's operation of that name, which `Get` and
an `Add` of a key that is there both end with.

| variable | code |
|---|---|
| `changes`, `version` | of FIB and face table: all changes, and those counted in the version |
| `inbox`, `pending` | the inner face's queue; the PIT entries of interests under way |
| `job` | the list between its collection and `Done` |
| `cache` | `Dispatcher.Cache` |
| `client` | each mirc process: what it asked, the meta data it got, the slices so far; as history, how often the table had changed when it asked (`since`) and whether a list for that name was in the making (`joins`) |
| `recent` | history: names saved or hit last |

| action | code path |
|---|---|
| `AddFib` ... `ListLogicFace`, `AsksOther` | the commands of mirc; other interests at the prefix |
| `FetchSlice`, `Expire`, `Show` | the executor of minlib that asks for slice after slice |
| `Ignore`, `Refuse`, `ParseFails` | the early returns of `Start`; a command without parameters ends the daemon |
| `Hit` | queryStorage |
| `Execute` | a control command, with `AddNextHop`, `RemoveNextHop`, `AddFace`, `DelFace`, `ChangeConfig` |
| `Collect`, `Publish` | ListEntries, listLogicFace: the reading of the entries begins; it ends, the version is read, and `Done` |
| `ServeInfo` | CsManager.serveInfo, which answers nothing |
| `DelInnerFace`, `DialUnixFails` | the daemon ends: `ReceivePacket` fails, `LogFatal`; CreateUnixLogicFace panics |
| `Elsewhere` | other goroutines change the tables |

* A table is the number of its changes. A list is no snapshot: its entries are read
  one by one, each under a lock of its own, while other goroutines change the table.
  Of a list the model keeps the state in which it was begun (`from`) and its size,
  which is one of `Bytes(table, from, to)` if the table was in state `to` in the end;
  sizes need not differ from one state to the next.
* Removing one of several next hops, and a face going down, are not counted, and the
  version is read after the entries. So two lists can carry the same names for their
  slices, and a client can finish a list of slices from two collections.
* What holds of age is `NeverOlderThanAsked`. `since` is the state of the table at the
  moment the client sends its command, whoever asked before. The list it is told of
  was begun in that state or later, even if the answer was meant for an earlier client
  that waited for the same name in the inbox. The one exception is `joins`: if the
  dispatcher was already collecting for an earlier client, this one gets that list.
  Nothing older than the list it was told of is accepted afterwards.
* A slice that is not cached makes the handler collect the list again, under names
  that extend the slice's; the client gets meta data and gives up.
* Equal interests have equal names, so the PIT sends one of them to the dispatcher and
  its answer to all who wait. The signature check is left out.

### IdentityManager

| variable | code |
|---|---|
| `stored` | the data base of the key chain: name -> the password that locks the identity |
| `passwdFile` | the file `passwd-<id>` that mirgen writes and mird reads |
| `mirgen` | each run of mirgen: where it is, the password of the identity in the key chain it read at its start (`own`), what it will save; as history, whether another run has changed the password since (`late`) |
| `phase`, `held`, `current`, `default`, `certs` | the daemon: not running, initialised, up; its key chain in memory |
| `session`, `request`, `file` | mirc: logged in, the command under way, the file it wrote |

| action | code path |
|---|---|
| `StartMirgen`, `Check`, `Set`, `Reset`, `SavePasswd`, `AbortMirgen` | mirgen: main, checkPasswd, askSetPasswd, askResetPasswd |
| `InitStarter`, `StartMird`, `StartMir`, `Stop` | MIRStarter.Init, initKeyChain from mird and mir, the end of the daemon at any moment |
| `Login`, `...Cli`, `Show` | mirc |
| `AddIdentity` ... `SelfIssue` in `Handle` | the ten handlers of IdentityManager |

* All programs use one data base, as they do with the default configuration. (mirgen
  always opens the default path, the daemon the configured one; with another path
  configured they never meet.)
* Each program reads the data base into a key chain of its own when it starts. mirgen
  checks the password against that, however long its user takes to type it, while
  `mirgen -rp` and mir may write the data base; any number of runs may be under way.
* `GetId` answers with the identity as it is in memory, so that mirc prints the
  router's own without a lock. `ExportsAreLocked` is about the files that mirc writes.
* Cryptography is reduced to which password opens what. The data base is written with
  the key chain in memory, so a crash falls between two actions.
* mirgen and mir hash what the user types; that mirc does not is left out.
* Files are written and read by mirc and the daemon in the same place; a relative path
  may lead the daemon elsewhere, which is the failing case of `LoadId` and `ImportCert`.

## 3. The runs

| run | instance | shows |
|---|---|---|
| `forwarder_one_name` | 1 name, 3 faces of which 2 may be next hops, 2 nonces, lifetimes {1,2}, CS of 1 | the five safety invariants and the refinement of PendingService |
| `forwarder_nested` | names /a and /a/b, 2 faces of which 1 is the next hop, 2 nonces, lifetime 1, CS of 1, unsolicited data cached, FairSpec | TypeOK, cache, the refinement, and PITDrains |
| `reassembly` | 2 packets of 1 to 4 fragments, of which 3 are put together (`MaxFragmentNum`), numbers up to 1, 1 restart, timeout 1 | TypeOK and the three safety invariants of LpReassembly |
| `logic_face` | all queues of 1, heartbeat limit 1 | TypeOK, EvictedOnce and the four liveness properties |
| `fib_management` | 1 prefix below that of management, 2 faces, memory for 4 entries | TypeOK and the five safety invariants |
| `lpm_tree` | 5 names of up to 3 components over 2 | tree shape, answers, refinement of LpmSpec |
| `faces` | 1 Ethernet and 1 UDP peer, 2 receive routines for each listener of a card and 1 of UDP, 1 goroutine with commands, 3 faces, the card opened twice, 1 connection, 2 goroutines between accesses at once, sizes modulo 8 | the three invariants of FaceTable |
| `dispatcher` | 2 clients, 4 other interests, a FIB of two slices and a face table of one, a cache of 2, 1 change, 2 interests waiting | the three invariants and the action property of Dispatcher |
| `identities` | 2 names, 2 passwords, 2 runs of mirgen at a time | the three invariants and the action property of IdentityManager |
| `nack_reaches_downstreams` | 1 name, 3 faces | expected violation, see section 5 |
| `reset_is_saved` | as `identities` | expected violation |
| `daemon_survives` | as `logic_face` | expected violation |

Why the bounds are enough.

* *Forwarder*: three faces are needed for an in-record, another in-record and an
  upstream to be distinct, two of them next hops so that a retransmission can take
  another way; two nonces tell duplicates from retransmissions, two lifetimes allow
  a newer record that expires earlier, two nested names show the look-up quirk and
  two timers in the heap, and a content store smaller than the names evicts. Equal
  costs are the harder case (any choice), so one cost suffices. The run with one
  name leaves out the nested names and the nested one leaves out the second
  lifetime and the third face; the theorems have none of these limits. Symmetry is
  used for faces and nonces in safety runs only.
* *LpReassembly*: two packets are what can mix; three fragments leave a middle one
  to come early, twice or never, and a fourth makes a packet too large; with two
  numbers another face can move the number on within or between the packets; one
  restart brings the numbers back.
* *LogicFace*: a queue of one is the smallest that can be full and empty, and a
  longer one only delays both. Every goroutine of the face is there once, as in
  the code. One face is enough for the races, which are all on its own fields; what
  other faces do to this one, to fill the forwarder's queue and to hold the forwarder,
  is there without bound.
* *FibManagement*: two faces, the Dispatcher and the route loader are three or four
  goroutines on one entry and its successors; four entries hold that of management,
  one in the tree and two erased but still in somebody's hand, a cleaner's and the
  forwarder's. The prefix is below that of management so that the inexact look-up
  returns the read-only entry.

* *FaceTable*: three faces are a listener's own and two of one peer, or one of each
  kind; two openings of the card leave a closed listener with routines and mappings;
  two goroutines between accesses are what races need. One peer of each kind is enough
  because addresses do not interact; two receive routines of one card are what it takes
  for one peer's first two packets to overlap. The theorems have none of these bounds.
* *Dispatcher*: two clients share names, overtake each other and evict each other's
  slices; the cache of 2 holds the FIB's list and nothing else; the FIB has a part
  slice at the end before the change and a full one after it, so both cases of the
  division occur; one change falls before, between and after collection and version,
  counted or not.
* *IdentityManager*: the router's identity and another, the right password and a wrong
  one; two runs of mirgen, since what a run can suffer from others is that one of them
  writes the identity while it asks. Nothing else is bounded.

Deadlock checking is off in `Forwarder`, `LogicFace`, `FibManagement`, `FaceTable` and
`Dispatcher` because the daemon may end, after which nothing happens, or because a bound is
reached, and in `IdentityManager` because everything may be left as it is.

*Fairness.* `FairSpec` asks weak fairness of `FireTimers` and `Tick`: the loop of
`Forwarder.Start` calls `DealEvent` on every turn and waits at most 1 ms for a
packet (`ReadUntil(1)`), and clocks advance. Packets and route updates are not fair.
`PITDrains` says: if from some point on no interest arrives, the PIT becomes and
stays empty, or the daemon has panicked. Weak fairness suffices because data and
Nacks can only shorten timers.

In `LogicFace` each goroutine that can take a step eventually does (weak fairness,
one conjunct per goroutine); the clock moves on (`Expire`) and the cleaner's ticker
keeps firing. Nothing makes a peer send garbage, send, read or break (`ReadPacket`,
`ReadHeartbeat`, `ReadMalformed`, `PeerChanges`), another face's packet arrive
(`OthersHand`), an administrator delete a face (`ManagerFinds`), or the forwarder come
back from another face's full `sendQue` (`ForwarderReturns`): that face may be
persistent and its peer stalled, and then it never does. The one strong fairness is
that of `RecvHand`. The pumps of all faces wait for room in one bounded queue, minlib's
`BlockQueue`, which is assumed to let them in in turn: when the forwarder makes room again
and again, this pump is not overtaken for ever. If no room is made, nothing is assumed.

`GoroutinesEnd` and `DownFaceIsRemoved` do not depend on the forwarder at all.
`RecvPumpEnds` does, and says so: it excepts the forwarder that stays elsewhere for
good. `ForwarderIsReleased` is about faces that are not persistent. What it leaves out,
a persistent face with a stalled peer, does block the forwarder for ever, because the
cleaner does not look at persistent faces; this is where the forwarder of another
face's model stays elsewhere.

Every property has a seeded fault next to the definition it changes
(`..._Newest`, `..._Lazily`, ...), named in `PROJECT.json`, which makes TLC find a
violation.

## 4. The proofs

Assumptions on constants, each in the module that declares them. `Forwarder`: names
and routes are finite sequences of components, next hops are faces, lifetimes are
positive and have a greatest one, costs are naturals, the store holds at least one
packet. `LpReassembly`: numbers of fragments, the greatest that is put together, and
the timeout are positive, the bounds are naturals. `LogicFace`: queues hold at least one packet. `FibManagement`: the
prefix of management is none of the others, its inner face none of the faces, and
there is memory for one entry. `FaceTable`: no peer has the multicast address.
`IdentityManager`: the router's name is a name, and no password is empty (they are
hashed). `Dispatcher`: a slice has a size, the encoding of a table is never empty (a list
without entries is written as `null`), and an interest has the parts of one, with numbers
for version and fragment if its name has them. `LruCache`: a capacity is a natural number,
0 meaning none. `LpmTree`: names are sequences of components. Nothing bounds the number of names, faces, nonces,
fragments, packets or entries, or the size of a queue.

### Forwarder

`ForwarderProofs` proves six invariants. None is inductive alone: that a nonce or
an upstream is unique needs the records' types, that a timer covers its records
needs that every name with a timer has an entry, and `PendingIsNotCached` needs
that firing a timer removes the entry of the same name. The inductive invariant

    IInv == PITInv /\ CSInv /\ FIBInv /\ IOInv /\ PendingIsNotCached

states, through `EntryInv(e, d)`, what holds of each entry `e` and its timer `d`.
Each handler then does one of few things to these pairs, which are the main lemmas:
`Fired` (due pairs disappear), `Expired` (one pair is made due and fires),
`Renewed` and `Recorded` (one pair is replaced by one satisfying `EntryInv`), and
`Ticked` (all pairs shrink together). `NextInv` has one step per action group and
`Invariance` closes the induction.

| theorem | statement |
|---|---|
| `TypeCorrect` | `Spec => []TypeOK` |
| `TimersAlwaysCoverRecords` | `Spec => []TimersCoverRecords` |
| `AlwaysOnePendingUpstream` | `Spec => []OnePendingUpstream` |
| `WaitersAlwaysHaveUpstream` | `Spec => []WaitersHaveUpstream` |
| `PendingIsNeverCached` | `Spec => []PendingIsNotCached` |
| `NoncesAlwaysTellFacesApart` | `Spec => []NoncesTellFacesApart` |
| `OnlyInterestsProlong` | `Spec => [][no interest comes in => \A k \in DOMAIN pit' : NotProlonged(k)]_vars` |
| `PITChangesAsItsTree` | `Spec => [][AddsThenRemoves]_vars` |
| `PITHangsOnItsTree` | `Spec => []HangsOnTree` |
| `PromiseIsKept` | `Spec => KeepsPromise` |

`OnlyInterestsProlong` is the step on which `PITDrains` rests: without an interest
coming in, an entry that is there afterwards was there before, and neither its timer nor
any of its in-records has more time left. `PITChangesAsItsTree` joins the module to
`LpmTree`: an incoming interest adds one name to the PIT, with the nodes above it, and
everything else that handlers and timers do to its names is deletion. So the names and
branches that `PITMatch` looks at are those of a tree that `LpmTree` reaches, and by
`PITHangsOnItsTree` no entry hangs below a node without a child table.

The second half of `ForwarderProofs` shows that each action is a step of PendingService
or leaves it unchanged. The step that carries it is that a fired timer takes away only
records that have expired, which is `TimersCoverRecords` again: without it the
cleaning of an entry could take away something still owed. That unmatched data may be
passed over (`OnDataUnsolicited`) needs that the look-up in the PIT's tree finds an
entry of the very name if there is one, so that nobody is owed that name.

### LpmTree

`LpmTreeProofs` proves the whole `lpm_tree` run, so that what the other proofs say with
the operators of `Lpm` they say of the linked nodes. The methods are functions defined by
recursion over the components that are left. A recursive function is a CHOOSE, about which
nothing is known before a function with that equation is shown to exist: `LongestIs`,
`ExactIs`, `GrownIs` and `DeletedIs` do so, and what the calls return then follows by
induction over the length of the rest of the key, which comes from `Nat` being well-founded
(`Induction`). The inductive invariant `Sound` says of each node that its parent is there
with its child table open, that it holds its own name or nothing, that `count` is
positive exactly when its table is open, and that no node but the root is empty. `LongestAgrees` and `ExactAgrees` show that on a
sound tree the walks return what `Lpm` says; `AddKeeps` and `DeleteKeeps` that the two
changes keep it sound and do to the stored names what `LpmSpec` says. Delete is the case
that needs the counter: a node that is reclaimed has no children, so no name is lost.

| theorem | statement |
|---|---|
| `TreeIsOK` | `Spec => []TreeOK` |
| `LookupsAgree` | `Spec => []AnswersAgree` |
| `TreeImplementsNames` | `Spec => ImplementsAbstractTree` |

### LpReassembly

`LpReassemblyProofs` proves the four invariants of the `reassembly` run. What goes
up in a step is right only if the table was, and the table files fragments by
number, so the invariant has to say what a number means. The inductive invariant is

    IInv == TypeOK /\ timeoutEventHeap = {} /\ SentInv /\ SendingInv
            /\ TableInv /\ KeptInv /\ DeliveredInv /\ UpIsOnePacket

`SentInv`: of the fragments sent in one run of the router, those with one number
are of one packet; the fragments of the current run have numbers up to
`lpPacketId`, and that number itself only if their packet is still being sent.
`TableInv`: an entry holds fragments sent under its number, each at its place, none
of too large a packet, and its counter is the number of them. `KeptInv`: a fragment that
arrived, of a packet with a number of its own and not too large, is in the table or its
packet has been delivered. `DeliveredInv`: none that is too large has been, so that
`WholeIsDelivered` is an equivalence: a packet that arrived whole was delivered if and
only if it has at most `MaxFragmentNum` fragments. That
the heap is empty is needed for the last: nothing is ever dropped, which
`FragmentsAreNeverDropped` states of every step (`KeptOrUp`: what an entry holds is in
the table afterwards, at the same places, or goes up).

| theorem | statement |
|---|---|
| `TypeCorrect` | `Spec => []TypeOK` |
| `HandsUpOnePacket` | `Spec => []UpIsOnePacket` |
| `PartialsStayIncomplete` | `Spec => []PartialsAreIncomplete` |
| `WholePacketsAreDelivered` | `Spec => []WholeIsDelivered` |
| `FragmentsAreNeverDropped` | `Spec => [][\A k \in DOMAIN mPartialPackets : KeptOrUp(k)]_vars` |

### LogicFace

`LogicFaceProofs` proves both invariants of the `logic_face` run. `EvictedOnce` is
not inductive: a goroutine about to close could evict a face that is up. The
invariant adds that one that has come to closing has marked the face down
(`PcInv`), which nothing undoes, and ties the number of evictions to `closed`
(`ShutdownInv`): the loser of the race panics before it reaches the callback.

| theorem | statement |
|---|---|
| `TypeCorrect` | `Spec => []TypeOK` |
| `AlwaysEvictedOnce` | `Spec => []EvictedOnce` |
| `GoroutinesAlwaysEnd` | `Spec /\ []EnabledByGuards => GoroutinesEnd` |
| `RecvPumpAlwaysEnds` | `Spec /\ []EnabledByGuards => RecvPumpEnds` |
| `DownFaceIsAlwaysRemoved` | `Spec /\ []EnabledByGuards => DownFaceIsRemoved` |

The last three are liveness, proved from the fairness in `Spec` by the rules for WF and
SF. The prover treats ENABLED as a formula it knows nothing of, so the theorems take as a
hypothesis that the actions are enabled where their guards hold (`EnabledByGuards`,
beside the theorems). Each of its lines is read off the definition of the action: its
guard is the left-hand side, and the rest of the action assigns every variable. It says
nothing about the code beyond what the actions say, so it is a gap of the prover, no
property. All else, for queues of any size, is proved:

* `EndInv` adds to the invariant where each goroutine can be (`PlaceInv`), and that a face
  that is down and not closed has somebody about to close it (`ClosingInv`), so that
  nobody who waits on a channel waits for ever.
* `StepGoes`: a step moves one goroutine, when the face is down along `Ways`. Except for the
  forwarder, the cleaner and management these have no cycle: at a closed face a goroutine
  only gets nearer to its end.
* `ShutdownSettles`: who is about to close a face closes it or finds it closed and ends the
  daemon; with `ClosingInv`, `FaceCloses`.
* `ReaderEnds`, `SendPumpEnds`, `HeartbeatEnds` take one step after the other, none of
  which waits for the forwarder.
* `RecvPumpEndsToo` has to show that the pump gets rid of the packet in its hand. The
  forwarder may be blocked on `sendQue`, which is closed now, so it comes back; unless it
  stays elsewhere for good it is back at its queue again and again, takes a packet, and
  so there is room again and again, which strong fairness of `RecvHand` turns into the
  pump's step.

In `DownFaceIsAlwaysRemoved` the cleaner may be anywhere in a `Shutdown` of its own when
another goroutine has put the face down, and management may remove the face first.

### FibManagement

`FibManagementProofs` proves all invariants of the run but `NothingElseBlocks`, which
speaks of ENABLED and is left to TLC. The inductive invariant adds what goroutines rely on between critical
sections:

    IInv == TypesInv /\ JobsInv /\ CleaningInv /\ PointersInv /\ OwnInv
            /\ DeadInv /\ EmptyIsBeingErased /\ KeptInv

`JobsInv` and `CleaningInv`: who is where holds which entry, and a face whose
cleaning has begun is down. `PointersInv`: no entry in use has been collected.
`OwnInv`: the tree holds each entry under its own identifier, so that erasing an
entry's prefix takes no entry of another prefix. `DeadInv`: from the list on, an
entry with the dead face is still to be visited or was written late. `KeptInv` is
the argument for erasing by prefix: of the prefix of a kept route nobody holds
another entry than the one in the tree, and that one has the kept next hop, so a
cleaner of another face does not find it empty, and no command that tests it does.

| theorem | statement |
|---|---|
| `TypeCorrect` | `Spec => []TypeOK` |
| `OnlyLateRoutesAreDead` | `Spec => []DeadRoutesAreLate` |
| `KeptRoutesAlwaysStay` | `Spec => []KeptRoutesStay` |
| `EmptyIsAlwaysBeingErased` | `Spec => []EmptyIsBeingErased` |
| `WorkAlwaysGoesOn` | `Spec => []WorkGoesOn` |
| `FIBChangesAsItsTree` | `Spec => (the tree of TopPrefix alone) /\ [][Fib!Next]_(Fib!vars)` |

`WorkAlwaysGoesOn` is freedom from deadlock. `SomebodyGoesOn` names for each goroutine
what its next step waits for: `rwLocker`, the lock of an entry, or the end of a cleaning.
The argument (`LocksAreOrdered`) is the order of the locks: AddOrUpdate, which holds
`rwLocker`, waits for nobody, so a cleaner that waits for it while it holds the lock of an
entry gets on, and so does whoever waits for that one; delLogicFace waits for a cleaning
that has begun (`AwaitInv`) and holds no lock meanwhile. That these are the only waits is a
statement about ENABLED and belongs to the run: `NothingElseBlocks` says that whenever
`SomebodyGoesOn` one of the actions is enabled.

`FIBChangesAsItsTree` takes the FIB as an instance `Fib` of `LpmSpec` (`stored` is
`DOMAIN tree`): it starts with the prefix of management, and each critical section adds
or deletes at most one name, whoever holds entries meanwhile.

### FaceTable

`FaceTableProofs` proves the three invariants of the `faces` run.

    IInv == TableInv /\ PeerInv

`TableInv`: whoever has a face in hand to remove it has shut it down, and nothing
brings a face up again; what is mapped under an address sends to it; a listener's own
face is the only one with its key, because `started` counts on. From it
`LiveFacesAreListed` follows. `PeerInv` says of each address for which nobody raced:
at most one goroutine is making a face for it (`Makes`), and a face that is up is
mapped or in the hand of that goroutine. A step either leaves these alone (`TableKept`,
`PeersKept`, used through `QuietStep` and `StillStep`) or is one of four that carry the
argument: a look-up in vain (`LooksInVain`), making (`CreateFaceStep`), storing
(`StoreStep`), and the second store of the UDP listener (`WorkerMaps`).

`SizeIsNearlyExact` rests on `SizeInv`. There is a set of faces that have left the table
and were counted down twice (`Twice`), and the size with their number added is the number
of faces listed plus a multiple of `SizeModulus`. That a face is never counted down a third
time takes the goroutines: a face is counted down by whoever has it in hand to remove it;
one goroutine carries out delete commands (`OneDeletes`), there is one cleaner, both take
only faces that they find in the table, and if both have the same face in hand it is still
listed. So the second of them finds it gone, and nobody takes it up again (`SizeSteps`). The
modulus is any positive number, 2^64 included.

| theorem | statement |
|---|---|
| `LiveFacesAreAlwaysListed` | `Spec => []LiveFacesAreListed` |
| `OnePeerOneFace` | `Spec => []OnePerPeer` |
| `SizeIsAlwaysNearlyExact` | `Spec => []SizeIsNearlyExact` |

### Dispatcher

`DispatcherProofs` proves the whole `dispatcher` run, in two parts.

For `NobodyIsForgotten` the invariant `IInv` adds that every pending interest that can be
answered is in the inbox or the list under way, of which there is at most one; that
answering one interest cannot strand a client waiting for another follows because an
answer leaves nobody it comes to waiting (`AfterAnswer`).

The other three are about what an answer contains. Names and versions of slices repeat
while tables change, so that a slice is new enough has to be followed through every place
that an answer can come from. The inductive invariant, on top of `IInv`, is

    Lists == TypeInv /\ CacheInv /\ InboxInv
             /\ (JobInv of the list in the making) /\ (QueueInv of each pending interest)
             /\ (AskerInv of each client)

`AskerInv` of a client that waits for its answer: a list in the making for its command was
begun after it asked, unless it joined (`AskedInv`). Of one that has its answer (`ListInv`):
under the names that it will still ask for, the cache has nothing of a list begun before
the one it was told of, and a list in the making for its command is not older either; the
slices it has are cut at the places that its meta data says. `QueueInv`: who is in the PIT
under a name waits for that name. `CacheInv`: every entry is a slice of some list under its name, and the cache
and the names touched last go in step (`Lockstep`). Most steps are `Onward`: tables only
change, and what is new in the cache is from the list in the making; then nothing older
can come to a client that does nothing (`AskerKept`). The two others are `HitLists` (the
slice found is the next one of the client's list, because a name tells list, version and
number apart: `SliceNamesDiffer`) and `PublishLists` (all slices are saved in place of
what had their names before the meta data goes out: `SavesAll`).

`Moves`, `GetsOne` and `AddsOne` say what LRU does to its list; `SavedIs`, `TouchAllIs` and
`SumIs` show that the loops over slices are well defined, and `SavesAll` and `WholeSum` what
they come to, by induction over the slices; `Slicing` is the arithmetic of the last slice.

| theorem | statement |
|---|---|
| `NobodyIsEverForgotten` | `Spec => []NobodyIsForgotten` |
| `SlicesAreNeverOlder` | `Spec => NeverOlderThanAsked` |
| `ListsAreAlwaysWhole` | `Spec => []ListsAreWhole` |
| `RecentSlicesAlwaysHit` | `Spec => []RecentSlicesHit` |

### IdentityManager

`IdentityManagerProofs` proves the whole `identities` run.

    IInv == LockedInv /\ HeldInv /\ RequestInv /\ MirgenInv

`LockedInv`: data base and files hold locked identities only. `HeldInv`: while the
daemon has its key chain, the data base has the same identities with the same
passwords, but for the router's own, which mirgen may have made or changed since.
`RequestInv`: what the password of a command and the result of an export can be.
`MirgenInv`: of each run of mirgen that no other has overtaken with `-rp`, the password
in its own key chain is the one in the data base for as long as it is checked against
(`RunInv`), and what it is about to save is that one or empty. It rests on what other
programs may do to the router's own identity once it is there: commands neither change
nor delete it, and creating it fails (`OwnKept`), so only a run with `-rp` makes the
key chain of another stale.

| theorem | statement |
|---|---|
| `AlwaysRunsAsConfigured` | `Spec => []RunsAsConfigured` |
| `RestartsLoseNothing` | `Spec => []RestartLosesNothing` |
| `ExportsAreAlwaysLocked` | `Spec => []ExportsAreLocked` |
| `SavedPasswordsOpen` | `Spec => SavedPasswordOpens` |

### What the proofs leave out

Every safety property of the passing runs is proved but `NothingElseBlocks` of
`FibManagement`. It is about ENABLED, for which the prover has no rule, and is left to
TLC; for the same reason the liveness theorems of `LogicFace` have `EnabledByGuards` as a
hypothesis. Two liveness properties are only model-checked. `PITDrains` counts the timers
down (that they are never prolonged is `OnlyInterestsProlong`), and `ForwarderIsReleased` the packets in the queue of a peer that no longer reads:
both are inductions over a number inside a temporal formula, which the prover cannot do
(its temporal backend is propositional). `FibManagement` names prefixes by
sequences of strings; that `Lpm` answers for the tree is proved for any components.

## 5. Where the code and its comments differ

1. `fw/Forwarder.go:653` says that when all out-records have expired or been
   nacked the entry expires. The test in the loop is inverted (line 656): a nacked
   record keeps the entry alive, an expired one ends it even though another
   upstream may still answer.
2. `fw/StrategyBase.go:239` says the Nack goes to all eligible downstreams. If the
   nacking face is itself a downstream, its slot in the list is nil and
   `OnOutgoingNack` dereferences it: the daemon ends. Run `nack_reaches_downstreams`.
3. `table/Lpm.go:115` describes an exact match; for a name without a node the entry
   of a prefix may be returned. In the Forwarder this means
   that data for /a/b can satisfy an entry for /a, which PendingService allows
   (`Answer` matches a prefix).

4. `lf/LpReassemble.go:31` says that an entry is deleted when no fragment came for
   500 ms. `ReceiveFragment` puts no event on the heap for a new entry, so
   `processTimeoutEvent` finds none (and its test of `dropTime` is inverted):
   partial packets stay for ever. Theorem `FragmentsAreNeverDropped`.
5. `utils/RunProtect.go:37` says that a goroutine started by `GoroutineNoPanic` does not
   panic. Its recover is commented out, `Shutdown` tests and clears `state` without
   a lock, and so two goroutines may close the queues twice, or the heartbeat send
   on a closed queue: the daemon ends. Run `daemon_survives`.
6. `mircmd/mirgen/main.go:103` puts "the password that was made" where mird finds it,
   and the project's README says that `sudo mirgen -rp` changes the password of the
   default identity. After `-rp` the variable that is written is still empty: the file
   is emptied, and mird can no longer unlock the identity. Run `reset_is_saved`.
7. `lf/LogicFaceTable.go:60` says that `Size` is the number of faces in the table.
   `RemoveByLogicFaceId` (line 101) counts down whether the face is there or not, and a
   face that is deleted by command while the cleaner destroys it is removed by both: from
   then on the size is one short, and below zero it wraps round. `SizeIsNearlyExact` says
   that this is all that can go wrong with it: one for each face that has left.
8. `mircmd/mirgen/main.go:103` again: a run of mirgen without `-rp` checks the password
   against the key chain that it read when it started (lines 63, 133). If another run with
   `-rp` changes it while the user types, the old one passes and is saved, and mird cannot
   unlock the identity. `SavedPasswordOpens` names this as its one exception.

Seen while reading, without a run of their own: `OnOutgoingNack` does not delete
the in-record although `fw/Forwarder.go:681` and `docs/Forwarder.md` say so; a
tree node is "empty" by its comment when it has no children, by its code when it
never had one; MustBeFresh is not looked at on a cache hit; `ProtectRun` no longer
recovers; the first fragment of a packet with more than `MaxFragmentNum` fragments hands an
empty packet up; `getId` serialises the identity as it is in memory
(`mgmt/IdentityManager.go:507`), the router's own without its lock; an error of
`ParseControlParameters` is logged and the command goes on; a Unix socket that cannot be
dialled is a panic although `CreateUnixLogicFace` has an error to return;
`mgmt/IDispatcher.go` promises that a request for a slice that is not cached
is dropped, while the handler collects anew; the validators of lists are never called;
`cs-mgmt/list` never answers and `cs-mgmt/delete` answers with nothing; the
Ethernet branch of `SetUpDefaultRoute` sets an `err` of its own, so an error left by an
earlier link makes a face that was created count as failed.

## 6. Not modelled yet, and the plan

In this order, each as a module with its run:

1. `PushNet`: GPPkts across several routers with TTL, the strategy table and
   round-robin, which `Forwarder.Init` never gives the forwarder; termination.
2. `StreamFraming`, with the theorem that the receive buffer's content is always
   what is left of the stream.
3. `PacketPath`: validator pool, bounded queues, inner face; freedom from deadlock, and
   the order of a face's packets, which the pool does not keep.
4. `ContentStore`: freshness, and lifetimes of 0 and near the clock's width (the
   duration is unsigned, so the test for a negative one in `fw/Forwarder.go:363` never
   holds). The aliasing of a packet by its in-record and a Nack needs a heap.

Left out of the modules there are: the counters of a face and the inner
transport (`LogicFace`), the encoding of fragments and several senders to one
receiver (`LpReassembly`), the round-robin strategy (`Forwarder`), the copying of frames
and the sockets (`FaceTable`), signatures and the content of lists (`Dispatcher`),
cryptography (`IdentityManager`). That a packet split over two numbers is lost is
modelled in `LpReassembly`, and no document promises otherwise. That a route added
during an erase, or to a face that is being cleaned, is lost or dangles is modelled in
`FibManagement`, whose properties bound it.

Not planned: plugins (none is registered), sockets, configuration, prompts and printing
(pure I/O).
