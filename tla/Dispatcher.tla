----------------------------- MODULE Dispatcher -----------------------------
(***************************************************************************)
(* The dispatcher of management commands and the handlers of the FIB, face *)
(* and content store managers, as the mirc clients see them                *)
(* (daemon/mgmt and daemon/mgmt/mirc/cmd).  One goroutine takes interests  *)
(* from the inner face and answers them one after another.  A control      *)
(* command is answered with a code.  A list is collected, cut into slices  *)
(* that go to the cache, and answered with its version and the number of   *)
(* slices, which the client then asks for one by one.                      *)
(*                                                                         *)
(* Meanwhile other goroutines change the tables, see FibManagement, and    *)
(* the version of a table does not tell all of its states apart.  Of a     *)
(* table only the number of its changes is kept; of a list, the number     *)
(* when it was begun, as its entries are read one by one, and its size.    *)
(***************************************************************************)
EXTENDS LruCache, Commands, Maps, FiniteSets

CONSTANTS
  Clients,       \* mirc processes
  Others,        \* interests that mirc does not send
  SliceSize,     \* StatusDatasetContext.SliceSize
  Bytes(_, _, _),\* the sizes that a list of a table may have, encoded, whose
                 \* entries are read after so many changes to after so many
  MaxChanges,    \* bound: changes of the tables
  MaxInbox       \* bound: interests waiting at the inner face

ASSUME SliceSizeAssumption == SliceSize \in Nat \ {0}
ASSUME BoundsAssumption == MaxChanges \in Nat /\ MaxInbox \in Nat

\* A table without entries is encoded as "null".
ASSUME BytesAssumption ==
  \A t \in {"fib", "face"}, from, to \in 0 .. MaxChanges :
    Bytes(t, from, to) \subseteq Nat \ {0}

\* They have the parts of an interest, and the version and the fragment that a
\* name may end in are numbers.
ASSUME OthersAssumption == \A i \in Others : IsInterest(i)

Tables == {"fib", "face"}

VARIABLES
  changes,  \* table -> how often it has changed
  version,  \* table -> its version: changes that were counted
  inbox,    \* the interests in the receive queue of the FaceClient
  pending,  \* interest -> the clients that wait, as the PIT has them
  job,      \* the list the dispatcher is at, if any
  cache,    \* Dispatcher.Cache
  client,   \* client -> what it has asked and got
  alive,    \* the daemon has not ended in a fatal error
  recent    \* history: the names saved or hit last, no more than fit the cache

tables == <<changes, version>>
vars == <<changes, version, inbox, pending, job, cache, client, alive, recent>>

-----------------------------------------------------------------------------
(* Tables *)

MayChange == changes["fib"] + changes["face"] < MaxChanges

Counted(t) ==
  /\ MayChange
  /\ changes' = [changes EXCEPT ![t] = @ + 1]
  /\ version' = [version EXCEPT ![t] = @ + 1]

\* A next hop is taken out of an entry that keeps others, a face goes down.
Uncounted(t) ==
  /\ MayChange
  /\ changes' = [changes EXCEPT ![t] = @ + 1]
  /\ UNCHANGED version

-----------------------------------------------------------------------------
(* Clients.  The executor that fetches the slices is a library's. *)

\* A list: when it was begun and its size.
List(from, bytes) == [from |-> from, bytes |-> bytes]

Idle == [at |-> "idle", ask |-> Interest("none", {}), since |-> 0, joins |-> FALSE,
         version |-> 0, count |-> 0, of |-> List(0, 0), got |-> <<>>]

ListCommands == {"fib-mgmt/list", "face-mgmt/list"}

TableOf(i) == IF i.rel = "face-mgmt/list" THEN "face" ELSE "fib"

SliceName(i, v, k) == [i EXCEPT !.slice = @ \o <<v, k>>]

\* A client asks, and until it is answered we note, for a list, since when it has,
\* and whether the dispatcher was at it already for a client that asked before.
Asking(i) ==
  [Idle EXCEPT !.at = "asking", !.ask = i,
               !.since = IF i.rel \in ListCommands THEN changes[TableOf(i)] ELSE 0,
               !.joins = \E j \in job : j.ask = i]

\* A second interest of the same name waits with the first in the PIT.
Send(c, i) ==
  IF i \in DOMAIN pending
  THEN pending' = [pending EXCEPT ![i] = @ \cup {c}] /\ UNCHANGED inbox
  ELSE /\ Len(inbox) < MaxInbox
       /\ pending' = Put(pending, i, {c})
       /\ inbox' = Append(inbox, i)

Begins(c, i) ==
  /\ alive /\ client[c].at = "idle"
  /\ Send(c, i)
  /\ client' = [client EXCEPT ![c] = Asking(i)]
  /\ UNCHANGED <<tables, job, cache, alive, recent>>

Asks(c, rel, has) == Begins(c, Interest(rel, has))

AddFib(c)        == Asks(c, "fib-mgmt/add", {"prefix", "faceId", "cost"})
DeleteNextHop(c) == Asks(c, "fib-mgmt/del", {"prefix", "faceId"})
ListFib(c)       == Asks(c, "fib-mgmt/list", {})
AddLogicFace(c)  == Asks(c, "face-mgmt/add", {"uri", "persistency", "uriScheme"})
DelLogicFace(c)  == Asks(c, "face-mgmt/del", {"faceId"})
ListLogicFace(c) == Asks(c, "face-mgmt/list", {})

\* An application, or a client that is not mirc.
AsksOther(c, i) == Begins(c, i)

Wanted(c) == SliceName(client[c].ask, client[c].version, Len(client[c].got))

FetchSlice(c) ==
  /\ alive /\ client[c].at = "ready"
  /\ Send(c, Wanted(c))
  /\ client' = [client EXCEPT ![c].at = "fetching"]
  /\ UNCHANGED <<tables, job, cache, alive, recent>>

\* The interest's lifetime is over; the executor is shut down.
Expire(c) ==
  /\ client[c].at \in {"asking", "fetching"}
  /\ client' = [client EXCEPT ![c] = Idle]
  /\ pending' = [i \in {k \in DOMAIN pending : pending[k] # {c}} |-> pending[i] \ {c}]
  /\ UNCHANGED <<tables, inbox, job, cache, alive, recent>>

\* The list is printed.
Show(c) ==
  /\ client[c].at = "done"
  /\ client' = [client EXCEPT ![c] = Idle]
  /\ UNCHANGED <<tables, inbox, pending, job, cache, alive, recent>>

\* An error, or "fetched" meta data instead of a slice, ends a command.
After(s, r) ==
  IF s.at = "asking" /\ r.kind = "meta"
  THEN [Idle EXCEPT !.at = "ready", !.ask = s.ask,
                    !.version = r.version, !.count = r.count, !.of = r.of]
  ELSE IF s.at = "fetching" /\ r.kind = "slice"
  THEN [s EXCEPT !.got = Append(@, [of |-> r.of, bytes |-> r.bytes]),
                 !.at = IF Len(s.got) + 1 = s.count THEN "done" ELSE "ready"]
  ELSE Idle

-----------------------------------------------------------------------------
(* Answers *)

Code(c) == [kind |-> "code", code |-> c]
Meta(v, n, of) == [kind |-> "meta", version |-> v, count |-> n, of |-> of]

\* sendData: every client that waits for the name gets it.
Answer(i, r) ==
  LET to == IF i \in DOMAIN pending THEN pending[i] ELSE {}
  IN  /\ pending' = Drop(pending, {i})
      /\ client' = [c \in Clients |-> IF c \in to THEN After(client[c], r) ELSE client[c]]

\* Seeded fault: a refused interest is left at that.
Refusal_Silent(i) == UNCHANGED <<pending, client>>

\* sendControlResponse with the code of the reason, 400 for all but the top
\* prefix.
Refusal(i) == Answer(i, Code(400))

-----------------------------------------------------------------------------
(* StatusDatasetContext *)

SliceNum(bytes) ==
  bytes \div SliceSize + 1 - (IF bytes % SliceSize = 0 THEN 1 ELSE 0)

\* Seeded fault: the last slice is the remainder, be it 0.
SliceAt_Remainder(of, k) ==
  [kind |-> "slice", of |-> of,
   bytes |-> IF k = SliceNum(of.bytes) - 1 THEN of.bytes % SliceSize ELSE SliceSize]

SliceAt(of, k) ==
  [kind |-> "slice", of |-> of,
   bytes |-> IF k = SliceNum(of.bytes) - 1 THEN of.bytes - k * SliceSize ELSE SliceSize]

\* dataSaver for the slices before the n-th, which are touched in this order.
Saved(i, v, of, n) ==
  LET save[k \in 0..n] ==
        IF k = 0 THEN cache
        ELSE Add(save[k - 1], SliceName(i, v, k - 1), SliceAt(of, k - 1))
  IN  save[n]

Touch(names, name) ==
  LET all == IF \E k \in DOMAIN names : names[k] = name
             THEN MoveToFront(names, CHOOSE k \in DOMAIN names : names[k] = name)
             ELSE <<name>> \o names
  IN  IF CacheSize # 0 /\ Len(all) > CacheSize THEN SubSeq(all, 1, CacheSize) ELSE all

TouchAll(i, v, n) ==
  LET touch[k \in 0..n] ==
        IF k = 0 THEN recent ELSE Touch(touch[k - 1], SliceName(i, v, k - 1))
  IN  touch[n]

\* Done: the slices are saved, the answer is the meta data.
Done(i, v, of) ==
  LET n == SliceNum(of.bytes)
  IN  /\ cache' = Saved(i, v, of, n)
      /\ recent' = TouchAll(i, v, n)
      /\ Answer(i, Meta(v, n, of))

-----------------------------------------------------------------------------
(* Start *)

\* The loop takes the next interest.
Takes(i) ==
  /\ alive /\ job = {}
  /\ i = Head(inbox)
  /\ inbox' = Tail(inbox)

\* The daemon ends in a panic or a fatal error.
Ends == alive' = FALSE /\ UNCHANGED <<tables, pending, job, cache, client, recent>>

Ignore(i) ==
  /\ Takes(i) /\ Ignored(i)
  /\ UNCHANGED <<tables, pending, job, cache, client, alive, recent>>

Refuse(i) ==
  /\ Takes(i) /\ ~Ignored(i) /\ ~Admitted(i)
  /\ Refusal(i)
  /\ UNCHANGED <<tables, job, cache, alive, recent>>

\* A command that cannot be parsed comes to its validator.
ParseFails(i) ==
  /\ Takes(i) /\ ~Ignored(i) /\ Panics(i) /\ i \notin Keys(cache)
  /\ Ends

\* queryStorage finds the name.
Hit(i) ==
  /\ Takes(i) /\ ~Ignored(i) /\ Admitted(i)
  /\ i \in Keys(cache)
  /\ cache' = Get(cache, i)
  /\ recent' = Touch(recent, i)
  /\ Answer(i, Lookup(cache, i).value)
  /\ UNCHANGED <<tables, job, alive>>

Misses(i) == Takes(i) /\ ~Ignored(i) /\ Admitted(i) /\ i \notin Keys(cache)

\* AddNextHop and RegisterPrefix: AddOrUpdate counts.
AddNextHop(i) ==
  /\ i.rel \in {"fib-mgmt/add", "fib-mgmt/register"}
  /\ \/ Counted("fib") /\ Answer(i, Code(200))
     \/ UNCHANGED tables /\ Answer(i, Code(400))

\* RemoveNextHop: only erasing an entry counts.
RemoveNextHop(i) ==
  /\ i.rel = "fib-mgmt/del"
  /\ \/ Counted("fib") /\ Answer(i, Code(200))
     \/ Uncounted("fib") /\ Answer(i, Code(200))
     \/ UNCHANGED tables /\ Answer(i, Code(400))

\* addLogicFace may come to a face that is there.
AddFace(i) ==
  /\ i.rel = "face-mgmt/add"
  /\ \/ Counted("face") /\ Answer(i, Code(200))
     \/ UNCHANGED tables /\ Answer(i, Code(200))
     \/ UNCHANGED tables /\ Answer(i, Code(400))

\* CreateUnixLogicFace panics if it cannot dial.
DialUnixFails(i) ==
  /\ Misses(i) /\ i.rel = "face-mgmt/add"
  /\ Ends

\* delLogicFace; the FIB's cleaner runs in its Shutdown.
DelFace(i) ==
  /\ i.rel = "face-mgmt/del"
  /\ \/ Counted("face") /\ Answer(i, Code(200))
     \/ UNCHANGED tables /\ Answer(i, Code(400))

\* changeConfig returns no response, which is sent.
ChangeConfig(i) ==
  /\ i.rel = "cs-mgmt/delete"
  /\ UNCHANGED tables
  /\ Answer(i, Code(0))

Execute(i) ==
  /\ Misses(i)
  /\ AddNextHop(i) \/ RemoveNextHop(i) \/ AddFace(i) \/ DelFace(i) \/ ChangeConfig(i)
  /\ UNCHANGED <<job, cache, alive, recent>>

\* delLogicFace of the inner face, whose other end is the FaceClient: the next
\* ReceivePacket fails, and Start ends the daemon.
DelInnerFace(i) ==
  /\ Misses(i) /\ i.rel = "face-mgmt/del"
  /\ Ends

\* CsManager.serveInfo does nothing, so there is no answer.
ServeInfo(i) ==
  /\ Misses(i) /\ i.rel = "cs-mgmt/list"
  /\ UNCHANGED <<tables, pending, job, cache, client, alive, recent>>

\* ListEntries and listLogicFace get the entries of the table, read one by one
\* what each has, under its own lock, ...
Collect(i) ==
  /\ Misses(i) /\ i.rel \in ListCommands
  /\ job' = {[ask |-> i, from |-> changes[TableOf(i)]]}
  /\ UNCHANGED <<tables, pending, cache, client, alive, recent>>

\* ... and then read its version, be it a list that is asked for or a slice
\* that is not cached.
Publish ==
  \E j \in job :
    /\ alive
    /\ \E b \in Bytes(TableOf(j.ask), j.from, changes[TableOf(j.ask)]) :
         Done(j.ask, version[TableOf(j.ask)], List(j.from, b))
    /\ job' = {}
    /\ UNCHANGED <<tables, inbox, alive>>

Handle(i) ==
  \/ Ignore(i) \/ Refuse(i) \/ ParseFails(i) \/ Hit(i)
  \/ Execute(i) \/ DialUnixFails(i) \/ DelInnerFace(i) \/ ServeInfo(i) \/ Collect(i)

Serve == (inbox # <<>> /\ Handle(Head(inbox))) \/ Publish

\* Listeners, the cleaners of faces and FIB, default routes.
Elsewhere ==
  /\ alive
  /\ \E t \in Tables : Counted(t) \/ Uncounted(t)
  /\ UNCHANGED <<inbox, pending, job, cache, client, alive, recent>>

-----------------------------------------------------------------------------
Init ==
  /\ changes = [t \in Tables |-> 0]
  /\ version = [t \in Tables |-> 0]
  /\ inbox = <<>>
  /\ pending = EmptyMap
  /\ job = {}
  /\ cache = <<>>
  /\ client = [c \in Clients |-> Idle]
  /\ alive = TRUE
  /\ recent = <<>>

Ask(c) ==
  \/ AddFib(c) \/ DeleteNextHop(c) \/ ListFib(c)
  \/ AddLogicFace(c) \/ DelLogicFace(c) \/ ListLogicFace(c)
  \/ \E i \in Others : AsksOther(c, i)

Next ==
  \/ \E c \in Clients : Ask(c) \/ FetchSlice(c) \/ Expire(c) \/ Show(c)
  \/ Serve
  \/ Elsewhere

Spec == Init /\ [][Next]_vars

-----------------------------------------------------------------------------
\* The list that c is told of was begun no earlier than it asked, unless it joined
\* those who wait for a list that the dispatcher was at already.
Told(c) ==
  client[c].at = "asking" /\ client'[c].at = "ready" /\ ~client[c].joins
    => client'[c].of.from >= client[c].since

\* What c accepts is of no older list than that.
Accepted(c) ==
  \A k \in DOMAIN client'[c].got : client'[c].got[k].of.from >= client'[c].of.from

\* From asking to the last slice nothing older reaches a client, although names
\* and versions repeat while the table changes and slices of one name are saved
\* again and again: saving replaces what an earlier list left, before it answers.
NeverOlderThanAsked == [][\A c \in Clients : Told(c) /\ Accepted(c)]_client

SumOfBytes(got) ==
  LET sum[k \in 0..Len(got)] == IF k = 0 THEN 0 ELSE sum[k - 1] + got[k].bytes
  IN  sum[Len(got)]

\* A client that got every slice from a list like the one its answer described,
\* begun then and as large, has all of it, at sizes that fill the last slice and
\* at sizes that do not, and no slice is empty or larger than a packet may carry.
ListsAreWhole ==
  \A c \in Clients :
    /\ client[c].at = "done"
    /\ \A k \in DOMAIN client[c].got : client[c].got[k].of = client[c].of
    => /\ SumOfBytes(client[c].got) = client[c].of.bytes
       /\ \A k \in DOMAIN client[c].got : client[c].got[k].bytes \in 1 .. SliceSize

\* What the cache has is what was saved or hit last: a slice goes only when as
\* many others as fit the cache have been touched since.
RecentSlicesHit == Keys(cache) = {recent[k] : k \in DOMAIN recent}

\* CsManager.serveInfo never answers, nor does the loop what it ignores.
Answerable(i) == ~Ignored(i) /\ i.rel # "cs-mgmt/list"

InHand == {inbox[k] : k \in DOMAIN inbox} \cup {j.ask : j \in job}

Waits(c) == client[c].at \in {"asking", "fetching"}
Asked(c) == IF client[c].at = "asking" THEN client[c].ask ELSE Wanted(c)

\* Whoever waits will be answered, however clients share names, give up and ask
\* again: the PIT has it for the name it asked for, and that name is still with
\* the dispatcher, so no refusal and no handler forgot to answer.
NobodyIsForgotten ==
  alive => \A c \in Clients : Waits(c) =>
    /\ Asked(c) \in DOMAIN pending /\ c \in pending[Asked(c)]
    /\ Answerable(Asked(c)) => Asked(c) \in InHand
=============================================================================
