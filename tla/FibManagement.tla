--------------------------- MODULE FibManagement ----------------------------
(***************************************************************************)
(* The FIB and the goroutines that change it (daemon/table/FIB.go and      *)
(* FIBEntry.go, daemon/mgmt/FibManager.go and FaceManager.go): the         *)
(* dispatcher's, which executes one management command after another, the  *)
(* one that sets up default routes, and for each face the one that shuts   *)
(* it down, whose callback takes the face out of the FIB.  The forwarder   *)
(* reads.                                                                  *)
(*                                                                         *)
(* The tree is under FIB.rwLocker, the next hops of an entry are under its *)
(* RWlock, except that AddOrUpdate writes them under the tree's lock only. *)
(* Goroutines keep pointers to entries across steps, so an entry may be    *)
(* worked on that is not in the tree any more.                             *)
(***************************************************************************)
EXTENDS Lpm, Maps, FiniteSets

CONSTANTS
  Names,       \* prefixes that commands and default routes name
  TopPrefix,   \* the prefix of management, whose entry is read-only
  Faces,       \* the faces to neighbours
  ServerFace,  \* the inner face to the dispatcher
  Entries      \* bound: the memory for entries

ASSUME NamesAssumption ==
  TopPrefix \notin Names /\ Names \cup {TopPrefix} \subseteq Seq(STRING)
ASSUME FacesAssumption == ServerFace \notin Faces
ASSUME EntriesAssumption == Entries # {}

VARIABLES
  tree,      \* FIB.lpm: prefix -> entry
  branched,  \* prefixes whose node has a child table, see Lpm
  entry,     \* the entries that are in the tree or pointed to
  job,       \* what the dispatcher and the route loader are doing, if anything
  cleaning,  \* NextHopCleaner for each face: where it is, the entries it has
             \* yet to visit, and the entry it holds the lock of
  reading,   \* the entry that the forwarder has looked up to copy its next hops, if any
  copying,   \* it holds the read lock of that entry
  up,        \* the faces that are up
  table,     \* the faces in the LogicFaceTable
  alive,     \* the daemon has not ended in a fatal error
  late,      \* history: routes written after the cleaner took its list
  kept       \* history: routes written while nobody was about to erase their
             \* prefix, and neither removed nor shut down since

fibState == <<tree, branched, entry>>
lookup == <<reading, copying>>
faceState == <<up, table>>
history == <<late, kept>>
vars == <<tree, branched, entry, job, cleaning, reading, copying, up, table, alive, late, kept>>

Writers == {"dispatcher", "loader"}

-----------------------------------------------------------------------------
(* Locks.  A critical section in which nobody waits is one step.           *)

\* AddOrUpdate is between Lock and Unlock of rwLocker.
TableLocked == \E t \in Writers : \E j \in job[t] : j.at = "write"

\* NextHopCleaner holds RWlock while it waits for rwLocker.
EntryLocked(e) == \E f \in Faces : e \in cleaning[f].held

EntryBusy(e) == (copying /\ e \in reading) \/ EntryLocked(e)

-----------------------------------------------------------------------------
(* The tree and its entries *)

InTree == {tree[p] : p \in DOMAIN tree}

Pointers ==
  reading \cup (UNION {j.target : j \in UNION {job[t] : t \in Writers}})
          \cup (UNION {cleaning[f].todo \cup cleaning[f].held : f \in Faces})

\* An entry that nothing leads to is garbage.
Collected(entries) == Drop(entries, DOMAIN entries \ (InTree' \cup Pointers'))

\* CreateFIBEntry
NewEntry(p) == [identifier |-> p, hops |-> {}, readOnly |-> FALSE]

\* Some goroutine has an entry of p in hand that it may yet erase.
MayBeErased(p) ==
  \/ \E f \in Faces : \E e \in cleaning[f].todo \cup cleaning[f].held :
       entry[e].identifier = p
  \/ \E t \in Writers : \E j \in job[t] : \E e \in j.target : entry[e].identifier = p

\* Seeded fault: it takes the lock of the entry as well.
Erase_LocksEntry(e) ==
  /\ ~TableLocked /\ ~EntryBusy(e)
  /\ tree' = Drop(tree, {entry[e].identifier})
  /\ UNCHANGED branched

\* FIB.EraseByFIBEntry: what is erased is the prefix, whatever entry is there.
Erase(e) ==
  /\ ~TableLocked
  /\ tree' = Drop(tree, {entry[e].identifier})
  /\ UNCHANGED branched

RemoveHop(e, f) == [entry EXCEPT ![e].hops = @ \ {f}]

-----------------------------------------------------------------------------
(* Commands *)

Begin(t, at, p, f) ==
  job' = [job EXCEPT ![t] = {[at |-> at, name |-> p, face |-> f, target |-> {}]}]

Becomes(t, j) == job' = [job EXCEPT ![t] = {j}]
Ends(t) == job' = [job EXCEPT ![t] = {}]

\* AddNextHop and RemoveNextHop find the face in the table, or give up.
BeginCommand(p, f) ==
  /\ job["dispatcher"] = {}
  /\ f \in table
  /\ \E at \in {"findToAdd", "findToRemove"} : Begin("dispatcher", at, p, f)
  /\ UNCHANGED <<fibState, cleaning, lookup, faceState, alive, history>>

Found(p) == {tree[q] : q \in FindExactMatch(DOMAIN tree, branched, p)}

FindToAdd ==
  \E j \in job["dispatcher"] :
    /\ j.at = "findToAdd"
    /\ ~TableLocked
    /\ IF \E e \in Found(j.name) : entry[e].readOnly
       THEN Ends("dispatcher")
       ELSE Becomes("dispatcher", [j EXCEPT !.at = "lock"])
    /\ UNCHANGED <<fibState, cleaning, lookup, faceState, alive, history>>

\* FIB.AddOrUpdate takes rwLocker.
Lock(t) ==
  \E j \in job[t] :
    /\ j.at = "lock"
    /\ ~TableLocked
    /\ Becomes(t, [j EXCEPT !.at = "write"])
    /\ UNCHANGED <<fibState, cleaning, lookup, faceState, alive, history>>

Recorded(p, f) ==
  /\ late' = IF cleaning[f].at \in {"visit", "erase", "done"}
             THEN late \cup {<<p, f>>} ELSE late
  /\ kept' = IF f \in up /\ ~MayBeErased(p) THEN kept \cup {<<p, f>>} ELSE kept

\* ... and writes the next hop, into a new entry if the prefix has none.
Write(t) ==
  \E j \in job[t] :
    /\ j.at = "write"
    /\ Ends(t)
    /\ \/ /\ j.name \in DOMAIN tree
          /\ entry' = [entry EXCEPT ![tree[j.name]].hops = @ \cup {j.face}]
          /\ UNCHANGED <<tree, branched>>
       \/ /\ j.name \notin DOMAIN tree
          /\ LET free == Entries \ DOMAIN entry
                 e == CHOOSE x \in free : TRUE
             IN  /\ free # {}
                 /\ tree' = Put(tree, j.name, e)
                 /\ entry' = Put(entry, e, [NewEntry(j.name) EXCEPT !.hops = {j.face}])
          /\ branched' = BranchesOf(branched, j.name)
    /\ Recorded(j.name, j.face)
    /\ UNCHANGED <<cleaning, lookup, faceState, alive>>

\* Another goroutine is at the same map under RWlock, which AddOrUpdate does
\* not take: the runtime may find out and end the daemon.
WriteRaces(t) ==
  \E j \in job[t] :
    /\ j.at = "write" /\ j.name \in DOMAIN tree
    /\ LET e == tree[j.name]
       IN  \/ e \in reading /\ ~EntryLocked(e)
           \/ ~EntryBusy(e) /\ \E f \in Faces : e \in cleaning[f].todo
           \/ ~EntryBusy(e) /\ \E s \in Writers : \E i \in job[s] :
                                 i.at = "unhop" /\ e \in i.target
    /\ alive' = FALSE
    /\ UNCHANGED <<fibState, job, cleaning, lookup, faceState, history>>

FindToRemove ==
  \E j \in job["dispatcher"] :
    /\ j.at = "findToRemove"
    /\ ~TableLocked
    /\ LET found == Found(j.name)
       IN  IF found = {} \/ \E e \in found : entry[e].readOnly
           THEN Ends("dispatcher")
           ELSE Becomes("dispatcher", [j EXCEPT !.at = "unhop", !.target = found])
    /\ UNCHANGED <<fibState, cleaning, lookup, faceState, alive, history>>

\* FIBEntry.RemoveNextHop
Unhop ==
  \E j \in job["dispatcher"] : \E e \in j.target :
    /\ j.at = "unhop"
    /\ ~EntryBusy(e)
    /\ Becomes("dispatcher", [j EXCEPT !.at = "test"])
    /\ entry' = RemoveHop(e, j.face)
    /\ kept' = kept \ {<<entry[e].identifier, j.face>>}
    /\ UNCHANGED <<tree, branched, cleaning, lookup, faceState, alive, late>>

\* FIBEntry.HasNextHops takes no lock.
Test ==
  \E j \in job["dispatcher"] : \E e \in j.target :
    /\ j.at = "test"
    /\ IF entry[e].hops # {}
       THEN Ends("dispatcher")
       ELSE Becomes("dispatcher", [j EXCEPT !.at = "erase"])
    /\ UNCHANGED <<tree, branched, cleaning, lookup, faceState, alive, history>>
    /\ entry' = Collected(entry)

EraseEmpty ==
  \E j \in job["dispatcher"] : \E e \in j.target :
    /\ j.at = "erase"
    /\ Erase(e)
    /\ Ends("dispatcher")
    /\ UNCHANGED <<cleaning, lookup, faceState, alive, history>>
    /\ entry' = Collected(entry)

-----------------------------------------------------------------------------
(* Faces go down *)

\* LogicFace.Shutdown, which module LogicFace has the races of, marks the face
\* down and comes to the callback.
ShutDown(f) ==
  /\ up' = up \ {f}
  /\ cleaning' = [cleaning EXCEPT ![f].at = "list"]
  /\ kept' = {r \in kept : r[2] # f}

\* A connection breaks or the cleaner finds the face idle.
FaceGoesDown(f) ==
  /\ f \in up
  /\ ShutDown(f)
  /\ UNCHANGED <<fibState, job, lookup, table, alive, late>>

\* FaceManager.delLogicFace: if it is this command that shuts the face down,
\* the callback runs in the dispatcher's goroutine.
BeginDelete(f) ==
  /\ job["dispatcher"] = {}
  /\ f \in table
  /\ IF f \in up
     THEN Begin("dispatcher", "await", TopPrefix, f) /\ ShutDown(f)
     ELSE Begin("dispatcher", "unlist", TopPrefix, f) /\ UNCHANGED <<up, cleaning, kept>>
  /\ UNCHANGED <<fibState, lookup, table, alive, late>>

EndDelete ==
  \E j \in job["dispatcher"] :
    /\ \/ j.at = "unlist"
       \/ j.at = "await" /\ cleaning[j.face].at = "done"
    /\ Ends("dispatcher")
    /\ table' = table \ {j.face}
    /\ UNCHANGED <<fibState, cleaning, lookup, up, alive, history>>

\* Seeded fault: a face is taken off the table without being shut down.
RemoveByLogicFaceId_Up(f) ==
  /\ f \in table
  /\ table' = table \ {f}
  /\ UNCHANGED <<fibState, job, cleaning, lookup, up, alive, history>>

\* doFaceClean comes upon a face that is down, its callback ended or not.
RemoveByLogicFaceId(f) ==
  /\ f \in table \ up
  /\ table' = table \ {f}
  /\ UNCHANGED <<fibState, job, cleaning, lookup, up, alive, history>>

-----------------------------------------------------------------------------
(* FibManager.NextHopCleaner *)

\* Seeded fault: the next hops are counted before the face is taken out.
IsEmptied_CountsFirst(e, f) == Cardinality(entry[e].hops) <= 1

\* Seeded fault: an entry left without next hops stays.
IsEmptied_Never(e, f) == FALSE

\* HasNextHops after RemoveNextHop
IsEmptied(e, f) == entry[e].hops \ {f} = {}

\* FIB.GetAllEntry
List(f) ==
  /\ cleaning[f].at = "list"
  /\ ~TableLocked
  /\ cleaning' = [cleaning EXCEPT ![f].at = "visit", ![f].todo = InTree]
  /\ UNCHANGED <<fibState, job, lookup, faceState, alive, history>>

\* Seeded fault: an entry whose lock is taken is passed over.
Visit_TryLock(f, e) ==
  /\ cleaning[f].at = "visit"
  /\ e \in cleaning[f].todo
  /\ IF ~EntryBusy(e) /\ IsEmptied(e, f)
     THEN cleaning' = [cleaning EXCEPT ![f].at = "erase",
                                       ![f].todo = @ \ {e}, ![f].held = {e}]
     ELSE cleaning' = [cleaning EXCEPT ![f].todo = @ \ {e}]
  /\ UNCHANGED <<tree, branched, job, lookup, faceState, alive, history>>
  /\ entry' = Collected(IF EntryBusy(e) THEN entry ELSE RemoveHop(e, f))

\* Under RWlock; the lock is kept if the entry is empty, to erase it.
Visit(f, e) ==
  /\ cleaning[f].at = "visit"
  /\ e \in cleaning[f].todo
  /\ ~EntryBusy(e)
  /\ IF IsEmptied(e, f)
     THEN cleaning' = [cleaning EXCEPT ![f].at = "erase",
                                       ![f].todo = @ \ {e}, ![f].held = {e}]
     ELSE cleaning' = [cleaning EXCEPT ![f].todo = @ \ {e}]
  /\ UNCHANGED <<tree, branched, job, lookup, faceState, alive, history>>
  /\ entry' = Collected(RemoveHop(e, f))

\* Seeded fault: the lock of an entry that is erased is not given back.
EraseVisited_KeepsLock(f) ==
  \E e \in cleaning[f].held :
    /\ cleaning[f].at = "erase"
    /\ Erase(e)
    /\ cleaning' = [cleaning EXCEPT ![f].at = "visit"]
    /\ UNCHANGED <<job, lookup, faceState, alive, history>>
    /\ entry' = Collected(entry)

EraseVisited(f) ==
  \E e \in cleaning[f].held :
    /\ Erase(e)
    /\ cleaning' = [cleaning EXCEPT ![f].at = "visit", ![f].held = {}]
    /\ UNCHANGED <<job, lookup, faceState, alive, history>>
    /\ entry' = Collected(entry)

Finish(f) ==
  /\ cleaning[f].at = "visit" /\ cleaning[f].todo = {}
  /\ cleaning' = [cleaning EXCEPT ![f].at = "done"]
  /\ UNCHANGED <<fibState, job, lookup, faceState, alive, history>>

Clean(f) == List(f) \/ (\E e \in Entries : Visit(f, e)) \/ EraseVisited(f) \/ Finish(f)

-----------------------------------------------------------------------------
(* The forwarder looks a name up, under rwLocker, and copies the next hops *)
(* of the entry it has found, which may not be in the tree any more        *)

\* FIB.FindLongestPrefixMatch
LookUp(n) ==
  /\ reading = {} /\ ~TableLocked
  /\ \E p \in FindLongestPrefixMatch(DOMAIN tree, n) : reading' = {tree[p]}
  /\ UNCHANGED <<fibState, job, cleaning, copying, faceState, alive, history>>

\* FIBEntry.GetNextHops takes RWlock ...
BeginRead ==
  /\ ~copying
  /\ \E e \in reading : ~EntryLocked(e)
  /\ copying' = TRUE
  /\ UNCHANGED <<fibState, job, cleaning, reading, faceState, alive, history>>

\* ... and gives it back.
EndRead ==
  /\ copying
  /\ copying' = FALSE /\ reading' = {}
  /\ UNCHANGED <<tree, branched, job, cleaning, faceState, alive, history>>
  /\ entry' = Collected(entry)

-----------------------------------------------------------------------------
Continue(t) ==
  \/ Lock(t) \/ Write(t) \/ WriteRaces(t)
  \/ t = "dispatcher" /\ (FindToAdd \/ FindToRemove \/ Unhop \/ Test \/ EraseEmpty \/ EndDelete)

Routes == [at : {"lock"}, name : Names, face : Faces, target : {{}}]

\* SetUpDefaultRoute has created a face and is about to add a route, or none.
Init ==
  /\ LET e == CHOOSE x \in Entries : TRUE
     IN  /\ tree = Put(EmptyMap, TopPrefix, e)
         /\ entry = Put(EmptyMap, e, [identifier |-> TopPrefix,
                                      hops |-> {ServerFace}, readOnly |-> TRUE])
  /\ branched = ProperPrefixes(TopPrefix)
  /\ \E routes \in {{}} \cup {{r} : r \in Routes} :
       job = [t \in Writers |-> IF t = "loader" THEN routes ELSE {}]
  /\ cleaning = [f \in Faces |-> [at |-> "idle", todo |-> {}, held |-> {}]]
  /\ reading = {} /\ copying = FALSE
  /\ up = Faces
  /\ table = Faces
  /\ alive = TRUE
  /\ late = {}
  /\ kept = {}

Next ==
  /\ alive
  /\ \/ \E p \in Names \cup {TopPrefix}, f \in Faces : BeginCommand(p, f)
     \/ \E t \in Writers : Continue(t)
     \/ \E f \in Faces : FaceGoesDown(f) \/ BeginDelete(f) \/ RemoveByLogicFaceId(f)
     \/ \E f \in Faces : Clean(f)
     \/ \E n \in Names : LookUp(n)
     \/ BeginRead \/ EndRead

Spec == Init /\ [][Next]_vars

-----------------------------------------------------------------------------
Job ==
  [at : {"findToAdd", "findToRemove", "lock", "write", "unhop", "test", "erase",
         "await", "unlist"},
   name : Names \cup {TopPrefix}, face : Faces, target : SUBSET DOMAIN entry]

\* Whatever a goroutine points to is there; a face that is up is in the table.
TypeOK ==
  /\ IsMap(tree, Names \cup {TopPrefix}, DOMAIN entry)
  /\ IsMap(entry, Entries, [identifier : Names \cup {TopPrefix},
                            hops : SUBSET (Faces \cup {ServerFace}), readOnly : BOOLEAN])
  /\ \A t \in Writers : job[t] \subseteq Job /\ Cardinality(job[t]) <= 1
  /\ cleaning \in [Faces -> [at : {"idle", "list", "visit", "erase", "done"},
                             todo : SUBSET DOMAIN entry, held : SUBSET DOMAIN entry]]
  /\ reading \subseteq DOMAIN entry /\ copying \in BOOLEAN
  /\ up \subseteq table /\ table \subseteq Faces

\* A face whose cleaning has ended is no next hop, but for routes written after
\* the cleaner took its list of entries.
DeadRoutesAreLate ==
  \A f \in Faces : cleaning[f].at = "done" =>
    \A p \in DOMAIN tree : f \in entry[tree[p]].hops => <<p, f>> \in late

\* A route written while nobody was about to erase its prefix stays until it is
\* removed by a command or its face goes down, although erasing goes by prefix
\* and may hit a younger entry than the one found empty.
KeptRoutesStay ==
  \A r \in kept : r[1] \in DOMAIN tree /\ r[2] \in entry[tree[r[1]]].hops

\* An entry without next hops, which the forwarder would take for a route, is
\* in the tree only while somebody is about to erase it.
EmptyIsBeingErased ==
  \A p \in DOMAIN tree : entry[tree[p]].hops = {} =>
    \/ EntryLocked(tree[p])
    \/ \E j \in job["dispatcher"] : tree[p] \in j.target /\ j.at \in {"test", "erase"}

Working ==
  \/ \E t \in Writers : job[t] # {}
  \/ \E f \in Faces : cleaning[f].at \in {"list", "visit", "erase"}

\* The goroutine of t has a command or a route in hand, and neither a lock that
\* another holds nor the cleaning of a face keeps it from its next step.
JobGoesOn(t) ==
  \E j \in job[t] :
    /\ j.at \in {"findToAdd", "findToRemove", "lock", "erase"} => ~TableLocked
    /\ j.at = "unhop" => \A e \in j.target : ~EntryBusy(e)
    /\ j.at = "await" => cleaning[j.face].at = "done"

\* The cleaner of f goes on, whichever entry is the next that it has listed.
CleanerGoesOn(f) ==
  \/ cleaning[f].at \in {"list", "erase"} /\ ~TableLocked
  \/ cleaning[f].at = "visit" /\ \A e \in cleaning[f].todo : ~EntryBusy(e)

SomebodyGoesOn ==
  \/ copying
  \/ \E t \in Writers : JobGoesOn(t)
  \/ \E f \in Faces : CleanerGoesOn(f)

\* While a command or a cleaning is under way one of the goroutines can go on:
\* they never all wait for each other's locks, although a cleaner takes rwLocker
\* while it holds RWlock.
WorkGoesOn == alive /\ Working => SomebodyGoesOn

\* Who can go on by the locks named above takes a step: nothing else is waited
\* for, such as a lock that the goroutine holds already; and there are Entries
\* enough.
NothingElseBlocks ==
  alive /\ SomebodyGoesOn =>
    ENABLED ((\E t \in Writers : Continue(t)) \/ (\E f \in Faces : Clean(f)) \/ EndRead)
=============================================================================
