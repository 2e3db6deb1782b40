------------------------ MODULE FibManagementProofs -------------------------
(***************************************************************************)
(* Proofs about FibManagement, for any number of prefixes, faces and       *)
(* entries.  The tree holds each entry under its own identifier, and a     *)
(* route that was written safely is in the only entry of its prefix that   *)
(* anybody can come to erase: that entry has a next hop, so nobody will.   *)
(***************************************************************************)
EXTENDS FibManagement, FiniteSetTheorems, TLAPS

Named == Names \cup {TopPrefix}

EntryType ==
  [identifier : Named, hops : SUBSET (Faces \cup {ServerFace}), readOnly : BOOLEAN]

Searching == {"findToAdd", "findToRemove", "lock", "write", "await", "unlist"}
Holding == {"unhop", "test", "erase"}

JobType ==
  [at : Searching \cup Holding, name : Named, face : Faces, target : SUBSET Entries]

CleanerType ==
  [at : {"idle", "list", "visit", "erase", "done"},
   todo : SUBSET Entries, held : SUBSET Entries]

-----------------------------------------------------------------------------
(* The inductive invariant *)

TypesInv ==
  /\ IsMap(tree, Named, Entries)
  /\ IsMap(entry, Entries, EntryType)
  /\ up \subseteq table /\ table \subseteq Faces

JobInv(j) ==
  /\ j \in JobType
  /\ j.at \in Searching => j.target = {}
  /\ j.at \in Holding => \E e \in Entries : j.target = {e}
  /\ j.at \in {"await", "unlist"} => j.face \notin up

JobsInv ==
  /\ job \in [Writers -> SUBSET JobType]
  /\ \A t \in Writers : \A i, j \in job[t] : i = j
  /\ \A t \in Writers : \A j \in job[t] : JobInv(j)

CleanerInv(f) ==
  /\ cleaning[f].at # "idle" => f \notin up
  /\ cleaning[f].at \in {"idle", "list", "done"} => cleaning[f].todo = {}
  /\ cleaning[f].at # "erase" => cleaning[f].held = {}
  /\ cleaning[f].at = "erase" => \E e \in Entries : cleaning[f].held = {e}

CleaningInv ==
  /\ cleaning \in [Faces -> CleanerType]
  /\ \A f \in Faces : CleanerInv(f)

\* What is pointed to is there.
PointersInv ==
  /\ \A p \in DOMAIN tree : tree[p] \in DOMAIN entry
  /\ \A t \in Writers : \A j \in job[t] : j.target \subseteq DOMAIN entry
  /\ \A f \in Faces : cleaning[f].todo \cup cleaning[f].held \subseteq DOMAIN entry
  /\ reading \subseteq DOMAIN entry

OwnInv == \A p \in DOMAIN tree : entry[tree[p]].identifier = p

\* From the moment the cleaner has its list.
DeadInv ==
  \A f \in Faces : cleaning[f].at \in {"visit", "erase", "done"} =>
    \A p \in DOMAIN tree : f \in entry[tree[p]].hops =>
      <<p, f>> \in late \/ tree[p] \in cleaning[f].todo

\* No other entry of p than the one in the tree is in anybody's hand, and that
\* one is not about to be erased.
Safe(p, f) ==
  /\ f \in up
  /\ p \in DOMAIN tree
  /\ f \in entry[tree[p]].hops
  /\ \A g \in Faces : \A e \in cleaning[g].todo : entry[e].identifier = p => e = tree[p]
  /\ \A g \in Faces : \A e \in cleaning[g].held : entry[e].identifier # p
  /\ \A t \in Writers : \A j \in job[t] : \A e \in j.target :
       entry[e].identifier = p => e = tree[p] /\ j.at # "erase"

KeptInv ==
  /\ kept \subseteq Named \X Faces
  /\ \A p \in Named, f \in Faces : <<p, f>> \in kept => Safe(p, f)

IInv ==
  /\ TypesInv /\ JobsInv /\ CleaningInv /\ PointersInv
  /\ OwnInv /\ DeadInv /\ EmptyIsBeingErased /\ KeptInv

LEMMA InvariantImplies ==
  ASSUME IInv
  PROVE  (copying \in BOOLEAN => TypeOK) /\ DeadRoutesAreLate /\ KeptRoutesStay
<1>1. ASSUME copying \in BOOLEAN PROVE TypeOK
  <2>1. IsMap(tree, Named, DOMAIN entry)
    BY DEF IInv, TypesInv, PointersInv, IsMap
  <2>2. \A t \in Writers : job[t] \subseteq Job
    BY DEF IInv, JobsInv, JobType, Job, PointersInv, Searching, Holding, Named
  <2>3. ASSUME NEW t \in Writers PROVE Cardinality(job[t]) <= 1
    <3>1. CASE job[t] = {}
      BY <3>1, FS_EmptySet
    <3>2. CASE job[t] # {}
      <4>1. PICK j \in job[t] : TRUE
        BY <3>2
      <4>2. job[t] = {j}
        BY <4>1, <2>3 DEF IInv, JobsInv
      <4>3. Cardinality({j}) = 1
        BY FS_Singleton
      <4>. QED  BY <4>2, <4>3
    <3>. QED  BY <3>1, <3>2
  <2>4. cleaning \in [Faces -> [at : {"idle", "list", "visit", "erase", "done"},
                        todo : SUBSET DOMAIN entry, held : SUBSET DOMAIN entry]]
    BY DEF IInv, CleaningInv, CleanerType, PointersInv
  <2>. QED
    BY <1>1, <2>1, <2>2, <2>3, <2>4
       DEF TypeOK, IInv, TypesInv, PointersInv, Named, EntryType
<1>2. DeadRoutesAreLate
  BY DEF IInv, CleaningInv, CleanerInv, DeadInv, DeadRoutesAreLate
<1>3. KeptRoutesStay
  BY DEF IInv, KeptInv, Safe, KeptRoutesStay
<1>. QED  BY <1>1, <1>2, <1>3

-----------------------------------------------------------------------------
(* Helpers *)

LEMMA FoundIsOne ==
  ASSUME IInv, NEW p \in Named, NEW e \in Found(p)
  PROVE  /\ Found(p) = {e} /\ e \in Entries /\ e \in DOMAIN entry
         /\ entry[e].identifier \in DOMAIN tree /\ tree[entry[e].identifier] = e
<1>1. p \in Seq(STRING)
  BY NamesAssumption DEF Named
<1>2. FindExactMatch(DOMAIN tree, branched, p) \subseteq DOMAIN tree
  BY DEF FindExactMatch
<1>3. ASSUME NEW q \in FindExactMatch(DOMAIN tree, branched, p),
             NEW r \in FindExactMatch(DOMAIN tree, branched, p)
      PROVE  q = r
  <2>1. PICK m \in 0 .. Len(p) : q = SubSeq(p, 1, m)
    BY DEF FindExactMatch, Prefixes
  <2>2. PICK n \in 0 .. Len(p) : r = SubSeq(p, 1, n)
    BY DEF FindExactMatch, Prefixes
  <2>3. Len(q) = m /\ Len(r) = n
    BY <1>1, <2>1, <2>2
  <2>4. ~(Len(q) > Len(r)) /\ ~(Len(r) > Len(q))
    BY DEF FindExactMatch, Nodes
  <2>. QED  BY <2>1, <2>2, <2>3, <2>4
<1>4. PICK q \in FindExactMatch(DOMAIN tree, branched, p) : e = tree[q]
  BY DEF Found
<1>5. Found(p) = {e}
  BY <1>3, <1>4 DEF Found
<1>6. q \in DOMAIN tree
  BY <1>2, <1>4
<1>. QED
  BY <1>4, <1>5, <1>6 DEF IInv, TypesInv, IsMap, PointersInv, OwnInv

\* What is left of the entries E when the garbage has gone.
LEMMA CollectedKeeps ==
  ASSUME NEW E, IsMap(E, Entries, EntryType), entry' = Collected(E),
         \A p \in DOMAIN tree' : tree'[p] \in DOMAIN E,
         \A t \in Writers : \A j \in job'[t] : j.target \subseteq DOMAIN E,
         \A f \in Faces : cleaning'[f].todo \cup cleaning'[f].held \subseteq DOMAIN E,
         reading' \subseteq DOMAIN E
  PROVE  /\ IsMap(entry', Entries, EntryType)
         /\ \A e \in DOMAIN entry' : e \in DOMAIN E /\ entry'[e] = E[e]
         /\ PointersInv'
<1>1. DOMAIN entry' = DOMAIN E \ (DOMAIN E \ (InTree' \cup Pointers'))
  BY DEF Collected, Drop
<1>2. \A e \in DOMAIN entry' : e \in DOMAIN E /\ entry'[e] = E[e]
  BY DEF Collected, Drop
<1>3. IsMap(entry', Entries, EntryType)
  BY <1>2 DEF IsMap, HasKeysIn, Collected, Drop
<1>4. \A p \in DOMAIN tree' : tree'[p] \in DOMAIN entry'
  BY <1>1 DEF InTree
<1>5. \A t \in Writers : \A j \in job'[t] : j.target \subseteq DOMAIN entry'
  <2> SUFFICES ASSUME NEW t \in Writers, NEW j \in job'[t], NEW e \in j.target
               PROVE  e \in DOMAIN entry'
    OBVIOUS
  <2>1. j \in UNION {job'[s] : s \in Writers}
    OBVIOUS
  <2>2. e \in UNION {i.target : i \in UNION {job'[s] : s \in Writers}}
    BY <2>1
  <2>3. e \in Pointers'
    BY <2>2 DEF Pointers
  <2>. QED  BY <1>1, <2>3
<1>6. \A f \in Faces : cleaning'[f].todo \cup cleaning'[f].held \subseteq DOMAIN entry'
  <2> SUFFICES ASSUME NEW f \in Faces, NEW e \in cleaning'[f].todo \cup cleaning'[f].held
               PROVE  e \in DOMAIN entry'
    OBVIOUS
  <2>1. e \in UNION {cleaning'[g].todo \cup cleaning'[g].held : g \in Faces}
    OBVIOUS
  <2>2. e \in Pointers'
    BY <2>1 DEF Pointers
  <2>. QED  BY <1>1, <2>2
<1>7. reading' \subseteq DOMAIN entry'
  BY <1>1 DEF Pointers
<1>. QED  BY <1>2, <1>3, <1>4, <1>5, <1>6, <1>7 DEF PointersInv

JobIsSet(t, S) == job' = [job EXCEPT ![t] = S]

LEMMA JobChanges ==
  ASSUME JobsInv, NEW t \in Writers, NEW S, JobIsSet(t, S),
         \A i, j \in S : i = j, \A j \in S : JobInv(j)', up' \subseteq up
  PROVE  JobsInv' /\ job'[t] = S /\ \A s \in Writers : s # t => job'[s] = job[s]
<1>1. job'[t] = S /\ \A s \in Writers : s # t => job'[s] = job[s]
  BY DEF JobsInv, JobIsSet
<1>2. \A s \in Writers : \A j \in job'[s] : JobInv(j)'
  BY <1>1 DEF JobsInv, JobInv
<1>3. \A s \in Writers : \A i, j \in job'[s] : i = j
  BY <1>1 DEF JobsInv
<1>4. job' \in [Writers -> SUBSET JobType]
  BY <1>1 DEF JobsInv, JobInv, JobIsSet
<1>. QED  BY <1>1, <1>2, <1>3, <1>4 DEF JobsInv

-----------------------------------------------------------------------------
(* Commands *)

JobOnly ==
  /\ tree' = tree /\ entry' = entry /\ cleaning' = cleaning /\ reading' = reading
  /\ late' = late /\ kept' = kept
  /\ up' = up /\ up \subseteq table' /\ table' \subseteq table

\* A step that changes what one job is and nothing the invariant says of others.
LEMMA JobStep ==
  ASSUME IInv, NEW t \in Writers, NEW S, JobIsSet(t, S),
         \A i, j \in S : i = j, \A j \in S : JobInv(j)',
         JobOnly,
         \A j \in job[t] : j.at \notin {"test", "erase"},
         \A j \in S : j.at # "erase",
         \A j \in S : \A e \in j.target :
            e \in DOMAIN entry /\ e = tree[entry[e].identifier]
  PROVE  IInv'
<1>. USE DEF JobOnly
<1>1. TypesInv' /\ OwnInv' /\ DeadInv'
  BY DEF IInv, TypesInv, OwnInv, DeadInv
<1>2. JobsInv' /\ job'[t] = S /\ \A s \in Writers : s # t => job'[s] = job[s]
  BY JobChanges DEF IInv
<1>3. CleaningInv'
  BY DEF IInv, CleaningInv, CleanerInv
<1>4. PointersInv'
  BY <1>2 DEF IInv, PointersInv
<1>5. EmptyIsBeingErased'
  <2> SUFFICES ASSUME NEW p \in DOMAIN tree, entry[tree[p]].hops = {}
               PROVE  (EntryLocked(tree[p])
                       \/ \E j \in job["dispatcher"] :
                            tree[p] \in j.target /\ j.at \in {"test", "erase"})'
    BY DEF EmptyIsBeingErased
  <2>1. CASE EntryLocked(tree[p])
    BY <2>1 DEF EntryLocked
  <2>2. CASE \E j \in job["dispatcher"] : tree[p] \in j.target /\ j.at \in {"test", "erase"}
    <3>1. t # "dispatcher"
      BY <2>2
    <3>. QED  BY <1>2, <2>2, <3>1 DEF Writers
  <2>. QED  BY <2>1, <2>2 DEF IInv, EmptyIsBeingErased
<1>6. KeptInv'
  <2>1. kept' = kept /\ up' = up /\ tree' = tree /\ entry' = entry /\ cleaning' = cleaning
    OBVIOUS
  <2>2. ASSUME NEW p \in Named, NEW f \in Faces, <<p, f>> \in kept PROVE Safe(p, f)'
    <3>1. Safe(p, f)
      BY <2>2 DEF IInv, KeptInv
    <3>2. ASSUME NEW s \in Writers, NEW j \in job'[s], NEW e \in j.target,
                 entry[e].identifier = p
          PROVE  e = tree[p] /\ j.at # "erase"
      <4>1. CASE s = t
        BY <1>2, <3>2, <4>1
      <4>2. CASE s # t
        BY <1>2, <3>1, <3>2, <4>2 DEF Safe
      <4>. QED  BY <4>1, <4>2
    <3>. QED  BY <2>1, <3>1, <3>2 DEF Safe
  <2>. QED  BY <2>1, <2>2 DEF IInv, KeptInv
<1>. QED  BY <1>1, <1>2, <1>3, <1>4, <1>5, <1>6 DEF IInv

LEMMA BeginCommandStep ==
  ASSUME IInv, NEW p \in Named, NEW f \in Faces, BeginCommand(p, f)
  PROVE  IInv'
<1>1. PICK at \in {"findToAdd", "findToRemove"} : Begin("dispatcher", at, p, f)
  BY DEF BeginCommand
<1>. DEFINE j == [at |-> at, name |-> p, face |-> f, target |-> {}]
<1>2. JobInv(j)'
  BY <1>1 DEF JobInv, JobType, Searching, Holding
<1>3. j.target = {} /\ j.at # "erase"
  BY <1>1
<1>4. JobIsSet("dispatcher", {j}) /\ job["dispatcher"] = {}
  BY <1>1 DEF Begin, BeginCommand, JobIsSet
<1>. HIDE DEF j
<1>. QED
  BY <1>2, <1>3, <1>4, JobStep
     DEF BeginCommand, JobOnly, Writers, fibState, history, lookup, faceState, IInv, TypesInv

LEMMA FindToAddStep ==
  ASSUME IInv, FindToAdd
  PROVE  IInv'
<1>1. PICK j \in job["dispatcher"] :
        /\ j.at = "findToAdd"
        /\ \/ Ends("dispatcher")
           \/ Becomes("dispatcher", [j EXCEPT !.at = "lock"])
  BY DEF FindToAdd
<1>2. job["dispatcher"] = {j} /\ JobInv(j) /\ j.target = {}
  BY <1>1 DEF IInv, JobsInv, JobInv, Writers, Searching
<1>. DEFINE k == [j EXCEPT !.at = "lock"]
<1>3. JobInv(k)' /\ k.target = {} /\ k.at # "erase"
  BY <1>1, <1>2 DEF JobInv, JobType, Searching, Holding
<1>4. \/ JobIsSet("dispatcher", {})
      \/ JobIsSet("dispatcher", {k})
  BY <1>1 DEF Ends, Becomes, JobIsSet
<1>5. JobOnly
  BY DEF FindToAdd, JobOnly, fibState, lookup, faceState, history, IInv, TypesInv
<1>. HIDE DEF k
<1>6. CASE JobIsSet("dispatcher", {})
  BY <1>1, <1>2, <1>5, <1>6, JobStep DEF Writers
<1>7. CASE JobIsSet("dispatcher", {k})
  BY <1>1, <1>2, <1>3, <1>5, <1>7, JobStep DEF Writers
<1>. QED  BY <1>4, <1>6, <1>7

LEMMA LockStep ==
  ASSUME IInv, NEW t \in Writers, Lock(t)
  PROVE  IInv'
<1>1. PICK j \in job[t] : j.at = "lock" /\ Becomes(t, [j EXCEPT !.at = "write"])
  BY DEF Lock
<1>2. job[t] = {j} /\ JobInv(j) /\ j.target = {}
  BY <1>1 DEF IInv, JobsInv, JobInv, Searching
<1>. DEFINE k == [j EXCEPT !.at = "write"]
<1>3. JobInv(k)' /\ k.target = {} /\ k.at # "erase"
  BY <1>1, <1>2 DEF JobInv, JobType, Searching, Holding
<1>4. JobIsSet(t, {k})
  BY <1>1 DEF Becomes, JobIsSet
<1>5. JobOnly
  BY DEF Lock, JobOnly, fibState, lookup, faceState, history, IInv, TypesInv
<1>. HIDE DEF k
<1>. QED  BY <1>1, <1>2, <1>3, <1>4, <1>5, JobStep

LEMMA FindToRemoveStep ==
  ASSUME IInv, FindToRemove
  PROVE  IInv'
<1>1. PICK j \in job["dispatcher"] :
        /\ j.at = "findToRemove"
        /\ \/ Ends("dispatcher")
           \/ /\ Found(j.name) # {}
              /\ Becomes("dispatcher", [j EXCEPT !.at = "unhop", !.target = Found(j.name)])
  BY DEF FindToRemove
<1>2. job["dispatcher"] = {j} /\ JobInv(j) /\ j.name \in Named
  BY <1>1 DEF IInv, JobsInv, JobInv, JobType, Writers
<1>3. JobOnly
  BY DEF FindToRemove, JobOnly, fibState, lookup, faceState, history, IInv, TypesInv
<1>4. CASE Ends("dispatcher")
  <2>1. JobIsSet("dispatcher", {})
    BY <1>4 DEF Ends, JobIsSet
  <2>. QED  BY <1>1, <1>2, <1>3, <2>1, JobStep DEF Writers
<1>5. CASE /\ Found(j.name) # {}
           /\ Becomes("dispatcher", [j EXCEPT !.at = "unhop", !.target = Found(j.name)])
  <2>1. PICK e \in Found(j.name) : TRUE
    BY <1>5
  <2>2. /\ Found(j.name) = {e} /\ e \in Entries /\ e \in DOMAIN entry
        /\ tree[entry[e].identifier] = e
    BY <1>2, <2>1, FoundIsOne
  <2>. DEFINE k == [j EXCEPT !.at = "unhop", !.target = {e}]
  <2>3. JobInv(k)' /\ k.target = {e} /\ k.at = "unhop"
    BY <1>2, <2>2 DEF JobInv, JobType, Searching, Holding
  <2>4. JobIsSet("dispatcher", {k})
    BY <1>5, <2>2 DEF Becomes, JobIsSet
  <2>. HIDE DEF k
  <2>. QED  BY <1>1, <1>2, <1>3, <2>2, <2>3, <2>4, JobStep DEF Writers
<1>. QED  BY <1>1, <1>4, <1>5

LEMMA EndDeleteStep ==
  ASSUME IInv, EndDelete
  PROVE  IInv'
<1>1. PICK j \in job["dispatcher"] :
        /\ j.at \in {"await", "unlist"}
        /\ Ends("dispatcher")
        /\ table' = table \ {j.face}
  BY DEF EndDelete
<1>2. job["dispatcher"] = {j} /\ j.face \notin up
  BY <1>1 DEF IInv, JobsInv, JobInv, Writers
<1>3. JobOnly
  BY <1>1, <1>2 DEF EndDelete, JobOnly, lookup, fibState, history, IInv, TypesInv
<1>4. JobIsSet("dispatcher", {})
  BY <1>1 DEF Ends, JobIsSet
<1>5. \A i \in job["dispatcher"] : i.at \notin {"test", "erase"}
  BY <1>1, <1>2
<1>. QED  BY <1>3, <1>4, <1>5, JobStep DEF Writers

-----------------------------------------------------------------------------
(* Faces go down *)

LEMMA ShutDownStep ==
  ASSUME IInv, NEW f \in up, ShutDown(f),
         tree' = tree, entry' = entry, reading' = reading, table' = table, late' = late,
         JobsInv', job["dispatcher"] \subseteq job'["dispatcher"],
         \A t \in Writers : \A j \in job'[t] : j \in job[t] \/ j.target = {}
  PROVE  IInv'
<1>1. f \in Faces
  BY DEF IInv, TypesInv
<1>2. cleaning[f].at = "idle" /\ cleaning[f].todo = {} /\ cleaning[f].held = {}
  BY <1>1 DEF IInv, CleaningInv, CleanerInv
<1>3. /\ cleaning' \in [Faces -> CleanerType]
      /\ cleaning'[f].at = "list" /\ cleaning'[f].todo = {} /\ cleaning'[f].held = {}
      /\ \A g \in Faces : g # f => cleaning'[g] = cleaning[g]
  BY <1>1, <1>2 DEF ShutDown, IInv, CleaningInv, CleanerType
<1>4. \A g \in Faces : cleaning'[g].todo = cleaning[g].todo /\ cleaning'[g].held = cleaning[g].held
  BY <1>2, <1>3
<1>5. up' = up \ {f}
  BY DEF ShutDown
<1>6. TypesInv' /\ OwnInv'
  BY <1>5 DEF IInv, TypesInv, OwnInv
<1>7. CleaningInv'
  BY <1>3, <1>5 DEF IInv, CleaningInv, CleanerInv
<1>8. PointersInv'
  BY <1>4 DEF IInv, PointersInv
<1>9. DeadInv'
  BY <1>3 DEF IInv, DeadInv
<1>10. EmptyIsBeingErased'
  BY <1>4 DEF IInv, EmptyIsBeingErased, EntryLocked
<1>11. KeptInv'
  <2>1. kept' = {r \in kept : r[2] # f}
    BY DEF ShutDown
  <2>2. ASSUME NEW p \in Named, NEW g \in Faces, <<p, g>> \in kept' PROVE Safe(p, g)'
    <3>1. Safe(p, g) /\ g # f
      BY <2>1, <2>2 DEF IInv, KeptInv
    <3>. QED  BY <1>4, <1>5, <3>1 DEF Safe
  <2>. QED  BY <2>1, <2>2 DEF IInv, KeptInv
<1>. QED  BY <1>6, <1>7, <1>8, <1>9, <1>10, <1>11 DEF IInv

LEMMA FaceGoesDownStep ==
  ASSUME IInv, NEW f \in Faces, FaceGoesDown(f)
  PROVE  IInv'
<1>1. JobsInv'
  BY DEF FaceGoesDown, ShutDown, IInv, JobsInv, JobInv
<1>. QED  BY <1>1, ShutDownStep DEF FaceGoesDown, lookup, fibState

LEMMA BeginDeleteStep ==
  ASSUME IInv, NEW f \in Faces, BeginDelete(f)
  PROVE  IInv'
<1>. DEFINE k(at) == [at |-> at, name |-> TopPrefix, face |-> f, target |-> {}]
<1>1. CASE f \in up
  <2>1. /\ job["dispatcher"] = {} /\ ShutDown(f)
        /\ JobIsSet("dispatcher", {k("await")})
    BY <1>1 DEF BeginDelete, Begin, JobIsSet
  <2>2. up' = up \ {f}
    BY <2>1 DEF ShutDown
  <2>3. JobInv(k("await"))' /\ k("await").target = {}
    BY <2>2 DEF JobInv, JobType, Searching, Holding, Named
  <2>. HIDE DEF k
  <2>4. /\ JobsInv' /\ job'["dispatcher"] = {k("await")}
        /\ \A s \in Writers : s # "dispatcher" => job'[s] = job[s]
    BY <2>1, <2>2, <2>3, JobChanges DEF Writers, IInv
  <2>. QED  BY <1>1, <2>1, <2>3, <2>4, ShutDownStep DEF BeginDelete, lookup, fibState
<1>2. CASE f \notin up
  <2>1. job["dispatcher"] = {} /\ JobIsSet("dispatcher", {k("unlist")})
    BY <1>2 DEF BeginDelete, Begin, JobIsSet
  <2>2. JobOnly
    BY <1>2 DEF BeginDelete, JobOnly, lookup, fibState, IInv, TypesInv
  <2>3. JobInv(k("unlist"))' /\ k("unlist").target = {} /\ k("unlist").at # "erase"
    BY <1>2, <2>2 DEF JobInv, JobType, JobOnly, Searching, Holding, Named
  <2>. HIDE DEF k
  <2>. QED  BY <2>1, <2>2, <2>3, JobStep DEF Writers
<1>. QED  BY <1>1, <1>2

LEMMA RemoveByLogicFaceIdStep ==
  ASSUME IInv, NEW f \in Faces, RemoveByLogicFaceId(f)
  PROVE  IInv'
<1>1. /\ table' = table \ {f} /\ f \notin up
      /\ UNCHANGED <<tree, entry, job, cleaning, reading, up, late, kept>>
  BY DEF RemoveByLogicFaceId, lookup, fibState, history
<1>2. TypesInv' /\ JobsInv' /\ CleaningInv' /\ PointersInv'
  BY <1>1 DEF IInv, TypesInv, JobsInv, JobInv, CleaningInv, CleanerInv, PointersInv
<1>3. OwnInv' /\ DeadInv' /\ EmptyIsBeingErased' /\ KeptInv'
  BY <1>1 DEF IInv, OwnInv, DeadInv, EmptyIsBeingErased, EntryLocked, KeptInv, Safe
<1>. QED  BY <1>2, <1>3 DEF IInv

-----------------------------------------------------------------------------
(* Writing a next hop *)

\* Both ways of Write: p has an entry, or gets one.
Written(p, f) ==
  /\ IsMap(tree', Named, Entries) /\ IsMap(entry', Entries, EntryType)
  /\ DOMAIN tree' = DOMAIN tree \cup {p}
  /\ \A q \in DOMAIN tree : tree'[q] = tree[q]
  /\ \A e \in DOMAIN entry :
       /\ e \in DOMAIN entry'
       /\ entry'[e].identifier = entry[e].identifier
       /\ entry[e].hops \subseteq entry'[e].hops
  /\ tree'[p] \in DOMAIN entry' /\ entry'[tree'[p]].identifier = p
  /\ f \in entry'[tree'[p]].hops
  /\ \A q \in DOMAIN tree : q # p => entry'[tree[q]].hops = entry[tree[q]].hops
  /\ \A g \in entry'[tree'[p]].hops :
       g = f \/ (p \in DOMAIN tree /\ g \in entry[tree[p]].hops)

LEMMA WriteWrites ==
  ASSUME IInv, NEW t \in Writers, NEW j \in job[t], NEW p, p = j.name, NEW f, f = j.face,
         \/ /\ p \in DOMAIN tree
            /\ entry' = [entry EXCEPT ![tree[p]].hops = @ \cup {f}]
            /\ tree' = tree
         \/ /\ p \notin DOMAIN tree
            /\ \E e \in Entries \ DOMAIN entry :
                 /\ tree' = Put(tree, p, e)
                 /\ entry' = Put(entry, e, [NewEntry(p) EXCEPT !.hops = {f}])
  PROVE  Written(p, f)
<1>1. p \in Named /\ f \in Faces
  BY DEF IInv, JobsInv, JobType
<1>2. CASE /\ p \in DOMAIN tree
           /\ entry' = [entry EXCEPT ![tree[p]].hops = @ \cup {f}]
           /\ tree' = tree
  <2>. DEFINE e == tree[p]
  <2>1. e \in DOMAIN entry /\ e \in Entries /\ entry[e] \in EntryType /\ entry[e].identifier = p
    BY <1>2 DEF IInv, TypesInv, IsMap, PointersInv, OwnInv
  <2>2. \A q \in DOMAIN tree : q # p => tree[q] # e
    BY <1>2, <2>1 DEF IInv, OwnInv
  <2>3. /\ DOMAIN entry' = DOMAIN entry
        /\ \A x \in DOMAIN entry : x # e => entry'[x] = entry[x]
        /\ entry'[e] = [entry[e] EXCEPT !.hops = @ \cup {f}]
        /\ entry' = [x \in DOMAIN entry' |-> entry'[x]]
    BY <1>2, <2>1
  <2>. HIDE DEF e
  <2>4. /\ entry'[e] \in EntryType /\ entry'[e].identifier = p
        /\ entry'[e].hops = entry[e].hops \cup {f}
    BY <1>1, <2>1, <2>3 DEF EntryType
  <2>5. IsMap(entry', Entries, EntryType)
    BY <2>3, <2>4 DEF IsMap, HasKeysIn, IInv, TypesInv
  <2>6. IsMap(tree', Named, Entries)
    BY <1>2 DEF IInv, TypesInv
  <2>7. tree'[p] = e /\ tree[p] = e
    BY <1>2 DEF e
  <2>8. \A q \in DOMAIN tree : tree[q] \in DOMAIN entry
    BY DEF IInv, PointersInv
  <2>9. \A x \in DOMAIN entry :
          /\ x \in DOMAIN entry'
          /\ entry'[x].identifier = entry[x].identifier
          /\ entry[x].hops \subseteq entry'[x].hops
    BY <2>1, <2>3, <2>4
  <2>10. /\ tree'[p] \in DOMAIN entry' /\ entry'[tree'[p]].identifier = p
         /\ entry'[tree'[p]].hops = entry[tree[p]].hops \cup {f}
    BY <2>1, <2>3, <2>4, <2>7
  <2>11. \A q \in DOMAIN tree : q # p => entry'[tree[q]].hops = entry[tree[q]].hops
    BY <2>2, <2>3, <2>8
  <2>12. p \in DOMAIN tree /\ tree' = tree
    BY <1>2
  <2>. QED  BY <2>5, <2>6, <2>9, <2>10, <2>11, <2>12 DEF Written
<1>3. CASE /\ p \notin DOMAIN tree
           /\ \E e \in Entries \ DOMAIN entry :
                /\ tree' = Put(tree, p, e)
                /\ entry' = Put(entry, e, [NewEntry(p) EXCEPT !.hops = {f}])
  <2>1. PICK e \in Entries \ DOMAIN entry :
          /\ tree' = Put(tree, p, e)
          /\ entry' = Put(entry, e, [NewEntry(p) EXCEPT !.hops = {f}])
    BY <1>3
  <2>. DEFINE new == [NewEntry(p) EXCEPT !.hops = {f}]
  <2>2. new \in EntryType /\ new.identifier = p /\ new.hops = {f}
    BY <1>1 DEF NewEntry, EntryType
  <2>3. entry' = Put(entry, e, new)
    BY <2>1
  <2>. HIDE DEF new
  <2>4. /\ DOMAIN tree' = DOMAIN tree \cup {p} /\ tree'[p] = e
        /\ \A q \in DOMAIN tree : tree'[q] = tree[q]
    BY <1>3, <2>1 DEF Put
  <2>5. /\ DOMAIN entry' = DOMAIN entry \cup {e} /\ entry'[e] = new
        /\ \A x \in DOMAIN entry : entry'[x] = entry[x]
    BY <2>1, <2>3 DEF Put
  <2>6. IsMap(entry', Entries, EntryType)
    BY <2>2, <2>3, <2>5 DEF IsMap, HasKeysIn, Put, IInv, TypesInv
  <2>7. IsMap(tree', Named, Entries)
    BY <1>1, <2>1, <2>4 DEF IsMap, HasKeysIn, Put, IInv, TypesInv
  <2>8. \A q \in DOMAIN tree : tree[q] \in DOMAIN entry
    BY DEF IInv, PointersInv
  <2>9. \A x \in DOMAIN entry :
          /\ x \in DOMAIN entry'
          /\ entry'[x].identifier = entry[x].identifier
          /\ entry[x].hops \subseteq entry'[x].hops
    BY <2>5
  <2>10. /\ tree'[p] \in DOMAIN entry' /\ entry'[tree'[p]].identifier = p
         /\ entry'[tree'[p]].hops = {f}
    BY <2>2, <2>4, <2>5
  <2>11. \A q \in DOMAIN tree : q # p => entry'[tree[q]].hops = entry[tree[q]].hops
    BY <2>5, <2>8
  <2>. QED  BY <2>4, <2>6, <2>7, <2>9, <2>10, <2>11 DEF Written
<1>. QED  BY <1>2, <1>3

LEMMA WriteStep ==
  ASSUME IInv, NEW t \in Writers, Write(t)
  PROVE  IInv'
<1>1. PICK j \in job[t] :
        /\ j.at = "write" /\ Ends(t)
        /\ \/ /\ j.name \in DOMAIN tree
              /\ entry' = [entry EXCEPT ![tree[j.name]].hops = @ \cup {j.face}]
              /\ tree' = tree
           \/ /\ j.name \notin DOMAIN tree
              /\ \E e \in Entries \ DOMAIN entry :
                   /\ tree' = Put(tree, j.name, e)
                   /\ entry' = Put(entry, e, [NewEntry(j.name) EXCEPT !.hops = {j.face}])
        /\ Recorded(j.name, j.face)
  BY DEF Write
<1>. DEFINE p == j.name
            f == j.face
<1>2. Written(p, f)
  BY <1>1, WriteWrites
<1>3. Recorded(p, f)
  BY <1>1
<1>4. p \in Named /\ f \in Faces /\ job[t] = {j}
  BY <1>1 DEF IInv, JobsInv, JobType
<1>. HIDE DEF p, f
<1>5. cleaning' = cleaning /\ reading' = reading /\ up' = up /\ table' = table
  BY DEF Write, lookup, faceState
<1>6. JobsInv' /\ job'[t] = {} /\ \A s \in Writers : s # t => job'[s] = job[s]
  <2>1. JobIsSet(t, {})
    BY <1>1 DEF Ends, JobIsSet
  <2>. QED  BY <1>5, <2>1, JobChanges DEF IInv
<1>7. TypesInv' /\ CleaningInv'
  BY <1>2, <1>5 DEF Written, IInv, TypesInv, CleaningInv, CleanerInv
<1>8. PointersInv'
  BY <1>2, <1>5, <1>6 DEF Written, IInv, PointersInv
<1>9. OwnInv'
  BY <1>2 DEF Written, IInv, PointersInv, OwnInv
<1>10. DeadInv'
  <2> SUFFICES ASSUME NEW g \in Faces, cleaning[g].at \in {"visit", "erase", "done"},
                      NEW q \in DOMAIN tree', g \in entry'[tree'[q]].hops
               PROVE  <<q, g>> \in late' \/ tree'[q] \in cleaning[g].todo
    BY <1>5 DEF DeadInv
  <2>1. CASE q = p /\ g = f
    BY <1>3, <2>1 DEF Recorded
  <2>2. CASE ~(q = p /\ g = f)
    <3>1. q \in DOMAIN tree /\ g \in entry[tree[q]].hops /\ tree'[q] = tree[q]
      BY <1>2, <2>2 DEF Written
    <3>2. late \subseteq late'
      BY <1>3 DEF Recorded
    <3>. QED  BY <3>1, <3>2 DEF IInv, DeadInv
  <2>. QED  BY <2>1, <2>2
<1>11. EmptyIsBeingErased'
  <2> SUFFICES ASSUME NEW q \in DOMAIN tree', entry'[tree'[q]].hops = {}
               PROVE  (EntryLocked(tree[q])
                       \/ \E i \in job["dispatcher"] :
                            tree[q] \in i.target /\ i.at \in {"test", "erase"})'
    BY DEF EmptyIsBeingErased
  <2>1. q \in DOMAIN tree /\ tree'[q] = tree[q] /\ entry[tree[q]].hops = {}
    BY <1>2 DEF Written
  <2>2. CASE EntryLocked(tree[q])
    BY <1>5, <2>1, <2>2 DEF EntryLocked
  <2>3. CASE \E i \in job["dispatcher"] : tree[q] \in i.target /\ i.at \in {"test", "erase"}
    <3>1. t # "dispatcher"
      BY <1>1, <1>4, <2>3
    <3>. QED  BY <1>6, <2>1, <2>3, <3>1 DEF Writers
  <2>. QED  BY <2>1, <2>2, <2>3 DEF IInv, EmptyIsBeingErased
<1>12. KeptInv'
  <2>1. kept' \subseteq kept \cup {<<p, f>>}
    BY <1>3 DEF Recorded
  <2>2. \A g \in Faces : \A e \in cleaning[g].todo \cup cleaning[g].held :
          e \in DOMAIN entry /\ entry'[e].identifier = entry[e].identifier
    BY <1>2 DEF Written, IInv, PointersInv
  <2>3. \A s \in Writers : \A i \in job'[s] : \A e \in i.target :
          /\ i \in job[s] /\ e \in DOMAIN entry
          /\ entry'[e].identifier = entry[e].identifier
    BY <1>2, <1>6 DEF Written, IInv, PointersInv
  <2>4. ASSUME NEW q \in Named, NEW g \in Faces, <<q, g>> \in kept PROVE Safe(q, g)'
    <3>1. Safe(q, g)
      BY <2>4 DEF IInv, KeptInv
    <3>2. /\ q \in DOMAIN tree' /\ tree'[q] = tree[q]
          /\ g \in entry'[tree[q]].hops
      BY <1>2, <3>1 DEF Written, Safe, IInv, PointersInv
    <3>. QED  BY <1>5, <2>2, <2>3, <3>1, <3>2 DEF Safe
  <2>5. ASSUME <<p, f>> \in kept', <<p, f>> \notin kept PROVE Safe(p, f)'
    <3>1. f \in up /\ ~MayBeErased(p)
      BY <1>3, <2>5 DEF Recorded
    <3>2. p \in DOMAIN tree' /\ f \in entry'[tree'[p]].hops
      BY <1>2 DEF Written
    <3>3. \A g \in Faces : \A e \in cleaning[g].todo \cup cleaning[g].held :
            entry'[e].identifier # p
      BY <2>2, <3>1 DEF MayBeErased
    <3>4. \A s \in Writers : \A i \in job'[s] : \A e \in i.target : entry'[e].identifier # p
      BY <2>3, <3>1 DEF MayBeErased
    <3>. QED  BY <1>5, <3>1, <3>2, <3>3, <3>4 DEF Safe
  <2>6. kept' \subseteq Named \X Faces
    BY <1>4, <2>1 DEF IInv, KeptInv
  <2>. QED  BY <2>1, <2>4, <2>5, <2>6 DEF KeptInv
<1>. QED  BY <1>6, <1>7, <1>8, <1>9, <1>10, <1>11, <1>12 DEF IInv

LEMMA WriteRacesStep ==
  ASSUME IInv, NEW t \in Writers, WriteRaces(t)
  PROVE  IInv'
<1>1. UNCHANGED <<tree, entry, job, cleaning, reading, up, table, late, kept>>
  BY DEF WriteRaces, fibState, lookup, faceState, history
<1>2. TypesInv' /\ JobsInv' /\ CleaningInv' /\ PointersInv'
  BY <1>1 DEF IInv, TypesInv, JobsInv, JobInv, CleaningInv, CleanerInv, PointersInv
<1>3. OwnInv' /\ DeadInv' /\ EmptyIsBeingErased' /\ KeptInv'
  BY <1>1 DEF IInv, OwnInv, DeadInv, EmptyIsBeingErased, EntryLocked, KeptInv, Safe
<1>. QED  BY <1>2, <1>3 DEF IInv

-----------------------------------------------------------------------------
(* Removing a next hop *)

Unhopped(E, e, f) ==
  /\ IsMap(E, Entries, EntryType)
  /\ DOMAIN E = DOMAIN entry
  /\ \A x \in DOMAIN entry : x # e => E[x] = entry[x]
  /\ E[e].identifier = entry[e].identifier
  /\ E[e].hops = entry[e].hops \ {f}

LEMMA RemoveHopUnhops ==
  ASSUME IInv, NEW e \in DOMAIN entry, NEW f \in Faces
  PROVE  Unhopped(RemoveHop(e, f), e, f)
<1>. DEFINE E == RemoveHop(e, f)
<1>1. entry[e] \in EntryType /\ e \in Entries
  BY DEF IInv, TypesInv, IsMap, HasKeysIn
<1>2. /\ DOMAIN E = DOMAIN entry
      /\ \A x \in DOMAIN entry : x # e => E[x] = entry[x]
      /\ E[e] = [entry[e] EXCEPT !.hops = @ \ {f}]
      /\ E = [x \in DOMAIN E |-> E[x]]
  BY DEF RemoveHop
<1>. HIDE DEF E
<1>3. /\ E[e] \in EntryType /\ E[e].identifier = entry[e].identifier
      /\ E[e].hops = entry[e].hops \ {f}
  BY <1>1, <1>2 DEF EntryType
<1>4. IsMap(E, Entries, EntryType)
  BY <1>2, <1>3 DEF IsMap, HasKeysIn, IInv, TypesInv
<1>5. Unhopped(E, e, f)
  BY <1>2, <1>3, <1>4 DEF Unhopped
<1>. QED  BY <1>5 DEF E

LEMMA UnhopStep ==
  ASSUME IInv, Unhop
  PROVE  IInv'
<1>0. PICK j \in job["dispatcher"] : \E e \in j.target :
        /\ j.at = "unhop"
        /\ Becomes("dispatcher", [j EXCEPT !.at = "test"])
        /\ entry' = RemoveHop(e, j.face)
        /\ kept' = kept \ {<<entry[e].identifier, j.face>>}
  BY DEF Unhop
<1>1. PICK e \in j.target :
        /\ j.at = "unhop"
        /\ Becomes("dispatcher", [j EXCEPT !.at = "test"])
        /\ entry' = RemoveHop(e, j.face)
        /\ kept' = kept \ {<<entry[e].identifier, j.face>>}
  BY <1>0
<1>2. /\ job["dispatcher"] = {j} /\ JobInv(j) /\ j.target = {e} /\ j.face \in Faces
      /\ e \in DOMAIN entry
  BY <1>1 DEF IInv, JobsInv, JobInv, JobType, Holding, Writers, PointersInv
<1>. DEFINE f == j.face
            k == [j EXCEPT !.at = "test"]
<1>3. Unhopped(entry', e, f)
  BY <1>1, <1>2, RemoveHopUnhops
<1>4. JobInv(k)' /\ k.target = {e} /\ k.at = "test"
  BY <1>2 DEF JobInv, JobType, Searching, Holding
<1>5. JobIsSet("dispatcher", {k})
  BY <1>1 DEF Becomes, JobIsSet
<1>6. kept' = kept \ {<<entry[e].identifier, f>>}
  BY <1>1
<1>. HIDE DEF f, k
<1>7. UNCHANGED <<tree, cleaning, reading, up, table, late>>
  BY DEF Unhop, lookup, faceState
<1>8. /\ JobsInv' /\ job'["dispatcher"] = {k}
      /\ \A s \in Writers : s # "dispatcher" => job'[s] = job[s]
  BY <1>4, <1>5, <1>7, JobChanges DEF Writers, IInv
<1>9. \A x \in DOMAIN entry : entry'[x].identifier = entry[x].identifier
  BY <1>3 DEF Unhopped
<1>10. TypesInv' /\ CleaningInv' /\ PointersInv' /\ OwnInv'
  <2>1. TypesInv' /\ CleaningInv'
    BY <1>3, <1>7 DEF Unhopped, IInv, TypesInv, CleaningInv, CleanerInv
  <2>2. PointersInv'
    BY <1>2, <1>3, <1>4, <1>7, <1>8 DEF Unhopped, IInv, PointersInv
  <2>3. OwnInv'
    BY <1>7, <1>9 DEF IInv, OwnInv, PointersInv
  <2>. QED  BY <2>1, <2>2, <2>3
<1>11. DeadInv'
  <2>1. \A x \in DOMAIN entry : entry'[x].hops \subseteq entry[x].hops
    BY <1>3 DEF Unhopped
  <2>. QED  BY <1>7, <2>1 DEF IInv, DeadInv, PointersInv
<1>12. EmptyIsBeingErased'
  <2> SUFFICES ASSUME NEW p \in DOMAIN tree, entry'[tree[p]].hops = {}
               PROVE  (EntryLocked(tree[p])
                       \/ \E i \in job["dispatcher"] :
                            tree[p] \in i.target /\ i.at \in {"test", "erase"})'
    BY <1>7 DEF EmptyIsBeingErased
  <2>1. CASE tree[p] = e
    BY <1>4, <1>7, <1>8, <2>1
  <2>2. CASE tree[p] # e
    <3>1. entry[tree[p]].hops = {}
      BY <1>3, <2>2 DEF Unhopped, IInv, PointersInv
    <3>2. EntryLocked(tree[p])
      BY <1>1, <1>2, <3>1 DEF IInv, EmptyIsBeingErased
    <3>. QED  BY <1>7, <3>2 DEF EntryLocked
  <2>. QED  BY <2>1, <2>2
<1>13. KeptInv'
  <2>1. ASSUME NEW p \in Named, NEW g \in Faces, <<p, g>> \in kept' PROVE Safe(p, g)'
    <3>1. Safe(p, g) /\ ~(p = entry[e].identifier /\ g = f)
      BY <1>6, <2>1 DEF IInv, KeptInv
    <3>2. g \in entry'[tree[p]].hops
      <4>1. CASE tree[p] = e
        <5>1. entry[e].identifier = p
          BY <3>1, <4>1 DEF IInv, OwnInv, Safe
        <5>. QED  BY <1>3, <3>1, <4>1, <5>1 DEF Unhopped, Safe
      <4>2. CASE tree[p] # e
        BY <1>3, <3>1, <4>2 DEF Unhopped, Safe, IInv, PointersInv
      <4>. QED  BY <4>1, <4>2
    <3>3. \A h \in Faces : \A x \in cleaning[h].todo \cup cleaning[h].held :
            entry'[x].identifier = entry[x].identifier
      BY <1>9 DEF IInv, PointersInv
    <3>4. ASSUME NEW s \in Writers, NEW i \in job'[s], NEW x \in i.target,
                 entry'[x].identifier = p
          PROVE  x = tree[p] /\ i.at # "erase"
      <4>1. CASE s = "dispatcher"
        <5>1. i.at = "test" /\ x = e /\ entry[e].identifier = p
          BY <1>2, <1>4, <1>8, <1>9, <3>4, <4>1
        <5>. QED  BY <1>2, <3>1, <5>1 DEF Safe, Writers
      <4>2. CASE s # "dispatcher"
        <5>1. i \in job[s] /\ x \in DOMAIN entry
          BY <1>8, <4>2 DEF IInv, PointersInv
        <5>. QED  BY <1>9, <3>1, <3>4, <5>1 DEF Safe
      <4>. QED  BY <4>1, <4>2
    <3>. QED  BY <1>7, <3>1, <3>2, <3>3, <3>4 DEF Safe
  <2>. QED  BY <1>6, <2>1 DEF IInv, KeptInv
<1>. QED  BY <1>8, <1>10, <1>11, <1>12, <1>13 DEF IInv

LEMMA TestStep ==
  ASSUME IInv, Test
  PROVE  IInv'
<1>0. PICK j \in job["dispatcher"] : \E e \in j.target :
        /\ j.at = "test"
        /\ \/ entry[e].hops # {} /\ Ends("dispatcher")
           \/ entry[e].hops = {} /\ Becomes("dispatcher", [j EXCEPT !.at = "erase"])
  BY DEF Test
<1>1. PICK e \in j.target :
        /\ j.at = "test"
        /\ \/ entry[e].hops # {} /\ Ends("dispatcher")
           \/ entry[e].hops = {} /\ Becomes("dispatcher", [j EXCEPT !.at = "erase"])
  BY <1>0
<1>2. job["dispatcher"] = {j} /\ JobInv(j) /\ j.target = {e} /\ e \in DOMAIN entry
  BY <1>1 DEF IInv, JobsInv, JobInv, Holding, Writers, PointersInv
<1>. DEFINE k == [j EXCEPT !.at = "erase"]
<1>3. JobInv(k)' /\ k.target = {e} /\ k.at = "erase"
  BY <1>2 DEF JobInv, JobType, Searching, Holding, Test, lookup, faceState
<1>4. \/ entry[e].hops # {} /\ JobIsSet("dispatcher", {})
      \/ entry[e].hops = {} /\ JobIsSet("dispatcher", {k})
  BY <1>1 DEF Ends, Becomes, JobIsSet
<1>. HIDE DEF k
<1>5. /\ UNCHANGED <<tree, cleaning, reading, up, table, late, kept>>
      /\ entry' = Collected(entry)
  BY DEF Test, lookup, faceState, history
<1>6. PICK S : /\ \/ S = {} /\ entry[e].hops # {}
                  \/ S = {k} /\ entry[e].hops = {}
               /\ JobIsSet("dispatcher", S)
  BY <1>4
<1>7. /\ JobsInv' /\ job'["dispatcher"] = S
      /\ \A s \in Writers : s # "dispatcher" => job'[s] = job[s]
  BY <1>3, <1>5, <1>6, JobChanges DEF Writers, IInv
<1>8. \A s \in Writers : \A i \in job'[s] : i \in job[s] \/ (i = k /\ entry[e].hops = {})
  BY <1>6, <1>7
<1>9. /\ IsMap(entry', Entries, EntryType)
      /\ \A x \in DOMAIN entry' : x \in DOMAIN entry /\ entry'[x] = entry[x]
      /\ PointersInv'
  <2>1. IsMap(entry, Entries, EntryType)
    BY DEF IInv, TypesInv
  <2>2. \A s \in Writers : \A i \in job'[s] : i.target \subseteq DOMAIN entry
    BY <1>2, <1>3, <1>8 DEF IInv, PointersInv
  <2>3. /\ \A p \in DOMAIN tree' : tree'[p] \in DOMAIN entry
        /\ \A f \in Faces : cleaning'[f].todo \cup cleaning'[f].held \subseteq DOMAIN entry
        /\ reading' \subseteq DOMAIN entry
    BY <1>5 DEF IInv, PointersInv
  <2>. QED  BY <1>5, <2>1, <2>2, <2>3, CollectedKeeps
<1>10. \A p \in DOMAIN tree : entry'[tree[p]] = entry[tree[p]]
  BY <1>5, <1>9 DEF PointersInv
<1>11. TypesInv' /\ CleaningInv' /\ OwnInv' /\ DeadInv'
  BY <1>5, <1>9, <1>10
     DEF IInv, TypesInv, CleaningInv, CleanerInv, OwnInv, DeadInv
<1>12. EmptyIsBeingErased'
  <2> SUFFICES ASSUME NEW p \in DOMAIN tree, entry[tree[p]].hops = {}
               PROVE  (EntryLocked(tree[p])
                       \/ \E i \in job["dispatcher"] :
                            tree[p] \in i.target /\ i.at \in {"test", "erase"})'
    BY <1>5, <1>10 DEF EmptyIsBeingErased
  <2>1. CASE EntryLocked(tree[p])
    BY <1>5, <2>1 DEF EntryLocked
  <2>2. CASE tree[p] = e
    BY <1>3, <1>5, <1>6, <1>7, <2>2
  <2>. QED  BY <1>2, <2>1, <2>2 DEF IInv, EmptyIsBeingErased
<1>13. KeptInv'
  <2>1. ASSUME NEW p \in Named, NEW g \in Faces, <<p, g>> \in kept PROVE Safe(p, g)'
    <3>1. Safe(p, g)
      BY <2>1 DEF IInv, KeptInv
    <3>2. \A h \in Faces : \A x \in cleaning[h].todo \cup cleaning[h].held :
            entry'[x] = entry[x]
      BY <1>5, <1>9 DEF PointersInv
    <3>3. ASSUME NEW s \in Writers, NEW i \in job'[s], NEW x \in i.target,
                 entry'[x].identifier = p
          PROVE  x = tree[p] /\ i.at # "erase"
      <4>1. entry[x].identifier = p
        BY <1>9, <3>3 DEF PointersInv
      <4>2. CASE i \in job[s]
        BY <3>1, <4>1, <4>2 DEF Safe
      <4>3. CASE i = k /\ entry[e].hops = {}
        <5>1. x = e /\ tree[p] = e
          BY <1>2, <1>3, <3>1, <4>1, <4>3 DEF Safe, Writers
        <5>. QED  BY <3>1, <4>3, <5>1 DEF Safe
      <4>. QED  BY <1>8, <4>2, <4>3
    <3>. QED  BY <1>5, <1>10, <3>1, <3>2, <3>3 DEF Safe
  <2>. QED  BY <1>5, <2>1 DEF IInv, KeptInv
<1>. QED  BY <1>7, <1>9, <1>11, <1>12, <1>13 DEF IInv

LEMMA EraseEmptyStep ==
  ASSUME IInv, EraseEmpty
  PROVE  IInv'
<1>0. PICK j \in job["dispatcher"] : \E e \in j.target :
        j.at = "erase" /\ Erase(e) /\ Ends("dispatcher")
  BY DEF EraseEmpty
<1>1. PICK e \in j.target : j.at = "erase" /\ Erase(e) /\ Ends("dispatcher")
  BY <1>0
<1>2. job["dispatcher"] = {j} /\ j.target = {e} /\ e \in DOMAIN entry
  BY <1>1 DEF IInv, JobsInv, JobInv, Holding, Writers, PointersInv
<1>. DEFINE q == entry[e].identifier
<1>3. tree' = Drop(tree, {q})
  BY <1>1 DEF Erase
<1>4. q = entry[e].identifier
  OBVIOUS
<1>. HIDE DEF q
<1>5. DOMAIN tree' = DOMAIN tree \ {q} /\ \A p \in DOMAIN tree' : tree'[p] = tree[p]
  BY <1>3 DEF Drop
<1>6. /\ UNCHANGED <<cleaning, reading, up, table, late, kept>>
      /\ entry' = Collected(entry)
  BY DEF EraseEmpty, lookup, faceState, history
<1>7. /\ JobsInv' /\ job'["dispatcher"] = {}
      /\ \A s \in Writers : s # "dispatcher" => job'[s] = job[s]
  <2>1. JobIsSet("dispatcher", {})
    BY <1>1 DEF Ends, JobIsSet
  <2>. QED  BY <1>6, <2>1, JobChanges DEF Writers, IInv
<1>8. \A s \in Writers : \A i \in job'[s] : i \in job[s]
  BY <1>7
<1>9. /\ IsMap(entry', Entries, EntryType)
      /\ \A x \in DOMAIN entry' : x \in DOMAIN entry /\ entry'[x] = entry[x]
      /\ PointersInv'
  <2>1. IsMap(entry, Entries, EntryType)
    BY DEF IInv, TypesInv
  <2>2. /\ \A s \in Writers : \A i \in job'[s] : i.target \subseteq DOMAIN entry
        /\ \A p \in DOMAIN tree' : tree'[p] \in DOMAIN entry
        /\ \A f \in Faces : cleaning'[f].todo \cup cleaning'[f].held \subseteq DOMAIN entry
        /\ reading' \subseteq DOMAIN entry
    BY <1>5, <1>6, <1>8 DEF IInv, PointersInv
  <2>. QED  BY <1>6, <2>1, <2>2, CollectedKeeps
<1>10. \A p \in DOMAIN tree' : entry'[tree[p]] = entry[tree[p]]
  BY <1>5, <1>9 DEF PointersInv
<1>11. TypesInv' /\ CleaningInv' /\ OwnInv' /\ DeadInv'
  <2>1. IsMap(tree', Named, Entries)
    BY <1>3, <1>5 DEF IsMap, HasKeysIn, Drop, IInv, TypesInv
  <2>. QED
    BY <1>5, <1>6, <1>9, <1>10, <2>1
       DEF IInv, TypesInv, CleaningInv, CleanerInv, OwnInv, DeadInv
<1>12. EmptyIsBeingErased'
  <2> SUFFICES ASSUME NEW p \in DOMAIN tree', entry[tree[p]].hops = {}
               PROVE  EntryLocked(tree[p])'
    BY <1>5, <1>10 DEF EmptyIsBeingErased
  <2>1. p \in DOMAIN tree /\ p # q /\ tree[p] # e
    BY <1>4, <1>5 DEF IInv, OwnInv
  <2>2. EntryLocked(tree[p])
    BY <1>2, <2>1 DEF IInv, EmptyIsBeingErased
  <2>3. tree'[p] = tree[p]
    BY <1>5
  <2>. QED  BY <1>6, <2>2, <2>3 DEF EntryLocked
<1>13. KeptInv'
  <2>1. ASSUME NEW p \in Named, NEW g \in Faces, <<p, g>> \in kept PROVE Safe(p, g)'
    <3>1. Safe(p, g)
      BY <2>1 DEF IInv, KeptInv
    <3>2. p # q
      BY <1>1, <1>4, <3>1 DEF Safe, Writers
    <3>3. \A h \in Faces : \A x \in cleaning[h].todo \cup cleaning[h].held :
            entry'[x] = entry[x]
      BY <1>6, <1>9 DEF PointersInv
    <3>4. \A s \in Writers : \A i \in job'[s] : i \in job[s] /\ \A x \in i.target :
            entry'[x] = entry[x]
      BY <1>8, <1>9 DEF PointersInv
    <3>5. p \in DOMAIN tree' /\ tree'[p] = tree[p]
      BY <1>5, <3>1, <3>2 DEF Safe
    <3>. QED  BY <1>6, <1>10, <3>1, <3>3, <3>4, <3>5 DEF Safe
  <2>. QED  BY <1>6, <2>1 DEF IInv, KeptInv
<1>. QED  BY <1>7, <1>9, <1>11, <1>12, <1>13 DEF IInv

-----------------------------------------------------------------------------
(* NextHopCleaner and the forwarder *)

LEMMA ListStep ==
  ASSUME IInv, NEW f \in Faces, List(f)
  PROVE  IInv'
<1>1. /\ UNCHANGED <<tree, entry, job, reading, up, table, late, kept>>
      /\ cleaning[f].at = "list"
      /\ cleaning' = [cleaning EXCEPT ![f].at = "visit", ![f].todo = InTree]
  BY DEF List, fibState, lookup, faceState, history
<1>2. InTree \subseteq DOMAIN entry /\ InTree \subseteq Entries
  BY DEF IInv, TypesInv, IsMap, PointersInv, InTree
<1>3. cleaning[f].held = {} /\ f \notin up
  BY <1>1 DEF IInv, CleaningInv, CleanerInv
<1>4. /\ cleaning' \in [Faces -> CleanerType]
      /\ cleaning'[f].at = "visit" /\ cleaning'[f].todo = InTree /\ cleaning'[f].held = {}
      /\ \A g \in Faces : g # f => cleaning'[g] = cleaning[g]
  BY <1>1, <1>2, <1>3 DEF IInv, CleaningInv, CleanerType
<1>5. \A g \in Faces : cleaning'[g].held = cleaning[g].held
  BY <1>3, <1>4
<1>6. TypesInv' /\ JobsInv' /\ OwnInv'
  BY <1>1 DEF IInv, TypesInv, JobsInv, JobInv, OwnInv
<1>7. CleaningInv'
  BY <1>1, <1>3, <1>4 DEF IInv, CleaningInv, CleanerInv
<1>8. PointersInv'
  BY <1>1, <1>2, <1>4, <1>5 DEF IInv, PointersInv
<1>9. DeadInv'
  BY <1>1, <1>4 DEF IInv, DeadInv, InTree
<1>10. EmptyIsBeingErased'
  BY <1>1, <1>5 DEF IInv, EmptyIsBeingErased, EntryLocked
<1>11. KeptInv'
  <2>1. ASSUME NEW p \in Named, NEW g \in Faces, <<p, g>> \in kept PROVE Safe(p, g)'
    <3>1. Safe(p, g)
      BY <2>1 DEF IInv, KeptInv
    <3>2. \A e \in InTree : entry[e].identifier = p => e = tree[p]
      BY DEF IInv, OwnInv, InTree
    <3>3. \A h \in Faces : \A e \in cleaning'[h].todo : entry[e].identifier = p => e = tree[p]
      BY <1>4, <3>1, <3>2 DEF Safe
    <3>. QED  BY <1>1, <1>5, <3>1, <3>3 DEF Safe
  <2>. QED  BY <1>1, <2>1 DEF IInv, KeptInv
<1>. QED  BY <1>6, <1>7, <1>8, <1>9, <1>10, <1>11 DEF IInv

LEMMA VisitStep ==
  ASSUME IInv, NEW f \in Faces, NEW e \in Entries, Visit(f, e)
  PROVE  IInv'
<1>. DEFINE E == RemoveHop(e, f)
            S == IF IsEmptied(e, f) THEN {e} ELSE {}
<1>1. /\ UNCHANGED <<tree, job, reading, up, table, late, kept>>
      /\ cleaning[f].at = "visit" /\ e \in cleaning[f].todo
  BY DEF Visit, lookup, faceState, history
<1>2. e \in DOMAIN entry /\ cleaning[f].held = {} /\ f \notin up
  BY <1>1 DEF IInv, CleaningInv, CleanerInv, PointersInv
<1>3. Unhopped(E, e, f)
  BY <1>2, RemoveHopUnhops
<1>4. entry' = Collected(E)
  BY DEF Visit
<1>5. /\ cleaning' \in [Faces -> CleanerType]
      /\ cleaning'[f].todo = cleaning[f].todo \ {e}
      /\ cleaning'[f].held = S
      /\ cleaning'[f].at = IF IsEmptied(e, f) THEN "erase" ELSE "visit"
      /\ \A g \in Faces : g # f => cleaning'[g] = cleaning[g]
  <2>1. cleaning \in [Faces -> CleanerType]
    BY DEF IInv, CleaningInv
  <2>2. CASE IsEmptied(e, f)
    <3>1. cleaning' = [cleaning EXCEPT ![f].at = "erase",
                                       ![f].todo = @ \ {e}, ![f].held = {e}]
      BY <2>2 DEF Visit
    <3>. QED  BY <2>1, <2>2, <3>1 DEF CleanerType
  <2>3. CASE ~IsEmptied(e, f)
    <3>1. cleaning' = [cleaning EXCEPT ![f].todo = @ \ {e}]
      BY <2>3 DEF Visit
    <3>. QED  BY <1>1, <1>2, <2>1, <2>3, <3>1 DEF CleanerType
  <2>. QED  BY <2>2, <2>3
<1>6. S \subseteq {e} /\ (e \in S <=> entry[e].hops \ {f} = {})
  BY DEF IsEmptied
<1>7. cleaning'[f].at \in {"visit", "erase"} /\ (cleaning'[f].at = "erase" <=> e \in S)
  BY <1>5
<1>. HIDE DEF E, S
<1>8. \A g \in Faces : cleaning'[g].todo \subseteq cleaning[g].todo
  BY <1>5
<1>9. /\ IsMap(entry', Entries, EntryType)
      /\ \A x \in DOMAIN entry' : x \in DOMAIN entry /\ entry'[x] = E[x]
      /\ PointersInv'
  <2>1. IsMap(E, Entries, EntryType) /\ DOMAIN E = DOMAIN entry
    BY <1>3 DEF Unhopped
  <2>2. \A g \in Faces : cleaning'[g].todo \cup cleaning'[g].held \subseteq DOMAIN entry
    BY <1>2, <1>5, <1>6 DEF IInv, PointersInv
  <2>3. /\ \A s \in Writers : \A i \in job'[s] : i.target \subseteq DOMAIN entry
        /\ \A p \in DOMAIN tree' : tree'[p] \in DOMAIN entry
        /\ reading' \subseteq DOMAIN entry
    BY <1>1 DEF IInv, PointersInv
  <2>. QED  BY <1>4, <2>1, <2>2, <2>3, CollectedKeeps
<1>10. \A x \in DOMAIN entry' :
         /\ x \in DOMAIN entry
         /\ entry'[x].identifier = entry[x].identifier
         /\ x # e => entry'[x].hops = entry[x].hops
         /\ x = e => entry'[x].hops = entry[x].hops \ {f}
  BY <1>3, <1>9 DEF Unhopped
<1>11. \A p \in DOMAIN tree : tree[p] \in DOMAIN entry'
  BY <1>1, <1>9 DEF PointersInv
<1>12. TypesInv' /\ JobsInv' /\ OwnInv'
  BY <1>1, <1>9, <1>10, <1>11 DEF IInv, TypesInv, JobsInv, JobInv, OwnInv
<1>13. CleaningInv'
  <2>1. CleanerInv(f)'
    BY <1>1, <1>2, <1>5, <1>6, <1>7 DEF CleanerInv
  <2>2. \A g \in Faces : g # f => CleanerInv(g)'
    BY <1>1, <1>5 DEF CleanerInv, IInv, CleaningInv
  <2>. QED  BY <1>5, <2>1, <2>2 DEF CleaningInv
<1>14. DeadInv'
  <2> SUFFICES ASSUME NEW g \in Faces, cleaning'[g].at \in {"visit", "erase", "done"},
                      NEW p \in DOMAIN tree, g \in entry'[tree[p]].hops
               PROVE  <<p, g>> \in late \/ tree[p] \in cleaning'[g].todo
    BY <1>1 DEF DeadInv
  <2>1. g \in entry[tree[p]].hops
    BY <1>10, <1>11
  <2>2. CASE g = f
    <3>1. tree[p] # e
      BY <1>10, <1>11, <2>2
    <3>. QED  BY <1>1, <1>5, <2>1, <2>2, <3>1 DEF IInv, DeadInv
  <2>3. CASE g # f
    BY <1>5, <2>1, <2>3 DEF IInv, DeadInv
  <2>. QED  BY <2>2, <2>3
<1>15. EmptyIsBeingErased'
  <2> SUFFICES ASSUME NEW p \in DOMAIN tree, entry'[tree[p]].hops = {}
               PROVE  (EntryLocked(tree[p])
                       \/ \E i \in job["dispatcher"] :
                            tree[p] \in i.target /\ i.at \in {"test", "erase"})'
    BY <1>1 DEF EmptyIsBeingErased
  <2>1. CASE tree[p] = e
    <3>1. e \in cleaning'[f].held
      BY <1>5, <1>6, <1>10, <1>11, <2>1
    <3>. QED  BY <1>1, <2>1, <3>1 DEF EntryLocked
  <2>2. CASE tree[p] # e
    <3>1. entry[tree[p]].hops = {}
      BY <1>10, <1>11, <2>2
    <3>2. CASE EntryLocked(tree[p])
      <4>1. PICK g \in Faces : tree[p] \in cleaning[g].held
        BY <3>2 DEF EntryLocked
      <4>2. tree'[p] \in cleaning'[g].held
        BY <1>1, <1>2, <1>5, <4>1
      <4>. QED  BY <4>2 DEF EntryLocked
    <3>. QED  BY <1>1, <3>1, <3>2 DEF IInv, EmptyIsBeingErased
  <2>. QED  BY <2>1, <2>2
<1>16. KeptInv'
  <2>1. ASSUME NEW p \in Named, NEW g \in Faces, <<p, g>> \in kept PROVE Safe(p, g)'
    <3>1. Safe(p, g) /\ g # f
      BY <1>2, <2>1 DEF IInv, KeptInv, Safe
    <3>2. g \in entry'[tree[p]].hops
      BY <1>10, <1>11, <3>1 DEF Safe
    <3>3. \A h \in Faces : \A x \in cleaning'[h].todo :
            entry'[x].identifier = p => x = tree[p]
      BY <1>8, <1>9, <1>10, <3>1 DEF Safe, PointersInv
    <3>4. ASSUME NEW h \in Faces, NEW x \in cleaning'[h].held
          PROVE  entry'[x].identifier # p
      <4>1. entry'[x].identifier = entry[x].identifier
        BY <1>9, <1>10 DEF PointersInv
      <4>2. CASE h = f
        <5>1. x = e /\ entry[e].hops \ {f} = {}
          BY <1>5, <1>6, <3>4, <4>2
        <5>. QED  BY <1>1, <3>1, <4>1, <5>1 DEF Safe
      <4>3. CASE h # f
        BY <1>5, <3>1, <4>1, <4>3 DEF Safe
      <4>. QED  BY <4>2, <4>3
    <3>5. \A s \in Writers : \A i \in job[s] : \A x \in i.target :
            entry'[x].identifier = entry[x].identifier
      BY <1>1, <1>9, <1>10 DEF PointersInv
    <3>. QED  BY <1>1, <3>1, <3>2, <3>3, <3>4, <3>5 DEF Safe
  <2>. QED  BY <1>1, <2>1 DEF IInv, KeptInv
<1>. QED  BY <1>9, <1>12, <1>13, <1>14, <1>15, <1>16 DEF IInv

LEMMA EraseVisitedStep ==
  ASSUME IInv, NEW f \in Faces, EraseVisited(f)
  PROVE  IInv'
<1>1. PICK e \in cleaning[f].held :
        /\ Erase(e)
        /\ cleaning' = [cleaning EXCEPT ![f].at = "visit", ![f].held = {}]
        /\ UNCHANGED <<job, reading, up, table, late, kept>>
        /\ entry' = Collected(entry)
  BY DEF EraseVisited, lookup, faceState, history
<1>2. /\ cleaning[f].at = "erase" /\ cleaning[f].held = {e} /\ f \notin up
      /\ e \in DOMAIN entry
  BY <1>1 DEF IInv, CleaningInv, CleanerInv, PointersInv
<1>. DEFINE q == entry[e].identifier
<1>3. tree' = Drop(tree, {q})
  BY <1>1 DEF Erase
<1>4. q = entry[e].identifier
  OBVIOUS
<1>. HIDE DEF q
<1>5. DOMAIN tree' = DOMAIN tree \ {q} /\ \A p \in DOMAIN tree' : tree'[p] = tree[p]
  BY <1>3 DEF Drop
<1>6. /\ cleaning' \in [Faces -> CleanerType]
      /\ cleaning'[f].at = "visit" /\ cleaning'[f].held = {}
      /\ cleaning'[f].todo = cleaning[f].todo
      /\ \A g \in Faces : g # f => cleaning'[g] = cleaning[g]
  BY <1>1 DEF IInv, CleaningInv, CleanerType
<1>7. \A g \in Faces : /\ cleaning'[g].todo = cleaning[g].todo
                       /\ cleaning'[g].held \subseteq cleaning[g].held
  BY <1>6
<1>8. /\ IsMap(entry', Entries, EntryType)
      /\ \A x \in DOMAIN entry' : x \in DOMAIN entry /\ entry'[x] = entry[x]
      /\ PointersInv'
  <2>1. IsMap(entry, Entries, EntryType)
    BY DEF IInv, TypesInv
  <2>2. /\ \A s \in Writers : \A i \in job'[s] : i.target \subseteq DOMAIN entry
        /\ \A p \in DOMAIN tree' : tree'[p] \in DOMAIN entry
        /\ \A g \in Faces : cleaning'[g].todo \cup cleaning'[g].held \subseteq DOMAIN entry
        /\ reading' \subseteq DOMAIN entry
    BY <1>1, <1>5, <1>7 DEF IInv, PointersInv
  <2>. QED  BY <1>1, <2>1, <2>2, CollectedKeeps
<1>9. \A p \in DOMAIN tree' : entry'[tree[p]] = entry[tree[p]]
  BY <1>5, <1>8 DEF PointersInv
<1>10. TypesInv' /\ JobsInv' /\ OwnInv'
  <2>1. IsMap(tree', Named, Entries)
    BY <1>3, <1>5 DEF IsMap, HasKeysIn, Drop, IInv, TypesInv
  <2>. QED
    BY <1>1, <1>5, <1>8, <1>9, <2>1 DEF IInv, TypesInv, JobsInv, JobInv, OwnInv
<1>11. CleaningInv'
  <2>1. CleanerInv(f)'
    BY <1>1, <1>2, <1>6 DEF CleanerInv
  <2>2. \A g \in Faces : g # f => CleanerInv(g)'
    BY <1>1, <1>6 DEF CleanerInv, IInv, CleaningInv
  <2>. QED  BY <1>6, <2>1, <2>2 DEF CleaningInv
<1>12. DeadInv'
  <2>1. \A g \in Faces : cleaning'[g].at \in {"visit", "erase", "done"} =>
                         cleaning[g].at \in {"visit", "erase", "done"}
    BY <1>2, <1>6
  <2>. QED  BY <1>1, <1>5, <1>7, <1>9, <2>1 DEF IInv, DeadInv
<1>13. EmptyIsBeingErased'
  <2> SUFFICES ASSUME NEW p \in DOMAIN tree', entry[tree[p]].hops = {}
               PROVE  (EntryLocked(tree[p])
                       \/ \E i \in job["dispatcher"] :
                            tree[p] \in i.target /\ i.at \in {"test", "erase"})'
    BY <1>5, <1>9 DEF EmptyIsBeingErased
  <2>1. p \in DOMAIN tree /\ tree[p] # e /\ tree'[p] = tree[p]
    BY <1>4, <1>5 DEF IInv, OwnInv
  <2>2. CASE EntryLocked(tree[p])
    <3>1. PICK g \in Faces : tree[p] \in cleaning[g].held
      BY <2>2 DEF EntryLocked
    <3>2. tree'[p] \in cleaning'[g].held
      BY <1>2, <1>6, <2>1, <3>1
    <3>. QED  BY <3>2 DEF EntryLocked
  <2>. QED  BY <1>1, <2>1, <2>2 DEF IInv, EmptyIsBeingErased
<1>14. KeptInv'
  <2>1. ASSUME NEW p \in Named, NEW g \in Faces, <<p, g>> \in kept PROVE Safe(p, g)'
    <3>1. Safe(p, g)
      BY <2>1 DEF IInv, KeptInv
    <3>2. p # q
      BY <1>1, <1>4, <3>1 DEF Safe
    <3>3. \A h \in Faces : \A x \in cleaning'[h].todo \cup cleaning'[h].held :
            entry'[x] = entry[x]
      BY <1>8 DEF PointersInv
    <3>4. \A s \in Writers : \A i \in job[s] : \A x \in i.target : entry'[x] = entry[x]
      BY <1>1, <1>8 DEF PointersInv
    <3>5. p \in DOMAIN tree' /\ tree'[p] = tree[p]
      BY <1>5, <3>1, <3>2 DEF Safe
    <3>6. \A h \in Faces : \A x \in cleaning'[h].todo :
            entry'[x].identifier = p => x = tree[p]
      BY <1>7, <3>1, <3>3 DEF Safe
    <3>7. \A h \in Faces : \A x \in cleaning'[h].held : entry'[x].identifier # p
      BY <1>7, <3>1, <3>3 DEF Safe
    <3>8. g \in up /\ g \in entry'[tree[p]].hops
      BY <1>9, <3>1, <3>5 DEF Safe
    <3>. QED  BY <1>1, <3>1, <3>4, <3>5, <3>6, <3>7, <3>8 DEF Safe
  <2>. QED  BY <1>1, <2>1 DEF IInv, KeptInv
<1>. QED  BY <1>8, <1>10, <1>11, <1>12, <1>13, <1>14 DEF IInv

LEMMA FinishStep ==
  ASSUME IInv, NEW f \in Faces, Finish(f)
  PROVE  IInv'
<1>1. /\ UNCHANGED <<tree, entry, job, reading, up, table, late, kept>>
      /\ cleaning[f].at = "visit" /\ cleaning[f].todo = {}
      /\ cleaning' = [cleaning EXCEPT ![f].at = "done"]
  BY DEF Finish, fibState, lookup, faceState, history
<1>2. /\ cleaning' \in [Faces -> CleanerType]
      /\ cleaning'[f].at = "done"
      /\ \A g \in Faces : /\ g # f => cleaning'[g].at = cleaning[g].at
                          /\ cleaning'[g].todo = cleaning[g].todo
                          /\ cleaning'[g].held = cleaning[g].held
  BY <1>1 DEF IInv, CleaningInv, CleanerType
<1>3. TypesInv' /\ JobsInv' /\ OwnInv' /\ PointersInv'
  BY <1>1, <1>2 DEF IInv, TypesInv, JobsInv, JobInv, OwnInv, PointersInv
<1>4. CleaningInv'
  BY <1>1, <1>2 DEF IInv, CleaningInv, CleanerInv
<1>5. DeadInv'
  BY <1>1, <1>2 DEF IInv, DeadInv
<1>6. EmptyIsBeingErased'
  BY <1>1, <1>2 DEF IInv, EmptyIsBeingErased, EntryLocked
<1>7. KeptInv'
  BY <1>1, <1>2 DEF IInv, KeptInv, Safe
<1>. QED  BY <1>3, <1>4, <1>5, <1>6, <1>7 DEF IInv

LEMMA CleanStep ==
  ASSUME IInv, NEW f \in Faces, Clean(f)
  PROVE  IInv'
BY ListStep, VisitStep, EraseVisitedStep, FinishStep DEF Clean

LEMMA LookUpStep ==
  ASSUME IInv, NEW n \in Names, LookUp(n)
  PROVE  IInv'
<1>1. UNCHANGED <<tree, entry, job, cleaning, up, table, late, kept>>
  BY DEF LookUp, fibState, faceState, history
<1>2. PICK p \in FindLongestPrefixMatch(DOMAIN tree, n) : reading' = {tree[p]}
  BY DEF LookUp
<1>3. p \in DOMAIN tree
  BY DEF FindLongestPrefixMatch
<1>4. PointersInv'
  BY <1>1, <1>2, <1>3 DEF IInv, PointersInv
<1>5. TypesInv' /\ JobsInv' /\ CleaningInv' /\ OwnInv'
  BY <1>1 DEF IInv, TypesInv, JobsInv, JobInv, CleaningInv, CleanerInv, OwnInv
<1>6. DeadInv' /\ EmptyIsBeingErased' /\ KeptInv'
  BY <1>1 DEF IInv, DeadInv, EmptyIsBeingErased, EntryLocked, KeptInv, Safe
<1>. QED  BY <1>4, <1>5, <1>6 DEF IInv

LEMMA BeginReadStep ==
  ASSUME IInv, BeginRead \/ UNCHANGED vars
  PROVE  IInv'
<1>1. UNCHANGED <<tree, entry, job, cleaning, reading, up, table, late, kept>>
  BY DEF BeginRead, fibState, faceState, history, vars
<1>2. TypesInv' /\ JobsInv' /\ CleaningInv' /\ PointersInv'
  BY <1>1 DEF IInv, TypesInv, JobsInv, JobInv, CleaningInv, CleanerInv, PointersInv
<1>3. OwnInv' /\ DeadInv' /\ EmptyIsBeingErased' /\ KeptInv'
  BY <1>1 DEF IInv, OwnInv, DeadInv, EmptyIsBeingErased, EntryLocked, KeptInv, Safe
<1>. QED  BY <1>2, <1>3 DEF IInv

LEMMA EndReadStep ==
  ASSUME IInv, EndRead
  PROVE  IInv'
<1>1. /\ UNCHANGED <<tree, job, cleaning, up, table, late, kept>>
      /\ reading' = {} /\ entry' = Collected(entry)
  BY DEF EndRead, lookup, faceState, history
<1>2. /\ IsMap(entry', Entries, EntryType)
      /\ \A x \in DOMAIN entry' : x \in DOMAIN entry /\ entry'[x] = entry[x]
      /\ PointersInv'
  <2>1. IsMap(entry, Entries, EntryType)
    BY DEF IInv, TypesInv
  <2>2. /\ \A s \in Writers : \A i \in job'[s] : i.target \subseteq DOMAIN entry
        /\ \A p \in DOMAIN tree' : tree'[p] \in DOMAIN entry
        /\ \A g \in Faces : cleaning'[g].todo \cup cleaning'[g].held \subseteq DOMAIN entry
        /\ reading' \subseteq DOMAIN entry
    BY <1>1 DEF IInv, PointersInv
  <2>. QED  BY <1>1, <2>1, <2>2, CollectedKeeps
<1>3. /\ \A p \in DOMAIN tree : entry'[tree[p]] = entry[tree[p]]
      /\ \A s \in Writers : \A i \in job[s] : \A x \in i.target : entry'[x] = entry[x]
      /\ \A g \in Faces : \A x \in cleaning[g].todo \cup cleaning[g].held :
           entry'[x] = entry[x]
  BY <1>1, <1>2 DEF PointersInv
<1>4. TypesInv' /\ JobsInv' /\ CleaningInv' /\ OwnInv'
  BY <1>1, <1>2, <1>3
     DEF IInv, TypesInv, JobsInv, JobInv, CleaningInv, CleanerInv, OwnInv
<1>5. DeadInv' /\ EmptyIsBeingErased'
  BY <1>1, <1>3 DEF IInv, DeadInv, EmptyIsBeingErased, EntryLocked
<1>6. KeptInv'
  <2>1. ASSUME NEW p \in Named, NEW g \in Faces, <<p, g>> \in kept PROVE Safe(p, g)'
    <3>1. Safe(p, g)
      BY <2>1 DEF IInv, KeptInv
    <3>2. g \in entry'[tree[p]].hops
      BY <1>3, <3>1 DEF Safe
    <3>. QED  BY <1>1, <1>3, <3>1, <3>2 DEF Safe
  <2>. QED  BY <1>1, <2>1 DEF IInv, KeptInv
<1>. QED  BY <1>2, <1>4, <1>5, <1>6 DEF IInv

-----------------------------------------------------------------------------
(* Theorems *)

LEMMA InitInv ==
  ASSUME Init
  PROVE  IInv
<1>. DEFINE e == CHOOSE x \in Entries : TRUE
            new == [identifier |-> TopPrefix, hops |-> {ServerFace}, readOnly |-> TRUE]
<1>1. tree = Put(EmptyMap, TopPrefix, e) /\ entry = Put(EmptyMap, e, new)
  BY DEF Init
<1>2. new \in EntryType /\ new.identifier = TopPrefix /\ new.hops = {ServerFace}
  BY DEF EntryType, Named
<1>3. e \in Entries
  BY EntriesAssumption
<1>. HIDE DEF e, new
<1>4. DOMAIN tree = {TopPrefix} /\ tree[TopPrefix] = e /\ DOMAIN entry = {e} /\ entry[e] = new
  BY <1>1 DEF Put, EmptyMap
<1>5. TypesInv
  BY <1>1, <1>2, <1>3, <1>4
     DEF Init, TypesInv, IsMap, HasKeysIn, Put, EmptyMap, Named
<1>6. JobsInv
  <2>1. PICK routes \in {{}} \cup {{r} : r \in Routes} :
          job = [t \in Writers |-> IF t = "loader" THEN routes ELSE {}]
    BY DEF Init
  <2>2. \A j \in routes : JobInv(j)
    BY DEF JobInv, JobType, Routes, Searching, Holding, Named
  <2>3. \A i, j \in routes : i = j
    OBVIOUS
  <2>. QED  BY <2>1, <2>2, <2>3 DEF JobsInv, JobInv
<1>7. CleaningInv
  <2>1. cleaning = [f \in Faces |-> [at |-> "idle", todo |-> {}, held |-> {}]]
    BY DEF Init
  <2>2. cleaning \in [Faces -> CleanerType]
    BY <2>1 DEF CleanerType
  <2>3. \A f \in Faces : CleanerInv(f)
    BY <2>1 DEF CleanerInv
  <2>. QED  BY <2>2, <2>3 DEF CleaningInv
<1>8. PointersInv
  <2>1. \A t \in Writers : \A j \in job[t] : j.target = {}
    BY DEF Init, Routes
  <2>. QED  BY <1>4, <2>1 DEF Init, PointersInv
<1>9. OwnInv
  BY <1>2, <1>4 DEF OwnInv
<1>10. DeadInv /\ KeptInv
  BY DEF Init, DeadInv, KeptInv
<1>11. EmptyIsBeingErased
  BY <1>2, <1>4 DEF EmptyIsBeingErased
<1>. QED  BY <1>5, <1>6, <1>7, <1>8, <1>9, <1>10, <1>11 DEF IInv

LEMMA NextInv ==
  ASSUME IInv, [Next]_vars
  PROVE  IInv'
<1>1. ASSUME NEW p \in Names \cup {TopPrefix}, NEW f \in Faces, BeginCommand(p, f)
      PROVE  IInv'
  BY <1>1, BeginCommandStep DEF Named
<1>2. ASSUME NEW t \in Writers, Continue(t) PROVE IInv'
  BY <1>2, LockStep, WriteStep, WriteRacesStep, FindToAddStep, FindToRemoveStep,
     UnhopStep, TestStep, EraseEmptyStep, EndDeleteStep DEF Continue
<1>3. ASSUME NEW f \in Faces, FaceGoesDown(f) \/ BeginDelete(f) \/ RemoveByLogicFaceId(f)
      PROVE  IInv'
  BY <1>3, FaceGoesDownStep, BeginDeleteStep, RemoveByLogicFaceIdStep
<1>4. ASSUME NEW f \in Faces, Clean(f) PROVE IInv'
  BY <1>4, CleanStep
<1>5. ASSUME NEW n \in Names, LookUp(n) PROVE IInv'
  BY <1>5, LookUpStep
<1>6. CASE EndRead
  BY <1>6, EndReadStep
<1>7. CASE BeginRead \/ UNCHANGED vars
  BY <1>7, BeginReadStep
<1>. QED  BY <1>1, <1>2, <1>3, <1>4, <1>5, <1>6, <1>7 DEF Next

LEMMA Invariance == Spec => []IInv
<1>1. Init => IInv
  BY InitInv
<1>2. IInv /\ [Next]_vars => IInv'
  BY NextInv
<1>. QED  BY <1>1, <1>2, PTL DEF Spec

LEMMA CopyingInvariance == Spec => [](copying \in BOOLEAN)
<1>1. Init => copying \in BOOLEAN
  BY DEF Init
<1>2. copying \in BOOLEAN /\ [Next]_vars => (copying \in BOOLEAN)'
  <2>1. ASSUME NEW p, NEW f, BeginCommand(p, f) PROVE UNCHANGED copying
    BY <2>1 DEF BeginCommand, lookup
  <2>2. ASSUME NEW t, Continue(t) PROVE UNCHANGED copying
    BY <2>2 DEF Continue, Lock, Write, WriteRaces, FindToAdd, FindToRemove, Unhop, Test,
                EraseEmpty, EndDelete, lookup
  <2>3. ASSUME NEW f, FaceGoesDown(f) \/ BeginDelete(f) \/ RemoveByLogicFaceId(f) \/ Clean(f)
        PROVE  UNCHANGED copying
    BY <2>3 DEF FaceGoesDown, BeginDelete, RemoveByLogicFaceId, Clean, List, Visit,
                EraseVisited, Finish, lookup
  <2>4. ASSUME NEW n, LookUp(n) PROVE UNCHANGED copying
    BY <2>4 DEF LookUp
  <2>5. BeginRead \/ EndRead => copying' \in BOOLEAN
    BY DEF BeginRead, EndRead
  <2>. QED  BY <2>1, <2>2, <2>3, <2>4, <2>5 DEF Next, vars
<1>. QED  BY <1>1, <1>2, PTL DEF Spec

\* Nothing that a goroutine of the FIB points to is missing, and a face that is
\* up stays in the face table.
THEOREM TypeCorrect == Spec => []TypeOK
<1>1. IInv /\ copying \in BOOLEAN => TypeOK
  BY InvariantImplies
<1>. QED  BY <1>1, Invariance, CopyingInvariance, PTL

\* NextHopCleaner misses nothing but what AddOrUpdate writes after it has listed
\* the entries, whatever the other cleaners and commands do meanwhile.
THEOREM OnlyLateRoutesAreDead == Spec => []DeadRoutesAreLate
<1>1. IInv => DeadRoutesAreLate
  BY InvariantImplies
<1>. QED  BY <1>1, Invariance, PTL

\* Erasing by prefix never takes a route that was written while nobody had an
\* entry of that prefix in hand.
THEOREM KeptRoutesAlwaysStay == Spec => []KeptRoutesStay
<1>1. IInv => KeptRoutesStay
  BY InvariantImplies
<1>. QED  BY <1>1, Invariance, PTL

\* NextHopCleaner and RemoveNextHop leave no empty entry behind in the tree.
THEOREM EmptyIsAlwaysBeingErased == Spec => []EmptyIsBeingErased
<1>1. IInv => EmptyIsBeingErased
  BY DEF IInv
<1>. QED  BY <1>1, Invariance, PTL

-----------------------------------------------------------------------------
(* Nobody waits for ever *)

\* The cleaning that delLogicFace waits for has begun.
AwaitInv ==
  \A t \in Writers : \A j \in job[t] : j.at = "await" => cleaning[j.face].at # "idle"

LEMMA AwaitKept ==
  ASSUME AwaitInv, \A t \in Writers : job'[t] \subseteq job[t] \/ \A j \in job'[t] : j.at # "await",
         \A f \in Faces : cleaning[f].at # "idle" => cleaning'[f].at # "idle",
         \A t \in Writers : \A j \in job[t] : j.face \in Faces
  PROVE  AwaitInv'
BY DEF AwaitInv

LEMMA AwaitStep ==
  ASSUME IInv, AwaitInv, [Next]_vars
  PROVE  AwaitInv'
<1>1. /\ job \in [Writers -> SUBSET JobType]
      /\ \A t \in Writers : \A j \in job[t] : j.face \in Faces
  BY DEF IInv, JobsInv, JobType
<1>2. cleaning \in [Faces -> CleanerType]
  BY DEF IInv, CleaningInv
<1>3. ASSUME UNCHANGED cleaning,
             \A t \in Writers : job'[t] \subseteq job[t] \/ \A j \in job'[t] : j.at # "await"
      PROVE  AwaitInv'
  BY <1>1, <1>3, AwaitKept
<1>4. ASSUME UNCHANGED job, NEW f \in Faces, NEW k, k.at # "idle",
             cleaning' = [cleaning EXCEPT ![f] = k]
      PROVE  AwaitInv'
  <2>1. \A g \in Faces : cleaning[g].at # "idle" => cleaning'[g].at # "idle"
    BY <1>2, <1>4
  <2>. QED  BY <1>1, <1>4, <2>1, AwaitKept
<1>5. ASSUME NEW p, NEW f, BeginCommand(p, f)
      PROVE  AwaitInv'
  <2>1. PICK at \in {"findToAdd", "findToRemove"} : Begin("dispatcher", at, p, f)
    BY <1>5 DEF BeginCommand
  <2>2. \A t \in Writers : job'[t] \subseteq job[t] \/ \A j \in job'[t] : j.at # "await"
    BY <1>1, <2>1 DEF Begin, Writers
  <2>. QED  BY <1>3, <1>5, <2>2 DEF BeginCommand
<1>6. ASSUME NEW t \in Writers, Continue(t)
      PROVE  AwaitInv'
  <2>1. ASSUME NEW s \in Writers, UNCHANGED cleaning,
               \/ UNCHANGED job
               \/ Ends(s)
               \/ \E j \in job[s], at \in {"write", "lock", "test", "erase"} :
                    Becomes(s, [j EXCEPT !.at = at])
               \/ \E j \in job[s] : \E target :
                    Becomes(s, [j EXCEPT !.at = "unhop", !.target = target])
        PROVE  AwaitInv'
    <3>1. ASSUME NEW j \in job[s], NEW at \in {"write", "lock", "test", "erase"}
          PROVE  [j EXCEPT !.at = at].at # "await"
      BY <1>1 DEF JobType
    <3>2. ASSUME NEW j \in job[s], NEW target
          PROVE  [j EXCEPT !.at = "unhop", !.target = target].at # "await"
      BY <1>1 DEF JobType
    <3>3. ASSUME NEW k, k.at # "await", job' = [job EXCEPT ![s] = {k}]
          PROVE  \A r \in Writers : job'[r] \subseteq job[r] \/ \A j \in job'[r] : j.at # "await"
      BY <1>1, <3>3
    <3>4. \A r \in Writers : job'[r] \subseteq job[r] \/ \A j \in job'[r] : j.at # "await"
      <4>1. CASE UNCHANGED job \/ Ends(s)
        BY <1>1, <4>1 DEF Ends
      <4>2. ASSUME NEW j \in job[s], NEW at \in {"write", "lock", "test", "erase"},
                   Becomes(s, [j EXCEPT !.at = at])
            PROVE  \A r \in Writers : job'[r] \subseteq job[r] \/ \A i \in job'[r] : i.at # "await"
        BY <3>1, <3>3, <4>2 DEF Becomes
      <4>3. ASSUME NEW j \in job[s], NEW target,
                   Becomes(s, [j EXCEPT !.at = "unhop", !.target = target])
            PROVE  \A r \in Writers : job'[r] \subseteq job[r] \/ \A i \in job'[r] : i.at # "await"
        BY <3>2, <3>3, <4>3 DEF Becomes
      <4>. QED  BY <2>1, <4>1, <4>2, <4>3
    <3>. QED  BY <1>3, <2>1, <3>4
  <2>2. CASE Lock(t) \/ Write(t) \/ WriteRaces(t)
    BY <2>1, <2>2 DEF Lock, Write, WriteRaces
  <2>3. CASE FindToAdd \/ FindToRemove \/ Unhop \/ Test \/ EraseEmpty \/ EndDelete
    <3>1. "dispatcher" \in Writers
      BY DEF Writers
    <3>2. CASE FindToAdd
      BY <2>1, <3>1, <3>2 DEF FindToAdd
    <3>3. CASE FindToRemove
      BY <2>1, <3>1, <3>3 DEF FindToRemove
    <3>4. CASE Unhop \/ Test \/ EraseEmpty \/ EndDelete
      BY <2>1, <3>1, <3>4 DEF Unhop, Test, EraseEmpty, EndDelete
    <3>. QED  BY <2>3, <3>2, <3>3, <3>4
  <2>. QED  BY <1>6, <2>2, <2>3 DEF Continue
<1>7. ASSUME NEW f \in Faces, FaceGoesDown(f) \/ BeginDelete(f)
      PROVE  AwaitInv'
  <2>1. CASE f \in up
    <3>1. cleaning' = [cleaning EXCEPT ![f].at = "list"]
      BY <1>7, <2>1 DEF FaceGoesDown, BeginDelete, ShutDown
    <3>2. cleaning'[f].at = "list" /\ \A g \in Faces : g # f => cleaning'[g] = cleaning[g]
      BY <1>2, <3>1 DEF CleanerType
    <3>3. \A t \in Writers : \A j \in job'[t] : j \in job[t] \/ j.face = f
      BY <1>1, <1>7, <2>1 DEF FaceGoesDown, BeginDelete, Begin
    <3>4. ASSUME NEW t \in Writers, NEW j \in job'[t], j.at = "await"
          PROVE  cleaning'[j.face].at # "idle"
      <4>1. CASE j.face = f
        BY <3>2, <4>1
      <4>2. CASE j \in job[t] /\ j.face # f
        BY <1>1, <3>2, <3>4, <4>2 DEF AwaitInv
      <4>. QED  BY <3>3, <3>4, <4>1, <4>2
    <3>. QED  BY <3>4 DEF AwaitInv
  <2>2. CASE f \notin up
    <3>1. Begin("dispatcher", "unlist", TopPrefix, f) /\ UNCHANGED cleaning
      BY <1>7, <2>2 DEF FaceGoesDown, BeginDelete
    <3>2. \A t \in Writers : job'[t] \subseteq job[t] \/ \A j \in job'[t] : j.at # "await"
      BY <1>1, <3>1 DEF Begin, Writers
    <3>. QED  BY <1>3, <3>1, <3>2
  <2>. QED  BY <2>1, <2>2
<1>8. ASSUME NEW f \in Faces, RemoveByLogicFaceId(f)
      PROVE  AwaitInv'
  BY <1>8, <1>3 DEF RemoveByLogicFaceId
<1>9. ASSUME NEW f \in Faces, Clean(f)
      PROVE  AwaitInv'
  <2>1. cleaning[f] = [at |-> cleaning[f].at, todo |-> cleaning[f].todo, held |-> cleaning[f].held]
    BY <1>2 DEF CleanerType
  <2>2. CASE List(f) \/ Finish(f) \/ EraseVisited(f)
    <3>1. UNCHANGED job /\ \E at \in {"visit", "done"} : \E todo, held :
            cleaning' = [cleaning EXCEPT ![f] = [at |-> at, todo |-> todo, held |-> held]]
      BY <1>2, <2>1, <2>2 DEF List, Finish, EraseVisited
    <3>. QED  BY <1>4, <3>1
  <2>3. ASSUME NEW e \in Entries, Visit(f, e)
        PROVE  AwaitInv'
    <3>1. UNCHANGED job /\ \E at \in {"visit", "erase"} : \E todo, held :
            cleaning' = [cleaning EXCEPT ![f] = [at |-> at, todo |-> todo, held |-> held]]
      BY <1>2, <2>1, <2>3 DEF Visit
    <3>. QED  BY <1>4, <3>1
  <2>. QED  BY <1>9, <2>2, <2>3 DEF Clean
<1>10. CASE (\E n \in Names : LookUp(n)) \/ BeginRead \/ EndRead \/ UNCHANGED vars
  BY <1>10, <1>3 DEF LookUp, BeginRead, EndRead, vars
<1>. QED  BY <1>5, <1>6, <1>7, <1>8, <1>9, <1>10 DEF Next

LEMMA InitAwait == Init => AwaitInv
BY DEF Init, AwaitInv, Routes, Writers

\* Locks are taken in one order: who holds rwLocker waits for nobody, so who
\* holds an entry's lock comes by rwLocker in the end.
LEMMA LocksAreOrdered == IInv /\ AwaitInv /\ Working => SomebodyGoesOn
<1>. SUFFICES ASSUME IInv, AwaitInv, Working, ~SomebodyGoesOn PROVE FALSE
  OBVIOUS
<1>1. job \in [Writers -> SUBSET JobType] /\ cleaning \in [Faces -> CleanerType]
  BY DEF IInv, JobsInv, CleaningInv
<1>2. ~copying /\ (\A t \in Writers : ~JobGoesOn(t)) /\ (\A f \in Faces : ~CleanerGoesOn(f))
  BY DEF SomebodyGoesOn
<1>3. ~TableLocked
  <2>. SUFFICES ASSUME NEW t \in Writers, NEW j \in job[t], j.at = "write" PROVE FALSE
    BY DEF TableLocked
  <2>1. JobGoesOn(t)
    BY DEF JobGoesOn
  <2>. QED  BY <1>2, <2>1
<1>4. \A f \in Faces : cleaning[f].at \notin {"list", "erase"}
  BY <1>2, <1>3 DEF CleanerGoesOn
<1>5. \A e : ~EntryBusy(e)
  BY <1>2, <1>4 DEF EntryBusy, EntryLocked, IInv, CleaningInv, CleanerInv
<1>6. \A f \in Faces : cleaning[f].at \in {"idle", "done"}
  <2>1. \A f \in Faces : cleaning[f].at \in {"idle", "list", "visit", "erase", "done"}
    BY <1>1 DEF CleanerType
  <2>. QED  BY <1>2, <1>4, <1>5, <2>1 DEF CleanerGoesOn
<1>7. PICK t \in Writers : job[t] # {}
  BY <1>6 DEF Working
<1>8. PICK j : j \in job[t]
  BY <1>7
<1>9. j.face \in Faces
  BY <1>1, <1>8 DEF JobType
<1>10. j.at = "await" => cleaning[j.face].at = "done"
  BY <1>6, <1>8, <1>9 DEF AwaitInv
<1>11. JobGoesOn(t)
  BY <1>3, <1>5, <1>8, <1>10 DEF JobGoesOn
<1>. QED  BY <1>2, <1>11

\* The locks of the FIB never make its goroutines all wait for each other: while
\* a command, a default route or a cleaning is under way, one of AddOrUpdate,
\* RemoveNextHop, EraseByFIBEntry, NextHopCleaner and delLogicFace has the lock
\* that its next step needs, or the forwarder is about to give one back.
THEOREM WorkAlwaysGoesOn == Spec => []WorkGoesOn
<1>1. Init => AwaitInv
  BY InitAwait
<1>2. IInv /\ AwaitInv /\ [Next]_vars => AwaitInv'
  BY AwaitStep
<1>3. Spec => []AwaitInv
  BY <1>1, <1>2, Invariance, PTL DEF Spec
<1>4. IInv /\ AwaitInv => WorkGoesOn
  BY LocksAreOrdered DEF WorkGoesOn
<1>. QED  BY <1>3, <1>4, Invariance, PTL

-----------------------------------------------------------------------------
(* The FIB is kept in the tree that LpmTree is about *)

Fib == INSTANCE LpmSpec WITH Keys <- Named, stored <- DOMAIN tree, branched <- branched

LEMMA EraseRemoves ==
  ASSUME TypesInv, NEW e \in DOMAIN entry, Erase(e)
  PROVE  Fib!Next
<1>1. entry[e].identifier \in Named
  BY DEF TypesInv, IsMap, EntryType
<1>2. DOMAIN tree' = DOMAIN tree \ {entry[e].identifier} /\ UNCHANGED branched
  BY DEF Erase, Drop
<1>. QED  BY <1>1, <1>2 DEF Fib!Next, Fib!Remove

LEMMA WriteAdds ==
  ASSUME JobsInv, NEW t \in Writers, Write(t)
  PROVE  Fib!Next \/ UNCHANGED Fib!vars
<1>1. PICK j \in job[t] :
        \/ UNCHANGED <<tree, branched>>
        \/ /\ \E e : tree' = Put(tree, j.name, e)
           /\ branched' = BranchesOf(branched, j.name)
  BY DEF Write
<1>2. j.name \in Named
  BY DEF JobsInv, JobType
<1>3. CASE UNCHANGED <<tree, branched>>
  BY <1>3 DEF Fib!vars
<1>4. CASE ~UNCHANGED <<tree, branched>>
  <2>1. DOMAIN tree' = DOMAIN tree \cup {j.name} /\ branched' = BranchesOf(branched, j.name)
    BY <1>1, <1>4 DEF Put
  <2>2. Fib!BranchesOf(branched, j.name) = BranchesOf(branched, j.name)
    BY DEF Fib!BranchesOf, BranchesOf, Fib!ProperPrefixes, ProperPrefixes,
           Fib!Prefixes, Prefixes
  <2>. QED  BY <1>2, <2>1, <2>2 DEF Fib!Next, Fib!Add
<1>. QED  BY <1>3, <1>4

\* The FIB starts with the prefix of management alone, and whatever commands, cleaners
\* and readers do, each critical section adds or deletes at most one name, as LpmSpec
\* has it: the names and branches that the look-ups see are those of a tree that LpmTree
\* reaches, for which LpmTreeProofs shows what the look-ups answer.
THEOREM FIBChangesAsItsTree ==
  Spec => /\ DOMAIN tree = {TopPrefix} /\ branched = BranchesOf({}, TopPrefix)
          /\ [][Fib!Next]_(Fib!vars)
<1>1. Init => DOMAIN tree = {TopPrefix} /\ branched = BranchesOf({}, TopPrefix)
  BY DEF Init, Put, EmptyMap, BranchesOf
<1>2. IInv /\ [Next]_vars => [Fib!Next]_(Fib!vars)
  <2>. SUFFICES ASSUME IInv, [Next]_vars PROVE Fib!Next \/ UNCHANGED Fib!vars
    OBVIOUS
  <2>. TypesInv /\ JobsInv /\ PointersInv /\ CleaningInv
    BY DEF IInv
  <2>1. CASE UNCHANGED <<tree, branched>>
    BY <2>1 DEF Fib!vars
  <2>2. ASSUME NEW t \in Writers, Write(t)
        PROVE  Fib!Next \/ UNCHANGED Fib!vars
    BY <2>2, WriteAdds
  <2>3. CASE EraseEmpty
    <3>1. PICK j \in job["dispatcher"] : \E e \in j.target : Erase(e)
      BY <2>3 DEF EraseEmpty
    <3>2. PICK e \in j.target : Erase(e)
      BY <3>1
    <3>3. e \in DOMAIN entry
      BY <3>1, <3>2 DEF PointersInv, Writers
    <3>. QED  BY <3>2, <3>3, EraseRemoves
  <2>4. ASSUME NEW f \in Faces, EraseVisited(f)
        PROVE  Fib!Next
    <3>1. PICK e \in cleaning[f].held : Erase(e)
      BY <2>4 DEF EraseVisited
    <3>2. e \in DOMAIN entry
      BY <3>1 DEF PointersInv
    <3>. QED  BY <3>1, <3>2, EraseRemoves
  <2>5. ASSUME NEW t \in Writers, Continue(t), ~Write(t), ~EraseEmpty
        PROVE  UNCHANGED <<tree, branched>>
    BY <2>5 DEF Continue, Lock, WriteRaces, FindToAdd, FindToRemove, Unhop, Test, EndDelete,
                fibState
  <2>6. ASSUME NEW f \in Faces, Clean(f), ~EraseVisited(f)
        PROVE  UNCHANGED <<tree, branched>>
    BY <2>6 DEF Clean, List, Visit, Finish, fibState
  <2>7. ASSUME NEW f \in Faces, FaceGoesDown(f) \/ BeginDelete(f) \/ RemoveByLogicFaceId(f)
        PROVE  UNCHANGED <<tree, branched>>
    BY <2>7 DEF FaceGoesDown, BeginDelete, RemoveByLogicFaceId, fibState
  <2>8. ASSUME \/ \E p \in Names \cup {TopPrefix}, f \in Faces : BeginCommand(p, f)
               \/ \E n \in Names : LookUp(n)
               \/ BeginRead \/ EndRead
               \/ UNCHANGED vars
        PROVE  UNCHANGED <<tree, branched>>
    BY <2>8 DEF BeginCommand, LookUp, BeginRead, EndRead, fibState, vars
  <2>. QED
    BY <2>1, <2>2, <2>3, <2>4, <2>5, <2>6, <2>7, <2>8 DEF Next
<1>. QED  BY <1>1, <1>2, Invariance, PTL DEF Spec
=============================================================================
