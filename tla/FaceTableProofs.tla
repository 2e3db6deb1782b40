-------------------------- MODULE FaceTableProofs ---------------------------
(***************************************************************************)
(* Proofs about FaceTable, for any peers, goroutines and faces.  A face    *)
(* that is taken out of the table is down, and stays so.  Of a key that no *)
(* two goroutines raced for, the face that is up is mapped, or in the hand *)
(* of the one goroutine that is about to map it.  A face is removed once by *)
(* a command and once by the cleaner, and twice at most: the size is as     *)
(* many short of the faces listed as faces have been removed twice.        *)
(***************************************************************************)
EXTENDS FaceTable, FiniteSetTheorems, TLAPS

\* Keys that faces are looked up with, and those of the listeners' own faces.
PeerKey(k) == (k.kind = "ether" /\ k.to \in Macs) \/ k.kind = "udp"
OwnKey(k) == k.kind = "ether" /\ k.to = Multicast

HasKey == {"found", "new", "create", "store", "map"}
HasFace == {"found", "store", "map", "persist", "remove"}

\* What a goroutine of a kind has in hand.
JobInv(p) ==
  /\ job[p].at \in HasKey =>
       /\ PeerKey(job[p].key)
       /\ p \in Routines => job[p].key.kind = "ether"
       /\ p \in Workers => job[p].key.kind = "udp"
  /\ job[p].at \in HasFace => job[p].face \in DOMAIN faces
  /\ job[p].at \in {"store", "map"} => faces[job[p].face].key = job[p].key
  /\ job[p].at = "remove" => ~Up(job[p].face)

FaceInv(f) ==
  /\ Up(f) => f \in listed
  /\ PeerKey(faces[f].key) \/ faces[f].key = Stream
       \/ (OwnKey(faces[f].key) /\ faces[f].key.on \in 1..started)

TableInv ==
  /\ DOMAIN job = Procs
  /\ started \in Nat
  /\ listed \subseteq DOMAIN faces
  /\ \A p \in Procs : JobInv(p)
  /\ \A f \in DOMAIN faces : FaceInv(f)
  /\ \A k \in DOMAIN mapped : mapped[k] \in DOMAIN faces /\ faces[mapped[k]].key = k
  /\ \A c \in clean : c.face \in DOMAIN faces /\ ~Up(c.face)
  /\ \A f, g \in DOMAIN faces :
       OwnKey(faces[f].key) /\ faces[f].key = faces[g].key => f = g

\* p is about to make or to map a face for k, of which nobody else knows.
Makes(p, k) ==
  /\ job[p].at \in {"create", "store"} \/ (job[p].at = "map" /\ k.kind = "ether")
  /\ job[p].key = k

Live(f, k) == Up(f) /\ faces[f].key = k

\* Of a key for which nobody raced.
KeyInv(k) ==
  /\ \A p, q \in Procs : Makes(p, k) /\ Makes(q, k) => p = q
  /\ \A f \in DOMAIN faces : Live(f, k) =>
       \/ k \in DOMAIN mapped /\ mapped[k] = f
       \/ \E p \in Procs : Makes(p, k) /\ job[p].at # "create" /\ job[p].face = f
  /\ \A p \in Procs : Makes(p, k) =>
       /\ \A f \in DOMAIN faces : Live(f, k) => job[p].at # "create" /\ f = job[p].face
       /\ k.kind = "udp" => k \notin DOMAIN mapped
  /\ \A p \in Procs : job[p].at = "map" /\ job[p].key = k /\ k.kind = "udp" =>
       k \in DOMAIN mapped /\ mapped[k] = job[p].face

PeerInv == \A k : PeerKey(k) /\ k \notin raced => KeyInv(k)

IInv == TableInv /\ PeerInv

LEMMA Kinds ==
  /\ Routines \subseteq Procs /\ Workers \subseteq Procs /\ Managers \subseteq Procs
  /\ \A p \in Routines : p \notin Workers
  /\ \A p \in Managers : p \notin Workers /\ p \notin Routines
BY DEF Routines, Workers, Managers, Procs

LEMMA Went ==
  ASSUME DOMAIN job = Procs, NEW p \in Procs, NEW j, Goes(p, j)
  PROVE  /\ DOMAIN job' = Procs
         /\ job'[p] = j
         /\ \A q \in Procs : q # p => job'[q] = job[q]
BY DEF Goes

LEMMA InitInv == Init => IInv
BY DEF Init, IInv, TableInv, PeerInv, KeyInv, JobInv, Idle, EmptyMap, Makes, HasKey, HasFace

LEMMA EndsStep == Ends => IInv'
BY DEF Ends, IInv, TableInv, PeerInv, KeyInv, JobInv, Idle, EmptyMap, Makes, HasKey, HasFace

LEMMA InvImplies == IInv => LiveFacesAreListed /\ OnePerPeer
<1>. SUFFICES ASSUME IInv PROVE LiveFacesAreListed /\ OnePerPeer
  OBVIOUS
<1>1. LiveFacesAreListed
  BY DEF IInv, TableInv, FaceInv, LiveFacesAreListed
<1>2. ASSUME NEW f \in DOMAIN faces, NEW g \in DOMAIN faces,
             Up(f), Up(g), faces[f].key = faces[g].key,
             faces[f].key.kind \in {"ether", "udp"}, faces[f].key \notin raced
      PROVE  f = g
  <2>. DEFINE k == faces[f].key
  <2>1. CASE OwnKey(k)
    BY <1>2, <2>1 DEF IInv, TableInv
  <2>2. CASE PeerKey(k)
    <3>1. KeyInv(k)
      BY <1>2, <2>2 DEF IInv, PeerInv
    <3>. QED  BY <1>2, <3>1 DEF KeyInv, Live
  <2>3. CASE k = Stream
    BY <1>2, <2>3 DEF Stream, Key
  <2>. QED  BY <2>1, <2>2, <2>3 DEF IInv, TableInv, FaceInv
<1>. QED  BY <1>1, <1>2 DEF OnePerPeer

-----------------------------------------------------------------------------
(* What steps do *)

\* Faces are not lost and do not come up again.
FacesStay ==
  \A f \in DOMAIN faces :
    f \in DOMAIN faces' /\ faces'[f].key = faces[f].key /\ (faces'[f].up => faces[f].up)

\* A face that is new is in order.
NewFacesAreFine ==
  \A f \in DOMAIN faces' \ DOMAIN faces :
    /\ FaceInv(f)'
    /\ \A g \in DOMAIN faces' :
         OwnKey(faces'[f].key) /\ faces'[f].key = faces'[g].key => f = g

\* Goroutines go on as they should, the cleaner too.
JobsAreFine ==
  /\ DOMAIN job' = Procs
  /\ \A p \in Procs : job'[p] = job[p] \/ JobInv(p)'
  /\ \A c \in clean' : c \in clean \/ (c.face \in DOMAIN faces' /\ ~faces'[c.face].up)

\* What is mapped anew is a face for its key.
MapsAreFine ==
  \A k \in DOMAIN mapped' :
    \/ k \in DOMAIN mapped /\ mapped'[k] = mapped[k]
    \/ mapped'[k] \in DOMAIN faces' /\ faces'[mapped'[k]].key = k

ListedStay ==
  /\ \A f \in DOMAIN faces : f \in listed /\ faces'[f].up => f \in listed'
  /\ listed' \subseteq listed \cup DOMAIN faces'

LEMMA TableKept ==
  ASSUME TableInv, FacesStay, NewFacesAreFine, JobsAreFine, MapsAreFine, ListedStay,
         started' \in Nat, started <= started'
  PROVE  TableInv'
<1>1. ASSUME NEW p \in Procs
      PROVE  JobInv(p)'
  <2>1. CASE job'[p] = job[p]
    BY <2>1 DEF TableInv, JobInv, FacesStay, Up, PeerKey, HasFace
  <2>2. CASE JobInv(p)'
    BY <2>2
  <2>. QED  BY <2>1, <2>2 DEF JobsAreFine
<1>2. ASSUME NEW f \in DOMAIN faces'
      PROVE  FaceInv(f)'
  <2>1. CASE f \in DOMAIN faces
    BY <2>1 DEF TableInv, FaceInv, FacesStay, ListedStay, Up, PeerKey, OwnKey
  <2>2. CASE f \notin DOMAIN faces
    BY <2>2 DEF NewFacesAreFine
  <2>. QED  BY <2>1, <2>2
<1>3. \A c \in clean' : c.face \in DOMAIN faces' /\ ~Up(c.face)'
  BY DEF TableInv, JobsAreFine, FacesStay, Up
<1>4. \A f, g \in DOMAIN faces' :
         OwnKey(faces'[f].key) /\ faces'[f].key = faces'[g].key => f = g
  BY DEF TableInv, FacesStay, NewFacesAreFine
<1>5. \A k \in DOMAIN mapped' : mapped'[k] \in DOMAIN faces' /\ faces'[mapped'[k]].key = k
  BY DEF TableInv, MapsAreFine, FacesStay
<1>6. listed' \subseteq DOMAIN faces'
  BY DEF TableInv, FacesStay, ListedStay
<1>. QED  BY <1>1, <1>2, <1>3, <1>4, <1>5, <1>6 DEF TableInv, JobsAreFine, OwnKey

\* Mappings are deleted at most, and only of Ethernet peers.
MapsShrink ==
  /\ raced \subseteq raced'
  /\ \A k \in DOMAIN mapped' : k \in DOMAIN mapped /\ mapped'[k] = mapped[k]
  /\ \A k \in DOMAIN mapped \ DOMAIN mapped' :
       k.kind = "ether" /\ (Up(mapped[k]) => k \in raced')

\* Nobody who is about to map a face is disturbed, and nobody new makes one.
MakersStay ==
  \A p \in Procs :
    \/ job'[p] = job[p]
    \/ /\ job[p].at \notin {"store", "map"}
       /\ \/ job'[p].at \notin {"create", "store", "map"}
          \/ /\ job'[p].at = "map" /\ job'[p].key.kind = "udp"
             /\ job'[p].key \in DOMAIN mapped /\ mapped[job'[p].key] = job'[p].face

NoNewPeer == \A f \in DOMAIN faces' \ DOMAIN faces : ~PeerKey(faces'[f].key)

LEMMA PeersKept ==
  ASSUME PeerInv, FacesStay, NoNewPeer, MapsShrink, MakersStay
  PROVE  PeerInv'
<1>. SUFFICES ASSUME NEW k, PeerKey(k), k \notin raced'
              PROVE  KeyInv(k)'
  BY DEF PeerInv, PeerKey
<1>1. KeyInv(k)
  BY DEF PeerInv, MapsShrink
<1>2. ASSUME NEW p \in Procs, Makes(p, k)'
      PROVE  Makes(p, k) /\ job'[p] = job[p]
  BY <1>2 DEF Makes, MakersStay
<1>3. ASSUME NEW p \in Procs, Makes(p, k), job[p].at # "create"
      PROVE  Makes(p, k)' /\ job'[p] = job[p]
  BY <1>3 DEF Makes, MakersStay
<1>4. ASSUME NEW f \in DOMAIN faces', Live(f, k)'
      PROVE  f \in DOMAIN faces /\ Live(f, k)
  BY <1>4 DEF Live, Up, FacesStay, NoNewPeer
<1>5. \A p, q \in Procs : Makes(p, k)' /\ Makes(q, k)' => p = q
  BY <1>1, <1>2 DEF KeyInv
<1>6. ASSUME NEW f \in DOMAIN faces', Live(f, k)'
      PROVE  \/ k \in DOMAIN mapped' /\ mapped'[k] = f
             \/ \E p \in Procs : Makes(p, k)' /\ job'[p].at # "create" /\ job'[p].face = f
  <2>1. CASE k \in DOMAIN mapped /\ mapped[k] = f
    BY <1>4, <1>6, <2>1 DEF MapsShrink, Live
  <2>2. CASE \E p \in Procs : Makes(p, k) /\ job[p].at # "create" /\ job[p].face = f
    BY <1>3, <2>2
  <2>. QED  BY <1>1, <1>4, <1>6, <2>1, <2>2 DEF KeyInv
<1>7. ASSUME NEW p \in Procs, Makes(p, k)'
      PROVE  /\ \A f \in DOMAIN faces' :
                  Live(f, k)' => job'[p].at # "create" /\ f = job'[p].face
             /\ k.kind = "udp" => k \notin DOMAIN mapped'
  BY <1>1, <1>2, <1>4, <1>7 DEF KeyInv, MapsShrink
<1>8. ASSUME NEW p \in Procs, job'[p].at = "map", job'[p].key = k, k.kind = "udp"
      PROVE  k \in DOMAIN mapped' /\ mapped'[k] = job'[p].face
  <2>1. k \in DOMAIN mapped => k \in DOMAIN mapped' /\ mapped'[k] = mapped[k]
    BY <1>8 DEF MapsShrink
  <2>2. k \in DOMAIN mapped /\ mapped[k] = job'[p].face
    BY <1>1, <1>8 DEF MakersStay, KeyInv
  <2>. QED  BY <2>1, <2>2
<1>. QED  BY <1>5, <1>6, <1>7, <1>8 DEF KeyInv

-----------------------------------------------------------------------------
(* Steps of a kind *)

LEMMA SameFaces ==
  ASSUME UNCHANGED <<faces, listed>>
  PROVE  FacesStay /\ NewFacesAreFine /\ NoNewPeer /\ ListedStay
BY DEF FacesStay, NewFacesAreFine, NoNewPeer, ListedStay

LEMMA SameMaps ==
  ASSUME UNCHANGED <<mapped, raced>>
  PROVE  MapsShrink /\ MapsAreFine
BY DEF MapsShrink, MapsAreFine

LEMMA OneGoes ==
  ASSUME DOMAIN job = Procs, NEW p \in Procs, NEW j, Goes(p, j), JobInv(p)', clean' \subseteq clean
  PROVE  JobsAreFine
BY Went DEF JobsAreFine

\* A goroutine goes somewhere where it makes no face, or maps what is mapped.
LEMMA QuietStep ==
  ASSUME IInv, NEW p \in Procs, NEW j, Goes(p, j), JobInv(p)',
         job[p].at \notin {"store", "map"},
         \/ j.at \notin {"create", "store", "map"}
         \/ /\ j.at = "map" /\ j.key.kind = "udp"
            /\ j.key \in DOMAIN mapped /\ mapped[j.key] = j.face,
         FacesStay, NewFacesAreFine, NoNewPeer, ListedStay,
         MapsShrink, UNCHANGED started, clean' \subseteq clean
  PROVE  IInv'
<1>1. JobsAreFine
  BY OneGoes DEF IInv, TableInv
<1>2. MakersStay
  BY Went DEF IInv, TableInv, MakersStay
<1>3. MapsAreFine
  BY DEF MapsShrink, MapsAreFine
<1>. QED  BY <1>1, <1>2, <1>3, TableKept, PeersKept DEF IInv, TableInv

\* Goroutines stay where they are.
LEMMA StillStep ==
  ASSUME IInv, UNCHANGED job,
         FacesStay, NewFacesAreFine, NoNewPeer, ListedStay, MapsShrink,
         started' \in Nat, started <= started',
         \A c \in clean' : c \in clean \/ (c.face \in DOMAIN faces' /\ ~faces'[c.face].up)
  PROVE  IInv'
<1>1. JobsAreFine
  BY DEF IInv, TableInv, JobsAreFine
<1>2. MakersStay
  BY DEF MakersStay
<1>3. MapsAreFine
  BY DEF MapsShrink, MapsAreFine
<1>. QED  BY <1>1, <1>2, <1>3, TableKept, PeersKept DEF IInv, TableInv

\* A look-up of a key that is not mapped.
LEMMA LooksInVain ==
  ASSUME IInv, NEW p \in Procs, NEW k, NEW keep, PeerKey(k), k \notin DOMAIN mapped,
         job[p].at \in {"idle", "new"},
         Goes(p, [at |-> "create", key |-> k, keep |-> keep]),
         raced' = IF Making(k) THEN raced \cup {k} ELSE raced,
         p \in Routines => k.kind = "ether",
         p \in Workers => k.kind = "udp",
         UNCHANGED <<tableVars, mapped, cardVars, clean>>
  PROVE  IInv'
<1>1. DOMAIN job' = Procs /\ job'[p] = [at |-> "create", key |-> k, keep |-> keep]
        /\ \A q \in Procs : q # p => job'[q] = job[q]
  BY Went DEF IInv, TableInv
<1>2. TableInv'
  <2>1. JobInv(p)'
    BY <1>1 DEF JobInv, HasKey, HasFace, PeerKey
  <2>2. JobsAreFine
    BY <2>1, OneGoes DEF IInv, TableInv
  <2>. QED
    BY <2>2, SameFaces, TableKept DEF IInv, TableInv, tableVars, cardVars, MapsAreFine
<1>3. ASSUME NEW x, PeerKey(x), x \notin raced'
      PROVE  KeyInv(x)'
  <2>1. KeyInv(x)
    BY <1>3 DEF IInv, PeerInv
  <2>2. CASE x # k
    <3>1. \A q \in Procs : Makes(q, x)' <=> Makes(q, x) /\ q # p
      BY <1>1, <2>2 DEF Makes
    <3>2. \A q \in Procs : Makes(q, x) => q # p
      BY DEF Makes
    <3>. QED
      BY <1>1, <2>1, <2>2, <3>1, <3>2 DEF KeyInv, Live, Up, tableVars
  <2>3. CASE x = k
    <3>1. \A q \in Procs : ~(job[q].at \in {"create", "store", "map"} /\ job[q].key = k)
      BY <1>3, <2>3 DEF Making
    <3>2. \A q \in Procs : ~Makes(q, k)
      BY <3>1 DEF Makes
    <3>3. \A f \in DOMAIN faces : ~Live(f, k)
      BY <2>1, <2>3, <3>2 DEF KeyInv
    <3>4. \A q \in Procs : Makes(q, k)' => q = p
      BY <1>1, <3>2 DEF Makes
    <3>. QED
      BY <1>1, <2>1, <2>3, <3>1, <3>3, <3>4 DEF KeyInv, Live, Up, tableVars
  <2>. QED  BY <2>2, <2>3
<1>. QED  BY <1>2, <1>3 DEF IInv, PeerInv, PeerKey

\* A face that is new, and nothing else of the tables and maps.
LEMMA Added ==
  ASSUME NEW f \in NewIds, NEW k, NEW keep, AddLogicFace(f, k, keep)
  PROVE  /\ f \notin DOMAIN faces /\ DOMAIN faces' = DOMAIN faces \cup {f}
         /\ faces'[f].key = k /\ faces'[f].up
         /\ \A g \in DOMAIN faces : faces'[g] = faces[g]
         /\ listed' = listed \cup {f}
BY DEF AddLogicFace, NewIds, Put, NewFace

LEMMA CreateFaceStep ==
  ASSUME IInv, NEW p \in Procs, NEW then, CreateFace(p, then),
         then = "store" \/ (then = "map" /\ p \in Routines)
  PROVE  IInv'
<1>. DEFINE k == job[p].key
<1>1. PICK f \in NewIds :
        /\ AddLogicFace(f, k, k.kind = "ether")
        /\ Goes(p, [at |-> then, key |-> k, face |-> f, keep |-> job[p].keep])
  BY DEF CreateFace
<1>2. /\ f \notin DOMAIN faces /\ DOMAIN faces' = DOMAIN faces \cup {f}
      /\ faces'[f].key = k /\ faces'[f].up
      /\ \A g \in DOMAIN faces : faces'[g] = faces[g]
      /\ listed' = listed \cup {f}
  BY <1>1, Added
<1>3. /\ DOMAIN job' = Procs
      /\ job'[p] = [at |-> then, key |-> k, face |-> f, keep |-> job[p].keep]
      /\ \A q \in Procs : q # p => job'[q] = job[q]
  BY <1>1, Went DEF IInv, TableInv
<1>4. PeerKey(k) /\ job[p].at = "create" /\ (p \in Routines => k.kind = "ether")
        /\ (p \in Workers => k.kind = "udp")
  BY DEF CreateFace, At, IInv, TableInv, JobInv, HasKey
<1>5. UNCHANGED <<mapped, cardVars, clean, raced>>
  BY DEF CreateFace
<1>6. TableInv'
  <2>1. JobInv(p)'
    BY <1>2, <1>3, <1>4 DEF JobInv, HasKey, HasFace, PeerKey
  <2>2. JobsAreFine
    BY <1>1, <1>5, <2>1, OneGoes DEF IInv, TableInv
  <2>3. FacesStay /\ ListedStay
    BY <1>2 DEF FacesStay, ListedStay
  <2>4. ~OwnKey(k)
    BY <1>4, MulticastAssumption DEF PeerKey, OwnKey
  <2>5. NewFacesAreFine
    BY <1>2, <1>4, <2>4 DEF NewFacesAreFine, FaceInv, Up, PeerKey, OwnKey
  <2>. QED
    BY <1>5, <2>2, <2>3, <2>5, SameMaps, TableKept DEF IInv, TableInv, cardVars
<1>7. ASSUME NEW x, PeerKey(x), x \notin raced'
      PROVE  KeyInv(x)'
  <2>1. KeyInv(x)
    BY <1>5, <1>7 DEF IInv, PeerInv
  <2>2. \A q \in Procs : Makes(q, x)' <=> Makes(q, x)
    BY <1>3, <1>4 DEF Makes
  <2>3. \A g \in DOMAIN faces : Live(g, x)' <=> Live(g, x)
    BY <1>2 DEF Live, Up
  <2>4. CASE x # k
    <3>1. ~Live(f, x)'
      BY <1>2, <2>4 DEF Live
    <3>2. \A q \in Procs : Makes(q, x) => q # p
      BY <2>4 DEF Makes
    <3>. QED
      BY <1>2, <1>3, <1>5, <2>1, <2>2, <2>3, <2>4, <3>1, <3>2 DEF KeyInv
  <2>5. CASE x = k
    <3>1. Makes(p, x)
      BY <1>4, <2>5 DEF Makes
    <3>2. \A g \in DOMAIN faces : ~Live(g, x)
      BY <1>4, <2>1, <3>1 DEF KeyInv
    <3>3. \A q \in Procs : Makes(q, x) => q = p
      BY <2>1, <3>1 DEF KeyInv
    <3>4. \A g \in DOMAIN faces' : Live(g, x)' => g = f
      BY <1>2, <2>3, <3>2
    <3>5. x.kind = "udp" => x \notin DOMAIN mapped
      BY <2>1, <3>1 DEF KeyInv
    <3>6. then = "map" => x.kind # "udp"
      BY <1>4, <2>5, Kinds
    <3>7. job'[p].at # "create" /\ job'[p].face = f
      BY <1>3
    <3>8. \A q \in Procs : job'[q].at = "map" /\ job'[q].key = x /\ x.kind = "udp" =>
             x \in DOMAIN mapped /\ mapped[x] = job'[q].face
      BY <1>3, <2>1, <3>6 DEF KeyInv
    <3>. QED
      BY <1>2, <1>5, <2>2, <3>1, <3>3, <3>4, <3>5, <3>7, <3>8 DEF KeyInv
  <2>. QED  BY <2>4, <2>5
<1>. QED  BY <1>6, <1>7 DEF IInv, PeerInv, PeerKey

\* The face is mapped by the one who made it; nobody else has one that is up.
LEMMA StoreStep ==
  ASSUME IInv, NEW p \in Procs, NEW j,
         job[p].at = "store" \/ (job[p].at = "map" /\ p \in Routines),
         StoreLogicFace(job[p].key, job[p].face), Goes(p, j), JobInv(p)',
         \/ j.at \notin {"create", "store", "map"}
         \/ j.at = "map" /\ j.key = job[p].key /\ j.face = job[p].face /\ j.key.kind = "udp",
         UNCHANGED <<tableVars, cardVars, clean, raced>>
  PROVE  IInv'
<1>. DEFINE k == job[p].key
            f == job[p].face
<1>1. DOMAIN job' = Procs /\ job'[p] = j /\ \A q \in Procs : q # p => job'[q] = job[q]
  BY Went DEF IInv, TableInv
<1>2. DOMAIN mapped' = DOMAIN mapped \cup {k} /\ mapped'[k] = f
        /\ \A x \in DOMAIN mapped : x # k => mapped'[x] = mapped[x]
  BY DEF StoreLogicFace, Put
<1>3. f \in DOMAIN faces /\ faces[f].key = k /\ PeerKey(k) /\ (p \in Routines => k.kind = "ether")
  BY DEF IInv, TableInv, JobInv, HasKey, HasFace
<1>4. TableInv'
  <2>1. JobsAreFine
    BY OneGoes DEF IInv, TableInv
  <2>2. MapsAreFine
    BY <1>2, <1>3 DEF MapsAreFine, tableVars
  <2>. QED
    BY <2>1, <2>2, SameFaces, TableKept DEF IInv, TableInv, tableVars, cardVars
<1>5. ASSUME NEW x, PeerKey(x), x \notin raced'
      PROVE  KeyInv(x)'
  <2>1. KeyInv(x)
    BY <1>5 DEF IInv, PeerInv
  <2>2. CASE x # k
    <3>1. \A q \in Procs : Makes(q, x)' <=> Makes(q, x)
      BY <1>1, <2>2 DEF Makes
    <3>2. \A q \in Procs : Makes(q, x) => job'[q] = job[q]
      BY <1>1, <2>2 DEF Makes
    <3>3. \A q \in Procs : job'[q].at = "map" /\ job'[q].key = x => job'[q] = job[q]
      BY <1>1, <2>2
    <3>4. (x \in DOMAIN mapped' <=> x \in DOMAIN mapped)
            /\ (x \in DOMAIN mapped => mapped'[x] = mapped[x])
      BY <1>2, <2>2
    <3>. QED
      BY <2>1, <3>1, <3>2, <3>3, <3>4 DEF KeyInv, Live, Up, tableVars
  <2>3. CASE x = k
    <3>1. Makes(p, x)
      BY <1>3, <2>3, Kinds DEF Makes
    <3>2. \A g \in DOMAIN faces : Live(g, x) => g = f
      BY <2>1, <3>1 DEF KeyInv
    <3>3. \A q \in Procs : ~Makes(q, x)'
      <4>1. \A q \in Procs : Makes(q, x) => q = p
        BY <2>1, <3>1 DEF KeyInv
      <4>. QED  BY <1>1, <2>3, <4>1 DEF Makes
    <3>4. \A q \in Procs : job'[q].at = "map" /\ job'[q].key = x /\ x.kind = "udp" =>
             job'[q].face = f
      <4>1. x.kind = "udp" => x \notin DOMAIN mapped
        BY <2>1, <3>1 DEF KeyInv
      <4>. QED  BY <1>1, <2>1, <4>1 DEF KeyInv
    <3>. QED
      BY <1>2, <2>3, <3>2, <3>3, <3>4 DEF KeyInv, Live, Up, tableVars
  <2>. QED  BY <2>2, <2>3
<1>. QED  BY <1>4, <1>5 DEF IInv, PeerInv, PeerKey

-----------------------------------------------------------------------------
(* Parts of steps *)

LEMMA AtRest ==
  ASSUME NEW p, job'[p].at \in {"idle", "ended"}
  PROVE  JobInv(p)'
BY DEF JobInv, HasKey, HasFace

LEMMA Shuts ==
  ASSUME NEW fs, faces' = Shut(fs), UNCHANGED listed
  PROVE  /\ FacesStay /\ NewFacesAreFine /\ NoNewPeer /\ ListedStay
         /\ \A f \in fs : f \in DOMAIN faces => f \in DOMAIN faces' /\ ~faces'[f].up
<1>1. DOMAIN faces' = DOMAIN faces
  BY DEF Shut
<1>2. \A f \in DOMAIN faces :
        faces'[f] = IF f \in fs THEN [key |-> faces[f].key, up |-> FALSE, keep |-> FALSE]
                    ELSE faces[f]
  BY DEF Shut
<1>. QED  BY <1>1, <1>2 DEF FacesStay, NewFacesAreFine, NoNewPeer, ListedStay

LEMMA Unmaps ==
  ASSUME NEW ls, NEW to, Unmap(ls, to)
  PROVE  MapsShrink
BY DEF Unmap, Drop, Key, MapsShrink

LEMMA Removes ==
  ASSUME NEW f, ~Up(f), RemoveByLogicFaceId(f)
  PROVE  FacesStay /\ NewFacesAreFine /\ NoNewPeer /\ ListedStay
BY DEF RemoveByLogicFaceId, Up, FacesStay, NewFacesAreFine, NoNewPeer, ListedStay

\* A face of a connection, or a listener's own.
LEMMA AddsOther ==
  ASSUME IInv, NEW f \in NewIds, NEW k, NEW keep, AddLogicFace(f, k, keep),
         k = Stream \/ (k = Key("ether", started + 1, Multicast) /\ started' = started + 1)
  PROVE  FacesStay /\ NewFacesAreFine /\ NoNewPeer /\ ListedStay
<1>1. /\ f \notin DOMAIN faces /\ DOMAIN faces' = DOMAIN faces \cup {f}
      /\ faces'[f].key = k /\ faces'[f].up
      /\ \A g \in DOMAIN faces : faces'[g] = faces[g]
      /\ listed' = listed \cup {f}
  BY Added
<1>2. ~PeerKey(k)
  BY MulticastAssumption DEF Stream, Key, PeerKey
<1>3. k = Stream \/ (OwnKey(k) /\ k.on \in 1..started')
  BY DEF IInv, TableInv, OwnKey, Key
<1>4. ASSUME NEW g \in DOMAIN faces, OwnKey(k), faces[g].key = k
      PROVE  FALSE
  <2>1. k.on = started + 1 /\ k # Stream
    BY <1>4 DEF OwnKey, Key, Stream
  <2>2. FaceInv(g) /\ started \in Nat
    BY DEF IInv, TableInv
  <2>3. k.on \in 1..started
    BY <1>2, <1>4, <2>1, <2>2 DEF FaceInv
  <2>. QED  BY <2>1, <2>2, <2>3
<1>5. FaceInv(f)'
  BY <1>1, <1>3 DEF FaceInv, Up, OwnKey
<1>6. NewFacesAreFine
  BY <1>1, <1>4, <1>5 DEF NewFacesAreFine, OwnKey
<1>. QED  BY <1>1, <1>2, <1>6 DEF FacesStay, NoNewPeer, ListedStay

LEMMA LookUpStep ==
  ASSUME IInv, NEW p \in Procs, NEW k, NEW keep, NEW then, LookUp(p, k, keep, then),
         PeerKey(k), job[p].at \in {"idle", "new"},
         p \in Routines => k.kind = "ether",
         p \in Workers => k.kind = "udp",
         then \in {"found", "persist"} \/ (then = "map" /\ k.kind = "udp")
  PROVE  IInv'
<1>1. CASE k \notin DOMAIN mapped
  <2>1. /\ Goes(p, [at |-> "create", key |-> k, keep |-> keep])
        /\ raced' = IF Making(k) THEN raced \cup {k} ELSE raced
        /\ UNCHANGED <<tableVars, mapped, cardVars, clean>>
    BY <1>1 DEF LookUp
  <2>. QED  BY <1>1, <2>1, LooksInVain
<1>2. CASE k \in DOMAIN mapped
  <2>. DEFINE j == [at |-> then, key |-> k, face |-> mapped[k], keep |-> keep]
  <2>1. Goes(p, j) /\ UNCHANGED <<tableVars, mapped, cardVars, clean, raced>>
    BY <1>2 DEF LookUp
  <2>2. mapped[k] \in DOMAIN faces /\ faces[mapped[k]].key = k
    BY <1>2 DEF IInv, TableInv
  <2>3. job'[p] = j
    BY <2>1, Went DEF IInv, TableInv
  <2>4. JobInv(p)'
    BY <2>1, <2>2, <2>3 DEF JobInv, HasKey, HasFace, PeerKey, tableVars
  <2>5. MapsShrink /\ FacesStay /\ NewFacesAreFine /\ NoNewPeer /\ ListedStay
    BY <2>1, SameMaps, SameFaces DEF tableVars
  <2>6. /\ job[p].at \notin {"store", "map"}
        /\ \/ j.at \notin {"create", "store", "map"}
           \/ /\ j.at = "map" /\ j.key.kind = "udp"
              /\ j.key \in DOMAIN mapped /\ mapped[j.key] = j.face
    BY <1>2
  <2>7. UNCHANGED <<started, clean>>
    BY <2>1 DEF cardVars
  <2>. HIDE DEF j
  <2>. QED  BY <2>1, <2>4, <2>5, <2>6, <2>7, QuietStep
<1>. QED  BY <1>1, <1>2

\* A UDP worker maps what is mapped already, unless somebody raced.
LEMMA WorkerMaps ==
  ASSUME IInv, NEW p \in Workers, MapsFace(p)
  PROVE  IInv'
<1>. DEFINE k == job[p].key
            f == job[p].face
<1>1. /\ p \in Procs /\ job[p].at = "map"
      /\ k.kind = "udp" /\ f \in DOMAIN faces /\ faces[f].key = k
  BY Kinds DEF MapsFace, At, IInv, TableInv, JobInv, HasKey, HasFace
<1>2. DOMAIN job' = Procs /\ job'[p] = Idle /\ \A q \in Procs : q # p => job'[q] = job[q]
  BY <1>1, Went DEF MapsFace, IInv, TableInv
<1>3. /\ DOMAIN mapped' = DOMAIN mapped \cup {k} /\ mapped'[k] = f
      /\ \A x \in DOMAIN mapped : x # k => mapped'[x] = mapped[x]
  BY DEF MapsFace, StoreLogicFace, Put
<1>4. UNCHANGED <<tableVars, cardVars, clean, raced>>
  BY DEF MapsFace
<1>5. TableInv'
  <2>1. JobsAreFine
    BY <1>1, <1>2, <1>4, AtRest DEF JobsAreFine, Idle
  <2>2. MapsAreFine
    BY <1>1, <1>3, <1>4 DEF MapsAreFine, tableVars
  <2>. QED
    BY <1>4, <2>1, <2>2, SameFaces, TableKept DEF IInv, TableInv, tableVars, cardVars
<1>6. ASSUME NEW x, PeerKey(x), x \notin raced'
      PROVE  KeyInv(x)'
  <2>1. KeyInv(x)
    BY <1>4, <1>6 DEF IInv, PeerInv
  <2>2. (x \in DOMAIN mapped' <=> x \in DOMAIN mapped)
          /\ (x \in DOMAIN mapped => mapped'[x] = mapped[x])
    BY <1>1, <1>3, <2>1 DEF KeyInv
  <2>3. \A q \in Procs : Makes(q, x)' <=> Makes(q, x)
    BY <1>1, <1>2 DEF Makes, Idle
  <2>4. \A q \in Procs : Makes(q, x) => job'[q] = job[q]
    BY <1>1, <1>2 DEF Makes
  <2>5. \A q \in Procs : job'[q].at = "map" => job'[q] = job[q]
    BY <1>2 DEF Idle
  <2>. QED
    BY <1>4, <2>1, <2>2, <2>3, <2>4, <2>5 DEF KeyInv, Live, Up, tableVars
<1>. QED  BY <1>5, <1>6 DEF IInv, PeerInv, PeerKey

-----------------------------------------------------------------------------
(* The goroutines *)

\* It comes to rest, and the maps lose a mapping at most.
LEMMA RestStep ==
  ASSUME IInv, NEW p \in Procs, Goes(p, Idle) \/ Goes(p, [at |-> "ended"]),
         job[p].at \notin {"store", "map"},
         FacesStay, NewFacesAreFine, NoNewPeer, ListedStay,
         MapsShrink, UNCHANGED started, clean' \subseteq clean
  PROVE  IInv'
<1>1. ASSUME NEW j, j.at \in {"idle", "ended"}, Goes(p, j)
      PROVE  IInv'
  <2>1. JobInv(p)'
    BY <1>1, Went, AtRest DEF IInv, TableInv
  <2>. QED  BY <1>1, <2>1, QuietStep
<1>. QED  BY <1>1 DEF Idle

LEMMA ReceiveStep ==
  ASSUME IInv, NEW p \in Routines, NEW m \in Macs, Receive(p, m)
  PROVE  IInv'
<1>1. p \in Procs /\ p \notin Workers
  BY Kinds
<1>2. LookUp(p, Key("ether", p.n, m), TRUE, "found") /\ job[p].at = "idle"
  BY DEF Receive, Begins, At
<1>3. PeerKey(Key("ether", p.n, m)) /\ Key("ether", p.n, m).kind = "ether"
  BY DEF PeerKey, Key
<1>. QED  BY <1>1, <1>2, <1>3, LookUpStep

LEMMA OnReceiveStep ==
  ASSUME IInv, NEW p \in Procs, OnReceive(p)
  PROVE  IInv'
<1>1. MapsShrink
  BY Unmaps, SameMaps DEF OnReceive
<1>. QED  BY <1>1, RestStep, SameFaces DEF OnReceive, At, tableVars, cardVars

LEMMA RoutineMaps ==
  ASSUME IInv, NEW p \in Routines, MapsFace(p)
  PROVE  IInv'
<1>1. p \in Procs
  BY Kinds
<1>2. JobInv(p)'
  BY <1>1, Went, AtRest DEF MapsFace, IInv, TableInv, Idle
<1>. QED  BY <1>1, <1>2, StoreStep DEF MapsFace, At, Idle

LEMMA RoutineStep ==
  ASSUME IInv, NEW p \in Routines, Routine(p)
  PROVE  IInv'
BY Kinds, ReceiveStep, OnReceiveStep, CreateFaceStep, RoutineMaps, EndsStep
   DEF Routine, CreateFails

LEMMA ReceiveUdpStep ==
  ASSUME IInv, NEW p \in Workers, NEW a \in Addrs, ReceiveUdp(p, a)
  PROVE  IInv'
<1>. DEFINE k == Key("udp", 0, a)
            j == IF k \in DOMAIN mapped
                 THEN [at |-> "found", key |-> k, face |-> mapped[k], keep |-> FALSE]
                 ELSE [at |-> "new", key |-> k]
<1>1. p \in Procs /\ p \notin Routines
  BY Kinds
<1>2. PeerKey(k) /\ k.kind = "udp"
  BY DEF PeerKey, Key
<1>3. Goes(p, j) /\ job[p].at = "idle"
        /\ UNCHANGED <<tableVars, mapped, cardVars, clean, alive, raced>>
  BY DEF ReceiveUdp, Begins, At
<1>4. job'[p] = j
  BY <1>1, <1>3, Went DEF IInv, TableInv
<1>. HIDE DEF k
<1>5. JobInv(p)'
  <2>1. CASE k \in DOMAIN mapped
    <3>1. mapped[k] \in DOMAIN faces
      BY <2>1 DEF IInv, TableInv
    <3>. QED  BY <1>1, <1>2, <1>3, <1>4, <2>1, <3>1 DEF JobInv, HasKey, HasFace, PeerKey, tableVars
  <2>2. CASE k \notin DOMAIN mapped
    BY <1>1, <1>2, <1>4, <2>2 DEF JobInv, HasKey, HasFace, PeerKey
  <2>. QED  BY <2>1, <2>2
<1>6. j.at \notin {"create", "store", "map"}
  OBVIOUS
<1>. HIDE DEF j
<1>. QED
  BY <1>1, <1>3, <1>5, <1>6, QuietStep, SameFaces, SameMaps DEF tableVars, cardVars

LEMMA LookAgainStep ==
  ASSUME IInv, NEW p \in Workers, LookAgain(p)
  PROVE  IInv'
<1>1. p \in Procs /\ p \notin Routines
  BY Kinds
<1>2. job[p].at = "new" /\ LookUp(p, job[p].key, FALSE, "map")
  BY DEF LookAgain, At
<1>3. PeerKey(job[p].key) /\ job[p].key.kind = "udp"
  BY <1>1, <1>2 DEF IInv, TableInv, JobInv, HasKey
<1>. QED  BY <1>1, <1>2, <1>3, LookUpStep

LEMMA StoresFaceStep ==
  ASSUME IInv, NEW p \in Procs, NEW then, StoresFace(p, then),
         then = "persist" \/ (then = "map" /\ p \in Workers)
  PROVE  IInv'
<1>. DEFINE j == [at |-> then, key |-> job[p].key, face |-> job[p].face, keep |-> job[p].keep]
<1>1. /\ job[p].at = "store" /\ StoreLogicFace(job[p].key, job[p].face) /\ Goes(p, j)
      /\ UNCHANGED <<tableVars, cardVars, clean, raced>>
  BY DEF StoresFace, At
<1>2. /\ PeerKey(job[p].key) /\ (p \in Routines => job[p].key.kind = "ether")
      /\ (p \in Workers => job[p].key.kind = "udp")
      /\ job[p].face \in DOMAIN faces /\ faces[job[p].face].key = job[p].key
  BY <1>1 DEF IInv, TableInv, JobInv, HasKey, HasFace
<1>3. job'[p] = j
  BY <1>1, Went DEF IInv, TableInv
<1>4. JobInv(p)'
  BY <1>1, <1>2, <1>3 DEF JobInv, HasKey, HasFace, PeerKey, tableVars
<1>5. \/ j.at \notin {"create", "store", "map"}
      \/ j.at = "map" /\ j.key = job[p].key /\ j.face = job[p].face /\ j.key.kind = "udp"
  BY <1>2
<1>. HIDE DEF j
<1>. QED  BY <1>1, <1>4, <1>5, StoreStep

LEMMA NoSocketStep ==
  ASSUME IInv, NEW p \in Procs, NoSocket(p)
  PROVE  IInv'
BY RestStep, SameFaces, SameMaps DEF NoSocket, At, tableVars, cardVars

LEMMA WorkerStep ==
  ASSUME IInv, NEW p \in Workers, Worker(p)
  PROVE  IInv'
<1>0. p \in Procs
  BY Kinds
<1>1. CASE ParseError(p)
  BY <1>0, <1>1, RestStep, SameFaces, SameMaps DEF ParseError, At, tableVars, cardVars
<1>2. CASE OnReceiveUdp(p)
  BY <1>0, <1>2, EndsStep, RestStep, SameFaces, SameMaps
     DEF OnReceiveUdp, At, tableVars, cardVars
<1>. QED
  BY <1>0, <1>1, <1>2, ReceiveUdpStep, LookAgainStep, CreateFaceStep, NoSocketStep,
     StoresFaceStep, WorkerMaps DEF Worker

LEMMA LookUpsStep ==
  ASSUME IInv, NEW p \in Managers, NEW keep,
         \/ \E m \in Macs : AddEther(p, m, keep)
         \/ \E a \in Addrs : AddUdp(p, a, keep)
  PROVE  IInv'
<1>1. p \in Procs /\ p \notin Routines /\ p \notin Workers
  BY Kinds
<1>2. ASSUME NEW m \in Macs, AddEther(p, m, keep)
      PROVE  IInv'
  <2>1. PICK l \in open : LookUp(p, Key("ether", l, m), keep, "persist")
    BY <1>2 DEF AddEther
  <2>2. PeerKey(Key("ether", l, m)) /\ job[p].at = "idle"
    BY <1>2 DEF AddEther, Begins, At, PeerKey, Key
  <2>. QED  BY <1>1, <2>1, <2>2, LookUpStep
<1>3. ASSUME NEW a \in Addrs, AddUdp(p, a, keep)
      PROVE  IInv'
  <2>1. PeerKey(Key("udp", 0, a)) /\ job[p].at = "idle"
          /\ LookUp(p, Key("udp", 0, a), keep, "persist")
    BY <1>3 DEF AddUdp, Begins, At, PeerKey, Key
  <2>. QED  BY <1>1, <2>1, LookUpStep
<1>. QED  BY <1>2, <1>3

LEMMA AddStreamStep ==
  ASSUME IInv, NEW p \in Managers, NEW born, NEW keep, AddStream(p, born, keep)
  PROVE  IInv'
<1>1. p \in Procs /\ job[p].at = "idle"
  BY Kinds DEF AddStream, Begins, At
<1>2. PICK f \in NewIds :
        /\ AddLogicFace(f, Stream, born)
        /\ Goes(p, [at |-> "persist", key |-> Stream, face |-> f, keep |-> keep])
  BY DEF AddStream
<1>. DEFINE j == [at |-> "persist", key |-> Stream, face |-> f, keep |-> keep]
<1>3. f \in DOMAIN faces'
  BY <1>2, Added
<1>4. job'[p] = j
  BY <1>1, <1>2, Went DEF IInv, TableInv
<1>5. JobInv(p)'
  BY <1>3, <1>4 DEF JobInv, HasKey, HasFace
<1>6. FacesStay /\ NewFacesAreFine /\ NoNewPeer /\ ListedStay
  BY <1>2, AddsOther
<1>7. MapsShrink /\ UNCHANGED <<started, clean>>
  BY SameMaps DEF AddStream, cardVars
<1>8. j.at = "persist"
  OBVIOUS
<1>9. Goes(p, j)
  BY <1>2
<1>. HIDE DEF j
<1>. QED  BY <1>1, <1>5, <1>6, <1>7, <1>8, <1>9, QuietStep

LEMMA SetPersistenceStep ==
  ASSUME IInv, NEW p \in Procs, SetPersistence(p)
  PROVE  IInv'
<1>. DEFINE f == job[p].face
<1>1. job[p].at = "persist" /\ f \in DOMAIN faces
  BY DEF SetPersistence, At, IInv, TableInv, JobInv, HasFace
<1>2. /\ DOMAIN faces' = DOMAIN faces
      /\ faces'[f].key = faces[f].key /\ faces'[f].up = faces[f].up
      /\ \A g \in DOMAIN faces : g # f => faces'[g] = faces[g]
  BY <1>1 DEF SetPersistence, Put, Up
<1>3. FacesStay /\ NewFacesAreFine /\ NoNewPeer /\ ListedStay
  BY <1>2 DEF SetPersistence, FacesStay, NewFacesAreFine, NoNewPeer, ListedStay
<1>. QED  BY <1>1, <1>3, RestStep, SameMaps DEF SetPersistence, cardVars

LEMMA DelLogicFaceStep ==
  ASSUME IInv, NEW p \in Managers, NEW f, DelLogicFace(p, f)
  PROVE  IInv'
<1>. DEFINE j == [at |-> "remove", face |-> f]
<1>1. p \in Procs /\ job[p].at = "idle" /\ Goes(p, j)
  BY Kinds DEF DelLogicFace, Begins, At
<1>2. /\ FacesStay /\ NewFacesAreFine /\ NoNewPeer /\ ListedStay
      /\ f \in DOMAIN faces' /\ ~faces'[f].up
  BY Shuts DEF DelLogicFace, IInv, TableInv
<1>3. job'[p] = j
  BY <1>1, Went DEF IInv, TableInv
<1>4. JobInv(p)'
  BY <1>2, <1>3 DEF JobInv, HasKey, HasFace, Up
<1>5. MapsShrink /\ UNCHANGED <<started, clean>>
  BY SameMaps DEF DelLogicFace, cardVars
<1>6. j.at = "remove"
  OBVIOUS
<1>. HIDE DEF j
<1>. QED  BY <1>1, <1>2, <1>4, <1>5, <1>6, QuietStep

LEMMA EndDeleteStep ==
  ASSUME IInv, NEW p \in Procs, EndDelete(p)
  PROVE  IInv'
<1>1. job[p].at = "remove" /\ ~Up(job[p].face)
  BY DEF EndDelete, At, IInv, TableInv, JobInv
<1>2. FacesStay /\ NewFacesAreFine /\ NoNewPeer /\ ListedStay
  BY <1>1, Removes DEF EndDelete
<1>. QED  BY <1>1, <1>2, RestStep, SameMaps DEF EndDelete, cardVars

LEMMA CallerStep ==
  ASSUME IInv, NEW p \in Managers, Caller(p)
  PROVE  IInv'
<1>0. p \in Procs
  BY Kinds
<1>1. CASE DialUnixFails(p) \/ DelInnerFace(p)
  BY <1>1, EndsStep DEF DialUnixFails, DelInnerFace
<1>2. CASE CreateFace(p, "store")
  BY <1>0, <1>2, CreateFaceStep
<1>3. CASE StoresFace(p, "persist")
  BY <1>0, <1>3, StoresFaceStep
<1>4. CASE NoSocket(p) \/ SetPersistence(p) \/ EndDelete(p)
  BY <1>0, <1>4, NoSocketStep, SetPersistenceStep, EndDeleteStep
<1>5. CASE \E f \in DOMAIN faces : DelLogicFace(p, f)
  BY <1>5, DelLogicFaceStep
<1>6. CASE \E keep \in BOOLEAN :
             \/ \E m \in Macs : AddEther(p, m, keep)
             \/ \E a \in Addrs : AddUdp(p, a, keep)
             \/ AddStream(p, keep, keep) \/ AddStream(p, TRUE, keep)
  BY <1>6, LookUpsStep, AddStreamStep
<1>. QED  BY <1>1, <1>2, <1>3, <1>4, <1>5, <1>6 DEF Caller

-----------------------------------------------------------------------------
(* Connections, the monitor and the cleaner *)

LEMMA AcceptStep ==
  ASSUME IInv, NEW keep, Accept(keep)
  PROVE  IInv'
<1>1. UNCHANGED <<job, started, clean>> /\ MapsShrink /\ started \in Nat
  BY SameMaps DEF Accept, cardVars, IInv, TableInv
<1>2. FacesStay /\ NewFacesAreFine /\ NoNewPeer /\ ListedStay
  BY AddsOther DEF Accept
<1>. QED  BY <1>1, <1>2, StillStep

LEMMA PeerClosesStep ==
  ASSUME IInv, NEW f, PeerCloses(f)
  PROVE  IInv'
<1>1. UNCHANGED <<job, started, clean>> /\ MapsShrink /\ started \in Nat
  BY SameMaps DEF PeerCloses, cardVars, IInv, TableInv
<1>2. FacesStay /\ NewFacesAreFine /\ NoNewPeer /\ ListedStay
  BY Shuts DEF PeerCloses
<1>. QED  BY <1>1, <1>2, StillStep

LEMMA MonitorDevStep ==
  ASSUME IInv, MonitorDev
  PROVE  IInv'
<1>1. UNCHANGED <<job, clean, mapped, raced>> /\ started \in Nat
  BY DEF MonitorDev, StartListener, StoreListener, StartFails, CloseListener, IInv, TableInv
<1>2. FacesStay /\ NewFacesAreFine /\ NoNewPeer /\ ListedStay
  <2>1. CASE StartListener
    BY <2>1, AddsOther DEF StartListener
  <2>2. CASE \E l \in open : CloseListener(l)
    BY <2>2, Shuts DEF CloseListener
  <2>3. CASE StoreListener \/ StartFails
    BY <2>3, SameFaces DEF StoreListener, StartFails, tableVars
  <2>. QED  BY <2>1, <2>2, <2>3 DEF MonitorDev
<1>3. started' \in Nat /\ started <= started'
  <2>1. started' = started + 1 \/ started' = started
    BY DEF MonitorDev, StartListener, StoreListener, StartFails, CloseListener
  <2>. QED  BY <1>1, <2>1
<1>. QED  BY <1>1, <1>2, <1>3, SameMaps, StillStep

LEMMA DoFaceCleanStep ==
  ASSUME IInv, NEW f \in listed, DoFaceClean(f)
  PROVE  IInv'
<1>1. UNCHANGED <<job, started, listed>> /\ MapsShrink /\ started \in Nat /\ f \in DOMAIN faces
  BY SameMaps DEF DoFaceClean, cardVars, IInv, TableInv
<1>2. CASE CleansIdle(f)
  <2>1. /\ FacesStay /\ NewFacesAreFine /\ NoNewPeer /\ ListedStay
        /\ f \in DOMAIN faces' /\ ~faces'[f].up
    BY <1>1, <1>2, Shuts DEF CleansIdle
  <2>2. \A c \in clean' : c.face \in DOMAIN faces' /\ ~faces'[c.face].up
    BY <2>1 DEF DoFaceClean
  <2>. QED  BY <1>1, <2>1, <2>2, StillStep
<1>3. CASE ~Up(f) /\ UNCHANGED faces
  <2>1. \A c \in clean' : c.face \in DOMAIN faces' /\ ~faces'[c.face].up
    BY <1>1, <1>3 DEF DoFaceClean, Up
  <2>. QED  BY <1>1, <1>3, <2>1, SameFaces, StillStep
<1>. QED  BY <1>2, <1>3 DEF DoFaceClean

LEMMA DestroyStep ==
  ASSUME IInv, DestroyUnmaps \/ DestroyRemoves
  PROVE  IInv'
<1>0. \A c \in clean : c.face \in DOMAIN faces /\ ~Up(c.face)
  BY DEF IInv, TableInv
<1>1. ASSUME NEW c \in clean, faces[c.face].key.kind # "udp",
             IF faces[c.face].key.kind = "ether"
             THEN Unmap(open, faces[c.face].key.to) ELSE UNCHANGED <<mapped, raced>>,
             clean' = {[face |-> c.face, at |-> "remove"]},
             UNCHANGED <<tableVars, cardVars, job, alive>>
      PROVE  IInv'
  <2>1. MapsShrink
    BY <1>1, Unmaps, SameMaps
  <2>2. UNCHANGED <<faces, listed, job, started>> /\ started \in Nat
    BY <1>1 DEF tableVars, cardVars, IInv, TableInv
  <2>3. \A d \in clean' : d.face \in DOMAIN faces' /\ ~faces'[d.face].up
    BY <1>0, <1>1, <2>2 DEF Up
  <2>. QED  BY <2>1, <2>2, <2>3, SameFaces, StillStep
<1>2. CASE DestroyUnmaps
  BY <1>1, <1>2, EndsStep DEF DestroyUnmaps
<1>3. CASE DestroyRemoves
  <2>1. PICK c \in clean : RemoveByLogicFaceId(c.face)
    BY <1>3 DEF DestroyRemoves
  <2>2. FacesStay /\ NewFacesAreFine /\ NoNewPeer /\ ListedStay
    BY <1>0, <2>1, Removes
  <2>3. UNCHANGED <<job, started>> /\ MapsShrink /\ started \in Nat /\ clean' = {}
    BY <1>3, SameMaps DEF DestroyRemoves, cardVars, IInv, TableInv
  <2>. QED  BY <2>2, <2>3, StillStep
<1>. QED  BY <1>2, <1>3

-----------------------------------------------------------------------------
(* The size *)

LEMMA Quotient ==
  ASSUME NEW M \in Nat \ {0}, NEW x \in Int
  PROVE  x % M \in 0..(M - 1) /\ x \div M \in Int /\ x = M * (x \div M) + (x % M)
OBVIOUS

LEMMA NoMultiple ==
  ASSUME NEW M \in Nat \ {0}, NEW d \in 0..(M - 1), NEW e \in 0..(M - 1), NEW t \in Int,
         d = e + M * t
  PROVE  t = 0
<1>1. CASE t >= 1
  <2>1. M * (t - 1) >= 0
    BY <1>1, Z3
  <2>. QED  BY <2>1, <1>1, Z3
<1>2. CASE t <= -1
  <2>1. M * (-1 - t) >= 0
    BY <1>2, Z3
  <2>. QED  BY <2>1, <1>2, Z3
<1>. QED  BY <1>1, <1>2

\* Multiples of the modulus do not count.
LEMMA Congruent ==
  ASSUME NEW M \in Nat \ {0}, NEW x \in Int, NEW q \in Int
  PROVE  (x + M * q) % M = x % M
<1>. DEFINE y == x + M * q
            t == y \div M - x \div M - q
<1>1. y \in Int /\ y \div M \in Int /\ x \div M \in Int /\ t \in Int
  BY Quotient
<1>2. y = M * (y \div M) + (y % M) /\ x = M * (x \div M) + (x % M)
  BY <1>1, Quotient
<1>3. y % M \in 0..(M - 1) /\ x % M \in 0..(M - 1)
  BY <1>1, Quotient
<1>4. x % M = (y % M) + M * t
  BY <1>1, <1>2, <1>3
<1>5. t = 0
  BY <1>1, <1>3, <1>4, NoMultiple
<1>. QED  BY <1>1, <1>3, <1>4, <1>5

\* A number less its remainder is a multiple.
LEMMA Wraps ==
  ASSUME NEW x \in Int
  PROVE  x % SizeModulus \in Int /\ \E q \in Int : x % SizeModulus = x + SizeModulus * q
<1>1. SizeModulus \in Nat \ {0}
  BY BoundsAssumption
<1>2. x % SizeModulus \in Int /\ x \div SizeModulus \in Int
        /\ x = SizeModulus * (x \div SizeModulus) + (x % SizeModulus)
  BY <1>1, Quotient
<1>3. x % SizeModulus = x + SizeModulus * (-(x \div SizeModulus))
  BY <1>1, <1>2
<1>. QED  BY <1>2, <1>3

\* The faces that a command, and the cleaner, have found listed and will remove.
Deleting == {job[p].face : p \in {q \in Procs : job[q].at = "remove"}}
Cleaning == {c.face : c \in clean}

OneDeletes ==
  \A p \in Procs : job[p].at = "remove" =>
    p \in Managers /\ \A q \in Procs : job[q].at = "remove" => q = p

\* n is a count of the faces listed, if multiples of the modulus do not count.
Counts(n) == \E q \in Int : n = Cardinality(listed) + SizeModulus * q

\* The faces of T were removed twice, and are behind whoever removed them.
Twice(T) ==
  /\ T \subseteq DOMAIN faces \ listed
  /\ T \cap (Deleting \cup Cleaning) = {}
  /\ IsFiniteSet(T)
  /\ Counts(size + Cardinality(T))

SizeInv ==
  /\ OneDeletes
  /\ size \in Int
  /\ IsFiniteSet(listed) /\ IsFiniteSet(DOMAIN faces)
  /\ Deleting \cap Cleaning \subseteq listed
  /\ \E T : Twice(T)

NoMoreRemove == Deleting' \subseteq Deleting /\ Cleaning' \subseteq Cleaning

\* What a step does to the table and to those who will remove faces from it.
SizeStep ==
  \/ Ends
  \/ NoMoreRemove /\ DOMAIN faces' = DOMAIN faces /\ UNCHANGED <<listed, size>>
  \/ NoMoreRemove /\ \E f \in NewIds : \E k, keep : AddLogicFace(f, k, keep)
  \/ /\ DOMAIN faces' = DOMAIN faces /\ UNCHANGED <<listed, size>>
     /\ \E f \in listed :
          /\ Deleting' \subseteq Deleting \cup {f} /\ Cleaning' \subseteq Cleaning \cup {f}
          /\ Deleting' \cap Cleaning' \subseteq (Deleting \cap Cleaning) \cup {f}
  \/ /\ NoMoreRemove
     /\ \E f : /\ RemoveByLogicFaceId(f)
               /\ f \in Deleting \ Deleting' \/ f \in Cleaning \ Cleaning'

\* A goroutine goes on that does not begin to delete a face.
LEMMA GoesOn ==
  ASSUME DOMAIN job = Procs, OneDeletes, NEW p \in Procs, NEW j, Goes(p, j), j.at # "remove"
  PROVE  OneDeletes' /\ Deleting' \subseteq Deleting
BY Went DEF OneDeletes, Deleting

LEMMA Stays ==
  ASSUME OneDeletes, UNCHANGED job
  PROVE  OneDeletes' /\ Deleting' \subseteq Deleting
BY DEF OneDeletes, Deleting

LEMMA CleanerStays ==
  ASSUME UNCHANGED clean
  PROVE  Cleaning' = Cleaning
BY DEF Cleaning

SizeFacts == OneDeletes' /\ SizeStep

LEMMA EndsSize == ASSUME Ends PROVE SizeFacts
<1>1. OneDeletes'
  BY DEF Ends, OneDeletes, Idle
<1>. QED  BY <1>1 DEF SizeFacts, SizeStep

LEMMA KeepsSize ==
  ASSUME TableInv, OneDeletes, NEW p \in Procs, NEW j, Goes(p, j), j.at # "remove",
         DOMAIN faces' = DOMAIN faces, UNCHANGED <<listed, size, clean>>
  PROVE  SizeFacts
BY GoesOn, CleanerStays DEF TableInv, SizeFacts, SizeStep, NoMoreRemove

LEMMA AddsSize ==
  ASSUME TableInv, OneDeletes, NEW p \in Procs, NEW j, Goes(p, j), j.at # "remove",
         \E f \in NewIds : \E k, keep : AddLogicFace(f, k, keep), UNCHANGED clean
  PROVE  SizeFacts
BY GoesOn, CleanerStays DEF TableInv, SizeFacts, SizeStep, NoMoreRemove

LEMMA StillSize ==
  ASSUME OneDeletes, UNCHANGED <<job, listed, size>>, DOMAIN faces' = DOMAIN faces,
         Cleaning' \subseteq Cleaning
  PROVE  SizeFacts
BY Stays DEF SizeFacts, SizeStep, NoMoreRemove

LEMMA LookUpSize ==
  ASSUME TableInv, OneDeletes, NEW p \in Procs, NEW k, NEW keep, NEW then,
         then # "remove", LookUp(p, k, keep, then)
  PROVE  SizeFacts
<1>1. /\ DOMAIN faces' = DOMAIN faces /\ UNCHANGED <<listed, size, clean>>
      /\ \/ Goes(p, [at |-> then, key |-> k, face |-> mapped[k], keep |-> keep])
         \/ Goes(p, [at |-> "create", key |-> k, keep |-> keep])
  BY DEF LookUp, tableVars
<1>2. CASE Goes(p, [at |-> then, key |-> k, face |-> mapped[k], keep |-> keep])
  <2>. DEFINE j == [at |-> then, key |-> k, face |-> mapped[k], keep |-> keep]
  <2>1. Goes(p, j) /\ j.at # "remove"
    BY <1>2
  <2>. HIDE DEF j
  <2>. QED  BY <1>1, <2>1, KeepsSize
<1>3. CASE Goes(p, [at |-> "create", key |-> k, keep |-> keep])
  <2>. DEFINE j == [at |-> "create", key |-> k, keep |-> keep]
  <2>1. Goes(p, j) /\ j.at # "remove"
    BY <1>3
  <2>. HIDE DEF j
  <2>. QED  BY <1>1, <2>1, KeepsSize
<1>. QED  BY <1>1, <1>2, <1>3

\* What several kinds of goroutines do.
LEMMA CommonSize ==
  ASSUME TableInv, OneDeletes, NEW p \in Procs,
         \/ CreateFace(p, "store") \/ CreateFace(p, "map") \/ CreateFails(p)
         \/ NoSocket(p) \/ MapsFace(p) \/ StoresFace(p, "map") \/ StoresFace(p, "persist")
  PROVE  SizeFacts
<1>1. ASSUME NEW then \in {"store", "map"}, CreateFace(p, then)
      PROVE  SizeFacts
  <2>1. PICK f \in NewIds :
          /\ AddLogicFace(f, job[p].key, job[p].key.kind = "ether")
          /\ Goes(p, [at |-> then, key |-> job[p].key, face |-> f, keep |-> job[p].keep])
    BY <1>1 DEF CreateFace
  <2>. DEFINE j == [at |-> then, key |-> job[p].key, face |-> f, keep |-> job[p].keep]
  <2>2. Goes(p, j) /\ j.at # "remove" /\ UNCHANGED clean
    BY <1>1, <2>1 DEF CreateFace
  <2>. HIDE DEF j
  <2>. QED  BY <2>1, <2>2, AddsSize
<1>2. ASSUME NEW then \in {"map", "persist"}, StoresFace(p, then)
      PROVE  SizeFacts
  <2>. DEFINE j == [at |-> then, key |-> job[p].key, face |-> job[p].face, keep |-> job[p].keep]
  <2>1. /\ Goes(p, j) /\ j.at # "remove"
        /\ DOMAIN faces' = DOMAIN faces /\ UNCHANGED <<listed, size, clean>>
    BY <1>2 DEF StoresFace, tableVars
  <2>. HIDE DEF j
  <2>. QED  BY <2>1, KeepsSize
<1>3. CASE MapsFace(p) \/ NoSocket(p)
  <2>1. /\ Goes(p, Idle) /\ Idle.at # "remove"
        /\ DOMAIN faces' = DOMAIN faces /\ UNCHANGED <<listed, size, clean>>
    BY <1>3 DEF MapsFace, NoSocket, tableVars, Idle
  <2>. QED  BY <2>1, KeepsSize
<1>4. CASE CreateFails(p)
  BY <1>4, EndsSize DEF CreateFails
<1>. QED  BY <1>1, <1>2, <1>3, <1>4

LEMMA RoutineSize ==
  ASSUME TableInv, OneDeletes, NEW p \in Routines, Routine(p)
  PROVE  SizeFacts
<1>0. p \in Procs
  BY Kinds
<1>1. ASSUME NEW m \in Macs, Receive(p, m)
      PROVE  SizeFacts
  <2>1. LookUp(p, Key("ether", p.n, m), TRUE, "found")
    BY <1>1 DEF Receive
  <2>. QED  BY <1>0, <2>1, LookUpSize
<1>2. CASE OnReceive(p)
  <2>1. /\ Goes(p, Idle) /\ Idle.at # "remove"
        /\ DOMAIN faces' = DOMAIN faces /\ UNCHANGED <<listed, size, clean>>
    BY <1>2 DEF OnReceive, tableVars, Idle
  <2>. QED  BY <1>0, <2>1, KeepsSize
<1>. QED  BY <1>0, <1>1, <1>2, CommonSize DEF Routine

LEMMA WorkerSize ==
  ASSUME TableInv, OneDeletes, NEW p \in Workers, Worker(p)
  PROVE  SizeFacts
<1>0. p \in Procs
  BY Kinds
<1>1. ASSUME NEW a \in Addrs, ReceiveUdp(p, a)
      PROVE  SizeFacts
  <2>. DEFINE k == Key("udp", 0, a)
              j == IF k \in DOMAIN mapped
                   THEN [at |-> "found", key |-> k, face |-> mapped[k], keep |-> FALSE]
                   ELSE [at |-> "new", key |-> k]
  <2>1. /\ Goes(p, j) /\ j.at # "remove"
        /\ DOMAIN faces' = DOMAIN faces /\ UNCHANGED <<listed, size, clean>>
    BY <1>1 DEF ReceiveUdp, tableVars
  <2>. HIDE DEF j
  <2>. QED  BY <1>0, <2>1, KeepsSize
<1>2. CASE LookAgain(p)
  BY <1>0, <1>2, LookUpSize DEF LookAgain
<1>3. CASE ParseError(p)
  <2>. DEFINE j == [at |-> "ended"]
  <2>1. /\ Goes(p, j) /\ j.at # "remove"
        /\ DOMAIN faces' = DOMAIN faces /\ UNCHANGED <<listed, size, clean>>
    BY <1>3 DEF ParseError, tableVars
  <2>. HIDE DEF j
  <2>. QED  BY <1>0, <2>1, KeepsSize
<1>4. CASE OnReceiveUdp(p)
  <2>1. CASE Ends
    BY <2>1, EndsSize
  <2>2. CASE Goes(p, Idle) /\ UNCHANGED <<tableVars, clean>>
    <3>1. /\ Idle.at # "remove"
          /\ DOMAIN faces' = DOMAIN faces /\ UNCHANGED <<listed, size, clean>>
      BY <2>2 DEF tableVars, Idle
    <3>. QED  BY <1>0, <2>2, <3>1, KeepsSize
  <2>. QED  BY <1>4, <2>1, <2>2 DEF OnReceiveUdp
<1>. QED  BY <1>0, <1>1, <1>2, <1>3, <1>4, CommonSize DEF Worker

\* A command finds a face, and it is the one command that is carried out.
LEMMA DeletesSize ==
  ASSUME TableInv, OneDeletes, NEW p \in Managers, NEW f, DelLogicFace(p, f)
  PROVE  SizeFacts
<1>. DEFINE j == [at |-> "remove", face |-> f]
<1>1. /\ p \in Procs /\ f \in listed /\ Goes(p, j)
      /\ DOMAIN faces' = DOMAIN faces /\ UNCHANGED <<listed, size, clean>>
  BY Kinds DEF DelLogicFace, Shut
<1>2. \A q \in Procs : job[q].at # "remove"
  BY DEF DelLogicFace, At, OneDeletes
<1>3. job'[p] = j /\ \A q \in Procs : q # p => job'[q] = job[q]
  BY <1>1, Went DEF TableInv
<1>4. OneDeletes'
  BY <1>2, <1>3 DEF OneDeletes
<1>5. Deleting' \subseteq {f} /\ Cleaning' = Cleaning
  <2>1. \A q \in Procs : job'[q].at = "remove" => job'[q].face = f
    BY <1>2, <1>3
  <2>. QED  BY <1>1, <2>1, CleanerStays DEF Deleting
<1>. QED  BY <1>1, <1>4, <1>5 DEF SizeFacts, SizeStep

LEMMA EndDeleteSize ==
  ASSUME TableInv, OneDeletes, NEW p \in Procs, EndDelete(p)
  PROVE  SizeFacts
<1>1. /\ job[p].at = "remove" /\ RemoveByLogicFaceId(job[p].face)
      /\ Goes(p, Idle) /\ UNCHANGED clean
  BY DEF EndDelete, At
<1>2. job'[p] = Idle /\ \A q \in Procs : q # p => job'[q] = job[q]
  BY <1>1, Went DEF TableInv
<1>3. \A q \in Procs : job'[q].at # "remove"
  BY <1>1, <1>2 DEF OneDeletes, Idle
<1>4. OneDeletes' /\ Deleting' = {} /\ Cleaning' = Cleaning
  BY <1>1, <1>3, CleanerStays DEF OneDeletes, Deleting
<1>5. job[p].face \in Deleting
  BY <1>1 DEF Deleting
<1>. QED  BY <1>1, <1>4, <1>5 DEF SizeFacts, SizeStep, NoMoreRemove

LEMMA CallerSize ==
  ASSUME TableInv, OneDeletes, NEW p \in Managers, Caller(p)
  PROVE  SizeFacts
<1>0. p \in Procs
  BY Kinds
<1>1. ASSUME NEW keep, NEW m \in Macs, AddEther(p, m, keep)
      PROVE  SizeFacts
  <2>1. PICK l \in open : LookUp(p, Key("ether", l, m), keep, "persist")
    BY <1>1 DEF AddEther
  <2>. QED  BY <1>0, <2>1, LookUpSize
<1>2. ASSUME NEW keep, NEW a \in Addrs, AddUdp(p, a, keep)
      PROVE  SizeFacts
  <2>1. LookUp(p, Key("udp", 0, a), keep, "persist")
    BY <1>2 DEF AddUdp
  <2>. QED  BY <1>0, <2>1, LookUpSize
<1>3. ASSUME NEW born, NEW keep, AddStream(p, born, keep)
      PROVE  SizeFacts
  <2>1. PICK f \in NewIds :
          /\ AddLogicFace(f, Stream, born)
          /\ Goes(p, [at |-> "persist", key |-> Stream, face |-> f, keep |-> keep])
    BY <1>3 DEF AddStream
  <2>. DEFINE j == [at |-> "persist", key |-> Stream, face |-> f, keep |-> keep]
  <2>2. Goes(p, j) /\ j.at # "remove" /\ UNCHANGED clean
    BY <1>3, <2>1 DEF AddStream
  <2>. HIDE DEF j
  <2>. QED  BY <1>0, <2>1, <2>2, AddsSize
<1>4. CASE SetPersistence(p)
  <2>1. /\ job[p].face \in DOMAIN faces /\ Goes(p, Idle) /\ Idle.at # "remove"
        /\ UNCHANGED <<listed, size, clean>>
    BY <1>0, <1>4 DEF SetPersistence, At, Idle, TableInv, JobInv, HasFace
  <2>2. DOMAIN faces' = DOMAIN faces
    BY <1>4, <2>1 DEF SetPersistence, Put
  <2>. QED  BY <1>0, <2>1, <2>2, KeepsSize
<1>5. CASE DialUnixFails(p) \/ DelInnerFace(p)
  BY <1>5, EndsSize DEF DialUnixFails, DelInnerFace
<1>. QED
  BY <1>0, <1>1, <1>2, <1>3, <1>4, <1>5, CommonSize, DeletesSize, EndDeleteSize DEF Caller

LEMMA CleanerSize ==
  ASSUME TableInv, OneDeletes, Cleaner
  PROVE  SizeFacts
<1>1. ASSUME NEW f \in listed, DoFaceClean(f)
      PROVE  SizeFacts
  <2>1. /\ UNCHANGED <<listed, size, job>> /\ DOMAIN faces' = DOMAIN faces
        /\ clean = {} /\ clean' = {[face |-> f, at |-> "unmap"]}
    BY <1>1 DEF DoFaceClean, CleansIdle, Shut
  <2>2. Cleaning' = {f}
    BY <2>1 DEF Cleaning
  <2>3. OneDeletes' /\ Deleting' \subseteq Deleting
    BY <2>1, Stays
  <2>. QED  BY <2>1, <2>2, <2>3 DEF SizeFacts, SizeStep
<1>2. CASE DestroyUnmaps
  <2>1. ASSUME NEW c \in clean, clean' = {[face |-> c.face, at |-> "remove"]},
               UNCHANGED <<tableVars, job>>
        PROVE  SizeFacts
    <3>1. Cleaning' \subseteq Cleaning
      BY <2>1 DEF Cleaning
    <3>. QED  BY <2>1, <3>1, StillSize DEF tableVars
  <2>. QED  BY <1>2, <2>1, EndsSize DEF DestroyUnmaps
<1>3. CASE DestroyRemoves
  <2>1. PICK c \in clean : RemoveByLogicFaceId(c.face) /\ clean' = {} /\ UNCHANGED job
    BY <1>3 DEF DestroyRemoves
  <2>2. c.face \in Cleaning /\ Cleaning' = {}
    BY <2>1 DEF Cleaning
  <2>3. OneDeletes' /\ Deleting' \subseteq Deleting
    BY <2>1, Stays
  <2>. QED  BY <2>1, <2>2, <2>3 DEF SizeFacts, SizeStep, NoMoreRemove
<1>. QED  BY <1>1, <1>2, <1>3 DEF Cleaner

LEMMA OthersSize ==
  ASSUME OneDeletes,
         \/ \E keep : Accept(keep)
         \/ \E f : PeerCloses(f)
         \/ MonitorDev
  PROVE  SizeFacts
<1>1. UNCHANGED <<job, clean>>
  BY DEF Accept, PeerCloses, MonitorDev, StartListener, StoreListener, StartFails, CloseListener
<1>2. \/ \E f \in NewIds : \E k, keep : AddLogicFace(f, k, keep)
      \/ DOMAIN faces' = DOMAIN faces /\ UNCHANGED <<listed, size>>
  <2>1. CASE \E keep : Accept(keep)
    BY <2>1 DEF Accept
  <2>2. CASE \E f : PeerCloses(f)
    BY <2>2 DEF PeerCloses, Shut
  <2>3. CASE StartListener
    BY <2>3 DEF StartListener
  <2>4. CASE StoreListener \/ StartFails
    BY <2>4 DEF StoreListener, StartFails, tableVars
  <2>5. CASE \E l \in open : CloseListener(l)
    BY <2>5 DEF CloseListener, Shut
  <2>. QED  BY <2>1, <2>2, <2>3, <2>4, <2>5 DEF MonitorDev
<1>. QED  BY <1>1, <1>2, Stays, CleanerStays DEF SizeFacts, SizeStep, NoMoreRemove

LEMMA SizeSteps == TableInv /\ OneDeletes /\ [Next]_vars => SizeFacts
<1>. SUFFICES ASSUME TableInv, OneDeletes, [Next]_vars PROVE SizeFacts
  OBVIOUS
<1>1. CASE UNCHANGED vars
  <2>1. UNCHANGED <<job, faces, listed, size, clean>>
    BY <1>1 DEF vars, tableVars
  <2>. QED  BY <2>1, StillSize, CleanerStays
<1>. QED  BY <1>1, RoutineSize, WorkerSize, CallerSize, OthersSize, CleanerSize DEF Next

\* A face comes to the table.
LEMMA SizeGrows ==
  ASSUME TableInv, SizeInv, NoMoreRemove, NEW f \in NewIds, NEW k, NEW keep,
         AddLogicFace(f, k, keep), OneDeletes'
  PROVE  SizeInv'
<1>0. SizeModulus \in Int
  BY BoundsAssumption
<1>1. /\ f \notin DOMAIN faces /\ DOMAIN faces' = DOMAIN faces \cup {f}
      /\ listed' = listed \cup {f} /\ size' = (size + 1) % SizeModulus /\ f \notin listed
  BY Added DEF AddLogicFace, TableInv
<1>2. PICK T : Twice(T)
  BY DEF SizeInv
<1>3. PICK q \in Int : size + Cardinality(T) = Cardinality(listed) + SizeModulus * q
  BY <1>2 DEF Twice, Counts
<1>4. size \in Int /\ Cardinality(listed) \in Int /\ Cardinality(T) \in Int
  BY <1>2, FS_CardinalityType DEF SizeInv, Twice
<1>5. /\ IsFiniteSet(listed') /\ Cardinality(listed') = Cardinality(listed) + 1
      /\ IsFiniteSet(DOMAIN faces')
  BY <1>1, FS_AddElement DEF SizeInv
<1>6. PICK r \in Int : size' = size + 1 + SizeModulus * r /\ size' \in Int
  BY <1>1, <1>4, Wraps
<1>7. SizeModulus * (q + r) = SizeModulus * q + SizeModulus * r
  BY <1>0
<1>8. size' + Cardinality(T) = Cardinality(listed') + SizeModulus * (q + r)
  <2>1. SizeModulus * q \in Int /\ SizeModulus * r \in Int
    BY <1>0
  <2>2. size' + Cardinality(T) = (size + Cardinality(T)) + 1 + SizeModulus * r
    BY <1>4, <1>6, <2>1
  <2>. QED  BY <1>3, <1>4, <1>5, <1>7, <2>1, <2>2
<1>9. Twice(T)'
  <2>1. T \subseteq DOMAIN faces' \ listed' /\ T \cap (Deleting \cup Cleaning)' = {}
    BY <1>1, <1>2 DEF Twice, NoMoreRemove
  <2>. QED  BY <1>2, <1>8, <2>1 DEF Twice, Counts
<1>. QED  BY <1>1, <1>5, <1>6, <1>9 DEF SizeInv, NoMoreRemove

\* A face is removed, for the first time or for the second.
LEMMA SizeShrinks ==
  ASSUME TableInv, SizeInv, NoMoreRemove, NEW f, RemoveByLogicFaceId(f), OneDeletes',
         f \in Deleting \ Deleting' \/ f \in Cleaning \ Cleaning',
         f \in DOMAIN faces
  PROVE  SizeInv'
<1>0. SizeModulus \in Int
  BY BoundsAssumption
<1>1. listed' = listed \ {f} /\ size' = (size - 1) % SizeModulus /\ UNCHANGED faces
  BY DEF RemoveByLogicFaceId
<1>2. PICK T : Twice(T)
  BY DEF SizeInv
<1>3. PICK q \in Int : size + Cardinality(T) = Cardinality(listed) + SizeModulus * q
  BY <1>2 DEF Twice, Counts
<1>4. size \in Int /\ Cardinality(listed) \in Int /\ Cardinality(T) \in Int
  BY <1>2, FS_CardinalityType DEF SizeInv, Twice
<1>5. PICK r \in Int : size' = size - 1 + SizeModulus * r /\ size' \in Int
  BY <1>1, <1>4, Wraps
<1>6. SizeModulus * (q + r) = SizeModulus * q + SizeModulus * r
  BY <1>0
<1>7. f \notin T
  BY <1>2 DEF Twice
<1>8. Deleting' \cap Cleaning' \subseteq listed'
  BY <1>1 DEF SizeInv, NoMoreRemove
<1>9. IsFiniteSet(listed')
  BY <1>1, FS_Difference DEF SizeInv
<1>10. \E U : Twice(U)'
  <2>1. CASE f \in listed
    <3>1. Cardinality(listed') = Cardinality(listed) - 1
      BY <1>1, <2>1, FS_RemoveElement DEF SizeInv
    <3>2. size' + Cardinality(T) = Cardinality(listed') + SizeModulus * (q + r)
      <4>1. size' + Cardinality(T) = Cardinality(listed) - 1 + (SizeModulus * q + SizeModulus * r)
        BY <1>0, <1>3, <1>4, <1>5
      <4>. QED  BY <1>6, <3>1, <4>1
    <3>3. T \subseteq DOMAIN faces' \ listed' /\ T \cap (Deleting \cup Cleaning)' = {}
      BY <1>1, <1>2 DEF Twice, NoMoreRemove
    <3>. QED  BY <1>2, <3>2, <3>3 DEF Twice, Counts
  <2>2. CASE f \notin listed
    <3>. DEFINE U == T \cup {f}
    <3>1. IsFiniteSet(U) /\ Cardinality(U) = Cardinality(T) + 1
      BY <1>2, <1>7, FS_AddElement DEF Twice
    <3>2. listed' = listed
      BY <1>1, <2>2
    <3>3. size' + Cardinality(U) = Cardinality(listed') + SizeModulus * (q + r)
      BY <1>0, <1>3, <1>4, <1>5, <1>6, <3>1, <3>2
    <3>4. f \notin (Deleting \cup Cleaning)'
      BY <2>2 DEF SizeInv, NoMoreRemove
    <3>5. U \subseteq DOMAIN faces' \ listed' /\ U \cap (Deleting \cup Cleaning)' = {}
      BY <1>1, <1>2, <2>2, <3>4 DEF Twice, NoMoreRemove
    <3>6. q + r \in Int
      OBVIOUS
    <3>. HIDE DEF U
    <3>. QED  BY <3>1, <3>3, <3>5, <3>6 DEF Twice, Counts
  <2>. QED  BY <2>1, <2>2
<1>. QED  BY <1>1, <1>5, <1>8, <1>9, <1>10 DEF SizeInv

LEMMA SizeKept == TableInv /\ SizeInv /\ SizeFacts => SizeInv'
<1>. SUFFICES ASSUME TableInv, SizeInv, SizeFacts PROVE SizeInv'
  OBVIOUS
<1>0. OneDeletes' /\ SizeStep
  BY DEF SizeFacts
<1>1. CASE Ends
  <2>1. size' = 0 /\ listed' = {} /\ DOMAIN faces' = {} /\ clean' = {}
    BY <1>1 DEF Ends, EmptyMap
  <2>2. IsFiniteSet({}) /\ Cardinality({}) = 0
    BY FS_EmptySet
  <2>3. Cleaning' = {}
    BY <2>1 DEF Cleaning
  <2>4. size' + Cardinality({}) = Cardinality(listed') + SizeModulus * 0
    BY <2>1, <2>2, BoundsAssumption
  <2>5. Twice({})'
    BY <2>2, <2>4 DEF Twice, Counts
  <2>. QED  BY <1>0, <2>1, <2>2, <2>3, <2>5 DEF SizeInv
<1>2. CASE /\ DOMAIN faces' = DOMAIN faces /\ UNCHANGED <<listed, size>>
           /\ \E f \in listed :
                /\ Deleting' \subseteq Deleting \cup {f} /\ Cleaning' \subseteq Cleaning \cup {f}
                /\ Deleting' \cap Cleaning' \subseteq (Deleting \cap Cleaning) \cup {f}
  <2>1. PICK T : Twice(T)
    BY DEF SizeInv
  <2>2. PICK f \in listed :
          /\ Deleting' \subseteq Deleting \cup {f} /\ Cleaning' \subseteq Cleaning \cup {f}
          /\ Deleting' \cap Cleaning' \subseteq (Deleting \cap Cleaning) \cup {f}
    BY <1>2
  <2>3. T \subseteq DOMAIN faces' \ listed' /\ T \cap (Deleting \cup Cleaning)' = {}
    BY <1>2, <2>1, <2>2 DEF Twice
  <2>4. Twice(T)'
    BY <1>2, <2>1, <2>3 DEF Twice, Counts
  <2>. QED  BY <1>0, <1>2, <2>2, <2>4 DEF SizeInv
<1>3. CASE NoMoreRemove /\ DOMAIN faces' = DOMAIN faces /\ UNCHANGED <<listed, size>>
  <2>1. PICK T : Twice(T)
    BY DEF SizeInv
  <2>2. T \subseteq DOMAIN faces' \ listed' /\ T \cap (Deleting \cup Cleaning)' = {}
    BY <1>3, <2>1 DEF Twice, NoMoreRemove
  <2>3. Twice(T)'
    BY <1>3, <2>1, <2>2 DEF Twice, Counts
  <2>. QED  BY <1>0, <1>3, <2>3 DEF SizeInv, NoMoreRemove
<1>4. ASSUME NoMoreRemove, NEW f, RemoveByLogicFaceId(f),
             f \in Deleting \ Deleting' \/ f \in Cleaning \ Cleaning'
      PROVE  SizeInv'
  <2>1. f \in DOMAIN faces
    BY <1>4 DEF Deleting, Cleaning, TableInv, JobInv, HasFace
  <2>. QED  BY <1>0, <1>4, <2>1, SizeShrinks
<1>. QED  BY <1>0, <1>1, <1>2, <1>3, <1>4, SizeGrows DEF SizeStep

LEMMA SizeInit == Init => SizeInv
<1>. SUFFICES ASSUME Init PROVE SizeInv
  OBVIOUS
<1>1. size = 0 /\ listed = {} /\ DOMAIN faces = {} /\ clean = {}
  BY DEF Init, EmptyMap
<1>2. IsFiniteSet({}) /\ Cardinality({}) = 0
  BY FS_EmptySet
<1>3. OneDeletes /\ Cleaning = {}
  BY <1>1 DEF Init, OneDeletes, Idle, Cleaning
<1>4. size + Cardinality({}) = Cardinality(listed) + SizeModulus * 0
  BY <1>1, <1>2, BoundsAssumption
<1>5. Twice({})
  BY <1>2, <1>4 DEF Twice, Counts
<1>. QED  BY <1>1, <1>2, <1>3, <1>5 DEF SizeInv

LEMMA SizeImplies == SizeInv => SizeIsNearlyExact
<1>. SUFFICES ASSUME SizeInv PROVE SizeIsNearlyExact
  OBVIOUS
<1>1. SizeModulus \in Nat \ {0}
  BY BoundsAssumption
<1>2. PICK T : Twice(T)
  BY DEF SizeInv
<1>3. PICK q \in Int : size + Cardinality(T) = Cardinality(listed) + SizeModulus * q
  BY <1>2 DEF Twice, Counts
<1>4. Cardinality(listed) \in Int
  BY FS_CardinalityType DEF SizeInv
<1>5. IsFiniteSet(DOMAIN faces \ listed)
  BY FS_Difference DEF SizeInv
<1>6. Cardinality(T) \in 0 .. Cardinality(DOMAIN faces \ listed)
  <2>1. Cardinality(T) <= Cardinality(DOMAIN faces \ listed)
    BY <1>2, <1>5, FS_Subset DEF Twice
  <2>2. Cardinality(T) \in Nat /\ Cardinality(DOMAIN faces \ listed) \in Nat
    BY <1>2, <1>5, FS_CardinalityType DEF Twice
  <2>. QED  BY <2>1, <2>2
<1>7. (size + Cardinality(T)) % SizeModulus = Cardinality(listed) % SizeModulus
  BY <1>1, <1>3, <1>4, Congruent
<1>. QED  BY <1>6, <1>7 DEF SizeIsNearlyExact

-----------------------------------------------------------------------------
(* The theorems *)

LEMMA NextInv == IInv /\ [Next]_vars => IInv'
<1>. SUFFICES ASSUME IInv, [Next]_vars PROVE IInv'
  OBVIOUS
<1>1. CASE Next
  BY <1>1, RoutineStep, WorkerStep, CallerStep, AcceptStep, PeerClosesStep, MonitorDevStep,
     DoFaceCleanStep, DestroyStep DEF Next, Cleaner
<1>2. CASE UNCHANGED vars
  <2>1. UNCHANGED <<faces, listed, job, started, clean, mapped, raced>> /\ started \in Nat
    BY <1>2 DEF vars, tableVars, cardVars, IInv, TableInv
  <2>. QED  BY <2>1, SameFaces, SameMaps, StillStep
<1>. QED  BY <1>1, <1>2

LEMMA Invariance == Spec => []IInv
BY InitInv, NextInv, PTL DEF Spec

\* However packets, commands, the cleaner, the monitor and the peers overlap, a
\* face that works is in the face table: RemoveByLogicFaceId only ever takes out
\* a face that has been shut down, by destroyFace or delLogicFace.
THEOREM LiveFacesAreAlwaysListed == Spec => []LiveFacesAreListed
BY Invariance, InvImplies, PTL

\* A peer for whose address no two goroutines raced has one face that is up: the
\* look-ups in etherFaceMap and udpAddrFaceMap before a face is made are enough
\* but for the races that "raced" records.
THEOREM OnePeerOneFace == Spec => []OnePerPeer
BY Invariance, InvImplies, PTL

\* However a command and the cleaner overlap, the size of the face table is the
\* number of faces listed, less one for each of some faces that have left it, and
\* modulo the width of the unsigned mSize: RemoveByLogicFaceId counts a face down
\* a second time at most, and only when both had found it listed.
THEOREM SizeIsAlwaysNearlyExact == Spec => []SizeIsNearlyExact
<1>1. IInv /\ SizeInv /\ [Next]_vars => SizeInv'
  BY SizeSteps, SizeKept DEF IInv, SizeInv
<1>. QED  BY <1>1, Invariance, SizeInit, SizeImplies, PTL DEF Spec
=============================================================================
