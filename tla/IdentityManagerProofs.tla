----------------------- MODULE IdentityManagerProofs ------------------------
(***************************************************************************)
(* Proofs about IdentityManager, for any names and passwords and any number *)
(* of runs of mirgen.  While it runs, the daemon's key chain and the data base have the same            *)
(* identities; mirgen can only come between them with the router's own,    *)
(* which no command touches while it is in use.                            *)
(***************************************************************************)
EXTENDS IdentityManager, TLAPS

\* Nothing without a password is kept outside the daemon's memory.
LockedInv ==
  /\ \A n \in DOMAIN stored : stored[n] \in Passwds
  /\ \A f \in file : f.passwd \in Passwds

\* What the key chain has is in the data base, which may also have the router's
\* own identity, made by mirgen since the key chain was opened.
HeldInv ==
  /\ phase \in {"down", "ready", "up"}
  /\ phase # "down" =>
       /\ DOMAIN held \subseteq DOMAIN stored
       /\ DOMAIN stored \subseteq DOMAIN held \cup {DefaultId}
       /\ \A n \in DOMAIN held \ {DefaultId} : held[n] = stored[n]
  /\ phase = "up" => DefaultId \in DOMAIN held /\ current = {DefaultId}

Record(op, n, p, at, result) ==
  [op |-> op, name |-> n, passwd |-> p, at |-> at, result |-> result]

IsRequest(r) == \E op, n, p, at, result : r = Record(op, n, p, at, result)

Sound(r) ==
  /\ IsRequest(r)
  /\ r.op = "identity-mgmt/add" => r.passwd \in Passwds
  /\ r.op = "identity-mgmt/dumpId" => \A f \in r.result : f.passwd \in Passwds

RequestInv == \A r \in request : phase = "up" /\ Sound(r)

IsRun(g) ==
  /\ g = Run(g.at, g.own, g.passwd, g.late)
  /\ g.late \in BOOLEAN

\* The router's own identity is there before a run checks or saves its password.
\* If no other run has changed it since, the one in the run's key chain is the one
\* in the data base, and so is the one that it saves.
RunInv(g, ids) ==
  /\ g.at \in {"check", "reset", "save"} => DefaultId \in DOMAIN ids
  /\ g.at = "check" /\ ~g.late => g.own = {ids[DefaultId]}
  /\ g.at = "save" /\ ~g.late => g.passwd \in {Empty, ids[DefaultId]}

MirgenInv ==
  /\ passwdFile # {} => DefaultId \in DOMAIN stored
  /\ mirgen = [m \in Runs |-> mirgen[m]]
  /\ \A m \in Runs : IsRun(mirgen[m]) /\ RunInv(mirgen[m], stored)

IInv == LockedInv /\ HeldInv /\ RequestInv /\ MirgenInv

OwnKept ==
  DefaultId \in DOMAIN stored =>
    DefaultId \in DOMAIN stored' /\ stored'[DefaultId] = stored[DefaultId]

-----------------------------------------------------------------------------
LEMMA MirgenKept ==
  ASSUME MirgenInv, OwnKept, UNCHANGED <<mirgen, passwdFile>>
  PROVE  MirgenInv'
BY DEF MirgenInv, RunInv, OwnKept

LEMMA InitInv == Init => IInv
<1>. SUFFICES ASSUME Init PROVE IInv
  OBVIOUS
<1>1. \A m \in Runs : mirgen[m] = Gone
  BY DEF Init
<1>2. mirgen = [m \in Runs |-> mirgen[m]]
  BY DEF Init
<1>3. IsRun(Gone) /\ RunInv(Gone, stored)
  BY DEF IsRun, RunInv, Gone, Run
<1>4. MirgenInv
  BY <1>1, <1>2, <1>3 DEF Init, MirgenInv
<1>. QED  BY <1>4 DEF Init, IInv, LockedInv, HeldInv, RequestInv, EmptyMap

LEMMA Unchanged == IInv /\ UNCHANGED vars => IInv'
BY DEF vars, IInv, LockedInv, HeldInv, RequestInv, MirgenInv, RunInv

-----------------------------------------------------------------------------
(* mirgen *)

\* The other runs stay as they are, and so does the password that they look at.
LEMMA OneRun ==
  ASSUME MirgenInv, NEW m \in Runs, NEW g, IsRun(g), RunInv(g, stored'),
         mirgen' = [mirgen EXCEPT ![m] = g], OwnKept,
         passwdFile' # {} => DefaultId \in DOMAIN stored'
  PROVE  MirgenInv'
<1>1. mirgen' = [n \in Runs |-> IF n = m THEN g ELSE mirgen[n]]
  BY DEF MirgenInv
<1>2. \A n \in Runs : mirgen'[n] = IF n = m THEN g ELSE mirgen[n]
  BY <1>1
<1>3. mirgen' = [n \in Runs |-> mirgen'[n]]
  BY <1>1, <1>2
<1>4. ASSUME NEW n \in Runs, n # m
      PROVE  RunInv(mirgen'[n], stored')
  BY <1>1, <1>2, <1>4 DEF MirgenInv, RunInv, OwnKept
<1>5. RunInv(mirgen'[m], stored')
  BY <1>2 DEF RunInv
<1>6. \A n \in Runs : IsRun(mirgen'[n])
  BY <1>2 DEF MirgenInv
<1>. QED  BY <1>3, <1>4, <1>5, <1>6 DEF MirgenInv, IsRun

LEMMA ResetStep ==
  ASSUME MirgenInv, NEW m \in Runs, NEW old \in Passwds, NEW new \in Passwds,
         Reset(m, old, new), old \in mirgen[m].own
  PROVE  MirgenInv'
<1>1. mirgen' = [g \in Runs |->
        IF g = m THEN Run("save", {}, Empty, FALSE)
        ELSE IF mirgen[g].at \in {"check", "save"} THEN [mirgen[g] EXCEPT !.late = TRUE]
        ELSE mirgen[g]]
  BY DEF Reset
<1>2. DefaultId \in DOMAIN stored
  BY DEF Reset, MirgenInv, RunInv
<1>3. DOMAIN stored' = DOMAIN stored /\ UNCHANGED passwdFile
  BY DEF Reset
<1>4. ASSUME NEW g \in Runs
      PROVE  IsRun(mirgen'[g]) /\ RunInv(mirgen'[g], stored')
  <2>1. CASE g = m
    BY <1>1, <2>1, <1>2, <1>3 DEF IsRun, RunInv, Run
  <2>2. CASE g # m /\ mirgen[g].at \in {"check", "save"}
    <3>1. PICK at, own, passwd, late :
            mirgen[g] = Run(at, own, passwd, late)
      BY DEF MirgenInv, IsRun
    <3>2. mirgen'[g] = [Run(at, own, passwd, late) EXCEPT !.late = TRUE]
      BY <1>1, <2>2, <3>1
    <3>3. mirgen'[g] = Run(at, own, passwd, TRUE)
      BY <3>2 DEF Run
    <3>. QED  BY <1>2, <1>3, <2>2, <3>1, <3>3 DEF IsRun, RunInv, Run
  <2>3. CASE g # m /\ mirgen[g].at \notin {"check", "save"}
    BY <1>1, <2>3, <1>2, <1>3 DEF MirgenInv, RunInv
  <2>. QED  BY <2>1, <2>2, <2>3
<1>. QED  BY <1>1, <1>2, <1>3, <1>4 DEF MirgenInv, IsRun

LEMMA EndsStep ==
  ASSUME MirgenInv, NEW m \in Runs, Ends(m), OwnKept,
         passwdFile' # {} => DefaultId \in DOMAIN stored'
  PROVE  MirgenInv'
BY OneRun DEF Ends, Gone, Run, IsRun, RunInv

LEMMA MirgenStep ==
  ASSUME IInv, NEW m \in Runs, Mirgen(m)
  PROVE  IInv'
<1>. USE DEF IInv, LockedInv, daemonState, mircState
<1>1. CASE StartMirgen(m)
  <2>1. PICK reset \in BOOLEAN :
          mirgen' = [mirgen EXCEPT ![m] =
            IF DefaultId \in DOMAIN stored
            THEN Run(IF reset THEN "reset" ELSE "check", {stored[DefaultId]}, Empty, FALSE)
            ELSE Run("set", {}, Empty, FALSE)]
    BY <1>1 DEF StartMirgen
  <2>2. MirgenInv'
    <3>1. CASE DefaultId \in DOMAIN stored
      <4>. DEFINE g == Run(IF reset THEN "reset" ELSE "check", {stored[DefaultId]}, Empty, FALSE)
      <4>1. IsRun(g) /\ RunInv(g, stored') /\ mirgen' = [mirgen EXCEPT ![m] = g]
        BY <1>1, <2>1, <3>1 DEF StartMirgen, IsRun, RunInv, Run
      <4>. HIDE DEF g
      <4>. QED  BY <1>1, <4>1, OneRun DEF StartMirgen, OwnKept, MirgenInv
    <3>2. CASE DefaultId \notin DOMAIN stored
      BY <1>1, <2>1, <3>2, OneRun DEF StartMirgen, OwnKept, MirgenInv, IsRun, RunInv, Run
    <3>. QED  BY <3>1, <3>2
  <2>. QED  BY <1>1, <2>2 DEF StartMirgen, HeldInv, RequestInv
<1>2. ASSUME NEW p \in Passwds, Check(m, p)
      PROVE  IInv'
  <2>1. UNCHANGED <<stored, passwdFile>> /\ OwnKept
    BY <1>2 DEF Check, OwnKept
  <2>2. MirgenInv'
    <3>1. CASE p \in mirgen[m].own
      <4>. DEFINE g == Run("save", {}, p, mirgen[m].late)
      <4>2. IsRun(g) /\ RunInv(g, stored') /\ mirgen' = [mirgen EXCEPT ![m] = g]
        BY <1>2, <2>1, <3>1 DEF Check, Saves, MirgenInv, IsRun, RunInv, Run
      <4>. HIDE DEF g
      <4>. QED  BY <2>1, <4>2, OneRun DEF MirgenInv
    <3>2. CASE p \notin mirgen[m].own
      BY <1>2, <2>1, <3>2, EndsStep DEF Check, MirgenInv
    <3>. QED  BY <3>1, <3>2
  <2>. QED  BY <1>2, <2>2 DEF Check, HeldInv, RequestInv
<1>3. ASSUME NEW p \in Passwds, Set(m, p)
      PROVE  IInv'
  <2>1. MirgenInv'
    <3>1. CASE Creates(stored, DefaultId, p) /\ Saves(m, p)
      <4>. DEFINE g == Run("save", {}, p, mirgen[m].late)
      <4>2. DefaultId \in DOMAIN stored' /\ stored'[DefaultId] = p /\ OwnKept
        BY <3>1 DEF Creates, Put, OwnKept
      <4>3. IsRun(g) /\ RunInv(g, stored') /\ mirgen' = [mirgen EXCEPT ![m] = g]
        BY <3>1, <4>2 DEF Saves, MirgenInv, IsRun, RunInv, Run
      <4>. HIDE DEF g
      <4>. QED  BY <4>2, <4>3, OneRun
    <3>2. CASE Ends(m) /\ UNCHANGED stored
      BY <1>3, <3>2, EndsStep DEF Set, OwnKept, MirgenInv
    <3>. QED  BY <1>3, <3>1, <3>2 DEF Set
  <2>. QED  BY <1>3, <2>1 DEF Set, Creates, Put, HeldInv, RequestInv
<1>4. ASSUME NEW old \in Passwds, NEW new \in Passwds, Reset(m, old, new)
      PROVE  IInv'
  <2>1. MirgenInv'
    <3>1. CASE old \in mirgen[m].own
      BY <1>4, <3>1, ResetStep
    <3>2. CASE old \notin mirgen[m].own
      BY <1>4, <3>2, EndsStep DEF Reset, OwnKept, MirgenInv
    <3>. QED  BY <3>1, <3>2
  <2>. QED  BY <1>4, <2>1 DEF Reset, HeldInv, RequestInv
<1>5. CASE SavePasswd(m)
  <2>1. DefaultId \in DOMAIN stored /\ OwnKept
    BY <1>5 DEF SavePasswd, MirgenInv, RunInv, OwnKept
  <2>2. MirgenInv'
    BY <1>5, <2>1, EndsStep DEF SavePasswd, OwnKept
  <2>. QED  BY <1>5, <2>2 DEF SavePasswd, HeldInv, RequestInv
<1>6. CASE AbortMirgen(m)
  <2>1. MirgenInv'
    BY <1>6, EndsStep DEF AbortMirgen, OwnKept, MirgenInv
  <2>. QED  BY <1>6, <2>1 DEF AbortMirgen, HeldInv, RequestInv
<1>. QED  BY <1>1, <1>2, <1>3, <1>4, <1>5, <1>6 DEF Mirgen

-----------------------------------------------------------------------------
(* Start and stop *)

LEMMA InitStarterStep ==
  ASSUME IInv, InitStarter
  PROVE  IInv'
BY DEF IInv, LockedInv, HeldInv, RequestInv, MirgenInv, RunInv, InitStarter, mircState

LEMMA InitKeyChainStep ==
  ASSUME IInv, NEW p, p \in Passwds \/ DefaultId \in DOMAIN stored,
         InitKeyChain(p), UNCHANGED <<passwdFile, mirgen, mircState>>
  PROVE  IInv'
<1>1. HeldInv'
  BY DEF IInv, HeldInv, InitKeyChain, Opens, Creates, Put
<1>2. LockedInv'
  BY DEF IInv, LockedInv, InitKeyChain, Creates, Put, mircState
<1>3. RequestInv'
  BY DEF IInv, RequestInv, InitKeyChain, mircState
<1>4. OwnKept
  BY DEF OwnKept, InitKeyChain, Creates, Put
<1>. QED  BY <1>1, <1>2, <1>3, <1>4, MirgenKept DEF IInv

LEMMA StopStep ==
  ASSUME IInv, Stop
  PROVE  IInv'
BY DEF IInv, LockedInv, HeldInv, RequestInv, MirgenInv, RunInv, Stop

-----------------------------------------------------------------------------
(* mirc *)

LEMMA CommandStep ==
  ASSUME IInv, Command
  PROVE  IInv'
<1>1. PICK op, n, p : Sends(op, n, p) /\ (op = "identity-mgmt/add" => p \in Passwds)
  BY DEF Command, AddIdentityCli, DelIdentityCli, ListIdentityCli, DumpCertIdentityCli,
         ImportCertIdentityCli, SetDefIdentityCli, DumpIdentityCli, GetIdentityCli,
         SelfIssueIdentityCli, LoadIdentityCli
<1>2. RequestInv'
  BY <1>1 DEF Sends, RequestInv, Sound, IsRequest, Record, daemonState
<1>. QED
  BY <1>1, <1>2 DEF IInv, LockedInv, HeldInv, MirgenInv, RunInv, Sends, daemonState

LEMMA ShowStep ==
  ASSUME IInv, Show
  PROVE  IInv'
BY DEF IInv, LockedInv, HeldInv, RequestInv, Sound, MirgenInv, RunInv, Show, daemonState

LEMMA LoginStep ==
  ASSUME IInv, NEW p, Login(p)
  PROVE  IInv'
BY DEF IInv, LockedInv, HeldInv, RequestInv, MirgenInv, RunInv, Login, daemonState

-----------------------------------------------------------------------------
(* The handlers *)

LEMMA Answered ==
  ASSUME NEW r, Sound(r), NEW result,
         r.op = "identity-mgmt/dumpId" => \A f \in result : f.passwd \in Passwds
  PROVE  Sound([r EXCEPT !.at = "answered", !.result = result])
<1>1. PICK op, n, p, at, old : r = Record(op, n, p, at, old)
  BY DEF Sound, IsRequest
<1>2. [r EXCEPT !.at = "answered", !.result = result] = Record(op, n, p, "answered", result)
  <2>1. [r EXCEPT !.at = "answered"] = Record(op, n, p, "answered", old)
    BY <1>1 DEF Record
  <2>2. [Record(op, n, p, "answered", old) EXCEPT !.result = result]
          = Record(op, n, p, "answered", result)
    BY DEF Record
  <2>3. [r EXCEPT !.at = "answered", !.result = result]
          = [[r EXCEPT !.at = "answered"] EXCEPT !.result = result]
    BY Zenon
  <2>. QED  BY <2>1, <2>2, <2>3
<1>3. IsRequest(Record(op, n, p, "answered", result))
  BY DEF IsRequest
<1>4. r.op = op /\ r.passwd = p
  BY <1>1 DEF Record
<1>5. /\ Record(op, n, p, "answered", result).op = op
      /\ Record(op, n, p, "answered", result).passwd = p
      /\ Record(op, n, p, "answered", result).result = result
  BY DEF Record
<1>6. Sound(Record(op, n, p, "answered", result))
  BY <1>3, <1>4, <1>5 DEF Sound
<1>. QED  BY <1>2, <1>6

LEMMA SucceedsIsSound ==
  ASSUME NEW r, Sound(r), Succeeds(r) \/ Fails(r)
  PROVE  \A s \in request' : Sound(s)
<1>1. [r EXCEPT !.at = "answered"] = [r EXCEPT !.at = "answered", !.result = r.result]
  <2>1. PICK op, n, p, at, old : r = Record(op, n, p, at, old)
    BY DEF Sound, IsRequest
  <2>. QED  BY <2>1 DEF Record
<1>2. Sound([r EXCEPT !.at = "answered"])
  BY <1>1, Answered DEF Sound
<1>. QED  BY <1>2 DEF Succeeds, Fails

LEMMA GivesIsSound ==
  ASSUME NEW r, Sound(r), NEW result, Gives(r, result),
         r.op = "identity-mgmt/dumpId" => \A f \in result : f.passwd \in Passwds
  PROVE  \A s \in request' : Sound(s)
<1>1. Sound([r EXCEPT !.at = "answered", !.result = result])
  BY Answered
<1>. QED  BY <1>1 DEF Gives

\* What a handler may do to the identities: nothing, or one that is not the
\* router's is made, or deleted, in the data base and the key chain alike.
Handles ==
  \/ UNCHANGED <<stored, held>>
  \/ \E n, p : /\ p \in Passwds /\ n \notin DOMAIN held
               /\ stored' = Put(stored, n, p) /\ held' = Put(held, n, p)
  \/ \E n : n \notin current /\ stored' = Drop(stored, {n}) /\ held' = Drop(held, {n})

Handled == Handles /\ \A s \in request' : Sound(s)

LEMMA HandlesKeeps ==
  ASSUME IInv, phase = "up", Handles, UNCHANGED <<phase, current, passwdFile, mirgen, file>>
  PROVE  LockedInv' /\ HeldInv' /\ MirgenInv'
<1>. USE DEF IInv
<1>1. CASE UNCHANGED <<stored, held>>
  BY <1>1 DEF LockedInv, HeldInv, MirgenInv, RunInv
<1>2. ASSUME NEW n, NEW p, p \in Passwds, n \notin DOMAIN held,
             stored' = Put(stored, n, p), held' = Put(held, n, p)
      PROVE  LockedInv' /\ HeldInv' /\ MirgenInv'
  <2>1. n # DefaultId
    BY <1>2 DEF HeldInv
  <2>2. LockedInv'
    BY <1>2 DEF LockedInv, Put
  <2>3. HeldInv'
    BY <1>2, <2>1 DEF HeldInv, Put
  <2>4. OwnKept
    BY <1>2, <2>1 DEF OwnKept, Put
  <2>. QED  BY <2>2, <2>3, <2>4, MirgenKept
<1>3. ASSUME NEW n, n \notin current, stored' = Drop(stored, {n}), held' = Drop(held, {n})
      PROVE  LockedInv' /\ HeldInv' /\ MirgenInv'
  <2>1. n # DefaultId
    BY <1>3 DEF HeldInv
  <2>2. LockedInv'
    BY <1>3 DEF LockedInv, Drop
  <2>3. HeldInv'
    BY <1>3, <2>1 DEF HeldInv, Drop
  <2>4. OwnKept
    BY <1>3, <2>1 DEF OwnKept, Drop
  <2>. QED  BY <2>2, <2>3, <2>4, MirgenKept
<1>. QED  BY <1>1, <1>2, <1>3 DEF Handles

\* What is dumped is locked: a daemon that is up has its identity unlocked in
\* memory only, and no other there.
LEMMA ToDumpIsLocked ==
  ASSUME IInv, phase = "up", NEW n \in DOMAIN held
  PROVE  ToDump(n) \in Passwds
BY DEF IInv, LockedInv, HeldInv, ToDump

LEMMA HandleStep ==
  ASSUME IInv, Handle
  PROVE  IInv'
<1>1. PICK r \in request :
        /\ phase = "up" /\ r.at = "sent"
        /\ \/ AddIdentity(r) \/ DelIdentity(r) \/ ListIdentity(r) \/ DumpCert(r) \/ ImportCert(r)
           \/ SetDef(r) \/ DumpId(r) \/ LoadId(r) \/ GetId(r) \/ SelfIssue(r)
        /\ UNCHANGED <<passwdFile, mirgen, phase, current, session, file>>
  BY DEF Handle
<1>2. Sound(r)
  BY <1>1 DEF IInv, RequestInv
<1>a. ASSUME AddIdentity(r)
      PROVE  Handled
  <2>1. \A s \in request' : Sound(s)
    BY <1>a, <1>2, SucceedsIsSound DEF AddIdentity
  <2>2. Handles
    BY <1>a, <1>2 DEF AddIdentity, Creates, NothingChanges, Handles, Sound
  <2>. QED  BY <2>1, <2>2 DEF Handled
<1>b. ASSUME DelIdentity(r)
      PROVE  Handled
  <2>1. \A s \in request' : Sound(s)
    BY <1>b, <1>2, SucceedsIsSound DEF DelIdentity
  <2>2. Handles
    BY <1>b DEF DelIdentity, MayDelete, NothingChanges, Handles
  <2>. QED  BY <2>1, <2>2 DEF Handled
<1>c. ASSUME ListIdentity(r)
      PROVE  Handled
  BY <1>c, <1>2, GivesIsSound DEF ListIdentity, NothingChanges, Handles, Handled
<1>d. ASSUME DumpCert(r)
      PROVE  Handled
  BY <1>d, <1>2, GivesIsSound, SucceedsIsSound DEF DumpCert, NothingChanges, Handles, Handled
<1>e. ASSUME ImportCert(r)
      PROVE  Handled
  BY <1>e, <1>2, SucceedsIsSound DEF ImportCert, Handles, Handled
<1>f. ASSUME SetDef(r)
      PROVE  Handled
  BY <1>f, <1>2, SucceedsIsSound DEF SetDef, Handles, Handled
<1>g. ASSUME DumpId(r)
      PROVE  Handled
  <2>1. CASE r.name \in DOMAIN held
    <3>1. ToDump(r.name) \in Passwds
      BY <1>1, <2>1, ToDumpIsLocked
    <3>. QED  BY <1>g, <1>2, <2>1, <3>1, GivesIsSound DEF DumpId, NothingChanges, Handles, Handled
  <2>2. CASE r.name \notin DOMAIN held
    BY <1>g, <1>2, <2>2, SucceedsIsSound DEF DumpId, NothingChanges, Handles, Handled
  <2>. QED  BY <2>1, <2>2
<1>h. ASSUME LoadId(r)
      PROVE  Handled
  <2>1. \A s \in request' : Sound(s)
    BY <1>h, <1>2, SucceedsIsSound DEF LoadId
  <2>2. Handles
    BY <1>h DEF LoadId, SaveIdentity, Handles, IInv, LockedInv
  <2>. QED  BY <2>1, <2>2 DEF Handled
<1>i. ASSUME GetId(r)
      PROVE  Handled
  BY <1>i, <1>2, GivesIsSound, SucceedsIsSound DEF GetId, NothingChanges, Handles, Handled
<1>j. ASSUME SelfIssue(r)
      PROVE  Handled
  BY <1>j, <1>2, SucceedsIsSound DEF SelfIssue, Handles, Handled
<1>3. Handled
  BY <1>1, <1>a, <1>b, <1>c, <1>d, <1>e, <1>f, <1>g, <1>h, <1>i, <1>j
<1>4. RequestInv'
  BY <1>1, <1>3 DEF RequestInv, Handled
<1>. QED  BY <1>1, <1>3, <1>4, HandlesKeeps DEF IInv, Handled

-----------------------------------------------------------------------------
LEMMA NextInv == IInv /\ [Next]_vars => IInv'
<1>. SUFFICES ASSUME IInv, [Next]_vars PROVE IInv'
  OBVIOUS
<1>1. CASE StartMird
  <2>1. PICK p \in passwdFile : InitKeyChain(p)
    BY <1>1 DEF StartMird
  <2>2. DefaultId \in DOMAIN stored
    BY <2>1 DEF IInv, MirgenInv
  <2>. QED  BY <1>1, <2>1, <2>2, InitKeyChainStep DEF StartMird
<1>2. ASSUME NEW p \in Passwds, StartMir(p)
      PROVE  IInv'
  BY <1>2, InitKeyChainStep DEF StartMir
<1>. QED
  BY <1>1, <1>2, MirgenStep, InitStarterStep, StopStep, CommandStep, HandleStep, ShowStep,
     LoginStep, Unchanged DEF Next

LEMMA Invariance == Spec => []IInv
BY InitInv, NextInv, PTL DEF Spec

\* However the programs and commands are interleaved, a daemon that runs has the
\* identity of its configuration unlocked, and nobody deletes it.
THEOREM AlwaysRunsAsConfigured == Spec => []RunsAsConfigured
<1>1. IInv => RunsAsConfigured
  BY DEF IInv, HeldInv, RunsAsConfigured
<1>. QED  BY <1>1, Invariance, PTL

\* The data base has what the daemon's key chain has, for every number of
\* identities: what a command adds, loads or deletes is so after a restart.
THEOREM RestartsLoseNothing == Spec => []RestartLosesNothing
<1>1. IInv => RestartLosesNothing
  BY DEF IInv, HeldInv, RestartLosesNothing
<1>. QED  BY <1>1, Invariance, PTL

\* An identity file that DumpId made has a locked identity in it.
THEOREM ExportsAreAlwaysLocked == Spec => []ExportsAreLocked
<1>1. IInv => ExportsAreLocked
  BY EmptyAssumption DEF IInv, LockedInv, ExportsAreLocked
<1>. QED  BY <1>1, Invariance, PTL

\* A password that mirgen saves opens the identity, unless it is the empty one
\* that -rp leaves, or another run has changed it with -rp since this one began:
\* for any number of runs, and although each checks in its own key chain.
THEOREM SavedPasswordsOpen == Spec => SavedPasswordOpens
<1>. DEFINE A == \A m \in Runs :
         mirgen[m].at = "save" /\ passwdFile' # passwdFile /\ mirgen'[m] = Gone
           => \/ mirgen[m].late
              \/ passwdFile' \in {{Empty}, {stored[DefaultId]}}
<1>1. ASSUME IInv, NEW n \in Runs, SavePasswd(n)
      PROVE  A
  <2>1. mirgen[n].late \/ passwdFile' \in {{Empty}, {stored[DefaultId]}}
    BY <1>1 DEF SavePasswd, IInv, MirgenInv, RunInv
  <2>2. \A m \in Runs : m # n => mirgen'[m] = mirgen[m]
    BY <1>1 DEF SavePasswd, Ends, IInv, MirgenInv
  <2>. QED  BY <1>1, <2>1, <2>2 DEF SavePasswd, Gone, Run
<1>2. [Next]_vars => UNCHANGED passwdFile \/ \E n \in Runs : SavePasswd(n)
  BY DEF Next, vars, Mirgen, StartMirgen, Check, Set, Reset, AbortMirgen, InitStarter,
       StartMird, StartMir, Stop, Login, Command, Sends, AddIdentityCli, DelIdentityCli,
       ListIdentityCli, DumpCertIdentityCli, ImportCertIdentityCli, SetDefIdentityCli,
       DumpIdentityCli, GetIdentityCli, SelfIssueIdentityCli, LoadIdentityCli, Handle, Show
<1>3. IInv /\ [Next]_vars => [A]_vars
  BY <1>1, <1>2
<1>. QED  BY <1>3, Invariance, PTL DEF Spec, SavedPasswordOpens
=============================================================================
