-------------------------- MODULE IdentityManager ---------------------------
(***************************************************************************)
(* The identities of a router and who works on them: mirgen, which sets up *)
(* the router's own identity and leaves its password where mird finds it   *)
(* (daemon/mircmd/mirgen); mird and mir, which start the daemon with it    *)
(* (daemon/mircmd); and the identity commands of mirc, each answered by a  *)
(* handler of the daemon (daemon/mgmt/IdentityManager.go and               *)
(* daemon/mgmt/mirc/cmd/IdentityManagerCli.go).                            *)
(*                                                                         *)
(* The identities are in a data base, locked by a password.  The key       *)
(* chain, a library's, reads it when a program starts and writes through.  *)
(* An identity is its password here, the one it is locked by or Empty if   *)
(* it is not locked, as the identity in use is in memory; an exported one  *)
(* is encrypted with a password besides, its seal.                         *)
(***************************************************************************)
EXTENDS Commands, Maps, FiniteSets

CONSTANTS
  Names,      \* of identities
  DefaultId,  \* GeneralConfig.DefaultId, the router's own
  Passwds,    \* passwords, as hashed: what a user types is not empty then
  Empty,      \* the empty password
  Runs        \* of mirgen, as many as there may be at a time

ASSUME DefaultIdAssumption == DefaultId \in Names
ASSUME EmptyAssumption == Empty \notin Passwds

VARIABLES
  stored,      \* the data base: name -> password
  passwdFile,  \* the file with the password for mird, if it is there
  mirgen,      \* run -> how far it is
  phase,       \* of the daemon: "down", "ready" (initialised) or "up"
  held,        \* the daemon's key chain: name -> password
  current,     \* the identity it has unlocked, to sign with
  default,     \* the default identity
  certs,       \* names it has a certificate of
  session,     \* mirc has opened the router's identity
  request,     \* the command mirc waits for, if any
  file         \* the identity file that mirc wrote last

daemonState == <<phase, held, current, default, certs>>
mircState == <<session, request, file>>
vars == <<stored, passwdFile, mirgen, phase, held, current, default, certs,
          session, request, file>>

-----------------------------------------------------------------------------
(* The key chain *)

\* CreateIdentityByName and SaveIdentity refuse a name that is taken.
Creates(ids, n, p) == n \notin DOMAIN ids /\ stored' = Put(stored, n, p)

\* SetCurrentIdentity, SelfIssue and UnLock
Opens(ids, n, p) == n \in DOMAIN ids /\ ids[n] = p

-----------------------------------------------------------------------------
(* mirgen.  The user is asked for passwords, which takes a while, and the key
   chain stays as it was read.  Of it we keep the password of the router's own
   identity, if that was there; "late" notes that another run has changed the
   password since. *)

Run(at, own, passwd, late) == [at |-> at, own |-> own, passwd |-> passwd, late |-> late]

Gone == Run("gone", {}, Empty, FALSE)

\* Main opens the key chain and looks the identity up.
StartMirgen(m) ==
  /\ mirgen[m] = Gone
  /\ \E reset \in BOOLEAN :
       mirgen' = [mirgen EXCEPT ![m] =
         IF DefaultId \in DOMAIN stored
         THEN Run(IF reset THEN "reset" ELSE "check", {stored[DefaultId]}, Empty, FALSE)
         ELSE Run("set", {}, Empty, FALSE)]
  /\ UNCHANGED <<stored, passwdFile, daemonState, mircState>>

Ends(m) == mirgen' = [mirgen EXCEPT ![m] = Gone]

\* It goes on to save the password; the key chain is not used any more.
Saves(m, p) == mirgen' = [mirgen EXCEPT ![m] = Run("save", {}, p, mirgen[m].late)]

\* Seeded fault: the password is saved without a look at it.
Check_Any(m, p) ==
  /\ mirgen[m].at = "check"
  /\ Saves(m, p)
  /\ UNCHANGED <<stored, passwdFile, daemonState, mircState>>

\* It checks a password, which is then saved: askInputPassword and checkPasswd,
\* which unlocks what the key chain has.
Check(m, p) ==
  /\ mirgen[m].at = "check"
  /\ IF p \in mirgen[m].own THEN Saves(m, p) ELSE Ends(m)
  /\ UNCHANGED <<stored, passwdFile, daemonState, mircState>>

\* It creates the identity, with a password confirmed: askSetPasswd.  The
\* daemon or another run may have done so in the meantime.
Set(m, p) ==
  /\ mirgen[m].at = "set"
  /\ \/ Creates(stored, DefaultId, p) /\ Saves(m, p)
     \/ DefaultId \in DOMAIN stored /\ Ends(m) /\ UNCHANGED stored
  /\ UNCHANGED <<passwdFile, daemonState, mircState>>

\* With -rp it changes the password: askResetPasswd and ResetIdentityPasswd, which
\* locks what the key chain has and writes it to the data base.  What is saved
\* then is the variable passwd, which only the other branches set.
Reset(m, old, new) ==
  /\ mirgen[m].at = "reset"
  /\ \/ /\ old \in mirgen[m].own
        /\ stored' = [stored EXCEPT ![DefaultId] = new]
        /\ mirgen' = [g \in Runs |->
             IF g = m THEN Run("save", {}, Empty, FALSE)
             ELSE IF mirgen[g].at \in {"check", "save"} THEN [mirgen[g] EXCEPT !.late = TRUE]
             ELSE mirgen[g]]
     \/ old \notin mirgen[m].own /\ Ends(m) /\ UNCHANGED stored
  /\ UNCHANGED <<passwdFile, daemonState, mircState>>

\* The password file is written, whether it is there or not.
SavePasswd(m) ==
  /\ mirgen[m].at = "save"
  /\ passwdFile' = {mirgen[m].passwd}
  /\ Ends(m)
  /\ UNCHANGED <<stored, daemonState, mircState>>

\* The user gives up, confirms with another password, or the file cannot be
\* written.
AbortMirgen(m) ==
  /\ mirgen[m] # Gone
  /\ Ends(m)
  /\ UNCHANGED <<stored, passwdFile, daemonState, mircState>>

Mirgen(m) ==
  \/ StartMirgen(m) \/ SavePasswd(m) \/ AbortMirgen(m)
  \/ \E p \in Passwds : Check(m, p) \/ Set(m, p) \/ \E new \in Passwds : Reset(m, p, new)

-----------------------------------------------------------------------------
(* Start and stop *)

\* MIRStarter.Init opens the key chain.
InitStarter ==
  /\ phase = "down"
  /\ phase' = "ready"
  /\ held' = stored
  /\ UNCHANGED <<stored, passwdFile, mirgen, current, default, certs, mircState>>

\* initKeyChain: the identity is unlocked, or created if there was none; Start
\* returns the error otherwise.  SetCurrentIdentity leaves it unlocked in memory.
InitKeyChain(p) ==
  /\ phase = "ready"
  /\ \/ Opens(held, DefaultId, p) /\ UNCHANGED stored
     \/ DefaultId \notin DOMAIN held /\ Creates(stored, DefaultId, p)
  /\ phase' = "up"
  /\ held' = Put(held, DefaultId, Empty)
  /\ current' = {DefaultId}
  /\ UNCHANGED <<default, certs>>

\* mird starts with the password of the file, and not at all without one.
StartMird ==
  /\ \E p \in passwdFile : InitKeyChain(p)
  /\ UNCHANGED <<passwdFile, mirgen, mircState>>

\* mir asks for it, which takes a while, and leaves the file as it is.
StartMir(p) == InitKeyChain(p) /\ UNCHANGED <<passwdFile, mirgen, mircState>>

\* The daemon ends, with a command in hand or not, or does not come to start.
Stop ==
  /\ phase # "down"
  /\ phase' = "down"
  /\ held' = EmptyMap
  /\ current' = {}
  /\ request' = {}
  /\ UNCHANGED <<stored, passwdFile, mirgen, default, certs, session, file>>

-----------------------------------------------------------------------------
(* mirc *)

\* It opens the router's identity to sign its commands.
Login(p) ==
  /\ ~session
  /\ Opens(stored, DefaultId, p)
  /\ session' = TRUE
  /\ UNCHANGED <<stored, passwdFile, mirgen, daemonState, request, file>>

\* A command's Run: it asks for a password if it has to, and sends.
Sends(op, n, p) ==
  /\ session /\ request = {} /\ phase = "up"
  /\ request' = {[op |-> op, name |-> n, passwd |-> p, at |-> "sent", result |-> {}]}
  /\ UNCHANGED <<stored, passwdFile, mirgen, daemonState, session, file>>

AddIdentityCli(n, p)       == Sends("identity-mgmt/add", n, p)
DelIdentityCli(n, p)       == Sends("identity-mgmt/del", n, p)
ListIdentityCli            == Sends("identity-mgmt/list", DefaultId, Empty)
DumpCertIdentityCli(n)     == Sends("identity-mgmt/dumpCert", n, Empty)
ImportCertIdentityCli(n)   == Sends("identity-mgmt/importCert", n, Empty)
SetDefIdentityCli(n)       == Sends("identity-mgmt/setDef", n, Empty)
DumpIdentityCli(n, p)      == Sends("identity-mgmt/dumpId", n, p)
GetIdentityCli(n)          == Sends("identity-mgmt/getId", n, Empty)
SelfIssueIdentityCli(n, p) == Sends("identity-mgmt/selfIssue", n, p)

\* It first reads the file itself, and sends its path if the password fits.
LoadIdentityCli(p) ==
  \E f \in file : f.seal = p /\ Sends("identity-mgmt/loadId", f.name, p)

Command ==
  \/ ListIdentityCli
  \/ \E p \in Passwds : LoadIdentityCli(p)
  \/ \E n \in Names :
       \/ DumpCertIdentityCli(n) \/ ImportCertIdentityCli(n)
       \/ SetDefIdentityCli(n) \/ GetIdentityCli(n)
       \/ \E p \in Passwds :
            \/ AddIdentityCli(n, p) \/ DelIdentityCli(n, p)
            \/ DumpIdentityCli(n, p) \/ SelfIssueIdentityCli(n, p)

\* The answer is shown; what has been dumped is written to a file named after
\* the identity.  An error of dumpId is not a list of strings, and not written.
Show ==
  \E r \in request :
    /\ r.at = "answered"
    /\ request' = {}
    /\ file' = IF r.op = "identity-mgmt/dumpId" /\ r.result # {} THEN r.result ELSE file
    /\ UNCHANGED <<stored, passwdFile, mirgen, daemonState, session>>

-----------------------------------------------------------------------------
(* IdentityManager: what the handlers do, and answer *)

Succeeds(r) == request' = {[r EXCEPT !.at = "answered"]}
Gives(r, result) == request' = {[r EXCEPT !.at = "answered", !.result = result]}
Fails(r) == Succeeds(r)

NothingChanges == UNCHANGED <<stored, held, default, certs>>

AddIdentity(r) ==
  /\ r.op = "identity-mgmt/add"
  /\ \/ /\ Creates(held, r.name, r.passwd)
        /\ held' = Put(held, r.name, r.passwd)
        /\ Succeeds(r) /\ UNCHANGED <<default, certs>>
     \/ r.name \in DOMAIN held /\ Fails(r) /\ NothingChanges

\* Seeded fault: the identity in use is not looked at, and it is not locked.
MayDelete_Current(r) == r.name \in DOMAIN held /\ held[r.name] \in {r.passwd, Empty}

\* The identity that is in use stays, and the others unless their password is
\* given: they are unlocked, and locked again.
MayDelete(r) == r.name \notin current /\ Opens(held, r.name, r.passwd)

DelIdentity(r) ==
  /\ r.op = "identity-mgmt/del"
  /\ \/ /\ MayDelete(r)
        /\ stored' = Drop(stored, {r.name})
        /\ held' = Drop(held, {r.name})
        /\ default' = default \ {r.name}
        /\ Succeeds(r) /\ UNCHANGED certs
     \/ ~MayDelete(r) /\ Fails(r) /\ NothingChanges

\* The names, the default one marked.
ListIdentity(r) ==
  /\ r.op = "identity-mgmt/list"
  /\ Gives(r, [name : DOMAIN held \ default] \cup [marked : DOMAIN held \cap default])
  /\ NothingChanges

DumpCert(r) ==
  /\ r.op = "identity-mgmt/dumpCert"
  /\ IF r.name \in certs THEN Gives(r, {r.name}) ELSE Fails(r)
  /\ NothingChanges

\* The daemon may not find the file, or not read a certificate from it.
ImportCert(r) ==
  /\ r.op = "identity-mgmt/importCert"
  /\ \/ certs' = certs \cup {r.name} /\ Succeeds(r)
     \/ Fails(r) /\ UNCHANGED certs
  /\ UNCHANGED <<stored, held, default>>

SetDef(r) ==
  /\ r.op = "identity-mgmt/setDef"
  /\ IF r.name \in DOMAIN held
     THEN default' = {r.name} /\ Succeeds(r)
     ELSE Fails(r) /\ UNCHANGED default
  /\ UNCHANGED <<stored, held, certs>>

\* Seeded fault: every identity is taken from memory.
ToDump_Memory(n) == held[n]

\* The identity in use, which is unlocked in memory, is taken from the data base.
ToDump(n) == IF n \in current THEN stored[n] ELSE held[n]

DumpId(r) ==
  /\ r.op = "identity-mgmt/dumpId"
  /\ IF r.name \in DOMAIN held
     THEN Gives(r, {[name |-> r.name, passwd |-> ToDump(r.name), seal |-> r.passwd]})
     ELSE Fails(r)
  /\ NothingChanges

\* Seeded fault: the identity is not made persistent.
SaveIdentity_Memory(n, p) == held' = Put(held, n, p) /\ UNCHANGED stored

\* SaveIdentity, persistent
SaveIdentity(n, p) == held' = Put(held, n, p) /\ stored' = Put(stored, n, p)

\* The daemon opens the path too, if it leads there from where it runs.
LoadId(r) ==
  /\ r.op = "identity-mgmt/loadId"
  /\ \/ \E f \in file :
          /\ f.seal = r.passwd /\ f.name \notin DOMAIN held
          /\ SaveIdentity(f.name, f.passwd)
          /\ Succeeds(r)
     \/ Fails(r) /\ UNCHANGED <<stored, held>>
  /\ UNCHANGED <<default, certs>>

\* The identity as it is in memory, printed by mirc.
GetId(r) ==
  /\ r.op = "identity-mgmt/getId"
  /\ IF r.name \in DOMAIN held
     THEN Gives(r, {[name |-> r.name, passwd |-> held[r.name]]})
     ELSE Fails(r)
  /\ NothingChanges

\* Of the identity in use, which is not locked, the key chain may say either.
SelfIssue(r) ==
  /\ r.op = "identity-mgmt/selfIssue"
  /\ \/ (Opens(held, r.name, r.passwd) \/ r.name \in current) /\ certs' = certs \cup {r.name} /\ Succeeds(r)
     \/ ~Opens(held, r.name, r.passwd) /\ Fails(r) /\ UNCHANGED certs
  /\ UNCHANGED <<stored, held, default>>

\* The dispatcher calls the handler.
Handle ==
  \E r \in request :
    /\ phase = "up" /\ r.at = "sent"
    /\ \/ AddIdentity(r) \/ DelIdentity(r) \/ ListIdentity(r) \/ DumpCert(r) \/ ImportCert(r)
       \/ SetDef(r) \/ DumpId(r) \/ LoadId(r) \/ GetId(r) \/ SelfIssue(r)
    /\ UNCHANGED <<passwdFile, mirgen, phase, current, session, file>>

-----------------------------------------------------------------------------
\* No identity yet: mirgen, or mir, makes the first.
Init ==
  /\ stored = EmptyMap
  /\ passwdFile = {}
  /\ mirgen = [m \in Runs |-> Gone]
  /\ phase = "down"
  /\ held = EmptyMap
  /\ current = {}
  /\ default = {}
  /\ certs = {}
  /\ session = FALSE
  /\ request = {}
  /\ file = {}

Next ==
  \/ \E m \in Runs : Mirgen(m)
  \/ InitStarter \/ StartMird \/ Stop
  \/ \E p \in Passwds : StartMir(p) \/ Login(p)
  \/ Command \/ Handle \/ Show

Spec == Init /\ [][Next]_vars

-----------------------------------------------------------------------------
(* Properties *)

\* A daemon that runs has the router's own identity unlocked, in memory and in
\* the data base: no command deletes it while packets are signed with it
\* (DelIdentity), in whatever order mirgen, mird, mir and mirc are used.
RunsAsConfigured ==
  phase = "up" =>
    /\ current = {DefaultId}
    /\ DefaultId \in DOMAIN stored \cap DOMAIN held

\* What the identity commands changed is there after a restart: the data base
\* has the identities that the daemon's key chain has, locked by the same
\* passwords, but for the router's own, which mirgen may change meanwhile.
RestartLosesNothing ==
  phase = "up" =>
    /\ DOMAIN held = DOMAIN stored
    /\ \A n \in DOMAIN held \ {DefaultId} : held[n] = stored[n]

\* An identity that mirc writes to a file is locked: the router's own, which is
\* not locked in memory, is read from the data base (DumpId).  This is about files
\* only: what GetId shows is as it is in memory.
ExportsAreLocked == \A f \in file : f.passwd # Empty

\* A password that mirgen leaves for mird opens the identity, unless another run
\* has changed it with -rp meanwhile: nothing that mird, mir, mirc and its commands
\* do while the user is asked, nor a second run that creates the identity too,
\* makes a run save another.  (With -rp it leaves the empty one: ResetIsSaved.)
SavedPasswordOpens ==
  [][\A m \in Runs : mirgen[m].at = "save" /\ passwdFile' # passwdFile /\ mirgen'[m] = Gone
       => \/ mirgen[m].late
          \/ passwdFile' \in {{Empty}, {stored[DefaultId]}}]_vars

\* The password that has been made is put where mird finds it, after -rp as well
\* (daemon/mircmd/mirgen/main.go:103).
ResetIsSaved == [][passwdFile' # passwdFile => passwdFile' = {stored[DefaultId]}]_vars
=============================================================================
