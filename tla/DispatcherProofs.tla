-------------------------- MODULE DispatcherProofs --------------------------
(***************************************************************************)
(* What the dispatcher's clients rely on, whatever tables, names, clients  *)
(* and cache there are.  First, nobody who waits is forgotten: an interest *)
(* that is pending is in the dispatcher's hand until it is answered, and   *)
(* an answer leaves none of the clients it goes to waiting.  Then, what    *)
(* comes to a client that asked for a list is no older than its question,  *)
(* unless it joined others at one in the making, and whole: this follows   *)
(* what the PIT, the list in the making and the cache have for each name   *)
(* that the client will ask for.                                           *)
(***************************************************************************)
EXTENDS Dispatcher, Integers, WellFoundedInduction, TLAPS

\* The fields of a client.
IsClient(s) ==
  s = [at |-> s.at, ask |-> s.ask, since |-> s.since, joins |-> s.joins,
       version |-> s.version, count |-> s.count, of |-> s.of, got |-> s.got]

ClientInv(c) == IsClient(client[c])

WaitInv(c) == Waits(c) => Asked(c) \in DOMAIN pending /\ c \in pending[Asked(c)]

PendingInv(i) == alive /\ Answerable(i) => i \in InHand

IInv ==
  /\ DOMAIN client = Clients
  /\ \A c \in Clients : ClientInv(c)
  /\ \E S : inbox \in Seq(S)
  /\ \A j, k \in job : j = k
  /\ alive => \A c \in Clients : WaitInv(c)
  /\ \A i \in DOMAIN pending : PendingInv(i)

LEMMA InvImplies == IInv => NobodyIsForgotten
BY DEF IInv, WaitInv, PendingInv, NobodyIsForgotten

LEMMA InitInv == Init => IInv
<1>. SUFFICES ASSUME Init PROVE IInv
  OBVIOUS
<1>1. inbox \in Seq({})
  BY DEF Init
<1>. QED  BY <1>1 DEF Init, IInv, ClientInv, IsClient, WaitInv, PendingInv, Waits, Idle, EmptyMap

-----------------------------------------------------------------------------
(* The inbox *)

LEMMA Appends ==
  ASSUME \E S : inbox \in Seq(S), NEW i, inbox' = Append(inbox, i)
  PROVE  /\ \E S : inbox' \in Seq(S)
         /\ \A x : x = i \/ (\E k \in DOMAIN inbox : inbox[k] = x)
                     => \E k \in DOMAIN inbox' : inbox'[k] = x
<1>1. PICK S : inbox \in Seq(S)
  OBVIOUS
<1>2. inbox \in Seq(S \cup {i}) /\ i \in S \cup {i}
  BY <1>1
<1>3. inbox' \in Seq(S \cup {i})
  BY <1>2
<1>4. Len(inbox) \in Nat /\ DOMAIN inbox = 1..Len(inbox) /\ DOMAIN inbox' = 1..(Len(inbox) + 1)
        /\ inbox'[Len(inbox) + 1] = i /\ \A k \in 1..Len(inbox) : inbox'[k] = inbox[k]
  BY <1>2
<1>. QED  BY <1>3, <1>4

LEMMA TakesHead ==
  ASSUME \E S : inbox \in Seq(S), inbox # <<>>, inbox' = Tail(inbox)
  PROVE  /\ \E S : inbox' \in Seq(S)
         /\ \A k \in DOMAIN inbox : inbox[k] # Head(inbox)
              => \E n \in DOMAIN inbox' : inbox'[n] = inbox[k]
<1>1. PICK S : inbox \in Seq(S)
  OBVIOUS
<1>2. inbox' \in Seq(S)
  BY <1>1
<1>3. Len(inbox) \in Nat \ {0} /\ DOMAIN inbox = 1..Len(inbox) /\ Head(inbox) = inbox[1]
        /\ DOMAIN inbox' = 1..(Len(inbox) - 1)
        /\ \A n \in 1..(Len(inbox) - 1) : inbox'[n] = inbox[n + 1]
  BY <1>1
<1>4. ASSUME NEW k \in DOMAIN inbox, inbox[k] # Head(inbox)
      PROVE  \E n \in DOMAIN inbox' : inbox'[n] = inbox[k]
  <2>1. k \in 2..Len(inbox)
    BY <1>3, <1>4
  <2>2. k - 1 \in DOMAIN inbox' /\ inbox'[k - 1] = inbox[k]
    BY <1>3, <2>1
  <2>. QED  BY <2>2
<1>. QED  BY <1>2, <1>4

-----------------------------------------------------------------------------
(* Interests that are sent *)

\* What the dispatcher has in hand it keeps.
HandKept == \A x \in InHand : x \in InHand'

LEMMA Sends ==
  ASSUME IInv, alive, NEW c \in Clients, NEW i, Send(c, i), UNCHANGED job
  PROVE  /\ DOMAIN pending' = DOMAIN pending \cup {i}
         /\ c \in pending'[i]
         /\ \A x \in DOMAIN pending : pending[x] \subseteq pending'[x]
         /\ \A x \in DOMAIN pending' : PendingInv(x)'
         /\ \E S : inbox' \in Seq(S)
<1>0. \A x \in DOMAIN pending : alive /\ Answerable(x) => x \in InHand
  BY DEF IInv, PendingInv
<1>1. CASE i \in DOMAIN pending
  <2>1. pending' = [pending EXCEPT ![i] = @ \cup {c}] /\ UNCHANGED inbox
    BY <1>1 DEF Send
  <2>2. /\ DOMAIN pending' = DOMAIN pending
        /\ pending'[i] = pending[i] \cup {c}
        /\ \A x \in DOMAIN pending : x # i => pending'[x] = pending[x]
    BY <1>1, <2>1
  <2>3. InHand' = InHand
    BY <2>1 DEF InHand
  <2>4. ASSUME NEW x \in DOMAIN pending'
        PROVE  PendingInv(x)'
    BY <1>0, <2>2, <2>3, <2>4 DEF PendingInv, Answerable, Ignored
  <2>. QED  BY <1>1, <2>1, <2>2, <2>4 DEF IInv
<1>2. CASE i \notin DOMAIN pending
  <2>1. pending' = Put(pending, i, {c}) /\ inbox' = Append(inbox, i)
    BY <1>2 DEF Send
  <2>2. /\ DOMAIN pending' = DOMAIN pending \cup {i}
        /\ pending'[i] = {c}
        /\ \A x \in DOMAIN pending : x # i => pending'[x] = pending[x]
    BY <2>1 DEF Put
  <2>3. /\ \E S : inbox' \in Seq(S)
        /\ \A x : x = i \/ (\E k \in DOMAIN inbox : inbox[k] = x)
                    => \E k \in DOMAIN inbox' : inbox'[k] = x
    BY <2>1, Appends DEF IInv
  <2>4. i \in InHand' /\ \A x \in InHand : x \in InHand'
    BY <2>3 DEF InHand
  <2>5. ASSUME NEW x \in DOMAIN pending'
        PROVE  PendingInv(x)'
    BY <1>0, <2>2, <2>4, <2>5 DEF PendingInv, Answerable, Ignored
  <2>. QED  BY <1>2, <2>2, <2>3, <2>5
<1>. QED  BY <1>1, <1>2

\* A client sends an interest and waits for it.
LEMMA SendStep ==
  ASSUME IInv, alive, NEW c \in Clients, NEW i, Send(c, i), UNCHANGED <<job, alive>>,
         DOMAIN client' = Clients, ClientInv(c)', Asked(c)' = i,
         \A d \in Clients : d # c => client'[d] = client[d]
  PROVE  IInv'
<1>1. /\ DOMAIN pending' = DOMAIN pending \cup {i}
      /\ c \in pending'[i]
      /\ \A x \in DOMAIN pending : pending[x] \subseteq pending'[x]
      /\ \A x \in DOMAIN pending' : PendingInv(x)'
      /\ \E S : inbox' \in Seq(S)
  BY Sends
<1>2. ASSUME NEW d \in Clients, d # c
      PROVE  ClientInv(d)' /\ WaitInv(d)'
  <2>1. ClientInv(d) /\ WaitInv(d) /\ client'[d] = client[d]
    BY <1>2 DEF IInv
  <2>2. (Waits(d)' <=> Waits(d)) /\ Asked(d)' = Asked(d)
    BY <2>1 DEF Waits, Asked, Wanted
  <2>. QED  BY <1>1, <2>1, <2>2 DEF ClientInv, WaitInv
<1>3. WaitInv(c)'
  BY <1>1 DEF WaitInv
<1>. QED  BY <1>1, <1>2, <1>3 DEF IInv

LEMMA AskStep ==
  ASSUME IInv, NEW c \in Clients, Ask(c)
  PROVE  IInv'
<1>1. ASSUME NEW i, Begins(c, i)
      PROVE  IInv'
  <2>1. alive /\ Send(c, i) /\ UNCHANGED <<job, alive>> /\ client' = [client EXCEPT ![c] = Asking(i)]
    BY <1>1 DEF Begins
  <2>2. DOMAIN client' = Clients /\ client'[c] = Asking(i)
          /\ \A d \in Clients : d # c => client'[d] = client[d]
    BY <2>1 DEF IInv
  <2>3. ClientInv(c)' /\ Asked(c)' = i
    BY <2>2 DEF Asking, Idle, ClientInv, IsClient, Asked
  <2>. QED  BY <2>1, <2>2, <2>3, SendStep
<1>. QED
  BY <1>1 DEF Ask, AddFib, DeleteNextHop, ListFib, AddLogicFace, DelLogicFace, ListLogicFace,
              Asks, AsksOther

LEMMA FetchSliceStep ==
  ASSUME IInv, NEW c \in Clients, FetchSlice(c)
  PROVE  IInv'
<1>1. alive /\ Send(c, Wanted(c)) /\ UNCHANGED <<job, alive>>
        /\ client' = [client EXCEPT ![c].at = "fetching"]
  BY DEF FetchSlice
<1>2. IsClient(client[c])
  BY DEF IInv, ClientInv
<1>3. /\ DOMAIN client' = Clients
      /\ client'[c] = [client[c] EXCEPT !.at = "fetching"]
      /\ \A d \in Clients : d # c => client'[d] = client[d]
  BY <1>1 DEF IInv
<1>4. IsClient(client'[c]) /\ client'[c].at = "fetching" /\ client'[c].ask = client[c].ask
        /\ client'[c].version = client[c].version /\ client'[c].got = client[c].got
  BY <1>2, <1>3 DEF IsClient
<1>5. ClientInv(c)' /\ Asked(c)' = Wanted(c)
  BY <1>4 DEF ClientInv, Asked, Wanted
<1>. QED  BY <1>1, <1>3, <1>5, SendStep

\* A client stops waiting: its lifetime is over, or its list is shown.
LEMMA StopsStep ==
  ASSUME IInv, NEW c \in Clients, Expire(c) \/ Show(c)
  PROVE  IInv'
<1>1. DOMAIN client' = Clients /\ client'[c] = Idle
        /\ \A d \in Clients : d # c => client'[d] = client[d]
  BY DEF Expire, Show, IInv
<1>2. UNCHANGED <<inbox, job, alive>>
  BY DEF Expire, Show
<1>3. /\ DOMAIN pending' \subseteq DOMAIN pending
      /\ \A x \in DOMAIN pending : \A d \in pending[x] : d # c =>
           x \in DOMAIN pending' /\ d \in pending'[x]
  <2>1. CASE Expire(c)
    BY <2>1 DEF Expire
  <2>2. CASE Show(c)
    BY <2>2 DEF Show
  <2>. QED  BY <2>1, <2>2
<1>4. ASSUME NEW d \in Clients
      PROVE  ClientInv(d)' /\ (alive => WaitInv(d)')
  <2>1. CASE d = c
    BY <1>1, <2>1 DEF ClientInv, IsClient, WaitInv, Waits, Idle
  <2>2. CASE d # c
    <3>1. ClientInv(d) /\ (alive => WaitInv(d)) /\ client'[d] = client[d]
      BY <1>1, <2>2 DEF IInv
    <3>2. (Waits(d)' <=> Waits(d)) /\ Asked(d)' = Asked(d)
      BY <3>1 DEF Waits, Asked, Wanted
    <3>. QED  BY <1>3, <2>2, <3>1, <3>2 DEF ClientInv, WaitInv
  <2>. QED  BY <2>1, <2>2
<1>5. ASSUME NEW x \in DOMAIN pending'
      PROVE  PendingInv(x)'
  <2>1. PendingInv(x)
    BY <1>3, <1>5 DEF IInv
  <2>2. InHand' = InHand
    BY <1>2 DEF InHand
  <2>. QED  BY <1>2, <1>3, <1>5, <2>1, <2>2 DEF PendingInv, Answerable, Ignored
<1>. QED  BY <1>1, <1>2, <1>4, <1>5 DEF IInv

-----------------------------------------------------------------------------
(* Answers *)

\* An answer leaves no client waiting that it comes to.
LEMMA AfterAnswer ==
  ASSUME NEW s, NEW r, IsClient(s)
  PROVE  LET a == After(s, r)
         IN  IsClient(a) /\ a.at \notin {"asking", "fetching"}
<1>. DEFINE a == After(s, r)
<1>1. CASE s.at = "asking" /\ r.kind = "meta"
  <2>1. a = [Idle EXCEPT !.at = "ready", !.ask = s.ask,
                         !.version = r.version, !.count = r.count, !.of = r.of]
    BY <1>1 DEF After
  <2>. QED  BY <2>1 DEF Idle, IsClient
<1>2. CASE ~(s.at = "asking" /\ r.kind = "meta") /\ s.at = "fetching" /\ r.kind = "slice"
  <2>. DEFINE g == Append(s.got, [of |-> r.of, bytes |-> r.bytes])
              w == IF Len(s.got) + 1 = s.count THEN "done" ELSE "ready"
  <2>1. a = [s EXCEPT !.got = g, !.at = w]
    BY <1>2 DEF After
  <2>2. w \notin {"asking", "fetching"}
    OBVIOUS
  <2>. HIDE DEF g, w
  <2>. QED  BY <2>1, <2>2 DEF IsClient
<1>3. CASE ~(s.at = "asking" /\ r.kind = "meta") /\ ~(s.at = "fetching" /\ r.kind = "slice")
  BY <1>3 DEF After, Idle, IsClient
<1>. QED  BY <1>1, <1>2, <1>3

\* i is answered; everything else in hand is kept.
LEMMA AnswerStep ==
  ASSUME IInv, alive, NEW i, NEW r, Answer(i, r), UNCHANGED alive,
         \E S : inbox' \in Seq(S), \A j, k \in job' : j = k,
         \A x \in InHand : x # i => x \in InHand'
  PROVE  IInv'
<1>1. DOMAIN pending' = DOMAIN pending \ {i} /\ \A x \in DOMAIN pending' : pending'[x] = pending[x]
  BY DEF Answer, Drop
<1>2. DOMAIN client' = Clients
  BY DEF Answer
<1>3. ASSUME NEW c \in Clients
      PROVE  ClientInv(c)' /\ WaitInv(c)'
  <2>1. ClientInv(c) /\ WaitInv(c)
    BY DEF IInv
  <2>2. CASE i \in DOMAIN pending /\ c \in pending[i]
    <3>1. client'[c] = After(client[c], r)
      BY <2>2 DEF Answer
    <3>. QED  BY <2>1, <3>1, AfterAnswer DEF ClientInv, WaitInv, Waits
  <2>3. CASE ~(i \in DOMAIN pending /\ c \in pending[i])
    <3>1. client'[c] = client[c]
      BY <2>3 DEF Answer
    <3>2. (Waits(c)' <=> Waits(c)) /\ Asked(c)' = Asked(c)
      BY <3>1 DEF Waits, Asked, Wanted
    <3>. QED  BY <1>1, <2>1, <2>3, <3>1, <3>2 DEF ClientInv, WaitInv
  <2>. QED  BY <2>2, <2>3
<1>4. ASSUME NEW x \in DOMAIN pending'
      PROVE  PendingInv(x)'
  <2>1. PendingInv(x) /\ x # i /\ pending'[x] = pending[x]
    BY <1>1, <1>4 DEF IInv
  <2>. QED  BY <2>1 DEF PendingInv, Answerable, Ignored
<1>. QED  BY <1>2, <1>3, <1>4 DEF IInv

\* i is taken and left, because nobody can be answered or the daemon ends.
LEMMA LeaveStep ==
  ASSUME IInv, NEW i, UNCHANGED <<pending, client>>, alive' => alive,
         \E S : inbox' \in Seq(S), \A j, k \in job' : j = k,
         alive' /\ Answerable(i) => i \in InHand',
         \A x \in InHand : x # i => x \in InHand'
  PROVE  IInv'
<1>1. ASSUME NEW c \in Clients
      PROVE  ClientInv(c)' /\ (alive' => WaitInv(c)')
  BY DEF IInv, ClientInv, WaitInv, Waits, Asked, Wanted
<1>2. ASSUME NEW x \in DOMAIN pending'
      PROVE  PendingInv(x)'
  <2>1. PendingInv(x) /\ pending'[x] = pending[x]
    BY <1>2 DEF IInv
  <2>. QED  BY <2>1 DEF PendingInv, Answerable, Ignored
<1>. QED  BY <1>1, <1>2 DEF IInv

\* The loop takes an interest while it is at no list.
LEMMA TakesOne ==
  ASSUME IInv, NEW i, inbox # <<>>, Takes(i)
  PROVE  /\ alive
         /\ \E S : inbox' \in Seq(S)
         /\ \A x \in InHand : x # i => \E k \in DOMAIN inbox' : inbox'[k] = x
<1>1. alive /\ job = {} /\ i = Head(inbox) /\ inbox' = Tail(inbox)
  BY DEF Takes
<1>2. /\ \E S : inbox' \in Seq(S)
      /\ \A k \in DOMAIN inbox : inbox[k] # Head(inbox)
           => \E n \in DOMAIN inbox' : inbox'[n] = inbox[k]
  BY <1>1, TakesHead DEF IInv
<1>. QED  BY <1>1, <1>2 DEF InHand

LEMMA HandleStep ==
  ASSUME IInv, NEW i, inbox # <<>>, Handle(i)
  PROVE  IInv'
<1>0. Takes(i)
  BY DEF Handle, Ignore, Refuse, ParseFails, Hit, Execute, DialUnixFails, DelInnerFace,
         ServeInfo, Collect, Misses
<1>1. /\ alive
      /\ \E S : inbox' \in Seq(S)
      /\ \A x \in InHand : x # i => \E k \in DOMAIN inbox' : inbox'[k] = x
  BY <1>0, TakesOne
<1>2. \A x \in InHand : x # i => x \in InHand'
  BY <1>1 DEF InHand
<1>3. job = {}
  BY <1>0 DEF Takes
<1>4. ASSUME NEW r, Answer(i, r), UNCHANGED <<alive, job>>
      PROVE  IInv'
  <2>1. \A j, k \in job' : j = k
    BY <1>3, <1>4
  <2>. QED  BY <1>1, <1>2, <1>4, <2>1, AnswerStep
<1>5. CASE Refuse(i)
  BY <1>4, <1>5 DEF Refuse, Refusal
<1>6. CASE Hit(i)
  BY <1>4, <1>6 DEF Hit, tables
<1>7. CASE Execute(i)
  <2>1. (\E r : Answer(i, r)) /\ UNCHANGED <<alive, job>>
    BY <1>7 DEF Execute, AddNextHop, RemoveNextHop, AddFace, DelFace, ChangeConfig
  <2>. QED  BY <1>4, <2>1
<1>8. CASE Ignore(i) \/ ServeInfo(i)
  <2>1. UNCHANGED <<pending, client, alive, job>> /\ ~Answerable(i)
    BY <1>8 DEF Ignore, ServeInfo, Misses, Answerable
  <2>2. \A j, k \in job' : j = k
    BY <1>3, <2>1
  <2>. QED  BY <1>1, <1>2, <2>1, <2>2, LeaveStep
<1>9. CASE ParseFails(i) \/ DialUnixFails(i) \/ DelInnerFace(i)
  <2>1. UNCHANGED <<pending, client, job>> /\ ~alive'
    BY <1>9 DEF ParseFails, DialUnixFails, DelInnerFace, Ends
  <2>2. \A j, k \in job' : j = k
    BY <1>3, <2>1
  <2>. QED  BY <1>1, <1>2, <2>1, <2>2, LeaveStep
<1>10. CASE Collect(i)
  <2>1. UNCHANGED <<pending, client, alive>> /\ job' = {[ask |-> i, from |-> changes[TableOf(i)]]}
    BY <1>10 DEF Collect
  <2>2. i \in InHand' /\ \A j, k \in job' : j = k
    BY <2>1 DEF InHand
  <2>. QED  BY <1>1, <1>2, <2>1, <2>2, LeaveStep
<1>. QED  BY <1>5, <1>6, <1>7, <1>8, <1>9, <1>10 DEF Handle

LEMMA PublishStep ==
  ASSUME IInv, Publish
  PROVE  IInv'
<1>1. PICK j \in job : /\ alive
                       /\ \E b : Done(j.ask, version[TableOf(j.ask)], List(j.from, b))
                       /\ job' = {}
                       /\ UNCHANGED <<tables, inbox, alive>>
  BY DEF Publish
<1>2. \E r : Answer(j.ask, r)
  BY <1>1 DEF Done
<1>3. \A x \in InHand : x # j.ask => x \in InHand'
  BY <1>1 DEF InHand, IInv
<1>4. (\E S : inbox' \in Seq(S)) /\ \A m, n \in job' : m = n
  BY <1>1 DEF IInv
<1>. QED  BY <1>1, <1>2, <1>3, <1>4, AnswerStep

-----------------------------------------------------------------------------
(* Nobody is forgotten *)

LEMMA NextInv == IInv /\ [Next]_vars => IInv'
<1>. SUFFICES ASSUME IInv, [Next]_vars PROVE IInv'
  OBVIOUS
<1>1. CASE \E c \in Clients : Ask(c) \/ FetchSlice(c) \/ Expire(c) \/ Show(c)
  BY <1>1, AskStep, FetchSliceStep, StopsStep
<1>2. CASE Serve
  BY <1>2, HandleStep, PublishStep DEF Serve
<1>3. CASE UNCHANGED <<inbox, pending, job, client, alive>>
  <2>1. UNCHANGED InHand
    BY <1>3 DEF InHand
  <2>2. (\E S : inbox' \in Seq(S)) /\ \A j, k \in job' : j = k
    BY <1>3 DEF IInv
  <2>3. \A x \in DOMAIN pending : Answerable(x) /\ alive => x \in InHand
    BY DEF IInv, PendingInv
  <2>4. ASSUME NEW c \in Clients
        PROVE  ClientInv(c)' /\ (alive' => WaitInv(c)')
    BY <1>3 DEF IInv, ClientInv, WaitInv, Waits, Asked, Wanted
  <2>5. ASSUME NEW x \in DOMAIN pending'
        PROVE  PendingInv(x)'
    BY <1>3, <2>1, <2>5 DEF IInv, PendingInv
  <2>. QED  BY <1>3, <2>2, <2>4, <2>5 DEF IInv
<1>. QED  BY <1>1, <1>2, <1>3 DEF Next, Elsewhere, vars

LEMMA Invariance == Spec => []IInv
BY InitInv, NextInv, PTL DEF Spec

\* Whoever waits for the dispatcher's answer is in the PIT under the name it
\* asked for, and that interest is in the inner face's queue or the list that
\* Start is at, unless it is one that Start or CsManager.serveInfo never answers:
\* no early return of Start and no handler drops one.
THEOREM NobodyIsEverForgotten == Spec => []NobodyIsForgotten
BY Invariance, InvImplies, PTL

-----------------------------------------------------------------------------
(* Induction *)

LEMMA Induction ==
  ASSUME NEW S, S \subseteq Nat, 0 \in S, \A n \in S : n + 1 \in S
  PROVE  S = Nat
<1>. SUFFICES ASSUME S # Nat PROVE FALSE
  OBVIOUS
<1>. DEFINE R == OpToRel(<, Nat)
            T == Nat \ S
<1>1. \E x \in T : \A y \in T : <<y, x>> \notin R
  <2>1. IsWellFoundedOn(R, Nat) /\ T \subseteq Nat /\ T # {}
    BY NatLessThanWellFounded
  <2>. HIDE DEF R, T
  <2>. QED  BY <2>1, WFMin
<1>2. \A x, y \in Nat : <<y, x>> \in R <=> y < x
  BY DEF OpToRel
<1>. HIDE DEF R
<1>3. PICK n \in T : \A m \in T : <<m, n>> \notin R
  BY <1>1
<1>4. n \in Nat /\ n # 0 /\ n - 1 \in Nat /\ n - 1 < n
  OBVIOUS
<1>5. n - 1 \notin T
  BY <1>2, <1>3, <1>4
<1>. QED  BY <1>4, <1>5

-----------------------------------------------------------------------------
(* The cache and the names touched last *)

Entries(list) == {list[k] : k \in DOMAIN list}

\* The cache has one entry for each of the names touched last, in their order.
Lockstep(list, names) ==
  /\ \E S : list \in Seq(S)
  /\ names = [k \in 1 .. Len(list) |-> list[k].key]
  /\ \A k \in DOMAIN list : list[k] = [key |-> list[k].key, value |-> list[k].value]
  /\ \A k, m \in DOMAIN list : list[k].key = list[m].key => k = m
  /\ CacheSize # 0 => Len(list) <= CacheSize

LEMMA Places ==
  ASSUME NEW list, NEW names, Lockstep(list, names), NEW key \in Keys(list)
  PROVE  /\ Place(list, key) \in DOMAIN list /\ list[Place(list, key)].key = key
         /\ DOMAIN names = DOMAIN list
         /\ \E k \in DOMAIN names : names[k] = key
         /\ (CHOOSE k \in DOMAIN names : names[k] = key) = Place(list, key)
<1>1. \E k \in DOMAIN list : list[k].key = key
  BY DEF Keys
<1>2. Place(list, key) \in DOMAIN list /\ list[Place(list, key)].key = key
  BY <1>1 DEF Place
<1>3. DOMAIN names = DOMAIN list /\ \A k \in DOMAIN names : names[k] = list[k].key
  <2>1. PICK S : list \in Seq(S)
    BY DEF Lockstep
  <2>2. DOMAIN list = 1 .. Len(list)
    BY <2>1
  <2>. QED  BY <2>2 DEF Lockstep
<1>4. \A k \in DOMAIN names : names[k] = key => k = Place(list, key)
  BY <1>2, <1>3 DEF Lockstep
<1>. QED  BY <1>2, <1>3, <1>4

LEMMA Moves ==
  ASSUME NEW S, NEW list \in Seq(S), NEW p \in DOMAIN list
  PROVE  LET m == MoveToFront(list, p)
             From(n) == IF n = 1 THEN p ELSE IF n <= p THEN n - 1 ELSE n
         IN  /\ m \in Seq(S) /\ DOMAIN m = DOMAIN list /\ Len(m) = Len(list)
             /\ \A n \in DOMAIN m : From(n) \in DOMAIN list /\ m[n] = list[From(n)]
             /\ \A n, k \in DOMAIN m : From(n) = From(k) => n = k
             /\ \A n \in DOMAIN list : \E k \in DOMAIN m : From(k) = n
<1>. DEFINE m == MoveToFront(list, p)
            From(n) == IF n = 1 THEN p ELSE IF n <= p THEN n - 1 ELSE n
<1>1. DOMAIN list = 1 .. Len(list) /\ Len(list) \in Nat /\ p \in 1 .. Len(list)
  OBVIOUS
<1>2. ASSUME NEW n \in 1 .. Len(list)
      PROVE  From(n) \in 1 .. Len(list) /\ m[n] = list[From(n)]
  BY <1>1 DEF MoveToFront
<1>3. m = [n \in 1 .. Len(list) |-> m[n]]
  BY <1>1 DEF MoveToFront
<1>4. \A n \in 1 .. Len(list) : m[n] \in S
  BY <1>2
<1>5. m \in Seq(S) /\ DOMAIN m = 1 .. Len(list) /\ Len(m) = Len(list)
  <2>. HIDE DEF m
  <2>. QED  BY <1>1, <1>3, <1>4
<1>6. \A n, k \in 1 .. Len(list) : From(n) = From(k) => n = k
  BY <1>1
<1>7. ASSUME NEW n \in 1 .. Len(list)
      PROVE  \E k \in 1 .. Len(list) : From(k) = n
  <2>1. CASE n = p
    BY <1>1, <2>1
  <2>2. CASE n < p
    <3>1. n + 1 \in 1 .. Len(list) /\ From(n + 1) = n
      BY <1>1, <2>2
    <3>. QED  BY <3>1
  <2>3. CASE n > p
    BY <1>1, <2>3
  <2>. QED  BY <1>1, <2>1, <2>2, <2>3
<1>. HIDE DEF m, From
<1>8. /\ m \in Seq(S) /\ DOMAIN m = DOMAIN list /\ Len(m) = Len(list)
      /\ \A n \in DOMAIN m : From(n) \in DOMAIN list /\ m[n] = list[From(n)]
      /\ \A n, k \in DOMAIN m : From(n) = From(k) => n = k
      /\ \A n \in DOMAIN list : \E k \in DOMAIN m : From(k) = n
  BY <1>1, <1>2, <1>5, <1>6, <1>7
<1>. QED  BY <1>8 DEF m, From

\* The entry found moves to the front, as does its name.
LEMMA GetsOne ==
  ASSUME NEW list, NEW names, Lockstep(list, names), NEW key \in Keys(list)
  PROVE  /\ Lockstep(Get(list, key), Touch(names, key))
         /\ Entries(Get(list, key)) = Entries(list)
         /\ Lookup(list, key) \in Entries(list) /\ Lookup(list, key).key = key
<1>. DEFINE p == Place(list, key)
            m == MoveToFront(list, p)
            From(n) == IF n = 1 THEN p ELSE IF n <= p THEN n - 1 ELSE n
<1>1. PICK S : list \in Seq(S)
  BY DEF Lockstep
<1>2. /\ p \in DOMAIN list /\ list[p].key = key
      /\ DOMAIN names = DOMAIN list
      /\ \E k \in DOMAIN names : names[k] = key
      /\ (CHOOSE k \in DOMAIN names : names[k] = key) = p
  BY Places
<1>3. /\ m \in Seq(S) /\ DOMAIN m = DOMAIN list /\ Len(m) = Len(list)
      /\ \A n \in DOMAIN m : From(n) \in DOMAIN list /\ m[n] = list[From(n)]
      /\ \A n, k \in DOMAIN m : From(n) = From(k) => n = k
      /\ \A n \in DOMAIN list : \E k \in DOMAIN m : From(k) = n
  <2>. HIDE DEF p
  <2>. QED  BY <1>1, <1>2, Moves
<1>4. DOMAIN list = 1 .. Len(list) /\ Len(list) \in Nat
  BY <1>1
<1>5. Get(list, key) = m
  BY DEF Get
<1>6. Lookup(list, key) \in Entries(list) /\ Lookup(list, key).key = key
  BY <1>2 DEF Lookup, Entries
<1>7. Touch(names, key) = [k \in 1 .. Len(list) |-> m[k].key]
  <2>1. names = [k \in 1 .. Len(list) |-> list[k].key]
    BY DEF Lockstep
  <2>2. MoveToFront(names, p) = [k \in 1 .. Len(list) |-> names[From(k)]]
    BY <2>1 DEF MoveToFront
  <2>. HIDE DEF p, m, From
  <2>3. \A k \in 1 .. Len(list) : names[From(k)] = m[k].key
    BY <1>3, <1>4, <2>1
  <2>4. MoveToFront(names, p) = [k \in 1 .. Len(list) |-> m[k].key]
    BY <2>2, <2>3
  <2>5. Len([k \in 1 .. Len(list) |-> m[k].key]) = Len(list)
    BY <1>4
  <2>6. ~(CacheSize # 0 /\ Len(MoveToFront(names, p)) > CacheSize)
    BY <1>4, <2>4, <2>5, CacheSizeAssumption DEF Lockstep
  <2>. QED  BY <1>2, <2>4, <2>6 DEF Touch
<1>. HIDE DEF p, m, From
<1>8. Lockstep(m, Touch(names, key))
  <2>1. \A k \in DOMAIN m : m[k] = [key |-> m[k].key, value |-> m[k].value]
    BY <1>3 DEF Lockstep
  <2>2. \A k, n \in DOMAIN m : m[k].key = m[n].key => k = n
    <3>. SUFFICES ASSUME NEW k \in DOMAIN m, NEW n \in DOMAIN m, m[k].key = m[n].key
                  PROVE  k = n
      OBVIOUS
    <3>1. list[From(k)].key = list[From(n)].key /\ From(k) \in DOMAIN list /\ From(n) \in DOMAIN list
      BY <1>3
    <3>2. From(k) = From(n)
      BY <3>1 DEF Lockstep
    <3>. QED  BY <1>3, <3>2
  <2>3. CacheSize # 0 => Len(m) <= CacheSize
    BY <1>3 DEF Lockstep
  <2>. QED  BY <1>3, <1>7, <2>1, <2>2, <2>3 DEF Lockstep
<1>9. Entries(m) = Entries(list)
  BY <1>3 DEF Entries
<1>. QED  BY <1>5, <1>6, <1>8, <1>9

\* What is saved is in front, and replaces what the name had.
LEMMA AddsOne ==
  ASSUME NEW list, NEW names, Lockstep(list, names), NEW key, NEW value
  PROVE  /\ Lockstep(Add(list, key, value), Touch(names, key))
         /\ \A e \in Entries(Add(list, key, value)) :
              \/ e = [key |-> key, value |-> value]
              \/ e \in Entries(list) /\ e.key # key
<1>. DEFINE new == [key |-> key, value |-> value]
<1>0. PICK S : list \in Seq(S)
  BY DEF Lockstep
<1>1. DOMAIN list = 1 .. Len(list)
  BY <1>0
<1>4. Len(list) \in Nat
  BY <1>0
<1>2. CASE key \in Keys(list)
  <2>. DEFINE p == Place(list, key)
              put == [list EXCEPT ![p].value = value]
  <2>1. p \in DOMAIN list /\ list[p].key = key
    BY <1>2, Places
  <2>2. /\ DOMAIN put = DOMAIN list
        /\ put[p] = new
        /\ \A k \in DOMAIN list : k # p => put[k] = list[k]
    <3>1. list[p] = [key |-> key, value |-> list[p].value]
      BY <2>1 DEF Lockstep
    <3>. HIDE DEF p
    <3>. QED  BY <2>1, <3>1
  <2>3. put \in Seq(S \cup {new}) /\ Len(put) = Len(list)
    <3>1. put = [k \in 1 .. Len(list) |-> put[k]]
      BY <1>1
    <3>2. \A k \in 1 .. Len(list) : put[k] \in S \cup {new}
      <4>. HIDE DEF p, put, new
      <4>. QED  BY <1>0, <1>1, <1>4, <2>2
    <3>. HIDE DEF put, new
    <3>. QED  BY <1>1, <1>4, <3>1, <3>2
  <2>. HIDE DEF p, put
  <2>4. \A k \in DOMAIN list : put[k].key = list[k].key
    BY <2>1, <2>2
  <2>5. Lockstep(put, names)
    <3>1. names = [k \in 1 .. Len(put) |-> put[k].key]
      <4>1. names = [k \in 1 .. Len(list) |-> list[k].key]
        BY DEF Lockstep
      <4>. QED  BY <1>1, <1>4, <2>3, <2>4, <4>1
    <3>2. \A k \in DOMAIN put : put[k] = [key |-> put[k].key, value |-> put[k].value]
      BY <2>2 DEF Lockstep
    <3>3. \A k, m \in DOMAIN put : put[k].key = put[m].key => k = m
      BY <2>2, <2>4 DEF Lockstep
    <3>4. CacheSize # 0 => Len(put) <= CacheSize
      BY <2>3 DEF Lockstep
    <3>. QED  BY <2>3, <3>1, <3>2, <3>3, <3>4 DEF Lockstep
  <2>6. key \in Keys(put)
    BY <2>1, <2>2 DEF Keys
  <2>7. Lockstep(Get(put, key), Touch(names, key)) /\ Entries(Get(put, key)) = Entries(put)
    BY <2>5, <2>6, GetsOne
  <2>8. RemoveOldest(Get(put, key)) = Get(put, key)
    <3>1. (\E T : Get(put, key) \in Seq(T)) /\ (CacheSize # 0 => Len(Get(put, key)) <= CacheSize)
      BY <2>7 DEF Lockstep
    <3>2. Len(Get(put, key)) \in Nat
      BY <3>1
    <3>. QED  BY <3>1, <3>2, CacheSizeAssumption DEF RemoveOldest
  <2>9. Add(list, key, value) = Get(put, key)
    BY <1>2, <2>8 DEF Add, p, put
  <2>10. ASSUME NEW e \in Entries(put)
         PROVE  e = new \/ (e \in Entries(list) /\ e.key # key)
    <3>1. PICK k \in DOMAIN list : e = put[k]
      BY <2>2 DEF Entries
    <3>2. CASE k = p
      BY <2>2, <3>1, <3>2
    <3>3. CASE k # p
      <4>1. e = list[k] /\ list[k].key # key
        BY <2>1, <2>2, <3>1, <3>3 DEF Lockstep
      <4>. QED  BY <4>1 DEF Entries
    <3>. QED  BY <3>2, <3>3
  <2>. QED  BY <2>7, <2>9, <2>10
<1>3. CASE key \notin Keys(list)
  <2>. DEFINE all == <<new>> \o list
              r == RemoveOldest(all)
              some == <<key>> \o names
  <2>1. /\ all \in Seq(S \cup {new}) /\ Len(all) = Len(list) + 1 /\ all[1] = new
        /\ \A k \in 2 .. Len(list) + 1 : all[k] = list[k - 1]
    <3>1. <<new>> \in Seq(S \cup {new}) /\ list \in Seq(S \cup {new}) /\ Len(<<new>>) = 1
      BY <1>0
    <3>. HIDE DEF new
    <3>. QED  BY <1>1, <1>4, <3>1
  <2>2. names = [k \in 1 .. Len(list) |-> list[k].key]
    BY DEF Lockstep
  <2>3. \A k \in DOMAIN list : list[k].key # key
    BY <1>3 DEF Keys
  <2>4. /\ some = [k \in 1 .. Len(list) + 1 |-> IF k = 1 THEN key ELSE list[k - 1].key]
        /\ Len(some) = Len(list) + 1
    <3>. DEFINE T == {list[k].key : k \in DOMAIN list} \cup {key}
    <3>1. <<key>> \in Seq(T) /\ names \in Seq(T) /\ Len(<<key>>) = 1 /\ Len(names) = Len(list)
      BY <1>1, <1>4, <2>2
    <3>2. /\ some \in Seq(T) /\ Len(some) = Len(list) + 1 /\ some[1] = key
          /\ \A k \in 2 .. Len(list) + 1 : some[k] = names[k - 1]
      <4>. HIDE DEF T
      <4>. QED  BY <1>1, <1>4, <3>1
    <3>3. \A k \in 2 .. Len(list) + 1 : k - 1 \in 1 .. Len(list)
      BY <1>4
    <3>4. \A k \in 2 .. Len(list) + 1 : some[k] = list[k - 1].key
      BY <2>2, <3>2, <3>3
    <3>5. \A k \in 1 .. Len(list) + 1 : k = 1 \/ k \in 2 .. Len(list) + 1
      BY <1>4
    <3>6. DOMAIN some = 1 .. Len(list) + 1 /\ some = [k \in DOMAIN some |-> some[k]]
      <4>. HIDE DEF some, T
      <4>. QED  BY <1>1, <1>4, <3>2
    <3>. HIDE DEF some
    <3>. QED  BY <3>2, <3>4, <3>5, <3>6
  <2>. DEFINE len == IF CacheSize # 0 /\ Len(list) + 1 > CacheSize THEN CacheSize ELSE Len(list) + 1
  <2>5. /\ len \in 1 .. Len(list) + 1 /\ (CacheSize # 0 => len <= CacheSize)
        /\ CacheSize # 0 /\ Len(list) + 1 > CacheSize => len = Len(list)
    <3>1. CacheSize \in Nat /\ (CacheSize # 0 => Len(list) <= CacheSize)
      BY CacheSizeAssumption DEF Lockstep
    <3>2. CASE CacheSize # 0 /\ Len(list) + 1 > CacheSize
      <4>1. CacheSize = Len(list) /\ Len(list) >= 1
        BY <1>4, <3>1, <3>2
      <4>2. len = Len(list)
        BY <3>2, <4>1
      <4>. HIDE DEF len
      <4>. QED  BY <1>4, <4>1, <4>2
    <3>3. CASE ~(CacheSize # 0 /\ Len(list) + 1 > CacheSize)
      <4>1. len = Len(list) + 1
        BY <3>3
      <4>. HIDE DEF len
      <4>. QED  BY <1>4, <3>1, <3>3, <4>1
    <3>. QED  BY <3>2, <3>3
  <2>6. r \in Seq(S \cup {new}) /\ Len(r) = len /\ \A k \in 1 .. len : r[k] = all[k]
    <3>. HIDE DEF all, new
    <3>1. CASE CacheSize # 0 /\ Len(list) + 1 > CacheSize
      <4>1. r = SubSeq(all, 1, len)
        BY <1>1, <1>4, <2>1, <2>5, <3>1 DEF RemoveOldest
      <4>. HIDE DEF r, len
      <4>2. len \in Nat /\ len <= Len(all)
        BY <1>4, <2>1, <2>5
      <4>. QED  BY <2>1, <4>1, <4>2
    <3>2. CASE ~(CacheSize # 0 /\ Len(list) + 1 > CacheSize)
      BY <2>1, <3>2 DEF RemoveOldest
    <3>. QED  BY <3>1, <3>2
  <2>7. Touch(names, key) = [k \in 1 .. len |-> IF k = 1 THEN key ELSE list[k - 1].key]
    <3>1. ~\E k \in DOMAIN names : names[k] = key
      BY <1>1, <1>4, <2>2, <2>3
    <3>2. Touch(names, key) = IF CacheSize # 0 /\ Len(some) > CacheSize
                              THEN SubSeq(some, 1, CacheSize) ELSE some
      BY <3>1 DEF Touch
    <3>3. CASE CacheSize # 0 /\ Len(list) + 1 > CacheSize
      <4>1. Touch(names, key) = SubSeq(some, 1, len)
        BY <2>4, <3>2, <3>3
      <4>. DEFINE T == {key} \cup {list[k].key : k \in DOMAIN list}
      <4>. HIDE DEF some, len
      <4>2. some \in Seq(T) /\ DOMAIN some = 1 .. Len(list) + 1
        <5>1. \A k \in 1 .. Len(list) + 1 : k # 1 => k - 1 \in DOMAIN list
          BY <1>1, <1>4
        <5>2. \A k \in 1 .. Len(list) + 1 : (IF k = 1 THEN key ELSE list[k - 1].key) \in T
          BY <5>1
        <5>. HIDE DEF T
        <5>. QED  BY <1>1, <1>4, <2>4, <5>2
      <4>3. len \in Nat /\ len <= Len(some) /\ 1 .. len \subseteq 1 .. Len(list) + 1
        BY <1>4, <2>4, <2>5
      <4>. HIDE DEF T
      <4>4. SubSeq(some, 1, len) = [k \in 1 .. len |-> some[k]]
        BY <4>2, <4>3
      <4>5. \A k \in 1 .. len : some[k] = IF k = 1 THEN key ELSE list[k - 1].key
        BY <2>4, <4>3
      <4>. QED  BY <4>1, <4>4, <4>5
    <3>4. CASE ~(CacheSize # 0 /\ Len(list) + 1 > CacheSize)
      <4>1. Touch(names, key) = some /\ len = Len(list) + 1
        BY <2>4, <3>2, <3>4
      <4>. HIDE DEF some, len
      <4>. QED  BY <2>4, <4>1
    <3>. QED  BY <3>3, <3>4
  <2>8. Add(list, key, value) = r
    BY <1>3 DEF Add
  <2>9. /\ DOMAIN r = 1 .. len /\ len \in Nat
        /\ r[1] = new
        /\ \A k \in 2 .. len : r[k] = list[k - 1] /\ k - 1 \in DOMAIN list
        /\ \A k \in 1 .. len : k = 1 \/ k \in 2 .. len
    <3>1. \A k \in 2 .. len : k \in 1 .. len /\ k \in 2 .. Len(list) + 1 /\ k - 1 \in DOMAIN list
      <4>. HIDE DEF len
      <4>1. \A k \in 2 .. len : k \in 1 .. len /\ k \in 2 .. Len(list) + 1 /\ k - 1 \in 1 .. Len(list)
        BY <1>4, <2>5
      <4>. QED  BY <1>1, <4>1
    <3>2. 1 \in 1 .. len /\ len \in Nat /\ \A k \in 1 .. len : k = 1 \/ k \in 2 .. len
      <4>. HIDE DEF len
      <4>. QED  BY <1>4, <2>5
    <3>3. DOMAIN r = 1 .. len
      BY <2>6
    <3>. HIDE DEF r, all, new, len
    <3>. QED  BY <2>1, <2>6, <3>1, <3>2, <3>3
  <2>. HIDE DEF r, all, len
  <2>10. \A k \in 1 .. len : r[k].key = IF k = 1 THEN key ELSE list[k - 1].key
    BY <2>9
  <2>11. \A k \in DOMAIN r : r[k] = [key |-> r[k].key, value |-> r[k].value]
    BY <2>9 DEF Lockstep
  <2>12. ASSUME NEW k \in DOMAIN r, NEW m \in DOMAIN r, r[k].key = r[m].key
         PROVE  k = m
    <3>1. CASE k = 1
      BY <2>3, <2>9, <2>10, <2>12, <3>1
    <3>2. CASE m = 1
      BY <2>3, <2>9, <2>10, <2>12, <3>2
    <3>3. CASE k # 1 /\ m # 1
      <4>1. k - 1 \in DOMAIN list /\ m - 1 \in DOMAIN list /\ list[k - 1].key = list[m - 1].key
        BY <2>9, <2>12, <3>3
      <4>2. k - 1 = m - 1
        BY <4>1 DEF Lockstep
      <4>. QED  BY <2>9, <4>2
    <3>. QED  BY <3>1, <3>2, <3>3
  <2>13. Touch(names, key) = [k \in 1 .. Len(r) |-> r[k].key]
    BY <2>6, <2>7, <2>10
  <2>14. Lockstep(r, Touch(names, key))
    BY <2>5, <2>6, <2>11, <2>12, <2>13 DEF Lockstep
  <2>15. ASSUME NEW e \in Entries(r)
         PROVE  e = new \/ (e \in Entries(list) /\ e.key # key)
    BY <2>3, <2>9 DEF Entries
  <2>. QED  BY <2>8, <2>14, <2>15
<1>. QED  BY <1>2, <1>3

-----------------------------------------------------------------------------
(* The loop of Done, and the sum of what a client got *)

Saves(i, v, of, f, k) ==
  IF k = 0 THEN cache
  ELSE Add(f[k - 1], SliceName(i, v, k - 1), SliceAt(of, k - 1))

Touches(i, v, f, k) == IF k = 0 THEN recent ELSE Touch(f[k - 1], SliceName(i, v, k - 1))

Sums(got, f, k) == IF k = 0 THEN 0 ELSE f[k - 1] + got[k].bytes

\* The functions that are defined by recursion exist, so what defines them holds.
LEMMA SavedIs ==
  ASSUME NEW i, NEW v, NEW of, NEW n \in Nat
  PROVE  \E f : /\ Saved(i, v, of, n) = f[n]
                /\ \A k \in 0 .. n : f[k] = Saves(i, v, of, f, k)
<1>. DEFINE Is(m, f) == f = [k \in 0 .. m |-> Saves(i, v, of, f, k)]
            S == {m \in Nat : \E f : Is(m, f)}
            f == CHOOSE g : Is(n, g)
<1>1. 0 \in S
  <2>. DEFINE g == [k \in 0 .. 0 |-> cache]
  <2>1. Is(0, g)
    BY DEF Saves
  <2>. QED  BY <2>1
<1>2. ASSUME NEW m \in S
      PROVE  m + 1 \in S
  <2>1. PICK g : Is(m, g)
    OBVIOUS
  <2>. DEFINE h == [k \in 0 .. m + 1 |->
                     IF k \in 0 .. m THEN g[k] ELSE Saves(i, v, of, g, k)]
  <2>2. ASSUME NEW k \in 0 .. m + 1
        PROVE  h[k] = Saves(i, v, of, h, k)
    <3>1. k # 0 => k - 1 \in 0 .. m /\ h[k - 1] = g[k - 1]
      OBVIOUS
    <3>2. h[k] = Saves(i, v, of, g, k)
      BY <2>1
    <3>. HIDE DEF h
    <3>. QED  BY <3>1, <3>2 DEF Saves
  <2>3. Is(m + 1, h)
    <3>1. h = [k \in 0 .. m + 1 |-> h[k]]
      OBVIOUS
    <3>. HIDE DEF h
    <3>. QED  BY <2>2, <3>1
  <2>. HIDE DEF h, Is
  <2>. QED  BY <2>3
<1>3. \E g : Is(n, g)
  <2>1. n \in Nat /\ S \subseteq Nat
    OBVIOUS
  <2>. HIDE DEF S
  <2>2. n \in S
    BY <1>1, <1>2, <2>1, Induction
  <2>. QED  BY <2>2 DEF S
<1>4. Is(n, f)
  <2>. HIDE DEF Is
  <2>. QED  BY <1>3
<1>5. Saved(i, v, of, n) = f[n]
  BY DEF Saved, Saves
<1>. HIDE DEF f
<1>. QED  BY <1>4, <1>5

\* The same of the names that are touched ...
LEMMA TouchAllIs ==
  ASSUME NEW i, NEW v, NEW n \in Nat
  PROVE  \E f : /\ TouchAll(i, v, n) = f[n]
                /\ \A k \in 0 .. n : f[k] = Touches(i, v, f, k)
<1>. DEFINE Is(m, f) == f = [k \in 0 .. m |-> Touches(i, v, f, k)]
            S == {m \in Nat : \E f : Is(m, f)}
            f == CHOOSE g : Is(n, g)
<1>1. 0 \in S
  <2>. DEFINE g == [k \in 0 .. 0 |-> recent]
  <2>1. Is(0, g)
    BY DEF Touches
  <2>. QED  BY <2>1
<1>2. ASSUME NEW m \in S
      PROVE  m + 1 \in S
  <2>1. PICK g : Is(m, g)
    OBVIOUS
  <2>. DEFINE h == [k \in 0 .. m + 1 |->
                     IF k \in 0 .. m THEN g[k] ELSE Touches(i, v, g, k)]
  <2>2. ASSUME NEW k \in 0 .. m + 1
        PROVE  h[k] = Touches(i, v, h, k)
    <3>1. k # 0 => k - 1 \in 0 .. m /\ h[k - 1] = g[k - 1]
      OBVIOUS
    <3>2. h[k] = Touches(i, v, g, k)
      BY <2>1
    <3>. HIDE DEF h
    <3>. QED  BY <3>1, <3>2 DEF Touches
  <2>3. Is(m + 1, h)
    <3>1. h = [k \in 0 .. m + 1 |-> h[k]]
      OBVIOUS
    <3>. HIDE DEF h
    <3>. QED  BY <2>2, <3>1
  <2>. HIDE DEF h, Is
  <2>. QED  BY <2>3
<1>3. \E g : Is(n, g)
  <2>1. n \in Nat /\ S \subseteq Nat
    OBVIOUS
  <2>. HIDE DEF S
  <2>2. n \in S
    BY <1>1, <1>2, <2>1, Induction
  <2>. QED  BY <2>2 DEF S
<1>4. Is(n, f)
  <2>. HIDE DEF Is
  <2>. QED  BY <1>3
<1>5. TouchAll(i, v, n) = f[n]
  BY DEF TouchAll, Touches
<1>. HIDE DEF f
<1>. QED  BY <1>4, <1>5

\* ... and of the sum.
LEMMA SumIs ==
  ASSUME NEW V, NEW got \in Seq(V)
  PROVE  \E f : /\ SumOfBytes(got) = f[Len(got)]
                /\ \A k \in 0 .. Len(got) : f[k] = Sums(got, f, k)
<1>. DEFINE Is(m, f) == f = [k \in 0 .. m |-> Sums(got, f, k)]
            S == {m \in Nat : \E f : Is(m, f)}
            f == CHOOSE g : Is(Len(got), g)
<1>1. 0 \in S
  <2>. DEFINE g == [k \in 0 .. 0 |-> 0]
  <2>1. Is(0, g)
    BY DEF Sums
  <2>. QED  BY <2>1
<1>2. ASSUME NEW m \in S
      PROVE  m + 1 \in S
  <2>1. PICK g : Is(m, g)
    OBVIOUS
  <2>. DEFINE h == [k \in 0 .. m + 1 |->
                     IF k \in 0 .. m THEN g[k] ELSE Sums(got, g, k)]
  <2>2. ASSUME NEW k \in 0 .. m + 1
        PROVE  h[k] = Sums(got, h, k)
    <3>1. k # 0 => k - 1 \in 0 .. m /\ h[k - 1] = g[k - 1]
      OBVIOUS
    <3>2. h[k] = Sums(got, g, k)
      BY <2>1
    <3>. HIDE DEF h
    <3>. QED  BY <3>1, <3>2 DEF Sums
  <2>3. Is(m + 1, h)
    <3>1. h = [k \in 0 .. m + 1 |-> h[k]]
      OBVIOUS
    <3>. HIDE DEF h
    <3>. QED  BY <2>2, <3>1
  <2>. HIDE DEF h, Is
  <2>. QED  BY <2>3
<1>3. \E g : Is(Len(got), g)
  <2>1. Len(got) \in Nat /\ S \subseteq Nat
    OBVIOUS
  <2>. HIDE DEF S
  <2>2. Len(got) \in S
    BY <1>1, <1>2, <2>1, Induction
  <2>. QED  BY <2>2 DEF S
<1>4. Is(Len(got), f)
  <2>. HIDE DEF Is
  <2>. QED  BY <1>3
<1>5. SumOfBytes(got) = f[Len(got)]
  BY DEF SumOfBytes, Sums
<1>. HIDE DEF f
<1>. QED  BY <1>4, <1>5

\* Slices are saved under their names in place of what had them; else the cache
\* only loses entries.
LEMMA SavesAll ==
  ASSUME Lockstep(cache, recent), NEW i, NEW v, NEW of, NEW n \in Nat
  PROVE  /\ Lockstep(Saved(i, v, of, n), TouchAll(i, v, n))
         /\ \A e \in Entries(Saved(i, v, of, n)) :
              \/ \E k \in 0 .. n - 1 :
                   e = [key |-> SliceName(i, v, k), value |-> SliceAt(of, k)]
              \/ e \in Entries(cache) /\ \A k \in 0 .. n - 1 : e.key # SliceName(i, v, k)
<1>1. PICK f : /\ Saved(i, v, of, n) = f[n]
               /\ \A k \in 0 .. n : f[k] = Saves(i, v, of, f, k)
  BY SavedIs
<1>2. PICK g : /\ TouchAll(i, v, n) = g[n]
               /\ \A k \in 0 .. n : g[k] = Touches(i, v, g, k)
  BY TouchAllIs
<1>. DEFINE Slice(k) == [key |-> SliceName(i, v, k), value |-> SliceAt(of, k)]
            Held(list, m) ==
              \A e \in Entries(list) :
                \/ \E k \in 0 .. m - 1 : e = Slice(k)
                \/ e \in Entries(cache) /\ \A k \in 0 .. m - 1 : e.key # SliceName(i, v, k)
            S == {m \in Nat : m \in 0 .. n => Lockstep(f[m], g[m]) /\ Held(f[m], m)}
<1>3. 0 \in S
  <2>1. 0 \in 0 .. n
    OBVIOUS
  <2>2. f[0] = Saves(i, v, of, f, 0) /\ g[0] = Touches(i, v, g, 0)
    BY <1>1, <1>2, <2>1
  <2>3. f[0] = cache /\ g[0] = recent
    BY <2>2, Zenon DEF Saves, Touches
  <2>4. \A k \in 0 .. 0 - 1 : FALSE
    OBVIOUS
  <2>5. Held(cache, 0)
    BY <2>4
  <2>. HIDE DEF Held
  <2>. QED  BY <2>3, <2>5
<1>4. ASSUME NEW m \in S
      PROVE  m + 1 \in S
  <2>. SUFFICES ASSUME m + 1 \in 0 .. n
                PROVE  Lockstep(f[m + 1], g[m + 1]) /\ Held(f[m + 1], m + 1)
    OBVIOUS
  <2>1. m \in 0 .. n /\ m \in Nat /\ m + 1 # 0 /\ (m + 1) - 1 = m
    OBVIOUS
  <2>2. Lockstep(f[m], g[m]) /\ Held(f[m], m)
    BY <2>1
  <2>3. f[m + 1] = Add(f[m], SliceName(i, v, m), SliceAt(of, m))
    BY <1>1, <2>1 DEF Saves
  <2>4. g[m + 1] = Touch(g[m], SliceName(i, v, m))
    BY <1>2, <2>1 DEF Touches
  <2>5. /\ Lockstep(f[m + 1], g[m + 1])
        /\ \A e \in Entries(f[m + 1]) :
             e = Slice(m) \/ (e \in Entries(f[m]) /\ e.key # SliceName(i, v, m))
    BY <2>2, <2>3, <2>4, AddsOne
  <2>6. \A k : k \in 0 .. (m + 1) - 1 <=> k \in 0 .. m - 1 \/ k = m
    BY <2>1
  <2>7. Held(f[m + 1], m + 1)
    <3>. HIDE DEF Slice
    <3>. QED  BY <2>2, <2>5, <2>6
  <2>. QED  BY <2>5, <2>7
<1>5. n \in S
  <2>1. S \subseteq Nat
    OBVIOUS
  <2>2. \A m \in S : m + 1 \in S
    BY <1>4
  <2>. HIDE DEF S
  <2>. QED  BY <1>3, <2>1, <2>2, Induction
<1>6. n \in 0 .. n
  OBVIOUS
<1>. QED  BY <1>1, <1>2, <1>5, <1>6

LEMMA WholeSum ==
  ASSUME NEW V, NEW got \in Seq(V), NEW b \in Nat, Len(got) # 0,
         \A k \in 1 .. Len(got) :
           got[k].bytes = IF k = Len(got) THEN b - (k - 1) * SliceSize ELSE SliceSize
  PROVE  SumOfBytes(got) = b
<1>1. PICK f : /\ SumOfBytes(got) = f[Len(got)]
               /\ \A k \in 0 .. Len(got) : f[k] = Sums(got, f, k)
  BY SumIs
<1>. DEFINE n == Len(got)
            T == {k \in Nat : k \in 0 .. n - 1 => f[k] = k * SliceSize}
<1>2. n \in Nat \ {0} /\ SliceSize \in Nat
  BY SliceSizeAssumption
<1>. HIDE DEF n
<1>3. 0 \in T
  <2>1. f[0] = Sums(got, f, 0) /\ 0 * SliceSize = 0
    BY <1>1, <1>2 DEF n
  <2>2. f[0] = 0
    BY <2>1, Zenon DEF Sums
  <2>. QED  BY <2>1, <2>2
<1>4. ASSUME NEW k \in T
      PROVE  k + 1 \in T
  <2>. SUFFICES ASSUME k + 1 \in 0 .. n - 1
                PROVE  f[k + 1] = (k + 1) * SliceSize
    OBVIOUS
  <2>1. k \in Nat /\ k \in 0 .. n - 1 /\ k + 1 \in 0 .. n /\ k + 1 \in 1 .. n /\ k + 1 # n
          /\ k + 1 # 0 /\ (k + 1) - 1 = k
    BY <1>2
  <2>2. f[k] = k * SliceSize
    BY <2>1
  <2>3. f[k + 1] = f[k] + SliceSize
    BY <1>1, <2>1 DEF Sums, n
  <2>4. (k + 1) * SliceSize = (k * SliceSize) + SliceSize
    BY <1>2, <2>1
  <2>. QED  BY <2>2, <2>3, <2>4
<1>5. n - 1 \in T
  <2>1. T \subseteq Nat /\ n - 1 \in Nat
    BY <1>2
  <2>2. \A k \in T : k + 1 \in T
    BY <1>4
  <2>. HIDE DEF T
  <2>. QED  BY <1>3, <2>1, <2>2, Induction
<1>6. f[n - 1] = (n - 1) * SliceSize
  BY <1>2, <1>5
<1>7. f[n] = f[n - 1] + (b - (n - 1) * SliceSize)
  <2>1. n \in 0 .. n /\ n \in 1 .. n /\ n # 0
    BY <1>2
  <2>2. got[n].bytes = b - (n - 1) * SliceSize
    BY <2>1 DEF n
  <2>. QED  BY <1>1, <2>1, <2>2 DEF Sums, n
<1>8. (n - 1) * SliceSize \in Int
  BY <1>2
<1>9. f[n] = b
  <2>. DEFINE x == (n - 1) * SliceSize
  <2>1. f[n] = x + (b - x) /\ x \in Int
    BY <1>6, <1>7, <1>8
  <2>. HIDE DEF x
  <2>. QED  BY <2>1
<1>. QED  BY <1>1, <1>9 DEF n

\* A list of b bytes has one slice at least, and its last one is not empty and
\* no larger than the others.
LEMMA Slicing ==
  ASSUME NEW b \in Nat \ {0}
  PROVE  /\ SliceNum(b) \in Nat \ {0}
         /\ b - (SliceNum(b) - 1) * SliceSize \in 1 .. SliceSize
<1>. DEFINE q == b \div SliceSize
            r == b % SliceSize
<1>1. SliceSize \in Nat \ {0}
  BY SliceSizeAssumption
<1>2. q \in Nat /\ r \in 0 .. SliceSize - 1 /\ b = SliceSize * q + r
  BY <1>1
<1>3. SliceNum(b) = q + 1 - (IF r = 0 THEN 1 ELSE 0)
  BY DEF SliceNum
<1>. HIDE DEF q, r
<1>4. q * SliceSize = SliceSize * q /\ SliceSize * q \in Nat
  BY <1>1, <1>2
<1>5. CASE r = 0
  <2>1. SliceNum(b) = q
    BY <1>2, <1>3, <1>5
  <2>2. q # 0
    <3>. SUFFICES ASSUME q = 0 PROVE FALSE
      OBVIOUS
    <3>1. SliceSize * q = 0
      BY <1>1
    <3>. QED  BY <1>2, <1>5, <3>1
  <2>3. (q - 1) * SliceSize = (SliceSize * q) - SliceSize
    BY <1>1, <1>2
  <2>. QED  BY <1>1, <1>2, <1>4, <1>5, <2>1, <2>2, <2>3
<1>6. CASE r # 0
  <2>1. SliceNum(b) = q + 1
    BY <1>2, <1>3, <1>6
  <2>2. ((q + 1) - 1) * SliceSize = SliceSize * q
    BY <1>1, <1>2
  <2>. QED  BY <1>1, <1>2, <1>4, <1>6, <2>1, <2>2
<1>. QED  BY <1>5, <1>6

-----------------------------------------------------------------------------
(* Names *)

LEMMA InterestIsOne ==
  ASSUME NEW rel, NEW has
  PROVE  IsInterest(Interest(rel, has))
BY DEF IsInterest, Interest

LEMMA SliceNames ==
  ASSUME NEW i, IsInterest(i), NEW v \in Nat, NEW k \in Nat
  PROVE  LET s == SliceName(i, v, k)
         IN  /\ IsInterest(s)
             /\ TableOf(s) = TableOf(i)
             /\ s = [shape |-> i.shape, top |-> i.top, rel |-> i.rel, has |-> i.has,
                     slice |-> i.slice \o <<v, k>>]
             /\ s.slice = i.slice \o <<v, k>>
<1>. DEFINE t == i.slice \o <<v, k>>
            s == SliceName(i, v, k)
<1>1. i = [shape |-> i.shape, top |-> i.top, rel |-> i.rel, has |-> i.has, slice |-> i.slice]
        /\ i.slice \in Seq(Nat)
  BY DEF IsInterest
<1>2. s = [i EXCEPT !.slice = t]
  BY DEF SliceName
<1>3. t \in Seq(Nat)
  BY <1>1
<1>. HIDE DEF t, s
<1>4. s = [shape |-> i.shape, top |-> i.top, rel |-> i.rel, has |-> i.has, slice |-> t]
  BY <1>1, <1>2
<1>5. /\ IsInterest(s) /\ TableOf(s) = TableOf(i) /\ s.slice = t
  BY <1>3, <1>4 DEF IsInterest, TableOf
<1>. QED  BY <1>4, <1>5 DEF s, t

\* A slice is of one list, one version and has one number.
LEMMA SliceNamesDiffer ==
  ASSUME NEW i, IsInterest(i), NEW v \in Nat, NEW k \in Nat,
         NEW j, IsInterest(j), NEW w \in Nat, NEW m \in Nat,
         SliceName(i, v, k) = SliceName(j, w, m)
  PROVE  i = j /\ v = w /\ k = m
<1>. DEFINE s == SliceName(i, v, k)
            t == SliceName(j, w, m)
<1>1. /\ s = [shape |-> i.shape, top |-> i.top, rel |-> i.rel, has |-> i.has,
              slice |-> i.slice \o <<v, k>>]
      /\ t = [shape |-> j.shape, top |-> j.top, rel |-> j.rel, has |-> j.has,
              slice |-> j.slice \o <<w, m>>]
  BY SliceNames
<1>2. s = t
  OBVIOUS
<1>3. /\ i.slice \in Seq(Nat) /\ j.slice \in Seq(Nat)
      /\ i = [shape |-> i.shape, top |-> i.top, rel |-> i.rel, has |-> i.has, slice |-> i.slice]
      /\ j = [shape |-> j.shape, top |-> j.top, rel |-> j.rel, has |-> j.has, slice |-> j.slice]
  BY DEF IsInterest
<1>. HIDE DEF s, t
<1>4. /\ i.shape = j.shape /\ i.top = j.top /\ i.rel = j.rel /\ i.has = j.has
      /\ i.slice \o <<v, k>> = j.slice \o <<w, m>>
  <2>1. s.shape = t.shape /\ s.top = t.top /\ s.rel = t.rel /\ s.has = t.has /\ s.slice = t.slice
    BY <1>2
  <2>. QED  BY <1>1, <2>1
<1>5. ASSUME NEW a \in Seq(Nat), NEW b \in Seq(Nat), a \o <<v, k>> = b \o <<w, m>>
      PROVE  a = b /\ v = w /\ k = m
  <2>. DEFINE x == a \o <<v, k>>
              y == b \o <<w, m>>
  <2>1. /\ Len(x) = Len(a) + 2 /\ x[Len(a) + 1] = v /\ x[Len(a) + 2] = k
        /\ \A n \in 1 .. Len(a) : x[n] = a[n]
    OBVIOUS
  <2>2. /\ Len(y) = Len(b) + 2 /\ y[Len(b) + 1] = w /\ y[Len(b) + 2] = m
        /\ \A n \in 1 .. Len(b) : y[n] = b[n]
    OBVIOUS
  <2>3. x = y
    BY <1>5
  <2>. HIDE DEF x, y
  <2>4. Len(a) = Len(b)
    BY <2>1, <2>2, <2>3
  <2>5. \A n \in 1 .. Len(a) : a[n] = b[n]
    BY <2>1, <2>2, <2>3, <2>4
  <2>6. a = b
    BY <2>4, <2>5
  <2>. QED  BY <2>1, <2>2, <2>3, <2>4, <2>6
<1>6. i.slice = j.slice /\ v = w /\ k = m
  BY <1>3, <1>4, <1>5
<1>. QED  BY <1>3, <1>4, <1>6

-----------------------------------------------------------------------------
(* The invariant of the lists *)

TypeInv ==
  /\ changes \in [Tables -> Nat]
  /\ version \in [Tables -> Nat]
  /\ changes["fib"] + changes["face"] <= MaxChanges

IsList(l) == l.from \in 0 .. MaxChanges /\ l.bytes \in Nat \ {0}

\* A slice of some list.
IsSlice(e) ==
  \E i, v, k, of :
    /\ IsInterest(i) /\ v \in Nat /\ k \in Nat /\ IsList(of)
    /\ e = [key |-> SliceName(i, v, k), value |-> SliceAt(of, k)]

CacheInv == Lockstep(cache, recent) /\ \A e \in Entries(cache) : IsSlice(e)

InboxInv == \A k \in DOMAIN inbox : IsInterest(inbox[k])

JobInv(j) ==
  /\ IsInterest(j.ask)
  /\ j.from \in 0 .. MaxChanges
  /\ j.from <= changes[TableOf(j.ask)]

\* Nobody else is in the PIT.
QueueInv(i) == \A c \in pending[i] : c \in Clients /\ Waits(c) /\ Asked(c) = i

HasList(s) == s.at \in {"ready", "fetching", "done"}

\* What s has of its list, and that nothing older can come: neither from the
\* cache, under a name that it will ask for, nor from a list in the making.
ListInv(s) ==
  /\ IsList(s.of) /\ s.of.from <= changes[TableOf(s.ask)]
  /\ s.count = SliceNum(s.of.bytes)
  /\ IF s.at = "done" THEN Len(s.got) = s.count ELSE Len(s.got) < s.count
  /\ \A k \in 1 .. Len(s.got) :
       /\ IsList(s.got[k].of) /\ s.got[k].of.from >= s.of.from
       /\ s.got[k].bytes = SliceAt(s.got[k].of, k - 1).bytes
  /\ \A j \in job : j.ask = s.ask => j.from >= s.of.from
  /\ \A e \in Entries(cache), k \in Nat :
       k < s.count /\ e.key = SliceName(s.ask, s.version, k) => e.value.of.from >= s.of.from

\* A list in the making was begun before s asked only if s joined.
AskedInv(s) == \A j \in job : j.ask = s.ask /\ ~s.joins => s.since <= j.from

AskerInv(s) ==
  /\ IsInterest(s.ask)
  /\ s.since \in Nat /\ s.since <= changes[TableOf(s.ask)]
  /\ s.version \in Nat
  /\ \E S : s.got \in Seq(S)
  /\ s.at = "asking" => AskedInv(s)
  /\ IF HasList(s) THEN ListInv(s) ELSE s.got = <<>>

Lists ==
  /\ TypeInv
  /\ CacheInv
  /\ InboxInv
  /\ \A j \in job : JobInv(j)
  /\ \A i \in DOMAIN pending : QueueInv(i)
  /\ \A c \in Clients : AskerInv(client[c])

LEMMA TableOfIs ==
  ASSUME TypeInv, NEW i
  PROVE  TableOf(i) \in Tables /\ changes[TableOf(i)] \in 0 .. MaxChanges
<1>1. changes["fib"] \in Nat /\ changes["face"] \in Nat /\ changes["fib"] + changes["face"] <= MaxChanges
  BY DEF TypeInv, Tables
<1>2. changes["fib"] \in 0 .. MaxChanges /\ changes["face"] \in 0 .. MaxChanges
  BY <1>1, BoundsAssumption
<1>. QED  BY <1>2 DEF TableOf, Tables

LEMMA BytesOf ==
  ASSUME NEW i, NEW from \in 0 .. MaxChanges, NEW to \in 0 .. MaxChanges
  PROVE  Bytes(TableOf(i), from, to) \subseteq Nat \ {0}
BY BytesAssumption DEF TableOf

LEMMA InitLists == Init => Lists
<1>. SUFFICES ASSUME Init PROVE Lists
  OBVIOUS
<1>1. TypeInv
  BY BoundsAssumption DEF Init, TypeInv, Tables
<1>2. CacheInv
  <2>1. cache = <<>> /\ recent = <<>>
    BY DEF Init
  <2>2. cache \in Seq({}) /\ Len(cache) = 0 /\ DOMAIN cache = {}
    BY <2>1
  <2>3. recent = [k \in 1 .. Len(cache) |-> cache[k].key]
    BY <2>1, <2>2
  <2>4. Lockstep(cache, recent)
    BY <2>2, <2>3, CacheSizeAssumption DEF Lockstep
  <2>. QED  BY <2>2, <2>4 DEF CacheInv, Entries
<1>3. InboxInv
  <2>1. inbox = <<>>
    BY DEF Init
  <2>. QED  BY <2>1 DEF InboxInv
<1>4. ASSUME NEW c \in Clients
      PROVE  AskerInv(client[c])
  <2>1. client[c] = Idle /\ Idle.ask = Interest("none", {}) /\ Idle.since = 0 /\ Idle.version = 0
          /\ Idle.got = <<>> /\ Idle.at = "idle"
    BY DEF Init, Idle
  <2>2. changes[TableOf(Idle.ask)] \in 0 .. MaxChanges
    BY <1>1, TableOfIs
  <2>3. <<>> \in Seq({})
    OBVIOUS
  <2>. QED  BY <2>1, <2>2, <2>3, InterestIsOne, BoundsAssumption DEF AskerInv, HasList
<1>. QED  BY <1>1, <1>2, <1>3, <1>4 DEF Lists, Init, EmptyMap

GotNoOlder ==
  \A c \in Clients : \A k \in DOMAIN client[c].got :
    client[c].got[k].of.from >= client[c].of.from

\* What the clients have follows.
LEMMA ListsImply ==
  Lists => GotNoOlder /\ ListsAreWhole /\ RecentSlicesHit
<1>. SUFFICES ASSUME Lists PROVE GotNoOlder /\ ListsAreWhole /\ RecentSlicesHit
  OBVIOUS
<1>1. ASSUME NEW c \in Clients
      PROVE  \A k \in DOMAIN client[c].got : client[c].got[k].of.from >= client[c].of.from
  <2>1. AskerInv(client[c])
    BY DEF Lists
  <2>2. PICK S : client[c].got \in Seq(S)
    BY <2>1 DEF AskerInv
  <2>3. DOMAIN client[c].got = 1 .. Len(client[c].got)
    BY <2>2
  <2>4. CASE HasList(client[c])
    BY <2>1, <2>3, <2>4 DEF AskerInv, ListInv
  <2>5. CASE ~HasList(client[c])
    BY <2>1, <2>5 DEF AskerInv
  <2>. QED  BY <2>4, <2>5
<1>2. ASSUME NEW c \in Clients, client[c].at = "done",
             \A k \in DOMAIN client[c].got : client[c].got[k].of = client[c].of
      PROVE  /\ SumOfBytes(client[c].got) = client[c].of.bytes
             /\ \A k \in DOMAIN client[c].got : client[c].got[k].bytes \in 1 .. SliceSize
  <2>. DEFINE s == client[c]
              b == s.of.bytes
  <2>1. AskerInv(s) /\ ListInv(s)
    BY <1>2 DEF Lists, AskerInv, HasList
  <2>2. PICK S : s.got \in Seq(S)
    BY <2>1 DEF AskerInv
  <2>3. DOMAIN s.got = 1 .. Len(s.got)
    BY <2>2
  <2>4. b \in Nat \ {0}
    BY <2>1 DEF ListInv, IsList
  <2>5. Len(s.got) = SliceNum(b) /\ Len(s.got) \in Nat \ {0}
          /\ b - (Len(s.got) - 1) * SliceSize \in 1 .. SliceSize
    <3>1. Len(s.got) = SliceNum(b)
      BY <1>2, <2>1 DEF ListInv
    <3>. HIDE DEF b, s
    <3>. QED  BY <2>4, <3>1, Slicing
  <2>6. ASSUME NEW k \in 1 .. Len(s.got)
        PROVE  s.got[k].bytes = IF k = Len(s.got) THEN b - (k - 1) * SliceSize ELSE SliceSize
    <3>1. s.got[k].bytes = SliceAt(s.of, k - 1).bytes
      BY <1>2, <2>1, <2>3 DEF ListInv
    <3>2. s.got[k].bytes = IF k - 1 = SliceNum(b) - 1 THEN b - (k - 1) * SliceSize ELSE SliceSize
      BY <3>1 DEF SliceAt
    <3>. HIDE DEF b, s
    <3>3. k - 1 = SliceNum(b) - 1 <=> k = Len(s.got)
      BY <2>5
    <3>. QED  BY <3>2, <3>3
  <2>7. SumOfBytes(s.got) = b
    <3>. HIDE DEF b, s
    <3>1. b \in Nat /\ Len(s.got) # 0
      BY <2>4, <2>5
    <3>. QED  BY <2>2, <2>6, <3>1, WholeSum
  <2>8. \A k \in 1 .. Len(s.got) : s.got[k].bytes \in 1 .. SliceSize
    <3>. HIDE DEF b, s
    <3>. SUFFICES ASSUME NEW k \in 1 .. Len(s.got) PROVE s.got[k].bytes \in 1 .. SliceSize
      OBVIOUS
    <3>1. SliceSize \in 1 .. SliceSize
      BY SliceSizeAssumption
    <3>2. CASE k = Len(s.got)
      BY <2>5, <2>6, <3>2
    <3>3. CASE k # Len(s.got)
      BY <2>6, <3>1, <3>3
    <3>. QED  BY <3>2, <3>3
  <2>. QED  BY <2>3, <2>7, <2>8
<1>3. RecentSlicesHit
  <2>1. recent = [k \in 1 .. Len(cache) |-> cache[k].key] /\ \E S : cache \in Seq(S)
    BY DEF Lists, CacheInv, Lockstep
  <2>2. DOMAIN cache = 1 .. Len(cache)
    BY <2>1
  <2>3. DOMAIN recent = DOMAIN cache /\ \A k \in DOMAIN cache : recent[k] = cache[k].key
    BY <2>1, <2>2
  <2>. QED  BY <2>3 DEF RecentSlicesHit, Keys
<1>. QED  BY <1>1, <1>2, <1>3 DEF GotNoOlder, ListsAreWhole

-----------------------------------------------------------------------------
(* What steps do to the tables, the list in the making and the cache *)

\* Tables only change, a new list is begun in the newest state, and what is new in
\* the cache is of a list that was in the making.
Onward ==
  /\ \A t \in Tables : changes'[t] >= changes[t]
  /\ \A j \in job' : j \in job \/ j.from = changes[TableOf(j.ask)]
  /\ \A e \in Entries(cache') :
       \/ e \in Entries(cache)
       \/ \E j \in job, v, k \in Nat :
            e.key = SliceName(j.ask, v, k) /\ e.value.of.from = j.from

\* Whatever goes on, nothing that is older comes to a client that does nothing.
LEMMA AskerKept ==
  ASSUME Lists, TypeInv', Onward, NEW c \in Clients, client'[c] = client[c]
  PROVE  AskerInv(client[c])'
<1>. DEFINE s == client[c]
<1>1. AskerInv(s) /\ client'[c] = s
  BY DEF Lists
<1>2. TableOf(s.ask) \in Tables /\ changes[TableOf(s.ask)] \in Nat /\ changes'[TableOf(s.ask)] \in Nat
        /\ changes'[TableOf(s.ask)] >= changes[TableOf(s.ask)]
  <2>1. TableOf(s.ask) \in Tables
    BY DEF TableOf, Tables
  <2>. HIDE DEF s
  <2>. QED  BY <2>1 DEF Onward, Lists, TypeInv
<1>. HIDE DEF s
<1>3. s.since \in Nat /\ s.since <= changes'[TableOf(s.ask)]
  BY <1>1, <1>2 DEF AskerInv
<1>4. ASSUME HasList(s), NEW j \in job', j.ask = s.ask
      PROVE  j.from >= s.of.from
  <2>1. ListInv(s) /\ s.of.from \in Nat
    BY <1>1, <1>4 DEF AskerInv, ListInv, IsList
  <2>2. j \in job \/ j.from = changes[TableOf(j.ask)]
    BY <1>4 DEF Onward
  <2>3. CASE j \in job
    BY <1>4, <2>1, <2>3 DEF ListInv
  <2>4. CASE j.from = changes[TableOf(j.ask)]
    BY <1>2, <1>4, <2>1, <2>4 DEF ListInv
  <2>. QED  BY <2>2, <2>3, <2>4
<1>5. ASSUME HasList(s), NEW e \in Entries(cache'), NEW k \in Nat, k < s.count,
             e.key = SliceName(s.ask, s.version, k)
      PROVE  e.value.of.from >= s.of.from
  <2>1. ListInv(s) /\ IsInterest(s.ask) /\ s.version \in Nat
    BY <1>1, <1>5 DEF AskerInv
  <2>2. CASE e \in Entries(cache)
    BY <1>5, <2>1, <2>2 DEF ListInv
  <2>3. ASSUME NEW j \in job, NEW v \in Nat, NEW m \in Nat,
               e.key = SliceName(j.ask, v, m), e.value.of.from = j.from
        PROVE  e.value.of.from >= s.of.from
    <3>1. IsInterest(j.ask)
      BY DEF Lists, JobInv
    <3>2. SliceName(j.ask, v, m) = SliceName(s.ask, s.version, k)
      BY <1>5, <2>3
    <3>3. j.ask = s.ask
      BY <2>1, <3>1, <3>2, SliceNamesDiffer
    <3>. QED  BY <2>1, <2>3, <3>3 DEF ListInv
  <2>. QED  BY <2>2, <2>3 DEF Onward
<1>6. HasList(s) => ListInv(client[c])'
  <2>. SUFFICES ASSUME HasList(s) PROVE ListInv(client[c])'
    OBVIOUS
  <2>1. ListInv(s)
    BY <1>1 DEF AskerInv
  <2>2. s.of.from <= changes'[TableOf(s.ask)]
    BY <1>2, <2>1 DEF ListInv, IsList
  <2>. QED  BY <1>1, <1>4, <1>5, <2>1, <2>2 DEF ListInv
<1>7. s.at = "asking" => AskedInv(client[c])'
  <2>. SUFFICES ASSUME s.at = "asking", NEW j \in job', j.ask = s.ask, ~s.joins
                PROVE  s.since <= j.from
    BY <1>1 DEF AskedInv
  <2>1. CASE j \in job
    BY <1>1, <2>1 DEF AskerInv, AskedInv
  <2>2. CASE j.from = changes[TableOf(j.ask)]
    BY <1>1, <2>2 DEF AskerInv
  <2>. QED  BY <2>1, <2>2 DEF Onward
<1>. QED  BY <1>1, <1>3, <1>6, <1>7 DEF AskerInv, HasList

LEMMA IdleIsOK ==
  ASSUME TypeInv', NEW c, client'[c] = Idle
  PROVE  AskerInv(client[c])'
<1>1. /\ client'[c].ask = Interest("none", {}) /\ client'[c].since = 0 /\ client'[c].version = 0
      /\ client'[c].got = <<>> /\ client'[c].at = "idle"
  BY DEF Idle
<1>2. TableOf(client'[c].ask) \in Tables
  BY DEF TableOf, Tables
<1>3. changes'[TableOf(client'[c].ask)] \in Nat
  BY <1>2 DEF TypeInv
<1>4. <<>> \in Seq({})
  OBVIOUS
<1>. QED  BY <1>1, <1>3, <1>4, InterestIsOne DEF AskerInv, HasList

\* Clients that do nothing stay in the PIT under the same name.
LEMMA SameWaits ==
  ASSUME NEW c, client'[c] = client[c]
  PROVE  (Waits(c)' <=> Waits(c)) /\ Asked(c)' = Asked(c)
BY DEF Waits, Asked, Wanted

-----------------------------------------------------------------------------
(* Interests that are sent, and clients that stop *)

LEMMA SendLists ==
  ASSUME IInv, Lists, NEW c \in Clients, NEW i, IsInterest(i), Send(c, i),
         UNCHANGED <<tables, job, cache, recent>>,
         ~Waits(c), Waits(c)', Asked(c)' = i, AskerInv(client[c])',
         \A d \in Clients : d # c => client'[d] = client[d]
  PROVE  Lists'
<1>1. TypeInv' /\ CacheInv' /\ Onward
  BY DEF Lists, TypeInv, CacheInv, Onward, tables
<1>2. ASSUME NEW j \in job'
      PROVE  JobInv(j)'
  BY <1>2 DEF Lists, JobInv, tables
<1>3. ASSUME NEW d \in Clients
      PROVE  AskerInv(client[d])'
  <2>1. CASE d = c
    BY <2>1
  <2>2. CASE d # c
    BY <1>1, <2>2, AskerKept
  <2>. QED  BY <2>1, <2>2
<1>4. InboxInv'
  <2>1. CASE UNCHANGED inbox
    BY <2>1 DEF Lists, InboxInv
  <2>2. CASE inbox' = Append(inbox, i)
    <3>1. PICK S : inbox \in Seq(S)
      BY DEF IInv
    <3>2. /\ DOMAIN inbox' = 1 .. Len(inbox) + 1 /\ inbox'[Len(inbox) + 1] = i
          /\ \A k \in 1 .. Len(inbox) : inbox'[k] = inbox[k] /\ k \in DOMAIN inbox
      BY <2>2, <3>1
    <3>3. \A k \in 1 .. Len(inbox) + 1 : k = Len(inbox) + 1 \/ k \in 1 .. Len(inbox)
      BY <3>1
    <3>. QED  BY <3>2, <3>3 DEF Lists, InboxInv
  <2>. QED  BY <2>1, <2>2 DEF Send
<1>5. /\ DOMAIN pending' = DOMAIN pending \cup {i}
      /\ \A x \in DOMAIN pending : x # i => pending'[x] = pending[x]
      /\ \A d \in pending'[i] : d = c \/ (i \in DOMAIN pending /\ d \in pending[i])
  <2>1. CASE i \in DOMAIN pending
    BY <2>1 DEF Send
  <2>2. CASE i \notin DOMAIN pending
    BY <2>2 DEF Send, Put
  <2>. QED  BY <2>1, <2>2
<1>6. ASSUME NEW x \in DOMAIN pending, NEW d \in pending[x]
      PROVE  d \in Clients /\ Waits(d)' /\ Asked(d)' = x
  <2>1. d \in Clients /\ Waits(d) /\ Asked(d) = x
    BY <1>6 DEF Lists, QueueInv
  <2>2. client'[d] = client[d]
    BY <2>1
  <2>. QED  BY <2>1, <2>2, SameWaits
<1>7. ASSUME NEW x \in DOMAIN pending', NEW d \in pending'[x]
      PROVE  d \in Clients /\ Waits(d)' /\ Asked(d)' = x
  <2>1. CASE x # i
    BY <1>5, <1>6, <1>7, <2>1
  <2>2. CASE x = i
    BY <1>5, <1>6, <1>7, <2>2
  <2>. QED  BY <2>1, <2>2
<1>8. \A x \in DOMAIN pending' : QueueInv(x)'
  BY <1>7 DEF QueueInv
<1>. QED  BY <1>1, <1>2, <1>3, <1>4, <1>8 DEF Lists

LEMMA AskLists ==
  ASSUME IInv, Lists, NEW c \in Clients, Ask(c)
  PROVE  Lists'
<1>1. ASSUME NEW i, IsInterest(i), Begins(c, i)
      PROVE  Lists'
  <2>1. /\ client[c].at = "idle" /\ Send(c, i) /\ UNCHANGED <<tables, job, cache, recent>>
        /\ client' = [client EXCEPT ![c] = Asking(i)]
    BY <1>1 DEF Begins
  <2>2. client'[c] = Asking(i) /\ \A d \in Clients : d # c => client'[d] = client[d]
    BY <2>1 DEF IInv
  <2>3. /\ client'[c].at = "asking" /\ client'[c].ask = i
        /\ client'[c].since = changes[TableOf(i)] \/ client'[c].since = 0
        /\ client'[c].joins = \E j \in job : j.ask = i
        /\ client'[c].version = 0 /\ client'[c].got = <<>>
    BY <2>2 DEF Asking, Idle
  <2>4. ~Waits(c) /\ Waits(c)' /\ Asked(c)' = i
    BY <2>1, <2>3 DEF Waits, Asked
  <2>5. client'[c].since \in Nat /\ client'[c].since <= changes'[TableOf(i)]
    <3>1. changes[TableOf(i)] \in Nat /\ changes' = changes
      BY <2>1, TableOfIs DEF Lists, tables
    <3>. QED  BY <2>3, <3>1
  <2>6. AskedInv(client[c])'
    <3>1. job' = job
      BY <2>1
    <3>. QED  BY <2>3, <3>1 DEF AskedInv
  <2>7. <<>> \in Seq({}) /\ 0 \in Nat
    OBVIOUS
  <2>8. AskerInv(client[c])'
    <3>1. ~HasList(client[c])'
      BY <2>3 DEF HasList
    <3>2. \E S : client'[c].got \in Seq(S)
      BY <2>3, <2>7
    <3>3. IsInterest(client[c].ask)' /\ client'[c].version \in Nat
      BY <1>1, <2>3, <2>7
    <3>. QED  BY <2>3, <2>5, <2>6, <3>1, <3>2, <3>3, Zenon DEF AskerInv
  <2>. QED  BY <1>1, <2>1, <2>2, <2>4, <2>8, SendLists
<1>2. ASSUME NEW rel, NEW has, Asks(c, rel, has)
      PROVE  Lists'
  BY <1>1, <1>2, InterestIsOne DEF Asks
<1>3. ASSUME NEW i \in Others, AsksOther(c, i)
      PROVE  Lists'
  BY <1>1, <1>3, OthersAssumption DEF AsksOther
<1>. QED
  BY <1>2, <1>3 DEF Ask, AddFib, DeleteNextHop, ListFib, AddLogicFace, DelLogicFace, ListLogicFace

LEMMA FetchLists ==
  ASSUME IInv, Lists, NEW c \in Clients, FetchSlice(c)
  PROVE  Lists'
<1>1. /\ client[c].at = "ready" /\ Send(c, Wanted(c))
      /\ client' = [client EXCEPT ![c].at = "fetching"]
      /\ UNCHANGED <<tables, job, cache, recent>>
  BY DEF FetchSlice
<1>2. IsClient(client[c])
  BY DEF IInv, ClientInv
<1>3. /\ client'[c] = [client[c] EXCEPT !.at = "fetching"]
      /\ \A d \in Clients : d # c => client'[d] = client[d]
  BY <1>1, <1>2 DEF IInv
<1>4. /\ client'[c].at = "fetching" /\ client'[c].ask = client[c].ask
      /\ client'[c].since = client[c].since /\ client'[c].version = client[c].version
      /\ client'[c].count = client[c].count /\ client'[c].of = client[c].of
      /\ client'[c].got = client[c].got
  BY <1>2, <1>3 DEF IsClient
<1>5. AskerInv(client[c]) /\ ListInv(client[c])
  BY <1>1 DEF Lists, AskerInv, HasList
<1>6. ~Waits(c) /\ Waits(c)' /\ Asked(c)' = Wanted(c)
  BY <1>1, <1>4 DEF Waits, Asked, Wanted
<1>7. IsInterest(Wanted(c))
  <2>1. Len(client[c].got) \in Nat
    BY <1>5 DEF AskerInv
  <2>. QED  BY <1>5, <2>1, SliceNames DEF AskerInv, Wanted
<1>8. UNCHANGED <<changes, job, cache>>
  BY <1>1 DEF tables
<1>9. ListInv(client[c])'
  BY <1>1, <1>4, <1>5, <1>8 DEF ListInv
<1>10. AskerInv(client[c])'
  BY <1>4, <1>5, <1>8, <1>9 DEF AskerInv, HasList
<1>. QED  BY <1>1, <1>3, <1>4, <1>6, <1>7, <1>10, SendLists

LEMMA StopLists ==
  ASSUME IInv, Lists, NEW c \in Clients, Expire(c) \/ Show(c)
  PROVE  Lists'
<1>1. client'[c] = Idle /\ \A d \in Clients : d # c => client'[d] = client[d]
  BY DEF Expire, Show, IInv
<1>2. UNCHANGED <<tables, inbox, job, cache, recent>>
  BY DEF Expire, Show
<1>3. TypeInv' /\ CacheInv' /\ InboxInv' /\ Onward
  BY <1>2 DEF Lists, TypeInv, CacheInv, InboxInv, Onward, tables
<1>4. ASSUME NEW d \in Clients
      PROVE  AskerInv(client[d])'
  BY <1>1, <1>3, IdleIsOK, AskerKept
<1>5. ASSUME NEW j \in job'
      PROVE  JobInv(j)'
  BY <1>2, <1>5 DEF Lists, JobInv, tables
<1>6. ASSUME NEW x \in DOMAIN pending', NEW d \in pending'[x]
      PROVE  x \in DOMAIN pending /\ d \in pending[x] /\ d # c
  <2>1. CASE Expire(c)
    BY <1>6, <2>1 DEF Expire
  <2>2. CASE Show(c)
    <3>1. pending' = pending /\ ~Waits(c)
      BY <2>2 DEF Show, Waits
    <3>. QED  BY <1>6, <3>1 DEF Lists, QueueInv
  <2>. QED  BY <2>1, <2>2
<1>7. ASSUME NEW x \in DOMAIN pending', NEW d \in pending'[x]
      PROVE  d \in Clients /\ Waits(d)' /\ Asked(d)' = x
  <2>1. x \in DOMAIN pending /\ d \in pending[x] /\ d # c
    BY <1>6, <1>7
  <2>2. d \in Clients /\ Waits(d) /\ Asked(d) = x
    BY <2>1 DEF Lists, QueueInv
  <2>3. client'[d] = client[d]
    BY <1>1, <2>1, <2>2
  <2>. QED  BY <2>2, <2>3, SameWaits
<1>8. \A x \in DOMAIN pending' : QueueInv(x)'
  BY <1>7 DEF QueueInv
<1>. QED  BY <1>3, <1>4, <1>5, <1>8 DEF Lists

-----------------------------------------------------------------------------
(* Answers and the tables that others change *)

LEMMA QueueKept ==
  ASSUME Lists, NEW x \in DOMAIN pending, pending'[x] = pending[x],
         \A d \in pending[x] : client'[d] = client[d]
  PROVE  QueueInv(x)'
<1>1. ASSUME NEW d \in pending[x]
      PROVE  d \in Clients /\ Waits(d)' /\ Asked(d)' = x
  <2>1. d \in Clients /\ Waits(d) /\ Asked(d) = x
    BY DEF Lists, QueueInv
  <2>. QED  BY <2>1, SameWaits
<1>. QED  BY <1>1 DEF QueueInv

\* Nobody is answered and nobody asks.
LEMMA QuietLists ==
  ASSUME Lists, TypeInv', CacheInv', InboxInv', Onward, \A j \in job' : JobInv(j)',
         UNCHANGED <<pending, client>>
  PROVE  Lists'
<1>1. ASSUME NEW c \in Clients
      PROVE  AskerInv(client[c])'
  BY AskerKept
<1>2. ASSUME NEW x \in DOMAIN pending'
      PROVE  QueueInv(x)'
  BY <1>2, QueueKept
<1>. QED  BY <1>1, <1>2 DEF Lists

\* i is answered: it remains to see what its clients make of it.
LEMMA AnswerLists ==
  ASSUME Lists, TypeInv', CacheInv', InboxInv', Onward, \A j \in job' : JobInv(j)',
         NEW i, NEW r, Answer(i, r),
         \A c \in Clients :
           /\ i \in DOMAIN pending /\ c \in pending[i]
           /\ client'[c] = After(client[c], r)
           => AskerInv(client[c])'
  PROVE  Lists'
<1>1. /\ DOMAIN pending' = DOMAIN pending \ {i}
      /\ \A x \in DOMAIN pending' : pending'[x] = pending[x]
  BY DEF Answer, Drop
<1>2. ASSUME NEW c \in Clients
      PROVE  AskerInv(client[c])'
  <2>1. CASE i \in DOMAIN pending /\ c \in pending[i]
    <3>1. client'[c] = After(client[c], r)
      BY <2>1 DEF Answer
    <3>. QED  BY <2>1, <3>1
  <2>2. CASE ~(i \in DOMAIN pending /\ c \in pending[i])
    <3>1. client'[c] = client[c]
      BY <2>2 DEF Answer
    <3>. QED  BY <3>1, AskerKept
  <2>. QED  BY <2>1, <2>2
<1>3. ASSUME NEW x \in DOMAIN pending'
      PROVE  QueueInv(x)'
  <2>1. x \in DOMAIN pending /\ x # i /\ pending'[x] = pending[x]
    BY <1>1, <1>3
  <2>2. ASSUME NEW d \in pending[x]
        PROVE  client'[d] = client[d]
    <3>1. d \in Clients /\ Asked(d) = x
      BY <2>1 DEF Lists, QueueInv
    <3>2. ~(i \in DOMAIN pending /\ d \in pending[i])
      BY <2>1, <3>1 DEF Lists, QueueInv
    <3>. QED  BY <3>1, <3>2 DEF Answer
  <2>. QED  BY <2>1, <2>2, QueueKept
<1>. QED  BY <1>2, <1>3 DEF Lists

\* Whoever gets a code is done with the command.
LEMMA CodeLists ==
  ASSUME Lists, TypeInv', CacheInv', InboxInv', Onward, \A j \in job' : JobInv(j)',
         NEW i, NEW n, Answer(i, Code(n))
  PROVE  Lists'
<1>1. ASSUME NEW c \in Clients, client'[c] = After(client[c], Code(n))
      PROVE  AskerInv(client[c])'
  <2>1. Code(n).kind = "code"
    BY DEF Code
  <2>2. client'[c] = Idle
    BY <1>1, <2>1 DEF After
  <2>. QED  BY <2>2, IdleIsOK
<1>. QED  BY <1>1, AnswerLists

\* The loop takes an interest.
LEMMA TakesLists ==
  ASSUME IInv, Lists, NEW i, inbox # <<>>, Takes(i)
  PROVE  IsInterest(i) /\ InboxInv' /\ job = {}
<1>1. i = Head(inbox) /\ inbox' = Tail(inbox) /\ job = {}
  BY DEF Takes
<1>2. PICK S : inbox \in Seq(S)
  BY DEF IInv
<1>3. /\ 1 \in DOMAIN inbox /\ i = inbox[1]
      /\ \A k \in DOMAIN inbox' : k + 1 \in DOMAIN inbox /\ inbox'[k] = inbox[k + 1]
  <2>1. Len(inbox) \in Nat \ {0} /\ DOMAIN inbox = 1 .. Len(inbox) /\ Head(inbox) = inbox[1]
          /\ DOMAIN inbox' = 1 .. Len(inbox) - 1
          /\ \A n \in 1 .. Len(inbox) - 1 : inbox'[n] = inbox[n + 1]
    BY <1>1, <1>2
  <2>. QED  BY <1>1, <2>1
<1>. QED  BY <1>1, <1>3 DEF Lists, InboxInv

LEMMA TablesGrow ==
  ASSUME TypeInv, UNCHANGED tables \/ \E t \in Tables : Counted(t) \/ Uncounted(t)
  PROVE  TypeInv' /\ \A t \in Tables : changes'[t] >= changes[t]
<1>1. changes \in [Tables -> Nat] /\ version \in [Tables -> Nat]
        /\ changes["fib"] + changes["face"] <= MaxChanges /\ MaxChanges \in Nat
  BY BoundsAssumption DEF TypeInv
<1>2. CASE UNCHANGED tables
  BY <1>1, <1>2 DEF TypeInv, tables
<1>3. ASSUME NEW t \in Tables, Counted(t) \/ Uncounted(t)
      PROVE  TypeInv' /\ \A u \in Tables : changes'[u] >= changes[u]
  <2>1. /\ changes' = [changes EXCEPT ![t] = @ + 1]
        /\ version' = [version EXCEPT ![t] = @ + 1] \/ version' = version
        /\ changes["fib"] + changes["face"] < MaxChanges
    BY <1>3 DEF Counted, Uncounted, MayChange
  <2>2. t = "fib" \/ t = "face"
    BY DEF Tables
  <2>3. changes' \in [Tables -> Nat] /\ version' \in [Tables -> Nat]
    BY <1>1, <2>1
  <2>4. \A u \in Tables : changes'[u] = IF u = t THEN changes[u] + 1 ELSE changes[u]
    BY <1>1, <2>1
  <2>5. "fib" \in Tables /\ "face" \in Tables
    BY DEF Tables
  <2>6. changes["fib"] \in Nat /\ changes["face"] \in Nat
    BY <1>1, <2>5
  <2>7. changes'["fib"] + changes'["face"] <= MaxChanges
    BY <1>1, <2>1, <2>2, <2>4, <2>5, <2>6
  <2>. QED  BY <1>1, <2>3, <2>4, <2>7 DEF TypeInv
<1>. QED  BY <1>2, <1>3

\* Tables may change while cache and list in the making stay.
LEMMA TablesOnward ==
  ASSUME Lists, UNCHANGED <<job, cache, recent>>,
         UNCHANGED tables \/ \E t \in Tables : Counted(t) \/ Uncounted(t)
  PROVE  TypeInv' /\ CacheInv' /\ Onward /\ \A j \in job' : JobInv(j)'
<1>1. TypeInv' /\ \A t \in Tables : changes'[t] >= changes[t]
  BY TablesGrow DEF Lists
<1>2. CacheInv' /\ Onward
  BY <1>1 DEF Lists, CacheInv, Onward
<1>3. ASSUME NEW j \in job'
      PROVE  JobInv(j)'
  <2>1. IsInterest(j.ask) /\ j.from \in 0 .. MaxChanges /\ j.from <= changes[TableOf(j.ask)]
    BY <1>3 DEF Lists, JobInv
  <2>2. TableOf(j.ask) \in Tables
    BY DEF TableOf, Tables
  <2>3. changes[TableOf(j.ask)] \in Nat /\ changes'[TableOf(j.ask)] \in Nat
          /\ changes'[TableOf(j.ask)] >= changes[TableOf(j.ask)]
    BY <1>1, <2>2 DEF Lists, TypeInv
  <2>4. j.from <= changes'[TableOf(j.ask)]
    BY <2>1, <2>3
  <2>. QED  BY <2>1, <2>4 DEF JobInv
<1>. QED  BY <1>1, <1>2, <1>3

-----------------------------------------------------------------------------
(* Slices and meta data *)

\* A slice of the cache is the next of the list that a client has.
LEMMA SliceIsNext ==
  ASSUME NEW s, NEW r, AskerInv(s), ListInv(s), s.at = "fetching",
         IsClient(s), NEW of, IsList(of), of.from >= s.of.from,
         r = SliceAt(of, Len(s.got))
  PROVE  LET a == After(s, r)
         IN  AskerInv(a) /\ ListInv(a)
<1>. DEFINE got == Append(s.got, [of |-> r.of, bytes |-> r.bytes])
            at == IF Len(s.got) + 1 = s.count THEN "done" ELSE "ready"
            a == After(s, r)
<1>1. r.kind = "slice" /\ r.of = of /\ r.bytes = SliceAt(of, Len(s.got)).bytes
  BY DEF SliceAt
<1>2. a = [s EXCEPT !.got = got, !.at = at]
  BY <1>1 DEF After
<1>3. PICK S : s.got \in Seq(S)
  BY DEF AskerInv
<1>4. /\ got \in Seq(S \cup {[of |-> r.of, bytes |-> r.bytes]})
      /\ Len(s.got) \in Nat /\ Len(got) = Len(s.got) + 1
      /\ \A k \in 1 .. Len(s.got) : got[k] = s.got[k]
      /\ got[Len(s.got) + 1] = [of |-> r.of, bytes |-> r.bytes]
  <2>. DEFINE x == [of |-> r.of, bytes |-> r.bytes]
  <2>1. s.got \in Seq(S \cup {x}) /\ x \in S \cup {x}
    BY <1>3
  <2>. HIDE DEF x
  <2>. QED  BY <1>3, <2>1
<1>. HIDE DEF got, at, a
<1>5. /\ a.at = at /\ a.ask = s.ask /\ a.since = s.since /\ a.version = s.version
      /\ a.count = s.count /\ a.of = s.of /\ a.got = got
  BY <1>2 DEF IsClient
<1>6. s.count \in Nat /\ Len(s.got) < s.count
  <2>1. s.count = SliceNum(s.of.bytes) /\ s.of.bytes \in Nat \ {0}
    BY DEF ListInv, IsList
  <2>2. SliceNum(s.of.bytes) \in Nat
    BY <2>1, Slicing
  <2>. QED  BY <2>1, <2>2 DEF ListInv
<1>7. HasList(a) /\ IF a.at = "done" THEN Len(a.got) = a.count ELSE Len(a.got) < a.count
  <2>1. CASE Len(s.got) + 1 = s.count
    BY <1>4, <1>5, <2>1 DEF at, HasList
  <2>2. CASE Len(s.got) + 1 # s.count
    <3>1. a.at = "ready"
      BY <1>5, <2>2 DEF at
    <3>2. Len(a.got) < a.count
      BY <1>4, <1>5, <1>6, <2>2
    <3>. QED  BY <3>1, <3>2 DEF HasList
  <2>. QED  BY <2>1, <2>2
<1>8. ASSUME NEW k \in 1 .. Len(a.got)
      PROVE  /\ IsList(a.got[k].of) /\ a.got[k].of.from >= a.of.from
             /\ a.got[k].bytes = SliceAt(a.got[k].of, k - 1).bytes
  <2>1. CASE k \in 1 .. Len(s.got)
    <3>1. a.got[k] = s.got[k]
      BY <1>4, <1>5, <2>1
    <3>. QED  BY <1>5, <2>1, <3>1 DEF ListInv
  <2>2. CASE k = Len(s.got) + 1
    <3>1. a.got[k].of = of /\ a.got[k].bytes = SliceAt(of, Len(s.got)).bytes
      BY <1>1, <1>4, <1>5, <2>2
    <3>2. k - 1 = Len(s.got)
      BY <1>4, <2>2
    <3>. QED  BY <1>5, <3>1, <3>2
  <2>. QED  BY <1>4, <1>5, <2>1, <2>2
<1>9. ListInv(a)
  BY <1>5, <1>7, <1>8 DEF ListInv
<1>10. a.at # "asking"
  BY <1>7 DEF HasList
<1>. QED  BY <1>4, <1>5, <1>7, <1>9, <1>10 DEF AskerInv, a

LEMMA HitLists ==
  ASSUME IInv, Lists, NEW i, inbox # <<>>, Hit(i)
  PROVE  Lists'
<1>. DEFINE e == Lookup(cache, i)
<1>1. /\ Takes(i) /\ i \in Keys(cache) /\ cache' = Get(cache, i) /\ recent' = Touch(recent, i)
      /\ Answer(i, e.value) /\ UNCHANGED tables /\ UNCHANGED job
  BY DEF Hit
<1>2. InboxInv' /\ job = {}
  BY <1>1, TakesLists
<1>3. /\ Lockstep(cache', recent') /\ Entries(cache') = Entries(cache)
      /\ e \in Entries(cache) /\ e.key = i
  BY <1>1, GetsOne DEF Lists, CacheInv
<1>4. CacheInv' /\ Onward /\ TypeInv' /\ \A j \in job' : JobInv(j)'
  <2>1. CacheInv'
    BY <1>3 DEF Lists, CacheInv
  <2>2. TypeInv' /\ \A t \in Tables : changes'[t] >= changes[t]
    BY <1>1, TablesGrow DEF Lists
  <2>. QED  BY <1>1, <1>2, <1>3, <2>1, <2>2 DEF Onward
<1>5. PICK a, v, k, of :
        /\ IsInterest(a) /\ v \in Nat /\ k \in Nat /\ IsList(of)
        /\ e = [key |-> SliceName(a, v, k), value |-> SliceAt(of, k)]
  BY <1>3 DEF Lists, CacheInv, IsSlice
<1>6. i = SliceName(a, v, k) /\ e.value = SliceAt(of, k) /\ e.value.kind = "slice"
        /\ e.value.of = of
  BY <1>3, <1>5 DEF SliceAt
<1>. HIDE DEF e
<1>7. ASSUME NEW c \in Clients, i \in DOMAIN pending, c \in pending[i],
             client'[c] = After(client[c], e.value)
      PROVE  AskerInv(client[c])'
  <2>. DEFINE s == client[c]
  <2>1. AskerInv(s) /\ Waits(c) /\ Asked(c) = i
    BY <1>7 DEF Lists, QueueInv
  <2>2. CASE s.at = "asking"
    <3>1. client'[c] = Idle
      BY <1>6, <1>7, <2>2 DEF After
    <3>. QED  BY <1>4, <3>1, IdleIsOK
  <2>3. CASE s.at = "fetching"
    <3>1. ListInv(s) /\ IsInterest(s.ask) /\ s.version \in Nat
      BY <2>1, <2>3 DEF AskerInv, HasList
    <3>2. SliceName(s.ask, s.version, Len(s.got)) = i
      BY <2>1, <2>3 DEF Asked, Wanted
    <3>3. Len(s.got) \in Nat /\ Len(s.got) < s.count
      BY <2>1, <2>3, <3>1 DEF AskerInv, ListInv
    <3>4. IsClient(s)
      BY DEF IInv, ClientInv
    <3>. HIDE DEF s
    <3>5. a = s.ask /\ v = s.version /\ k = Len(s.got)
      BY <1>5, <1>6, <3>1, <3>2, <3>3, SliceNamesDiffer
    <3>6. e.value = SliceAt(of, Len(s.got))
      BY <1>6, <3>5
    <3>7. of.from >= s.of.from
      BY <1>3, <1>6, <3>1, <3>2, <3>3 DEF ListInv
    <3>8. AskerInv(After(s, e.value)) /\ ListInv(After(s, e.value))
      BY <1>5, <2>1, <2>3, <3>1, <3>4, <3>6, <3>7, SliceIsNext
    <3>9. AskerInv(client'[c]) /\ ListInv(client'[c])
      BY <1>7, <3>8 DEF s
    <3>10. /\ UNCHANGED <<changes, job>> /\ Entries(cache') = Entries(cache)
      BY <1>1, <1>3 DEF tables
    <3>11. ListInv(client[c])'
      BY <3>9, <3>10 DEF ListInv
    <3>12. AskedInv(client'[c]) => AskedInv(client[c])'
      BY <3>10 DEF AskedInv
    <3>. QED  BY <3>9, <3>10, <3>11, <3>12 DEF AskerInv
  <2>. QED  BY <2>1, <2>2, <2>3 DEF Waits
<1>8. Answer(i, e.value)
  BY <1>1 DEF e
<1>. QED  BY <1>2, <1>4, <1>7, <1>8, AnswerLists

LEMMA PublishLists ==
  ASSUME IInv, Lists, Publish
  PROVE  Lists'
<1>1. PICK j \in job : /\ \E b \in Bytes(TableOf(j.ask), j.from, changes[TableOf(j.ask)]) :
                            Done(j.ask, version[TableOf(j.ask)], List(j.from, b))
                       /\ job' = {}
                       /\ UNCHANGED <<tables, inbox, alive>>
  BY DEF Publish
<1>. DEFINE i == j.ask
            v == version[TableOf(i)]
<1>11. PICK b \in Bytes(TableOf(i), j.from, changes[TableOf(i)]) : Done(i, v, List(j.from, b))
  BY <1>1
<1>. DEFINE of == List(j.from, b)
            n == SliceNum(of.bytes)
            r == Meta(v, n, of)
<1>2. /\ cache' = Saved(i, v, of, n) /\ recent' = TouchAll(i, v, n) /\ Answer(i, r)
  BY <1>11 DEF Done
<1>3. /\ IsInterest(i) /\ IsList(of) /\ of.from = j.from /\ v \in Nat /\ n \in Nat \ {0}
      /\ j.from \in Nat /\ j.from <= changes[TableOf(i)]
  <2>1. IsInterest(i) /\ j.from \in 0 .. MaxChanges /\ j.from <= changes[TableOf(i)]
    BY DEF Lists, JobInv
  <2>2. TableOf(i) \in Tables /\ changes[TableOf(i)] \in 0 .. MaxChanges
    BY TableOfIs DEF Lists
  <2>3. b \in Nat \ {0}
    BY <1>11, <2>1, <2>2, BytesOf
  <2>4. of.from = j.from /\ of.bytes = b
    BY DEF List
  <2>5. n \in Nat \ {0}
    BY <2>3, <2>4, Slicing
  <2>6. v \in Nat
    BY <2>2 DEF Lists, TypeInv
  <2>. HIDE DEF of, n, v
  <2>. QED  BY <2>1, <2>3, <2>4, <2>5, <2>6 DEF IsList
<1>. HIDE DEF n, v, of
<1>4. /\ Lockstep(cache', recent')
      /\ \A e \in Entries(cache') :
           \/ \E k \in 0 .. n - 1 : e = [key |-> SliceName(i, v, k), value |-> SliceAt(of, k)]
           \/ e \in Entries(cache) /\ \A k \in 0 .. n - 1 : e.key # SliceName(i, v, k)
  BY <1>2, <1>3, SavesAll DEF Lists, CacheInv
<1>5. ASSUME NEW e \in Entries(cache'), NEW k \in 0 .. n - 1,
             e = [key |-> SliceName(i, v, k), value |-> SliceAt(of, k)]
      PROVE  k \in Nat /\ e.key = SliceName(i, v, k) /\ e.value.of = of /\ e.value.of.from = j.from
  BY <1>5, <1>3 DEF SliceAt
<1>6. CacheInv'
  <2>1. ASSUME NEW e \in Entries(cache')
        PROVE  IsSlice(e)
    <3>1. CASE e \in Entries(cache)
      BY <3>1 DEF Lists, CacheInv
    <3>2. ASSUME NEW k \in 0 .. n - 1,
                 e = [key |-> SliceName(i, v, k), value |-> SliceAt(of, k)]
          PROVE  IsSlice(e)
      BY <1>3, <1>5, <3>2 DEF IsSlice
    <3>. QED  BY <1>4, <3>1, <3>2
  <2>2. ASSUME NEW e \in Entries(cache')
        PROVE  IsSlice(e)'
    BY <2>1 DEF IsSlice
  <2>. QED  BY <1>4, <2>2 DEF CacheInv
<1>7. TypeInv' /\ \A t \in Tables : changes'[t] >= changes[t]
  BY <1>1, TablesGrow DEF Lists
<1>8. Onward
  <2>1. ASSUME NEW e \in Entries(cache')
        PROVE  \/ e \in Entries(cache)
               \/ \E m \in job, w, k \in Nat : e.key = SliceName(m.ask, w, k) /\ e.value.of.from = m.from
    BY <1>3, <1>4, <1>5
  <2>. QED  BY <1>1, <1>7, <2>1 DEF Onward
<1>9. InboxInv' /\ \A m \in job' : JobInv(m)'
  BY <1>1 DEF Lists, InboxInv
<1>10. ASSUME NEW c \in Clients, i \in DOMAIN pending, c \in pending[i],
              client'[c] = After(client[c], r)
       PROVE  AskerInv(client[c])'
  <2>. DEFINE s == client[c]
  <2>1. AskerInv(s) /\ Waits(c) /\ Asked(c) = i
    BY <1>10 DEF Lists, QueueInv
  <2>2. r.kind = "meta" /\ r.version = v /\ r.count = n /\ r.of = of
    BY DEF Meta
  <2>3. CASE s.at = "fetching"
    <3>1. client'[c] = Idle
      BY <1>10, <2>2, <2>3 DEF After
    <3>. QED  BY <1>7, <3>1, IdleIsOK
  <2>4. CASE s.at = "asking"
    <3>1. s.ask = i
      BY <2>1, <2>4 DEF Asked
    <3>2. client'[c] = [Idle EXCEPT !.at = "ready", !.ask = s.ask,
                                    !.version = v, !.count = n, !.of = of]
      BY <1>10, <2>2, <2>4 DEF After
    <3>4. /\ client'[c].at = "ready" /\ client'[c].ask = i /\ client'[c].since = 0
          /\ client'[c].version = v /\ client'[c].count = n /\ client'[c].of = of
          /\ client'[c].got = <<>>
      <4>. HIDE DEF s
      <4>. QED  BY <3>1, <3>2 DEF Idle
    <3>. HIDE DEF s
    <3>5. ASSUME NEW e \in Entries(cache'), NEW k \in Nat, k < n, e.key = SliceName(i, v, k)
          PROVE  e.value.of.from >= of.from
      <4>1. k \in 0 .. n - 1
        BY <1>3, <3>5
      <4>2. PICK m \in 0 .. n - 1 :
              e = [key |-> SliceName(i, v, m), value |-> SliceAt(of, m)]
        BY <1>4, <3>5, <4>1
      <4>3. e.value.of.from = j.from
        BY <1>5, <4>2
      <4>. QED  BY <1>3, <4>3
    <3>6. Len(<<>>) = 0 /\ 0 < n /\ (\A k \in 1 .. 0 : FALSE) /\ <<>> \in Seq({})
      BY <1>3
    <3>7. ListInv(client[c])'
      <4>1. client'[c].count = SliceNum(of.bytes)
        BY <3>4 DEF n
      <4>2. Len(client'[c].got) = 0 /\ 0 < client'[c].count
        BY <3>4, <3>6
      <4>3. job' = {}
        BY <1>1
      <4>4. \A k \in 1 .. Len(client'[c].got) : FALSE
        BY <4>2
      <4>5. of.from <= changes'[TableOf(i)]
        BY <1>1, <1>3 DEF tables
      <4>. QED  BY <1>3, <3>4, <3>5, <4>1, <4>2, <4>3, <4>4, <4>5 DEF ListInv
    <3>8. HasList(client[c])' /\ 0 \in Nat /\ 0 <= changes'[TableOf(i)]
      <4>1. changes[TableOf(i)] \in Nat /\ changes' = changes
        BY <1>1, TableOfIs DEF Lists, tables
      <4>. QED  BY <3>4, <4>1 DEF HasList
    <3>. QED  BY <1>3, <3>4, <3>6, <3>7, <3>8 DEF AskerInv
  <2>. QED  BY <2>1, <2>3, <2>4 DEF Waits
<1>. HIDE DEF r, i
<1>. QED  BY <1>2, <1>6, <1>7, <1>8, <1>9, <1>10, AnswerLists

LEMMA CollectLists ==
  ASSUME IInv, Lists, NEW i, inbox # <<>>, Collect(i)
  PROVE  Lists'
<1>1. Takes(i) /\ job' = {[ask |-> i, from |-> changes[TableOf(i)]]}
        /\ UNCHANGED <<changes, version, pending, cache, client, recent>>
  BY DEF Collect, Misses, tables
<1>2. IsInterest(i) /\ InboxInv'
  BY <1>1, TakesLists
<1>3. TypeInv' /\ CacheInv' /\ Onward
  BY <1>1 DEF Lists, TypeInv, CacheInv, Onward
<1>4. ASSUME NEW j \in job'
      PROVE  JobInv(j)'
  <2>1. j.ask = i /\ j.from = changes[TableOf(i)]
    BY <1>1
  <2>2. changes[TableOf(i)] \in 0 .. MaxChanges
    BY TableOfIs DEF Lists
  <2>3. changes[TableOf(i)] <= changes[TableOf(i)]
    BY <2>2
  <2>. QED  BY <1>1, <1>2, <2>1, <2>2, <2>3 DEF JobInv
<1>. QED  BY <1>1, <1>2, <1>3, <1>4, QuietLists

LEMMA HandleLists ==
  ASSUME IInv, Lists, NEW i, inbox # <<>>, Handle(i)
  PROVE  Lists'
<1>1. ASSUME Takes(i), UNCHANGED <<job, cache, recent>>,
             UNCHANGED tables \/ \E t \in Tables : Counted(t) \/ Uncounted(t)
      PROVE  TypeInv' /\ CacheInv' /\ InboxInv' /\ Onward /\ \A j \in job' : JobInv(j)'
  BY <1>1, TakesLists, TablesOnward
<1>2. CASE Ignore(i) \/ ParseFails(i) \/ DialUnixFails(i) \/ DelInnerFace(i) \/ ServeInfo(i)
  <2>1. Takes(i) /\ UNCHANGED <<job, cache, recent>> /\ UNCHANGED tables
          /\ UNCHANGED <<pending, client>>
    BY <1>2 DEF Ignore, ParseFails, DialUnixFails, DelInnerFace, ServeInfo, Misses, Ends
  <2>. QED  BY <1>1, <2>1, QuietLists
<1>3. CASE Refuse(i)
  <2>1. Takes(i) /\ UNCHANGED <<job, cache, recent>> /\ UNCHANGED tables /\ Answer(i, Code(400))
    BY <1>3 DEF Refuse, Refusal
  <2>. QED  BY <1>1, <2>1, CodeLists
<1>4. CASE Execute(i)
  <2>1. Takes(i) /\ UNCHANGED <<job, cache, recent>>
    BY <1>4 DEF Execute, Misses
  <2>2. "fib" \in Tables /\ "face" \in Tables
    BY DEF Tables
  <2>3. UNCHANGED tables \/ \E t \in Tables : Counted(t) \/ Uncounted(t)
    BY <1>4, <2>2 DEF Execute, AddNextHop, RemoveNextHop, AddFace, DelFace, ChangeConfig
  <2>4. \E n : Answer(i, Code(n))
    BY <1>4 DEF Execute, AddNextHop, RemoveNextHop, AddFace, DelFace, ChangeConfig
  <2>. QED  BY <1>1, <2>1, <2>3, <2>4, CodeLists
<1>. QED  BY <1>2, <1>3, <1>4, HitLists, CollectLists DEF Handle

-----------------------------------------------------------------------------
(* What comes of lists *)

LEMMA NextLists == IInv /\ Lists /\ [Next]_vars => Lists'
<1>. SUFFICES ASSUME IInv, Lists, [Next]_vars PROVE Lists'
  OBVIOUS
<1>1. CASE \E c \in Clients : Ask(c) \/ FetchSlice(c) \/ Expire(c) \/ Show(c)
  BY <1>1, AskLists, FetchLists, StopLists
<1>2. CASE Serve
  BY <1>2, HandleLists, PublishLists DEF Serve
<1>3. CASE Elsewhere \/ UNCHANGED vars
  <2>1. /\ UNCHANGED <<inbox, pending, job, cache, client, recent>>
        /\ UNCHANGED tables \/ \E t \in Tables : Counted(t) \/ Uncounted(t)
    <3>1. CASE Elsewhere
      BY <3>1 DEF Elsewhere
    <3>2. CASE UNCHANGED vars
      BY <3>2 DEF vars, tables
    <3>. QED  BY <1>3, <3>1, <3>2
  <2>2. InboxInv'
    BY <2>1 DEF Lists, InboxInv
  <2>. QED  BY <2>1, <2>2, TablesOnward, QuietLists
<1>. QED  BY <1>1, <1>2, <1>3 DEF Next

LEMMA ListsHold == Spec => []Lists
<1>1. Init => Lists
  BY InitLists
<1>2. IInv /\ Lists /\ [Next]_vars => Lists'
  BY NextLists
<1>. QED  BY <1>1, <1>2, Invariance, PTL DEF Spec

\* Only meta data tells a client of a list.
LEMMA OthersTell ==
  ASSUME NEW c \in Clients, NEW i, NEW r, Answer(i, r), r.kind # "meta"
  PROVE  Told(c)
<1>1. client'[c] = client[c] \/ client'[c] = After(client[c], r)
  BY DEF Answer
<1>2. client[c].at = "asking" => After(client[c], r) = Idle
  BY DEF After
<1>. QED  BY <1>1, <1>2 DEF Told, Idle

\* The list that Publish tells of, it had begun when the client had asked.
LEMMA PublishTells ==
  ASSUME Lists, Publish, NEW c \in Clients
  PROVE  Told(c)
<1>. SUFFICES ASSUME client[c].at = "asking", client'[c].at = "ready", ~client[c].joins
              PROVE  client'[c].of.from >= client[c].since
  BY DEF Told
<1>1. PICK j \in job : \E b : Done(j.ask, version[TableOf(j.ask)], List(j.from, b))
  BY DEF Publish
<1>2. PICK v, n, b : Answer(j.ask, Meta(v, n, List(j.from, b)))
  BY <1>1 DEF Done
<1>. DEFINE r == Meta(v, n, List(j.from, b))
<1>3. j.ask \in DOMAIN pending /\ c \in pending[j.ask] /\ client'[c] = After(client[c], r)
  BY <1>2 DEF Answer
<1>4. client'[c].of = List(j.from, b)
  <2>1. r.kind = "meta" /\ r.of = List(j.from, b)
    BY DEF Meta
  <2>. HIDE DEF r
  <2>. QED  BY <1>3, <2>1 DEF After, Idle
<1>5. client[c].ask = j.ask
  BY <1>3 DEF Lists, QueueInv, Asked
<1>6. client[c].since \in Nat /\ client[c].since <= j.from /\ j.from \in Nat
  BY <1>5 DEF Lists, AskerInv, AskedInv, JobInv
<1>. QED  BY <1>4, <1>6 DEF List

LEMMA NextTells ==
  ASSUME IInv, Lists, [Next]_vars, NEW c \in Clients
  PROVE  Told(c)
<1>1. ASSUME NEW d \in Clients, Ask(d) \/ FetchSlice(d) \/ Expire(d) \/ Show(d)
      PROVE  Told(c)
  <2>1. \E s : client' = [client EXCEPT ![d] = s] /\ s.at # "ready"
    <3>1. CASE Ask(d)
      <4>1. PICK i : client' = [client EXCEPT ![d] = Asking(i)]
        BY <3>1 DEF Ask, AddFib, DeleteNextHop, ListFib, AddLogicFace, DelLogicFace,
                    ListLogicFace, Asks, AsksOther, Begins
      <4>2. Asking(i).at = "asking"
        BY DEF Asking, Idle
      <4>. QED  BY <4>1, <4>2
    <3>2. CASE FetchSlice(d)
      <4>1. client' = [client EXCEPT ![d] = [client[d] EXCEPT !.at = "fetching"]]
        BY <3>2 DEF FetchSlice
      <4>2. [client[d] EXCEPT !.at = "fetching"].at = "fetching"
        BY DEF IInv, ClientInv, IsClient
      <4>. QED  BY <4>1, <4>2
    <3>3. CASE Expire(d) \/ Show(d)
      BY <3>3 DEF Expire, Show, Idle
    <3>. QED  BY <1>1, <3>1, <3>2, <3>3
  <2>. QED  BY <2>1 DEF IInv, Told
<1>2. ASSUME inbox # <<>>, Handle(Head(inbox))
      PROVE  Told(c)
  <2>. DEFINE i == Head(inbox)
  <2>1. CASE UNCHANGED client
    BY <2>1 DEF Told
  <2>2. ASSUME NEW n, Answer(i, Code(n))
        PROVE  Told(c)
    BY <2>2, OthersTell DEF Code
  <2>3. CASE Hit(i)
    <3>. DEFINE e == Lookup(cache, i)
    <3>1. Answer(i, e.value) /\ i \in Keys(cache)
      BY <2>3 DEF Hit
    <3>2. e \in Entries(cache)
      BY <3>1, GetsOne DEF Lists, CacheInv
    <3>3. e.value.kind = "slice"
      BY <3>2 DEF Lists, CacheInv, IsSlice, SliceAt
    <3>. HIDE DEF e
    <3>. QED  BY <3>1, <3>3, OthersTell
  <2>4. CASE Refuse(i)
    BY <2>2, <2>4 DEF Refuse, Refusal
  <2>5. CASE Execute(i)
    BY <2>2, <2>5 DEF Execute, AddNextHop, RemoveNextHop, AddFace, DelFace, ChangeConfig
  <2>. QED
    BY <1>2, <2>1, <2>3, <2>4, <2>5
    DEF Handle, Ignore, ParseFails, DialUnixFails, DelInnerFace, ServeInfo, Collect, Ends
<1>3. CASE UNCHANGED client
  BY <1>3 DEF Told
<1>. QED  BY <1>1, <1>2, <1>3, PublishTells DEF Next, Serve, Elsewhere, vars

\* A client that did not join others at a list in the making is told of none that
\* was begun before it asked, and accepts no slice of an older one than it is told
\* of, though names and versions repeat while the tables change: Dispatcher.Cache
\* keeps one value under a name, LRU.Add replaces it, and Done saves
\* all slices before the meta data goes out.
THEOREM SlicesAreNeverOlder == Spec => NeverOlderThanAsked
<1>1. IInv /\ Lists /\ GotNoOlder' /\ [Next]_vars
        => [\A c \in Clients : Told(c) /\ Accepted(c)]_client
  BY NextTells DEF GotNoOlder, Accepted
<1>. QED  BY <1>1, Invariance, ListsHold, ListsImply, PTL DEF Spec, NeverOlderThanAsked

\* The slices that StatusDatasetContext cuts from a list make up the list: a
\* client that got all of them from one list has its every byte, in slices that
\* are neither empty nor larger than SliceSize.
THEOREM ListsAreAlwaysWhole == Spec => []ListsAreWhole
BY ListsHold, ListsImply, PTL

\* LRU keeps the names touched last: a name is in the cache exactly if no more
\* than the others that fit were saved or hit after it.
THEOREM RecentSlicesAlwaysHit == Spec => []RecentSlicesHit
BY ListsHold, ListsImply, PTL
=============================================================================
