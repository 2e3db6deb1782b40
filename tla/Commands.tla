------------------------------ MODULE Commands ------------------------------
(***************************************************************************)
(* The commands that the managers register with the dispatcher when the    *)
(* daemon starts, and what the dispatcher makes of an interest before a    *)
(* handler sees it (daemon/mgmt/Dispatcher.go and the Init methods of the  *)
(* managers).                                                              *)
(***************************************************************************)
EXTENDS TLC, Naturals, Sequences

\* A Module: a control command is answered by what its handler returns, a data
\* set in pieces; "needs" are the parameters its validator wants.
Control(needs) == [kind |-> "control", needs |-> needs]
Dataset(needs) == [kind |-> "dataset", needs |-> needs]

FibCommands ==
     "fib-mgmt/add"      :> Control({"prefix", "faceId", "cost"})
  @@ "fib-mgmt/del"      :> Control({"prefix", "faceId"})
  @@ "fib-mgmt/list"     :> Dataset({})
  @@ "fib-mgmt/register" :> Control({"prefix"})

FaceCommands ==
     "face-mgmt/add"  :> Control({"uri", "persistency"})
  @@ "face-mgmt/del"  :> Control({"faceId"})
  @@ "face-mgmt/list" :> Dataset({})

CsCommands ==
     "cs-mgmt/delete" :> Control({"prefix", "count", "capacity"})
  @@ "cs-mgmt/list"   :> Dataset({})

IdentityCommands ==
     "identity-mgmt/add"        :> Control({"prefix", "passwd"})
  @@ "identity-mgmt/del"        :> Control({"prefix", "passwd"})
  @@ "identity-mgmt/list"       :> Dataset({})
  @@ "identity-mgmt/dumpCert"   :> Dataset({"prefix"})
  @@ "identity-mgmt/importCert" :> Control({"string"})
  @@ "identity-mgmt/setDef"     :> Control({"prefix"})
  @@ "identity-mgmt/dumpId"     :> Dataset({"prefix", "passwd"})
  @@ "identity-mgmt/loadId"     :> Control({"passwd", "string"})
  @@ "identity-mgmt/getId"      :> Dataset({"prefix"})
  @@ "identity-mgmt/selfIssue"  :> Control({"prefix", "passwd"})

\* AddControlCommand and AddStatusDataset refuse a name that is registered, so
\* of two the first stays, as it does with @@.
Registered == FibCommands @@ FaceCommands @@ CsCommands @@ IdentityCommands

\* AddTopPrefix is called once.
TopPrefixList == {"localhost"}

\* An interest of the command rel with the parameters in has.
Interest(rel, has) ==
  [shape |-> "command", top |-> "localhost", rel |-> rel, has |-> has, slice |-> <<>>]

\* i has the parts of an interest; its name may end in version and fragment.
IsInterest(i) ==
  /\ i = [shape |-> i.shape, top |-> i.top, rel |-> i.rel, has |-> i.has, slice |-> i.slice]
  /\ i.slice \in Seq(Nat)

\* Start goes on to the next packet without a word.
Ignored(i) == i.shape \in {"noManagement", "noInterest"}

\* The name is long enough and names a command, and the top prefix is served.
Served(i) ==
  /\ i.shape # "short"
  /\ i.rel \in DOMAIN Registered
  /\ i.top \in TopPrefixList

\* Whether Start lets a handler see it, and does not answer with an error: a
\* control command has its parameters.  The validator of a data set is never
\* asked.  An error of ParseControlParameters is logged and passed over: of a
\* "garbled" interest i.has is what could be parsed.
Admitted(i) ==
  /\ Served(i)
  /\ Registered[i.rel].kind = "control" => Registered[i.rel].needs \subseteq i.has

\* If nothing could be, there are no parameters, and to ask the validator of a
\* control command about them is to panic.
Panics(i) == Served(i) /\ Registered[i.rel].kind = "control" /\ i.shape = "garbled"
=============================================================================
