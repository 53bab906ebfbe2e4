----------------------------- MODULE PostCheck -------------------------------
(***************************************************************************)
(* PostCheck, request by request.  The engine calls it after a Create or   *)
(* an Update and again whenever it reports an error.  It makes a service   *)
(* account on the managed cluster, lets a cluster without workers schedule *)
(* on its control plane, installs what the cluster is to run and registers *)
(* it, while the token controller, the kubelets, the operators and Cluster *)
(* API write to the same objects.  Nothing is remembered from one call to  *)
(* the next but what the calls have left on the clusters.                  *)
(*                                                                         *)
(* Uninstalling Verrazzano, the other end of PostCheck, is in              *)
(* ClusterLifecycle: no Update here takes it away.                         *)
(***************************************************************************)
EXTENDS Naturals

CONSTANTS
  Options,        \* the options clusters are made with, as far as PostCheck looks
  Nodes,          \* the nodes the managed cluster ever has
  FirstNodes,     \* those it has from the beginning
  MaxPolls,       \* the times waitForDeployment looks before it times out
  MaxUpdates,     \* bound: Updates by the engine after the Create
  MaxNodeWrites,  \* bound: changes of nodes by others
  MaxUnready,     \* bound: times an operator stops being ready
  MaxAborts       \* bound: calls cut short

ASSUME PostCheckAssumption ==
  /\ Options \subseteq [single : BOOLEAN, quick : BOOLEAN, install : BOOLEAN]
  /\ FirstNodes \subseteq Nodes
  /\ MaxPolls \in Nat \ {0}
  /\ MaxUpdates \in Nat /\ MaxNodeWrites \in Nat
  /\ MaxUnready \in Nat /\ MaxAborts \in Nat

VARIABLES
  v,          \* the Variables in the ClusterInfo, as far as PostCheck looks
  job,        \* does the engine still want a PostCheck?
  pc,         \* the next request of the call under way
  call,       \* what the call has read: its token, nodes and subnets
  token,      \* the token in the ClusterInfo of the last successful PostCheck
  ready,      \* IsCAPIClusterReady: the status the controllers published last
  settled,    \* they have seen everything written so far
  subnets,    \* the OCICluster has the identifiers of its subnets
  crd,        \* the admin cluster serves VerrazzanoManagedClusters
  account,    \* the service account exists
  secret,     \* its token secret
  bound,      \* the account is bound to cluster-admin
  node,       \* the nodes of the managed cluster
  operator,   \* the operators whose deployments are ready
  installed,  \* what PostCheck has created or updated
  config,     \* the subnets in the secret of the cloud controller manager
  spent       \* how much of each bound is used up

engineVars == <<v, job, token>>
adminVars == <<ready, settled, subnets, crd>>
accountVars == <<account, secret, bound>>
managedVars == <<accountVars, node, operator, installed, config>>
vars == <<engineVars, pc, call, adminVars, managedVars, spent>>

Operators == {"module", "platform"}

\* A node as the driver sees it: the taints of a control plane, which it joins with,
\* what others keep in the same object, and its resource version.
NodeState == [joined : BOOLEAN, tainted : BOOLEAN, others : BOOLEAN, version : Nat]
NoNode == [joined |-> FALSE, tainted |-> TRUE, others |-> FALSE, version |-> 0]
NewNode == [NoNode EXCEPT !.joined = TRUE, !.version = 1]
CallState == [token : BOOLEAN, listed : [Nodes -> NodeState], todo : SUBSET Nodes,
              subnets : {"unset", "empty", "ids"}, polls : 0..(MaxPolls - 1)]
NoCall == [token |-> FALSE, listed |-> [n \in Nodes |-> NoNode], todo |-> {},
           subnets |-> "unset", polls |-> 0]

Init ==
  /\ v \in Options
  /\ job = "postcheck"
  /\ pc = "none"
  /\ call = NoCall
  /\ token = "none"
  /\ ready = FALSE
  /\ settled = FALSE
  /\ subnets = ~v.quick
  /\ crd \in BOOLEAN
  /\ account = FALSE
  /\ secret = "absent"
  /\ bound = FALSE
  /\ node = [n \in Nodes |-> IF n \in FirstNodes THEN NewNode ELSE NoNode]
  /\ operator = {}
  /\ installed = {}
  /\ config = "absent"
  /\ spent = [updates |-> 0, writes |-> 0, unready |-> 0, aborts |-> 0]

Spend(what, max) ==
  /\ spent[what] < max
  /\ spent' = [spent EXCEPT ![what] = spent[what] + 1]

-----------------------------------------------------------------------------
(* The engine, and how a call begins and ends.                             *)

\* SetUpdateValues: node pools and Verrazzano are those of the new options, the network
\* stays.
SetUpdateValues(old, new) == [old EXCEPT !.single = new.single, !.install = new.install]

\* An Update stores the new values and lays its template over the OCICluster.  mergeMaps
\* replaces lists, and the subnets in the template of a quick-created VCN have no
\* identifiers.
Update ==
  /\ pc = "none"
  /\ ready
  /\ Spend("updates", MaxUpdates)
  /\ \E o \in Options : (v.install => o.install) /\ v' = SetUpdateValues(v, o)
  /\ job' = "postcheck"
  /\ subnets' = (subnets /\ ~v.quick)
  /\ settled' = FALSE
  /\ UNCHANGED <<token, pc, call, ready, crd, managedVars>>

BeginPostCheck ==
  /\ pc = "none"
  /\ job = "postcheck"
  /\ pc' = "ready"
  /\ UNCHANGED <<engineVars, call, adminVars, managedVars, spent>>

GoTo(step) == pc' = step /\ UNCHANGED engineVars

\* Only a ClusterInfo that comes without an error gets back to the engine.
ReturnNil ==
  /\ pc' = "none"
  /\ call' = NoCall
  /\ job' = "idle"
  /\ token' = IF call.token THEN "account" ELSE "none"
  /\ UNCHANGED v

\* Mutant: the call's reading is kept for the next.
ReturnErrorKeeps == pc' = "none" /\ UNCHANGED <<call, engineVars>>

ReturnError ==
  /\ pc' = "none"
  /\ call' = NoCall
  /\ UNCHANGED engineVars

\* A request fails, the answer of one that was served is lost, the client's
\* deadline passes or the driver dies.
Abort ==
  /\ pc # "none"
  /\ Spend("aborts", MaxAborts)
  /\ ReturnError
  /\ UNCHANGED <<adminVars, managedVars>>

-----------------------------------------------------------------------------
(* The readiness gate, and the service account.                            *)

\* The cluster is ready by the status published last; one that was ever ready has
\* a kubeconfig.
IsCAPIClusterReady ==
  /\ pc = "ready"
  /\ IF ready THEN GoTo("account") /\ UNCHANGED call ELSE ReturnError
  /\ UNCHANGED <<adminVars, managedVars, spent>>

CreateServiceAccount ==
  /\ pc = "account"
  /\ account' = TRUE
  /\ GoTo("secret")
  /\ UNCHANGED <<call, adminVars, secret, bound, node, operator, installed, config, spent>>

\* Mutant: a secret that exists is an error.
CreateTokenSecretOnce ==
  /\ pc = "secret"
  /\ secret' = IF secret = "absent" THEN "empty" ELSE secret
  /\ IF secret = "absent" THEN GoTo("token") /\ UNCHANGED call ELSE ReturnError
  /\ UNCHANGED <<adminVars, account, bound, node, operator, installed, config, spent>>

CreateTokenSecret ==
  /\ pc = "secret"
  /\ secret' = IF secret = "absent" THEN "empty" ELSE secret
  /\ GoTo("token")
  /\ UNCHANGED <<call, adminVars, account, bound, node, operator, installed, config, spent>>

\* After ten seconds, whatever the token controller has done by then.
GetTokenSecret ==
  /\ pc = "token"
  /\ call' = [call EXCEPT !.token = (secret = "populated")]
  /\ GoTo("bind")
  /\ UNCHANGED <<adminVars, managedVars, spent>>

\* Mutant: a secret without a token will do.
BindUnpopulated ==
  /\ pc = "bind"
  /\ bound' = TRUE
  /\ GoTo(IF v.single THEN "list" ELSE "yamls")
  /\ UNCHANGED <<call, adminVars, account, secret, node, operator, installed, config, spent>>

\* The role binding is made, found or not, before the token is looked at.
BindServiceAccount ==
  /\ pc = "bind"
  /\ bound' = TRUE
  /\ IF call.token
     THEN GoTo(IF v.single THEN "list" ELSE "yamls") /\ UNCHANGED call
     ELSE ReturnError
  /\ UNCHANGED <<adminVars, account, secret, node, operator, installed, config, spent>>

-----------------------------------------------------------------------------
(* SetSingleNodeTaints.                                                    *)

Joined == {n \in Nodes : node[n].joined}
Listed == {n \in Nodes : call.listed[n].joined}

ListNodes ==
  /\ pc = "list"
  /\ call' = [call EXCEPT !.listed = [n \in Nodes |-> IF n \in Joined THEN node[n] ELSE NoNode],
                         !.todo = Joined]
  /\ GoTo("taints")
  /\ UNCHANGED <<adminVars, managedVars, spent>>

\* The node as it was listed, without the taints.  A write that changes nothing
\* keeps its version.
Untainted(n) ==
  [call.listed[n] EXCEPT !.tainted = FALSE,
     !.version = IF call.listed[n].tainted THEN node[n].version + 1 ELSE node[n].version]

\* Mutant: the node is written whatever became of it since it was listed.
UntaintUnconditionally(n) ==
  /\ pc = "taints"
  /\ n \in call.todo
  /\ node' = [node EXCEPT ![n] = Untainted(n)]
  /\ call' = [call EXCEPT !.todo = call.todo \ {n}]
  /\ GoTo("taints")
  /\ UNCHANGED <<adminVars, accountVars, operator, installed, config, spent>>

\* A node that was written or has gone since it was listed ends the call.
Untaint(n) ==
  /\ pc = "taints"
  /\ n \in call.todo
  /\ IF node[n].joined /\ node[n].version = call.listed[n].version
     THEN /\ node' = [node EXCEPT ![n] = Untainted(n)]
          /\ call' = [call EXCEPT !.todo = call.todo \ {n}]
          /\ GoTo("taints")
     ELSE ReturnError /\ UNCHANGED node
  /\ UNCHANGED <<adminVars, accountVars, operator, installed, config, spent>>

NodesDone ==
  /\ pc = "taints"
  /\ call.todo = {}
  /\ GoTo("yamls")
  /\ UNCHANGED <<call, adminVars, managedVars, spent>>

-----------------------------------------------------------------------------
(* What the cluster is to run.                                             *)

\* A create-or-update of all documents of one kind.
Install(step, what, next) ==
  /\ pc = step
  /\ installed' = installed \union {what}
  /\ GoTo(next)
  /\ UNCHANGED <<call, adminVars, accountVars, node, operator, config, spent>>

CreateOrUpdateYAMLDocuments == Install("yamls", "yamls", "vcn")

\* SetQuickCreateVCNInfo: what it finds is not stored, so every call looks again.
\* A subnet without an identifier gives an empty one.
SetQuickCreateVCNInfo ==
  /\ pc = "vcn"
  /\ call' = [call EXCEPT !.subnets = IF subnets THEN "ids" ELSE "empty"]
  /\ GoTo("wait_module")
  /\ UNCHANGED <<adminVars, managedVars, spent>>

\* Mutant: the time is looked at first.
WaitTimeFirst(step, op, next) ==
  /\ pc = step
  /\ IF call.polls + 1 < MaxPolls
     THEN IF op \in operator
          THEN GoTo(next) /\ call' = [call EXCEPT !.polls = 0]
          ELSE GoTo(step) /\ call' = [call EXCEPT !.polls = call.polls + 1]
     ELSE ReturnError
  /\ UNCHANGED <<adminVars, managedVars, spent>>

\* One round of waitForDeployment: the deployment, then the time.
WaitForDeployment(step, op, next) ==
  /\ pc = step
  /\ \/ /\ op \in operator
        /\ GoTo(next)
        /\ call' = [call EXCEPT !.polls = 0]
     \/ /\ op \notin operator
        /\ IF call.polls + 1 < MaxPolls
           THEN GoTo(step) /\ call' = [call EXCEPT !.polls = call.polls + 1]
           ELSE ReturnError
  /\ UNCHANGED <<adminVars, managedVars, spent>>

\* The secret of the cloud controller manager gets the subnets the call has found.
InstallModules ==
  /\ pc = "modules"
  /\ installed' = installed \union {"modules"}
  /\ config' = call.subnets
  /\ GoTo("provisioner")
  /\ UNCHANGED <<call, adminVars, accountVars, node, operator, spent>>

\* Without Verrazzano there is nothing left to do.
CreateClusterProvisionerConfigMap ==
  /\ pc = "provisioner"
  /\ installed' = installed \union {"provisioner"}
  /\ IF v.install THEN GoTo("wait_platform") /\ UNCHANGED call ELSE ReturnNil
  /\ UNCHANGED <<adminVars, accountVars, node, operator, config, spent>>

CreateOrUpdateVerrazzano == Install("verrazzano", "verrazzano", "vmc")

\* A kind that is not served ends the call: createOrUpdateObject makes a text of the
\* error, so that it never is the IsNoMatchError that UpdateVerrazzano would ignore.
CreateOrUpdateVMC ==
  /\ pc = "vmc"
  /\ IF crd
     THEN installed' = installed \union {"vmc"} /\ ReturnNil
     ELSE ReturnError /\ UNCHANGED installed
  /\ UNCHANGED <<adminVars, accountVars, node, operator, config, spent>>

-----------------------------------------------------------------------------
(* Everybody else.                                                         *)

\* A status says ready until the controllers act on what was written, ...
StartRoll ==
  /\ ready /\ ~settled
  /\ ready' = FALSE
  /\ UNCHANGED <<engineVars, pc, call, settled, subnets, crd, managedVars, spent>>

\* ... and again when all machines run, some of them nodes that are new.
BecomeReady ==
  /\ ~ready \/ ~settled
  /\ subnets
  /\ ready' = TRUE
  /\ settled' = TRUE
  /\ UNCHANGED <<engineVars, pc, call, subnets, crd, managedVars, spent>>

\* The provider looks the subnets up again.
ReconcileSubnets ==
  /\ ~subnets
  /\ subnets' = TRUE
  /\ UNCHANGED <<engineVars, pc, call, ready, settled, crd, managedVars, spent>>

\* The cluster operator is installed on the admin cluster.
CRDInstalled ==
  /\ ~crd
  /\ crd' = TRUE
  /\ UNCHANGED <<engineVars, pc, call, ready, settled, subnets, managedVars, spent>>

PopulateToken ==
  /\ secret = "empty"
  /\ secret' = "populated"
  /\ UNCHANGED <<engineVars, pc, call, adminVars, account, bound, node, operator,
                 installed, config, spent>>

\* A node joins, is written by its kubelet or by a controller, or is replaced.
OthersWrite(n) ==
  /\ Spend("writes", MaxNodeWrites)
  /\ \/ /\ node[n].version = 0
        /\ node' = [node EXCEPT ![n] = NewNode]
     \/ /\ node[n].joined
        /\ node' = [node EXCEPT ![n].others = ~node[n].others,
                                ![n].version = node[n].version + 1]
     \/ /\ node[n].joined
        /\ node' = [node EXCEPT ![n].joined = FALSE, ![n].version = node[n].version + 1]
  /\ UNCHANGED <<engineVars, pc, call, adminVars, accountVars, operator, installed, config>>

OperatorReady(op) ==
  /\ op \notin operator
  /\ operator' = operator \union {op}
  /\ UNCHANGED <<engineVars, pc, call, adminVars, accountVars, node, installed, config, spent>>

OperatorUnready(op) ==
  /\ op \in operator
  /\ Spend("unready", MaxUnready)
  /\ operator' = operator \ {op}
  /\ UNCHANGED <<engineVars, pc, call, adminVars, accountVars, node, installed, config>>

-----------------------------------------------------------------------------
CallStep ==
  \/ IsCAPIClusterReady
  \/ CreateServiceAccount \/ CreateTokenSecret \/ GetTokenSecret \/ BindServiceAccount
  \/ ListNodes \/ (\E n \in Nodes : Untaint(n)) \/ NodesDone
  \/ CreateOrUpdateYAMLDocuments \/ SetQuickCreateVCNInfo
  \/ WaitForDeployment("wait_module", "module", "modules") \/ InstallModules
  \/ CreateClusterProvisionerConfigMap
  \/ WaitForDeployment("wait_platform", "platform", "verrazzano")
  \/ CreateOrUpdateVerrazzano \/ CreateOrUpdateVMC

Others ==
  \/ StartRoll \/ BecomeReady \/ ReconcileSubnets \/ CRDInstalled \/ PopulateToken
  \/ \E n \in Nodes : OthersWrite(n)
  \/ \E op \in Operators : OperatorReady(op) \/ OperatorUnready(op)

Next == Update \/ BeginPostCheck \/ Abort \/ CallStep \/ Others

\* Calls go on and are repeated, and controllers do their work.  Nobody has to
\* update the cluster, install the cluster operator, write a node or stop an operator.
Fairness ==
  /\ WF_vars(BeginPostCheck)
  /\ WF_vars(CallStep)
  /\ WF_vars(BecomeReady) /\ WF_vars(ReconcileSubnets) /\ WF_vars(PopulateToken)
  /\ \A op \in Operators : WF_vars(OperatorReady(op))

Spec == Init /\ [][Next]_vars
FairSpec == Spec /\ Fairness
-----------------------------------------------------------------------------
(* Properties.                                                             *)

Steps ==
  {"none", "ready", "account", "secret", "token", "bind", "list", "taints", "yamls", "vcn",
   "wait_module", "modules", "provisioner", "wait_platform", "verrazzano", "vmc"}
Wanted == {"yamls", "modules", "provisioner"}
            \union (IF v.install THEN {"verrazzano", "vmc"} ELSE {})
Returns == pc # "none" /\ pc' = "none" /\ job' = "idle"
TimesOut == pc \in {"wait_module", "wait_platform"} /\ pc' = "none" /\ spent' = spent

\* The type of every variable; nothing is read by a call that is not under way, and
\* the nodes left to write are nodes that were listed.
TypeOK ==
  /\ v \in [single : BOOLEAN, quick : BOOLEAN, install : BOOLEAN]
  /\ job \in {"postcheck", "idle"}
  /\ pc \in Steps
  /\ pc = "none" => call = NoCall
  /\ call \in CallState
  /\ call.todo \subseteq Listed
  /\ token \in {"none", "account"}
  /\ ready \in BOOLEAN /\ settled \in BOOLEAN /\ subnets \in BOOLEAN /\ crd \in BOOLEAN
  /\ account \in BOOLEAN
  /\ secret \in {"absent", "empty", "populated"}
  /\ bound \in BOOLEAN
  /\ node \in [Nodes -> NodeState]
  /\ operator \subseteq Operators
  /\ installed \subseteq {"yamls", "modules", "provisioner", "verrazzano", "vmc"}
  /\ config \in {"absent", "unset", "empty", "ids"}
  /\ spent \in [updates : 0..MaxUpdates, writes : 0..MaxNodeWrites,
                unready : 0..MaxUnready, aborts : 0..MaxAborts]

\* A PostCheck that returns nil has found or done everything, whichever call did it:
\* its token is that of an account that is bound, everything wanted is installed,
\* and in a cluster without workers every node it listed that is still there can be
\* scheduled on.
DoneWhenNil ==
  [][Returns =>
       /\ token' = "account" /\ account /\ bound /\ secret = "populated"
       /\ Wanted \subseteq installed'
       /\ v.single => \A n \in Listed : node[n].joined => ~node[n].tainted]_vars

\* The driver's writes of nodes, prepared from a list that may be old, undo nothing
\* that others did to a node, and bring no node back.
OthersKept ==
  [][\A n \in Nodes :
       node'[n].others # node[n].others \/ node'[n].joined # node[n].joined
         => spent' # spent]_vars

\* A wait times out only if the deployment is not ready the last time it looks: one
\* that becomes ready with the last poll is noticed.
NoFalseTimeout ==
  [][TimesOut => (IF pc = "wait_module" THEN "module" ELSE "platform") \notin operator]_vars

\* Repeated calls get to the end, however often tokens, nodes, operators and the
\* cluster were not ready, and whatever was cut short; unless there is a cluster to
\* register and the kind it is registered as is not served.
Completes == (job = "postcheck") ~> (job = "idle" \/ (v.install /\ ~crd))

\* variables.go 475: PostCheck waits for the identifiers of the subnets.
SubnetsInstalled == [][Returns => config' = "ids"]_vars
=============================================================================
