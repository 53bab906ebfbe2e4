-------------------------- MODULE PostCheckProofs ---------------------------
(***************************************************************************)
(* What a PostCheck that returns nil can rely on, and what its writes of   *)
(* nodes leave alone, for any nodes, options and bounds.  A call remembers *)
(* nothing of those before it, so the facts are about the step it is at    *)
(* (Done), and about the nodes it has listed and those that exist          *)
(* (Listing): a node whose version is still the listed one is the node     *)
(* that was listed.                                                        *)
(***************************************************************************)
EXTENDS PostCheck, TLAPS

-----------------------------------------------------------------------------
(* Types.                                                                  *)

\* No call is a call.
LEMMA NoCallType == NoCall \in CallState /\ NoCall.todo = {}
<1>1. 0 \in 0..(MaxPolls - 1)
  BY PostCheckAssumption
<1>2. [n \in Nodes |-> NoNode] \in [Nodes -> NodeState]
  BY DEF NodeState, NoNode
<1> QED
  BY <1>1, <1>2 DEF NoCall, CallState

\* A call that has read one thing more is a call.
LEMMA CallReads ==
  ASSUME NEW c \in CallState
  PROVE  /\ \A t \in BOOLEAN : [c EXCEPT !.token = t] \in CallState
         /\ \A x \in {"empty", "ids"} : [c EXCEPT !.subnets = x] \in CallState
         /\ \A k \in 0..(MaxPolls - 1) : [c EXCEPT !.polls = k] \in CallState
         /\ \A t \in SUBSET Nodes : [c EXCEPT !.todo = t] \in CallState
         /\ \A l \in [Nodes -> NodeState], t \in SUBSET Nodes :
              [c EXCEPT !.listed = l, !.todo = t] \in CallState
<1>1. ASSUME NEW t \in BOOLEAN PROVE [c EXCEPT !.token = t] \in CallState
  BY <1>1 DEF CallState
<1>2. ASSUME NEW x \in {"empty", "ids"} PROVE [c EXCEPT !.subnets = x] \in CallState
  BY <1>2 DEF CallState
<1>3. ASSUME NEW k \in 0..(MaxPolls - 1) PROVE [c EXCEPT !.polls = k] \in CallState
  BY <1>3 DEF CallState
<1>4. ASSUME NEW t \in SUBSET Nodes PROVE [c EXCEPT !.todo = t] \in CallState
  BY <1>4 DEF CallState
<1>5. ASSUME NEW l \in [Nodes -> NodeState], NEW t \in SUBSET Nodes
      PROVE  [c EXCEPT !.listed = l, !.todo = t] \in CallState
  BY <1>5 DEF CallState
<1> QED
  BY <1>1, <1>2, <1>3, <1>4, <1>5

\* A node that has just joined is a node.
LEMMA NewNodeType == NewNode \in NodeState /\ NoNode \in NodeState
BY DEF NewNode, NoNode, NodeState

\* What a step spends stays within its bound, and shows.
LEMMA Spends ==
  ASSUME TypeOK,
         \/ Spend("updates", MaxUpdates) \/ Spend("writes", MaxNodeWrites)
         \/ Spend("unready", MaxUnready) \/ Spend("aborts", MaxAborts)
  PROVE  /\ spent' \in [updates : 0..MaxUpdates, writes : 0..MaxNodeWrites,
                        unready : 0..MaxUnready, aborts : 0..MaxAborts]
         /\ spent' # spent
BY PostCheckAssumption DEF TypeOK, Spend

\* The written node is a node.
LEMMA UntaintedType ==
  ASSUME TypeOK, NEW n \in Nodes PROVE Untainted(n) \in NodeState
<1>1. call.listed[n] \in NodeState /\ node[n] \in NodeState
  BY DEF TypeOK, CallState
<1>2. \A x \in NodeState, k \in Nat : [x EXCEPT !.tainted = FALSE, !.version = k] \in NodeState
  BY DEF NodeState
<1>3. node[n].version \in Nat /\ node[n].version + 1 \in Nat
  BY <1>1 DEF NodeState
<1> QED
  BY <1>1, <1>2, <1>3 DEF Untainted

\* What an end of a call does to the engine and the call.
LEMMA Ends ==
  ASSUME TypeOK, ReturnNil \/ ReturnError
  PROVE  /\ pc' = "none" /\ call' = NoCall /\ call' \in CallState /\ call'.todo = {}
         /\ v' = v /\ job' \in {"postcheck", "idle"} /\ token' \in {"none", "account"}
BY NoCallType DEF ReturnNil, ReturnError, engineVars, TypeOK

\* Every step keeps the types.
LEMMA TypeStep == TypeOK /\ [Next]_vars => TypeOK'
<1> SUFFICES ASSUME TypeOK, [Next]_vars PROVE TypeOK'
  OBVIOUS
<1> DEFINE Rest == UNCHANGED <<adminVars, managedVars, spent>>
<1>1. ASSUME ReturnNil \/ ReturnError, Rest PROVE TypeOK'
  <2>1. call'.todo \subseteq Listed'
    BY <1>1, Ends
  <2> QED
    BY <1>1, <2>1, Ends DEF TypeOK, Steps, adminVars, managedVars, accountVars
<1>2. ASSUME NEW step \in Steps \ {"none"}, GoTo(step), call' \in CallState,
             call'.todo \subseteq Listed', Rest
      PROVE  TypeOK'
  BY <1>2 DEF TypeOK, GoTo, engineVars, adminVars, managedVars, accountVars
<1>3. call \in CallState /\ call.todo \subseteq Listed /\ Joined \in SUBSET Nodes
  BY DEF TypeOK, Joined
<1>4. CASE Update
  <2>1. v' \in [single : BOOLEAN, quick : BOOLEAN, install : BOOLEAN]
    <3>1. PICK o \in Options : v' = SetUpdateValues(v, o)
      BY <1>4 DEF Update
    <3>2. v \in [single : BOOLEAN, quick : BOOLEAN, install : BOOLEAN]
      BY DEF TypeOK
    <3> QED
      BY <3>1, <3>2, PostCheckAssumption DEF SetUpdateValues
  <2>2. spent' \in [updates : 0..MaxUpdates, writes : 0..MaxNodeWrites,
                    unready : 0..MaxUnready, aborts : 0..MaxAborts]
    BY <1>4, Spends DEF Update
  <2>3. job' = "postcheck" /\ subnets' \in BOOLEAN /\ settled' \in BOOLEAN
    BY <1>4 DEF Update, TypeOK
  <2>4. UNCHANGED <<token, pc, call, ready, crd, managedVars>>
    BY <1>4 DEF Update
  <2> QED
    BY <2>1, <2>2, <2>3, <2>4 DEF TypeOK, Steps, Listed, managedVars, accountVars
<1>5. CASE BeginPostCheck
  BY <1>5 DEF BeginPostCheck, TypeOK, Steps, Listed, engineVars, adminVars, managedVars,
              accountVars
<1>6. CASE Abort
  <2>1. ReturnError /\ UNCHANGED <<adminVars, managedVars>>
    BY <1>6 DEF Abort
  <2>2. call'.todo \subseteq Listed'
    BY <2>1, Ends
  <2>3. spent' \in [updates : 0..MaxUpdates, writes : 0..MaxNodeWrites,
                    unready : 0..MaxUnready, aborts : 0..MaxAborts]
    BY <1>6, Spends DEF Abort
  <2> QED
    BY <2>1, <2>2, <2>3, Ends DEF TypeOK, Steps, adminVars, managedVars, accountVars
<1>7. CASE IsCAPIClusterReady
  <2>1. CASE ready
    BY <1>2, <1>3, <1>7, <2>1 DEF IsCAPIClusterReady, Steps, Listed
  <2>2. CASE ~ready
    BY <1>1, <1>7, <2>2 DEF IsCAPIClusterReady
  <2> QED
    BY <2>1, <2>2
<1>8. CASE CreateServiceAccount
  BY <1>8 DEF CreateServiceAccount, GoTo, TypeOK, Steps, Listed, engineVars, adminVars
<1>9. CASE CreateTokenSecret
  BY <1>9 DEF CreateTokenSecret, GoTo, TypeOK, Steps, Listed, engineVars, adminVars
<1>10. CASE GetTokenSecret
  <2>1. call' = [call EXCEPT !.token = (secret = "populated")] /\ GoTo("bind") /\ Rest
    BY <1>10 DEF GetTokenSecret
  <2>2. call' \in CallState /\ call'.todo = call.todo /\ call'.listed = call.listed
    BY <1>3, <2>1, CallReads DEF CallState
  <2> QED
    BY <1>2, <1>3, <2>1, <2>2 DEF Steps, Listed
<1>11. CASE BindServiceAccount
  <2>1. CASE call.token
    BY <1>11, <2>1 DEF BindServiceAccount, GoTo, TypeOK, Steps, Listed, engineVars, adminVars
  <2>2. CASE ~call.token
    <3>1. ReturnError
      BY <1>11, <2>2 DEF BindServiceAccount
    <3>2. call'.todo \subseteq Listed'
      BY <3>1, Ends
    <3> QED
      BY <1>11, <3>1, <3>2, Ends DEF BindServiceAccount, TypeOK, Steps, adminVars
  <2> QED
    BY <2>1, <2>2
<1>12. CASE ListNodes
  <2> DEFINE l == [n \in Nodes |-> IF n \in Joined THEN node[n] ELSE NoNode]
  <2>1. call' = [call EXCEPT !.listed = l, !.todo = Joined] /\ GoTo("taints") /\ Rest
    BY <1>12 DEF ListNodes
  <2>2. l \in [Nodes -> NodeState]
    BY DEF NodeState, NoNode, TypeOK
  <2>3. call' \in CallState /\ call'.listed = l /\ call'.todo = Joined
    <3> HIDE DEF l
    <3> QED
      BY <1>3, <2>1, <2>2, CallReads DEF CallState
  <2>4. call'.todo \subseteq Listed'
    BY <2>3 DEF Listed, Joined
  <2> QED
    BY <1>2, <2>1, <2>3, <2>4 DEF Steps
<1>13. ASSUME NEW n \in Nodes, Untaint(n) PROVE TypeOK'
  <2>1. CASE node[n].joined /\ node[n].version = call.listed[n].version
    <3>1. /\ node' = [node EXCEPT ![n] = Untainted(n)]
          /\ call' = [call EXCEPT !.todo = call.todo \ {n}]
          /\ GoTo("taints")
          /\ UNCHANGED <<adminVars, accountVars, operator, installed, config, spent>>
      BY <1>13, <2>1 DEF Untaint
    <3>2. node' \in [Nodes -> NodeState]
      BY <3>1, UntaintedType DEF TypeOK
    <3>3. call.todo \ {n} \in SUBSET Nodes
      BY <1>3 DEF CallState
    <3>4. call' \in CallState /\ call'.listed = call.listed /\ call'.todo \subseteq call.todo
      BY <1>3, <3>1, <3>3, CallReads DEF CallState
    <3> QED
      BY <1>3, <3>1, <3>2, <3>4 DEF TypeOK, GoTo, Steps, Listed, engineVars, adminVars,
                                    accountVars
  <2>2. CASE ~(node[n].joined /\ node[n].version = call.listed[n].version)
    BY <1>1, <1>13, <2>2 DEF Untaint, managedVars
  <2> QED
    BY <2>1, <2>2
<1>14. CASE NodesDone
  BY <1>2, <1>3, <1>14 DEF NodesDone, Steps, Listed
<1>15. CASE CreateOrUpdateYAMLDocuments
  BY <1>15 DEF CreateOrUpdateYAMLDocuments, Install, GoTo, TypeOK, Steps, Listed, engineVars,
               adminVars, accountVars
<1>16. CASE SetQuickCreateVCNInfo
  <2> DEFINE x == IF subnets THEN "ids" ELSE "empty"
  <2>1. call' = [call EXCEPT !.subnets = x] /\ GoTo("wait_module") /\ Rest
    BY <1>16 DEF SetQuickCreateVCNInfo
  <2>2. x \in {"empty", "ids"}
    OBVIOUS
  <2>3. call' \in CallState /\ call'.todo = call.todo /\ call'.listed = call.listed
    <3> HIDE DEF x
    <3> QED
      BY <1>3, <2>1, <2>2, CallReads DEF CallState
  <2> QED
    BY <1>2, <1>3, <2>1, <2>3 DEF Steps, Listed
<1>17. ASSUME NEW step \in Steps \ {"none"}, NEW op \in Operators, NEW next \in Steps \ {"none"},
              WaitForDeployment(step, op, next)
       PROVE  TypeOK'
  <2>1. 0 \in 0..(MaxPolls - 1)
    BY PostCheckAssumption
  <2>2. ASSUME NEW k \in 0..(MaxPolls - 1), NEW s \in Steps \ {"none"},
               call' = [call EXCEPT !.polls = k], GoTo(s), Rest
        PROVE  TypeOK'
    <3>1. call' \in CallState /\ call'.todo = call.todo /\ call'.listed = call.listed
      BY <1>3, <2>2, CallReads DEF CallState
    <3> QED
      BY <1>2, <1>3, <2>2, <3>1 DEF Listed
  <2>3. call.polls \in 0..(MaxPolls - 1)
    BY <1>3 DEF CallState
  <2>4. CASE op \in operator
    BY <1>17, <2>1, <2>2, <2>4 DEF WaitForDeployment
  <2>5. CASE op \notin operator /\ call.polls + 1 < MaxPolls
    <3>1. call.polls + 1 \in 0..(MaxPolls - 1)
      BY <2>3, <2>5, PostCheckAssumption
    <3> QED
      BY <1>17, <2>2, <2>5, <3>1 DEF WaitForDeployment
  <2>6. CASE op \notin operator /\ ~(call.polls + 1 < MaxPolls)
    BY <1>1, <1>17, <2>6 DEF WaitForDeployment
  <2> QED
    BY <2>4, <2>5, <2>6
<1>18. CASE InstallModules
  <2>1. call.subnets \in {"unset", "empty", "ids"}
    BY <1>3 DEF CallState
  <2> QED
    BY <1>18, <2>1 DEF InstallModules, GoTo, TypeOK, Steps, Listed, engineVars, adminVars,
                       accountVars
<1>19. CASE CreateClusterProvisionerConfigMap
  <2>1. CASE v.install
    BY <1>19, <2>1 DEF CreateClusterProvisionerConfigMap, GoTo, TypeOK, Steps, Listed,
                       engineVars, adminVars, accountVars
  <2>2. CASE ~v.install
    <3>1. ReturnNil
      BY <1>19, <2>2 DEF CreateClusterProvisionerConfigMap
    <3>2. call'.todo \subseteq Listed'
      BY <3>1, Ends
    <3> QED
      BY <1>19, <3>1, <3>2, Ends
         DEF CreateClusterProvisionerConfigMap, TypeOK, Steps, adminVars, accountVars
  <2> QED
    BY <2>1, <2>2
<1>20. CASE CreateOrUpdateVerrazzano
  BY <1>20 DEF CreateOrUpdateVerrazzano, Install, GoTo, TypeOK, Steps, Listed, engineVars,
               adminVars, accountVars
<1>21. CASE CreateOrUpdateVMC
  <2>1. ReturnNil \/ ReturnError
    BY <1>21 DEF CreateOrUpdateVMC
  <2>2. call'.todo \subseteq Listed'
    BY <2>1, Ends
  <2> QED
    BY <1>21, <2>1, <2>2, Ends DEF CreateOrUpdateVMC, TypeOK, Steps, adminVars, accountVars
<1>22. CASE Others
  <2>1. CASE StartRoll \/ BecomeReady \/ ReconcileSubnets \/ CRDInstalled \/ PopulateToken
    <3>1. UNCHANGED <<engineVars, pc, call, account, bound, node, operator, installed, config,
                      spent>>
      BY <2>1 DEF StartRoll, BecomeReady, ReconcileSubnets, CRDInstalled, PopulateToken,
                  managedVars, accountVars
    <3>2. /\ ready' \in BOOLEAN /\ settled' \in BOOLEAN /\ subnets' \in BOOLEAN /\ crd' \in BOOLEAN
          /\ secret' \in {"absent", "empty", "populated"}
      BY <2>1 DEF StartRoll, BecomeReady, ReconcileSubnets, CRDInstalled, PopulateToken,
                  managedVars, accountVars, adminVars, TypeOK
    <3> QED
      BY <3>1, <3>2 DEF TypeOK, Listed, engineVars
  <2>2. ASSUME NEW n \in Nodes, OthersWrite(n) PROVE TypeOK'
    <3>1. node' \in [Nodes -> NodeState]
      <4>1. node \in [Nodes -> NodeState] /\ node[n] \in NodeState /\ node[n].version \in Nat
        BY DEF TypeOK, NodeState
      <4>2. \A x \in NodeState : \A b \in BOOLEAN, k \in Nat :
              /\ [x EXCEPT !.joined = b, !.version = k] \in NodeState
              /\ [x EXCEPT !.others = b, !.version = k] \in NodeState
        BY DEF NodeState
      <4>3. node[n].version + 1 \in Nat /\ 1 \in Nat
        BY <4>1
      <4>4. (~node[n].others) \in BOOLEAN
        OBVIOUS
      <4>5. \E x \in NodeState : node' = [node EXCEPT ![n] = x]
        BY <2>2, <4>1, <4>2, <4>3, <4>4, NewNodeType DEF OthersWrite
      <4> QED
        BY <4>1, <4>5
    <3> QED
      BY <2>2, <3>1, Spends DEF OthersWrite, TypeOK, Listed, engineVars, adminVars, accountVars
  <2>3. ASSUME NEW op \in Operators, OperatorReady(op) \/ OperatorUnready(op) PROVE TypeOK'
    <3>1. spent' \in [updates : 0..MaxUpdates, writes : 0..MaxNodeWrites,
                      unready : 0..MaxUnready, aborts : 0..MaxAborts]
      BY <2>3, Spends DEF OperatorReady, OperatorUnready, TypeOK
    <3>2. operator' \subseteq Operators
      BY <2>3 DEF OperatorReady, OperatorUnready, TypeOK
    <3>3. UNCHANGED <<engineVars, pc, call, adminVars, accountVars, node, installed, config>>
      BY <2>3 DEF OperatorReady, OperatorUnready
    <3> QED
      BY <3>1, <3>2, <3>3 DEF TypeOK, Listed, engineVars, adminVars, accountVars
  <2> QED
    BY <1>22, <2>1, <2>2, <2>3 DEF Others
<1>23. CASE UNCHANGED vars
  BY <1>23 DEF vars, engineVars, adminVars, managedVars, accountVars, TypeOK, Listed
<1> QED
  BY <1>4, <1>5, <1>6, <1>7, <1>8, <1>9, <1>10, <1>11, <1>12, <1>13, <1>14, <1>15, <1>16, <1>17,
     <1>18, <1>19, <1>20, <1>21, <1>22, <1>23
     DEF Next, CallStep, Steps, Operators

\* Every variable keeps its type; a call that is not under way has read nothing.
THEOREM TypeCorrect == Spec => []TypeOK
<1>1. Init => TypeOK
  <2> SUFFICES ASSUME Init PROVE TypeOK
    OBVIOUS
  <2>1. node \in [Nodes -> NodeState]
    BY PostCheckAssumption, NewNodeType DEF Init
  <2>2. v.quick \in BOOLEAN /\ v \in [single : BOOLEAN, quick : BOOLEAN, install : BOOLEAN]
    BY PostCheckAssumption DEF Init
  <2>3. spent \in [updates : 0..MaxUpdates, writes : 0..MaxNodeWrites,
                   unready : 0..MaxUnready, aborts : 0..MaxAborts]
    BY PostCheckAssumption DEF Init
  <2> QED
    BY <2>1, <2>2, <2>3, NoCallType DEF Init, TypeOK, Steps
<1> QED
  BY <1>1, TypeStep, PTL DEF Spec

-----------------------------------------------------------------------------
(* Nodes.                                                                  *)

\* Versions grow; a node at the version it was listed with is the node that was
\* listed; and a node the call is done with can be scheduled on.
Listing ==
  \A n \in Nodes :
    /\ node[n].joined => node[n].version > 0
    /\ n \in Listed =>
         /\ call.listed[n].version > 0
         /\ call.listed[n].version <= node[n].version
         /\ call.listed[n].version = node[n].version => call.listed[n] = node[n]
         /\ n \notin call.todo /\ node[n].joined => ~node[n].tainted

\* No call has listed a node.
LEMMA NothingListed == call' = NoCall => Listed' = {}
BY DEF NoCall, NoNode, Listed

\* Ends of calls and steps that neither list nor write nodes keep it.
LEMMA ListingKept ==
  ASSUME Listing, node' = node,
         call' = NoCall \/ (call'.listed = call.listed /\ call'.todo = call.todo)
  PROVE  Listing'
<1>1. CASE call' = NoCall
  BY <1>1, NothingListed DEF Listing
<1>2. CASE call'.listed = call.listed /\ call'.todo = call.todo
  BY <1>2 DEF Listing, Listed
<1> QED
  BY <1>1, <1>2

\* Steps that have nothing to do with nodes.
LEMMA NodelessSteps ==
  ASSUME TypeOK, [Next]_vars, ~ListNodes, \A n \in Nodes : ~Untaint(n) /\ ~OthersWrite(n)
  PROVE  /\ node' = node
         /\ call' = NoCall \/ (call'.listed = call.listed /\ call'.todo = call.todo)
<1> DEFINE Goal == /\ node' = node
                   /\ call' = NoCall \/ (call'.listed = call.listed /\ call'.todo = call.todo)
<1>1. CASE Update \/ BeginPostCheck \/ Abort \/ UNCHANGED vars
  BY <1>1 DEF Update, BeginPostCheck, Abort, ReturnError, vars, managedVars
<1>2. CASE IsCAPIClusterReady \/ CreateServiceAccount \/ CreateTokenSecret
  BY <1>2 DEF IsCAPIClusterReady, CreateServiceAccount, CreateTokenSecret, ReturnError, managedVars
<1>3. CASE GetTokenSecret \/ BindServiceAccount \/ NodesDone
  BY <1>3 DEF GetTokenSecret, BindServiceAccount, NodesDone, ReturnError, managedVars, TypeOK,
              CallState
<1>4. CASE CreateOrUpdateYAMLDocuments \/ SetQuickCreateVCNInfo \/ InstallModules
  BY <1>4 DEF CreateOrUpdateYAMLDocuments, SetQuickCreateVCNInfo, InstallModules, Install,
              managedVars, TypeOK, CallState
<1>5. ASSUME NEW step, NEW op, NEW next, WaitForDeployment(step, op, next) PROVE Goal
  BY <1>5 DEF WaitForDeployment, ReturnError, managedVars, TypeOK, CallState
<1>6. CASE CreateClusterProvisionerConfigMap \/ CreateOrUpdateVerrazzano \/ CreateOrUpdateVMC
  BY <1>6 DEF CreateClusterProvisionerConfigMap, CreateOrUpdateVerrazzano, CreateOrUpdateVMC,
              Install, ReturnNil, ReturnError
<1>7. CASE Others
  BY <1>7 DEF Others, StartRoll, BecomeReady, ReconcileSubnets, CRDInstalled, PopulateToken,
              OperatorReady,
              OperatorUnready, managedVars
<1> QED
  BY <1>1, <1>2, <1>3, <1>4, <1>5, <1>6, <1>7 DEF Next, CallStep

\* The versions are numbers.
LEMMA Versions ==
  ASSUME TypeOK, NEW n \in Nodes
  PROVE  node[n] \in NodeState /\ call.listed[n] \in NodeState
         /\ node[n].version \in Nat /\ call.listed[n].version \in Nat
BY DEF TypeOK, CallState, NodeState

\* A write that is accepted writes the node that was listed, without its taints.
LEMMA UntaintWrites ==
  ASSUME TypeOK, Listing, NEW n \in Nodes, Untaint(n), node' # node
  PROVE  /\ n \in Listed
         /\ node' = [node EXCEPT ![n].tainted = FALSE,
                                 ![n].version = node'[n].version]
         /\ node[n].tainted /\ node'[n].version = node[n].version + 1
         /\ ~node'[n].tainted
         /\ call'.listed = call.listed /\ call'.todo = call.todo \ {n}
<1>1. n \in Listed
  BY DEF Untaint, TypeOK
<1>2. /\ node[n].version = call.listed[n].version
      /\ node' = [node EXCEPT ![n] = Untainted(n)]
      /\ call' = [call EXCEPT !.todo = call.todo \ {n}]
  BY DEF Untaint
<1>3. call.listed[n] = node[n]
  BY <1>1, <1>2 DEF Listing
<1>4. Untainted(n) = [node[n] EXCEPT !.tainted = FALSE,
                        !.version = IF node[n].tainted THEN node[n].version + 1
                                    ELSE node[n].version]
  BY <1>3 DEF Untainted
<1>5. node \in [Nodes -> NodeState] /\ node[n] \in NodeState
  BY DEF TypeOK
<1>6. CASE ~node[n].tainted
  <2>1. Untainted(n) = node[n]
    BY <1>4, <1>5, <1>6 DEF NodeState
  <2> QED
    BY <1>2, <1>5, <2>1
<1>7. CASE node[n].tainted
  <2>1. Untainted(n) = [node[n] EXCEPT !.tainted = FALSE, !.version = node[n].version + 1]
    BY <1>4, <1>7
  <2>2. node'[n] = [node[n] EXCEPT !.tainted = FALSE, !.version = node[n].version + 1]
    BY <1>2, <1>5, <2>1
  <2>3. node'[n].version = node[n].version + 1 /\ ~node'[n].tainted
    BY <1>5, <2>2 DEF NodeState
  <2> QED
    BY <1>1, <1>2, <1>5, <1>7, <2>1, <2>3 DEF TypeOK, CallState
<1> QED
  BY <1>6, <1>7

\* One that changes nothing found no taint to remove.
LEMMA UntaintKeeps ==
  ASSUME TypeOK, Listing, NEW n \in Nodes, Untaint(n), node' = node, call' # NoCall
  PROVE  /\ ~node[n].tainted
         /\ call'.listed = call.listed /\ call'.todo = call.todo \ {n}
<1>1. n \in Listed
  BY DEF Untaint, TypeOK
<1>2. /\ node[n].version = call.listed[n].version
      /\ node' = [node EXCEPT ![n] = Untainted(n)]
      /\ call' = [call EXCEPT !.todo = call.todo \ {n}]
  BY DEF Untaint, ReturnError
<1>3. call.listed[n] = node[n]
  BY <1>1, <1>2 DEF Listing
<1>4. node[n] = Untainted(n)
  BY <1>2 DEF TypeOK
<1>5. Untainted(n) \in NodeState /\ ~Untainted(n).tainted
  BY Versions, UntaintedType DEF Untainted, NodeState
<1> QED
  BY <1>2, <1>4, <1>5 DEF TypeOK, CallState

\* Every step keeps it.
LEMMA ListingStep == TypeOK /\ Listing /\ [Next]_vars => Listing'
<1> SUFFICES ASSUME TypeOK, Listing, [Next]_vars PROVE Listing'
  OBVIOUS
<1>1. CASE ListNodes
  <2>1. node' = node
    BY <1>1 DEF ListNodes, managedVars
  <2>2. \A n \in Nodes : call'.listed[n] = IF n \in Joined THEN node[n] ELSE NoNode
    BY <1>1 DEF ListNodes, TypeOK, CallState
  <2>3. call'.todo = Joined
    BY <1>1 DEF ListNodes, TypeOK, CallState
  <2>4. Listed' = Joined
    BY <2>2 DEF Listed, Joined, NoNode
  <2> QED
    BY <2>1, <2>2, <2>3, <2>4, Versions DEF Listing, Joined
<1>2. ASSUME NEW n \in Nodes, Untaint(n) PROVE Listing'
  <2>1. CASE call' = NoCall
    <3>1. ASSUME NEW m \in Nodes, node'[m].joined PROVE node'[m].version > 0
      <4>1. node[m].version \in Nat /\ (node[m].joined => node[m].version > 0)
        BY Versions DEF Listing
      <4>2. CASE node' = node
        BY <3>1, <4>1, <4>2
      <4>3. CASE node' # node
        <5>1. /\ node' = [node EXCEPT ![n].tainted = FALSE, ![n].version = node'[n].version]
              /\ node'[n].version = node[n].version + 1
          BY <1>2, <4>3, UntaintWrites
        <5>2. m # n => node'[m] = node[m]
          BY <5>1 DEF TypeOK
        <5> QED
          BY <3>1, <4>1, <5>1, <5>2
      <4> QED
        BY <4>2, <4>3
    <3> QED
      BY <2>1, <3>1, NothingListed DEF Listing
  <2>2. CASE call' # NoCall /\ node' = node
    BY <1>2, <2>2, UntaintKeeps DEF Listing, Listed
  <2>3. CASE node' # node
    <3>1. /\ node' = [node EXCEPT ![n].tainted = FALSE, ![n].version = node'[n].version]
          /\ node'[n].version = node[n].version + 1 /\ ~node'[n].tainted
          /\ call'.listed = call.listed /\ call'.todo = call.todo \ {n}
      BY <1>2, <2>3, UntaintWrites
    <3>2. Listed' = Listed
      BY <3>1 DEF Listed
    <3>3. ASSUME NEW m \in Nodes \ {n} PROVE node'[m] = node[m]
      BY <3>1 DEF TypeOK
    <3>4. node'[n].version > 0
      BY <3>1, Versions
    <3>5. n \in Listed => call.listed[n].version < node'[n].version
      BY <3>1, Versions DEF Listing
    <3> QED
      BY <3>1, <3>2, <3>3, <3>4, <3>5, Versions DEF Listing
  <2> QED
    BY <2>1, <2>2, <2>3
<1>3. ASSUME NEW n \in Nodes, OthersWrite(n) PROVE Listing'
  <2>1. call' = call /\ Listed' = Listed
    BY <1>3 DEF OthersWrite, Listed
  <2>2. ASSUME NEW m \in Nodes \ {n} PROVE node'[m] = node[m]
    BY <1>3 DEF OthersWrite, TypeOK
  <2>3. \/ /\ node[n].version = 0 /\ node'[n].version = 1
        \/ /\ node[n].joined /\ node'[n].version = node[n].version + 1
           /\ node'[n].tainted = node[n].tainted
    <3>1. node \in [Nodes -> NodeState] /\ node[n] \in NodeState
      BY DEF TypeOK
    <3>2. CASE node[n].version = 0 /\ node' = [node EXCEPT ![n] = NewNode]
      BY <3>1, <3>2 DEF NewNode, NoNode
    <3>3. CASE /\ node[n].joined
               /\ node' = [node EXCEPT ![n].others = ~node[n].others,
                                       ![n].version = node[n].version + 1]
      BY <3>1, <3>3 DEF NodeState
    <3>4. CASE /\ node[n].joined
               /\ node' = [node EXCEPT ![n].joined = FALSE, ![n].version = node[n].version + 1]
      BY <3>1, <3>4 DEF NodeState
    <3> QED
      BY <1>3, <3>2, <3>3, <3>4 DEF OthersWrite
  <2>4. node'[n].version > 0
    BY <2>3, Versions
  <2>5. n \in Listed =>
          /\ call.listed[n].version < node'[n].version
          /\ n \notin call.todo => ~node'[n].tainted
    <3>1. n \in Listed => node[n].version # 0
      BY Versions DEF Listing
    <3> QED
      BY <2>3, <3>1, Versions DEF Listing
  <2> QED
    <3>1. ASSUME NEW m \in Nodes \ {n}
          PROVE  /\ node'[m].joined => node'[m].version > 0
                 /\ m \in Listed' =>
                      /\ call'.listed[m].version > 0
                      /\ call'.listed[m].version <= node'[m].version
                      /\ call'.listed[m].version = node'[m].version => call'.listed[m] = node'[m]
                      /\ m \notin call'.todo /\ node'[m].joined => ~node'[m].tainted
      BY <2>1, <2>2 DEF Listing
    <3>2. n \in Listed' =>
            /\ call'.listed[n].version > 0
            /\ call'.listed[n].version < node'[n].version
            /\ n \notin call'.todo => ~node'[n].tainted
      <4>1. n \in Listed => call.listed[n].version > 0
        BY DEF Listing
      <4>2. call'.listed = call.listed /\ call'.todo = call.todo /\ Listed' = Listed
        BY <2>1
      <4> QED
        BY <2>5, <4>1, <4>2
    <3>3. call.listed[n].version \in Nat /\ node'[n].version \in Nat
      BY <2>3, Versions
    <3>4. n \in Listed' =>
            /\ call'.listed[n].version <= node'[n].version
            /\ call'.listed[n].version # node'[n].version
      BY <2>1, <3>2, <3>3
    <3>5. /\ node'[n].joined => node'[n].version > 0
          /\ n \in Listed' =>
               /\ call'.listed[n].version > 0
               /\ call'.listed[n].version <= node'[n].version
               /\ call'.listed[n].version = node'[n].version => call'.listed[n] = node'[n]
               /\ n \notin call'.todo /\ node'[n].joined => ~node'[n].tainted
      BY <2>4, <3>2, <3>4
    <3> QED
      BY <3>1, <3>5 DEF Listing
<1> QED
  BY <1>1, <1>2, <1>3, NodelessSteps, ListingKept

\* It holds at the beginning, and always.
LEMMA AlwaysListing == Spec => []Listing
<1>1. Init => Listing
  <2>1. Init => Listed = {}
    BY DEF Init, Listed, NoCall, NoNode
  <2> QED
    <3>1. Init => \A n \in Nodes : node[n].joined => node[n].version > 0
      BY DEF Init, NoNode, NewNode
    <3> QED
      BY <2>1, <3>1 DEF Listing
<1> QED
  BY <1>1, TypeCorrect, ListingStep, PTL DEF Spec

\* However old the list of a call is, its writes change no label or anything else that
\* others keep in a node, and bring no node back: node.go 19-40.
THEOREM NodesOfOthersKept == Spec => OthersKept
<1> DEFINE Kept == \A n \in Nodes :
                     node'[n].others # node[n].others \/ node'[n].joined # node[n].joined
                       => spent' # spent
<1>1. ASSUME TypeOK, Listing, [Next]_vars PROVE Kept
  <2>1. CASE node' = node
    BY <2>1
  <2>2. ASSUME NEW n \in Nodes, Untaint(n), node' # node PROVE Kept
    <3>1. node' = [node EXCEPT ![n].tainted = FALSE, ![n].version = node'[n].version]
      BY <1>1, <2>2, UntaintWrites
    <3>2. ASSUME NEW m \in Nodes
          PROVE  node'[m].others = node[m].others /\ node'[m].joined = node[m].joined
      <4> DEFINE k == node'[n].version
      <4>1. node' = [node EXCEPT ![n].tainted = FALSE, ![n].version = k]
        BY <3>1
      <4>2. node \in [Nodes -> NodeState] /\ node[n] \in NodeState
        BY <1>1 DEF TypeOK
      <4>3. m # n => node'[m] = node[m]
        BY <3>1, <4>2
      <4>4. node'[n].others = node[n].others /\ node'[n].joined = node[n].joined
        <5> HIDE DEF k
        <5> QED
          BY <4>1, <4>2 DEF NodeState
      <4> QED
        BY <4>3, <4>4
    <3> QED
      BY <3>2
  <2>3. ASSUME NEW n \in Nodes, OthersWrite(n) PROVE Kept
    <3>1. Spend("writes", MaxNodeWrites)
      BY <2>3 DEF OthersWrite
    <3> QED
      BY <1>1, <3>1, Spends
  <2>4. CASE ListNodes
    BY <2>4 DEF ListNodes, managedVars
  <2> QED
    BY <1>1, <2>1, <2>2, <2>3, <2>4, NodelessSteps
<1>2. TypeOK /\ Listing /\ [Next]_vars => [Kept]_vars
  BY <1>1
<1> QED
  BY <1>2, TypeCorrect, AlwaysListing, PTL DEF Spec, OthersKept

-----------------------------------------------------------------------------
(* What a call has done by the step it is at.                              *)

AfterBind == {"list", "taints", "yamls", "vcn", "wait_module", "modules", "provisioner",
              "wait_platform", "verrazzano", "vmc"}

Done ==
  /\ pc # "none" => job = "postcheck"
  /\ pc \notin {"none", "ready", "account"} => account
  /\ call.token => secret = "populated"
  /\ pc \in AfterBind => call.token /\ bound
  /\ pc \in AfterBind \ {"list", "taints"} => (v.single => call.todo = {})
  /\ pc \in AfterBind \ {"list", "taints", "yamls"} => "yamls" \in installed
  /\ pc \in {"provisioner", "wait_platform", "verrazzano", "vmc"} => "modules" \in installed
  /\ pc \in {"wait_platform", "verrazzano", "vmc"} => "provisioner" \in installed
  /\ pc = "vmc" => "verrazzano" \in installed

\* A call that is over has nothing to have done.
LEMMA DoneAfter ==
  ASSUME pc' = "none", call' = NoCall PROVE Done'
BY DEF Done, AfterBind, NoCall

\* Every step does what the next one counts on.
LEMMA DoneStep == TypeOK /\ Done /\ [Next]_vars => Done'
<1> SUFFICES ASSUME TypeOK, Done, [Next]_vars PROVE Done'
  OBVIOUS
<1> USE DEF Done, AfterBind
<1>1. CASE ReturnNil \/ ReturnError
  BY <1>1, Ends, DoneAfter
<1>2. CASE Update \/ UNCHANGED vars
  BY <1>2 DEF Update, vars, engineVars, adminVars, managedVars, accountVars
<1>3. CASE BeginPostCheck
  BY <1>3 DEF BeginPostCheck, engineVars, managedVars, accountVars
<1>4. CASE Abort
  BY <1>1, <1>4 DEF Abort
<1>5. CASE IsCAPIClusterReady
  BY <1>1, <1>5 DEF IsCAPIClusterReady, GoTo, engineVars, managedVars, accountVars
<1>6. CASE CreateServiceAccount
  BY <1>6 DEF CreateServiceAccount, GoTo, engineVars
<1>7. CASE CreateTokenSecret
  BY <1>7 DEF CreateTokenSecret, GoTo, engineVars
<1>8. CASE GetTokenSecret
  <2>1. call'.token = (secret = "populated")
    BY <1>8 DEF GetTokenSecret, TypeOK, CallState
  <2> QED
    BY <1>8, <2>1 DEF GetTokenSecret, GoTo, engineVars, managedVars, accountVars
<1>9. CASE BindServiceAccount
  BY <1>1, <1>9 DEF BindServiceAccount, GoTo, engineVars
<1>10. CASE ListNodes
  <2>1. call'.token = call.token
    BY <1>10 DEF ListNodes, TypeOK, CallState
  <2> QED
    BY <1>10, <2>1 DEF ListNodes, GoTo, engineVars, managedVars, accountVars
<1>11. ASSUME NEW n \in Nodes, Untaint(n) PROVE Done'
  <2>1. CASE ~ReturnError
    <3>1. call' = [call EXCEPT !.todo = call.todo \ {n}] /\ GoTo("taints")
      BY <1>11, <2>1 DEF Untaint
    <3>2. call'.token = call.token
      BY <3>1 DEF TypeOK, CallState
    <3> QED
      BY <1>11, <3>1, <3>2 DEF Untaint, GoTo, engineVars, accountVars
  <2> QED
    BY <1>1, <2>1
<1>12. CASE NodesDone
  BY <1>12 DEF NodesDone, GoTo, engineVars, managedVars, accountVars
<1>13. CASE CreateOrUpdateYAMLDocuments
  BY <1>13 DEF CreateOrUpdateYAMLDocuments, Install, GoTo, engineVars, accountVars
<1>14. CASE SetQuickCreateVCNInfo
  <2>1. call'.token = call.token /\ call'.todo = call.todo
    BY <1>14 DEF SetQuickCreateVCNInfo, TypeOK, CallState
  <2> QED
    BY <1>14, <2>1 DEF SetQuickCreateVCNInfo, GoTo, engineVars, managedVars, accountVars
<1>15. ASSUME NEW op, NEW step, NEW next, WaitForDeployment(step, op, next),
              \/ step = "wait_module" /\ next = "modules"
              \/ step = "wait_platform" /\ next = "verrazzano"
       PROVE  Done'
  <2>1. CASE ~ReturnError
    <3>1. call'.token = call.token /\ call'.todo = call.todo
      BY <1>15, <2>1 DEF WaitForDeployment, TypeOK, CallState
    <3>2. pc = step /\ pc' \in {step, next} /\ UNCHANGED <<engineVars, managedVars>>
      BY <1>15, <2>1 DEF WaitForDeployment, GoTo
    <3> QED
      BY <1>15, <3>1, <3>2 DEF engineVars, managedVars, accountVars
  <2> QED
    BY <1>1, <2>1
<1>16. CASE InstallModules
  BY <1>16 DEF InstallModules, GoTo, engineVars, accountVars
<1>17. CASE CreateClusterProvisionerConfigMap
  BY <1>1, <1>17 DEF CreateClusterProvisionerConfigMap, GoTo, engineVars, accountVars
<1>18. CASE CreateOrUpdateVerrazzano
  BY <1>18 DEF CreateOrUpdateVerrazzano, Install, GoTo, engineVars, accountVars
<1>19. CASE CreateOrUpdateVMC
  BY <1>1, <1>19 DEF CreateOrUpdateVMC
<1>20. CASE Others
  <2>1. UNCHANGED <<engineVars, pc, call, account, bound, installed>>
    BY <1>20 DEF Others, StartRoll, BecomeReady, ReconcileSubnets, CRDInstalled, PopulateToken,
                 OthersWrite, OperatorReady, OperatorUnready, managedVars, accountVars
  <2>2. secret = "populated" => secret' = "populated"
    BY <1>20 DEF Others, StartRoll, BecomeReady, ReconcileSubnets, CRDInstalled, PopulateToken,
                 OthersWrite, OperatorReady, OperatorUnready, managedVars, accountVars
  <2> QED
    BY <2>1, <2>2 DEF engineVars
<1> QED
  BY <1>2, <1>3, <1>4, <1>5, <1>6, <1>7, <1>8, <1>9, <1>10, <1>11, <1>12, <1>13, <1>14, <1>15,
     <1>16, <1>17, <1>18, <1>19, <1>20
     DEF Next, CallStep

\* It is so from the beginning.
LEMMA AlwaysDone == Spec => []Done
<1>1. Init => Done
  BY DEF Init, Done, AfterBind, NoCall
<1> QED
  BY <1>1, TypeCorrect, DoneStep, PTL DEF Spec

\* Only two steps end a call that succeeds.
LEMMA Successes ==
  ASSUME TypeOK, Done, [Next]_vars, Returns
  PROVE  (CreateClusterProvisionerConfigMap /\ ~v.install) \/ (CreateOrUpdateVMC /\ crd)
<1>1. job = "postcheck" /\ job' = "idle" /\ pc # "none" /\ pc' = "none"
  BY DEF Returns, Done
<1>2. ~ReturnError /\ \A step : ~GoTo(step)
  BY <1>1 DEF ReturnError, GoTo, engineVars
<1>3. UNCHANGED engineVars \/ Update => FALSE
  BY <1>1 DEF engineVars, Update
<1>4. CreateOrUpdateVMC => crd
  BY <1>2 DEF CreateOrUpdateVMC
<1> QED
  BY <1>1, <1>2, <1>3, <1>4
     DEF Next, CallStep, BeginPostCheck, Abort, IsCAPIClusterReady, CreateServiceAccount,
         CreateTokenSecret, GetTokenSecret, BindServiceAccount, ListNodes, Untaint, NodesDone,
         CreateOrUpdateYAMLDocuments, Install, SetQuickCreateVCNInfo, WaitForDeployment,
         InstallModules, CreateClusterProvisionerConfigMap, CreateOrUpdateVerrazzano,
         Others, StartRoll, BecomeReady, ReconcileSubnets, CRDInstalled, PopulateToken,
         OthersWrite, OperatorReady, OperatorUnready, vars

\* A PostCheck that returns nil gives the engine the token of an account that is bound,
\* has installed all that is wanted, and has listed no node, of those that are still
\* there, that cannot be scheduled on: ocne_driver.go 576-623.
THEOREM NilMeansDone == Spec => DoneWhenNil
<1> DEFINE Complete ==
      /\ token' = "account" /\ account /\ bound /\ secret = "populated"
      /\ Wanted \subseteq installed'
      /\ v.single => \A n \in Listed : node[n].joined => ~node[n].tainted
<1>1. ASSUME TypeOK, Listing, Done, [Next]_vars, Returns PROVE Complete
  <2>1. ReturnNil /\ pc \in {"provisioner", "vmc"}
    BY <1>1, Successes DEF CreateClusterProvisionerConfigMap, CreateOrUpdateVMC
  <2>2. /\ account /\ bound /\ call.token /\ secret = "populated"
        /\ v.single => call.todo = {}
        /\ {"yamls", "modules"} \subseteq installed
    BY <1>1, <2>1 DEF Done, AfterBind
  <2>3. Wanted \subseteq installed'
    <3>1. CASE CreateClusterProvisionerConfigMap /\ ~v.install
      BY <2>2, <3>1 DEF CreateClusterProvisionerConfigMap, Wanted
    <3>2. CASE CreateOrUpdateVMC /\ crd
      <4>1. {"provisioner", "verrazzano"} \subseteq installed
        BY <1>1, <3>2 DEF CreateOrUpdateVMC, Done
      <4> QED
        BY <2>2, <3>2, <4>1 DEF CreateOrUpdateVMC, Wanted
    <3> QED
      BY <1>1, <3>1, <3>2, Successes
  <2>4. token' = "account"
    BY <2>1, <2>2 DEF ReturnNil
  <2>5. v.single => \A n \in Listed : node[n].joined => ~node[n].tainted
    BY <1>1, <2>2 DEF Listing, Listed
  <2> QED
    BY <2>2, <2>3, <2>4, <2>5
<1>2. TypeOK /\ Listing /\ Done /\ [Next]_vars => [Returns => Complete]_vars
  BY <1>1
<1> QED
  BY <1>2, TypeCorrect, AlwaysListing, AlwaysDone, PTL DEF Spec, DoneWhenNil

\* A wait that times out has found its deployment not ready with its last poll:
\* verrazzano.go 138-153.
THEOREM TimeoutsAreTrue == Spec => NoFalseTimeout
<1> DEFINE Awaited == IF pc = "wait_module" THEN "module" ELSE "platform"
<1>1. ASSUME TypeOK, [Next]_vars, TimesOut PROVE Awaited \notin operator
  <2>1. pc \in {"wait_module", "wait_platform"} /\ pc' = "none" /\ spent' = spent
    BY <1>1 DEF TimesOut
  <2>2. ~Abort
    BY <1>1, <2>1, Spends DEF Abort
  <2>3. \/ WaitForDeployment("wait_module", "module", "modules")
        \/ WaitForDeployment("wait_platform", "platform", "verrazzano")
    BY <1>1, <2>1, <2>2
       DEF Next, CallStep, Update, BeginPostCheck, IsCAPIClusterReady, CreateServiceAccount,
           CreateTokenSecret, GetTokenSecret, BindServiceAccount, ListNodes, Untaint, NodesDone,
           CreateOrUpdateYAMLDocuments, Install, SetQuickCreateVCNInfo, InstallModules,
           CreateClusterProvisionerConfigMap, CreateOrUpdateVerrazzano, CreateOrUpdateVMC,
           Others, StartRoll, BecomeReady, ReconcileSubnets, CRDInstalled, PopulateToken,
           OthersWrite, OperatorReady, OperatorUnready, vars
  <2>4. CASE WaitForDeployment("wait_module", "module", "modules")
    BY <2>1, <2>4 DEF WaitForDeployment, GoTo
  <2>5. CASE WaitForDeployment("wait_platform", "platform", "verrazzano")
    BY <2>1, <2>5 DEF WaitForDeployment, GoTo
  <2> QED
    BY <2>3, <2>4, <2>5
<1>2. TypeOK /\ [Next]_vars => [TimesOut => Awaited \notin operator]_vars
  BY <1>1
<1> QED
  BY <1>2, TypeCorrect, PTL DEF Spec, NoFalseTimeout
=============================================================================
