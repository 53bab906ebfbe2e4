------------------------- MODULE ClusterLifecycle ---------------------------
(***************************************************************************)
(* The life of one managed cluster as the engine drives it through Create, *)
(* Update, PostCheck and Remove: what the driver remembers between calls   *)
(* (the Variables it stores in the ClusterInfo, which the engine hands     *)
(* back), and what it creates and deletes on the admin cluster (Cluster,   *)
(* namespace, VerrazzanoManagedCluster) and on the managed cluster (the    *)
(* Verrazzano resource).  How a configuration is rolled out is the matter  *)
(* of ClusterUpdate; here it succeeds or it does not.                      *)
(***************************************************************************)
EXTENDS Naturals

CONSTANTS
  Name,           \* the name of the cluster
  DisplayNames,   \* the display names it may have
  MaxEdits,       \* bound: changes of the wanted options
  MaxAborts       \* bound: calls cut short

ASSUME LifecycleAssumption ==
  /\ MaxEdits \in Nat /\ MaxAborts \in Nat

VARIABLES
  wanted,     \* the options the user wants now
  dirty,      \* they changed since an Update was given them
  job,        \* what the engine has the driver do
  info,       \* the Variables stored in the ClusterInfo the engine keeps
  pc,         \* the next step of the call under way
  v,          \* its Variables
  cluster,    \* the Cluster object
  namespace,  \* does the namespace of the cluster exist?
  kubeconfig, \* does the secret with the kubeconfig exist?
  api,        \* does the managed cluster answer?
  vz,         \* the Verrazzano resource on the managed cluster
  vmcs,       \* the names of VerrazzanoManagedClusters on the admin cluster
  crd,        \* does the admin cluster serve that kind?
  edits,      \* changes of the wanted options so far
  aborts      \* calls cut short so far

engineVars == <<wanted, dirty, edits>>
callVars == <<job, info, pc, v, aborts>>
adminVars == <<cluster, namespace, kubeconfig, vmcs, crd>>
managedVars == <<api, vz>>
vars == <<engineVars, callVars, adminVars, managedVars>>

Options == [install : BOOLEAN, display : DisplayNames]
Variables == [install : BOOLEAN, uninstall : BOOLEAN, display : DisplayNames]
NoVariables == [install |-> FALSE, uninstall |-> FALSE]   \* empty metadata

\* NewFromOptions; UninstallVerrazzano has its zero value.
NewFromOptions(o) == [install |-> o.install, uninstall |-> FALSE, display |-> o.display]

\* Mutant: one of the fields is not taken over.
SetUpdateValuesForgets(old, new) ==
  [new EXCEPT !.uninstall = old.install /\ ~new.install, !.display = old.display]

\* SetUpdateValues.
SetUpdateValues(old, new) ==
  [new EXCEPT !.uninstall = old.install /\ ~new.install]

Init ==
  /\ wanted \in Options
  /\ dirty = FALSE
  /\ job = "create"
  /\ info = NoVariables
  /\ pc = "none"
  /\ v = NoVariables
  /\ cluster = "absent"
  /\ namespace = TRUE
  /\ kubeconfig = FALSE
  /\ api = FALSE
  /\ vz = "absent"
  /\ vmcs = {}
  /\ crd \in BOOLEAN
  /\ edits = 0
  /\ aborts = 0

-----------------------------------------------------------------------------
(* The engine and its user.                                                *)

Edit ==
  /\ edits < MaxEdits
  /\ job \notin {"remove", "removed"}
  /\ \E o \in Options \ {wanted} : wanted' = o
  /\ edits' = edits + 1
  /\ dirty' = TRUE
  /\ UNCHANGED <<callVars, adminVars, managedVars>>

\* An edit of a cluster that has been created goes to Update.
PickUp ==
  /\ pc = "none"
  /\ dirty
  /\ job \in {"idle", "postcheck"}
  /\ job' = "update"
  /\ UNCHANGED <<engineVars, info, pc, v, aborts, adminVars, managedVars>>

AskRemove ==
  /\ pc = "none"
  /\ job \notin {"remove", "removed"}
  /\ job' = "remove"
  /\ UNCHANGED <<engineVars, info, pc, v, aborts, adminVars, managedVars>>

-----------------------------------------------------------------------------
(* How calls begin and end.                                                *)

Begin(name, variables, step) ==
  /\ pc = "none"
  /\ job = name
  /\ v' = variables
  /\ pc' = step

\* The engine keeps what a call returned without an error.
ReturnNil(next) ==
  /\ info' = v
  /\ job' = next
  /\ pc' = "none"
  /\ UNCHANGED <<v, aborts>>

\* Mutant: the empty ClusterInfo that comes with an error is kept.
ReturnErrorForgets ==
  /\ info' = NoVariables
  /\ job' \in IF job = "postcheck" THEN {"update", "postcheck"} ELSE {job}
  /\ pc' = "none"
  /\ UNCHANGED v

\* A gRPC call that fails returns no ClusterInfo, except that the engine may be
\* given the one of a failed Create.  It calls again: when PostCheck fails, it
\* starts over from Update or repeats PostCheck.
ReturnError ==
  /\ info' \in IF job = "create" THEN {info, v} ELSE {info}
  /\ job' \in IF job = "postcheck" THEN {"update", "postcheck"} ELSE {job}
  /\ pc' = "none"
  /\ UNCHANGED v

GoTo(step) ==
  /\ pc' = step
  /\ UNCHANGED <<job, info, v, aborts>>

Fail == ReturnError /\ UNCHANGED aborts

\* A request fails, a client's deadline passes, a wait times out, or the driver
\* dies: the call ends between two of its steps.
Abort ==
  /\ pc # "none"
  /\ aborts < MaxAborts
  /\ aborts' = aborts + 1
  /\ ReturnError
  /\ UNCHANGED <<engineVars, adminVars, managedVars>>

-----------------------------------------------------------------------------
(* Create and Update.                                                      *)

BeginCreate ==
  /\ Begin("create", NewFromOptions(wanted), "write")
  /\ dirty' = FALSE
  /\ UNCHANGED <<wanted, edits, job, info, aborts, adminVars, managedVars>>

BeginUpdate ==
  /\ Begin("update", SetUpdateValues(info, NewFromOptions(wanted)), "write")
  /\ dirty' = FALSE
  /\ UNCHANGED <<wanted, edits, job, info, aborts, adminVars, managedVars>>

\* The part of CreateOrUpdateAllObjects and UpdateCluster that creates the
\* Cluster, ...
WriteObjects ==
  /\ pc = "write"
  /\ cluster' = "present"
  /\ GoTo("written")
  /\ UNCHANGED <<engineVars, namespace, kubeconfig, vmcs, crd, managedVars>>

\* ... and the end of a call that got through the rest, an Update also through
\* its gates.
ObjectsWritten ==
  /\ pc = "written"
  /\ IF job = "update" /\ ~api THEN Fail ELSE ReturnNil("postcheck")
  /\ UNCHANGED <<engineVars, adminVars, managedVars>>

-----------------------------------------------------------------------------
(* PostCheck.                                                              *)

BeginPostCheck ==
  /\ Begin("postcheck", info, "check")
  /\ UNCHANGED <<engineVars, job, info, aborts, adminVars, managedVars>>

PostCheckDone == ReturnNil("idle")

\* The cluster must be ready and have a kubeconfig, and the service account and
\* the modules need the managed cluster.
Check ==
  /\ pc = "check"
  /\ IF ~(cluster = "present" /\ kubeconfig /\ api)
     THEN Fail
     ELSE \/ v.install /\ GoTo("apply_vz")
          \/ ~v.install /\ v.uninstall /\ GoTo("delete_vmc")
          \/ ~v.install /\ ~v.uninstall /\ PostCheckDone
  /\ UNCHANGED <<engineVars, adminVars, managedVars>>

\* createOrUpdateVerrazzano: an object that is there is updated, whatever its
\* state.
ApplyVerrazzano ==
  /\ pc = "apply_vz"
  /\ vz' = IF vz = "absent" THEN "present" ELSE vz
  /\ GoTo("apply_vmc")
  /\ UNCHANGED <<engineVars, adminVars, api>>

\* Mutant: the cluster is registered under its own name.
ApplyVMCByName ==
  /\ pc = "apply_vmc"
  /\ IF crd
     THEN vmcs' = vmcs \union {Name} /\ PostCheckDone
     ELSE Fail /\ UNCHANGED vmcs
  /\ UNCHANGED <<engineVars, cluster, namespace, kubeconfig, crd, managedVars>>

\* A kind that is not served ends the call: createOrUpdateObject makes a text of the
\* error, so that it never is the IsNoMatchError that UpdateVerrazzano would ignore.
ApplyVMC ==
  /\ pc = "apply_vmc"
  /\ IF crd
     THEN vmcs' = vmcs \union {v.display} /\ PostCheckDone
     ELSE Fail /\ UNCHANGED vmcs
  /\ UNCHANGED <<engineVars, cluster, namespace, kubeconfig, crd, managedVars>>

-----------------------------------------------------------------------------
(* DeleteVerrazzanoResources, from PostCheck and from Remove.              *)

\* Finding nothing, or no such kind, is no error.
DeleteVMC ==
  /\ pc = "delete_vmc"
  /\ vmcs' = vmcs \ {Name}
  /\ GoTo("delete_vz")
  /\ UNCHANGED <<engineVars, cluster, namespace, kubeconfig, crd, managedVars>>

\* Mutants: a deletion that was accepted counts as done; one that finds nothing
\* is an error.
DeleteVZWithoutWaiting ==
  /\ pc = "delete_vz"
  /\ api
  /\ vz' = IF vz = "absent" THEN vz ELSE "terminating"
  /\ IF job = "remove" THEN GoTo("delete_cluster") ELSE PostCheckDone
  /\ UNCHANGED <<engineVars, adminVars, api>>

DeleteVZNotFound ==
  /\ pc = "delete_vz"
  /\ vz' = IF api /\ vz # "absent" THEN "terminating" ELSE vz
  /\ Fail
  /\ UNCHANGED <<engineVars, adminVars, api>>

\* deleteVZ reports an error until there is nothing left to delete.
DeleteVZ ==
  /\ pc = "delete_vz"
  /\ \/ /\ api /\ vz = "absent"
        /\ IF job = "remove" THEN GoTo("delete_cluster") ELSE PostCheckDone
        /\ UNCHANGED vz
     \/ /\ api /\ vz # "absent"
        /\ vz' = "terminating"
        /\ Fail
     \/ /\ ~api
        /\ Fail
        /\ UNCHANGED vz
  /\ UNCHANGED <<engineVars, adminVars, api>>

-----------------------------------------------------------------------------
(* Remove.                                                                 *)

\* Nothing is deleted before the kubeconfig of the managed cluster is at hand.
BeginRemove ==
  /\ Begin("remove", info, "kubeconfig")
  /\ UNCHANGED <<engineVars, job, info, aborts, adminVars, managedVars>>

GetKubeconfig ==
  /\ pc = "kubeconfig"
  /\ IF v = NoVariables \/ ~kubeconfig
     THEN Fail
     ELSE GoTo(IF v.uninstall \/ v.install THEN "delete_vmc" ELSE "delete_cluster")
  /\ UNCHANGED <<engineVars, adminVars, managedVars>>

\* Mutants: the namespace goes at once; a Cluster that is not found is an error.
DeleteClusterAndNamespace ==
  /\ pc = "delete_cluster"
  /\ cluster' = IF cluster = "absent" THEN cluster ELSE "deleting"
  /\ namespace' = FALSE
  /\ ReturnNil("removed")
  /\ UNCHANGED <<engineVars, kubeconfig, vmcs, crd, managedVars>>

DeleteClusterNotFound ==
  /\ pc = "delete_cluster"
  /\ cluster' = IF cluster = "absent" THEN cluster ELSE "deleting"
  /\ Fail
  /\ UNCHANGED <<engineVars, namespace, kubeconfig, vmcs, crd, managedVars>>

\* The namespace goes when there is no Cluster; a Cluster is told to go, and the
\* engine to come back.
DeleteCluster ==
  /\ pc = "delete_cluster"
  /\ IF cluster = "absent"
     THEN /\ namespace' = FALSE
          /\ ReturnNil("removed")
          /\ UNCHANGED cluster
     ELSE /\ cluster' = "deleting"
          /\ Fail
          /\ UNCHANGED namespace
  /\ UNCHANGED <<engineVars, kubeconfig, vmcs, crd, managedVars>>

-----------------------------------------------------------------------------
(* Controllers.                                                            *)

\* Cluster API brings the control plane up and publishes its kubeconfig.
ClusterUp ==
  /\ cluster = "present"
  /\ ~api
  /\ api' = TRUE
  /\ kubeconfig' = TRUE
  /\ UNCHANGED <<engineVars, callVars, cluster, namespace, vmcs, crd, vz>>

\* The Verrazzano operator finalizes a deleted resource.
VerrazzanoGone ==
  /\ api
  /\ vz = "terminating"
  /\ vz' = "absent"
  /\ UNCHANGED <<engineVars, callVars, adminVars, api>>

\* A Cluster that is deleted takes its control plane down first, ...
ControlPlaneGone ==
  /\ cluster = "deleting"
  /\ api
  /\ api' = FALSE
  /\ vz' = "absent"
  /\ UNCHANGED <<engineVars, callVars, adminVars>>

\* ... with it, sooner or later, the secrets that belong to the control plane, ...
SecretCollected ==
  /\ cluster \in {"deleting", "absent"}
  /\ ~api
  /\ kubeconfig
  /\ kubeconfig' = FALSE
  /\ UNCHANGED <<engineVars, callVars, cluster, namespace, vmcs, crd, managedVars>>

\* ... and is finalized itself.
ClusterGone ==
  /\ cluster = "deleting"
  /\ ~api
  /\ cluster' = "absent"
  /\ UNCHANGED <<engineVars, callVars, namespace, kubeconfig, vmcs, crd, managedVars>>

\* The cluster operator is installed on the admin cluster.
CRDInstalled ==
  /\ ~crd
  /\ crd' = TRUE
  /\ UNCHANGED <<engineVars, callVars, cluster, namespace, kubeconfig, vmcs, managedVars>>

-----------------------------------------------------------------------------
DriverStep ==
  \/ BeginCreate \/ BeginUpdate \/ WriteObjects \/ ObjectsWritten
  \/ BeginPostCheck \/ Check \/ ApplyVerrazzano \/ ApplyVMC
  \/ DeleteVMC \/ DeleteVZ
  \/ BeginRemove \/ GetKubeconfig \/ DeleteCluster

Controllers ==
  \/ ClusterUp \/ VerrazzanoGone \/ ControlPlaneGone \/ SecretCollected \/ ClusterGone
  \/ CRDInstalled

Next == Edit \/ PickUp \/ AskRemove \/ Abort \/ DriverStep \/ Controllers

\* The engine goes on calling, calls go on, and controllers finish what is
\* deleted.  A control plane may never come up, nor the cluster operator be installed.
Fairness ==
  /\ WF_vars(PickUp)
  /\ WF_vars(DriverStep)
  /\ WF_vars(VerrazzanoGone)
  /\ WF_vars(ControlPlaneGone)
  /\ WF_vars(ClusterGone)

Spec == Init /\ [][Next]_vars
FairSpec == Spec /\ Fairness

-----------------------------------------------------------------------------
(* Properties.                                                             *)

\* The type of every variable; calls after Create, and what PostCheck and Remove do
\* once they have begun, have Variables to work with.
TypeOK ==
  /\ wanted \in Options
  /\ dirty \in BOOLEAN
  /\ job \in {"create", "update", "postcheck", "idle", "remove", "removed"}
  /\ info \in Variables \union {NoVariables}
  /\ pc \in {"none", "write", "written", "check", "apply_vz", "apply_vmc",
              "kubeconfig", "delete_vmc", "delete_vz", "delete_cluster"}
  /\ v \in Variables \union {NoVariables}
  /\ job \in {"update", "postcheck", "idle"} => info \in Variables
  /\ pc \notin {"none", "kubeconfig"} => v \in Variables
  /\ cluster \in {"absent", "present", "deleting"}
  /\ namespace \in BOOLEAN /\ kubeconfig \in BOOLEAN /\ api \in BOOLEAN
  /\ vz \in {"absent", "present", "terminating"}
  /\ vmcs \subseteq DisplayNames \union {Name} /\ crd \in BOOLEAN
  /\ edits \in 0..MaxEdits
  /\ aborts \in 0..MaxAborts

Removing == job \in {"remove", "removed"}

\* Remove deletes no cluster with a Verrazzano the driver knows it has to
\* uninstall: by then the resource is finalized, not merely marked, whatever
\* calls failed before.
UninstalledFirst ==
  Removing /\ cluster # "present" /\ (info.install \/ info.uninstall) => vz = "absent"

\* The namespace, with all that belongs to the cluster in it, is deleted when
\* the Cluster is gone and not while it is being taken down.
NamespaceLast == ~namespace => cluster = "absent"

\* A cluster whose PostCheck succeeded with Verrazzano is registered on the admin
\* cluster, under the name that it had then.  PostCheck does not succeed where it cannot
\* be registered.
RegisteredWhenIdle == job = "idle" /\ info.install => info.display \in vmcs

\* Why they hold.  Steps belong to the calls that take them; Verrazzano lives and
\* dies with the managed cluster, and that with its Cluster; only Remove takes a
\* Cluster down, and only once there is no Verrazzano left that it has to
\* uninstall; and nothing comes back after the namespace.
StepsOfCalls ==
  /\ pc \in {"write", "written"} => job \in {"create", "update"}
  /\ pc \in {"check", "apply_vz", "apply_vmc"} => job = "postcheck"
  /\ pc \in {"delete_vmc", "delete_vz"} => job \in {"postcheck", "remove"}
  /\ pc \in {"kubeconfig", "delete_cluster"} => job = "remove"
  /\ pc # "none" /\ job \in {"postcheck", "remove"} => v = info

LivesWith ==
  /\ vz # "absent" \/ pc = "apply_vz" => api
  /\ api => cluster # "absent"

Orderly ==
  /\ StepsOfCalls
  /\ LivesWith
  /\ cluster = "deleting" => job = "remove"
  /\ pc = "delete_cluster" /\ (info.install \/ info.uninstall) => vz = "absent"
  /\ ~namespace => job = "removed"
  /\ UninstalledFirst
  /\ NamespaceLast

\* Remove of a cluster that came up deletes it in the end, although every call
\* that starts something reports an error.
RemoveDeletesCluster ==
  (job = "remove" /\ kubeconfig /\ info # NoVariables) ~> (cluster = "absent")

\* If there is no Verrazzano to uninstall, it also gets to the namespace, unless
\* the kubeconfig goes before.
RemoveFinishes ==
  (job = "remove" /\ kubeconfig /\ info # NoVariables /\ ~info.install /\ ~info.uninstall)
    ~> (~namespace \/ ~kubeconfig)

\* An edit of a cluster that is up gets into the ClusterInfo whole, and through a
\* PostCheck, in the end, unless the cluster is removed or cannot be registered.  (What
\* PostCheck then does about an uninstallation is in UninstallHonoured.)
EditsApplied ==
  (dirty /\ kubeconfig) ~>
    \/ job = "idle" /\ info.install = wanted.install /\ info.display = wanted.display
    \/ Removing \/ ~crd

\* capi.go 198: once there is no Cluster, Remove deletes the namespace, unless the
\* kubeconfig goes before.
NamespaceGoes ==
  (Removing /\ cluster = "absent" /\ info # NoVariables) ~> (~namespace \/ ~kubeconfig)

\* variables.go 225: Verrazzano is uninstalled if the new state has none.
UninstallHonoured ==
  [][job = "postcheck" /\ job' = "idle" /\ ~v.install => vz' # "present"]_vars
=============================================================================
