--------------------------- MODULE ClusterUpdate ----------------------------
(***************************************************************************)
(* One managed cluster: the engine asks the driver for configurations one  *)
(* after another, the driver writes the Cluster API objects of the         *)
(* configuration stage by stage (CreateOrUpdateAllObjects and              *)
(* UpdateCluster), and the Cluster API controllers bring machines to what  *)
(* the objects say, in their own time.  Requests fail, calls are given up  *)
(* by their client and the driver process dies; the engine calls again.    *)
(*                                                                         *)
(* One object is written in one step here: CruObject shows that the        *)
(* requests behind a write implement that step.                            *)
(***************************************************************************)
EXTENDS Naturals, Sequences, FiniteSets

CONSTANTS
  MaxConfig,        \* the configurations asked for, in order: 1..MaxConfig
  Pools,            \* the names of worker node pools
  ControlPlane,     \* the control plane, a machine group beside the pools
  PoolsOf,          \* PoolsOf[cfg]: the node pools of a configuration
  Hashes,           \* values of hashSum
  NodePoolHash,     \* NodePoolHash[cfg], the same for every pool of cfg
  ControlPlaneHash, \* ControlPlaneHash[cfg]
  Broken,           \* <<group, cfg>>: the machines of cfg never reach Running
  MaxStored,        \* bound: calls of SetClusterSize and SetVersion
  MaxAborts         \* bound: calls cut short

Configs == 1..MaxConfig
Groups == Pools \union {ControlPlane}

ASSUME ConfigAssumption ==
  /\ MaxConfig \in Nat \ {0}
  /\ ControlPlane \notin Pools
  /\ PoolsOf \in [Configs -> SUBSET Pools]
  /\ NodePoolHash \in [Configs -> Hashes]
  /\ ControlPlaneHash \in [Configs -> Hashes]
ASSUME BoundsAssumption == MaxStored \in Nat /\ MaxAborts \in Nat /\ Hashes \subseteq Nat

-----------------------------------------------------------------------------
(* Objects, by kind, machine group and hash, and the order they are written. *)

FixedKinds == {"Secret", "Cluster", "OCIClusterIdentity", "OCICluster",
               "OCNEConfigTemplate", "OCNEControlPlane"}

Obj(kind) == <<kind, ControlPlane, 0>>
MachineDeployment(p) == <<"MachineDeployment", p, 0>>
OCIMachineTemplate(g, h) == <<"OCIMachineTemplate", g, h>>

Names == {Obj(kind) : kind \in FixedKinds}
           \union {MachineDeployment(p) : p \in Pools}
           \union {OCIMachineTemplate(g, h) : g \in Groups, h \in Hashes}

\* The objects one template of templates/ renders to for a configuration.
Documents(template, cfg) ==
  CASE template \in FixedKinds -> {Obj(template)}
    [] template = "ControlPlaneTemplate" ->
         {OCIMachineTemplate(ControlPlane, ControlPlaneHash[cfg])}
    [] template = "MachineDeployment" -> {MachineDeployment(p) : p \in PoolsOf[cfg]}
    [] template = "WorkerTemplate" ->
         {OCIMachineTemplate(p, NodePoolHash[cfg]) : p \in PoolsOf[cfg]}
    [] OTHER -> {}

\* The order of CreateOrUpdateAllObjects and of UpdateCluster.
CreateSteps ==
  <<"Secret", "Cluster", "OCIClusterIdentity", "OCICluster", "OCNEConfigTemplate",
    "OCNEControlPlane", "ControlPlaneTemplate", "MachineDeployment", "WorkerTemplate">>

\* Mutant: the workers before the control plane.
UpdateStepsWorkersFirst ==
  <<"Secret", "MachineDeployment", "WorkerTemplate", "gate",
    "OCNEControlPlane", "ControlPlaneTemplate", "gate",
    "Cluster", "OCIClusterIdentity", "OCICluster", "OCNEConfigTemplate", "gate",
    "list", "delete">>

UpdateSteps ==
  <<"Secret", "OCNEControlPlane", "ControlPlaneTemplate", "gate",
    "MachineDeployment", "WorkerTemplate", "gate",
    "Cluster", "OCIClusterIdentity", "OCICluster", "OCNEConfigTemplate", "gate",
    "list", "delete">>

StepsOf(kind) == IF kind = "create" THEN CreateSteps ELSE UpdateSteps
LastStep(kind) == Len(StepsOf(kind))

-----------------------------------------------------------------------------
VARIABLES
  wanted,       \* the configuration the engine wants, 0 before the first
  acked,        \* the last configuration a call of the driver returned nil for: the
                \* one in the stored Variables
  call,         \* the call under way: its kind, configuration, step and the
                \* objects of the step it has not got to yet
  late,         \* updates sent by calls their client has given up
  store,        \* store[name]: the configuration an object holds, 0: no object
  running,      \* running[g]: the configuration the machines of a group run
  target,       \* target[g]: the configuration its controller works towards
  rolling,      \* the groups some machine of which is not Running
  stored,       \* calls of SetClusterSize and SetVersion so far
  aborts        \* calls cut short so far

driverVars == <<call, acked, late, store>>
machineVars == <<running, target, rolling>>
bounds == <<stored, aborts>>
vars == <<wanted, acked, call, late, store, running, target, rolling, stored, aborts>>

Idle == [kind |-> "none", cfg |-> 0, step |-> 0, todo |-> {}]

Init ==
  /\ wanted = 0
  /\ acked = 0
  /\ call = Idle
  /\ late = {}
  /\ store = [name \in Names |-> 0]
  /\ running = [g \in Groups |-> 0]
  /\ target = [g \in Groups |-> 0]
  /\ rolling = {}
  /\ stored = 0
  /\ aborts = 0

-----------------------------------------------------------------------------
(* The engine: one call at a time for a cluster, issued again on an error. *)

Request ==
  /\ wanted < MaxConfig
  /\ wanted' = wanted + 1
  /\ UNCHANGED <<driverVars, machineVars, bounds>>

Start(kind, cfg) ==
  /\ call = Idle
  /\ call' = [kind |-> kind, cfg |-> cfg, step |-> 1, todo |-> {Obj("Secret")}]
  /\ UNCHANGED <<wanted, acked, late, store, machineVars, aborts>>

\* Create until one has succeeded, Update from then on, with what the user wants.
Begin(kind) ==
  /\ wanted # 0
  /\ acked # wanted
  /\ kind = IF acked = 0 THEN "create" ELSE "update"
  /\ Start(kind, wanted)
  /\ UNCHANGED stored

\* SetClusterSize goes through the steps of Create and SetVersion through those of
\* Update, at any time, also between an Update that failed and its repetition.  They
\* load the stored Variables and return none, so that both the configuration they
\* write and the one in store afterwards are the last acknowledged.  The number of
\* machines SetClusterSize sets is in NodePools.
BeginStored(kind) ==
  /\ acked # 0
  /\ stored < MaxStored
  /\ stored' = stored + 1
  /\ Start(kind, acked)

-----------------------------------------------------------------------------
(* The call.                                                               *)

AtStep(step) == call.kind # "none" /\ StepsOf(call.kind)[call.step] = step

ReturnNil ==
  /\ acked' = call.cfg
  /\ call' = Idle

\* Mutant: the call is not quite forgotten.
ReturnErrorKeeps ==
  /\ call' = [Idle EXCEPT !.cfg = call.cfg]
  /\ UNCHANGED acked

\* Mutant: the Variables are stored although the call failed.
ReturnErrorStores ==
  /\ acked' = call.cfg
  /\ call' = Idle

ReturnError ==
  /\ call' = Idle
  /\ UNCHANGED acked

\* On to the next step, or to the end.
Proceed ==
  IF call.step = LastStep(call.kind)
  THEN ReturnNil
  ELSE /\ call' = [call EXCEPT !.step = call.step + 1,
                     !.todo = Documents(StepsOf(call.kind)[call.step + 1], call.cfg)]
       /\ UNCHANGED acked

Finished(name) ==
  IF call.todo = {name}
  THEN Proceed
  ELSE /\ call' = [call EXCEPT !.todo = call.todo \ {name}]
       /\ UNCHANGED acked

\* Mutant: a late update is never refused.
PutUnversioned(name, cfg) ==
  /\ store' = [store EXCEPT ![name] = cfg]
  /\ UNCHANGED late

\* A write changes the resource version: late updates from before it will be
\* refused.
Put(name, cfg) ==
  /\ store' = [store EXCEPT ![name] = cfg]
  /\ late' = {w \in late : w.name # name}

\* createOrUpdateObject, or createOrUpdateCAPISecret, for the next document.
Write(name) ==
  /\ ~AtStep("delete")
  /\ name \in call.todo
  /\ Put(name, call.cfg)
  /\ Finished(name)
  /\ UNCHANGED <<wanted, machineVars, bounds>>

\* The template renders to an empty list.
WriteNothing ==
  /\ AtStep("MachineDeployment") \/ AtStep("WorkerTemplate")
  /\ call.todo = {}
  /\ Proceed
  /\ UNCHANGED <<wanted, late, store, machineVars, bounds>>

\* IsCAPIClusterReady: the status the controllers have published so far, and
\* every machine that carries the cluster's label.
IsCAPIClusterReady ==
  /\ store[Obj("Cluster")] # 0
  /\ running[ControlPlane] # 0
  /\ rolling = {}

GatePasses ==
  /\ AtStep("gate")
  /\ IsCAPIClusterReady
  /\ Proceed
  /\ UNCHANGED <<wanted, late, store, machineVars, bounds>>

\* Mutant: what the gate reports is dropped.
GateFailsSilently ==
  /\ AtStep("gate")
  /\ ~IsCAPIClusterReady
  /\ ReturnNil
  /\ UNCHANGED <<wanted, late, store, machineVars, bounds>>

GateFails ==
  /\ AtStep("gate")
  /\ ~IsCAPIClusterReady
  /\ ReturnError
  /\ UNCHANGED <<wanted, late, store, machineVars, bounds>>

\* deleteWorkerObjects lists the machine deployments once; those outside the
\* node pools go, each followed by the machine template it referred to.
Deployed == {p \in Pools : store[MachineDeployment(p)] # 0}
TemplateOf(p) == OCIMachineTemplate(p, NodePoolHash[store[MachineDeployment(p)]])

\* Mutant: the call ends without the clean-up.
ListNothing ==
  /\ AtStep("list")
  /\ ReturnNil
  /\ UNCHANGED <<wanted, late, store, machineVars, bounds>>

List ==
  /\ AtStep("list")
  /\ LET unused == Deployed \ PoolsOf[call.cfg]
     IN  IF unused = {}
         THEN ReturnNil
         ELSE /\ call' = [call EXCEPT !.step = call.step + 1,
                            !.todo = {MachineDeployment(p) : p \in unused}
                                       \union {TemplateOf(p) : p \in unused}]
              /\ UNCHANGED acked
  /\ UNCHANGED <<wanted, late, store, machineVars, bounds>>

\* Mutant: the template goes first.
NextToDeleteTemplateFirst(name) ==
  /\ name \in call.todo
  /\ name[1] = "MachineDeployment" =>
       \A t \in call.todo : ~(t[1] = "OCIMachineTemplate" /\ t[2] = name[2])

\* A template follows its own machine deployment before the next one goes.
NextToDelete(name) ==
  /\ name \in call.todo
  /\ IF name[1] = "OCIMachineTemplate"
     THEN MachineDeployment(name[2]) \notin call.todo
     ELSE \A t \in call.todo : t[1] = "OCIMachineTemplate"
                                 => MachineDeployment(t[2]) \in call.todo

Delete(name) ==
  /\ AtStep("delete")
  /\ NextToDelete(name)
  /\ Put(name, 0)
  /\ Finished(name)
  /\ UNCHANGED <<wanted, machineVars, bounds>>

\* A request fails, its answer is lost, the client's deadline passes, or the
\* driver dies: the call ends here, and the request may have been served all
\* the same.  Updates of rendered objects are sent with a context of their own
\* (context.TODO), so one that is on its way may still arrive much later.
Abort ==
  /\ call # Idle
  /\ aborts < MaxAborts
  /\ aborts' = aborts + 1
  /\ ReturnError
  /\ \/ UNCHANGED <<late, store>>
     \/ /\ ~AtStep("delete")
        /\ \E name \in call.todo : Put(name, call.cfg)
     \/ /\ AtStep("delete")
        /\ \E name \in call.todo : NextToDelete(name) /\ Put(name, 0)
     \/ /\ ~AtStep("delete")
        /\ \E name \in call.todo \ {Obj("Secret")} :
             /\ store[name] # 0
             /\ late' = late \union {[name |-> name, cfg |-> call.cfg]}
        /\ UNCHANGED store
  /\ UNCHANGED <<wanted, machineVars, stored>>

LateUpdate(w) ==
  /\ w \in late
  /\ Put(w.name, w.cfg)
  /\ UNCHANGED <<wanted, acked, call, machineVars, bounds>>

-----------------------------------------------------------------------------
(* The Cluster API controllers.                                            *)

\* What the objects ask of a machine group, and the template they refer to.
Asked(g) == store[IF g = ControlPlane THEN Obj("OCNEControlPlane") ELSE MachineDeployment(g)]
TemplateExists(g) ==
  store[OCIMachineTemplate(g, IF g = ControlPlane THEN ControlPlaneHash[Asked(g)]
                                                  ELSE NodePoolHash[Asked(g)])] # 0

\* A controller sees the change, and machines start to come and go.  It needs
\* the template the change refers to; what it was doing before goes on without.
StartRoll(g) ==
  /\ Asked(g) # target[g]
  /\ Asked(g) # 0 => /\ store[Obj("Cluster")] # 0
                     /\ g # ControlPlane => running[ControlPlane] # 0
                     /\ TemplateExists(g)
  /\ target' = [target EXCEPT ![g] = Asked(g)]
  /\ rolling' = rolling \union {g}
  /\ UNCHANGED <<wanted, driverVars, running, bounds>>

\* All machines of the group are Running as they should, or are gone.
FinishRoll(g) ==
  /\ g \in rolling
  /\ <<g, target[g]>> \notin Broken
  /\ running' = [running EXCEPT ![g] = target[g]]
  /\ rolling' = rolling \ {g}
  /\ UNCHANGED <<wanted, driverVars, target, bounds>>

-----------------------------------------------------------------------------
CallStep ==
  \/ \E name \in call.todo : Write(name) \/ Delete(name)
  \/ WriteNothing
  \/ GatePasses
  \/ GateFails
  \/ List

Next ==
  \/ Request
  \/ \E kind \in {"create", "update"} : Begin(kind) \/ BeginStored(kind)
  \/ CallStep
  \/ Abort
  \/ \E w \in late : LateUpdate(w)
  \/ \E g \in Groups : StartRoll(g) \/ FinishRoll(g)

\* Calls go on, failed ones are issued again, and controllers do their work.
Fairness ==
  /\ WF_vars(\E kind \in {"create", "update"} : Begin(kind))
  /\ WF_vars(CallStep)
  /\ \A g \in Groups : WF_vars(StartRoll(g)) /\ WF_vars(FinishRoll(g))

Spec == Init /\ [][Next]_vars
FairSpec == Spec /\ Fairness
-----------------------------------------------------------------------------
(* Properties.                                                             *)

CallType ==
  [kind : {"none", "create", "update"}, cfg : 0..MaxConfig,
   step : 0..LastStep("update"), todo : SUBSET Names]

\* Type correctness; a call under way is at one of its steps.
TypeOK ==
  /\ wanted \in 0..MaxConfig
  /\ acked \in 0..MaxConfig
  /\ call \in CallType
  /\ IF call.kind = "none"
     THEN call = Idle
     ELSE call.cfg \in Configs /\ call.step \in 1..LastStep(call.kind)
  /\ late \subseteq [name : Names, cfg : Configs]
  /\ store \in [Names -> 0..MaxConfig]
  /\ running \in [Groups -> 0..MaxConfig]
  /\ target \in [Groups -> 0..MaxConfig]
  /\ rolling \subseteq Groups
  /\ stored \in 0..MaxStored
  /\ aborts \in 0..MaxAborts

Template(cfg) == UNION {Documents(CreateSteps[i], cfg) : i \in 1..Len(CreateSteps)}

\* Within a call the control plane comes first: when a call writes a machine deployment,
\* the object of the control plane already holds the very configuration, whatever
\* earlier calls left behind and whichever of their updates came in between.  It holds
\* within a call only: SetClusterSize after an Update that failed half-way takes the
\* control plane back and leaves a machine deployment ahead until it comes to it.
ControlPlaneFirst ==
  [][call' # call =>
       \A p \in Pools :
         LET new == store'[MachineDeployment(p)]
         IN  new \notin {0, store[MachineDeployment(p)]}
               => store[Obj("OCNEControlPlane")] = new]_vars

\* What has been acknowledged stays applied for as long as the user asks for nothing
\* else: neither SetClusterSize nor SetVersion, done or cut short, nor an update some
\* earlier call is still to deliver leaves an object of the configuration at another.
SettledObject(name) ==
  /\ store[name] = acked
  /\ \A w \in late : w.name = name => w.cfg = acked

Settled ==
  acked # 0 /\ acked = wanted => \A name \in Template(acked) : SettledObject(name)

\* Why it does.  Configurations come in order, so that nothing under way is of one that
\* is yet to come; and while nothing new is asked for, a call works with what is there.
InOrder ==
  /\ acked <= wanted
  /\ call.kind # "none" => call.cfg <= wanted
  /\ call.kind # "none" /\ acked = wanted => call.cfg = acked

\* A call that returns nil has left every object at its configuration; an
\* update has also left no machine deployment outside its node pools.  Late
\* updates of earlier calls have not undone any of it.
AppliedWhenDone ==
  [][acked' # acked =>
       /\ \A name \in Template(acked') : store'[name] = acked'
       /\ call.kind = "update" => Deployed' \subseteq PoolsOf[acked']]_vars

\* Why it has.  What a call has been through is as it wrote it, with no update of an
\* earlier call left that could still hit it; the clean-up has nothing to do but with
\* pools outside of the configuration, and knows of each that is deployed; and a late
\* update brings no deleted object back.
Done(name) ==
  \E i \in 1..call.step :
    /\ name \in Documents(StepsOf(call.kind)[i], call.cfg)
    /\ i = call.step => name \notin call.todo

DoneIsApplied ==
  call.kind # "none" =>
    \A name \in Names :
      Done(name) => store[name] = call.cfg /\ \A w \in late : w.name # name

TodoOfStep ==
  call.kind # "none" /\ ~AtStep("delete") =>
    call.todo \subseteq Documents(StepsOf(call.kind)[call.step], call.cfg)

CleanUpComplete ==
  AtStep("delete") =>
    /\ \A name \in call.todo : \E p \in Pools \ PoolsOf[call.cfg] :
         name = MachineDeployment(p) \/ \E h \in Hashes : name = OCIMachineTemplate(p, h)
    /\ \A p \in Deployed \ PoolsOf[call.cfg] : MachineDeployment(p) \in call.todo

LateHitsObjects == \A w \in late : store[w.name] # 0

WrittenSoFar == DoneIsApplied /\ TodoOfStep /\ CleanUpComplete /\ LateHitsObjects

\* The clean-up never takes a machine template from under a machine deployment
\* that refers to it, not even when it is cut short between the two deletions.
ReferencesKept ==
  [][\A p \in Deployed : store[TemplateOf(p)] # 0 /\ store'[MachineDeployment(p)] # 0
       => store'[TemplateOf(p)] # 0]_vars

\* The engine stops asking in the end, and then the last configuration has been
\* acknowledged, its machines run it, and pools that are gone have no machines.
RunsConfig(cfg) ==
  /\ \A g \in PoolsOf[cfg] \union {ControlPlane} : running[g] = cfg
  /\ \A p \in Pools \ Deployed : running[p] = 0

Converges == <>[](wanted # 0 => acked = wanted /\ RunsConfig(wanted))

\* update.go 17-18: the control plane is updated and ready before the workers.
WorkersFollow ==
  \A p \in Pools : running[p] <= running[ControlPlane]

\* A configuration whose machines come up replaces one whose machines do not.
FixesBroken == (wanted = MaxConfig) ~> (acked = MaxConfig)
=============================================================================
