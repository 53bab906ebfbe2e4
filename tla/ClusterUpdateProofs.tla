------------------------ MODULE ClusterUpdateProofs -------------------------
(***************************************************************************)
(* For any number of configurations, node pools, stored calls and calls    *)
(* cut short the state is well typed, and a call under way is at one of    *)
(* the steps of its pipeline.  The lemmas on steps, documents and writes   *)
(* are what ClusterUpdateAppliedProofs builds on.                          *)
(***************************************************************************)
EXTENDS ClusterUpdate, TLAPS

\* The steps of the two pipelines, one by one.
LEMMA Steps ==
  /\ Len(CreateSteps) = 9 /\ Len(UpdateSteps) = 14
  /\ CreateSteps[1] = "Secret" /\ CreateSteps[2] = "Cluster"
  /\ CreateSteps[3] = "OCIClusterIdentity" /\ CreateSteps[4] = "OCICluster"
  /\ CreateSteps[5] = "OCNEConfigTemplate" /\ CreateSteps[6] = "OCNEControlPlane"
  /\ CreateSteps[7] = "ControlPlaneTemplate" /\ CreateSteps[8] = "MachineDeployment"
  /\ CreateSteps[9] = "WorkerTemplate"
  /\ UpdateSteps[1] = "Secret" /\ UpdateSteps[2] = "OCNEControlPlane"
  /\ UpdateSteps[3] = "ControlPlaneTemplate" /\ UpdateSteps[4] = "gate"
  /\ UpdateSteps[5] = "MachineDeployment" /\ UpdateSteps[6] = "WorkerTemplate"
  /\ UpdateSteps[7] = "gate" /\ UpdateSteps[8] = "Cluster"
  /\ UpdateSteps[9] = "OCIClusterIdentity" /\ UpdateSteps[10] = "OCICluster"
  /\ UpdateSteps[11] = "OCNEConfigTemplate" /\ UpdateSteps[12] = "gate"
  /\ UpdateSteps[13] = "list" /\ UpdateSteps[14] = "delete"
BY DEF CreateSteps, UpdateSteps

\* How many there are.
LEMMA StepCount ==
  /\ LastStep("create") = 9 /\ LastStep("update") = 14
  /\ \A kind : LastStep(kind) = 9 \/ LastStep(kind) = 14
<1>1. Len(CreateSteps) = 9 /\ Len(UpdateSteps) = 14
  BY Steps
<1>2. \A kind : StepsOf(kind) = CreateSteps \/ StepsOf(kind) = UpdateSteps
  BY DEF StepsOf
<1>3. StepsOf("create") = CreateSteps /\ StepsOf("update") = UpdateSteps
  BY DEF StepsOf
<1> QED
  BY <1>1, <1>2, <1>3, Zenon DEF LastStep

\* The configurations, as numbers.
LEMMA ConfigNumbers ==
  /\ MaxConfig \in Nat
  /\ Configs \subseteq 0..MaxConfig
  /\ 0 \notin Configs
  /\ \A n \in 0..MaxConfig : n # 0 => n \in Configs
BY ConfigAssumption DEF Configs

\* The parts of a late update.
LEMMA LateParts ==
  \A w \in [name : Names, cfg : Configs] :
    w.name \in Names /\ w.cfg \in 0..MaxConfig /\ w.cfg \in Nat
<1> SUFFICES ASSUME NEW w \in [name : Names, cfg : Configs]
             PROVE  w.name \in Names /\ w.cfg \in 0..MaxConfig /\ w.cfg \in Nat
  OBVIOUS
<1>1. w.name \in Names /\ w.cfg \in Configs
  OBVIOUS
<1>2. \A n \in Configs : n \in 0..MaxConfig /\ n \in Nat
  BY ConfigNumbers
<1> QED
  BY <1>1, <1>2, Zenon

\* The objects a template renders to are objects.
LEMMA DocumentNames ==
  ASSUME NEW cfg \in Configs, NEW template
  PROVE  Documents(template, cfg) \subseteq Names
<1>2. PoolsOf[cfg] \subseteq Pools /\ NodePoolHash[cfg] \in Hashes
                                  /\ ControlPlaneHash[cfg] \in Hashes
  BY ConfigAssumption
<1>3. CASE template \in FixedKinds
  <2>1. Documents(template, cfg) = {Obj(template)}
    BY <1>3 DEF Documents, FixedKinds
  <2>2. Obj(template) \in Names
    BY <1>3 DEF Names
  <2> QED
    BY <2>1, <2>2
<1>4. CASE template = "ControlPlaneTemplate"
  BY <1>2, <1>4 DEF Documents, Names, Groups, FixedKinds
<1>5. CASE template = "MachineDeployment"
  BY <1>2, <1>5 DEF Documents, Names, FixedKinds
<1>6. CASE template = "WorkerTemplate"
  BY <1>2, <1>6 DEF Documents, Names, Groups, FixedKinds
<1> QED
  BY <1>3, <1>4, <1>5, <1>6 DEF Documents, FixedKinds

\* The references of the listed machine deployments are objects.
LEMMA TemplateNames ==
  ASSUME TypeOK, NEW p \in Deployed PROVE TemplateOf(p) \in Names
<1>1. MachineDeployment(p) \in Names /\ p \in Pools
  BY DEF Names, Deployed
<1>2. store[MachineDeployment(p)] \in Configs
  BY <1>1, ConfigNumbers DEF TypeOK, Deployed
<1>3. NodePoolHash[store[MachineDeployment(p)]] \in Hashes
  BY <1>2, ConfigAssumption
<1> QED
  BY <1>1, <1>3 DEF TemplateOf, Names, Groups

-----------------------------------------------------------------------------
\* A call under way, as TypeOK has it.
CallOK(c) ==
  /\ c \in CallType
  /\ IF c.kind = "none"
     THEN c = Idle
     ELSE c.cfg \in Configs /\ c.step \in 1..LastStep(c.kind)

\* No call is a call.
LEMMA IdleType == CallOK(Idle)
BY StepCount, ConfigNumbers DEF CallOK, Idle, CallType

\* A call stays well formed on its way to the next step or out.
LEMMA ProceedType ==
  ASSUME TypeOK, call.kind # "none", Proceed
  PROVE  acked' \in 0..MaxConfig /\ CallOK(call')
<1>1. CASE call.step = LastStep(call.kind)
  BY <1>1, IdleType, ConfigNumbers DEF Proceed, ReturnNil, TypeOK
<1>2. CASE call.step # LastStep(call.kind)
  <2> DEFINE docs == Documents(StepsOf(call.kind)[call.step + 1], call.cfg)
  <2>1. docs \subseteq Names
    BY DocumentNames DEF TypeOK
  <2>2. /\ call' = [call EXCEPT !.step = call.step + 1, !.todo = docs]
        /\ UNCHANGED acked
    BY <1>2 DEF Proceed
  <2>3. call.step + 1 \in 1..LastStep(call.kind)
        /\ call.step + 1 \in 0..LastStep("update")
    BY <1>2, StepCount DEF TypeOK
  <2> HIDE DEF docs
  <2> QED
    BY <2>1, <2>2, <2>3 DEF TypeOK, CallType, CallOK
<1> QED
  BY <1>1, <1>2

\* So does the call after one of its documents.
LEMMA FinishedType ==
  ASSUME TypeOK, call.kind # "none", NEW name, Finished(name)
  PROVE  acked' \in 0..MaxConfig /\ CallOK(call')
<1>1. CASE call.todo = {name}
  BY <1>1, ProceedType DEF Finished
<1>2. CASE call.todo # {name}
  BY <1>2 DEF Finished, TypeOK, CallType, CallOK
<1> QED
  BY <1>1, <1>2

\* A write or a deletion leaves objects and late updates of objects.
LEMMA PutType ==
  ASSUME TypeOK, NEW name, NEW cfg \in 0..MaxConfig, Put(name, cfg)
  PROVE  store' \in [Names -> 0..MaxConfig] /\ late' \subseteq [name : Names, cfg : Configs]
BY DEF TypeOK, Put

\* Only an update lists the machine deployments, at its last step but one.
LEMMA ListStep ==
  ASSUME TypeOK, List PROVE call.kind = "update" /\ call.step = 13
<1>1. call.kind \in {"create", "update"} /\ call.step \in 1..LastStep(call.kind)
  BY DEF List, AtStep, TypeOK, CallType
<1>2. StepsOf(call.kind)[call.step] = "list"
  BY DEF List, AtStep
<1>3. CASE call.kind = "create"
  <2>1. StepsOf(call.kind) = CreateSteps
    BY <1>3 DEF StepsOf
  <2>2. call.step \in 1..9 /\ CreateSteps[call.step] = "list"
    BY <1>1, <1>2, <1>3, <2>1, StepCount
  <2> QED
    BY <2>2, Steps
<1>4. CASE call.kind = "update"
  <2>1. StepsOf(call.kind) = UpdateSteps
    BY <1>4 DEF StepsOf
  <2>2. call.step \in 1..14 /\ UpdateSteps[call.step] = "list"
    BY <1>1, <1>2, <1>4, <2>1, StepCount
  <2> QED
    BY <1>4, <2>2, Steps
<1> QED
  BY <1>1, <1>3, <1>4

\* Every step keeps the types.
LEMMA TypeStep == TypeOK /\ [Next]_vars => TypeOK'
<1> SUFFICES ASSUME TypeOK, [Next]_vars PROVE TypeOK'
  OBVIOUS
<1> DEFINE CallPart == /\ acked' \in 0..MaxConfig /\ CallOK(call')
           StorePart == /\ store' \in [Names -> 0..MaxConfig]
                        /\ late' \subseteq [name : Names, cfg : Configs]
<1>1. ASSUME CallPart, StorePart, UNCHANGED <<wanted, machineVars, bounds>> PROVE TypeOK'
  BY <1>1 DEF TypeOK, CallOK, machineVars, bounds
<1>2. ASSUME UNCHANGED <<late, store>> PROVE StorePart
  BY <1>2 DEF TypeOK
<1>3. ASSUME ReturnError PROVE CallPart
  BY <1>3, IdleType DEF ReturnError, TypeOK
<1>4. ASSUME NEW step, AtStep(step) PROVE call.kind # "none" /\ call.cfg \in Configs
  BY <1>4 DEF AtStep, TypeOK
<1>5. CASE Request
  BY <1>5, ConfigNumbers DEF Request, TypeOK, driverVars, machineVars, bounds
<1>6. ASSUME NEW kind \in {"create", "update"}, Begin(kind) \/ BeginStored(kind) PROVE TypeOK'
  <2>1. PICK cfg \in {wanted, acked} : Start(kind, cfg) /\ cfg # 0 /\ stored' \in 0..MaxStored
    BY <1>6, BoundsAssumption DEF Begin, BeginStored, TypeOK
  <2>2. cfg \in Configs
    BY <2>1, ConfigNumbers DEF TypeOK
  <2>3. {Obj("Secret")} \subseteq Names /\ 1 \in 1..LastStep(kind) /\ 1 \in 0..LastStep("update")
    BY StepCount DEF Names, FixedKinds
  <2>4. CallOK(call')
    BY <2>1, <2>2, <2>3, ConfigNumbers DEF Start, CallOK, CallType
  <2> QED
    BY <1>2, <2>1, <2>4 DEF Start, TypeOK, CallOK, machineVars
<1>7. ASSUME NEW name \in call.todo, Write(name) PROVE TypeOK'
  <2>1. call.kind # "none"
    BY DEF TypeOK, Idle
  <2>2. call.cfg \in 0..MaxConfig
    BY DEF TypeOK, CallType
  <2> QED
    BY <1>1, <1>7, <2>1, <2>2, FinishedType, PutType DEF Write
<1>8. ASSUME NEW name \in call.todo, Delete(name) PROVE TypeOK'
  BY <1>1, <1>4, <1>8, FinishedType, PutType, ConfigNumbers DEF Delete
<1>9. CASE WriteNothing
  BY <1>1, <1>2, <1>4, <1>9, ProceedType DEF WriteNothing
<1>10. CASE GatePasses
  BY <1>1, <1>2, <1>4, <1>10, ProceedType DEF GatePasses
<1>11. CASE GateFails
  BY <1>1, <1>2, <1>3, <1>11 DEF GateFails
<1>12. CASE List
  <2> DEFINE unused == Deployed \ PoolsOf[call.cfg]
             docs == {MachineDeployment(p) : p \in unused} \union {TemplateOf(p) : p \in unused}
  <2>1. docs \subseteq Names
    BY TemplateNames DEF Names, Deployed
  <2>2. call.kind = "update" /\ call.step = 13
    BY <1>12, ListStep
  <2>3. CASE unused = {}
    <3>1. ReturnNil
      BY <1>12, <2>3 DEF List
    <3>2. CallPart
      BY <1>4, <1>12, <3>1, IdleType, ConfigNumbers DEF ReturnNil, List
    <3> QED
      BY <1>1, <1>2, <1>12, <3>2 DEF List
  <2>4. CASE unused # {}
    <3>1. call' = [call EXCEPT !.step = call.step + 1, !.todo = docs] /\ UNCHANGED acked
      BY <1>12, <2>4 DEF List
    <3>2. call.step + 1 \in 1..LastStep(call.kind) /\ call.step + 1 \in 0..LastStep("update")
      BY <2>2, StepCount
    <3> HIDE DEF docs
    <3>3. CallOK(call')
      BY <2>1, <2>2, <3>1, <3>2 DEF TypeOK, CallType, CallOK
    <3>4. acked' \in 0..MaxConfig
      BY <3>1 DEF TypeOK
    <3> QED
      BY <1>1, <1>2, <1>12, <3>3, <3>4 DEF List
  <2> QED
    BY <2>3, <2>4
<1>13. CASE Abort
  <2>1. call.kind # "none" /\ call.cfg \in Configs /\ call.todo \subseteq Names
    BY <1>13 DEF Abort, TypeOK, CallType
  <2>2. StorePart
    <3>1. ASSUME NEW name, NEW cfg \in {0, call.cfg}, Put(name, cfg) PROVE StorePart
      BY <2>1, <3>1, PutType, ConfigNumbers
    <3>2. ASSUME NEW name \in call.todo, UNCHANGED store,
                 late' = late \union {[name |-> name, cfg |-> call.cfg]}
          PROVE StorePart
      BY <2>1, <3>2 DEF TypeOK
    <3> QED
      BY <1>2, <1>13, <3>1, <3>2 DEF Abort
  <2>3. CallPart /\ aborts' \in 0..MaxAborts
    BY <1>3, <1>13, BoundsAssumption DEF Abort, TypeOK
  <2> QED
    BY <1>13, <2>2, <2>3 DEF Abort, TypeOK, CallOK, machineVars
<1>14. ASSUME NEW w \in late, LateUpdate(w) PROVE TypeOK'
  <2>1. w.cfg \in 0..MaxConfig
    BY ConfigNumbers DEF TypeOK
  <2>2. CallPart
    BY <1>14 DEF LateUpdate, TypeOK, CallOK
  <2> QED
    BY <1>1, <1>14, <2>1, <2>2, PutType DEF LateUpdate
<1>15. ASSUME NEW g \in Groups, StartRoll(g) PROVE TypeOK'
  <2>1. Asked(g) \in 0..MaxConfig
    BY <1>15 DEF Asked, TypeOK, Names, Groups, FixedKinds
  <2> QED
    BY <1>15, <2>1 DEF StartRoll, TypeOK, driverVars, bounds
<1>16. ASSUME NEW g \in Groups, FinishRoll(g) PROVE TypeOK'
  BY <1>16 DEF FinishRoll, TypeOK, driverVars, bounds
<1>17. CASE UNCHANGED vars
  BY <1>17 DEF vars, TypeOK
<1> QED
  BY <1>5, <1>6, <1>7, <1>8, <1>9, <1>10, <1>11, <1>12, <1>13, <1>14, <1>15, <1>16, <1>17
     DEF Next, CallStep
\* The state stays well typed: update.go 20-52 and capi.go 66-71, 235-272, for
\* any configurations, pools and calls cut short.
THEOREM TypeCorrect == Spec => []TypeOK
<1>1. Init => TypeOK
  BY ConfigNumbers, IdleType, BoundsAssumption DEF Init, TypeOK, CallOK, Idle
<1> QED
  BY <1>1, TypeStep, PTL DEF Spec
-----------------------------------------------------------------------------
CP == Obj("OCNEControlPlane")

\* The object of the control plane is none of the others.
LEMMA CPDistinct ==
  /\ CP \in Names
  /\ \A p \in Pools : MachineDeployment(p) \in Names /\ MachineDeployment(p) # CP
  /\ \A g, h : OCIMachineTemplate(g, h) # CP
  /\ \A g, h, p : OCIMachineTemplate(g, h) # MachineDeployment(p)
  /\ \A kind, p : kind \in FixedKinds => Obj(kind) # MachineDeployment(p)
BY DEF CP, Obj, MachineDeployment, OCIMachineTemplate, Names, FixedKinds

\* Only the step of the machine deployments writes them.
LEMMA DeploymentDocuments ==
  ASSUME NEW template, NEW cfg, NEW p \in Pools,
         MachineDeployment(p) \in Documents(template, cfg)
  PROVE  template = "MachineDeployment"
<1>1. CASE template \in FixedKinds
  BY <1>1, CPDistinct DEF Documents, FixedKinds
<1>2. CASE template = "ControlPlaneTemplate"
  BY <1>2, CPDistinct DEF Documents, FixedKinds
<1>3. CASE template = "WorkerTemplate"
  BY <1>3, CPDistinct DEF Documents, FixedKinds
<1> QED
  BY <1>1, <1>2, <1>3 DEF Documents, FixedKinds

\* A call keeps its configuration until it ends.
LEMMA ProceedCall ==
  ASSUME TypeOK, Proceed
  PROVE  call' = Idle \/ (call'.kind = call.kind /\ call'.cfg = call.cfg)
BY DEF Proceed, ReturnNil, TypeOK, CallType

\* So does it after one of its documents.
LEMMA FinishedCall ==
  ASSUME TypeOK, NEW name, Finished(name)
  PROVE  call' = Idle \/ (call'.kind = call.kind /\ call'.cfg = call.cfg)
<1>1. CASE call.todo = {name}
  BY <1>1, ProceedCall DEF Finished
<1>2. CASE call.todo # {name}
  BY <1>2 DEF Finished, TypeOK, CallType
<1> QED
  BY <1>1, <1>2
=============================================================================
