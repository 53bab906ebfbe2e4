---------------------- MODULE ClusterUpdateAppliedProofs ----------------------
(***************************************************************************)
(* For any number of configurations, node pools, stored calls and calls    *)
(* cut short: a call that returns nil has left every object of its         *)
(* configuration as it wrote it, and an update has cleaned up after        *)
(* itself; what has been acknowledged stays applied until the user asks    *)
(* for something else; within a call the control plane comes first; and    *)
(* the clean-up takes no machine template from under a machine deployment  *)
(* that refers to it.  The state before the last step shows none of it:    *)
(* WrittenSoFar says what the call has done up to now, and why no late     *)
(* update can undo it.                                                     *)
(***************************************************************************)
EXTENDS ClusterUpdateProofs

\* Gates and the clean-up write nothing.
LEMMA NoDocuments ==
  ASSUME NEW cfg, NEW template \in {"gate", "list", "delete"}
  PROVE  Documents(template, cfg) = {}
BY DEF Documents, FixedKinds

\* The machine groups of objects.
LEMMA Parts ==
  /\ \A kind : Obj(kind)[1] = kind /\ Obj(kind)[2] = ControlPlane
  /\ \A p : MachineDeployment(p)[1] = "MachineDeployment" /\ MachineDeployment(p)[2] = p
  /\ \A g, h : /\ OCIMachineTemplate(g, h)[1] = "OCIMachineTemplate"
               /\ OCIMachineTemplate(g, h)[2] = g
BY DEF Obj, MachineDeployment, OCIMachineTemplate

\* No template renders to an object of a pool outside of the configuration.
LEMMA UnusedNotRendered ==
  ASSUME NEW cfg \in Configs, NEW template, NEW p \in Pools \ PoolsOf[cfg]
  PROVE  /\ MachineDeployment(p) \notin Documents(template, cfg)
         /\ \A h : OCIMachineTemplate(p, h) \notin Documents(template, cfg)
<1> SUFFICES ASSUME NEW name \in Documents(template, cfg)
             PROVE  name[2] \in PoolsOf[cfg] \/ name[2] = ControlPlane
  BY Parts, ConfigAssumption
<1>1. CASE template \in FixedKinds
  <2>1. Documents(template, cfg) = {Obj(template)}
    BY <1>1 DEF Documents, FixedKinds
  <2> QED
    BY <2>1, Parts
<1>2. CASE template = "ControlPlaneTemplate"
  BY <1>2, Parts DEF Documents, FixedKinds
<1>3. CASE template = "MachineDeployment"
  BY <1>3, Parts DEF Documents, FixedKinds
<1>4. CASE template = "WorkerTemplate"
  BY <1>4, Parts DEF Documents, FixedKinds
<1> QED
  BY <1>1, <1>2, <1>3, <1>4 DEF Documents, FixedKinds

\* What a call that goes on goes on with.
LEMMA ProceedOn ==
  ASSUME TypeOK, Proceed, call'.kind # "none"
  PROVE  /\ call.step # LastStep(call.kind)
         /\ call'.kind = call.kind /\ call'.cfg = call.cfg /\ call'.step = call.step + 1
         /\ call'.todo = Documents(StepsOf(call.kind)[call.step + 1], call.cfg)
         /\ UNCHANGED acked
<1>1. call.step # LastStep(call.kind)
  BY DEF Proceed, ReturnNil, Idle
<1> DEFINE docs == Documents(StepsOf(call.kind)[call.step + 1], call.cfg)
<1>2. call' = [call EXCEPT !.step = call.step + 1, !.todo = docs] /\ UNCHANGED acked
  BY <1>1 DEF Proceed
<1> HIDE DEF docs
<1>3. /\ call'.kind = call.kind /\ call'.cfg = call.cfg /\ call'.step = call.step + 1
      /\ call'.todo = docs
  BY <1>2 DEF TypeOK, CallType
<1> QED
  BY <1>1, <1>2, <1>3 DEF docs

\* A call that goes on has done the step it was at, and nothing of the next.
LEMMA ProceedDone ==
  ASSUME TypeOK, call.kind # "none", Proceed, call'.kind # "none"
  PROVE  \A name : Done(name)' => \/ Done(name)
                                  \/ name \in Documents(StepsOf(call.kind)[call.step], call.cfg)
<1>1. /\ call'.kind = call.kind /\ call'.cfg = call.cfg /\ call'.step = call.step + 1
      /\ call'.todo = Documents(StepsOf(call.kind)[call.step + 1], call.cfg)
  BY ProceedOn
<1>2. call.step \in Nat
  BY StepCount DEF TypeOK, CallType
<1> SUFFICES ASSUME NEW name, Done(name)'
             PROVE  \/ Done(name)
                    \/ name \in Documents(StepsOf(call.kind)[call.step], call.cfg)
  OBVIOUS
<1>3. PICK i \in 1..(call.step + 1) :
        /\ name \in Documents(StepsOf(call.kind)[i], call.cfg)
        /\ i = call.step + 1 => name \notin call'.todo
  BY <1>1 DEF Done
<1>4. i # call.step + 1
  BY <1>1, <1>3
<1>5. CASE i = call.step
  BY <1>3, <1>5
<1>6. CASE i < call.step
  BY <1>2, <1>3, <1>6 DEF Done
<1> QED
  BY <1>2, <1>3, <1>4, <1>5, <1>6

\* A call that has finished a document has done that one and no other.
LEMMA FinishedDone ==
  ASSUME TypeOK, call.kind # "none", NEW name, Finished(name), call'.kind # "none"
  PROVE  \A n : Done(n)' => Done(n) \/ n = name
<1> SUFFICES ASSUME NEW n, Done(n)', n # name PROVE Done(n)
  OBVIOUS
<1>1. call.step \in 1..call.step /\ call.step \in Nat
  BY StepCount DEF TypeOK, CallType
<1>2. CASE call.todo = {name}
  <2>1. Done(n) \/ n \in Documents(StepsOf(call.kind)[call.step], call.cfg)
    BY <1>2, ProceedDone DEF Finished
  <2> QED
    BY <1>1, <1>2, <2>1 DEF Done
<1>3. CASE call.todo # {name}
  <2>1. /\ call'.kind = call.kind /\ call'.cfg = call.cfg /\ call'.step = call.step
        /\ call'.todo = call.todo \ {name}
    BY <1>3 DEF Finished, TypeOK, CallType
  <2> QED
    BY <2>1 DEF Done
<1> QED
  BY <1>2, <1>3

\* A write leaves the other objects, and no late update of its own.
LEMMA PutEffect ==
  ASSUME TypeOK, NEW name \in Names, NEW cfg, Put(name, cfg)
  PROVE  /\ store'[name] = cfg
         /\ \A n \in Names : n # name => store'[n] = store[n]
         /\ \A w \in late' : w \in late /\ w.name # name
BY DEF TypeOK, Put

\* Late updates hit objects that exist.
LEMMA PutLate ==
  ASSUME TypeOK, LateHitsObjects, NEW name \in Names, NEW cfg, Put(name, cfg)
  PROVE  LateHitsObjects'
<1>1. \A w \in late : w.name \in Names
  BY LateParts DEF TypeOK
<1> QED
  BY <1>1, PutEffect DEF LateHitsObjects

\* The step before the deletions lists.
LEMMA BeforeDelete ==
  ASSUME TypeOK, Proceed, AtStep("delete")' PROVE AtStep("list")
<1>1. call'.kind # "none" /\ StepsOf(call'.kind)[call'.step] = "delete"
  BY DEF AtStep
<1>2. /\ call'.kind = call.kind /\ call'.step = call.step + 1
      /\ call.step # LastStep(call.kind)
  BY <1>1, ProceedOn
<1>3. call.kind \in {"create", "update"} /\ call.step \in 1..LastStep(call.kind)
  BY <1>1, <1>2 DEF TypeOK, CallType
<1>4. CASE call.kind = "create"
  <2>1. call.step + 1 \in 1..9 /\ CreateSteps[call.step + 1] = "delete"
    BY <1>1, <1>2, <1>3, <1>4, StepCount DEF StepsOf
  <2> QED
    BY <2>1, Steps
<1>5. CASE call.kind = "update"
  <2>1. call.step + 1 \in 1..14 /\ UpdateSteps[call.step + 1] = "delete" /\ call.step \in Nat
    BY <1>1, <1>2, <1>3, <1>5, StepCount DEF StepsOf
  <2>2. call.step + 1 = 14
    BY <2>1, Steps
  <2>3. call.step = 13
    BY <2>1, <2>2
  <2> QED
    BY <1>5, <2>3, Steps DEF AtStep, StepsOf
<1> QED
  BY <1>3, <1>4, <1>5

\* A call at the deletions, one step on or not, has no other step's documents left.
LEMMA ProceedTodo ==
  ASSUME TypeOK, Proceed, ~AtStep("list") PROVE TodoOfStep' /\ CleanUpComplete'
<1>1. ~AtStep("delete")'
  BY BeforeDelete
<1>2. call'.kind # "none" => call'.todo = Documents(StepsOf(call'.kind)[call'.step], call'.cfg)
  BY ProceedOn
<1> QED
  BY <1>1, <1>2 DEF TodoOfStep, CleanUpComplete

\* An object to delete is none of the documents of the call.
LEMMA NeverRendered ==
  ASSUME TypeOK, CleanUpComplete, AtStep("delete"), NEW name \in call.todo
  PROVE  \A template : name \notin Documents(template, call.cfg)
<1>1. call.cfg \in Configs
  BY DEF AtStep, TypeOK
<1> QED
  BY <1>1, UnusedNotRendered DEF CleanUpComplete
-----------------------------------------------------------------------------
\* Every step keeps account of what the call has written.
LEMMA WrittenStep == TypeOK /\ WrittenSoFar /\ [Next]_vars => WrittenSoFar'
<1> SUFFICES ASSUME TypeOK, WrittenSoFar, [Next]_vars PROVE WrittenSoFar'
  OBVIOUS
<1> USE DEF WrittenSoFar
<1>1. ASSUME UNCHANGED <<call, late, store>> PROVE WrittenSoFar'
  BY <1>1 DEF DoneIsApplied, Done, TodoOfStep, CleanUpComplete, LateHitsObjects, AtStep, Deployed
<1>2. ASSUME call' = Idle, LateHitsObjects' PROVE WrittenSoFar'
  BY <1>2 DEF DoneIsApplied, TodoOfStep, CleanUpComplete, AtStep, Idle
<1>3. ASSUME NEW kind \in {"create", "update"}, Begin(kind) \/ BeginStored(kind)
      PROVE  WrittenSoFar'
  <2>0. PICK cfg : Start(kind, cfg)
    BY <1>3 DEF Begin, BeginStored
  <2>1. /\ call'.kind = kind /\ call'.cfg = cfg /\ call'.step = 1
        /\ call'.todo = {Obj("Secret")}
        /\ UNCHANGED <<late, store>>
    BY <2>0 DEF Start
  <2>2. StepsOf(kind)[1] = "Secret" /\ Documents("Secret", cfg) = {Obj("Secret")}
    BY Steps DEF StepsOf, Documents, FixedKinds
  <2>3. \A n : ~Done(n)'
    BY <2>1, <2>2 DEF Done
  <2>4. TodoOfStep' /\ ~AtStep("delete")'
    BY <2>1, <2>2 DEF TodoOfStep, AtStep
  <2> QED
    BY <2>1, <2>3, <2>4 DEF DoneIsApplied, CleanUpComplete, LateHitsObjects
<1>4. ASSUME call.kind # "none", Proceed, UNCHANGED <<late, store>>,
             ~AtStep("list"), ~AtStep("delete"), call.todo = {} PROVE WrittenSoFar'
  <2>1. call'.kind # "none" => \A n : Done(n)' => Done(n)
    <3> SUFFICES ASSUME call'.kind # "none", NEW n, Done(n)' PROVE Done(n)
      OBVIOUS
    <3>1. Done(n) \/ n \in Documents(StepsOf(call.kind)[call.step], call.cfg)
      BY <1>4, ProceedDone
    <3>2. call.step \in 1..call.step
      BY <1>4, StepCount DEF TypeOK
    <3> QED
      BY <1>4, <3>1, <3>2 DEF Done
  <2>2. call'.kind # "none" => call'.cfg = call.cfg
    BY <1>4, ProceedOn
  <2>3. DoneIsApplied'
    BY <1>4, <2>1, <2>2 DEF DoneIsApplied
  <2> QED
    BY <1>4, <2>3, ProceedTodo DEF LateHitsObjects
<1>5. ASSUME NEW name \in call.todo, Write(name) PROVE WrittenSoFar'
  <2>1. /\ call.kind # "none" /\ ~AtStep("delete") /\ name \in Names
        /\ Put(name, call.cfg) /\ Finished(name)
    BY <1>5 DEF Write, TypeOK, CallType, Idle
  <2>2. LateHitsObjects'
    BY <2>1, PutLate
  <2>3. call'.kind # "none" => call'.cfg = call.cfg
    BY <2>1, FinishedCall DEF Idle
  <2>4. DoneIsApplied'
    <3> SUFFICES ASSUME call'.kind # "none", NEW n \in Names, Done(n)'
                 PROVE  store'[n] = call.cfg /\ \A w \in late' : w.name # n
      BY <2>3 DEF DoneIsApplied
    <3>1. Done(n) \/ n = name
      BY <2>1, FinishedDone
    <3> QED
      BY <2>1, <3>1, PutEffect DEF DoneIsApplied
  <2>5. ~AtStep("list")
    BY <2>1, NoDocuments DEF AtStep, TodoOfStep
  <2>6. TodoOfStep' /\ CleanUpComplete'
    <3>1. CASE call.todo = {name}
      BY <2>1, <2>5, <3>1, ProceedTodo DEF Finished
    <3>2. CASE call.todo # {name}
      <4>1. /\ call'.kind = call.kind /\ call'.cfg = call.cfg /\ call'.step = call.step
            /\ call'.todo \subseteq call.todo
        BY <2>1, <3>2 DEF Finished, TypeOK, CallType
      <4> QED
        BY <2>1, <4>1 DEF TodoOfStep, CleanUpComplete, AtStep
    <3> QED
      BY <3>1, <3>2
  <2> QED
    BY <2>2, <2>4, <2>6
<1>6. ASSUME NEW name \in call.todo, Delete(name) PROVE WrittenSoFar'
  <2>1. /\ call.kind # "none" /\ AtStep("delete") /\ name \in Names /\ name \in call.todo
        /\ Put(name, 0) /\ Finished(name)
    BY <1>6 DEF Delete, NextToDelete, AtStep, TypeOK, CallType
  <2>2. LateHitsObjects'
    BY <2>1, PutLate
  <2>3. CASE call.todo = {name}
    <3>1. call' = Idle
      <4>1. call.kind = "update" /\ call.step = LastStep(call.kind)
        <5>1. call.kind \in {"create", "update"} /\ call.step \in 1..LastStep(call.kind)
              /\ StepsOf(call.kind)[call.step] = "delete"
          BY <2>1 DEF AtStep, TypeOK, CallType
        <5>2. call.kind = "create" => CreateSteps[call.step] = "delete" /\ call.step \in 1..9
          BY <5>1, StepCount DEF StepsOf
        <5>3. call.kind = "update"
          BY <5>1, <5>2, Steps
        <5>4. UpdateSteps[call.step] = "delete" /\ call.step \in 1..14
          BY <5>1, <5>3, StepCount DEF StepsOf
        <5>5. call.step = 14
          BY <5>4, Steps
        <5> QED
          BY <5>3, <5>5, StepCount
      <4> QED
        BY <2>1, <2>3, <4>1 DEF Finished, Proceed, ReturnNil
    <3> QED
      BY <1>2, <2>2, <3>1
  <2>4. CASE call.todo # {name}
    <3>1. /\ call'.kind = call.kind /\ call'.cfg = call.cfg /\ call'.step = call.step
          /\ call'.todo = call.todo \ {name}
      BY <2>1, <2>4 DEF Finished, TypeOK, CallType
    <3>2. ~Done(name)'
      BY <2>1, <3>1, NeverRendered DEF Done
    <3>3. DoneIsApplied'
      <4> SUFFICES ASSUME NEW n \in Names, Done(n)'
                   PROVE  store'[n] = call.cfg /\ \A w \in late' : w.name # n
        BY <3>1 DEF DoneIsApplied
      <4>1. Done(n) /\ n # name
        BY <2>1, <3>1, <3>2, FinishedDone
      <4> QED
        BY <2>1, <4>1, PutEffect DEF DoneIsApplied
    <3>4. \A p \in Deployed' : p \in Deployed /\ MachineDeployment(p) # name
      <4> SUFFICES ASSUME NEW p \in Pools, store'[MachineDeployment(p)] # 0
                   PROVE  store[MachineDeployment(p)] # 0 /\ MachineDeployment(p) # name
        BY DEF Deployed
      <4> QED
        BY <2>1, PutEffect, CPDistinct
    <3>5. CleanUpComplete'
      <4>1. AtStep("delete")'
        BY <2>1, <3>1 DEF AtStep
      <4> QED
        BY <2>1, <3>1, <3>4, <4>1 DEF CleanUpComplete
    <3>6. TodoOfStep'
      BY <2>1, <3>1 DEF TodoOfStep, AtStep
    <3> QED
      BY <2>2, <3>3, <3>5, <3>6
  <2> QED
    BY <2>3, <2>4
<1>7. CASE WriteNothing
  <2>1. ~AtStep("list") /\ ~AtStep("delete") /\ call.kind # "none"
    BY <1>7 DEF WriteNothing, AtStep
  <2> QED
    BY <1>4, <1>7, <2>1 DEF WriteNothing
<1>8. CASE GatePasses
  <2>1. ~AtStep("list") /\ ~AtStep("delete") /\ call.kind # "none"
    BY <1>8 DEF GatePasses, AtStep
  <2>2. call.todo = {}
    BY <1>8, <2>1, NoDocuments DEF GatePasses, AtStep, TodoOfStep
  <2> QED
    BY <1>4, <1>8, <2>1, <2>2 DEF GatePasses
<1>9. CASE GateFails
  BY <1>2, <1>9 DEF GateFails, ReturnError, LateHitsObjects
<1>10. CASE List
  <2> DEFINE unused == Deployed \ PoolsOf[call.cfg]
             docs == {MachineDeployment(p) : p \in unused} \union {TemplateOf(p) : p \in unused}
  <2>1. call.kind = "update" /\ call.step = 13 /\ UNCHANGED <<late, store>>
    BY <1>10, ListStep DEF List
  <2>2. CASE unused = {}
    BY <1>2, <1>10, <2>2 DEF List, ReturnNil, LateHitsObjects
  <2>3. CASE unused # {}
    <3>1. /\ call'.kind = call.kind /\ call'.cfg = call.cfg /\ call'.step = 14
          /\ call'.todo = docs
      <4>1. call' = [call EXCEPT !.step = call.step + 1, !.todo = docs]
        BY <1>10, <2>3 DEF List
      <4> HIDE DEF docs
      <4> QED
        BY <2>1, <4>1 DEF TypeOK, CallType
    <3>2. /\ StepsOf(call.kind) = UpdateSteps /\ UpdateSteps[14] = "delete"
          /\ UpdateSteps[13] = "list"
      BY <2>1, Steps DEF StepsOf
    <3>3. AtStep("delete")'
      BY <2>1, <3>1, <3>2 DEF AtStep
    <3>4. CleanUpComplete'
      <4>1. ASSUME NEW p \in unused PROVE \E h \in Hashes : TemplateOf(p) = OCIMachineTemplate(p, h)
        <5>1. store[MachineDeployment(p)] \in Configs
          BY CPDistinct, ConfigNumbers DEF TypeOK, Deployed
        <5> QED
          BY <5>1, ConfigAssumption DEF TemplateOf
      <4>2. \A name \in docs : \E p \in Pools \ PoolsOf[call.cfg] :
              name = MachineDeployment(p) \/ \E h \in Hashes : name = OCIMachineTemplate(p, h)
        BY <4>1 DEF Deployed
      <4>3. Deployed' = Deployed
        BY <2>1 DEF Deployed
      <4> QED
        BY <3>1, <4>2, <4>3 DEF CleanUpComplete
    <3> HIDE DEF docs, unused
    <3>5. DoneIsApplied'
      <4>1. ASSUME NEW n, Done(n)' PROVE Done(n)
        <5>1. PICK i \in 1..14 : n \in Documents(UpdateSteps[i], call.cfg)
          BY <2>1, <3>1, <3>2, <4>1 DEF Done
        <5>2. i # 13 /\ i # 14
          BY <3>2, <5>1, NoDocuments
        <5> QED
          BY <2>1, <3>2, <5>1, <5>2 DEF Done
      <4> QED
        BY <2>1, <3>1, <4>1 DEF DoneIsApplied
    <3>6. TodoOfStep'
      BY <3>3 DEF TodoOfStep
    <3> QED
      BY <2>1, <3>4, <3>5, <3>6 DEF LateHitsObjects
  <2> QED
    BY <2>2, <2>3
<1>11. CASE Abort
  <2>1. call' = Idle
    BY <1>11 DEF Abort, ReturnError
  <2>2. LateHitsObjects'
    <3>1. ASSUME NEW name \in call.todo, NEW cfg, Put(name, cfg) PROVE LateHitsObjects'
      BY <3>1, PutLate DEF TypeOK, CallType
    <3>2. ASSUME UNCHANGED <<late, store>> PROVE LateHitsObjects'
      BY <3>2 DEF LateHitsObjects
    <3>3. ASSUME NEW name \in call.todo, store[name] # 0, UNCHANGED store,
                 late' = late \union {[name |-> name, cfg |-> call.cfg]}
          PROVE LateHitsObjects'
      BY <3>3 DEF LateHitsObjects
    <3> QED
      BY <1>11, <3>1, <3>2, <3>3 DEF Abort
  <2> QED
    BY <1>2, <2>1, <2>2
<1>12. ASSUME NEW w \in late, LateUpdate(w) PROVE WrittenSoFar'
  <2>1. w.name \in Names /\ Put(w.name, w.cfg) /\ UNCHANGED call /\ store[w.name] # 0
    BY <1>12, LateParts DEF LateUpdate, TypeOK, LateHitsObjects
  <2>2. LateHitsObjects'
    BY <2>1, PutLate
  <2>3. DoneIsApplied'
    <3> SUFFICES ASSUME call.kind # "none", NEW n \in Names, Done(n)
                 PROVE  store'[n] = call.cfg /\ \A u \in late' : u.name # n
      BY <2>1 DEF DoneIsApplied, Done
    <3>1. n # w.name /\ store[n] = call.cfg /\ \A u \in late : u.name # n
      BY <1>12 DEF DoneIsApplied
    <3> QED
      BY <2>1, <3>1, PutEffect
  <2>4. \A p \in Deployed' : p \in Deployed
    <3> SUFFICES ASSUME NEW p \in Pools, store'[MachineDeployment(p)] # 0
                 PROVE  store[MachineDeployment(p)] # 0
      BY DEF Deployed
    <3> QED
      BY <2>1, PutEffect, CPDistinct
  <2>5. CleanUpComplete' /\ TodoOfStep'
    BY <2>1, <2>4 DEF CleanUpComplete, TodoOfStep, AtStep
  <2> QED
    BY <2>2, <2>3, <2>5
<1>13. CASE Request
  BY <1>1, <1>13 DEF Request, driverVars
<1>14. ASSUME NEW g \in Groups, StartRoll(g) \/ FinishRoll(g) PROVE WrittenSoFar'
  BY <1>1, <1>14 DEF StartRoll, FinishRoll, driverVars
<1>15. CASE UNCHANGED vars
  BY <1>1, <1>15 DEF vars
<1> QED
  BY <1>3, <1>5, <1>6, <1>7, <1>8, <1>9, <1>10, <1>11, <1>12, <1>13, <1>14, <1>15
     DEF Next, CallStep

\* What a call has been through is as it wrote it, for any configurations and calls cut
\* short, and no late update can undo it: capi.go 66-71, 155, 176-194, 235-272.
THEOREM AlwaysWritten == Spec => []WrittenSoFar
<1>1. Init => WrittenSoFar
  BY DEF Init, WrittenSoFar, DoneIsApplied, TodoOfStep, CleanUpComplete, LateHitsObjects,
         AtStep, Idle
<1> QED
  BY <1>1, TypeCorrect, WrittenStep, PTL DEF Spec
-----------------------------------------------------------------------------
\* A call that proceeds out of its last step was at the last templates or deletions.
LEMMA AtEnd ==
  ASSUME TypeOK, call.kind # "none", Proceed, acked' # acked
  PROVE  /\ acked' = call.cfg
         /\ \/ call.kind = "create" /\ call.step = 9 /\ AtStep("WorkerTemplate")
            \/ call.kind = "update" /\ call.step = 14 /\ AtStep("delete")
<1>1. call.step = LastStep(call.kind) /\ acked' = call.cfg
  BY DEF Proceed, ReturnNil
<1>2. call.kind \in {"create", "update"}
  BY DEF TypeOK, CallType
<1>3. CASE call.kind = "create"
  BY <1>1, <1>3, StepCount, Steps DEF AtStep, StepsOf
<1>4. CASE call.kind = "update"
  BY <1>1, <1>4, StepCount, Steps DEF AtStep, StepsOf
<1> QED
  BY <1>1, <1>2, <1>3, <1>4

\* At its end a call has been through every document of its configuration.
LEMMA AllDone ==
  ASSUME call.kind # "none", NEW name \in Template(call.cfg), name \notin call.todo,
         \/ call.kind = "create" /\ call.step = 9
         \/ call.kind = "update" /\ call.step \in {13, 14}
  PROVE  Done(name)
<1>1. PICK i \in 1..9 : name \in Documents(CreateSteps[i], call.cfg)
  BY Steps DEF Template
<1>2. CASE call.kind = "create"
  BY <1>1, <1>2 DEF Done, StepsOf
<1>3. CASE call.kind = "update"
  <2>1. \E j \in 1..11 : UpdateSteps[j] = CreateSteps[i]
    <3>1. /\ UpdateSteps[1] = CreateSteps[1] /\ UpdateSteps[8] = CreateSteps[2]
          /\ UpdateSteps[9] = CreateSteps[3] /\ UpdateSteps[10] = CreateSteps[4]
          /\ UpdateSteps[11] = CreateSteps[5] /\ UpdateSteps[2] = CreateSteps[6]
          /\ UpdateSteps[3] = CreateSteps[7] /\ UpdateSteps[5] = CreateSteps[8]
          /\ UpdateSteps[6] = CreateSteps[9]
      BY Steps
    <3>2. /\ 1 \in 1..11 /\ 2 \in 1..11 /\ 3 \in 1..11 /\ 5 \in 1..11 /\ 6 \in 1..11
          /\ 8 \in 1..11 /\ 9 \in 1..11 /\ 10 \in 1..11 /\ 11 \in 1..11
      OBVIOUS
    <3>3. i = 1 \/ i = 2 \/ i = 3 \/ i = 4 \/ i = 5 \/ i = 6 \/ i = 7 \/ i = 8 \/ i = 9
      BY <1>1
    <3> QED
      BY <3>1, <3>2, <3>3, Zenon
  <2>2. PICK j \in 1..11 : name \in Documents(UpdateSteps[j], call.cfg)
    BY <1>1, <2>1
  <2>3. j \in 1..call.step /\ StepsOf(call.kind) = UpdateSteps
    BY <1>3, <2>2 DEF StepsOf
  <2> QED
    BY <2>2, <2>3 DEF Done
<1> QED
  BY <1>2, <1>3

\* What holds when a call has returned nil.
Applied ==
  /\ acked' = call.cfg
  /\ \A name \in Template(acked') : store'[name] = acked' /\ \A w \in late' : w.name # name
  /\ call.kind = "update" => Deployed' \subseteq PoolsOf[acked']

\* The step that acknowledges a configuration leaves it applied.
LEMMA NilApplies ==
  ASSUME TypeOK, WrittenSoFar, [Next]_vars, acked' # acked PROVE Applied
<1> USE DEF WrittenSoFar
<1>1. ASSUME call.kind # "none" PROVE Template(call.cfg) \subseteq Names
  <2>1. call.cfg \in Configs
    BY <1>1 DEF TypeOK
  <2> QED
    BY <2>1, DocumentNames DEF Template
<1>2. ASSUME NEW name \in call.todo, Write(name) PROVE Applied
  <2>1. /\ call.kind # "none" /\ ~AtStep("delete") /\ name \in Names
        /\ Put(name, call.cfg) /\ Finished(name)
    BY <1>2 DEF Write, TypeOK, CallType, Idle
  <2>2. call.todo = {name} /\ Proceed
    BY <2>1 DEF Finished
  <2>3. acked' = call.cfg /\ call.kind = "create" /\ call.step = 9
    BY <2>1, <2>2, AtEnd
  <2>4. ASSUME NEW n \in Template(call.cfg)
        PROVE  store'[n] = call.cfg /\ \A w \in late' : w.name # n
    <3>1. n # name => Done(n)
      BY <2>1, <2>2, <2>3, AllDone
    <3> QED
      BY <1>1, <2>1, <3>1, PutEffect DEF DoneIsApplied
  <2> QED
    BY <2>3, <2>4 DEF Applied
<1>3. CASE WriteNothing
  <2>1. call.kind # "none" /\ ~AtStep("delete") /\ Proceed /\ call.todo = {}
        /\ UNCHANGED <<late, store>>
    BY <1>3 DEF WriteNothing, AtStep
  <2>2. acked' = call.cfg /\ call.kind = "create" /\ call.step = 9
    BY <2>1, AtEnd
  <2>3. ASSUME NEW n \in Template(call.cfg)
        PROVE  store'[n] = call.cfg /\ \A w \in late' : w.name # n
    <3>1. Done(n)
      BY <2>1, <2>2, AllDone
    <3> QED
      BY <1>1, <2>1, <3>1 DEF DoneIsApplied
  <2> QED
    BY <2>2, <2>3 DEF Applied
<1>4. ~GatePasses
  <2> SUFFICES ASSUME GatePasses PROVE FALSE
    OBVIOUS
  <2>1. call.kind # "none" /\ Proceed /\ ~AtStep("delete") /\ ~AtStep("WorkerTemplate")
    BY DEF GatePasses, AtStep
  <2> QED
    BY <2>1, AtEnd
<1>5. ASSUME NEW name \in call.todo, Delete(name) PROVE Applied
  <2>1. /\ call.kind # "none" /\ AtStep("delete") /\ name \in Names
        /\ Put(name, 0) /\ Finished(name)
    BY <1>5 DEF Delete, AtStep, TypeOK, CallType
  <2>2. call.todo = {name} /\ Proceed
    BY <2>1 DEF Finished
  <2>3. acked' = call.cfg /\ call.kind = "update" /\ call.step = 14
    BY <2>1, <2>2, AtEnd DEF AtStep, StepsOf
  <2>4. ASSUME NEW n \in Template(call.cfg)
        PROVE  store'[n] = call.cfg /\ \A w \in late' : w.name # n
    <3>1. n # name
      BY <2>1, NeverRendered DEF Template
    <3>2. Done(n)
      BY <2>1, <2>2, <2>3, <3>1, AllDone
    <3> QED
      BY <1>1, <2>1, <3>1, <3>2, PutEffect DEF DoneIsApplied
  <2>5. ASSUME NEW p \in Pools, store'[MachineDeployment(p)] # 0 PROVE p \in PoolsOf[call.cfg]
    <3>1. MachineDeployment(p) # name /\ p \in Deployed
      BY <2>1, <2>5, PutEffect, CPDistinct DEF Deployed
    <3> QED
      BY <2>1, <2>2, <3>1 DEF CleanUpComplete
  <2> QED
    BY <2>3, <2>4, <2>5 DEF Applied, Deployed
<1>6. CASE List
  <2>1. /\ call.kind = "update" /\ call.step = 13 /\ UNCHANGED <<late, store>>
        /\ AtStep("list") /\ ~AtStep("delete")
    BY <1>6, ListStep DEF List, AtStep
  <2>2. Deployed \ PoolsOf[call.cfg] = {} /\ acked' = call.cfg
    BY <1>6 DEF List, ReturnNil
  <2>3. call.todo = {}
    BY <2>1, NoDocuments DEF TodoOfStep, AtStep
  <2>4. ASSUME NEW n \in Template(call.cfg)
        PROVE  store'[n] = call.cfg /\ \A w \in late' : w.name # n
    <3>1. Done(n)
      BY <2>1, <2>3, AllDone
    <3> QED
      BY <1>1, <2>1, <3>1 DEF DoneIsApplied
  <2> QED
    BY <2>1, <2>2, <2>4 DEF Applied, Deployed
<1> QED
  BY <1>2, <1>3, <1>4, <1>5, <1>6
     DEF Next, CallStep, Request, Begin, BeginStored, Start, GateFails, ReturnError,
         Abort, LateUpdate, StartRoll, FinishRoll, driverVars, vars

\* A call that returns nil has left every object of its configuration as it wrote it, and
\* an update no machine deployment outside of its node pools.
THEOREM AppliedWhenNil == Spec => AppliedWhenDone
<1>1. TypeOK /\ WrittenSoFar /\ [Next]_vars =>
        (acked' # acked =>
           /\ \A name \in Template(acked') : store'[name] = acked'
           /\ call.kind = "update" => Deployed' \subseteq PoolsOf[acked'])
  BY NilApplies DEF Applied
<1> QED
  BY <1>1, TypeCorrect, AlwaysWritten, PTL DEF Spec, AppliedWhenDone

\* The clean-up takes no machine template from under a machine deployment that refers to
\* it: a template goes after the machine deployment it was listed with, which no late
\* update brings back.
THEOREM ReferencesAlwaysKept == Spec => ReferencesKept
<1>1. ASSUME TypeOK, WrittenSoFar, [Next]_vars, NEW p \in Deployed,
             store[TemplateOf(p)] # 0, store'[MachineDeployment(p)] # 0
      PROVE  store'[TemplateOf(p)] # 0
  <2> DEFINE t == TemplateOf(p)
  <2>1. t \in Names
    BY <1>1, TemplateNames
  <2>2. ASSUME NEW name, NEW cfg, Put(name, cfg), name \in Names, cfg # 0 PROVE store'[t] # 0
    BY <1>1, <2>1, <2>2, PutEffect
  <2>3. ASSUME NEW name \in call.todo, AtStep("delete"), NextToDelete(name), Put(name, 0)
        PROVE  store'[t] # 0
    <3>1. name \in Names /\ p \in Pools
      BY <1>1, <2>3 DEF TypeOK, CallType, Deployed
    <3>2. CASE name = t
      <4>1. name[1] = "OCIMachineTemplate" /\ name[2] = p
        BY <3>2, Parts DEF TemplateOf
      <4>2. MachineDeployment(p) \notin call.todo
        BY <2>3, <4>1 DEF NextToDelete
      <4>3. p \in PoolsOf[call.cfg]
        BY <1>1, <2>3, <4>2 DEF WrittenSoFar, CleanUpComplete
      <4>4. PICK q \in Pools \ PoolsOf[call.cfg] :
              name = MachineDeployment(q) \/ \E h \in Hashes : name = OCIMachineTemplate(q, h)
        BY <1>1, <2>3 DEF WrittenSoFar, CleanUpComplete
      <4>5. q = p
        BY <4>1, <4>4, Parts
      <4> QED
        BY <4>3, <4>4, <4>5
    <3>3. CASE name # t
      BY <1>1, <2>1, <2>3, <3>1, <3>3, PutEffect
    <3> QED
      BY <3>2, <3>3
  <2>4. ASSUME UNCHANGED store PROVE store'[t] # 0
    BY <1>1, <2>4
  <2>5. ASSUME call.kind # "none" PROVE call.cfg # 0 /\ call.todo \subseteq Names
    BY <1>1, <2>5, ConfigNumbers DEF TypeOK, CallType
  <2>6. ASSUME NEW name \in call.todo, Write(name) PROVE store'[t] # 0
    <3>1. call.kind # "none" /\ Put(name, call.cfg)
      BY <1>1, <2>6 DEF Write, TypeOK, Idle
    <3> QED
      BY <2>2, <2>5, <3>1
  <2>7. ASSUME NEW name \in call.todo, Delete(name) PROVE store'[t] # 0
    BY <2>3, <2>7 DEF Delete
  <2>8. CASE Abort
    <3>1. call.kind # "none"
      BY <1>1, <2>8 DEF Abort, TypeOK
    <3> QED
      BY <2>2, <2>3, <2>4, <2>5, <2>8, <3>1 DEF Abort
  <2>9. ASSUME NEW w \in late, LateUpdate(w) PROVE store'[t] # 0
    <3>1. w.name \in Names /\ w.cfg # 0 /\ Put(w.name, w.cfg)
      BY <1>1, <2>9, ConfigNumbers DEF LateUpdate, TypeOK
    <3> QED
      BY <2>2, <3>1
  <2>10. CASE \/ Request \/ WriteNothing \/ GatePasses \/ GateFails \/ List
              \/ \E kind \in {"create", "update"} : Begin(kind) \/ BeginStored(kind)
              \/ \E g \in Groups : StartRoll(g) \/ FinishRoll(g)
              \/ UNCHANGED vars
    BY <2>4, <2>10 DEF Request, WriteNothing, GatePasses, GateFails, List, Begin,
                       BeginStored, Start, StartRoll, FinishRoll, driverVars, vars
  <2> QED
    BY <1>1, <2>6, <2>7, <2>8, <2>9, <2>10 DEF Next, CallStep
<1>2. TypeOK /\ WrittenSoFar /\ [Next]_vars =>
        \A p \in Deployed : store[TemplateOf(p)] # 0 /\ store'[MachineDeployment(p)] # 0
          => store'[TemplateOf(p)] # 0
  BY <1>1
<1> QED
  BY <1>2, TypeCorrect, AlwaysWritten, PTL DEF Spec, ReferencesKept
-----------------------------------------------------------------------------
\* Before it gets to the workers a call has written the control plane, and no late update
\* can have hit it since.
LEMMA WorkersAfter ==
  ASSUME TypeOK, WrittenSoFar, call.kind # "none", ~AtStep("delete"),
         NEW p \in Pools, MachineDeployment(p) \in call.todo
  PROVE  store[CP] = call.cfg
<1>1. MachineDeployment(p) \in Documents(StepsOf(call.kind)[call.step], call.cfg)
  BY DEF WrittenSoFar, TodoOfStep
<1>2. StepsOf(call.kind)[call.step] = "MachineDeployment"
  BY <1>1, DeploymentDocuments
<1>3. call.kind \in {"create", "update"} /\ call.step \in 1..LastStep(call.kind)
  BY DEF TypeOK, CallType
<1>4. Documents("OCNEControlPlane", call.cfg) = {CP}
  BY DEF Documents, FixedKinds, CP
<1>5. CASE call.kind = "create"
  <2>1. call.step \in 1..9 /\ CreateSteps[call.step] = "MachineDeployment"
    BY <1>2, <1>3, <1>5, StepCount DEF StepsOf
  <2>2. call.step = 8 /\ CreateSteps[6] = "OCNEControlPlane"
    BY <2>1, Steps
  <2>3. Done(CP)
    BY <1>4, <1>5, <2>2 DEF Done, StepsOf
  <2> QED
    BY <2>3, CPDistinct DEF WrittenSoFar, DoneIsApplied
<1>6. CASE call.kind = "update"
  <2>1. call.step \in 1..14 /\ UpdateSteps[call.step] = "MachineDeployment"
    BY <1>2, <1>3, <1>6, StepCount DEF StepsOf
  <2>2. call.step = 5 /\ UpdateSteps[2] = "OCNEControlPlane"
    BY <2>1, Steps
  <2>3. Done(CP)
    BY <1>4, <1>6, <2>2 DEF Done, StepsOf
  <2> QED
    BY <2>3, CPDistinct DEF WrittenSoFar, DoneIsApplied
<1> QED
  BY <1>3, <1>5, <1>6

\* Whatever was left half-written and whichever late updates come in between, a call
\* writes a machine deployment only under a control plane of its own configuration:
\* update.go 20-41, capi.go 66-71 and 155.
THEOREM ControlPlaneAlwaysFirst == Spec => ControlPlaneFirst
<1> DEFINE First(p) ==
      store'[MachineDeployment(p)] \notin {0, store[MachineDeployment(p)]}
        => store[CP] = store'[MachineDeployment(p)]
<1>1. ASSUME TypeOK, WrittenSoFar, [Next]_vars, call' # call, NEW p \in Pools PROVE First(p)
  <2>1. ASSUME NEW name \in call.todo, ~AtStep("delete"), Put(name, call.cfg) PROVE First(p)
    <3>1. call.kind # "none" /\ name \in Names
      BY <1>1, <2>1 DEF TypeOK, CallType, Idle
    <3>2. CASE name = MachineDeployment(p)
      BY <1>1, <2>1, <3>1, <3>2, WorkersAfter, PutEffect
    <3>3. CASE name # MachineDeployment(p)
      BY <1>1, <2>1, <3>1, <3>3, CPDistinct, PutEffect
    <3> QED
      BY <3>2, <3>3
  <2>2. ASSUME NEW name \in call.todo, Put(name, 0) PROVE First(p)
    <3>1. name \in Names
      BY <1>1, <2>2 DEF TypeOK, CallType
    <3> QED
      BY <1>1, <2>2, <3>1, CPDistinct, PutEffect
  <2>3. ASSUME UNCHANGED store PROVE First(p)
    BY <2>3
  <2>4. CASE Abort
    BY <2>1, <2>2, <2>3, <2>4 DEF Abort
  <2> QED
    BY <1>1, <2>1, <2>2, <2>3, <2>4
       DEF Next, CallStep, Write, Delete, WriteNothing, GatePasses, GateFails, List, Request,
           Begin, BeginStored, Start, LateUpdate, StartRoll, FinishRoll, driverVars, vars
<1>2. TypeOK /\ WrittenSoFar /\ [Next]_vars =>
        (call' # call => \A p \in Pools :
           LET new == store'[MachineDeployment(p)]
           IN  new \notin {0, store[MachineDeployment(p)]} => store[Obj("OCNEControlPlane")] = new)
  BY <1>1 DEF CP
<1> QED
  BY <1>2, TypeCorrect, AlwaysWritten, PTL DEF Spec, ControlPlaneFirst
-----------------------------------------------------------------------------
\* A step asks for something, begins a call, goes on with one or ends it.
LEMMA CallSteps ==
  ASSUME TypeOK, [Next]_vars
  PROVE  \/ Request
         \/ \E kind : Begin(kind) \/ BeginStored(kind)
         \/ /\ UNCHANGED wanted
            /\ \/ UNCHANGED acked
               \/ call.kind # "none" /\ call' = Idle /\ acked' = call.cfg
            /\ \/ call' = Idle
               \/ call'.kind = call.kind /\ call'.cfg = call.cfg
<1> DEFINE Goes == /\ UNCHANGED wanted
                   /\ \/ UNCHANGED acked
                      \/ call.kind # "none" /\ call' = Idle /\ acked' = call.cfg
                   /\ \/ call' = Idle
                      \/ call'.kind = call.kind /\ call'.cfg = call.cfg
<1>1. ASSUME Proceed, call.kind # "none", UNCHANGED wanted PROVE Goes
  BY <1>1, ProceedCall DEF Proceed, ReturnNil
<1>2. ASSUME NEW name \in call.todo, Finished(name), UNCHANGED wanted PROVE Goes
  <2>1. call.kind # "none"
    BY <1>2 DEF TypeOK, Idle
  <2> QED
    BY <1>1, <1>2, <2>1, FinishedCall DEF Finished
<1>3. CASE List
  <2>1. call.kind # "none" /\ UNCHANGED wanted
    BY <1>3 DEF List, AtStep
  <2> DEFINE docs == {MachineDeployment(p) : p \in Deployed \ PoolsOf[call.cfg]}
                       \union {TemplateOf(p) : p \in Deployed \ PoolsOf[call.cfg]}
  <2>2. \/ ReturnNil
        \/ call' = [call EXCEPT !.step = call.step + 1, !.todo = docs] /\ UNCHANGED acked
    BY <1>3 DEF List
  <2> HIDE DEF docs
  <2> QED
    BY <2>1, <2>2 DEF ReturnNil, TypeOK, CallType
<1>4. ASSUME WriteNothing \/ GatePasses PROVE Goes
  BY <1>1, <1>4 DEF WriteNothing, GatePasses, AtStep
<1>5. ASSUME GateFails \/ Abort PROVE Goes
  BY <1>5 DEF GateFails, Abort, ReturnError
<1>6. ASSUME NEW name \in call.todo, Write(name) \/ Delete(name) PROVE Goes
  BY <1>2, <1>6 DEF Write, Delete
<1>7. ASSUME UNCHANGED <<wanted, acked, call>> PROVE Goes
  BY <1>7
<1> QED
  BY <1>3, <1>4, <1>5, <1>6, <1>7
     DEF Next, CallStep, LateUpdate, StartRoll, FinishRoll, driverVars, vars

\* Every step keeps the configurations in order.
LEMMA InOrderStep == TypeOK /\ InOrder /\ [Next]_vars => InOrder'
<1> SUFFICES ASSUME TypeOK, InOrder, [Next]_vars PROVE InOrder'
  OBVIOUS
<1>1. wanted \in Nat /\ acked \in Nat /\ call.cfg \in Nat
  BY ConfigNumbers DEF TypeOK, CallType
<1>2. Idle.kind = "none"
  BY DEF Idle
<1>3. CASE Request
  <2>1. wanted' = wanted + 1 /\ UNCHANGED <<acked, call>>
    BY <1>3 DEF Request, driverVars
  <2>2. call.kind # "none" => call.cfg <= wanted
    BY DEF InOrder
  <2>3. acked <= wanted
    BY DEF InOrder
  <2>4. acked' <= wanted' /\ acked' # wanted'
    BY <1>1, <2>1, <2>3
  <2>5. call'.kind # "none" => call'.cfg <= wanted'
    BY <1>1, <2>1, <2>2
  <2> QED
    BY <2>4, <2>5 DEF InOrder
<1>4. ASSUME NEW kind, Begin(kind) \/ BeginStored(kind) PROVE InOrder'
  <2>1. PICK cfg \in {wanted, acked} :
          Start(kind, cfg) /\ (cfg = wanted => acked # wanted \/ cfg = acked)
    BY <1>4 DEF Begin, BeginStored
  <2>2. call'.cfg = cfg /\ UNCHANGED <<wanted, acked>>
    BY <2>1 DEF Start
  <2> QED
    BY <1>1, <2>1, <2>2 DEF InOrder
<1>5. CASE /\ UNCHANGED wanted
           /\ \/ UNCHANGED acked
              \/ call.kind # "none" /\ call' = Idle /\ acked' = call.cfg
           /\ \/ call' = Idle
              \/ call'.kind = call.kind /\ call'.cfg = call.cfg
  BY <1>2, <1>5 DEF InOrder
<1> QED
  BY <1>3, <1>4, <1>5, CallSteps

\* Every step leaves the acknowledged configuration applied.
LEMMA SettledStep ==
  TypeOK /\ WrittenSoFar /\ InOrder /\ Settled /\ [Next]_vars => Settled'
<1> SUFFICES ASSUME TypeOK, WrittenSoFar, InOrder, Settled, [Next]_vars,
                    acked' # 0, acked' = wanted', NEW name \in Template(acked')
             PROVE  store'[name] = acked' /\ \A w \in late' : w.name = name => w.cfg = acked'
  BY DEF Settled, SettledObject, Template, Documents
<1>1. CASE acked' # acked
  BY <1>1, NilApplies DEF Applied
<1>2. CASE acked' = acked
  <2>1. wanted' = wanted
    <3>1. acked \in Nat /\ wanted \in Nat /\ acked <= wanted
      BY ConfigNumbers DEF TypeOK, InOrder
    <3>2. ~Request
      BY <1>2, <3>1 DEF Request
    <3> QED
      BY <3>2, CallSteps DEF Begin, BeginStored, Start
  <2>2. /\ acked # 0 /\ acked = wanted /\ name \in Template(acked)
        /\ store[name] = acked /\ \A w \in late : w.name = name => w.cfg = acked
    BY <1>2, <2>1 DEF Settled, SettledObject
  <2>3. name \in Names
    <3>1. acked \in Configs
      BY <2>2, ConfigNumbers DEF TypeOK
    <3> QED
      BY <2>2, <3>1, DocumentNames DEF Template
  <2>4. call.kind # "none" => call.cfg = acked
    BY <2>2 DEF InOrder
  <2> DEFINE Kept == store'[name] = acked /\ \A w \in late' : w.name = name => w.cfg = acked
  <2>5. ASSUME NEW n \in Names, NEW cfg, Put(n, cfg), n = name => cfg = acked PROVE Kept
    BY <2>2, <2>3, <2>5, PutEffect
  <2>6. ASSUME NEW n \in call.todo PROVE n \in Names /\ call.cfg = acked
    BY <2>4, <2>6 DEF TypeOK, CallType, Idle
  <2>7. ASSUME NEW n \in call.todo, Put(n, call.cfg) PROVE Kept
    BY <2>5, <2>6, <2>7
  <2>8. ASSUME NEW n \in call.todo, AtStep("delete"), Put(n, 0) PROVE Kept
    <3>1. n # name
      BY <2>2, <2>6, <2>8, NeverRendered DEF Template, WrittenSoFar
    <3> QED
      BY <2>5, <2>6, <2>8, <3>1
  <2>9. ASSUME UNCHANGED <<late, store>> PROVE Kept
    BY <2>2, <2>9
  <2>10. ASSUME Abort PROVE Kept
    <3>1. ASSUME NEW n \in call.todo, UNCHANGED store,
                 late' = late \union {[name |-> n, cfg |-> call.cfg]}
          PROVE  Kept
      BY <2>2, <2>6, <3>1
    <3> QED
      BY <2>7, <2>8, <2>9, <2>10, <3>1 DEF Abort
  <2>11. ASSUME NEW w \in late, LateUpdate(w) PROVE Kept
    <3>1. w.name \in Names
      BY LateParts DEF TypeOK
    <3> QED
      BY <2>2, <2>5, <2>11, <3>1 DEF LateUpdate
  <2>12. ASSUME NEW n \in call.todo, Write(n) \/ Delete(n) PROVE Kept
    BY <2>7, <2>8, <2>12 DEF Write, Delete
  <2>13. Kept
    BY <2>9, <2>10, <2>11, <2>12
       DEF Next, CallStep, WriteNothing, GatePasses, GateFails, List, Request,
           Begin, BeginStored, Start, StartRoll, FinishRoll, driverVars, vars
  <2> QED
    BY <1>2, <2>13
<1> QED
  BY <1>1, <1>2

\* What has been acknowledged stays applied until the user asks for something else, for
\* any number of stored calls, calls cut short and late updates: ocne_driver.go 641-674,
\* update.go 20-52, capi.go 66-71 and 155.
THEOREM AlwaysSettled == Spec => []Settled
<1>1. Init => InOrder /\ Settled
  BY DEF Init, InOrder, Settled, Idle
<1> QED
  BY <1>1, TypeCorrect, AlwaysWritten, InOrderStep, SettledStep, PTL DEF Spec
=============================================================================
