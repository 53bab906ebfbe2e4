----------------------- MODULE ClusterLifecycleProofs ----------------------
(***************************************************************************)
(* Remove takes no Cluster down before the Verrazzano on it is gone, and   *)
(* no namespace before the Cluster is, for any names, edits and number of  *)
(* calls that fail on the way.  Neither is inductive: that Remove may      *)
(* delete the Cluster depends on what its earlier steps saw and on nobody  *)
(* bringing Verrazzano back.  Orderly says what they rest on.              *)
(***************************************************************************)
EXTENDS ClusterLifecycle, TLAPS

\* What Create and Update store.
LEMMA NewVariables ==
  /\ \A o \in Options : NewFromOptions(o) \in Variables
  /\ \A old, new \in Variables : SetUpdateValues(old, new) \in Variables
<1>1. \A o \in Options : NewFromOptions(o) \in Variables
  BY DEF Options, Variables, NewFromOptions
<1>2. ASSUME NEW old \in Variables, NEW new \in Variables
      PROVE  SetUpdateValues(old, new) \in Variables
  BY DEF SetUpdateValues, Variables
<1> QED
  BY <1>1, <1>2

\* Every step keeps the types.
LEMMA TypeStep == TypeOK /\ [Next]_vars => TypeOK'
<1> SUFFICES ASSUME TypeOK, [Next]_vars PROVE TypeOK'
  OBVIOUS
<1> USE DEF TypeOK
<1>1. CASE Edit
  BY LifecycleAssumption, <1>1 DEF Edit,
            engineVars, callVars, adminVars, managedVars
<1>2. CASE PickUp
  BY <1>2 DEF PickUp,
            engineVars, callVars, adminVars, managedVars
<1>3. CASE AskRemove
  BY <1>3 DEF AskRemove,
            engineVars, callVars, adminVars, managedVars
<1>4. CASE Abort
  BY LifecycleAssumption, <1>4 DEF Abort, ReturnError,
            engineVars, callVars, adminVars, managedVars
<1>5. CASE BeginCreate
  BY NewVariables, <1>5 DEF BeginCreate, Begin,
            engineVars, callVars, adminVars, managedVars
<1>6. CASE BeginUpdate
  BY NewVariables, <1>6 DEF BeginUpdate, Begin,
            engineVars, callVars, adminVars, managedVars
<1>7. CASE WriteObjects
  BY <1>7 DEF WriteObjects, GoTo,
            engineVars, callVars, adminVars, managedVars
<1>8. CASE ObjectsWritten
  BY <1>8 DEF ObjectsWritten, Fail, ReturnError, ReturnNil,
            engineVars, callVars, adminVars, managedVars
<1>9. CASE BeginPostCheck
  BY <1>9 DEF BeginPostCheck, Begin,
            engineVars, callVars, adminVars, managedVars
<1>10. CASE Check
  BY <1>10 DEF Check, Fail, ReturnError, GoTo, PostCheckDone, ReturnNil,
            engineVars, callVars, adminVars, managedVars
<1>11. CASE ApplyVerrazzano
  BY <1>11 DEF ApplyVerrazzano, GoTo,
            engineVars, callVars, adminVars, managedVars
<1>12. CASE ApplyVMC
  <2>1. v \in Variables /\ v.display \in DisplayNames
    BY <1>12 DEF ApplyVMC, Variables
  <2>2. CASE crd
    <3>1. /\ vmcs' = vmcs \union {v.display} /\ pc' = "none" /\ job' = "idle" /\ info' = v
          /\ UNCHANGED <<wanted, dirty, edits, v, aborts, cluster, namespace, kubeconfig, crd,
                         api, vz>>
      BY <1>12, <2>2 DEF ApplyVMC, PostCheckDone, ReturnNil, engineVars, managedVars
    <3> QED
      BY <2>1, <3>1
  <2>3. CASE ~crd
    BY <1>12, <2>3 DEF ApplyVMC, Fail, ReturnError, engineVars, managedVars
  <2> QED
    BY <2>2, <2>3
<1>13. CASE DeleteVMC
  BY <1>13 DEF DeleteVMC, GoTo,
            engineVars, callVars, adminVars, managedVars
<1>14. CASE DeleteVZ
  BY <1>14 DEF DeleteVZ, Fail, ReturnError, GoTo, PostCheckDone, ReturnNil,
            engineVars, callVars, adminVars, managedVars
<1>15. CASE BeginRemove
  BY <1>15 DEF BeginRemove, Begin,
            engineVars, callVars, adminVars, managedVars
<1>16. CASE GetKubeconfig
  BY <1>16 DEF GetKubeconfig, Fail, ReturnError, GoTo,
            engineVars, callVars, adminVars, managedVars
<1>17. CASE DeleteCluster
  BY <1>17 DEF DeleteCluster, Fail, ReturnError, ReturnNil,
            engineVars, callVars, adminVars, managedVars
<1>18. CASE ClusterUp
  BY <1>18 DEF ClusterUp,
            engineVars, callVars, adminVars, managedVars
<1>19. CASE VerrazzanoGone
  BY <1>19 DEF VerrazzanoGone,
            engineVars, callVars, adminVars, managedVars
<1>20. CASE ControlPlaneGone
  BY <1>20 DEF ControlPlaneGone,
            engineVars, callVars, adminVars, managedVars
<1>21. CASE SecretCollected
  <2>1. /\ kubeconfig' \in BOOLEAN
        /\ UNCHANGED <<engineVars, callVars, cluster, namespace, vmcs, crd, managedVars>>
    BY <1>21 DEF SecretCollected
  <2>2. UNCHANGED <<wanted, dirty, edits, job, info, pc, v, aborts, cluster, namespace, vmcs,
                    crd, api, vz>>
    BY <2>1, Zenon DEF engineVars, callVars, managedVars
  <2> QED
    BY <2>1, <2>2
<1>22. CASE ClusterGone
  BY <1>22 DEF ClusterGone,
            engineVars, callVars, adminVars, managedVars
<1>23. CASE CRDInstalled
  BY <1>23 DEF CRDInstalled,
            engineVars, callVars, adminVars, managedVars
<1>24. CASE UNCHANGED vars
  BY <1>24 DEF vars,
            engineVars, callVars, adminVars, managedVars
<1> QED
  BY <1>1, <1>2, <1>3, <1>4, <1>5, <1>6, <1>7, <1>8, <1>9, <1>10, <1>11, <1>12, <1>13, <1>14, <1>15, <1>16, <1>17, <1>18, <1>19, <1>20, <1>21, <1>22, <1>23, <1>24
     DEF Next, DriverStep, Controllers

\* Every variable keeps its type.
THEOREM TypeCorrect == Spec => []TypeOK
<1>1. Init => TypeOK
  <2> SUFFICES ASSUME Init PROVE TypeOK
    OBVIOUS
  <2>1. 0 \in 0..MaxEdits /\ 0 \in 0..MaxAborts
    BY LifecycleAssumption
  <2>2. info \in Variables \union {NoVariables} /\ v \in Variables \union {NoVariables}
    BY Zenon DEF Init
  <2> QED
    BY <2>1, <2>2 DEF Init, TypeOK
<1> QED
  BY <1>1, TypeStep, PTL DEF Spec

\* Every step keeps the order.
LEMMA OrderlyStep == TypeOK /\ Orderly /\ [Next]_vars => Orderly'
<1> SUFFICES ASSUME TypeOK, Orderly, [Next]_vars PROVE Orderly'
  OBVIOUS
<1> USE DEF TypeOK, Orderly, StepsOfCalls, LivesWith, UninstalledFirst, NamespaceLast, Removing
<1>1. CASE Edit
  BY <1>1 DEF Edit,
            engineVars, callVars, adminVars, managedVars
<1>2. CASE PickUp
  BY <1>2 DEF PickUp,
            engineVars, callVars, adminVars, managedVars
<1>3. CASE AskRemove
  BY <1>3 DEF AskRemove,
            engineVars, callVars, adminVars, managedVars
<1>4. CASE Abort
  BY <1>4 DEF Abort, ReturnError,
            engineVars, callVars, adminVars, managedVars
<1>5. CASE BeginCreate
  BY <1>5 DEF BeginCreate, Begin,
            engineVars, callVars, adminVars, managedVars
<1>6. CASE BeginUpdate
  BY <1>6 DEF BeginUpdate, Begin,
            engineVars, callVars, adminVars, managedVars
<1>7. CASE WriteObjects
  BY <1>7 DEF WriteObjects, GoTo,
            engineVars, callVars, adminVars, managedVars
<1>8. CASE ObjectsWritten
  BY <1>8 DEF ObjectsWritten, Fail, ReturnError, ReturnNil,
            engineVars, callVars, adminVars, managedVars
<1>9. CASE BeginPostCheck
  BY <1>9 DEF BeginPostCheck, Begin,
            engineVars, callVars, adminVars, managedVars
<1>10. CASE Check
  BY <1>10 DEF Check, Fail, ReturnError, GoTo, PostCheckDone, ReturnNil,
            engineVars, callVars, adminVars, managedVars
<1>11. CASE ApplyVerrazzano
  BY <1>11 DEF ApplyVerrazzano, GoTo,
            engineVars, callVars, adminVars, managedVars
<1>12. CASE ApplyVMC
  BY <1>12 DEF ApplyVMC, Fail, ReturnError, PostCheckDone, ReturnNil,
            engineVars, callVars, adminVars, managedVars
<1>13. CASE DeleteVMC
  BY <1>13 DEF DeleteVMC, GoTo,
            engineVars, callVars, adminVars, managedVars
<1>14. CASE DeleteVZ
  BY <1>14 DEF DeleteVZ, Fail, ReturnError, GoTo, PostCheckDone, ReturnNil,
            engineVars, callVars, adminVars, managedVars
<1>15. CASE BeginRemove
  BY <1>15 DEF BeginRemove, Begin,
            engineVars, callVars, adminVars, managedVars
<1>16. CASE GetKubeconfig
  BY <1>16 DEF GetKubeconfig, Fail, ReturnError, GoTo,
            engineVars, callVars, adminVars, managedVars
<1>17. CASE DeleteCluster
  BY <1>17 DEF DeleteCluster, Fail, ReturnError, ReturnNil,
            engineVars, callVars, adminVars, managedVars
<1>18. CASE ClusterUp
  BY <1>18 DEF ClusterUp,
            engineVars, callVars, adminVars, managedVars
<1>19. CASE VerrazzanoGone
  BY <1>19 DEF VerrazzanoGone,
            engineVars, callVars, adminVars, managedVars
<1>20. CASE ControlPlaneGone
  BY <1>20 DEF ControlPlaneGone,
            engineVars, callVars, adminVars, managedVars
<1>21. CASE SecretCollected
  BY <1>21 DEF SecretCollected,
            engineVars, callVars, adminVars, managedVars
<1>22. CASE ClusterGone
  BY <1>22 DEF ClusterGone,
            engineVars, callVars, adminVars, managedVars
<1>23. CASE CRDInstalled
  BY <1>23 DEF CRDInstalled,
            engineVars, callVars, adminVars, managedVars
<1>24. CASE UNCHANGED vars
  BY <1>24 DEF vars,
            engineVars, callVars, adminVars, managedVars
<1> QED
  BY <1>1, <1>2, <1>3, <1>4, <1>5, <1>6, <1>7, <1>8, <1>9, <1>10, <1>11, <1>12, <1>13, <1>14, <1>15, <1>16, <1>17, <1>18, <1>19, <1>20, <1>21, <1>22, <1>23, <1>24
     DEF Next, DriverStep, Controllers

\* It is never lost.
LEMMA AlwaysOrderly == Spec => []Orderly
<1>1. Init => Orderly
  BY DEF Init, Orderly, StepsOfCalls, LivesWith, UninstalledFirst, NamespaceLast, Removing
<1> QED
  BY <1>1, TypeCorrect, OrderlyStep, PTL DEF Spec

\* Whatever calls fail and are repeated, Remove deletes no Cluster whose stored
\* Variables ask for Verrazzano, or for its uninstallation, while the resource is
\* still there: ocne_driver.go 73-76, verrazzano.go 72-115.
THEOREM RemoveUninstallsFirst == Spec => []UninstalledFirst
<1>1. Orderly => UninstalledFirst
  BY DEF Orderly
<1> QED
  BY <1>1, AlwaysOrderly, PTL

\* The namespace is deleted when its Cluster is gone, and no Cluster comes back in
\* it: capi.go 192-215.
THEOREM NamespaceDeletedLast == Spec => []NamespaceLast
<1>1. Orderly => NamespaceLast
  BY DEF Orderly
<1> QED
  BY <1>1, AlwaysOrderly, PTL

-----------------------------------------------------------------------------
\* A PostCheck that uninstalls was asked to; it is the only one that takes a
\* registration away.
Registered ==
  /\ RegisteredWhenIdle
  /\ job = "postcheck" /\ pc \in {"delete_vmc", "delete_vz"} => ~v.install

\* Every step keeps the registration.
LEMMA RegisteredStep == TypeOK /\ Orderly /\ Registered /\ [Next]_vars => Registered'
<1> SUFFICES ASSUME TypeOK, Orderly, Registered, [Next]_vars PROVE Registered'
  OBVIOUS
<1> USE DEF Registered, RegisteredWhenIdle
<1>1. StepsOfCalls
  BY DEF Orderly
<1>2. job = "idle" => pc = "none"
  BY <1>1 DEF StepsOfCalls, TypeOK
<1>3. CASE UNCHANGED <<job, info, pc, v, vmcs>>
  BY <1>3
<1>4. ASSUME Edit \/ Controllers \/ UNCHANGED vars
      PROVE  UNCHANGED <<job, info, pc, v, vmcs>>
  BY <1>4 DEF Edit, Controllers, ClusterUp, VerrazzanoGone, ControlPlaneGone, SecretCollected,
              ClusterGone, CRDInstalled, vars, engineVars, callVars, adminVars, managedVars
<1>5. CASE PickUp \/ AskRemove
  BY <1>5 DEF PickUp, AskRemove
<1>6. CASE Abort
  BY <1>2, <1>6 DEF Abort, ReturnError
<1>7. CASE BeginCreate \/ BeginUpdate \/ BeginPostCheck \/ BeginRemove
  BY <1>7 DEF BeginCreate, BeginUpdate, BeginPostCheck, BeginRemove, Begin, adminVars
<1>8. CASE WriteObjects
  BY <1>2, <1>8 DEF WriteObjects, GoTo
<1>9. CASE ObjectsWritten
  BY <1>1, <1>9 DEF StepsOfCalls, ObjectsWritten, Fail, ReturnError, ReturnNil, adminVars
<1>10. CASE Check
  BY <1>1, <1>10 DEF StepsOfCalls, Check, Fail, ReturnError, GoTo, PostCheckDone, ReturnNil,
                     adminVars
<1>11. CASE ApplyVerrazzano
  BY <1>2, <1>11 DEF ApplyVerrazzano, GoTo, adminVars
<1>12. CASE ApplyVMC
  BY <1>1, <1>12 DEF StepsOfCalls, ApplyVMC, Fail, ReturnError, PostCheckDone, ReturnNil
<1>13. CASE DeleteVMC
  BY <1>2, <1>13 DEF DeleteVMC, GoTo
<1>14. CASE DeleteVZ
  BY <1>1, <1>14 DEF StepsOfCalls, DeleteVZ, Fail, ReturnError, GoTo, PostCheckDone, ReturnNil,
                     adminVars
<1>15. CASE GetKubeconfig
  BY <1>1, <1>15 DEF StepsOfCalls, GetKubeconfig, Fail, ReturnError, GoTo, adminVars
<1>16. CASE DeleteCluster
  BY <1>1, <1>16 DEF StepsOfCalls, DeleteCluster, Fail, ReturnError, ReturnNil
<1> QED
  BY <1>3, <1>4, <1>5, <1>6, <1>7, <1>8, <1>9, <1>10, <1>11, <1>12, <1>13, <1>14, <1>15, <1>16
     DEF Next, DriverStep

\* A cluster whose last PostCheck succeeded with Verrazzano is registered under the
\* name it had then; no call takes the registration away before the engine has been
\* asked for something else: verrazzano.go 39-59 and 82-91.
THEOREM IdleIsRegistered == Spec => []RegisteredWhenIdle
<1>1. Init => Registered
  BY DEF Init, Registered, RegisteredWhenIdle
<1>2. Registered => RegisteredWhenIdle
  BY DEF Registered
<1> QED
  BY <1>1, <1>2, TypeCorrect, AlwaysOrderly, RegisteredStep, PTL DEF Spec
=============================================================================
