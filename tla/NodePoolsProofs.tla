--------------------------- MODULE NodePoolsProofs ---------------------------
(***************************************************************************)
(* For any options, sizes and calls cut short, the size the driver reports *)
(* is what the machine deployments ask for, and scaling moves no pool to   *)
(* another template.  Neither is inductive: SizeReported says nothing of a *)
(* call under way nor of the machine deployments one by one, and the hash  *)
(* of a pool is only the same because the one stored is that of the parsed *)
(* pools.  Accounted says both.                                            *)
(***************************************************************************)
EXTENDS NodePools, Sums, TLAPS

\* Variables as they are between two calls of the setters.
Shape(x) ==
  /\ IsVariables(x)
  /\ x = [version |-> x.version, raw |-> x.raw, pools |-> x.pools, hash |-> x.hash]
  /\ x.raw \in Seq(Pool) /\ x.pools \in Seq(Pool)

\* The types, part by part, with what the Variables and the objects look like inside.
EngineType ==
  /\ wanted \in Options
  /\ dirty \in BOOLEAN /\ resized \in BOOLEAN
  /\ info = None \/ Shape(info)
  /\ edits \in 0..MaxEdits /\ resizes \in 0..MaxResizes /\ aborts \in 0..MaxAborts

CallType ==
  /\ pc \in {"none", "deployments", "templates", "gate", "delete"}
  /\ kind \in {"none", "create", "update", "resize", "version"}
  /\ IF pc = "none" THEN v = None /\ kind = "none" ELSE Shape(v)

DeploymentType ==
  /\ md = [p \in PoolNames |-> md[p]]
  /\ \A p \in PoolNames : md[p] # None =>
       md[p].exists /\ md[p].replicas \in Nat /\ md[p].template[1] = p

MachineType ==
  /\ machines = [p \in PoolNames |-> machines[p]]
  /\ \A p \in PoolNames : machines[p] # None => machines[p].exists /\ machines[p].from[1][1] = p

Shapes == EngineType /\ CallType /\ DeploymentType /\ MachineType

\* These are the types of the model.
LEMMA ShapesAreTypes == Shapes /\ cleaned \in BOOLEAN => TypeOK
BY DEF Shapes, EngineType, CallType, DeploymentType, MachineType, TypeOK, Shape

\* What a user may ask for makes Variables.
LEMMA FromOptions ==
  ASSUME NEW o \in Options, NEW old
  PROVE  LET x == SetUpdateValues(old, o) IN
         /\ Shape(x) /\ x.hash = NodePoolHash(x)
         /\ x.version = o.version /\ x.raw = o.pools /\ x.pools = o.pools
<1> DEFINE x == [version |-> o.version, raw |-> o.pools, pools |-> o.pools,
                 hash |-> NodePoolHash(o)]
<1>1. o \in [version : Nat, pools : Seq(Pool)]
  BY NodePoolsAssumption
<1>2. [version |-> o.version, pools |-> o.pools] = o
  BY <1>1
<1>3. x.version = o.version /\ x.raw = o.pools /\ x.pools = o.pools /\ x.hash = NodePoolHash(o)
  OBVIOUS
<1>4. DOMAIN x = {"version", "raw", "pools", "hash"}
  OBVIOUS
<1>5. NodePoolHash(x) = NodePoolHash(o)
  BY <1>3 DEF NodePoolHash
<1>6. IsVariables(x)
  BY <1>2, <1>3, <1>4 DEF IsVariables
<1> QED
  BY <1>1, <1>3, <1>5, <1>6 DEF Shape, SetUpdateValues

\* The hash reads the version and of each pool the name, the memory and the ocpus.
LEMMA SameText ==
  ASSUME NEW x, NEW y, x.version = y.version, DOMAIN x.pools = DOMAIN y.pools,
         \A i \in DOMAIN x.pools : /\ x.pools[i].name = y.pools[i].name
                                  /\ x.pools[i].memory = y.pools[i].memory
                                  /\ x.pools[i].ocpus = y.pools[i].ocpus
  PROVE  NodePoolHash(x) = NodePoolHash(y)
<1> DEFINE Text(q) == Spelling[q.name] \o NodeShape \o Digits(q.memory) \o Digits(q.ocpus)
<1>1. \A i \in DOMAIN x.pools : Text(x.pools[i]) = Text(y.pools[i])
  BY Zenon
<1>2. /\ NodePoolHash(x) = <<x.version, FlattenSeq([i \in DOMAIN x.pools |-> Text(x.pools[i])])>>
      /\ NodePoolHash(y) = <<y.version, FlattenSeq([i \in DOMAIN y.pools |-> Text(y.pools[i])])>>
  BY Zenon DEF NodePoolHash
<1> HIDE DEF Text
<1>3. [i \in DOMAIN x.pools |-> Text(x.pools[i])] = [i \in DOMAIN y.pools |-> Text(y.pools[i])]
  BY <1>1
<1> QED
  BY <1>2, <1>3, Zenon

\* SetClusterSize leaves everything of them alone but the size of a pool.
LEMMA Resized ==
  ASSUME NEW x, Shape(x), NEW count \in Nat
  PROVE  LET y == SetReplicas(x, count) IN
         /\ Shape(y)
         /\ x.hash = NodePoolHash(x) => y.hash = NodePoolHash(y)
<1>1. CASE x.pools = <<>>
  BY <1>1 DEF SetReplicas
<1>2. CASE x.pools # <<>>
  <2> DEFINE pools == [x.pools EXCEPT ![1] = [@ EXCEPT !.replicas = count]]
             y == [x EXCEPT !.pools = pools]
  <2>1. y = SetReplicas(x, count)
    BY <1>2 DEF SetReplicas
  <2>2. y = [version |-> x.version, raw |-> x.raw, pools |-> pools, hash |-> x.hash]
    <3> HIDE DEF pools
    <3>1. x = [version |-> x.version, raw |-> x.raw, pools |-> x.pools, hash |-> x.hash]
      BY DEF Shape
    <3> QED
      BY <3>1
  <2>3. /\ x.pools \in Seq(Pool) /\ 1 \in DOMAIN x.pools /\ x.pools[1] \in Pool
        /\ \A i \in DOMAIN x.pools : x.pools[i] \in Pool
    BY <1>2 DEF Shape
  <2>4. [x.pools[1] EXCEPT !.replicas = count] \in Pool
    BY <2>3 DEF Pool
  <2>5. pools \in Seq(Pool) /\ DOMAIN pools = DOMAIN x.pools
    BY <2>3, <2>4
  <2>6. \A i \in DOMAIN x.pools : /\ pools[i].name = x.pools[i].name
                                  /\ pools[i].memory = x.pools[i].memory
                                  /\ pools[i].ocpus = x.pools[i].ocpus
    BY <2>3 DEF Pool
  <2> HIDE DEF pools
  <2>8. Names(pools) = Names(x.pools)
    BY <2>5, <2>6 DEF Names
  <2>9. DOMAIN y = {"version", "raw", "pools", "hash"}
    BY <2>2
  <2>10. y.version = x.version /\ y.raw = x.raw /\ y.pools = pools /\ y.hash = x.hash
    BY <2>2
  <2> HIDE DEF y
  <2>11. NodePoolHash(x) = NodePoolHash(y)
    <3>1. x.version = y.version /\ DOMAIN x.pools = DOMAIN y.pools
      BY <2>5, <2>10
    <3>2. \A i \in DOMAIN x.pools : /\ x.pools[i].name = y.pools[i].name
                                     /\ x.pools[i].memory = y.pools[i].memory
                                     /\ x.pools[i].ocpus = y.pools[i].ocpus
      BY <2>6, <2>10
    <3> QED
      BY <3>1, <3>2, SameText, Zenon
  <2>12. IsVariables(y)
    BY <2>8, <2>9, <2>10 DEF IsVariables, Shape
  <2>13. Shape(y)
    BY <2>2, <2>5, <2>10, <2>12 DEF Shape
  <2> QED
    BY <2>1, <2>10, <2>11, <2>13
<1> QED
  BY <1>1, <1>2

\* Variables are not missing.
LEMMA Present == \A x : Shape(x) => x # None
<1> SUFFICES ASSUME NEW x, Shape(x) PROVE x # None
  OBVIOUS
<1>1. DOMAIN x = {"version", "raw", "pools", "hash"}
  BY DEF Shape, IsVariables
<1>2. DOMAIN None = {"exists"}
  BY DEF None
<1> QED
  BY <1>1, <1>2

\* A name that is given has a last pool.
LEMMA LastExists ==
  ASSUME NEW pools \in Seq(Pool), NEW p \in Names(pools)
  PROVE  \E i \in DOMAIN pools : IsLast(pools, p, i)
<1> DEFINE upTo(n) == {i \in DOMAIN pools : i <= n /\ pools[i].name = p}
           S == {n \in Nat : upTo(n) # {} =>
                   \E i \in upTo(n) : \A j \in upTo(n) : j <= i}
<1>1. \A i \in DOMAIN pools : i \in Nat /\ 1 <= i /\ i <= Len(pools)
  OBVIOUS
<1>2. 0 \in S
  BY <1>1
<1>3. ASSUME NEW n \in Nat, n \in S PROVE n + 1 \in S
  <2>1. CASE n + 1 \in upTo(n + 1)
    BY <1>1, <2>1
  <2>2. CASE n + 1 \notin upTo(n + 1)
    <3>1. upTo(n + 1) = upTo(n)
      BY <1>1, <2>2
    <3> QED
      BY <1>3, <3>1
  <2> QED
    BY <2>1, <2>2
<1> HIDE DEF S
<1>4. Len(pools) \in S
  BY <1>2, <1>3, NatSetInduction
<1>5. upTo(Len(pools)) # {}
  BY <1>1 DEF Names
<1>6. PICK i \in upTo(Len(pools)) : \A j \in upTo(Len(pools)) : j <= i
  BY <1>4, <1>5 DEF S
<1> QED
  BY <1>1, <1>6 DEF IsLast

\* The pool of a name.
LEMMA PoolOfName ==
  ASSUME NEW pools \in Seq(Pool)
  PROVE  \A p \in Names(pools) : /\ PoolNamed(pools, p) \in Pool /\ p \in PoolNames
                                 /\ \E i \in DOMAIN pools : /\ IsLast(pools, p, i)
                                                           /\ PoolNamed(pools, p) = pools[i]
<1> SUFFICES ASSUME NEW p \in Names(pools)
             PROVE  /\ PoolNamed(pools, p) \in Pool /\ p \in PoolNames
                    /\ \E i \in DOMAIN pools : /\ IsLast(pools, p, i)
                                              /\ PoolNamed(pools, p) = pools[i]
  OBVIOUS
<1> DEFINE last == CHOOSE i \in DOMAIN pools : IsLast(pools, p, i)
<1>1. last \in DOMAIN pools /\ IsLast(pools, p, last)
  BY LastExists
<1>2. PoolNamed(pools, p) = pools[last]
  BY DEF PoolNamed
<1> HIDE DEF last
<1>3. pools[last] \in Pool /\ pools[last].name = p
  BY <1>1 DEF IsLast
<1> QED
  BY <1>1, <1>2, <1>3 DEF Pool

\* A deployment that is missing does not exist.
LEMMA NoneExists == None.exists = FALSE
BY DEF None

-----------------------------------------------------------------------------
\* A call ends, with nil or with an error.
LEMMA ReturnType ==
  ASSUME Shapes, pc # "none", ReturnNil \/ ReturnError
  PROVE  EngineType' /\ CallType'
<1>1. CallType'
  BY DEF ReturnNil, ReturnError, CallOver, CallType
<1>2. CASE ReturnNil
  <2>1. Shape(v) /\ (wanted # [version |-> v.version, pools |-> v.raw]) \in BOOLEAN
    BY DEF Shapes, CallType
  <2>2. info' = info \/ info' = v
    BY <1>2 DEF ReturnNil
  <2>3. info' = None \/ Shape(info')
    BY <2>1, <2>2 DEF Shapes, EngineType
  <2>4. dirty' \in BOOLEAN /\ resized' \in BOOLEAN
    BY <1>2, <2>1 DEF ReturnNil, Shapes, EngineType
  <2> QED
    BY <1>1, <1>2, <2>3, <2>4 DEF ReturnNil, Shapes, EngineType
<1>3. CASE ReturnError
  BY <1>1, <1>3 DEF ReturnError, engineVars, Shapes, EngineType
<1> QED
  BY <1>2, <1>3

\* A call goes on.
LEMMA GoToType ==
  ASSUME Shapes, pc # "none", NEW step \in {"templates", "gate", "delete"}, GoTo(step)
  PROVE  EngineType' /\ CallType'
BY DEF GoTo, engineVars, Shapes, EngineType, CallType

\* A call starts.
LEMMA BeginType ==
  ASSUME NEW name \in {"create", "update", "resize", "version"},
         NEW x, Shape(x), Begin(name, x)
  PROVE  CallType'
BY DEF Begin, CallType

\* Every step keeps the types.
LEMMA ShapesStep == Shapes /\ [Next]_vars => Shapes'
<1> SUFFICES ASSUME Shapes, [Next]_vars PROVE Shapes'
  OBVIOUS
<1> USE DEF Shapes
<1>1. ASSUME UNCHANGED callVars PROVE CallType'
  BY <1>1 DEF callVars, CallType
<1>2. ASSUME UNCHANGED md PROVE DeploymentType'
  BY <1>2 DEF DeploymentType
<1>3. ASSUME UNCHANGED machines PROVE MachineType'
  BY <1>3 DEF MachineType
<1>4. ASSUME UNCHANGED engineVars PROVE EngineType'
  BY <1>4 DEF engineVars, EngineType
<1>5. CASE Edit
  <2>1. EngineType'
    BY <1>5, NodePoolsAssumption DEF Edit, EngineType
  <2> QED
    BY <1>1, <1>2, <1>3, <1>5, <2>1 DEF Edit, objectVars
<1>6. CASE BeginUpdate
  <2> DEFINE x == SetUpdateValues(info, wanted)
  <2>1. Shape(x)
    BY FromOptions DEF EngineType
  <2>2. PICK name \in {"create", "update"} : Begin(name, x)
    BY <1>6 DEF BeginUpdate
  <2> HIDE DEF x
  <2>3. CallType'
    BY <2>1, <2>2, BeginType
  <2> QED
    BY <1>2, <1>3, <1>4, <1>6, <2>2, <2>3 DEF BeginUpdate, Begin, objectVars
<1>7. CASE BeginSetClusterSize
  <2>1. PICK count \in Sizes : Begin("resize", SetReplicas(info, count))
    BY <1>7 DEF BeginSetClusterSize
  <2>2. Shape(SetReplicas(info, count))
    BY <1>7, Resized, NodePoolsAssumption DEF BeginSetClusterSize, EngineType
  <2>3. CallType'
    BY <2>1, <2>2, BeginType
  <2>4. EngineType'
    BY <1>7, NodePoolsAssumption DEF BeginSetClusterSize, EngineType
  <2> QED
    BY <1>2, <1>3, <2>1, <2>3, <2>4 DEF Begin, objectVars
<1>8. CASE BeginSetVersion
  <2>1. Begin("version", info) /\ Shape(info)
    BY <1>8 DEF BeginSetVersion, EngineType
  <2>2. CallType'
    BY <2>1, BeginType
  <2>3. EngineType'
    BY <1>8, NodePoolsAssumption DEF BeginSetVersion, EngineType
  <2> QED
    BY <1>2, <1>3, <2>1, <2>2, <2>3 DEF Begin, objectVars
<1>9. CASE WriteDeployments
  <2>1. EngineType' /\ CallType'
    BY <1>9, GoToType DEF WriteDeployments
  <2>2. DeploymentType'
    <3>1. \A p \in Names(v.pools) : PoolNamed(v.pools, p).replicas \in Nat
      <4>1. v.pools \in Seq(Pool)
        BY <1>9 DEF WriteDeployments, CallType, Shape
      <4> QED
        BY <4>1, PoolOfName DEF Pool
    <3>2. md' = [p \in PoolNames |->
                   IF p \in Names(v.pools)
                   THEN [exists |-> TRUE, replicas |-> PoolNamed(v.pools, p).replicas,
                         template |-> <<p, v.hash>>, version |-> v.version]
                   ELSE md[p]]
      BY <1>9 DEF WriteDeployments
    <3>3. ASSUME NEW p \in PoolNames, md'[p] # None
          PROVE  md'[p].exists /\ md'[p].replicas \in Nat /\ md'[p].template[1] = p
      BY <3>1, <3>2, <3>3 DEF DeploymentType
    <3>4. md' = [p \in PoolNames |-> md'[p]]
      BY <3>2
    <3> QED
      BY <3>3, <3>4 DEF DeploymentType
  <2> QED
    BY <1>3, <1>9, <2>1, <2>2 DEF WriteDeployments
<1>10. CASE WriteTemplates
  <2>1. EngineType' /\ CallType'
    BY <1>10, GoToType, ReturnType DEF WriteTemplates
  <2> QED
    BY <1>2, <1>3, <1>10, <2>1 DEF WriteTemplates
<1>11. CASE Gate
  <2>1. EngineType' /\ CallType'
    BY <1>11, GoToType, ReturnType DEF Gate
  <2> QED
    BY <1>2, <1>3, <1>11, <2>1 DEF Gate, objectVars
<1>12. CASE DeleteUnused
  <2>1. EngineType' /\ CallType'
    BY <1>12, ReturnType DEF DeleteUnused
  <2>2. DeploymentType'
    <3>1. \A p \in PoolNames : md'[p] = None \/ md'[p] = md[p]
      BY <1>12 DEF DeleteUnused
    <3>2. md' = [p \in PoolNames |-> md'[p]]
      BY <1>12 DEF DeleteUnused
    <3> QED
      BY <3>1, <3>2 DEF DeploymentType
  <2> QED
    BY <1>3, <1>12, <2>1, <2>2 DEF DeleteUnused
<1>13. CASE Abort
  <2>1. EngineType'
    BY <1>13, NodePoolsAssumption DEF Abort, EngineType
  <2>2. CallType'
    BY <1>13 DEF Abort, CallOver, CallType
  <2> QED
    BY <1>2, <1>3, <1>13, <2>1, <2>2 DEF Abort, objectVars
<1>14. ASSUME NEW p \in PoolNames, Roll(p) PROVE Shapes'
  <2>1. md[p].template[1] = p
    BY <1>14, NoneExists DEF Roll, Rolling, Deployed, DeploymentType
  <2> DEFINE new == [exists |-> TRUE, from |-> MadeFrom(p), machine |-> template[md[p].template]]
  <2>2. machines' = [machines EXCEPT ![p] = new]
    BY <1>14 DEF Roll
  <2>3. new.exists /\ new.from[1][1] = p
    BY <2>1 DEF MadeFrom
  <2> HIDE DEF new
  <2>4. MachineType'
    BY <2>2, <2>3 DEF MachineType
  <2> QED
    BY <1>1, <1>2, <1>4, <1>14, <2>4 DEF Roll, objectVars
<1>15. ASSUME NEW p \in PoolNames, Drain(p) PROVE Shapes'
  <2>1. MachineType'
    BY <1>15 DEF Drain, MachineType
  <2> QED
    BY <1>1, <1>2, <1>4, <1>15, <2>1 DEF Drain, objectVars
<1>16. CASE UNCHANGED vars
  BY <1>1, <1>2, <1>3, <1>4, <1>16 DEF vars, objectVars
<1> QED
  BY <1>5, <1>6, <1>7, <1>8, <1>9, <1>10, <1>11, <1>12, <1>13, <1>14, <1>15, <1>16
     DEF Next, CallStep

\* The shapes of the state, for any options, sizes and calls cut short.
LEMMA AlwaysShapes == Spec => []Shapes
<1>1. ASSUME Init PROVE Shapes
  <2> USE <1>1 DEF Init
  <2>1. EngineType
    <3>1. edits \in 0..MaxEdits /\ resizes \in 0..MaxResizes /\ aborts \in 0..MaxAborts
      BY NodePoolsAssumption
    <3>2. dirty \in BOOLEAN /\ resized \in BOOLEAN
      BY Zenon
    <3> QED
      BY <3>1, <3>2 DEF EngineType
  <2>2. CallType
    BY DEF CallType
  <2>3. DeploymentType
    BY DEF DeploymentType
  <2>4. MachineType
    BY DEF MachineType
  <2> QED
    BY <2>1, <2>2, <2>3, <2>4 DEF Shapes
<1> QED
  BY <1>1, ShapesStep, PTL DEF Spec

\* Types, for any options, sizes and calls cut short.
THEOREM TypeCorrect == Spec => []TypeOK
<1>1. Init => cleaned \in BOOLEAN
  BY Zenon DEF Init
<1>2. cleaned \in BOOLEAN /\ [Next]_vars => (cleaned \in BOOLEAN)'
  BY DEF Next, Edit, BeginUpdate, BeginSetClusterSize, BeginSetVersion, Begin, CallStep,
         WriteDeployments, WriteTemplates, Gate, DeleteUnused, Abort, Roll, Drain,
         vars, objectVars
<1> QED
  BY <1>1, <1>2, AlwaysShapes, ShapesAreTypes, PTL DEF Spec

-----------------------------------------------------------------------------
\* A call that is over says nothing of its kind any more.
LEMMA OverOfItsKind == CallOver => CallOfItsKind' /\ v' = None
BY DEF CallOver, CallOfItsKind

\* The deployments a call has written ask for its pools.
LEMMA WriteAsks ==
  ASSUME Shapes, WriteDeployments
  PROVE  /\ Asks(v.pools)'
         /\ Deployed' = Deployed \union Names(v.pools)
<1>1. v.pools \in Seq(Pool) /\ v' = v /\ pc = "deployments"
  BY DEF WriteDeployments, GoTo, Shapes, CallType, Shape
<1>2. Names(v.pools) \subseteq PoolNames
  BY <1>1, PoolOfName
<1>3. /\ \A p \in PoolNames \ Names(v.pools) : md'[p] = md[p]
      /\ \A p \in Names(v.pools) :
           md'[p].exists = TRUE /\ md'[p].replicas = PoolNamed(v.pools, p).replicas
  BY <1>2 DEF WriteDeployments
<1>5. Asks(v.pools)'
  BY <1>1, <1>3 DEF Asks
<1>6. \A p \in PoolNames : p \in Deployed' <=> p \in Deployed \union Names(v.pools)
  BY <1>3 DEF Deployed
<1> QED
  BY <1>2, <1>5, <1>6 DEF Deployed

\* A call that has nothing to clean up deletes nothing; one that has leaves its pools.
LEMMA DeleteAsks ==
  ASSUME Shapes, DeleteUnused, Asks(v.pools)
  PROVE  /\ \A pools : Names(pools) \subseteq Names(v.pools) /\ Asks(pools) => Asks(pools)'
         /\ Deployed' = Names(v.pools)
<1>1. v.pools \in Seq(Pool)
  BY DEF DeleteUnused, Shapes, CallType, Shape
<1>2. Names(v.pools) \subseteq Deployed
  BY <1>1, PoolOfName DEF Asks, Deployed
<1>3. \A p \in PoolNames : md'[p] = IF p \in Deployed \ Names(v.pools) THEN None ELSE md[p]
  BY DEF DeleteUnused
<1>4. ASSUME NEW pools, Names(pools) \subseteq Names(v.pools), Asks(pools) PROVE Asks(pools)'
  <2>1. \A p \in Names(v.pools) : md'[p] = md[p]
    BY <1>2, <1>3 DEF Deployed
  <2> QED
    BY <1>4, <2>1 DEF Asks
<1>5. \A p \in PoolNames : p \in Deployed' <=> p \in Names(v.pools)
  BY <1>2, <1>3, NoneExists DEF Deployed
<1> QED
  BY <1>2, <1>4, <1>5 DEF Deployed

\* Every step keeps the account of the machine deployments.
LEMMA AccountedStep == Shapes /\ Accounted /\ [Next]_vars => Accounted'
<1> SUFFICES ASSUME Shapes, Accounted, [Next]_vars PROVE Accounted'
  OBVIOUS
<1> DEFINE NotCreate == pc \in {"gate", "delete"} => kind # "create"
           Early == info = None => ~cleaned
           Written == pc \in {"templates", "gate", "delete"} => Asks(v.pools)
           Settled == info # None /\ ~dirty /\ ~resized
                        => Asks(info.raw) /\ (cleaned => Deployed = Names(info.raw))
<1>1. CallOfItsKind /\ Hashed /\ NotCreate /\ Early /\ Written /\ Settled
  BY DEF Accounted
<1>2. ASSUME UNCHANGED md
      PROVE  Deployed' = Deployed /\ \A pools : Asks(pools)' <=> Asks(pools)
  BY <1>2 DEF Deployed, Asks
<1>3. ASSUME UNCHANGED <<engineVars, callVars, md, cleaned>> PROVE Accounted'
  BY <1>3 DEF Accounted, CallOfItsKind, Hashed, Asks, Deployed, engineVars, callVars
<1>4. ASSUME CallOfItsKind', Hashed', NotCreate', Early', Written', Settled' PROVE Accounted'
  BY <1>4 DEF Accounted
<1>5. CASE Edit
  <2>1. dirty' = TRUE /\ UNCHANGED <<info, pc, kind, v, md, resized>>
    BY <1>5 DEF Edit, callVars, objectVars
  <2>2. CallOfItsKind' /\ Hashed'
    BY <1>1, <2>1 DEF CallOfItsKind, Hashed
  <2>3. NotCreate' /\ Early' /\ Written'
    BY <1>1, <1>5, <2>1 DEF Asks, Edit, objectVars
  <2> QED
    BY <1>4, <2>1, <2>2, <2>3
<1>6. CASE BeginUpdate
  <2> DEFINE x == SetUpdateValues(info, wanted)
  <2>1. x.raw = wanted.pools /\ x.pools = x.raw /\ x.hash = NodePoolHash(x)
    BY FromOptions DEF Shapes, EngineType
  <2>2. /\ dirty /\ pc' = "deployments" /\ v' = x /\ UNCHANGED <<engineVars, md, cleaned>>
        /\ kind' = IF info = None THEN "create" ELSE "update"
    BY <1>6 DEF BeginUpdate, Begin, objectVars
  <2> HIDE DEF x
  <2>3. CallOfItsKind' /\ Hashed'
    BY <1>1, <2>1, <2>2 DEF CallOfItsKind, Hashed, engineVars
  <2>4. NotCreate' /\ Early' /\ Settled'
    BY <1>1, <1>2, <2>2 DEF engineVars, Asks
  <2> QED
    BY <1>4, <2>2, <2>3, <2>4
<1>7. CASE BeginSetClusterSize
  <2>1. PICK count \in Sizes : Begin("resize", SetReplicas(info, count))
    BY <1>7 DEF BeginSetClusterSize
  <2> DEFINE x == SetReplicas(info, count)
  <2>2. /\ info # None /\ pc' = "deployments" /\ v' = x /\ kind' = "resize" /\ resized' = TRUE
        /\ UNCHANGED <<info, md>>
    BY <1>7, <2>1 DEF BeginSetClusterSize, Begin, objectVars
  <2>3. x.hash = NodePoolHash(x)
    BY <1>1, <2>2, Resized, NodePoolsAssumption DEF Hashed, Shapes, EngineType
  <2> HIDE DEF x
  <2>4. CallOfItsKind' /\ Hashed'
    BY <1>1, <2>2, <2>3 DEF CallOfItsKind, Hashed
  <2> QED
    BY <1>4, <2>2, <2>4
<1>8. CASE BeginSetVersion
  <2>1. /\ info # None /\ pc' = "deployments" /\ v' = info /\ kind' = "version"
        /\ UNCHANGED <<info, md, cleaned, dirty, resized>>
    BY <1>8 DEF BeginSetVersion, Begin, objectVars
  <2>2. CallOfItsKind' /\ Hashed'
    BY <1>1, <2>1 DEF CallOfItsKind, Hashed
  <2>3. Settled'
    BY <1>1, <2>1 DEF Asks, Deployed
  <2> QED
    BY <1>4, <2>1, <2>2, <2>3
<1>9. CASE WriteDeployments
  <2>1. /\ pc = "deployments" /\ pc' = "templates"
        /\ UNCHANGED <<kind, v, wanted, info, cleaned, dirty, resized>>
    BY <1>9 DEF WriteDeployments, GoTo, engineVars
  <2>2. Asks(v.pools)' /\ Deployed' = Deployed \union Names(v.pools)
    BY <1>9, WriteAsks
  <2>3. CallOfItsKind' /\ Hashed'
    BY <1>1, <2>1 DEF CallOfItsKind, Hashed
  <2>4. NotCreate' /\ Early'
    BY <1>1, <2>1
  <2>5. Settled'
    <3> SUFFICES ASSUME info # None, ~dirty, ~resized
                 PROVE  Asks(info.raw)' /\ (cleaned => Deployed' = Names(info.raw))
      BY <2>1
    <3>1. kind = "version"
      BY <1>1, <2>1 DEF CallOfItsKind, Shapes, CallType
    <3>2. v = info /\ v.pools = info.raw
      BY <1>1, <3>1 DEF CallOfItsKind, Hashed
    <3> QED
      BY <1>1, <2>1, <2>2, <3>2 DEF Asks
  <2> QED
    BY <1>4, <2>1, <2>2, <2>3, <2>4, <2>5
<1>10. ASSUME GoTo("gate") \/ GoTo("delete"), pc \in {"templates", "gate"},
              kind # "create", UNCHANGED <<md, cleaned>>
       PROVE  Accounted'
  <2>1. /\ pc' \in {"gate", "delete"}
        /\ UNCHANGED <<kind, v, wanted, info, dirty, resized>>
    BY <1>10 DEF GoTo, engineVars
  <2>2. CallOfItsKind' /\ Hashed'
    BY <1>1, <1>10, <2>1 DEF CallOfItsKind, Hashed
  <2>3. NotCreate' /\ Early' /\ Written' /\ Settled'
    BY <1>1, <1>10, <2>1 DEF Asks, Deployed
  <2> QED
    BY <1>4, <2>2, <2>3
<1>11. ASSUME CallOver, UNCHANGED <<wanted, info, dirty, resized, md, cleaned>> PROVE Accounted'
  <2>1. CallOfItsKind' /\ v' = None /\ pc' = "none"
    BY <1>11, OverOfItsKind DEF CallOver
  <2>2. Hashed'
    BY <1>1, <1>11, <2>1 DEF Hashed
  <2>3. NotCreate' /\ Early' /\ Settled'
    BY <1>1, <1>11, <2>1 DEF Asks, Deployed
  <2> QED
    BY <1>4, <2>1, <2>2, <2>3
<1>12. ASSUME ReturnNil, kind \in {"create", "update"},
              NEW pools, pools = v.pools, Asks(pools)', cleaned' => Deployed' = Names(pools), Shape(v)
       PROVE  Accounted'
  <2>1. CallOfItsKind' /\ v' = None /\ pc' = "none"
    BY <1>12, OverOfItsKind DEF ReturnNil, CallOver
  <2>2. info' = v /\ v.pools = v.raw /\ v # None
    BY <1>1, <1>12, Present DEF ReturnNil, CallOfItsKind
  <2>3. Hashed'
    BY <1>1, <2>1, <2>2 DEF Hashed
  <2>4. Settled'
    <3>1. info'.raw = pools
      BY <1>12, <2>2
    <3> QED
      BY <1>12, <3>1 DEF Asks
  <2> QED
    BY <1>4, <2>1, <2>2, <2>3, <2>4
<1>13. CASE WriteTemplates
  <2>1. pc = "templates" /\ UNCHANGED <<md, cleaned>> /\ Asks(v.pools) /\ Shape(v)
    BY <1>1, <1>13 DEF WriteTemplates, Shapes, CallType
  <2>2. CASE kind = "create"
    <3>1. ReturnNil
      BY <1>13, <2>2 DEF WriteTemplates
    <3>2. ~cleaned
      BY <1>1, <2>2 DEF CallOfItsKind
    <3>4. PICK pools : pools = v.pools
      OBVIOUS
    <3>5. Asks(pools)' /\ ~cleaned'
      BY <1>2, <2>1, <3>2, <3>4
    <3> QED
      BY <1>12, <2>1, <2>2, <3>1, <3>4, <3>5
  <2>3. CASE kind = "resize"
    BY <1>11, <1>13, <2>1, <2>3 DEF WriteTemplates, ReturnNil
  <2>4. CASE kind \notin {"create", "resize"}
    BY <1>10, <1>13, <2>1, <2>4 DEF WriteTemplates
  <2> QED
    BY <2>2, <2>3, <2>4
<1>14. CASE Gate
  <2>1. pc = "gate" /\ UNCHANGED <<md, cleaned>>
    BY <1>14 DEF Gate, objectVars
  <2>2. CASE GoTo("delete")
    BY <1>1, <1>10, <2>1, <2>2
  <2>3. CASE ReturnError
    BY <1>11, <2>1, <2>3 DEF ReturnError, engineVars
  <2> QED
    BY <1>14, <2>2, <2>3 DEF Gate
<1>15. CASE DeleteUnused
  <2>1. pc = "delete" /\ ReturnNil /\ Asks(v.pools) /\ Shape(v)
    BY <1>1, <1>15 DEF DeleteUnused, Shapes, CallType
  <2>2. /\ \A pools : Names(pools) \subseteq Names(v.pools) /\ Asks(pools) => Asks(pools)'
        /\ Deployed' = Names(v.pools)
    BY <1>15, <2>1, DeleteAsks
  <2>3. CASE kind \in {"create", "update"}
    <3>1. PICK pools : pools = v.pools
      OBVIOUS
    <3>2. Asks(pools)' /\ Deployed' = Names(pools)
      BY <2>1, <2>2, <3>1
    <3> QED
      BY <1>12, <2>1, <2>3, <3>1, <3>2
  <2>4. CASE kind \notin {"create", "update"}
    <3>1. /\ info # None /\ CallOver
          /\ UNCHANGED <<wanted, info, dirty, resized>>
      BY <1>1, <2>1, <2>4 DEF ReturnNil, CallOfItsKind
    <3>2. CallOfItsKind' /\ v' = None /\ pc' = "none"
      BY <3>1, OverOfItsKind DEF CallOver
    <3>3. Hashed'
      BY <1>1, <3>1, <3>2 DEF Hashed
    <3>4. Settled'
      <4> SUFFICES ASSUME ~dirty, ~resized
                   PROVE  Asks(info.raw)' /\ Deployed' = Names(info.raw)
        BY <3>1
      <4>1. kind = "version"
        BY <1>1, <2>1, <2>4 DEF CallOfItsKind, Shapes, CallType
      <4>2. v = info /\ v.pools = info.raw
        BY <1>1, <3>1, <4>1 DEF CallOfItsKind, Hashed
      <4> QED
        BY <2>1, <2>2, <3>1, <4>2 DEF Asks
    <3> QED
      BY <1>4, <3>1, <3>2, <3>3, <3>4
  <2> QED
    BY <2>3, <2>4
<1>16. CASE Abort
  BY <1>11, <1>16 DEF Abort, objectVars
<1>17. ASSUME NEW p \in PoolNames, Roll(p) \/ Drain(p) PROVE Accounted'
  BY <1>3, <1>17 DEF Roll, Drain, objectVars
<1>18. CASE UNCHANGED vars
  BY <1>3, <1>18 DEF vars, objectVars
<1> QED
  BY <1>5, <1>6, <1>7, <1>8, <1>9, <1>13, <1>14, <1>15, <1>16, <1>17, <1>18
     DEF Next, CallStep

\* The account of the machine deployments holds, for any options and calls cut short.
THEOREM AlwaysAccounted == Spec => []Accounted
<1>1. Init => Accounted
  <2>1. Init => \A p \in PoolNames : md[p].exists = FALSE
    BY NoneExists DEF Init
  <2> QED
    BY <2>1 DEF Init, Accounted, CallOfItsKind, Hashed, Deployed
<1> QED
  BY <1>1, AlwaysShapes, AccountedStep, PTL DEF Spec

\* The sizes of pools that go by different names are what the machine deployments of
\* those names ask for.
LEMMA SumOfAsked ==
  ASSUME NEW raw \in Seq(Pool), DistinctNames(raw), Asks(raw)
  PROVE  WorkerCount(raw) = MachinesAsked(Names(raw))
<1> DEFINE A == DOMAIN raw
           B == Names(raw)
           f == [i \in DOMAIN raw |-> raw[i].replicas]
           g == [p \in Names(raw) |-> md[p].replicas]
           h == [i \in DOMAIN raw |-> raw[i].name]
<1>1. WorkerCount(raw) = Total(f) /\ MachinesAsked(Names(raw)) = Total(g)
  BY DEF WorkerCount, MachinesAsked, Total
<1>2. \A i \in DOMAIN raw : raw[i] \in Pool
  OBVIOUS
<1>3. f \in [DOMAIN raw -> Nat]
  BY <1>2 DEF Pool
<1>4. h \in [DOMAIN raw -> Names(raw)] /\ \A p \in Names(raw) : \E i \in DOMAIN raw : h[i] = p
  BY DEF Names
<1>5. \A i, j \in DOMAIN raw : h[i] = h[j] => i = j
  BY DEF DistinctNames
<1>6. \A i \in DOMAIN raw : PoolNamed(raw, raw[i].name) = raw[i]
  <2> SUFFICES ASSUME NEW i \in DOMAIN raw PROVE PoolNamed(raw, raw[i].name) = raw[i]
    OBVIOUS
  <2>1. raw[i].name \in Names(raw)
    BY DEF Names
  <2>2. PICK j \in DOMAIN raw : IsLast(raw, raw[i].name, j) /\ PoolNamed(raw, raw[i].name) = raw[j]
    BY <2>1, PoolOfName
  <2>3. j = i
    BY <2>2 DEF IsLast, DistinctNames
  <2> QED
    BY <2>2, <2>3
<1>7. \A i \in DOMAIN raw : g[h[i]] = f[i]
  BY <1>4, <1>6 DEF Asks
<1>8. g \in [Names(raw) -> Nat]
  BY PoolOfName DEF Asks, Pool
<1>9. IsFiniteSet(DOMAIN raw)
  <2>1. DOMAIN raw = 1..Len(raw) /\ Len(raw) \in Nat
    OBVIOUS
  <2>2. 1 \in Int /\ Len(raw) \in Int
    BY <2>1
  <2>3. IsFiniteSet(1..Len(raw))
    BY <2>2, FS_Interval
  <2> QED
    BY <2>1, <2>3
<1>10. IsFiniteSet(Names(raw))
  BY <1>4, <1>9, FS_Surjection DEF ExistsSurjection, Surjection
<1>11. Total(f) = Total(g)
  <2>1. /\ IsFiniteSet(A) /\ IsFiniteSet(B)
        /\ f \in [A -> Nat] /\ g \in [B -> Nat] /\ h \in [A -> B]
        /\ \A x, y \in A : h[x] = h[y] => x = y
        /\ \A p \in B : \E x \in A : h[x] = p
        /\ \A x \in A : g[h[x]] = f[x]
    BY <1>3, <1>4, <1>5, <1>7, <1>8, <1>9, <1>10
  <2> HIDE DEF A, B, f, g, h
  <2> QED
    BY <2>1, SameSum
<1> QED
  BY <1>1, <1>11

\* The size that is reported is what the machine deployments of the reported pools ask
\* for, and there are no others once a call has cleaned up: variables.go 313-340, for any
\* options, with names given twice or not, and calls cut short.
THEOREM SizeAlwaysReported == Spec => []SizeReported
<1>1. ASSUME Shapes, Accounted PROVE SizeReported
  <2> SUFFICES ASSUME info # None, ~dirty, ~resized, DistinctNames(info.raw)
               PROVE  /\ WorkerCount(info.raw) = MachinesAsked(Names(info.raw))
                      /\ cleaned => Deployed = Names(info.raw)
    BY DEF SizeReported
  <2>1. /\ Asks(info.raw) /\ (cleaned => Deployed = Names(info.raw))
        /\ info.raw \in Seq(Pool)
    BY <1>1 DEF Accounted, Shapes, EngineType, Shape
  <2> QED
    BY <2>1, SumOfAsked
<1> QED
  BY <1>1, AlwaysShapes, AlwaysAccounted, PTL

\* Pools that differ in their size only have the same hash.
LEMMA SameHash ==
  ASSUME NEW x, NEW y, x.pools \in Seq(Pool), y.pools \in Seq(Pool), SameButReplicas(x, y)
  PROVE  NodePoolHash(x) = NodePoolHash(y)
<1>1. DOMAIN x.pools = DOMAIN y.pools /\ x.version = y.version
  BY DEF SameButReplicas
<1>2. ASSUME NEW i \in DOMAIN x.pools
      PROVE  /\ x.pools[i].name = y.pools[i].name
             /\ x.pools[i].memory = y.pools[i].memory
             /\ x.pools[i].ocpus = y.pools[i].ocpus
  <2> DEFINE a == x.pools[i]
             b == y.pools[i]
  <2>1. a \in Pool /\ b \in Pool
    BY <1>1
  <2>2. [a EXCEPT !.replicas = 0] = [b EXCEPT !.replicas = 0]
    BY DEF SameButReplicas
  <2> HIDE DEF a, b
  <2>3. a.name = b.name /\ a.memory = b.memory /\ a.ocpus = b.ocpus
    BY <2>1, <2>2 DEF Pool
  <2> QED
    BY <2>3 DEF a, b
<1> QED
  BY <1>1, <1>2, SameText

\* Scaling gives no pool another template.
THEOREM ScalingNeverMovesTemplates == Spec => ScalingKeepsTemplates
<1>1. ASSUME Shapes, Accounted, [Next]_vars, pc = "deployments", info # None, v # None,
             SameButReplicas(info, v), NEW p \in Deployed, md[p].template = <<p, info.hash>>
      PROVE  md'[p].template = md[p].template
  <2>1. v.hash = info.hash
    <3>1. Shape(info) /\ Shape(v)
      BY <1>1 DEF Shapes, EngineType, CallType
    <3>2. info.hash = NodePoolHash(info) /\ v.hash = NodePoolHash(v)
      BY <1>1 DEF Accounted, Hashed
    <3> QED
      BY <1>1, <3>1, <3>2, SameHash DEF Shape
  <2>2. CASE WriteDeployments
    BY <1>1, <2>1, <2>2 DEF WriteDeployments, Deployed
  <2>3. CASE UNCHANGED md
    BY <2>3
  <2>4. WriteDeployments \/ UNCHANGED md
    BY <1>1 DEF Next, Edit, BeginUpdate, BeginSetClusterSize, BeginSetVersion, Begin,
                CallStep, WriteTemplates, Gate, DeleteUnused, Abort, Roll, Drain,
                vars, objectVars
  <2> QED
    BY <2>2, <2>3, <2>4
<1>2. Shapes /\ Accounted /\ [Next]_vars =>
        (pc = "deployments" /\ info # None /\ v # None /\ SameButReplicas(info, v) =>
           \A p \in Deployed :
             md[p].template = <<p, info.hash>> => md'[p].template = md[p].template)
  BY <1>1
<1> QED
  BY <1>2, AlwaysShapes, AlwaysAccounted, PTL DEF Spec, ScalingKeepsTemplates
=============================================================================
