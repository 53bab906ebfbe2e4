-------------------------- MODULE CruObjectProofs ---------------------------
(***************************************************************************)
(* Optimistic concurrency in cruObject and createOrUpdateCAPISecret, for   *)
(* any number of calls, fields and values.  The inductive invariant is     *)
(* SnapshotCurrent: resource versions grow with every accepted write, so   *)
(* an object that still has the version a call was given is the object the *)
(* call was given.  From it follow that no update is lost and that the     *)
(* Get-then-write of a call is one atomic overlay (UpsertSpec).            *)
(***************************************************************************)
EXTENDS CruObject, TLAPS

\* The helpers that make data return data.
LEMMA DataClosed ==
  /\ Empty \in Data
  /\ \A d \in Data, f \in Fields, v \in Values : [d EXCEPT ![f] = v] \in Data
  /\ \A d1, d2 \in Data : Merge(d1, d2) \in Data
BY DEF Empty, Data, Merge

\* What a call sends back is data.
LEMMA UpdatedType == TypeOK => \A c \in Calls : Updated(c) \in Data
BY DataClosed, DesiredAssumption DEF TypeOK, Object, Updated, SecretData

\* An accepted write of data leaves an object and a resource version.
LEMMA StoreType ==
  ASSUME TypeOK, NEW data \in Data, Store(data)
  PROVE  obj' \in Object /\ rev' \in Nat
BY DEF TypeOK, Store, Object

-----------------------------------------------------------------------------
\* Every step keeps the types.
LEMMA TypeStep == TypeOK /\ [Next]_vars => TypeOK'
<1> SUFFICES ASSUME TypeOK, [Next]_vars PROVE TypeOK'
  OBVIOUS
<1> USE DEF TypeOK, Goto
<1>1. ASSUME NEW c \in Calls, Get(c) PROVE TypeOK'
  BY <1>1 DEF Get, Steps
<1>2. ASSUME NEW c \in Calls, Create(c) PROVE TypeOK'
  <2>1. obj' \in Object /\ rev' \in Nat
    BY <1>2, StoreType, DesiredAssumption DEF Create
  <2>2. pc' \in [Calls -> Steps] /\ UNCHANGED <<base, faults, other>>
    BY <1>2 DEF Create, Steps
  <2> QED
    BY <2>1, <2>2
<1>3. ASSUME NEW c \in Calls, CreateExists(c) PROVE TypeOK'
  BY <1>3 DEF CreateExists, Steps
<1>4. ASSUME NEW c \in Calls, Update(c) PROVE TypeOK'
  <2>1. obj' \in Object /\ rev' \in Nat
    BY <1>4, StoreType, UpdatedType DEF Update
  <2>2. pc' \in [Calls -> Steps] /\ UNCHANGED <<base, faults, other>>
    BY <1>4 DEF Update, Steps
  <2> QED
    BY <2>1, <2>2
<1>5. ASSUME NEW c \in Calls, UpdateRefused(c) PROVE TypeOK'
  BY <1>5 DEF UpdateRefused, Steps
<1>6. ASSUME NEW c \in Calls, RequestLost(c) PROVE TypeOK'
  <2>1. faults' \in 0..MaxFaults /\ pc' \in [Calls -> Steps] /\ UNCHANGED <<base, other>>
    BY <1>6, BoundsAssumption DEF RequestLost, Steps
  <2>2. obj' \in Object /\ rev' \in Nat
    <3>1. CASE UNCHANGED <<obj, rev>>
      BY <3>1
    <3>2. CASE Store(Desired[c])
      BY <3>2, StoreType, DesiredAssumption
    <3>3. CASE Store(Updated(c))
      BY <3>3, StoreType, UpdatedType
    <3> QED
      BY <1>6, <3>1, <3>2, <3>3 DEF RequestLost
  <2> QED
    BY <2>1, <2>2
<1>7. ASSUME NEW c \in Calls, Retry(c) PROVE TypeOK'
  BY <1>7 DEF Retry, Steps
<1>8. CASE OtherWrite
  <2>1. PICK f \in Fields, v \in Values : Store([obj.data EXCEPT ![f] = v])
    BY <1>8 DEF OtherWrite
  <2>2. [obj.data EXCEPT ![f] = v] \in Data
    BY DataClosed DEF Object
  <2> QED
    BY <1>8, <2>1, <2>2, StoreType, BoundsAssumption DEF OtherWrite
<1>9. CASE OtherDelete
  BY <1>9, DataClosed, BoundsAssumption DEF OtherDelete, Object
<1>10. CASE UNCHANGED vars
  BY <1>10 DEF vars
<1> QED
  BY <1>1, <1>2, <1>3, <1>4, <1>5, <1>6, <1>7, <1>8, <1>9, <1>10 DEF Next, CallStep

\* The state of the object and of the calls stays well typed: capi.go 75-173
\* for any calls, fields and values.
THEOREM TypeCorrect == Spec => []TypeOK
<1>1. Init => TypeOK
  BY DataClosed, BoundsAssumption DEF Init, TypeOK, Object, Steps
<1> QED
  BY <1>1, TypeStep, PTL DEF Spec

-----------------------------------------------------------------------------
\* An accepted write by anybody leaves no snapshot that is taken for current.
LEMMA WriteKeepsSnapshots ==
  ASSUME TypeOK, SnapshotCurrent, rev' = rev + 1, obj'.rv = rev + 1,
         obj'.live \/ obj'.data = Empty, UNCHANGED base
  PROVE  SnapshotCurrent'
<1>1. \A c \in Calls : base[c].rv <= rev /\ base[c].rv \in Nat /\ rev \in Nat
  BY DEF TypeOK, Object, SnapshotCurrent
<1>2. \A c \in Calls : base'[c].rv <= rev' /\ obj'.rv # base'[c].rv
  BY <1>1
<1>3. obj'.rv <= rev'
  BY DEF TypeOK
<1> QED
  BY <1>2, <1>3 DEF SnapshotCurrent, Empty

\* Every step keeps SnapshotCurrent.
LEMMA SnapshotStep == TypeOK /\ SnapshotCurrent /\ [Next]_vars => SnapshotCurrent'
<1> SUFFICES ASSUME TypeOK, SnapshotCurrent, [Next]_vars PROVE SnapshotCurrent'
  OBVIOUS
<1>1. ASSUME NEW c \in Calls, Get(c) PROVE SnapshotCurrent'
  BY <1>1 DEF Get, Goto, SnapshotCurrent, TypeOK, Object, Empty
<1>2. ASSUME NEW data, Store(data), UNCHANGED base PROVE SnapshotCurrent'
  BY <1>2, WriteKeepsSnapshots DEF Store
<1>3. ASSUME NEW c \in Calls, Goto(c, "failed") \/ Goto(c, "done") \/ Goto(c, "get"),
             UNCHANGED <<obj, rev, base>>
      PROVE SnapshotCurrent'
  BY <1>3 DEF Goto, SnapshotCurrent, TypeOK, Empty
<1>4. CASE OtherDelete
  BY <1>4, WriteKeepsSnapshots DEF OtherDelete
<1>5. CASE UNCHANGED vars
  BY <1>5 DEF vars, SnapshotCurrent, Empty
<1>6. ASSUME NEW c \in Calls, Create(c) \/ Update(c) PROVE SnapshotCurrent'
  BY <1>6, <1>2 DEF Create, Update
<1>7. ASSUME NEW c \in Calls, CreateExists(c) \/ UpdateRefused(c) \/ Retry(c)
      PROVE SnapshotCurrent'
  BY <1>7, <1>3 DEF CreateExists, UpdateRefused, Retry
<1>8. ASSUME NEW c \in Calls, RequestLost(c) PROVE SnapshotCurrent'
  BY <1>8, <1>2, <1>3 DEF RequestLost
<1>9. CASE OtherWrite
  BY <1>9, <1>2 DEF OtherWrite
<1> QED
  BY <1>1, <1>4, <1>5, <1>6, <1>7, <1>8, <1>9 DEF Next, CallStep

\* The object a call works on is the stored one, or the API server can tell:
\* the Update of cruObject (capi.go 155) carries the version of the Get (137).
LEMMA SnapshotsAreCurrent == Spec => []SnapshotCurrent
<1>1. Init => SnapshotCurrent
  BY DEF Init, SnapshotCurrent, Empty
<1> QED
  BY <1>1, TypeCorrect, SnapshotStep, PTL DEF Spec

-----------------------------------------------------------------------------
\* A write of a call lays its template over what the object holds now.
LEMMA CallWrites ==
  ASSUME TypeOK, SnapshotCurrent, NEW c \in Calls,
         \/ pc[c] = "create" /\ ~obj.live /\ Store(Desired[c])
         \/ pc[c] = "update" /\ Accepts(c) /\ Store(Updated(c))
  PROVE  /\ obj'.live
         /\ obj'.data = IF ~obj.live \/ Replaces
                        THEN Desired[c] ELSE Merge(obj.data, Desired[c])
         /\ ~obj.live => obj.data = Empty
BY DEF Store, Accepts, Updated, SecretData, SnapshotCurrent

\* For two data, neither of which sets f, a merge does not set or change it.
LEMMA MergeKeeps ==
  ASSUME NEW d1, NEW d2, NEW f \in Fields, d2[f] = NoValue
  PROVE  Merge(d1, d2)[f] = d1[f]
BY DEF Merge

\* A merge update never overwrites a field its template does not specify,
\* whoever wrote it since the Get: cruObject, capi.go 126-165.
THEOREM MergesLoseNothing == ~Replaces => (Spec => NoLostUpdate)
<1> SUFFICES ASSUME ~Replaces PROVE Spec => NoLostUpdate
  OBVIOUS
<1> DEFINE Keeps == \A c \in Calls : pc'[c] # pc[c] =>
       \A f \in Fields : Desired[c][f] = NoValue => obj'.data[f] = obj.data[f]
<1>1. ASSUME TypeOK, SnapshotCurrent, Next PROVE Keeps
  <2> SUFFICES ASSUME NEW c \in Calls, pc'[c] # pc[c], NEW f \in Fields,
                      Desired[c][f] = NoValue
               PROVE  obj'.data[f] = obj.data[f]
    OBVIOUS
  <2>1. CallStep(c)
    BY <1>1 DEF Next, CallStep, Get, Create, CreateExists, Update, UpdateRefused,
                RequestLost, Retry, Goto, OtherWrite, OtherDelete, TypeOK
  <2>2. CASE UNCHANGED obj
    BY <2>2
  <2>3. CASE \/ pc[c] = "create" /\ ~obj.live /\ Store(Desired[c])
             \/ pc[c] = "update" /\ Accepts(c) /\ Store(Updated(c))
    BY <1>1, <2>3, CallWrites, MergeKeeps DEF Empty
  <2> QED
    BY <2>1, <2>2, <2>3 DEF CallStep, Get, Create, CreateExists, Update,
                            UpdateRefused, RequestLost, Retry
<1>2. TypeOK /\ SnapshotCurrent /\ [Next]_vars => [Keeps]_vars
  BY <1>1
<1> QED
  BY <1>2, TypeCorrect, SnapshotsAreCurrent, PTL DEF Spec, NoLostUpdate

-----------------------------------------------------------------------------
\* A call that succeeds has stored its whole template, over whatever the object
\* held then: createOrUpdateCAPISecret, capi.go 75-124.  Only for the secret, which
\* does not take an object that somebody else has created for its own.
THEOREM SecretsAreApplied == Replaces => (Spec => SuccessMeansApplied)
<1> SUFFICES ASSUME Replaces PROVE Spec => SuccessMeansApplied
  OBVIOUS
<1> DEFINE Applied == \A c \in Calls : pc[c] # "done" /\ pc'[c] = "done" =>
       \A f \in Fields : Desired[c][f] # NoValue => obj'.data[f] = Desired[c][f]
<1>1. ASSUME TypeOK, SnapshotCurrent, Next PROVE Applied
  <2> SUFFICES ASSUME NEW c \in Calls, pc[c] # "done", pc'[c] = "done"
               PROVE  obj'.data = Desired[c]
    OBVIOUS
  <2>1. CallStep(c)
    BY <1>1 DEF Next, CallStep, Get, Create, CreateExists, Update, UpdateRefused,
                RequestLost, Retry, Goto, OtherWrite, OtherDelete, TypeOK
  <2>2. Create(c) \/ Update(c)
    BY <1>1, <2>1 DEF CallStep, Get, CreateExists, UpdateRefused, RequestLost, Retry,
                Goto, TypeOK
  <2> QED
    BY <1>1, <2>2, CallWrites DEF Create, Update
<1>2. TypeOK /\ SnapshotCurrent /\ [Next]_vars => [Applied]_vars
  BY <1>1
<1> QED
  BY <1>2, TypeCorrect, SnapshotsAreCurrent, PTL DEF Spec, SuccessMeansApplied

-----------------------------------------------------------------------------
\* Every step of the requests is a step of the one-step "create or update", or
\* changes nothing it can see.
LEMMA RefinementStep ==
  TypeOK /\ SnapshotCurrent /\ [Next]_vars => [Upsert!Next]_(Upsert!vars)
<1> SUFFICES ASSUME TypeOK, SnapshotCurrent, [Next]_vars
             PROVE  [Upsert!Next]_(Upsert!vars)
  OBVIOUS
<1> DEFINE StatusOf(p) == [c \in Calls |-> IF p[c] = "done" THEN "ok" ELSE "pending"]
<1>1. ASSUME NEW c \in Calls, pc[c] # "done", Goto(c, "done")
      PROVE  StatusOf(pc') = [StatusOf(pc) EXCEPT ![c] = "ok"]
  BY <1>1 DEF Goto, TypeOK
<1>2. ASSUME NEW c \in Calls, NEW s \in Steps \ {"done"}, pc[c] # "done", Goto(c, s)
      PROVE  StatusOf(pc') = StatusOf(pc)
  BY <1>2 DEF Goto, TypeOK
<1>3. ASSUME NEW c \in Calls, pc[c] # "done", Goto(c, "done") \/ Goto(c, "failed"),
             \/ pc[c] = "create" /\ ~obj.live /\ Store(Desired[c])
             \/ pc[c] = "update" /\ Accepts(c) /\ Store(Updated(c))
      PROVE  Upsert!Upsert(c)
  <2>1. /\ obj'.live = TRUE
        /\ obj'.data = IF obj.live THEN Upsert!Result(c, obj.data) ELSE Desired[c]
    BY <1>3, CallWrites, ReplacesAssumption
       DEF Merge, Upsert!Result, Upsert!Overlay, Store, Accepts, Updated, SecretData
  <2>2. \/ StatusOf(pc') = [StatusOf(pc) EXCEPT ![c] = "ok"]
        \/ StatusOf(pc') = StatusOf(pc)
    BY <1>1, <1>2, <1>3 DEF Steps
  <2>3. StatusOf(pc)[c] = "pending"
    BY <1>3
  <2> QED
    BY <2>1, <2>2, <2>3 DEF Upsert!Upsert
<1>4. ASSUME NEW c \in Calls, Get(c) \/ UpdateRefused(c) \/ Retry(c)
      PROVE  UNCHANGED Upsert!vars
  <2>1. UNCHANGED obj /\ pc[c] # "done"
    BY <1>4 DEF Get, UpdateRefused, Retry
  <2>2. StatusOf(pc') = StatusOf(pc)
    BY <1>4, <1>2 DEF Get, UpdateRefused, Retry, Steps
  <2> QED
    BY <2>1, <2>2 DEF Upsert!vars
<1>5. ASSUME NEW c \in Calls, Create(c) \/ Update(c) PROVE Upsert!Upsert(c)
  BY <1>5, <1>3 DEF Create, Update
<1>6. ASSUME NEW c \in Calls, CreateExists(c)
      PROVE  Upsert!GiveWay(c) \/ UNCHANGED Upsert!vars
  <2>1. CASE Replaces
    BY <1>6, <1>2, <2>1 DEF CreateExists, Upsert!vars, Steps
  <2>2. CASE ~Replaces
    BY <1>6, <1>1, <2>2 DEF CreateExists, Upsert!GiveWay
  <2> QED
    BY <2>1, <2>2
<1>7. ASSUME NEW c \in Calls, RequestLost(c)
      PROVE  Upsert!Upsert(c) \/ UNCHANGED Upsert!vars
  <2>1. pc[c] # "done" /\ Goto(c, "failed")
    BY <1>7 DEF RequestLost
  <2>2. CASE UNCHANGED <<obj, rev>>
    BY <2>1, <2>2, <1>2 DEF Upsert!vars, Steps
  <2> QED
    BY <1>7, <2>1, <2>2, <1>3 DEF RequestLost
<1>8. CASE OtherWrite
  <2>1. PICK f \in Fields, v \in Values : Store([obj.data EXCEPT ![f] = v])
    BY <1>8 DEF OtherWrite
  <2> QED
    BY <1>8, <2>1 DEF OtherWrite, Store, Upsert!Next, Upsert!OtherWrite
<1>9. CASE OtherDelete
  BY <1>9 DEF OtherDelete, Upsert!Next, Upsert!OtherDelete, Upsert!Empty, Empty
<1>10. CASE UNCHANGED vars
  BY <1>10 DEF vars, Upsert!vars
<1> QED
  BY <1>4, <1>5, <1>6, <1>7, <1>8, <1>9, <1>10 DEF Next, CallStep, Upsert!Next

\* The Get, Create and Update requests of any number of calls, with conflicts,
\* lost answers and other writers, implement the one-step "create or update".
THEOREM CruImplementsUpsert == Spec => ImplementsUpsert
<1>1. Init => Upsert!Init
  BY DEF Init, Upsert!Init, Empty, Upsert!Empty
<1> QED
  BY <1>1, RefinementStep, TypeCorrect, SnapshotsAreCurrent, PTL
     DEF Spec, ImplementsUpsert, Upsert!Spec
=============================================================================
