----------------------------- MODULE CruObject ------------------------------
(***************************************************************************)
(* How the driver brings one Kubernetes object to its desired state:       *)
(* cruObject and createIfNotExists in capi.go for the objects rendered     *)
(* from templates, and createOrUpdateCAPISecret for the credential secret. *)
(* Both are a Get followed by a Create or an Update, as separate requests  *)
(* to an API server that other calls and other controllers write to as     *)
(* well.  The API server numbers the writes (resource versions) and        *)
(* refuses an Update whose object is not the current one.                  *)
(***************************************************************************)
EXTENDS Naturals

CONSTANTS
  Calls,        \* calls under way: the gRPC server runs each on its goroutine
  Fields,       \* the leaf fields of the object, as paths
  Values,       \* the values a field may have
  NoValue,      \* the field is not there
  Desired,      \* Desired[c] is what call c renders
  Replaces,     \* TRUE: createOrUpdateCAPISecret, FALSE: cruObject
  MaxFaults,    \* bound: requests that fail in transit
  MaxOther      \* bound: writes of other controllers and users

Data == [Fields -> Values \union {NoValue}]
Empty == [f \in Fields |-> NoValue]

ASSUME DesiredAssumption == Desired \in [Calls -> Data]
ASSUME ValuesAssumption == NoValue \notin Values
ASSUME ReplacesAssumption == Replaces \in BOOLEAN
ASSUME BoundsAssumption == MaxFaults \in Nat /\ MaxOther \in Nat

VARIABLES
  obj,          \* the stored object: live, its resource version rv, its data
  rev,          \* the number of writes the API server has accepted
  pc,           \* pc[c]: the next request of call c
  base,         \* base[c]: the object call c got from the API server
  faults,       \* requests that have failed in transit
  other         \* writes other parties have made

vars == <<obj, rev, pc, base, faults, other>>

Object == [live : BOOLEAN, rv : Nat, data : Data]
Steps == {"get", "create", "update", "failed", "done"}

Init ==
  /\ obj = [live |-> FALSE, rv |-> 0, data |-> Empty]
  /\ rev = 0
  /\ pc = [c \in Calls |-> "get"]
  /\ base = [c \in Calls |-> [live |-> FALSE, rv |-> 0, data |-> Empty]]
  /\ faults = 0
  /\ other = 0

-----------------------------------------------------------------------------
(* The API server.                                                         *)

Goto(c, step) == pc' = [pc EXCEPT ![c] = step]

\* An accepted write: the object gets the next resource version.
Store(data) ==
  /\ rev' = rev + 1
  /\ obj' = [live |-> TRUE, rv |-> rev + 1, data |-> data]

\* mergeMaps with no locked field, on leaf paths.
Merge(m1, m2) == [f \in Fields |-> IF m2[f] = NoValue THEN m1[f] ELSE m2[f]]

\* createOrUpdateCAPISecret puts the credentials where the old ones were.
SecretData(c) == Desired[c]

\* Mutant: the template is sent as it is.
UpdatedReplacing(c) == Desired[c]

\* The data a call sends back for the object it got.
Updated(c) == IF Replaces THEN SecretData(c) ELSE Merge(base[c].data, Desired[c])

\* What the API server answers to the Update of an object got earlier.
Accepts(c) == obj.live /\ obj.rv = base[c].rv

-----------------------------------------------------------------------------
(* The call.                                                               *)

Get(c) ==
  /\ pc[c] = "get"
  /\ IF obj.live
     THEN /\ base' = [base EXCEPT ![c] = obj]
          /\ Goto(c, "update")
     ELSE /\ UNCHANGED base
          /\ Goto(c, "create")
  /\ UNCHANGED <<obj, rev, faults, other>>

Create(c) ==
  /\ pc[c] = "create"
  /\ ~obj.live
  /\ Store(Desired[c])
  /\ Goto(c, "done")
  /\ UNCHANGED <<base, faults, other>>

\* Mutants: the secret takes AlreadyExists for success, too; it is created again;
\* the outcome is one the caller does not know.
CreateExistsDone(c) ==
  /\ pc[c] = "create"
  /\ obj.live
  /\ Goto(c, "done")
  /\ UNCHANGED <<obj, rev, base, faults, other>>

CreateExistsAgain(c) ==
  /\ pc[c] = "create"
  /\ obj.live
  /\ Goto(c, "create")
  /\ UNCHANGED <<obj, rev, base, faults, other>>

CreateExistsUnknown(c) ==
  /\ pc[c] = "create"
  /\ obj.live
  /\ Goto(c, "exists")
  /\ UNCHANGED <<obj, rev, base, faults, other>>

\* createIfNotExists takes AlreadyExists for success, the secret does not.
CreateExists(c) ==
  /\ pc[c] = "create"
  /\ obj.live
  /\ Goto(c, IF Replaces THEN "failed" ELSE "done")
  /\ UNCHANGED <<obj, rev, base, faults, other>>

\* Mutant: the update does not carry the resource version that was got.
UpdateUnconditional(c) ==
  /\ pc[c] = "update"
  /\ obj.live
  /\ Store(Updated(c))
  /\ Goto(c, "done")
  /\ UNCHANGED <<base, faults, other>>

Update(c) ==
  /\ pc[c] = "update"
  /\ Accepts(c)
  /\ Store(Updated(c))
  /\ Goto(c, "done")
  /\ UNCHANGED <<base, faults, other>>

\* Mutant: a refused update is sent again as it is.
UpdateAgain(c) ==
  /\ pc[c] = "update"
  /\ ~Accepts(c)
  /\ Goto(c, "update")
  /\ UNCHANGED <<obj, rev, base, faults, other>>

\* Conflict, or the object is gone: the call returns the error.
UpdateRefused(c) ==
  /\ pc[c] = "update"
  /\ ~Accepts(c)
  /\ Goto(c, "failed")
  /\ UNCHANGED <<obj, rev, base, faults, other>>

\* The request does not come back; a write may have been stored all the same.
RequestLost(c) ==
  /\ faults < MaxFaults
  /\ faults' = faults + 1
  /\ Goto(c, "failed")
  /\ \/ /\ pc[c] \in {"get", "create", "update"}
        /\ UNCHANGED <<obj, rev>>
     \/ /\ pc[c] = "create"
        /\ ~obj.live
        /\ Store(Desired[c])
     \/ /\ pc[c] = "update"
        /\ Accepts(c)
        /\ Store(Updated(c))
  /\ UNCHANGED <<base, other>>

\* The engine issues the failed operation again.
Retry(c) ==
  /\ pc[c] = "failed"
  /\ Goto(c, "get")
  /\ UNCHANGED <<obj, rev, base, faults, other>>

-----------------------------------------------------------------------------
(* Other writers of the same object.                                       *)

OtherWrite ==
  /\ other < MaxOther
  /\ other' = other + 1
  /\ obj.live
  /\ \E f \in Fields, v \in Values : Store([obj.data EXCEPT ![f] = v])
  /\ UNCHANGED <<pc, base, faults>>

OtherDelete ==
  /\ other < MaxOther
  /\ other' = other + 1
  /\ obj.live
  /\ rev' = rev + 1
  /\ obj' = [live |-> FALSE, rv |-> rev + 1, data |-> Empty]
  /\ UNCHANGED <<pc, base, faults>>

-----------------------------------------------------------------------------
CallStep(c) ==
  \/ Get(c)
  \/ Create(c)
  \/ CreateExists(c)
  \/ Update(c)
  \/ UpdateRefused(c)
  \/ RequestLost(c)
  \/ Retry(c)

Next == (\E c \in Calls : CallStep(c)) \/ OtherWrite \/ OtherDelete

\* A call that is under way goes on, and a failed one is issued again.
Fairness == \A c \in Calls : WF_vars(CallStep(c))

Spec == Init /\ [][Next]_vars
FairSpec == Spec /\ Fairness
-----------------------------------------------------------------------------
(* Properties.                                                             *)

\* Type correctness of the state.
TypeOK ==
  /\ obj \in Object
  /\ rev \in Nat
  /\ pc \in [Calls -> Steps]
  /\ base \in [Calls -> Object]
  /\ faults \in 0..MaxFaults
  /\ other \in 0..MaxOther

\* Why no update is lost: the object a call got is the stored one, or the API server
\* will see that it is not, as cruObject sends back the resource version it was given.
SnapshotCurrent ==
  /\ obj.rv <= rev
  /\ ~obj.live => obj.data = Empty
  /\ \A c \in Calls :
       /\ base[c].rv <= rev
       /\ pc[c] = "update" /\ obj.live /\ obj.rv = base[c].rv
            => obj.data = base[c].data

\* No step of a call, a write that goes through without an answer included,
\* changes a field its template does not specify: what controllers and other
\* calls wrote between the Get and the Update is never overwritten.
NoLostUpdate ==
  [][\A c \in Calls : pc'[c] # pc[c] =>
       \A f \in Fields : Desired[c][f] = NoValue => obj'.data[f] = obj.data[f]]_vars

\* When a call returns success, the object holds every field of its template.
SuccessMeansApplied ==
  [][\A c \in Calls : pc[c] # "done" /\ pc'[c] = "done" =>
       \A f \in Fields : Desired[c][f] # NoValue => obj'.data[f] = Desired[c][f]]_vars

\* Get-then-write is one atomic overlay for everybody who looks at the object.
Upsert == INSTANCE UpsertSpec WITH
  obj <- [live |-> obj.live, data |-> obj.data],
  status <- [c \in Calls |-> IF pc[c] = "done" THEN "ok" ELSE "pending"]

\* createOrUpdateObject implements the one-step "create or update".
ImplementsUpsert == Upsert!Spec

\* However calls, controllers and faults interleave, a call that is issued
\* again after an error gets its answer in the end.
EveryCallSucceeds == \A c \in Calls : <>(pc[c] = "done")
=============================================================================
