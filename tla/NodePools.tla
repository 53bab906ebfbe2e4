------------------------------ MODULE NodePools ------------------------------
(***************************************************************************)
(* The worker node pools of one cluster, from the options of the user to   *)
(* the machines: what the driver keeps of them in the ClusterInfo (raw as  *)
(* they were given, parsed, and hashed), what Create, Update,              *)
(* SetClusterSize and SetVersion write of them, and when Cluster API       *)
(* replaces machines.  A machine deployment refers to its machine template *)
(* by a name that ends in a hash of the pools; a template that changes     *)
(* under its name replaces no machine.                                     *)
(*                                                                         *)
(* The order of single requests within a call is in ClusterUpdate.         *)
(***************************************************************************)
EXTENDS Naturals, SequencesExt

CONSTANTS
  PoolNames,
  Spelling,    \* Spelling[p]: how a name is written, digits as 0..9, letters from 10 on
  Options,     \* the versions and pools a user may ask for
  Sizes,       \* the sizes SetClusterSize is called with
  MaxEdits,    \* bound: changes of the wanted options
  MaxResizes,  \* bound: calls of SetClusterSize and SetVersion
  MaxAborts    \* bound: calls cut short

Pool == [name : PoolNames, replicas : Nat, memory : 1..99, ocpus : 1..99, volume : Nat]

ASSUME NodePoolsAssumption ==
  /\ Spelling \in [PoolNames -> Seq(Nat)]
  /\ \A p, q \in PoolNames : Spelling[p] = Spelling[q] => p = q
  /\ Options \subseteq [version : Nat, pools : Seq(Pool)]
  /\ Sizes \subseteq Nat
  /\ MaxEdits \in Nat /\ MaxResizes \in Nat /\ MaxAborts \in Nat

VARIABLES
  wanted,    \* the options the user wants now
  dirty,     \* no Update with them has succeeded yet
  info,      \* the Variables the engine keeps for the driver
  pc,        \* the next step of the call under way
  kind,      \* which call that is
  v,         \* its Variables
  md,        \* md[p]: the machine deployment of a pool
  template,  \* the machine templates that exist, by name
  cleaned,   \* an Update or a SetVersion has got through its clean-up
  machines,  \* machines[p]: what the machines of a pool were made from
  resized,   \* SetClusterSize was called since the last successful Update
  edits, resizes, aborts

engineVars == <<wanted, dirty, info, resized, edits, resizes, aborts>>
callVars == <<pc, kind, v>>
objectVars == <<md, template, cleaned>>
vars == <<engineVars, callVars, objectVars, machines>>

None == [exists |-> FALSE]

-----------------------------------------------------------------------------
(* The Variables.                                                          *)

\* The decimal digits of a number below a hundred.
Digits(n) == IF n < 10 THEN <<n>> ELSE <<n \div 10, n % 10>>

\* The shape, which is a text without digits at its ends, is the same for all pools.
NodeShape == <<36>>

\* Mutant: with the replicas.
NodePoolHashOfReplicas(o) ==
  <<o.version, FlattenSeq([i \in DOMAIN o.pools |->
     Spelling[o.pools[i].name] \o NodeShape \o Digits(o.pools[i].memory)
       \o Digits(o.pools[i].ocpus) \o Digits(o.pools[i].replicas)])>>

\* The text that SetNodePoolHash hashes.  The version stands apart from the rest by the
\* key and the image between them, but the pools run together without separators, so
\* that different pools may make the same text; the volume sizes are not in it.
\* Different texts have different hashes.
NodePoolHash(o) ==
  <<o.version, FlattenSeq([i \in DOMAIN o.pools |->
     Spelling[o.pools[i].name] \o NodeShape \o Digits(o.pools[i].memory)
       \o Digits(o.pools[i].ocpus)])>>

\* Mutant: the hash of the stored node pools, as if they were parsed afterwards.
SetUpdateValuesStale(old, o) ==
  [version |-> o.version, raw |-> o.pools, pools |-> o.pools,
   hash |-> IF old = None THEN NodePoolHash(o)
            ELSE NodePoolHash([version |-> o.version, pools |-> old.pools])]

\* NewFromOptions and SetUpdateValues: the node pools of the options, parsed, and then
\* the hash.
SetUpdateValues(old, o) ==
  [version |-> o.version, raw |-> o.pools, pools |-> o.pools, hash |-> NodePoolHash(o)]

\* SetClusterSize scales the first of the parsed pools.
SetReplicas(old, count) ==
  IF old.pools = <<>> THEN old ELSE [old EXCEPT !.pools[1].replicas = count]

\* Parses the raw pools, whatever became of the parsed ones.
WorkerCount(raw) == FoldFunction(+, 0, [i \in DOMAIN raw |-> raw[i].replicas])

Names(pools) == {pools[i].name : i \in DOMAIN pools}
DistinctNames(pools) == \A i, j \in DOMAIN pools : pools[i].name = pools[j].name => i = j

\* Nothing keeps two pools from having one name: the later document goes over the
\* object of the earlier one.
IsLast(pools, p, i) ==
  /\ pools[i].name = p
  /\ \A j \in DOMAIN pools : pools[j].name = p => j <= i
PoolNamed(pools, p) == pools[CHOOSE i \in DOMAIN pools : IsLast(pools, p, i)]

Machine(pool) == [memory |-> pool.memory, ocpus |-> pool.ocpus, volume |-> pool.volume]
Deployed == {p \in PoolNames : md[p].exists}

Init ==
  /\ wanted \in Options
  /\ dirty = TRUE
  /\ info = None
  /\ pc = "none" /\ kind = "none" /\ v = None
  /\ md = [p \in PoolNames |-> None]
  /\ template = << >>
  /\ cleaned = FALSE
  /\ machines = [p \in PoolNames |-> None]
  /\ resized = FALSE
  /\ edits = 0 /\ resizes = 0 /\ aborts = 0

-----------------------------------------------------------------------------
(* The user and the engine.                                                *)

\* What is wanted may change at any time, before a Create has succeeded too.
Edit ==
  /\ edits < MaxEdits
  /\ edits' = edits + 1
  /\ \E o \in Options \ {wanted} : wanted' = o
  /\ dirty' = TRUE
  /\ UNCHANGED <<info, resized, resizes, aborts, callVars, objectVars, machines>>

Begin(name, variables) ==
  /\ pc = "none"
  /\ pc' = "deployments"
  /\ kind' = name
  /\ v' = variables
  /\ UNCHANGED <<objectVars, machines>>

BeginUpdate ==
  /\ dirty
  /\ Begin(IF info = None THEN "create" ELSE "update", SetUpdateValues(info, wanted))
  /\ UNCHANGED engineVars

BeginSetClusterSize ==
  /\ info # None
  /\ resizes < MaxResizes
  /\ resizes' = resizes + 1
  /\ \E count \in Sizes : Begin("resize", SetReplicas(info, count))
  /\ resized' = TRUE
  /\ UNCHANGED <<wanted, dirty, info, edits, aborts>>

\* Whatever version it is called with.
BeginSetVersion ==
  /\ info # None
  /\ resizes < MaxResizes
  /\ resizes' = resizes + 1
  /\ Begin("version", info)
  /\ UNCHANGED <<wanted, dirty, info, resized, edits, aborts>>

CallOver == pc' = "none" /\ kind' = "none" /\ v' = None

\* Only Create and Update give the engine a ClusterInfo back.
ReturnNil ==
  /\ CallOver
  /\ IF kind \in {"create", "update"}
     THEN /\ info' = v
          /\ dirty' = (wanted # [version |-> v.version, pools |-> v.raw])
          /\ resized' = FALSE
     ELSE UNCHANGED <<info, dirty, resized>>
  /\ UNCHANGED <<wanted, edits, resizes, aborts>>

\* Mutant: the call is left under way.
ReturnErrorKeeps == pc' = "none" /\ UNCHANGED <<kind, v, engineVars>>

ReturnError == CallOver /\ UNCHANGED engineVars

Abort ==
  /\ pc # "none"
  /\ aborts < MaxAborts
  /\ aborts' = aborts + 1
  /\ CallOver
  /\ UNCHANGED <<wanted, dirty, info, resized, edits, resizes, objectVars, machines>>

GoTo(step) == pc' = step /\ UNCHANGED <<kind, v, engineVars>>

-----------------------------------------------------------------------------
(* The objects of the workers.                                             *)

WriteDeployments ==
  /\ pc = "deployments"
  /\ md' = [p \in PoolNames |->
              IF p \in Names(v.pools)
              THEN [exists |-> TRUE, replicas |-> PoolNamed(v.pools, p).replicas,
                    template |-> <<p, v.hash>>, version |-> v.version]
              ELSE md[p]]
  /\ GoTo("templates")
  /\ UNCHANGED <<template, cleaned, machines>>

\* The create pipeline ends here; the others pass a gate.
WriteTemplates ==
  /\ pc = "templates"
  /\ LET new == {<<p, v.hash>> : p \in Names(v.pools)}
     IN  template' = [t \in DOMAIN template \union new |->
                        IF t \in new THEN Machine(PoolNamed(v.pools, t[1])) ELSE template[t]]
  /\ IF kind \in {"create", "resize"} THEN ReturnNil ELSE GoTo("gate")
  /\ UNCHANGED <<md, cleaned, machines>>

\* Cluster API replaces the machines of a pool when its machine deployment changes, and
\* not when a template does; it can once the template exists.
MadeFrom(p) == <<md[p].template, md[p].version>>
Rolling(p) == /\ p \in Deployed
              /\ machines[p] # None => machines[p].from # MadeFrom(p)
              /\ md[p].template \in DOMAIN template

\* The call fails if it sees machines that do not run.  It need not see them.
Gate ==
  /\ pc = "gate"
  /\ GoTo("delete") \/ (ReturnError /\ \E p \in PoolNames : Rolling(p))
  /\ UNCHANGED <<objectVars, machines>>

\* Mutant: nothing is deleted.
DeleteNothing ==
  /\ pc = "delete"
  /\ cleaned' = TRUE
  /\ ReturnNil
  /\ UNCHANGED <<md, template, machines>>

\* DeleteHangingResources: the machine deployments of other pools, each with the
\* template it refers to.
DeleteUnused ==
  /\ pc = "delete"
  /\ LET unused == Deployed \ Names(v.pools)
         gone == {md[p].template : p \in unused}
     IN  /\ md' = [p \in PoolNames |-> IF p \in unused THEN None ELSE md[p]]
         /\ template' = [t \in DOMAIN template \ gone |-> template[t]]
  /\ cleaned' = TRUE
  /\ ReturnNil
  /\ UNCHANGED machines

-----------------------------------------------------------------------------
(* Cluster API.                                                            *)

Roll(p) ==
  /\ Rolling(p)
  /\ machines' = [machines EXCEPT ![p] = [exists |-> TRUE, from |-> MadeFrom(p),
                                          machine |-> template[md[p].template]]]
  /\ UNCHANGED <<engineVars, callVars, objectVars>>

Drain(p) ==
  /\ p \notin Deployed
  /\ machines[p] # None
  /\ machines' = [machines EXCEPT ![p] = None]
  /\ UNCHANGED <<engineVars, callVars, objectVars>>

-----------------------------------------------------------------------------
CallStep == WriteDeployments \/ WriteTemplates \/ Gate \/ DeleteUnused

Next ==
  \/ Edit \/ BeginUpdate \/ BeginSetClusterSize \/ BeginSetVersion
  \/ CallStep \/ Abort
  \/ \E p \in PoolNames : Roll(p) \/ Drain(p)

\* The engine repeats Updates that fail, calls go on, and machines are replaced.
Fairness ==
  /\ WF_vars(BeginUpdate)
  /\ WF_vars(CallStep)
  /\ \A p \in PoolNames : WF_vars(Roll(p)) /\ WF_vars(Drain(p))

Spec == Init /\ [][Next]_vars
FairSpec == Spec /\ Fairness

-----------------------------------------------------------------------------
(* Properties.                                                             *)

IsVariables(x) ==
  /\ DOMAIN x = {"version", "raw", "pools", "hash"}
  /\ [version |-> x.version, pools |-> x.raw] \in Options
  /\ Names(x.pools) = Names(x.raw)

\* The type of every variable; a deployment refers to a template of its own pool.
TypeOK ==
  /\ wanted \in Options
  /\ dirty \in BOOLEAN /\ resized \in BOOLEAN /\ cleaned \in BOOLEAN
  /\ info = None \/ IsVariables(info)
  /\ pc \in {"none", "deployments", "templates", "gate", "delete"}
  /\ kind \in {"none", "create", "update", "resize", "version"}
  /\ IF pc = "none" THEN v = None /\ kind = "none" ELSE IsVariables(v)
  /\ \A p \in PoolNames :
       /\ md[p] # None => md[p].exists /\ md[p].replicas \in Nat /\ md[p].template[1] = p
       /\ machines[p] # None => machines[p].exists /\ machines[p].from[1][1] = p
  /\ edits \in 0..MaxEdits /\ resizes \in 0..MaxResizes /\ aborts \in 0..MaxAborts

\* What GetClusterSize and PostCheck report is what the machine deployments of the
\* reported pools ask for, once the last Update has succeeded; unless somebody has called
\* SetClusterSize, or two pools have one name.  There are no other machine deployments
\* once a call has cleaned up; before that, those that a Create which failed has left
\* over when it was repeated with other pools are not reported.
MachinesAsked(pools) == FoldFunction(+, 0, [p \in pools |-> md[p].replicas])

SizeReported ==
  info # None /\ ~dirty /\ pc = "none" /\ ~resized /\ DistinctNames(info.raw) =>
    /\ WorkerCount(info.raw) = MachinesAsked(Names(info.raw))
    /\ cleaned => WorkerCount(info.raw) = MachinesAsked(Deployed)

\* Why it is: the machine deployments then are those of the ClusterInfo one by one, the
\* last of each name, and they stay so under SetVersion and calls cut short.  A call
\* leaves its own behind it, nothing but a Create runs before the first ClusterInfo and
\* it cleans nothing up, an Update runs only while options wait for it, and the hash is
\* that of the parsed pools all the time.
Asks(pools) ==
  \A p \in Names(pools) : md[p].exists /\ md[p].replicas = PoolNamed(pools, p).replicas

CallOfItsKind ==
  /\ pc # "none" => kind # "none" /\ (info = None => kind = "create")
  /\ kind = "create" => info = None
  /\ kind \in {"create", "update"} => dirty /\ v.pools = v.raw
  /\ kind = "resize" => resized
  /\ kind = "version" => v = info

Hashed ==
  /\ info # None => info.pools = info.raw /\ info.hash = NodePoolHash(info)
  /\ v # None => v.hash = NodePoolHash(v)

Accounted ==
  /\ CallOfItsKind
  /\ Hashed
  /\ pc \in {"gate", "delete"} => kind # "create"
  /\ info = None => ~cleaned
  /\ pc \in {"templates", "gate", "delete"} => Asks(v.pools)
  /\ info # None /\ ~dirty /\ ~resized =>
       Asks(info.raw) /\ (cleaned => Deployed = Names(info.raw))

\* hash.go 45: scaling, by an Update or by SetClusterSize, gives no pool another
\* template.
SameButReplicas(x, y) ==
  /\ x.version = y.version
  /\ DOMAIN x.pools = DOMAIN y.pools
  /\ \A i \in DOMAIN x.pools : [x.pools[i] EXCEPT !.replicas = 0] = [y.pools[i] EXCEPT !.replicas = 0]

ScalingKeepsTemplates ==
  [][pc = "deployments" /\ info # None /\ v # None /\ SameButReplicas(info, v) =>
       \A p \in Deployed :
         md[p].template = <<p, info.hash>> => md'[p].template = md[p].template]_vars


\* hash.go 15: when a node pool changes, its machines are upgraded.
ChangesRoll ==
  <>[]\A p \in Names(wanted.pools) :
        machines[p] # None /\ machines[p].machine = Machine(PoolNamed(wanted.pools, p))
=============================================================================
