----------------------------- MODULE MergeMaps ------------------------------
(***************************************************************************)
(* mergeMaps of merge.go: how what a template renders is laid over an      *)
(* object that exists.  A map gives every key a value or Absent; what is   *)
(* not a map, lists included, is a scalar.  No state: ObjectMaps relates   *)
(* it to the objects of CruObject.                                         *)
(***************************************************************************)
EXTENDS Naturals, Sequences

CONSTANTS
  Keys,       \* the keys of maps
  Scalars,
  Absent,     \* a map does not have this key
  Depth,      \* bound: levels of maps below the one at the top
  Tried       \* the keys of the maps that MergeOverlays compares

Maps(values) == [Keys -> values \union {Absent}]

\* The values in a map with at most d levels of maps below it.
Level[d \in 0..Depth] == IF d = 0 THEN Scalars ELSE Scalars \union Maps(Level[d - 1])

ASSUME DepthAssumption == Depth \in Nat \ {0}
ASSUME ScalarsAssumption ==
  Absent \notin Scalars /\ \A s \in Scalars \union {Absent} : s \notin Maps(Level[Depth])
ASSUME TriedAssumption == Tried \subseteq Keys

IsMap(x) == x \notin Scalars \union {Absent}

\* Both have the key, and both have a map there.
IsRecursiveMerge(v1, v2) == IsMap(v1) /\ IsMap(v2)

\* Mutant: maps are replaced like everything else.
MergeMapsReplacing(m1, m2, lockedFields) ==
  [k \in Keys |-> IF m2[k] = Absent \/ k \in lockedFields THEN m1[k] ELSE m2[k]]

\* One call: nested[<<vm1, vm2>>] is what mergeMaps returns for maps in the maps. A
\* locked field keeps what it has.
Merging(nested, m1, m2, lockedFields) ==
  [k \in Keys |->
     IF m2[k] = Absent \/ k \in lockedFields THEN m1[k]
     ELSE IF IsRecursiveMerge(m1[k], m2[k]) THEN nested[<<m1[k], m2[k]>>]
     ELSE m2[k]]

\* mergeMaps for the maps with d levels below them, from that for d - 1.
MergeUpTo(lockedFields) ==
  LET merge[d \in 0..Depth] ==
        [ms \in Maps(Level[d]) \X Maps(Level[d]) |->
           Merging(IF d = 0 THEN << >> ELSE merge[d - 1], ms[1], ms[2], lockedFields)]
  IN  merge

MergeMaps(m1, m2, lockedFields) == MergeUpTo(lockedFields)[Depth][<<m1, m2>>]

-----------------------------------------------------------------------------
(* A reference definition, by paths.                                       *)

Paths == {<<k>> : k \in Keys} \union (Keys \X Keys)

At(m, path) ==
  IF Len(path) = 1 THEN m[path[1]]
  ELSE IF IsMap(m[path[1]]) THEN m[path[1]][path[2]]
  ELSE Absent

\* The part of a path along which both are maps, and one key more.
Merged(m1, m2, path) ==
  IF IsMap(m1[path[1]]) /\ IsMap(m2[path[1]]) THEN path ELSE <<path[1]>>

FromTemplate(m1, m2, lockedFields, path) ==
  LET merged == Merged(m1, m2, path)
  IN  At(m2, merged) # Absent /\ \A i \in DOMAIN merged : merged[i] \notin lockedFields

\* A scalar at any path, or the lack of one, is the template's where the template says
\* something, and is as it was everywhere else; a second merge of the same changes nothing.
Overlays(m1, m2, lockedFields) ==
  LET m == MergeMaps(m1, m2, lockedFields)
  IN  /\ \A path \in Paths :
           ~IsMap(At(m, path)) =>
             At(m, path) = At(IF FromTemplate(m1, m2, lockedFields, path) THEN m2 ELSE m1, path)
      /\ MergeMaps(m, m2, lockedFields) = m

\* The maps over the keys that are tried.
MapsTried(values) ==
  {[k \in Keys |-> IF k \in Tried THEN m[k] ELSE Absent] : m \in [Tried -> values \union {Absent}]}

\* mergeMaps overlays, whatever is stored, whatever the template renders, and whichever
\* fields are locked.
MergeOverlays ==
  \A m1, m2 \in MapsTried(Scalars \union MapsTried(Scalars)) :
    \A lockedFields \in {{}} \union {{k} : k \in Tried} : Overlays(m1, m2, lockedFields)
=============================================================================
