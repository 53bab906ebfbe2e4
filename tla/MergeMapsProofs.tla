-------------------------- MODULE MergeMapsProofs ---------------------------
(***************************************************************************)
(* mergeMaps overlays, for maps of any depth with any keys, and what a     *)
(* call of CruObject sends is what mergeMaps makes of the object it has    *)
(* got, for any layout of its fields.                                      *)
(*                                                                         *)
(* mergeMaps is recursive: that it is defined for maps of every depth, and *)
(* that a second merge of the same changes nothing, are inductions over    *)
(* the depth.                                                              *)
(***************************************************************************)
EXTENDS ObjectMaps, CruObjectProofs, Sums

\* Induction over the depth, with a set in the place of a predicate.
LEMMA DepthInduction ==
  ASSUME NEW S, 0 \in S, \A d \in 1..Depth : d - 1 \in S => d \in S
  PROVE  0..Depth \subseteq S
<1> DEFINE T == {n \in Nat : n <= Depth => n \in S}
<1>1. 0 \in T
  OBVIOUS
<1>2. \A n \in Nat : n \in T => n + 1 \in T
  <2> SUFFICES ASSUME NEW n \in Nat, n \in T, n + 1 <= Depth PROVE n + 1 \in S
    OBVIOUS
  <2>1. n \in S /\ n + 1 \in 1..Depth /\ (n + 1) - 1 = n
    BY DepthAssumption
  <2> QED
    BY <2>1
<1>3. Nat \subseteq T
  <2> HIDE DEF T
  <2> QED
    BY <1>1, <1>2, NatSetInduction
<1> QED
  BY <1>3, DepthAssumption

-----------------------------------------------------------------------------
(* The recursive definitions define what they say.                         *)

LevelFrom(level, d) == IF d = 0 THEN Scalars ELSE Scalars \union Maps(level[d - 1])

\* The values of each depth exist.
LEMMA LevelExists == Level = [d \in 0..Depth |-> LevelFrom(Level, d)]
<1> DEFINE good == {n \in Nat : \E f : f = [d \in 0..n |-> LevelFrom(f, d)]}
<1>1. 0 \in good
  <2> DEFINE f == [d \in 0..0 |-> Scalars]
  <2>1. f = [d \in 0..0 |-> LevelFrom(f, d)]
    BY DEF LevelFrom
  <2> QED
    BY <2>1
<1>2. ASSUME NEW n \in Nat, n \in good PROVE n + 1 \in good
  <2>1. PICK f : f = [d \in 0..n |-> LevelFrom(f, d)]
    BY <1>2
  <2> DEFINE g == [d \in 0..(n + 1) |-> LevelFrom(f, d)]
  <2>2. \A d \in 0..n : g[d] = f[d]
    <3>1. \A d \in 0..n : f[d] = LevelFrom(f, d) /\ d \in 0..(n + 1)
      BY <2>1
    <3> QED
      BY <3>1
  <2>3. \A d \in 0..(n + 1) : LevelFrom(g, d) = LevelFrom(f, d)
    <3> SUFFICES ASSUME NEW d \in 0..(n + 1), d # 0 PROVE g[d - 1] = f[d - 1]
      BY DEF LevelFrom
    <3>1. d - 1 \in 0..n
      OBVIOUS
    <3> HIDE DEF g
    <3> QED
      BY <2>2, <3>1
  <2>4. g = [d \in 0..(n + 1) |-> LevelFrom(g, d)]
    BY <2>3
  <2> HIDE DEF g
  <2> QED
    BY <2>4
<1>3. Nat \subseteq good
  <2> HIDE DEF good
  <2> QED
    BY <1>1, <1>2, NatSetInduction
<1>4. \E f : f = [d \in 0..Depth |-> LevelFrom(f, d)]
  BY <1>3, DepthAssumption
<1> QED
  BY <1>4 DEF Level, LevelFrom

\* The values of a depth.
LEMMA LevelIs ==
  /\ Level[0] = Scalars
  /\ \A d \in 1..Depth : Level[d] = Scalars \union Maps(Level[d - 1])
<1>1. \A d \in 0..Depth : Level[d] = LevelFrom(Level, d)
  BY LevelExists
<1>2. 0 \in 0..Depth /\ 1..Depth \subseteq 0..Depth /\ 0 \notin 1..Depth
  BY DepthAssumption
<1> QED
  BY <1>1, <1>2 DEF LevelFrom

MergeFrom(merge, d, lockedFields) ==
  [ms \in Maps(Level[d]) \X Maps(Level[d]) |->
     Merging(IF d = 0 THEN << >> ELSE merge[d - 1], ms[1], ms[2], lockedFields)]

\* The merges of each depth exist.
LEMMA MergeExists ==
  ASSUME NEW lockedFields
  PROVE  MergeUpTo(lockedFields) =
           [d \in 0..Depth |-> MergeFrom(MergeUpTo(lockedFields), d, lockedFields)]
<1> DEFINE From(f, d) == MergeFrom(f, d, lockedFields)
           good == {n \in Nat : \E f : f = [d \in 0..n |-> From(f, d)]}
<1>1. 0 \in good
  <2> DEFINE f == [d \in 0..0 |-> From(<< >>, d)]
  <2>1. \A d \in 0..0 : From(<< >>, d) = From(f, d)
    BY DEF MergeFrom
  <2>2. f = [d \in 0..0 |-> From(f, d)]
    BY <2>1
  <2> HIDE DEF f
  <2> QED
    BY <2>2
<1>2. ASSUME NEW n \in Nat, n \in good PROVE n + 1 \in good
  <2>1. PICK f : f = [d \in 0..n |-> From(f, d)]
    BY <1>2
  <2> DEFINE g == [d \in 0..(n + 1) |-> From(f, d)]
  <2>2. \A d \in 0..n : g[d] = f[d]
    <3> HIDE DEF From
    <3>1. \A d \in 0..n : f[d] = From(f, d) /\ d \in 0..(n + 1)
      BY <2>1
    <3> QED
      BY <3>1
  <2>3. \A d \in 0..(n + 1) : From(g, d) = From(f, d)
    <3> HIDE DEF g
    <3> SUFFICES ASSUME NEW d \in 0..(n + 1) PROVE From(g, d) = From(f, d)
      OBVIOUS
    <3>1. CASE d = 0
      BY <3>1 DEF MergeFrom
    <3>2. CASE d # 0
      <4>1. d - 1 \in 0..n
        BY <3>2
      <4>2. g[d - 1] = f[d - 1]
        BY <2>2, <4>1
      <4> QED
        BY <3>2, <4>2 DEF MergeFrom
    <3> QED
      BY <3>1, <3>2
  <2>4. g = [d \in 0..(n + 1) |-> From(g, d)]
    BY <2>3
  <2> HIDE DEF g
  <2> QED
    BY <2>4
<1>3. Nat \subseteq good
  <2> HIDE DEF good
  <2> QED
    BY <1>1, <1>2, NatSetInduction
<1>4. \E f : f = [d \in 0..Depth |-> From(f, d)]
  BY <1>3, DepthAssumption
<1> QED
  BY <1>4 DEF MergeUpTo, MergeFrom

-----------------------------------------------------------------------------
(* Maps and their values.                                                   *)

\* Deeper levels have the values of the others.
LEMMA LevelGrows == \A d \in 0..Depth : Level[d] \subseteq Level[Depth]
<1>1. ASSUME NEW d \in 1..Depth PROVE Level[d - 1] \subseteq Level[d]
  <2> DEFINE S == {e \in 0..Depth : e # 0 => Level[e - 1] \subseteq Level[e]}
  <2>1. 0 \in S
    BY DepthAssumption
  <2>2. ASSUME NEW e \in 1..Depth, e - 1 \in S PROVE e \in S
    <3>1. CASE e = 1
      BY <3>1, LevelIs
    <3>2. CASE e # 1
      <4>1. e - 1 \in 1..Depth /\ e - 1 # 0 /\ e \in 0..Depth
        BY <3>2, DepthAssumption
      <4>2. Level[(e - 1) - 1] \subseteq Level[e - 1]
        BY <2>2, <4>1
      <4>3. /\ Level[e - 1] = Scalars \union Maps(Level[(e - 1) - 1])
            /\ Level[e] = Scalars \union Maps(Level[e - 1])
        BY <4>1, LevelIs
      <4> QED
        BY <4>1, <4>2, <4>3 DEF Maps
    <3> QED
      BY <3>1, <3>2
  <2>3. 0..Depth \subseteq S
    <3> HIDE DEF S
    <3> QED
      BY <2>1, <2>2, DepthInduction
  <2>4. d \in 0..Depth /\ d # 0
    BY DepthAssumption
  <2> QED
    BY <2>3, <2>4
<1> DEFINE S == {n \in 0..Depth : Level[Depth - n] \subseteq Level[Depth]}
<1>2. 0 \in S
  BY DepthAssumption
<1>3. ASSUME NEW n \in 1..Depth, n - 1 \in S PROVE n \in S
  <2>1. Depth - (n - 1) \in 1..Depth /\ (Depth - (n - 1)) - 1 = Depth - n /\ n \in 0..Depth
    BY DepthAssumption
  <2>2. Level[Depth - n] \subseteq Level[Depth - (n - 1)]
    BY <1>1, <2>1
  <2> QED
    BY <1>3, <2>1, <2>2
<1>4. 0..Depth \subseteq S
  <2> HIDE DEF S
  <2> QED
    BY <1>2, <1>3, DepthInduction
<1> SUFFICES ASSUME NEW d \in 0..Depth PROVE Level[d] \subseteq Level[Depth]
  OBVIOUS
<1>5. Depth - d \in 0..Depth /\ Depth - (Depth - d) = d
  BY DepthAssumption
<1> QED
  BY <1>4, <1>5

\* A value in a map is a map exactly when it is a map of the level below.
LEMMA ValueOfKey ==
  ASSUME NEW d \in 0..Depth, NEW x \in Maps(Level[d]), NEW k \in Keys
  PROVE  /\ IsMap(x[k]) => d \in 1..Depth /\ d - 1 \in 0..Depth /\ x[k] \in Maps(Level[d - 1])
         /\ x[k] \in Level[d] \union {Absent}
<1>1. x[k] \in Level[d] \union {Absent}
  BY DEF Maps
<1>2. CASE d = 0
  BY <1>1, <1>2, LevelIs DEF IsMap
<1>3. CASE d # 0
  <2>1. d \in 1..Depth /\ d - 1 \in 0..Depth
    BY <1>3, DepthAssumption
  <2> QED
    BY <1>1, <2>1, LevelIs DEF IsMap
<1> QED
  BY <1>2, <1>3

\* Maps of any level are maps.
LEMMA MapsAreMaps ==
  \A d \in 0..Depth : \A x \in Maps(Level[d]) : IsMap(x) /\ x \in Maps(Level[Depth])
<1> SUFFICES ASSUME NEW d \in 0..Depth, NEW x \in Maps(Level[d])
             PROVE  IsMap(x) /\ x \in Maps(Level[Depth])
  OBVIOUS
<1>1. x \in Maps(Level[Depth])
  BY LevelGrows DEF Maps
<1> QED
  BY <1>1, ScalarsAssumption DEF IsMap

-----------------------------------------------------------------------------
(* What a merge makes of a key.                                             *)

\* The merged map of two maps of a level.
MergeAt(d, x, y, lockedFields) == MergeUpTo(lockedFields)[d][<<x, y>>]

\* What it gives a key.
KeyAt(d, x, y, lockedFields, k) ==
  IF y[k] = Absent \/ k \in lockedFields THEN x[k]
  ELSE IF IsMap(x[k]) /\ IsMap(y[k]) THEN MergeAt(d - 1, x[k], y[k], lockedFields)
  ELSE y[k]

\* Key by key, mergeMaps does what one call of it does.
LEMMA MergeKeys ==
  ASSUME NEW lockedFields, NEW d \in 0..Depth,
         NEW x \in Maps(Level[d]), NEW y \in Maps(Level[d])
  PROVE  MergeAt(d, x, y, lockedFields) = [k \in Keys |-> KeyAt(d, x, y, lockedFields, k)]
<1> DEFINE merge == MergeUpTo(lockedFields)
           nested == IF d = 0 THEN << >> ELSE merge[d - 1]
<1>1. merge[d] = MergeFrom(merge, d, lockedFields)
  <2> HIDE DEF merge
  <2>1. merge = [e \in 0..Depth |-> MergeFrom(merge, e, lockedFields)]
    BY MergeExists DEF merge
  <2> QED
    BY <2>1
<1>2. merge[d][<<x, y>>] = Merging(nested, x, y, lockedFields)
  <2> HIDE DEF merge
  <2>1. <<x, y>> \in Maps(Level[d]) \X Maps(Level[d]) /\ <<x, y>>[1] = x /\ <<x, y>>[2] = y
    OBVIOUS
  <2> QED
    BY <1>1, <2>1 DEF MergeFrom
<1>3. \A k \in Keys : IsMap(x[k]) => nested = merge[d - 1]
  <2>1. \A k \in Keys : IsMap(x[k]) => d \in 1..Depth
    BY ValueOfKey
  <2> QED
    BY <2>1
<1> HIDE DEF merge, nested
<1> QED
  BY <1>2, <1>3 DEF MergeAt, KeyAt, Merging, IsRecursiveMerge, merge

\* The same, for a name of the merged map.
LEMMA MergeKey ==
  ASSUME NEW lockedFields, NEW d \in 0..Depth,
         NEW x \in Maps(Level[d]), NEW y \in Maps(Level[d]),
         NEW m, m = MergeAt(d, x, y, lockedFields)
  PROVE  /\ m = [k \in Keys |-> m[k]]
         /\ \A k \in Keys : m[k] = KeyAt(d, x, y, lockedFields, k)
<1>1. m = [k \in Keys |-> KeyAt(d, x, y, lockedFields, k)]
  BY MergeKeys
<1> QED
  BY <1>1

\* A merged map is a map of the same level.
LEMMA MergeType ==
  ASSUME NEW lockedFields
  PROVE  \A d \in 0..Depth : \A x, y \in Maps(Level[d]) :
           MergeAt(d, x, y, lockedFields) \in Maps(Level[d])
<1> DEFINE S == {d \in 0..Depth : \A x, y \in Maps(Level[d]) :
                   MergeAt(d, x, y, lockedFields) \in Maps(Level[d])}
<1>1. ASSUME NEW d \in 0..Depth, d # 0 => d - 1 \in S PROVE d \in S
  <2> SUFFICES ASSUME NEW x \in Maps(Level[d]), NEW y \in Maps(Level[d])
               PROVE  MergeAt(d, x, y, lockedFields) \in Maps(Level[d])
    OBVIOUS
  <2> DEFINE merged == MergeAt(d, x, y, lockedFields)
  <2>0. PICK m : m = merged
    OBVIOUS
  <2>1. ASSUME NEW k \in Keys PROVE m[k] \in Level[d] \union {Absent}
    <3>1. x[k] \in Level[d] \union {Absent} /\ y[k] \in Level[d] \union {Absent}
      BY ValueOfKey
    <3>2. ASSUME IsMap(x[k]), IsMap(y[k])
          PROVE  MergeAt(d - 1, x[k], y[k], lockedFields) \in Level[d]
      <4>1. /\ d \in 1..Depth /\ d - 1 \in 0..Depth /\ d # 0
            /\ x[k] \in Maps(Level[d - 1]) /\ y[k] \in Maps(Level[d - 1])
        BY <3>2, ValueOfKey
      <4>2. MergeAt(d - 1, x[k], y[k], lockedFields) \in Maps(Level[d - 1])
        BY <1>1, <4>1
      <4> QED
        BY <4>1, <4>2, LevelIs
    <3>3. \/ m[k] = x[k] \/ m[k] = y[k]
          \/ IsMap(x[k]) /\ IsMap(y[k]) /\ m[k] = MergeAt(d - 1, x[k], y[k], lockedFields)
      BY <2>0, MergeKey DEF KeyAt
    <3> QED
      BY <3>1, <3>2, <3>3
  <2>2. m = [k \in Keys |-> m[k]]
    BY <2>0, MergeKey
  <2>3. m \in Maps(Level[d])
    BY <2>1, <2>2 DEF Maps
  <2> QED
    BY <2>0, <2>3
<1>2. 0 \in S /\ \A d \in 1..Depth : d - 1 \in S => d \in S
  <2> HIDE DEF S
  <2> QED
    BY <1>1, DepthAssumption
<1>3. 0..Depth \subseteq S
  <2> HIDE DEF S
  <2> QED
    BY <1>2, DepthInduction
<1> QED
  BY <1>3

\* A map merged with itself is itself.
LEMMA MergeSelf ==
  ASSUME NEW lockedFields
  PROVE  \A d \in 0..Depth : \A x \in Maps(Level[d]) : MergeAt(d, x, x, lockedFields) = x
<1> DEFINE S == {d \in 0..Depth : \A x \in Maps(Level[d]) : MergeAt(d, x, x, lockedFields) = x}
<1>1. ASSUME NEW d \in 0..Depth, d # 0 => d - 1 \in S PROVE d \in S
  <2> SUFFICES ASSUME NEW x \in Maps(Level[d])
               PROVE  MergeAt(d, x, x, lockedFields) = x
    OBVIOUS
  <2>1. PICK m : m = MergeAt(d, x, x, lockedFields)
    OBVIOUS
  <2>2. ASSUME NEW k \in Keys PROVE m[k] = x[k]
    <3>1. ASSUME IsMap(x[k]) PROVE MergeAt(d - 1, x[k], x[k], lockedFields) = x[k]
      <4>1. d # 0 /\ d - 1 \in 0..Depth /\ x[k] \in Maps(Level[d - 1])
        BY <3>1, ValueOfKey
      <4> QED
        BY <1>1, <4>1
    <3>2. m[k] = KeyAt(d, x, x, lockedFields, k)
      BY <2>1, MergeKey
    <3> QED
      BY <3>1, <3>2 DEF KeyAt
  <2>3. m = [k \in Keys |-> m[k]]
    BY <2>1, MergeKey
  <2>4. x = [k \in Keys |-> x[k]]
    BY DEF Maps
  <2>5. m = x
    BY <2>2, <2>3, <2>4
  <2> QED
    BY <2>1, <2>5
<1>2. 0 \in S /\ \A d \in 1..Depth : d - 1 \in S => d \in S
  <2> HIDE DEF S
  <2> QED
    BY <1>1, DepthAssumption
<1>3. 0..Depth \subseteq S
  <2> HIDE DEF S
  <2> QED
    BY <1>2, DepthInduction
<1> QED
  BY <1>3

\* A second merge of the same changes nothing.
LEMMA MergeAgain ==
  ASSUME NEW lockedFields
  PROVE  \A d \in 0..Depth : \A x, y \in Maps(Level[d]) :
           LET m == MergeAt(d, x, y, lockedFields) IN MergeAt(d, m, y, lockedFields) = m
<1> DEFINE M(d, x, y) == MergeAt(d, x, y, lockedFields)
           S == {d \in 0..Depth : \A x, y \in Maps(Level[d]) : M(d, M(d, x, y), y) = M(d, x, y)}
<1>1. ASSUME NEW d \in 0..Depth, d # 0 => d - 1 \in S PROVE d \in S
  <2> SUFFICES ASSUME NEW x \in Maps(Level[d]), NEW y \in Maps(Level[d])
               PROVE  M(d, M(d, x, y), y) = M(d, x, y)
    OBVIOUS
  <2>1. PICK m : m = M(d, x, y)
    OBVIOUS
  <2>2. PICK n : n = M(d, m, y)
    OBVIOUS
  <2>3. m \in Maps(Level[d])
    BY <2>1, MergeType
  <2>4. /\ m = [k \in Keys |-> m[k]]
        /\ \A k \in Keys : m[k] = KeyAt(d, x, y, lockedFields, k)
    BY <2>1, MergeKey
  <2>5. /\ n = [k \in Keys |-> n[k]]
        /\ \A k \in Keys : n[k] = KeyAt(d, m, y, lockedFields, k)
    BY <2>2, <2>3, MergeKey
  <2> HIDE DEF M
  <2>6. ASSUME NEW k \in Keys PROVE n[k] = m[k]
    <3>1. CASE y[k] = Absent \/ k \in lockedFields
      BY <2>5, <3>1 DEF KeyAt
    <3>2. CASE ~(y[k] = Absent \/ k \in lockedFields) /\ IsMap(x[k]) /\ IsMap(y[k])
      <4>1. /\ d # 0 /\ d - 1 \in 0..Depth
            /\ x[k] \in Maps(Level[d - 1]) /\ y[k] \in Maps(Level[d - 1])
        BY <3>2, ValueOfKey
      <4>2. m[k] = M(d - 1, x[k], y[k])
        BY <2>4, <3>2 DEF KeyAt, M
      <4>3. IsMap(m[k])
        BY <4>1, <4>2, MergeType, MapsAreMaps DEF M
      <4>4. n[k] = M(d - 1, m[k], y[k])
        BY <2>5, <3>2, <4>3 DEF KeyAt, M
      <4> QED
        BY <1>1, <4>1, <4>2, <4>4
    <3>3. CASE ~(y[k] = Absent \/ k \in lockedFields) /\ ~(IsMap(x[k]) /\ IsMap(y[k]))
      <4>1. m[k] = y[k]
        BY <2>4, <3>3 DEF KeyAt
      <4>2. CASE ~IsMap(y[k])
        BY <2>5, <3>3, <4>1, <4>2 DEF KeyAt
      <4>3. CASE IsMap(y[k])
        <5>1. n[k] = M(d - 1, y[k], y[k])
          BY <2>5, <3>3, <4>1, <4>3 DEF KeyAt, M
        <5>2. d - 1 \in 0..Depth /\ y[k] \in Maps(Level[d - 1])
          BY <4>3, ValueOfKey
        <5> QED
          BY <4>1, <5>1, <5>2, MergeSelf DEF M
      <4> QED
        BY <4>2, <4>3
    <3> QED
      BY <3>1, <3>2, <3>3
  <2>7. n = m
    BY <2>4, <2>5, <2>6
  <2> QED
    BY <2>1, <2>2, <2>7
<1>2. 0 \in S /\ \A d \in 1..Depth : d - 1 \in S => d \in S
  <2> HIDE DEF S
  <2> QED
    BY <1>1, DepthAssumption
<1>3. 0..Depth \subseteq S
  <2> HIDE DEF S
  <2> QED
    BY <1>2, DepthInduction
<1> QED
  BY <1>3

-----------------------------------------------------------------------------
(* The reference definition.                                                *)

\* What is at a path of one key or of two.
LEMMA AtPath ==
  ASSUME NEW m, NEW k, NEW j
  PROVE  /\ At(m, <<k>>) = m[k]
         /\ At(m, <<k, j>>) = IF IsMap(m[k]) THEN m[k][j] ELSE Absent
BY DEF At

\* When the template has a say at a path.
LEMMA FromPath ==
  ASSUME NEW x, NEW y, NEW lockedFields, NEW k, NEW j
  PROVE  /\ FromTemplate(x, y, lockedFields, <<k>>) <=> y[k] # Absent /\ k \notin lockedFields
         /\ ~(IsMap(x[k]) /\ IsMap(y[k])) =>
              (FromTemplate(x, y, lockedFields, <<k, j>>) <=>
                 y[k] # Absent /\ k \notin lockedFields)
         /\ IsMap(x[k]) /\ IsMap(y[k]) =>
              (FromTemplate(x, y, lockedFields, <<k, j>>) <=>
                 y[k][j] # Absent /\ k \notin lockedFields /\ j \notin lockedFields)
<1>1. \A path : path[1] = k =>
        Merged(x, y, path) = IF IsMap(x[k]) /\ IsMap(y[k]) THEN path ELSE <<k>>
  BY DEF Merged
<1>2. FromTemplate(x, y, lockedFields, <<k>>) <=> y[k] # Absent /\ k \notin lockedFields
  <2>1. Merged(x, y, <<k>>) = <<k>>
    BY <1>1
  <2>2. (\A i \in DOMAIN <<k>> : <<k>>[i] \notin lockedFields) <=> k \notin lockedFields
    OBVIOUS
  <2>3. At(y, <<k>>) = y[k]
    BY AtPath
  <2> QED
    BY <2>1, <2>2, <2>3 DEF FromTemplate
<1>3. ASSUME ~(IsMap(x[k]) /\ IsMap(y[k]))
      PROVE  FromTemplate(x, y, lockedFields, <<k, j>>) <=> y[k] # Absent /\ k \notin lockedFields
  <2>1. Merged(x, y, <<k, j>>) = <<k>>
    BY <1>1, <1>3
  <2>2. (\A i \in DOMAIN <<k>> : <<k>>[i] \notin lockedFields) <=> k \notin lockedFields
    OBVIOUS
  <2>3. At(y, <<k>>) = y[k]
    BY AtPath
  <2> QED
    BY <2>1, <2>2, <2>3 DEF FromTemplate
<1>4. ASSUME IsMap(x[k]), IsMap(y[k])
      PROVE  FromTemplate(x, y, lockedFields, <<k, j>>) <=>
               y[k][j] # Absent /\ k \notin lockedFields /\ j \notin lockedFields
  <2>1. Merged(x, y, <<k, j>>) = <<k, j>>
    BY <1>1, <1>4
  <2>2. (\A i \in DOMAIN <<k, j>> : <<k, j>>[i] \notin lockedFields)
          <=> k \notin lockedFields /\ j \notin lockedFields
    OBVIOUS
  <2> QED
    BY <1>4, <2>1, <2>2, AtPath DEF FromTemplate
<1> QED
  BY <1>2, <1>3, <1>4

\* For any two maps of any depth and any locked fields, mergeMaps (merge.go 15-30) gives a
\* scalar at a path the value of the template, where the template says something there or
\* has no map above it, and else the value that is stored; and a second merge of the same
\* template changes nothing.
THEOREM MergeMapsOverlays ==
  \A m1, m2 \in Maps(Level[Depth]) : \A lockedFields : Overlays(m1, m2, lockedFields)
<1> SUFFICES ASSUME NEW x \in Maps(Level[Depth]), NEW y \in Maps(Level[Depth]), NEW lockedFields
             PROVE  Overlays(x, y, lockedFields)
  OBVIOUS
<1> DEFINE D == Depth
<1>d. D \in 0..Depth
  BY DepthAssumption
<1>1. PICK m : m = MergeMaps(x, y, lockedFields)
  OBVIOUS
<1>2. m = MergeAt(D, x, y, lockedFields)
  BY <1>1 DEF MergeMaps, MergeAt
<1>3. MergeMaps(m, y, lockedFields) = m
  BY <1>d, <1>2, MergeAgain DEF MergeMaps, MergeAt
<1>4. \A k \in Keys : m[k] = KeyAt(D, x, y, lockedFields, k)
  BY <1>d, <1>2, MergeKey
<1>5. ASSUME NEW k \in Keys, ~(y[k] = Absent \/ k \in lockedFields), IsMap(x[k]), IsMap(y[k])
      PROVE  /\ IsMap(m[k])
             /\ \A j \in Keys : m[k][j] = KeyAt(D - 1, x[k], y[k], lockedFields, j)
             /\ \A j \in Keys : IsMap(x[k][j]) /\ IsMap(y[k][j])
                                  => IsMap(MergeAt(D - 2, x[k][j], y[k][j], lockedFields))
  <2>1. D - 1 \in 0..Depth /\ x[k] \in Maps(Level[D - 1]) /\ y[k] \in Maps(Level[D - 1])
    BY <1>d, <1>5, ValueOfKey
  <2>2. m[k] = MergeAt(D - 1, x[k], y[k], lockedFields)
    BY <1>4, <1>5 DEF KeyAt
  <2>3. IsMap(m[k])
    BY <2>1, <2>2, MergeType, MapsAreMaps
  <2>4. \A j \in Keys : m[k][j] = KeyAt(D - 1, x[k], y[k], lockedFields, j)
    BY <2>1, <2>2, MergeKey
  <2>5. ASSUME NEW j \in Keys, IsMap(x[k][j]), IsMap(y[k][j])
        PROVE  IsMap(MergeAt(D - 2, x[k][j], y[k][j], lockedFields))
    <3>1. /\ (D - 1) - 1 \in 0..Depth /\ (D - 1) - 1 = D - 2
          /\ x[k][j] \in Maps(Level[(D - 1) - 1]) /\ y[k][j] \in Maps(Level[(D - 1) - 1])
      BY <2>1, <2>5, ValueOfKey, DepthAssumption
    <3> QED
      BY <3>1, MergeType, MapsAreMaps
  <2> QED
    BY <2>3, <2>4, <2>5
<1>6. ASSUME NEW k \in Keys, ~IsMap(m[k])
      PROVE  m[k] = IF y[k] # Absent /\ k \notin lockedFields THEN y[k] ELSE x[k]
  BY <1>4, <1>5, <1>6 DEF KeyAt
<1>7. ASSUME NEW path \in Paths, ~IsMap(At(m, path))
      PROVE  At(m, path) = At(IF FromTemplate(x, y, lockedFields, path) THEN y ELSE x, path)
  <2>1. ASSUME NEW k \in Keys, path = <<k>>
        PROVE  At(m, path) = At(IF FromTemplate(x, y, lockedFields, path) THEN y ELSE x, path)
    <3>1. \A w : At(w, path) = w[k]
      BY <2>1, AtPath
    <3>2. FromTemplate(x, y, lockedFields, path) <=> y[k] # Absent /\ k \notin lockedFields
      BY <2>1, FromPath
    <3> QED
      BY <1>6, <1>7, <3>1, <3>2
  <2>2. ASSUME NEW k \in Keys, NEW j \in Keys, path = <<k, j>>
        PROVE  At(m, path) = At(IF FromTemplate(x, y, lockedFields, path) THEN y ELSE x, path)
    <3>0. \A w : At(w, path) = IF IsMap(w[k]) THEN w[k][j] ELSE Absent
      BY <2>2, AtPath
    <3>1. CASE y[k] = Absent \/ k \in lockedFields
      <4>1. m[k] = x[k]
        BY <1>4, <3>1 DEF KeyAt
      <4>2. ~FromTemplate(x, y, lockedFields, path)
        <5>1. CASE IsMap(x[k]) /\ IsMap(y[k])
          BY <2>2, <3>1, <5>1, FromPath DEF IsMap
        <5>2. CASE ~(IsMap(x[k]) /\ IsMap(y[k]))
          BY <2>2, <3>1, <5>2, FromPath
        <5> QED
          BY <5>1, <5>2
      <4> QED
        BY <3>0, <4>1, <4>2
    <3>2. CASE ~(y[k] = Absent \/ k \in lockedFields) /\ ~(IsMap(x[k]) /\ IsMap(y[k]))
      <4>1. m[k] = y[k]
        BY <1>4, <3>2 DEF KeyAt
      <4>2. FromTemplate(x, y, lockedFields, path)
        BY <2>2, <3>2, FromPath
      <4> QED
        BY <3>0, <4>1, <4>2
    <3>3. CASE ~(y[k] = Absent \/ k \in lockedFields) /\ IsMap(x[k]) /\ IsMap(y[k])
      <4>1. /\ At(m, path) = KeyAt(D - 1, x[k], y[k], lockedFields, j)
            /\ At(x, path) = x[k][j] /\ At(y, path) = y[k][j]
        BY <1>5, <2>2, <3>3, AtPath
      <4>2. FromTemplate(x, y, lockedFields, path) <=> y[k][j] # Absent /\ j \notin lockedFields
        BY <2>2, <3>3, FromPath
      <4>3. IsMap(x[k][j]) /\ IsMap(y[k][j])
              => IsMap(MergeAt((D - 1) - 1, x[k][j], y[k][j], lockedFields))
        <5>1. (D - 1) - 1 = D - 2
          BY DepthAssumption
        <5> QED
          BY <1>5, <3>3, <5>1
      <4> QED
        BY <1>7, <4>1, <4>2, <4>3 DEF KeyAt
    <3> QED
      BY <3>1, <3>2, <3>3
  <2> QED
    BY <2>1, <2>2 DEF Paths
<1> QED
  BY <1>1, <1>3, <1>7 DEF Overlays

\* The maps that TLC tries are some of these.
LEMMA TriedMaps == MergeOverlays
<1>1. ASSUME NEW values, NEW m \in MapsTried(values) PROVE m \in Maps(values)
  BY DEF MapsTried, Maps
<1>2. 1 \in 0..Depth /\ 1 \in 1..Depth /\ 1 - 1 = 0
  BY DepthAssumption
<1>3. Level[1] = Scalars \union Maps(Scalars)
  BY <1>2, LevelIs
<1>4. MapsTried(Scalars) \subseteq Maps(Scalars)
  BY <1>1
<1>5. ASSUME NEW m \in MapsTried(Scalars \union MapsTried(Scalars))
      PROVE  m \in Maps(Level[Depth])
  <2>1. m \in Maps(Scalars \union MapsTried(Scalars))
    BY <1>1, <1>5
  <2>2. m \in Maps(Level[1])
    BY <2>1, <1>3, <1>4 DEF Maps
  <2> QED
    BY <1>2, <2>2, MapsAreMaps
<1> QED
  BY <1>5, MergeMapsOverlays DEF MergeOverlays

-----------------------------------------------------------------------------
(* The objects of CruObject.                                                *)

\* The tree of an object is a map.
LEMMA TreeType ==
  ASSUME NEW data \in Data
  PROVE  /\ InnerMap(data) \in Maps(Level[0])
         /\ Tree(data) \in Maps(Level[1]) /\ Tree(data) \in Maps(Level[Depth])
         /\ InnerMap(data) \in Maps(Level[Depth - 1])
         /\ IsMap(InnerMap(data))
<1>1. \A f \in Fields : Leaf(data, f) \in Scalars \union {Absent}
  BY LayoutAssumption DEF Leaf, Data
<1>2. InnerMap(data) \in Maps(Level[0])
  BY <1>1, LevelIs DEF InnerMap, Maps
<1>3. 0 \in 0..Depth /\ 1 \in 0..Depth /\ 1 \in 1..Depth /\ 1 - 1 = 0 /\ Depth - 1 \in 0..Depth
  BY DepthAssumption
<1>4. Level[1] = Scalars \union Maps(Level[0])
  BY <1>3, LevelIs
<1>5. Tree(data) \in Maps(Level[1])
  <2> HIDE DEF Level
  <2> QED
    BY <1>1, <1>2, <1>4 DEF Tree, Maps
<1>6. Scalars \subseteq Level[Depth - 1]
  BY <1>3, LevelIs, DepthAssumption
<1>7. InnerMap(data) \in Maps(Level[Depth - 1])
  BY <1>2, <1>6, LevelIs DEF Maps
<1> QED
  BY <1>2, <1>3, <1>5, <1>7, MapsAreMaps

\* Merging leaf by leaf is merging the trees.
LEMMA TreeOfMerge ==
  ASSUME NEW d1 \in Data, NEW d2 \in Data
  PROVE  Tree(Merge(d1, d2)) = MergeMaps(Tree(d1), Tree(d2), {})
<1> DEFINE D == Depth
<1>d. D \in 0..Depth /\ D - 1 \in 0..Depth
  BY DepthAssumption
<1>n. PICK none : none = {}
  OBVIOUS
<1>0. Merge(d1, d2) \in Data
  BY DataClosed
<1>1. PICK x : x = Tree(d1)
  OBVIOUS
<1>2. PICK y : y = Tree(d2)
  OBVIOUS
<1>3. PICK z : z = Tree(Merge(d1, d2))
  OBVIOUS
<1>4. PICK m : m = MergeAt(D, x, y, none)
  OBVIOUS
<1>5. x \in Maps(Level[D]) /\ y \in Maps(Level[D])
  BY <1>1, <1>2, TreeType
<1>6. m = [k \in Keys |-> m[k]] /\ \A k \in Keys : m[k] = KeyAt(D, x, y, none, k)
  <2> HIDE DEF D
  <2>1. D \in 0..Depth
    BY <1>d
  <2>2. m = [k \in Keys |-> m[k]]
    BY <1>4, <1>5, <2>1, MergeKey
  <2>3. \A k \in Keys : m[k] = KeyAt(D, x, y, none, k)
    BY <1>4, <1>5, <2>1, MergeKey
  <2> QED
    BY <2>2, <2>3
<1>7. \A f \in Fields : /\ Merge(d1, d2)[f] = IF d2[f] = NoValue THEN d1[f] ELSE d2[f]
                        /\ ~IsMap(Leaf(d1, f)) /\ ~IsMap(Leaf(d2, f))
                        /\ Leaf(Merge(d1, d2), f) = IF Leaf(d2, f) = Absent THEN Leaf(d1, f)
                                                    ELSE Leaf(d2, f)
                        /\ Leaf(d2, f) = Absent <=> d2[f] = NoValue
  BY LayoutAssumption, ScalarsAssumption DEF Merge, Leaf, IsMap, Data
<1>8. PICK a : a = InnerMap(d1)
  OBVIOUS
<1>9. PICK b : b = InnerMap(d2)
  OBVIOUS
<1>10. /\ a \in Maps(Level[D - 1]) /\ b \in Maps(Level[D - 1])
       /\ IsMap(a) /\ IsMap(b) /\ a # Absent /\ b # Absent /\ ~IsMap(Absent)
  BY <1>8, <1>9, TreeType DEF IsMap
<1>11. InnerMap(Merge(d1, d2)) = MergeAt(D - 1, a, b, none)
  <2>1. PICK n : n = MergeAt(D - 1, a, b, none)
    OBVIOUS
  <2>2. n = [k \in Keys |-> n[k]] /\ \A k \in Keys : n[k] = KeyAt(D - 1, a, b, none, k)
    BY <1>d, <1>10, <2>1, MergeKey
  <2>3. ASSUME NEW k \in Keys
        PROVE  n[k] = IF k \in Fields \intersect Inner THEN Leaf(Merge(d1, d2), k) ELSE Absent
    <3>1. /\ a[k] = IF k \in Fields \intersect Inner THEN Leaf(d1, k) ELSE Absent
          /\ b[k] = IF k \in Fields \intersect Inner THEN Leaf(d2, k) ELSE Absent
      BY <1>8, <1>9 DEF InnerMap
    <3>2. n[k] = KeyAt(D - 1, a, b, none, k)
      BY <2>2
    <3> QED
      BY <1>n, <1>7, <3>1, <3>2 DEF KeyAt
  <2> QED
    BY <2>1, <2>2, <2>3 DEF InnerMap
<1>12. ASSUME NEW k \in Keys PROVE m[k] = z[k]
  <2>1. m[k] = KeyAt(D, x, y, none, k)
    BY <1>6
  <2> DEFINE some(d) == \E f \in Fields \intersect Inner : d[f] # NoValue
  <2>2. CASE k \in Fields \ Inner
    <3>1. x[k] = Leaf(d1, k) /\ y[k] = Leaf(d2, k) /\ z[k] = Leaf(Merge(d1, d2), k)
      BY <1>1, <1>2, <1>3, <2>2 DEF Tree
    <3> QED
      BY <1>n, <1>7, <2>1, <2>2, <3>1 DEF KeyAt
  <2>3. CASE k = map
    <3>1. k \notin Fields
      BY <2>3, LayoutAssumption
    <3>2. /\ x[k] = IF some(d1) THEN a ELSE Absent
          /\ y[k] = IF some(d2) THEN b ELSE Absent
          /\ z[k] = IF some(Merge(d1, d2)) THEN InnerMap(Merge(d1, d2)) ELSE Absent
      BY <1>1, <1>2, <1>3, <1>8, <1>9, <2>3, <3>1 DEF Tree
    <3>3. some(Merge(d1, d2)) <=> some(d1) \/ some(d2)
      BY <1>7
    <3>4. ~some(d2) => InnerMap(Merge(d1, d2)) = a
      BY <1>7, <1>8 DEF InnerMap
    <3>5. ~some(d1) => InnerMap(Merge(d1, d2)) = b
      <4>1. ~some(d1) => \A f \in Fields \intersect Inner : Leaf(d1, f) = Absent
        BY DEF Leaf
      <4> QED
        BY <1>7, <1>9, <4>1 DEF InnerMap
    <3> HIDE DEF some
    <3>6. CASE ~some(d2)
      BY <1>n, <1>10, <2>1, <3>2, <3>3, <3>4, <3>6 DEF KeyAt
    <3>7. CASE some(d2) /\ ~some(d1)
      BY <1>n, <1>10, <2>1, <3>2, <3>3, <3>5, <3>7 DEF KeyAt
    <3>8. CASE some(d2) /\ some(d1)
      BY <1>n, <1>10, <1>11, <2>1, <3>2, <3>3, <3>8 DEF KeyAt
    <3> QED
      BY <3>6, <3>7, <3>8
  <2>4. CASE k \notin Fields \ Inner /\ k # map
    <3>1. x[k] = Absent /\ y[k] = Absent /\ z[k] = Absent
      BY <1>1, <1>2, <1>3, <2>4 DEF Tree
    <3> QED
      BY <2>1, <3>1 DEF KeyAt
  <2> QED
    BY <2>2, <2>3, <2>4
<1>13. z = [k \in Keys |-> z[k]]
  BY <1>3 DEF Tree
<1>14. m = z
  BY <1>6, <1>12, <1>13
<1> QED
  BY <1>n, <1>1, <1>2, <1>3, <1>4, <1>14 DEF MergeMaps, MergeAt

\* What a call that merges sends is what mergeMaps makes of the object it has got
\* (capi.go 148-155), for any fields in any layout, and mergeMaps overlays.
THEOREM CallsMergeMaps == ~Replaces => (Spec => []MergedAsMaps)
<1> SUFFICES ASSUME ~Replaces PROVE Spec => []MergedAsMaps
  OBVIOUS
<1>1. TypeOK => MergedAsMaps
  <2> SUFFICES ASSUME TypeOK, NEW c \in Calls
               PROVE  Tree(Updated(c)) = MergeMaps(Tree(base[c].data), Tree(Desired[c]), {})
    BY TriedMaps DEF MergedAsMaps
  <2>1. Updated(c) = Merge(base[c].data, Desired[c])
    BY DEF Updated
  <2>2. base[c].data \in Data /\ Desired[c] \in Data
    BY DesiredAssumption DEF TypeOK, Object
  <2> QED
    BY <2>1, <2>2, TreeOfMerge
<1> QED
  BY <1>1, TypeCorrect, PTL
=============================================================================
