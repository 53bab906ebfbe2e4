----------------------------- MODULE ObjectMaps -----------------------------
(***************************************************************************)
(* What the merge of leaf fields in CruObject has to do with mergeMaps,    *)
(* which works on maps in maps: the leaves are laid out in a tree.         *)
(***************************************************************************)
EXTENDS CruObject, MergeMaps

CONSTANTS
  Inner,      \* the fields that are in a map below the top
  map         \* the key of that map

ASSUME LayoutAssumption ==
  /\ Values \subseteq Scalars
  /\ Fields \union {map} \subseteq Keys
  /\ map \notin Fields

\* The tree of an object: what has no value is not there, nor is a map of nothing.
Leaf(data, k) == IF data[k] = NoValue THEN Absent ELSE data[k]
InnerMap(data) == [k \in Keys |-> IF k \in Fields \intersect Inner THEN Leaf(data, k) ELSE Absent]
Tree(data) ==
  [k \in Keys |->
     IF k \in Fields \ Inner THEN Leaf(data, k)
     ELSE IF k = map /\ \E f \in Fields \intersect Inner : data[f] # NoValue THEN InnerMap(data)
     ELSE Absent]

\* What a call sends is what mergeMaps makes of the object it has got, and mergeMaps
\* overlays, whatever the objects and the locked fields are.
MergedAsMaps ==
  /\ MergeOverlays
  /\ \A c \in Calls :
       pc[c] = "update" =>
         Tree(Updated(c)) = MergeMaps(Tree(base[c].data), Tree(Desired[c]), {})
=============================================================================
