---------------------------- MODULE MCCruObject -----------------------------
(* CruObject for TLC: two calls against an object of three fields, one      *)
(* specified by every call, one by the first only, and one by none (it      *)
(* belongs to a controller); and what its Merge has to do with mergeMaps.   *)
EXTENDS ObjectMaps, TLC

CONSTANTS c1, c2, spec, extra, owned, v1, v2

\* Both calls render spec; only the first renders extra; owned is a controller's.
MCDesired == (c1 :> (spec :> v1 @@ extra :> v1 @@ owned :> NoValue))
          @@ (c2 :> (spec :> v2 @@ extra :> NoValue @@ owned :> NoValue))

\* The secret's data is always rendered whole.
MCDesiredWhole == (c1 :> (spec :> v1 @@ extra :> v1)) @@ (c2 :> (spec :> v2 @@ extra :> v2))
=============================================================================
