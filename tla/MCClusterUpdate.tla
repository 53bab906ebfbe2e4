-------------------------- MODULE MCClusterUpdate ---------------------------
(* ClusterUpdate for TLC: two node pools, one or both of which a configuration *)
(* drops and a later one may bring back.                                      *)
EXTENDS ClusterUpdate, TLC

CONSTANTS a, b

\* The second configuration has no workers at all; the third has some again, and
\* another control plane.
MCEmptyPools == <<{a, b}, {}, {a}>>
MCEmptyWorkerHash == <<1, 2, 1>>
MCEmptyControlPlaneHash == <<1, 1, 2>>

\* The third configuration is the first with another control plane.
MCPools == <<{a, b}, {a}, {a, b}>>
MCWorkerHash == <<1, 2, 1>>
MCControlPlaneHash == <<1, 1, 2>>

\* The workers of the second configuration do not come up.
MCNoneBroken == {}
MCBrokenWorkers == {<<a, 2>>}
=============================================================================
