------------------------- MODULE MCClusterLifecycle -------------------------
(* ClusterLifecycle for TLC: a cluster that is displayed under its own name or *)
(* another.                                                                    *)
EXTENDS ClusterLifecycle, TLC

CONSTANTS own, other

MCDisplayNames == {own, other}
MCOwnName == {own}
=============================================================================
