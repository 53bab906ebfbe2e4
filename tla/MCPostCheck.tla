---------------------------- MODULE MCPostCheck -----------------------------
(* PostCheck for TLC. *)
EXTENDS PostCheck, TLC

CONSTANTS n1, n2

\* A cluster without workers, with everything; and one with workers, on a network of
\* its own, without Verrazzano.  An Update takes the workers away or adds some, and adds
\* Verrazzano.
MCOptions == {[single |-> TRUE, quick |-> TRUE, install |-> TRUE],
              [single |-> FALSE, quick |-> FALSE, install |-> FALSE]}
=============================================================================
