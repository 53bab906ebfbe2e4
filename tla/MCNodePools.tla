---------------------------- MODULE MCNodePools -----------------------------
(* NodePools for TLC: three names, and options that differ in one thing each. *)
EXTENDS NodePools

CONSTANTS a, b, oneB

\* The last one is written 1b.
MCSpelling == (a :> <<10>>) @@ (b :> <<11>>) @@ (oneB :> <<1, 11>>)

MCPool(name, replicas, memory, ocpus, volume) ==
  [name |-> name, replicas |-> replicas, memory |-> memory, ocpus |-> ocpus, volume |-> volume]

\* From the first: another size; another version and no second pool; a name given
\* twice.  Of the last three one has no pools and two make the same text.
MCOptions ==
  {[version |-> 1, pools |-> <<MCPool(a, 1, 16, 1, 50), MCPool(b, 1, 16, 1, 50)>>],
   [version |-> 1, pools |-> <<MCPool(a, 2, 16, 1, 50), MCPool(b, 1, 16, 1, 50)>>],
   [version |-> 2, pools |-> <<MCPool(a, 1, 16, 1, 50)>>],
   [version |-> 1, pools |-> <<MCPool(a, 1, 16, 1, 50), MCPool(a, 2, 32, 2, 50)>>],
   [version |-> 1, pools |-> <<>>],
   [version |-> 1, pools |-> <<MCPool(a, 1, 16, 1, 50), MCPool(oneB, 1, 16, 1, 50)>>],
   [version |-> 1, pools |-> <<MCPool(a, 1, 16, 11, 50), MCPool(b, 1, 16, 1, 50)>>]}

\* Only the size of the boot volumes differs.
MCVolumes ==
  {[version |-> 1, pools |-> <<MCPool(a, 1, 16, 1, size)>>] : size \in {50, 100}}
=============================================================================
