------------------------------ MODULE MCMultimap ------------------------------
(* Small multimaps for TLC.  k2 and k2b are two addresses that compare equal. *)
EXTENDS Multimap

CONSTANTS k1, k2, k2b, k3, k4, p

FiveKeys == {k1, k2, k2b, k3, k4}
FiveRanks ==
  [k \in FiveKeys |-> CASE k = k1 -> 1 [] k \in {k2, k2b} -> 2 [] k = k3 -> 3 [] k = k4 -> 4]
=============================================================================
