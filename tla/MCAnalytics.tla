---------------------------- MODULE MCAnalytics ----------------------------
(* Instances of Analytics for TLC.                                         *)
EXTENDS Analytics, TLC

CONSTANTS k1, k2, k3, lmp, load

\* Two keys of one product; a key of each product.
OneProduct == (k1 :> lmp) @@ (k2 :> lmp)
TwoProducts == (k1 :> lmp) @@ (k3 :> load)

\* Run IDs, content hashes and the keys of a product are interchangeable.
Symmetry == Permutations(Run) \cup Permutations(Value) \cup Permutations({k1, k2})
=============================================================================
