---------------------------- MODULE MCWarehouse ----------------------------
(* Instances of Warehouse for TLC: the request layouts and the symmetry.   *)
EXTENDS Warehouse, TLC

CONSTANTS q1, q2, k1, k2

\* One request over one key; over two keys; two requests over a key each.
OneKey == q1 :> {k1}
TwoKeys == q1 :> {k1, k2}
TwoRequests == (q1 :> {k1}) @@ (q2 :> {k2})

\* Run IDs, invocations and content hashes are interchangeable.
Symmetry == Permutations(Run) \cup Permutations(Client) \cup Permutations(Value)
=============================================================================
