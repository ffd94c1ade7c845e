----------------------------- MODULE MCBackfill -----------------------------
(* Instances of Backfill for TLC.                                          *)
EXTENDS Backfill

CONSTANTS k1, k2, k3, k4, r1, r2, r3, r4

Lmp(d) == [product |-> "lmp", day |-> d, hub |-> 1]
Load(d) == [product |-> "load", day |-> d, hub |-> NoHub]

\* Two days of LMP.
TwoDays == {Lmp(1), Lmp(2)}
TwoDaysRun == (Lmp(1) :> r1) @@ (Lmp(2) :> r2)
TwoDaysKeys == (Lmp(1) :> {k1}) @@ (Lmp(2) :> {k2})
BothDays == [start |-> 1, end |-> 2, lmp |-> TRUE, load |-> FALSE,
             hubs |-> <<1>>, dbt |-> TRUE]
OnePlan == {BothDays}

\* Two plans that share their load units: two days of both products, and the load
\* alone. A third one asks for load on day 0, a 25-hour day.
Mixed == {Lmp(1), Load(1), Lmp(2), Load(2)}
MixedRun == (Lmp(1) :> r1) @@ (Load(1) :> r2) @@ (Lmp(2) :> r3) @@ (Load(2) :> r4)
MixedKeys == (Lmp(1) :> {k1}) @@ (Load(1) :> {k2}) @@ (Lmp(2) :> {k3}) @@ (Load(2) :> {k4})
MixedPlans ==
    {[start |-> 1, end |-> 2, lmp |-> TRUE, load |-> TRUE, hubs |-> <<1>>, dbt |-> TRUE],
     [start |-> 1, end |-> 2, lmp |-> FALSE, load |-> TRUE, hubs |-> <<>>, dbt |-> FALSE],
     [start |-> 0, end |-> 1, lmp |-> FALSE, load |-> TRUE, hubs |-> <<>>, dbt |-> FALSE]}

Symmetry == Permutations(Client)
=============================================================================
