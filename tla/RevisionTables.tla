--------------------------- MODULE RevisionTables ---------------------------
(***************************************************************************)
(* The raw revision tables and the pure planner that decides what an       *)
(* accepted batch adds to them: *_contents holds each distinct value of an *)
(* observation once, *_state_transitions holds each change of its value.   *)
(* The LMP and the load tables are one here: their keys are disjoint.      *)
(***************************************************************************)
EXTENDS Naturals, FiniteSets

CONSTANTS
    Run,      \* caller-chosen run IDs
    Key,      \* logical observation keys
    Value,    \* content hashes an observation of a key can have
    Null      \* NULL where a timestamp is expected

ASSUME NullAssumption == Null \notin Nat

VARIABLES
    sequence,     \* warehouse_control.sequence
    contents,     \* *_contents rows
    transitions   \* *_state_transitions rows

Time == Nat \cup {Null}

Batch == UNION {[S -> Value] : S \in {K \in SUBSET Key : IsFiniteSet(K)}}
ContentRow == [key : Key, value : Value, run : Run, seen : Time]
TransitionRow == [run : Run, key : Key, value : Value, ordinal : Nat,
                  seq : Nat, known : Time]
Plan == [expected : Nat, contents : SUBSET ContentRow,
         transitions : SUBSET TransitionRow, batch : Batch]
NoBatch == [k \in {} |-> Null]

\* The snapshot's latest state of a key: its transition of highest ordinal.
LatestRows(k) ==
    {t \in transitions : /\ t.key = k
                         /\ \A u \in transitions :
                                u.key = k => u.ordinal <= t.ordinal}

\* Mutants: a reappearing value is taken for a known one; MAX()+1 over no rows.
ChangedUnlessStored(k, v) == ~\E x \in contents : x.key = k /\ x.value = v
NextOrdinalOfNull(k) ==
    IF LatestRows(k) = {} THEN Null
    ELSE (CHOOSE t \in LatestRows(k) : TRUE).ordinal + 1

\* Only a material change creates a transition.
Changed(k, v) == \A t \in LatestRows(k) : t.value # v

NextOrdinal(k) ==
    IF LatestRows(k) = {} THEN 1
    ELSE (CHOOSE t \in LatestRows(k) : TRUE).ordinal + 1

Stored(k, v) == \E x \in contents : x.key = k /\ x.value = v

\* Mutants: content only for the first state of a key; content for every change.
NewContentsFirstOnly(r, b) ==
    {[key |-> k, value |-> b[k], run |-> r, seen |-> Null] :
        k \in {j \in DOMAIN b : LatestRows(j) = {}}}
NewContentsPerChange(r, b) ==
    {[key |-> k, value |-> b[k], run |-> r, seen |-> Null] :
        k \in {j \in DOMAIN b : Changed(j, b[j])}}

\* The rows plan_write adds for batch b. A value that reappears reuses its
\* content row; timestamps stay NULL until finalization.
NewContents(r, b) ==
    {[key |-> k, value |-> b[k], run |-> r, seen |-> Null] :
        k \in {j \in DOMAIN b : ~Stored(j, b[j])}}

NewTransitions(r, b) ==
    {[run |-> r, key |-> k, value |-> b[k], ordinal |-> NextOrdinal(k),
      seq |-> sequence + 1, known |-> Null] :
        k \in {j \in DOMAIN b : Changed(j, b[j])}}

\* The batch fingerprint is a digest of the batch's key/hash pairs, kept here
\* as those pairs.
PlanWrite(r, b) ==
    [expected |-> sequence, contents |-> NewContents(r, b),
     transitions |-> NewTransitions(r, b), batch |-> b]

\* Insert-only MERGE, on content_id (key and value) and on transition_id (run
\* and key).
MergeContents(rows) ==
    contents \cup {x \in rows : ~Stored(x.key, x.value)}

MergeTransitions(rows) ==
    transitions \cup {x \in rows : \A t \in transitions :
                                       ~(t.run = x.run /\ t.key = x.key)}

\* Finalization stamps the rows a run added, once.
StampContents(r, t) ==
    {IF x.run = r /\ x.seen = Null THEN [x EXCEPT !.seen = t] ELSE x : x \in contents}

StampTransitions(r, t) ==
    {IF x.run = r /\ x.known = Null THEN [x EXCEPT !.known = t] ELSE x :
        x \in transitions}
=============================================================================
