----------------------------- MODULE Analytics -----------------------------
(***************************************************************************)
(* The dbt project over the raw tables: the staging and revision-history   *)
(* views, the two incremental fact tables and the reconciliation tests, as *)
(* `dbt build` runs them (one thread, --fail-fast) while ingestion goes on.*)
(*                                                                         *)
(* An incremental merge model with on_schema_change=fail runs as two jobs: *)
(* the model's SELECT fills a temporary table, then a MERGE applies it.    *)
(* A build whose process is killed may leave its MERGE running.            *)
(***************************************************************************)
EXTENDS AtomicWarehouse

CONSTANTS
    Product,    \* the products, one fact table each
    ProductOf,  \* ProductOf[k]: the product a key belongs to
    MaxClock    \* bound on the server clock

ASSUME AnalyticsAssumption ==
    /\ ProductOf \in [Key -> Product]
    /\ MaxClock \in Nat

VARIABLES
    built,  \* the fact tables that exist
    facts,  \* their rows
    build,  \* the build that is running, or the outcome of the last one
    late    \* a MERGE that outlived its build

vars == <<rawVars, built, facts, build, late>>
marts == <<built, facts>>

FactRow == [key : Key, value : Value, run : Run, ordinal : Nat, seq : Nat,
            known : Time, first_run : Run, seen : Time]
Merge == [product : Product \cup {Null}, rows : SUBSET FactRow]
Build == [pc : {"idle", "select", "merge", "test"}, full : BOOLEAN,
          todo : SUBSET Product, merge : Merge, base : SUBSET Run,
          verdict : {"none", "passed", "failed"}]

NoMerge == [product |-> Null, rows |-> {}]

TypeOK ==
    /\ RawTypeOK
    /\ built \subseteq Product
    /\ facts \in [Product -> SUBSET FactRow]
    /\ build \in Build
    /\ late \in Merge

Init ==
    /\ RawInit
    /\ built = {}
    /\ facts = [p \in Product |-> {}]
    /\ build = [pc |-> "idle", full |-> FALSE, todo |-> {}, merge |-> NoMerge,
                base |-> {}, verdict |-> "none"]
    /\ late = NoMerge

PublishedRuns == {r \in Run : Published(r)}

----------------------------------------------------------------------------
(* The views.                                                              *)

\* Mutant: staging forgets the status filter.
EligibleTransitionsAll(p) == {t \in transitions : ProductOf[t.key] = p}

\* stg_*_state_transitions and stg_*_contents: rows of SUCCEEDED runs.
EligibleTransitions(p) ==
    {t \in transitions : ProductOf[t.key] = p /\ Published(t.run)}

EligibleContents(p) ==
    {x \in contents : ProductOf[x.key] = p /\ Published(x.run)}

\* int_*_revision_history: the inner join on content_id.
Occurrence(t, x) ==
    [key |-> t.key, value |-> x.value, run |-> t.run, ordinal |-> t.ordinal,
     seq |-> t.seq, known |-> t.known, first_run |-> x.run, seen |-> x.seen]

RevisionHistory(p) ==
    {Occurrence(j[1], j[2]) :
        j \in {i \in EligibleTransitions(p) \X EligibleContents(p) :
                   i[1].key = i[2].key /\ i[1].value = i[2].value}}

\* Mutant: the row whose content was seen last, instead of the last state.
RankedByContentAge(rows) ==
    {h \in rows : \A g \in rows : g.key = h.key => g.seen <= h.seen}

\* row_number() = 1 by state_ordinal, then commit_sequence, both descending.
Ranked(rows) ==
    {h \in rows : \A g \in rows :
        g.key = h.key => \/ g.ordinal < h.ordinal
                         \/ g.ordinal = h.ordinal /\ g.seq <= h.seq}

\* Mutant: a knowledge-time watermark.
CandidatesByTime(p) ==
    {h \in RevisionHistory(p) : \A f \in facts[p] : h.known > f.known}

\* The incremental predicate: commit_sequence above the fact table's maximum.
Candidates(p) == {h \in RevisionHistory(p) : \A f \in facts[p] : h.seq > f.seq}

\* MERGE on logical_key.
MergeInto(old, new) == {f \in old : \A g \in new : g.key # f.key} \cup new

\* What a fact row says about the raw transition it was built from.
Source(f) == [run |-> f.run, key |-> f.key, value |-> f.value,
              ordinal |-> f.ordinal, seq |-> f.seq, known |-> f.known]

\* reconcile_*.sql: history against the eligible raw transitions, facts against
\* the latest of them.
LatestEligible(p) ==
    {t \in EligibleTransitions(p) : \A u \in EligibleTransitions(p) :
        u.key = t.key => \/ u.ordinal < t.ordinal
                         \/ u.ordinal = t.ordinal /\ u.seq <= t.seq}

Reconciled(p) ==
    /\ {Source(h) : h \in RevisionHistory(p)} = EligibleTransitions(p)
    /\ {Source(f) : f \in facts[p]} = LatestEligible(p)

\* valid_*_facts.sql and unique_grain: both runs of a fact SUCCEEDED, its content
\* row exists, its two knowledge times are those runs' and in order; one per key.
ValidFacts(p) ==
    /\ \A f \in facts[p] :
           /\ Published(f.run) /\ Published(f.first_run)
           /\ \E x \in contents : x.key = f.key /\ x.value = f.value
           /\ f.known # Null /\ f.known = accepted[f.run].at
           /\ f.seen # Null /\ f.seen = accepted[f.first_run].at
           /\ f.seen <= f.known
    /\ \A f, g \in facts[p] : f.key = g.key => f = g

----------------------------------------------------------------------------
(* The build.                                                              *)

\* Mutant: nobody inspects the jobs of a build that was killed.
Uninspected == TRUE

\* What the operator sees to, and no code: after a killed or timed-out build, its
\* BigQuery jobs are inspected before another writer is started, as the error of
\* build_dbt demands.
Inspected == late = NoMerge

\* One writer per target. build_dbt() itself looks at no job.
StartBuild(full) ==
    /\ build.pc = "idle"
    /\ Inspected
    /\ build' = [pc |-> "select", full |-> full, todo |-> Product,
                 merge |-> NoMerge, base |-> PublishedRuns, verdict |-> "none"]
    /\ UNCHANGED <<rawVars, marts, late>>

\* First build of the model, or --full-refresh: the table is created from the
\* whole history in one job.
CreateFacts(p) ==
    /\ build.pc = "select"
    /\ p \in build.todo
    /\ p \notin built \/ build.full
    /\ facts' = [facts EXCEPT ![p] = Ranked(RevisionHistory(p))]
    /\ built' = built \cup {p}
    /\ build' = [build EXCEPT !.pc = "test", !.merge = [product |-> p, rows |-> {}]]
    /\ UNCHANGED <<rawVars, late>>

SelectCandidates(p) ==
    /\ build.pc = "select"
    /\ p \in build.todo
    /\ p \in built /\ ~build.full
    /\ build' = [build EXCEPT !.pc = "merge",
                     !.merge = [product |-> p, rows |-> Ranked(Candidates(p))]]
    /\ UNCHANGED <<rawVars, marts, late>>

MergeCandidates ==
    LET m == build.merge
    IN  /\ build.pc = "merge"
        /\ facts' = [facts EXCEPT ![m.product] = MergeInto(@, m.rows)]
        /\ build' = [build EXCEPT !.pc = "test", !.merge.rows = {}]
        /\ UNCHANGED <<rawVars, built, late>>

\* The tests run after their model; the first failure ends the build.
RunTests ==
    LET p == build.merge.product
        rest == build.todo \ {p}
        passed == Reconciled(p) /\ ValidFacts(p)
    IN  /\ build.pc = "test"
        /\ build' = [build EXCEPT
                         !.pc = IF passed /\ rest # {} THEN "select" ELSE "idle",
                         !.todo = IF passed THEN rest ELSE {},
                         !.merge = NoMerge,
                         !.verdict = IF ~passed THEN "failed"
                                     ELSE IF rest = {} THEN "passed" ELSE "none"]
        /\ UNCHANGED <<rawVars, marts, late>>

\* The 900 s timeout, or the death of the process: a MERGE it submitted may
\* still be running.
KillBuild ==
    /\ build.pc # "idle"
    /\ late' \in IF build.pc = "merge" THEN {NoMerge, build.merge} ELSE {NoMerge}
    /\ build' = [build EXCEPT !.pc = "idle", !.todo = {}, !.merge = NoMerge]
    /\ UNCHANGED <<rawVars, marts>>

LateMerge ==
    /\ late # NoMerge
    /\ facts' = [facts EXCEPT ![late.product] = MergeInto(@, late.rows)]
    /\ late' = NoMerge
    /\ UNCHANGED <<rawVars, built, build>>

BuildStep ==
    \/ \E p \in Product : CreateFacts(p) \/ SelectCandidates(p)
    \/ MergeCandidates \/ RunTests

\* Ingestion continues meanwhile; a batch belongs to one product.
Ingest ==
    /\ \/ \E r \in Run, b \in Batch :
              /\ b # NoBatch
              /\ \A j, k \in DOMAIN b : ProductOf[j] = ProductOf[k]
              /\ Accept(r, b)
       \/ \E r \in Run, t \in 0..clock : Publish(r, t)
       \/ clock < MaxClock /\ Tick
    /\ UNCHANGED <<marts, build, late>>

Next ==
    \/ Ingest
    \/ \E full \in BOOLEAN : StartBuild(full)
    \/ BuildStep
    \/ KillBuild
    \/ LateMerge

Spec == Init /\ [][Next]_vars

\* Builds are started again and again and, from some point on, not killed.
FairSpec ==
    /\ Spec
    /\ WF_vars(StartBuild(FALSE))
    /\ WF_vars(BuildStep)
    /\ WF_vars(LateMerge)
    /\ <>[][~KillBuild]_vars

----------------------------------------------------------------------------

\* The latest states of a product's keys after the first n commits.
StateAsOf(p, n) ==
    {t \in transitions :
        /\ ProductOf[t.key] = p
        /\ t.seq <= n
        /\ \A u \in transitions : u.key = t.key /\ u.seq <= n => u.seq <= t.seq}

\* A fact table is a cut of history: whatever mix of first builds, merges, full
\* refreshes, killed builds and late merges produced it, its rows are exactly
\* the latest states after some number of commits, one row per key. No commit
\* below the watermark was skipped, none above it half applied.
FactsAreACut ==
    \A p \in built : \E n \in 0..sequence :
        /\ {Source(f) : f \in facts[p]} = StateAsOf(p, n)
        /\ Cardinality(facts[p]) = Cardinality(StateAsOf(p, n))

\* Readers of the facts see finalized knowledge only, at every moment and not
\* just when the tests run: a state and its content come from SUCCEEDED runs and
\* carry their knowledge times, the content's no later than the state's.
FactsAreKnown == \A p \in built : ValidFacts(p)

\* The inner join neither drops nor duplicates an eligible transition.
HistoryIsComplete ==
    \A p \in Product :
        /\ {Source(h) : h \in RevisionHistory(p)} = EligibleTransitions(p)
        /\ Cardinality(RevisionHistory(p)) = Cardinality(EligibleTransitions(p))

\* The reconciliation tests fail only because ingestion published something
\* after the build started: a build over a quiet warehouse passes.
QuietBuildsPass == build.verdict = "failed" => build.base # PublishedRuns

\* A key's fact never goes back to an earlier state and never disappears, as long
\* as the operator's inspection (Inspected) keeps two writers apart: the code alone
\* does not see to it.
FactsNeverRegress ==
    [][\A p \in Product : \A f \in facts[p] : \E g \in facts'[p] :
           g.key = f.key /\ g.seq >= f.seq]_vars

\* Everything published is eventually in the facts, for good.
FactsCatchUp ==
    <>[](\A p \in Product : /\ p \in built
                            /\ {Source(f) : f \in facts[p]} = LatestEligible(p))
=============================================================================
