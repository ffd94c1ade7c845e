-------------------------- MODULE AnalyticsProofs --------------------------
(***************************************************************************)
(* The dbt models over a warehouse that goes on ingesting: for any number  *)
(* of runs, keys, products and builds, the views are complete and the fact *)
(* tables are cuts of the commit history that never go back.               *)
(***************************************************************************)
EXTENDS Analytics, AtomicWarehouseProofs

\* The number of commits that readers may see: all but an open last one.
Frontier == IF \E r \in Run : accepted[r].state = "open" THEN sequence - 1 ELSE sequence

Covers(n, base) == \A r \in base : accepted[r].seq <= n

\* The rows F of product p are those of a cut of history that includes the runs
\* in base.
FactsMatch(p, F, base) ==
    /\ F \subseteq RevisionHistory(p)
    /\ \E n \in 0..Frontier : /\ {Source(f) : f \in F} = StateAsOf(p, n)
                              /\ Covers(n, base)

\* A MERGE that has its rows and has not been applied.
Pending(m, base) ==
    /\ m.product \in built
    /\ FactsMatch(m.product, MergeInto(facts[m.product], m.rows), base)
    /\ \A f \in facts[m.product], g \in m.rows : f.seq < g.seq

MartsAreCuts ==
    /\ \A p \in Product : p \notin built => facts[p] = {}
    /\ \A p \in built : FactsMatch(p, facts[p], {})

\* What a build relies on between its jobs, and a killed one leaves behind.
BuildIsSound ==
    /\ build.base \subseteq PublishedRuns
    /\ build.verdict = "failed" => build.base # PublishedRuns
    /\ build.pc # "idle" => late = NoMerge
    /\ build.pc = "merge" => Pending(build.merge, build.base)
    /\ build.pc = "test" =>
           /\ build.merge.product \in built
           /\ FactsMatch(build.merge.product, facts[build.merge.product], build.base)
    /\ late # NoMerge => Pending(late, {})

\* The inductive invariant.
AnalyticsInv == RawInv /\ TypeOK /\ MartsAreCuts /\ BuildIsSound

----------------------------------------------------------------------------
(* The views.                                                              *)

\* Readers see exactly the commits up to the frontier.
LEMMA FrontierFacts ==
    ASSUME RawInv
    PROVE  /\ Frontier \in 0..sequence
           /\ \A r \in Run : Published(r) <=> Taken(r) /\ accepted[r].seq <= Frontier
           /\ \A t \in transitions : Published(t.run) <=> t.seq <= Frontier
<1>0. /\ sequence \in Nat
      /\ \A r \in Run : /\ accepted[r].seq \in Nat
                        /\ accepted[r].state \in {"none", "open", "published"}
                        /\ Taken(r) => accepted[r].seq \in 1..sequence
      /\ \A r \in Run : accepted[r].state = "open" => accepted[r].seq = sequence
      /\ \A r, s \in Run : Taken(r) /\ Taken(s) /\ accepted[r].seq = accepted[s].seq => r = s
  BY DEF RawInv, RawTypeOK, Entry, RunState, SequencesAreTotal, GateIsSound
<1>1. Frontier \in 0..sequence
  BY <1>0 DEF Frontier, Taken
<1>2. ASSUME NEW r \in Run
      PROVE  Published(r) <=> Taken(r) /\ accepted[r].seq <= Frontier
  <2>1. CASE \E s \in Run : accepted[s].state = "open"
    <3>1. PICK s \in Run : accepted[s].state = "open"
      BY <2>1
    <3>2. Frontier = sequence - 1
      BY <2>1 DEF Frontier
    <3>3. Taken(s) /\ accepted[s].seq = sequence
      BY <1>0, <3>1 DEF Taken
    <3>4. CASE r = s
      BY <1>0, <3>1, <3>2, <3>3, <3>4 DEF Published
    <3>5. CASE r # s
      <4>1. accepted[r].state # "open"
        BY <1>0, <3>3, <3>5 DEF Taken
      <4>2. Taken(r) => accepted[r].seq # sequence
        BY <1>0, <3>3, <3>5
      <4> QED BY <1>0, <3>2, <4>1, <4>2 DEF Published, Taken
    <3> QED BY <3>4, <3>5
  <2>2. CASE ~\E s \in Run : accepted[s].state = "open"
    BY <1>0, <2>2 DEF Frontier, Published, Taken
  <2> QED BY <2>1, <2>2
<1>3. \A t \in transitions : t.run \in Run /\ Taken(t.run) /\ t.seq = accepted[t.run].seq
  BY TakenRuns DEF RawInv, SequencesAreTotal
<1> QED BY <1>1, <1>2, <1>3

\* Fields of a fact row and of its source.
LEMMA SourceFields ==
    ASSUME NEW f
    PROVE  /\ Source(f).run = f.run /\ Source(f).key = f.key /\ Source(f).value = f.value
           /\ Source(f).ordinal = f.ordinal /\ Source(f).seq = f.seq
           /\ Source(f).known = f.known
BY DEF Source

\* The inner join on content_id, row by row.
LEMMA HistoryRows ==
    ASSUME RawInv, NEW p
    PROVE  /\ \A h \in RevisionHistory(p) :
                  /\ h \in FactRow
                  /\ Source(h) \in EligibleTransitions(p)
                  /\ \E x \in EligibleContents(p) :
                         /\ x.key = h.key /\ x.value = h.value
                         /\ h.first_run = x.run /\ h.seen = x.seen
           /\ \A t \in EligibleTransitions(p) : \E h \in RevisionHistory(p) : Source(h) = t
           /\ \A h, g \in RevisionHistory(p) : Source(h) = Source(g) => h = g
<1>0. /\ \A t \in EligibleTransitions(p) : t \in transitions /\ t \in TransitionRow
      /\ \A x \in EligibleContents(p) : x \in contents /\ x \in ContentRow
  BY DEF EligibleTransitions, EligibleContents, RawInv, RawTypeOK
<1>1. ASSUME NEW h \in RevisionHistory(p)
      PROVE  \E t \in EligibleTransitions(p), x \in EligibleContents(p) :
                 h = Occurrence(t, x) /\ t.key = x.key /\ t.value = x.value
  BY DEF RevisionHistory
<1>2. ASSUME NEW t \in EligibleTransitions(p), NEW x \in EligibleContents(p),
             t.key = x.key, t.value = x.value
      PROVE  /\ Occurrence(t, x) \in RevisionHistory(p)
             /\ Occurrence(t, x) \in FactRow
             /\ Source(Occurrence(t, x)) = t
             /\ Occurrence(t, x).key = x.key /\ Occurrence(t, x).value = x.value
             /\ Occurrence(t, x).first_run = x.run /\ Occurrence(t, x).seen = x.seen
  <2>1. Occurrence(t, x) \in RevisionHistory(p)
    <3>1. <<t, x>> \in EligibleTransitions(p) \X EligibleContents(p)
      OBVIOUS
    <3>2. <<t, x>>[1] = t /\ <<t, x>>[2] = x
      OBVIOUS
    <3> QED BY <1>2, <3>1, <3>2 DEF RevisionHistory
  <2>2. Occurrence(t, x) \in FactRow
    BY <1>0 DEF Occurrence, FactRow, TransitionRow, ContentRow
  <2>3. Source(Occurrence(t, x)) = [run |-> t.run, key |-> t.key, value |-> t.value,
                                    ordinal |-> t.ordinal, seq |-> t.seq, known |-> t.known]
    BY <1>2 DEF Source, Occurrence
  <2>4. Source(Occurrence(t, x)) = t
    BY <1>0, <2>3 DEF TransitionRow
  <2>5. /\ Occurrence(t, x).key = x.key /\ Occurrence(t, x).value = x.value
        /\ Occurrence(t, x).first_run = x.run /\ Occurrence(t, x).seen = x.seen
    BY <1>2 DEF Occurrence
  <2> QED BY <2>1, <2>2, <2>4, <2>5
<1>3. ASSUME NEW t \in EligibleTransitions(p)
      PROVE  \E h \in RevisionHistory(p) : Source(h) = t
  <2>0. t \in transitions /\ t.run \in Run /\ Published(t.run) /\ ProductOf[t.key] = p
    BY <1>0, TakenRuns DEF EligibleTransitions
  <2>1. PICK x \in contents : /\ x.key = t.key /\ x.value = t.value
                              /\ accepted[x.run].seq <= t.seq
    BY <2>0 DEF RawInv, ContentsMatch
  <2>2. x.run \in Run /\ Taken(x.run) /\ accepted[x.run].seq \in Nat
    BY TakenRuns DEF RawInv, SequencesAreTotal
  <2>3. t.seq \in Nat /\ t.seq <= Frontier /\ Frontier \in Nat
    BY <2>0, FrontierFacts, TakenRuns
  <2>4. Published(x.run)
    BY <2>1, <2>2, <2>3, FrontierFacts
  <2>5. x \in EligibleContents(p)
    BY <2>0, <2>1, <2>4 DEF EligibleContents
  <2> QED BY <1>2, <2>1, <2>5
<1>4. ASSUME NEW h \in RevisionHistory(p), NEW g \in RevisionHistory(p), Source(h) = Source(g)
      PROVE  h = g
  <2>1. PICK t \in EligibleTransitions(p), x \in EligibleContents(p) :
            h = Occurrence(t, x) /\ t.key = x.key /\ t.value = x.value
    BY <1>1
  <2>2. PICK u \in EligibleTransitions(p), y \in EligibleContents(p) :
            g = Occurrence(u, y) /\ u.key = y.key /\ u.value = y.value
    BY <1>1
  <2>3. t = u
    BY <1>2, <1>4, <2>1, <2>2
  <2>4. x = y
    BY <1>0, <2>1, <2>2, <2>3 DEF RawInv, ContentsMatch
  <2> QED BY <2>1, <2>2, <2>3, <2>4
<1>5. ASSUME NEW h \in RevisionHistory(p)
      PROVE  /\ h \in FactRow
             /\ Source(h) \in EligibleTransitions(p)
             /\ \E x \in EligibleContents(p) :
                    /\ x.key = h.key /\ x.value = h.value
                    /\ h.first_run = x.run /\ h.seen = x.seen
  BY <1>1, <1>2
<1> QED BY <1>3, <1>4, <1>5

\* The rows of the history, seen through their sources.
LEMMA HistoryFacts ==
    ASSUME RawInv, NEW p, NEW h \in RevisionHistory(p)
    PROVE  /\ Source(h) \in transitions /\ ProductOf[h.key] = p
           /\ h.seq \in Nat /\ h.ordinal \in Nat /\ h.seq <= Frontier
<1>1. Source(h) \in EligibleTransitions(p)
  BY HistoryRows
<1>2. Source(h) \in transitions /\ ProductOf[Source(h).key] = p /\ Published(Source(h).run)
  BY <1>1 DEF EligibleTransitions
<1>3. Source(h).seq \in Nat /\ Source(h).ordinal \in Nat /\ Source(h).seq <= Frontier
  BY <1>2, TakenRuns, FrontierFacts
<1> QED BY <1>2, <1>3, SourceFields

----------------------------------------------------------------------------
(* Ingestion under the marts: what readers saw stays.                      *)

\* What a step of the raw warehouse keeps: published runs and their rows are
\* left alone, and the frontier passes over no commit it had counted.
RawKeeps ==
    /\ Frontier \in Nat /\ Frontier' \in Nat /\ Frontier <= Frontier'
    /\ \A r \in Run : Published(r) => Published(r)' /\ accepted'[r] = accepted[r]
    /\ \A t \in transitions : Published(t.run) => t \in transitions'
    /\ \A x \in contents : Published(x.run) => x \in contents'
    /\ \A t \in transitions' : t.seq <= Frontier => t \in transitions

LEMMA AcceptKeeps ==
    ASSUME RawInv, RawInv', NEW r \in Run, NEW b \in Batch, Accept(r, b)
    PROVE  RawKeeps
<1>1. /\ ~Taken(r) /\ sequence' = sequence + 1
      /\ accepted'[r].state = "open"
      /\ \A s \in Run \ {r} : accepted'[s] = accepted[s] /\ accepted[s].state # "open"
      /\ contents' = contents \cup NewContents(r, b)
      /\ transitions' = transitions \cup NewTransitions(r, b)
  BY AcceptFacts, Zenon
<1>2. sequence \in Nat
  BY TakenRuns
<1>3. Frontier = sequence /\ Frontier' = sequence
  BY <1>1, <1>2 DEF Frontier, Taken
<1>4. \A s \in Run : Published(s) => Published(s)' /\ accepted'[s] = accepted[s]
  BY <1>1 DEF Published, Taken
<1>5. \A t \in NewTransitions(r, b) : t.seq = sequence + 1
  BY NewTransitionsFacts
<1> QED BY <1>1, <1>2, <1>3, <1>4, <1>5 DEF RawKeeps

LEMMA PublishKeeps ==
    ASSUME RawInv, RawInv', NEW r \in Run, NEW t \in 0..clock, Publish(r, t)
    PROVE  RawKeeps
<1>1. /\ accepted'[r].state = "published" /\ accepted[r].seq = sequence
      /\ \A s \in Run \ {r} : /\ accepted'[s] = accepted[s]
                              /\ Published(s)' <=> Published(s)
                              /\ accepted[s].state # "open"
  BY PublishRuns, Zenon
<1>2. /\ accepted[r].state = "open" /\ sequence' = sequence
      /\ contents' = {StampedContent(x, r, t) : x \in contents}
      /\ transitions' = {StampedState(x, r, t) : x \in transitions}
  BY PublishFacts, Zenon
<1>3. /\ \A x \in contents : x.run # r => StampedContent(x, r, t) = x
      /\ \A x \in transitions : x.run # r => StampedState(x, r, t) = x
  BY DEF StampedContent, StampedState
<1>4. \A y \in transitions' : \E x \in transitions :
          /\ y = StampedState(x, r, t) /\ y \in TransitionRow
          /\ y.run = x.run /\ y.key = x.key /\ y.value = x.value
          /\ y.ordinal = x.ordinal /\ y.seq = x.seq
          /\ y.known = IF x.run = r THEN t ELSE x.known
  BY PublishTransitions, Zenon
<1>5. sequence \in Nat /\ sequence >= 1
  BY <1>1, <1>2, TakenRuns DEF RawInv, SequencesAreTotal, Taken
<1>6. Frontier = sequence - 1 /\ Frontier' = sequence
  BY <1>1, <1>2, <1>5 DEF Frontier
<1>7. \A s \in Run : Published(s) => Published(s)' /\ accepted'[s] = accepted[s]
  BY <1>1, <1>2 DEF Published
<1>8. \A x \in transitions : x.run = r => x.seq = sequence
  BY <1>1 DEF RawInv, SequencesAreTotal
<1>9. \A y \in transitions' : y.seq <= Frontier => y \in transitions
  BY <1>3, <1>4, <1>5, <1>6, <1>8
<1>10. ~Published(r)
  BY <1>2 DEF Published
<1>11. /\ \A x \in transitions : Published(x.run) => x \in transitions'
       /\ \A x \in contents : Published(x.run) => x \in contents'
  BY <1>2, <1>3, <1>10
<1> QED BY <1>5, <1>6, <1>7, <1>9, <1>11 DEF RawKeeps

LEMMA RawStepKeeps ==
    ASSUME RawInv, RawInv', [RawNext]_rawVars
    PROVE  RawKeeps
<1>1. CASE \E r \in Run : \E b \in Batch : Accept(r, b)
  <2>1. PICK r \in Run, b \in Batch : Accept(r, b)
    BY <1>1
  <2> QED BY <2>1, AcceptKeeps, Zenon
<1>2. CASE \E r \in Run : \E t \in 0..clock : Publish(r, t)
  <2>1. PICK r \in Run, t \in 0..clock : Publish(r, t)
    BY <1>2
  <2> QED BY <2>1, PublishKeeps, Zenon
<1>3. CASE Tick \/ UNCHANGED rawVars
  <2>1. /\ sequence' = sequence /\ contents' = contents /\ transitions' = transitions
        /\ accepted' = accepted
    BY <1>3 DEF Tick, rawVars
  <2>2. Frontier \in Nat /\ Frontier' = Frontier
    BY <2>1, FrontierFacts, TakenRuns DEF Frontier
  <2> QED BY <2>1, <2>2 DEF RawKeeps, Published
<1> QED BY <1>1, <1>2, <1>3 DEF RawNext

\* A cut of the history that readers could see is the same cut ever after.
LEMMA CutsKept ==
    ASSUME RawInv, RawInv', RawKeeps, NEW p
    PROVE  /\ RevisionHistory(p) \subseteq RevisionHistory(p)'
           /\ \A n \in 0..Frontier : StateAsOf(p, n)' = StateAsOf(p, n)
           /\ PublishedRuns \subseteq PublishedRuns'
<1>1. /\ EligibleTransitions(p) \subseteq EligibleTransitions(p)'
      /\ EligibleContents(p) \subseteq EligibleContents(p)'
  <2>1. (\A t \in transitions : t.run \in Run) /\ (\A x \in contents : x.run \in Run)
    BY TakenRuns
  <2> QED BY <2>1 DEF RawKeeps, EligibleTransitions, EligibleContents
<1>2. RevisionHistory(p) \subseteq RevisionHistory(p)'
  BY <1>1 DEF RevisionHistory
<1>3. ASSUME NEW n \in 0..Frontier
      PROVE  StateAsOf(p, n)' = StateAsOf(p, n)
  <2>0. Frontier \in Nat /\ n \in Nat /\ n <= Frontier
    BY DEF RawKeeps
  <2>1. \A t \in transitions : t.seq <= n => t \in transitions'
    <3>1. \A t \in transitions : t.seq \in Nat
      BY TakenRuns
    <3>2. \A t \in transitions : t.seq <= n => Published(t.run)
      BY <2>0, <3>1, FrontierFacts
    <3> QED BY <3>2 DEF RawKeeps
  <2>2. \A t \in transitions' : t.seq <= n => t \in transitions
    <3>1. \A t \in transitions' : t.seq \in Nat
      BY DEF RawInv, RawTypeOK, TransitionRow
    <3> QED BY <2>0, <3>1 DEF RawKeeps
  <2> QED BY <2>1, <2>2 DEF StateAsOf
<1>4. PublishedRuns \subseteq PublishedRuns'
  BY DEF RawKeeps, PublishedRuns
<1> QED BY <1>2, <1>3, <1>4

\* Rows that form a cut go on forming it while runs are accepted and published.
LEMMA MatchKept ==
    ASSUME RawInv, RawInv', RawKeeps, NEW p, NEW F, NEW base, base \subseteq PublishedRuns,
           FactsMatch(p, F, base)
    PROVE  /\ F \subseteq RevisionHistory(p)'
           /\ \E n \in 0..Frontier' : /\ {Source(f) : f \in F} = StateAsOf(p, n)'
                                      /\ \A r \in base : accepted'[r].seq <= n
<1>1. PICK n \in 0..Frontier : /\ {Source(f) : f \in F} = StateAsOf(p, n)
                               /\ Covers(n, base)
  BY DEF FactsMatch
<1>2. n \in 0..Frontier'
  BY DEF RawKeeps
<1>3. StateAsOf(p, n)' = StateAsOf(p, n) /\ RevisionHistory(p) \subseteq RevisionHistory(p)'
  BY CutsKept
<1>4. \A r \in base : accepted'[r].seq <= n
  BY <1>1 DEF Covers, RawKeeps, PublishedRuns
<1> QED BY <1>1, <1>2, <1>3, <1>4 DEF FactsMatch

----------------------------------------------------------------------------
(* The fact models.                                                        *)

\* Every commit up to the frontier is in the history.
LEMMA HistoryCovers ==
    ASSUME RawInv, NEW p, NEW t \in transitions, ProductOf[t.key] = p, t.seq <= Frontier
    PROVE  \E h \in RevisionHistory(p) : /\ Source(h) = t
                                         /\ h.key = t.key /\ h.seq = t.seq
                                         /\ h.ordinal = t.ordinal
<1>1. t \in EligibleTransitions(p)
  BY FrontierFacts DEF EligibleTransitions
<1>2. PICK h \in RevisionHistory(p) : Source(h) = t
  BY <1>1, HistoryRows
<1> QED BY <1>2, SourceFields

\* In the history too, the states of a key are ordered alike by ordinal and by
\* commit.
LEMMA HistoryOrder ==
    ASSUME RawInv, NEW p, NEW h \in RevisionHistory(p), NEW g \in RevisionHistory(p),
           h.key = g.key
    PROVE  /\ h.ordinal <= g.ordinal <=> h.seq <= g.seq
           /\ h.seq = g.seq => h = g
<1>1. /\ Source(h) \in transitions /\ Source(g) \in transitions
      /\ Source(h).key = Source(g).key
  BY HistoryFacts, SourceFields
<1>2. /\ Source(h).ordinal <= Source(g).ordinal <=> Source(h).seq <= Source(g).seq
      /\ Source(h).seq = Source(g).seq => Source(h) = Source(g)
  BY <1>1 DEF RawInv, StatesAreOrdered
<1>3. Source(h) = Source(g) => h = g
  BY HistoryRows
<1> QED BY <1>2, <1>3, SourceFields

\* The incremental model: merging the ranked candidates above the watermark of
\* a cut yields the cut at the frontier, whatever lies between the two.
LEMMA MergedCut ==
    ASSUME RawInv, NEW p, NEW F, F \subseteq RevisionHistory(p), NEW n \in 0..Frontier,
           {Source(f) : f \in F} = StateAsOf(p, n), NEW rows,
           rows = Ranked({h \in RevisionHistory(p) : \A f \in F : h.seq > f.seq})
    PROVE  /\ MergeInto(F, rows) \subseteq RevisionHistory(p)
           /\ {Source(f) : f \in MergeInto(F, rows)} = StateAsOf(p, Frontier)
           /\ \A f \in F, g \in rows : f.seq < g.seq
<1> DEFINE C == {h \in RevisionHistory(p) : \A f \in F : h.seq > f.seq}
<1>0. /\ Frontier \in Nat /\ n \in Nat /\ n <= Frontier
      /\ \A t \in transitions : t.seq \in Nat /\ t.ordinal \in Nat
  BY FrontierFacts, TakenRuns
<1>1. \A h \in RevisionHistory(p) :
          /\ Source(h) \in transitions /\ ProductOf[h.key] = p
          /\ h.seq \in Nat /\ h.ordinal \in Nat /\ h.seq <= Frontier
          /\ Source(h).key = h.key /\ Source(h).seq = h.seq
  BY HistoryFacts, SourceFields
<1>2. \A f \in F :
          /\ f \in RevisionHistory(p) /\ f.seq <= n
          /\ \A u \in transitions : u.key = f.key /\ u.seq <= n => u.seq <= f.seq
  <2> SUFFICES ASSUME NEW f \in F
               PROVE  /\ f \in RevisionHistory(p) /\ f.seq <= n
                      /\ \A u \in transitions : u.key = f.key /\ u.seq <= n => u.seq <= f.seq
    OBVIOUS
  <2>1. Source(f) \in StateAsOf(p, n)
    OBVIOUS
  <2> QED BY <1>1, <2>1 DEF StateAsOf
<1>3. \A g \in rows : /\ g \in RevisionHistory(p)
                      /\ \A f \in F : f.seq < g.seq
                      /\ \A h \in C : h.key = g.key => h.seq <= g.seq
  <2> SUFFICES ASSUME NEW g \in rows
               PROVE  /\ g \in RevisionHistory(p)
                      /\ \A f \in F : f.seq < g.seq
                      /\ \A h \in C : h.key = g.key => h.seq <= g.seq
    OBVIOUS
  <2>1. g \in C /\ \A h \in C : h.key = g.key => \/ h.ordinal < g.ordinal
                                                 \/ h.ordinal = g.ordinal /\ h.seq <= g.seq
    BY DEF Ranked
  <2>2. \A h \in C : h.key = g.key => h.seq <= g.seq
    <3> SUFFICES ASSUME NEW h \in C, h.key = g.key PROVE h.seq <= g.seq
      OBVIOUS
    <3>1. h \in RevisionHistory(p) /\ g \in RevisionHistory(p) /\ h.ordinal <= g.ordinal
      BY <1>1, <2>1
    <3> QED BY <3>1, HistoryOrder
  <2> QED BY <1>1, <1>2, <2>1, <2>2
<1>4. ASSUME NEW w \in transitions, ProductOf[w.key] = p, n < w.seq, w.seq <= Frontier,
             \A u \in transitions : u.key = w.key /\ u.seq <= Frontier => u.seq <= w.seq
      PROVE  \E h \in rows : Source(h) = w /\ h.key = w.key
  <2>1. PICK h \in RevisionHistory(p) : /\ Source(h) = w /\ h.key = w.key /\ h.seq = w.seq
                                        /\ h.ordinal = w.ordinal
    BY <1>4, HistoryCovers
  <2>2. h \in C
    BY <1>0, <1>1, <1>2, <1>4, <2>1
  <2>3. ASSUME NEW c \in C, c.key = h.key
        PROVE  \/ c.ordinal < h.ordinal
               \/ c.ordinal = h.ordinal /\ c.seq <= h.seq
    <3>1. c \in RevisionHistory(p) /\ c.seq <= h.seq
      BY <1>1, <1>4, <2>1, <2>3
    <3>2. c.ordinal <= h.ordinal
      BY <2>3, <3>1, HistoryOrder
    <3> QED BY <1>1, <3>1, <3>2
  <2>4. h \in rows
    BY <2>2, <2>3 DEF Ranked
  <2> QED BY <2>1, <2>4
<1> HIDE DEF C
<1>5. ASSUME NEW f \in MergeInto(F, rows)
      PROVE  Source(f) \in StateAsOf(p, Frontier)
  <2>0. f \in RevisionHistory(p)
    BY <1>2, <1>3 DEF MergeInto
  <2> SUFFICES ASSUME NEW u \in transitions, u.key = f.key, u.seq <= Frontier
               PROVE  u.seq <= f.seq
    BY <1>1, <2>0 DEF StateAsOf
  <2>1. SUFFICES ASSUME f.seq < u.seq PROVE FALSE
    BY <1>0, <1>1, <2>0
  <2>2. CASE f \in rows
    <3>1. PICK h \in RevisionHistory(p) : h.key = u.key /\ h.seq = u.seq
      BY <1>1, <2>0, HistoryCovers
    <3>2. h \in C
      BY <1>0, <1>1, <1>2, <1>3, <2>0, <2>1, <2>2, <3>1 DEF C
    <3> QED BY <1>0, <1>1, <1>3, <2>0, <2>1, <2>2, <3>1, <3>2
  <2>3. CASE f \in F /\ \A g \in rows : g.key # f.key
    <3>1. PICK w \in transitions :
              /\ w.key = u.key /\ w.seq <= Frontier
              /\ \A v \in transitions : v.key = u.key /\ v.seq <= Frontier => v.seq <= w.seq
      BY <1>0 DEF RawInv, StatesHaveLatest
    <3>2. n < w.seq
      BY <1>0, <1>1, <1>2, <2>0, <2>1, <2>3, <3>1
    <3>3. \E h \in rows : h.key = w.key
      BY <1>1, <1>4, <2>0, <3>1, <3>2
    <3> QED BY <2>3, <3>1, <3>3
  <2> QED BY <2>2, <2>3 DEF MergeInto
<1>6. ASSUME NEW t \in StateAsOf(p, Frontier)
      PROVE  \E f \in MergeInto(F, rows) : Source(f) = t
  <2>0. /\ t \in transitions /\ ProductOf[t.key] = p /\ t.seq <= Frontier
        /\ \A u \in transitions : u.key = t.key /\ u.seq <= Frontier => u.seq <= t.seq
    BY DEF StateAsOf
  <2>1. CASE t.seq <= n
    <3>1. t \in StateAsOf(p, n)
      BY <1>0, <2>0, <2>1 DEF StateAsOf
    <3>2. PICK f \in F : Source(f) = t
      BY <3>1
    <3>3. f.key = t.key /\ f.seq = t.seq
      BY <3>2, SourceFields
    <3>4. \A g \in rows : g.key # f.key
      <4> SUFFICES ASSUME NEW g \in rows, g.key = f.key PROVE FALSE
        OBVIOUS
      <4>1. Source(g) \in transitions /\ Source(g).key = t.key /\ Source(g).seq = g.seq
            /\ g.seq <= Frontier /\ g.seq \in Nat
        BY <1>1, <1>3, <3>3
      <4>2. g.seq <= t.seq /\ t.seq < g.seq
        BY <1>3, <2>0, <3>3, <4>1
      <4> QED BY <1>0, <2>0, <4>1, <4>2
    <3> QED BY <3>2, <3>4 DEF MergeInto
  <2>2. CASE n < t.seq
    BY <1>4, <2>0, <2>2 DEF MergeInto
  <2> QED BY <1>0, <2>0, <2>1, <2>2
<1>7. MergeInto(F, rows) \subseteq RevisionHistory(p)
  BY <1>2, <1>3 DEF MergeInto
<1>8. {Source(f) : f \in MergeInto(F, rows)} = StateAsOf(p, Frontier)
  BY <1>5, <1>6
<1> QED BY <1>3, <1>7, <1>8

\* The first build and the full refresh: ranking the whole history yields the
\* cut at the frontier.
LEMMA CreatedCut ==
    ASSUME RawInv, NEW p
    PROVE  /\ Ranked(RevisionHistory(p)) \subseteq RevisionHistory(p)
           /\ {Source(f) : f \in Ranked(RevisionHistory(p))} = StateAsOf(p, Frontier)
<1>1. StateAsOf(p, 0) = {}
  <2>1. \A t \in transitions : t.seq \in Nat /\ t.seq >= 1
    BY TakenRuns DEF RawInv, SequencesAreTotal
  <2> QED BY <2>1 DEF StateAsOf
<1>2. 0 \in 0..Frontier
  BY FrontierFacts, TakenRuns
<1>3. {h \in RevisionHistory(p) : \A f \in {} : h.seq > f.seq} = RevisionHistory(p)
  OBVIOUS
<1>4. MergeInto({}, Ranked(RevisionHistory(p))) = Ranked(RevisionHistory(p))
  BY DEF MergeInto
<1>5. {Source(f) : f \in {}} = StateAsOf(p, 0)
  BY <1>1
<1> QED BY <1>2, <1>3, <1>4, <1>5, MergedCut

\* The frontier covers every published run, and nothing less does.
LEMMA FrontierCovers ==
    ASSUME RawInv
    PROVE  /\ Frontier \in 0..Frontier
           /\ \A base \in SUBSET PublishedRuns : Covers(Frontier, base)
           /\ \A n \in 0..Frontier : Covers(n, PublishedRuns) => n = Frontier
<1>0. Frontier \in Nat /\ sequence \in Nat /\ Frontier <= sequence
  BY FrontierFacts, TakenRuns
<1>1. \A base \in SUBSET PublishedRuns : Covers(Frontier, base)
  BY FrontierFacts DEF Covers, PublishedRuns
<1>2. ASSUME NEW n \in 0..Frontier, Covers(n, PublishedRuns)
      PROVE  n = Frontier
  <2>1. CASE Frontier = 0
    BY <1>0, <2>1
  <2>2. CASE Frontier # 0
    <3>1. Frontier \in 1..sequence
      BY <1>0, <2>2
    <3>2. PICK r \in Run : Taken(r) /\ accepted[r].seq = Frontier
      BY <3>1 DEF RawInv, SequencesAreTotal
    <3>3. r \in PublishedRuns
      BY <1>0, <3>2, FrontierFacts DEF PublishedRuns
    <3> QED BY <1>0, <1>2, <3>2, <3>3 DEF Covers
  <2> QED BY <2>1, <2>2
<1> QED BY <1>0, <1>1, <1>2

\* reconcile_*.sql's expectation is the cut at the frontier.
LEMMA LatestIsFrontier ==
    ASSUME RawInv, NEW p
    PROVE  LatestEligible(p) = StateAsOf(p, Frontier)
<1>1. \A t : t \in EligibleTransitions(p) <=>
          t \in transitions /\ ProductOf[t.key] = p /\ t.seq <= Frontier
  BY FrontierFacts DEF EligibleTransitions
<1>2. \A t, u \in transitions : t.key = u.key =>
          ((u.ordinal < t.ordinal \/ (u.ordinal = t.ordinal /\ u.seq <= t.seq))
              <=> u.seq <= t.seq)
  <2> SUFFICES ASSUME NEW t \in transitions, NEW u \in transitions, t.key = u.key
               PROVE  (u.ordinal < t.ordinal \/ (u.ordinal = t.ordinal /\ u.seq <= t.seq))
                          <=> u.seq <= t.seq
    OBVIOUS
  <2>1. /\ t.seq \in Nat /\ u.seq \in Nat /\ t.ordinal \in Nat /\ u.ordinal \in Nat
        /\ u.ordinal <= t.ordinal <=> u.seq <= t.seq
    BY TakenRuns DEF RawInv, StatesAreOrdered
  <2> QED BY <2>1
<1> QED BY <1>1, <1>2 DEF LatestEligible, StateAsOf

----------------------------------------------------------------------------
(* What a cut is worth to its readers.                                     *)

\* A cut has one row per key.
LEMMA CutHasOneRow ==
    ASSUME RawInv, NEW p, NEW F, NEW base, FactsMatch(p, F, base)
    PROVE  \A f, g \in F : f.key = g.key => f = g
<1>0. F \subseteq RevisionHistory(p)
  BY DEF FactsMatch
<1>1. PICK n \in 0..Frontier : {Source(f) : f \in F} = StateAsOf(p, n)
  BY DEF FactsMatch
<1> SUFFICES ASSUME NEW f \in F, NEW g \in F, f.key = g.key PROVE f = g
  OBVIOUS
<1>2. Source(f) \in StateAsOf(p, n) /\ Source(g) \in StateAsOf(p, n)
  BY <1>1
<1>3. Source(f).seq <= Source(g).seq /\ Source(g).seq <= Source(f).seq
  BY <1>2, SourceFields DEF StateAsOf
<1>4. f.seq \in Nat /\ g.seq \in Nat /\ f.seq <= g.seq /\ g.seq <= f.seq
  BY <1>0, <1>3, HistoryFacts, SourceFields
<1>5. f.seq = g.seq
  BY <1>4
<1> QED BY <1>0, <1>5, HistoryOrder

\* Facts that form a cut satisfy valid_*_facts.sql and unique_grain.
LEMMA CutIsValid ==
    ASSUME RawInv, NEW p, NEW base, FactsMatch(p, facts[p], base)
    PROVE  ValidFacts(p)
<1>1. ASSUME NEW f \in facts[p]
      PROVE  /\ Published(f.run) /\ Published(f.first_run)
             /\ \E x \in contents : x.key = f.key /\ x.value = f.value
             /\ f.known # Null /\ f.known = accepted[f.run].at
             /\ f.seen # Null /\ f.seen = accepted[f.first_run].at
             /\ f.seen <= f.known
  <2>0. f \in RevisionHistory(p)
    BY DEF FactsMatch
  <2>1. Source(f) \in EligibleTransitions(p)
    BY <2>0, HistoryRows
  <2>2. PICK x \in EligibleContents(p) : /\ x.key = f.key /\ x.value = f.value
                                         /\ f.first_run = x.run /\ f.seen = x.seen
    BY <2>0, HistoryRows
  <2>3. /\ Source(f) \in transitions /\ Source(f).run \in Run /\ Published(Source(f).run)
        /\ Source(f).seq = accepted[Source(f).run].seq
        /\ Source(f).known = accepted[Source(f).run].at
    BY <2>1, TakenRuns DEF EligibleTransitions, RawInv, SequencesAreTotal, KnowledgeIsOrdered
  <2>4. x \in contents /\ x.run \in Run /\ Published(x.run) /\ x.seen = accepted[x.run].at
    BY TakenRuns DEF EligibleContents, RawInv, KnowledgeIsOrdered
  <2>5. accepted[x.run].seq <= accepted[Source(f).run].seq
    <3>1. PICK y \in contents : /\ y.key = Source(f).key /\ y.value = Source(f).value
                                /\ accepted[y.run].seq <= Source(f).seq
      BY <2>3 DEF RawInv, ContentsMatch
    <3>2. y = x
      BY <2>2, <2>4, <3>1, SourceFields DEF RawInv, ContentsMatch
    <3> QED BY <2>3, <3>1, <3>2
  <2>6. /\ accepted[x.run].at <= accepted[Source(f).run].at
        /\ accepted[x.run].at # Null /\ accepted[Source(f).run].at # Null
    BY <2>3, <2>4, <2>5 DEF RawInv, KnowledgeIsOrdered
  <2>7. Source(f).run = f.run /\ Source(f).known = f.known
    BY SourceFields
  <2> QED BY <2>2, <2>3, <2>4, <2>6, <2>7
<1>2. \A f, g \in facts[p] : f.key = g.key => f = g
  BY CutHasOneRow
<1> QED BY <1>1, <1>2 DEF ValidFacts

\* The history is complete, and as long as the eligible transitions.
LEMMA HistoryCounts ==
    ASSUME RawInv, NEW p
    PROVE  /\ {Source(h) : h \in RevisionHistory(p)} = EligibleTransitions(p)
           /\ \A F \in SUBSET RevisionHistory(p) :
                  Cardinality({Source(h) : h \in F}) = Cardinality(F)
<1>1. {Source(h) : h \in RevisionHistory(p)} = EligibleTransitions(p)
  BY HistoryRows
<1>2. ASSUME NEW F \in SUBSET RevisionHistory(p)
      PROVE  Cardinality({Source(h) : h \in F}) = Cardinality(F)
  <2> DEFINE S == {Source(h) : h \in F}
             g == [t \in S |-> CHOOSE h \in F : Source(h) = t]
  <2>1. \A t \in S : g[t] \in F /\ Source(g[t]) = t
    OBVIOUS
  <2>2. IsFiniteSet(S)
    <3>1. S \subseteq transitions
      BY <1>1 DEF EligibleTransitions
    <3> QED BY <3>1, FS_Subset DEF RawInv, TablesAreFinite
  <2>3. g \in [S -> F]
    BY <2>1
  <2>4. \A h \in F : Source(h) \in S
    OBVIOUS
  <2> HIDE DEF S, g
  <2>5. \A h \in F : g[Source(h)] = h
    BY <2>1, <2>4, HistoryRows
  <2>6. g \in Bijection(S, F)
    BY <2>1, <2>3, <2>4, <2>5 DEF Bijection, Injection, IsInjective, Surjection
  <2>7. ExistsBijection(S, F)
    BY <2>6 DEF ExistsBijection
  <2>8. Cardinality(F) = Cardinality(S)
    BY <2>2, <2>7, FS_Bijection
  <2> QED BY <2>8 DEF S
<1> QED BY <1>1, <1>2

\* Facts that form the cut of all published runs reconcile.
LEMMA QuietReconciles ==
    ASSUME RawInv, NEW p, FactsMatch(p, facts[p], PublishedRuns)
    PROVE  Reconciled(p)
<1>1. PICK n \in 0..Frontier : /\ {Source(f) : f \in facts[p]} = StateAsOf(p, n)
                               /\ Covers(n, PublishedRuns)
  BY DEF FactsMatch
<1>2. n = Frontier
  BY <1>1, FrontierCovers
<1>3. {Source(f) : f \in facts[p]} = LatestEligible(p)
  BY <1>1, <1>2, LatestIsFrontier
<1> QED BY <1>3, HistoryCounts DEF Reconciled

\* No row of the history is missing from the ranked history, under its key.
LEMMA RankedNeverRegresses ==
    ASSUME RawInv, NEW p, NEW f \in RevisionHistory(p)
    PROVE  \E g \in Ranked(RevisionHistory(p)) : g.key = f.key /\ g.seq >= f.seq
<1>0. /\ Source(f) \in transitions /\ ProductOf[f.key] = p /\ f.seq \in Nat
      /\ f.seq <= Frontier /\ Source(f).key = f.key /\ Source(f).seq = f.seq
      /\ Frontier \in Nat
  BY HistoryFacts, SourceFields, FrontierFacts, TakenRuns
<1>1. PICK w \in transitions :
          /\ w.key = f.key /\ w.seq <= Frontier
          /\ \A u \in transitions : u.key = f.key /\ u.seq <= Frontier => u.seq <= w.seq
  BY <1>0 DEF RawInv, StatesHaveLatest
<1>2. w \in StateAsOf(p, Frontier)
  BY <1>0, <1>1 DEF StateAsOf
<1>3. PICK g \in Ranked(RevisionHistory(p)) : Source(g) = w
  BY <1>2, CreatedCut
<1>4. w.seq \in Nat /\ f.seq <= w.seq
  BY <1>0, <1>1, TakenRuns
<1> QED BY <1>0, <1>1, <1>3, <1>4, SourceFields

----------------------------------------------------------------------------
(* The steps.                                                              *)

\* FactsMatch and Pending in the next state, for rows and runs of this one.
MatchNext(p, F, base) ==
    /\ F \subseteq RevisionHistory(p)'
    /\ \E n \in 0..Frontier' : /\ {Source(f) : f \in F} = StateAsOf(p, n)'
                               /\ \A r \in base : accepted'[r].seq <= n

PendingNext(m, base) ==
    /\ m.product \in built'
    /\ MatchNext(m.product, MergeInto(facts'[m.product], m.rows), base)
    /\ \A f \in facts'[m.product], g \in m.rows : f.seq < g.seq

\* What is left to show of a step, part by part.
LEMMA InvariantNext ==
    ASSUME RawInv', TypeOK',
           \A p \in Product : p \notin built' => facts'[p] = {},
           \A p \in built' : MatchNext(p, facts'[p], {}),
           build'.base \subseteq PublishedRuns',
           build'.verdict = "failed" => build'.base # PublishedRuns',
           build'.pc # "idle" => late' = NoMerge,
           build'.pc = "merge" =>
               \A m, base : m = build'.merge /\ base = build'.base => PendingNext(m, base),
           build'.pc = "test" =>
               /\ build'.merge.product \in built'
               /\ \A p : p = build'.merge.product => MatchNext(p, facts'[p], build'.base),
           late' # NoMerge => \A m : m = late' => PendingNext(m, {})
    PROVE  AnalyticsInv'
<1>1. MartsAreCuts'
  BY DEF MartsAreCuts, FactsMatch, Covers, MatchNext
<1>2. build'.pc = "merge" => Pending(build.merge, build.base)'
  BY DEF Pending, FactsMatch, Covers, PendingNext, MatchNext
<1>3. build'.pc = "test" =>
          (/\ build.merge.product \in built
           /\ FactsMatch(build.merge.product, facts[build.merge.product], build.base))'
  BY DEF FactsMatch, Covers, MatchNext
<1>4. late' # NoMerge => Pending(late, {})'
  BY DEF Pending, FactsMatch, Covers, PendingNext, MatchNext
<1>5. BuildIsSound'
  BY <1>2, <1>3, <1>4 DEF BuildIsSound, NoMerge
<1> QED BY <1>1, <1>5 DEF AnalyticsInv

\* A smaller base asks for less.
LEMMA MatchWeakens ==
    ASSUME NEW p, NEW F, NEW base, FactsMatch(p, F, base)
    PROVE  FactsMatch(p, F, {})
BY DEF FactsMatch, Covers
LEMMA MatchStays ==
    ASSUME RawInv, RawInv', RawKeeps, NEW p, NEW F, NEW base, base \subseteq PublishedRuns,
           FactsMatch(p, F, base)
    PROVE  MatchNext(p, F, base)
BY MatchKept DEF MatchNext

\* A MERGE that is not applied in a step stays as good as it was.
LEMMA PendingStays ==
    ASSUME RawInv, RawInv', RawKeeps, NEW m, NEW base, base \subseteq PublishedRuns,
           Pending(m, base), facts' = facts, built \subseteq built'
    PROVE  PendingNext(m, base) /\ PendingNext(m, {})
<1>1. FactsMatch(m.product, MergeInto(facts[m.product], m.rows), base)
  BY DEF Pending
<1>2. FactsMatch(m.product, MergeInto(facts[m.product], m.rows), {})
  BY <1>1, MatchWeakens
<1>3. /\ MatchNext(m.product, MergeInto(facts[m.product], m.rows), base)
      /\ MatchNext(m.product, MergeInto(facts[m.product], m.rows), {})
  BY <1>1, <1>2, MatchStays
<1> QED BY <1>3 DEF Pending, PendingNext

\* The tables that a step does not write.
LEMMA TablesStay ==
    ASSUME RawInv, RawInv', RawKeeps, MartsAreCuts
    PROVE  \A p \in built : MatchNext(p, facts[p], {})
BY MatchStays DEF MartsAreCuts

\* A step of the build or of a late MERGE leaves the published runs alone.
LEMMA RunsStay ==
    ASSUME UNCHANGED rawVars
    PROVE  PublishedRuns' = PublishedRuns
BY DEF rawVars, PublishedRuns, Published

\* Every step is one of the raw warehouse, or leaves it alone.
LEMMA StepIsRaw ==
    ASSUME [Next]_vars
    PROVE  [RawNext]_rawVars
<1>1. ASSUME Ingest PROVE RawNext
  <2>1. CASE \E r \in Run, b \in Batch : Accept(r, b)
    BY <2>1 DEF RawNext
  <2>2. CASE \E r \in Run, t \in 0..clock : Publish(r, t)
    BY <2>2 DEF RawNext
  <2>3. CASE Tick
    BY <2>3 DEF RawNext
  <2> QED BY <1>1, <2>1, <2>2, <2>3 DEF Ingest
<1>2. ASSUME \E full \in BOOLEAN : StartBuild(full) PROVE UNCHANGED rawVars
  BY <1>2 DEF StartBuild
<1>3. ASSUME BuildStep PROVE UNCHANGED rawVars
  BY <1>3 DEF BuildStep, CreateFacts, SelectCandidates, MergeCandidates, RunTests
<1>4. ASSUME KillBuild \/ LateMerge \/ UNCHANGED vars PROVE UNCHANGED rawVars
  BY <1>4 DEF KillBuild, LateMerge, vars
<1> QED BY <1>1, <1>2, <1>3, <1>4 DEF Next

\* Ingestion, and steps that change nothing.
LEMMA IngestKeepsInv ==
    ASSUME AnalyticsInv, RawInv', RawKeeps, UNCHANGED <<marts, build, late>>
    PROVE  AnalyticsInv'
<1>0. /\ RawInv /\ TypeOK /\ MartsAreCuts /\ BuildIsSound
      /\ built' = built /\ facts' = facts /\ build' = build /\ late' = late
  BY DEF AnalyticsInv, marts
<1>1. TypeOK'
  BY <1>0 DEF TypeOK, RawInv
<1>2. PublishedRuns \subseteq PublishedRuns' /\ build.base \subseteq PublishedRuns
  BY <1>0, CutsKept DEF BuildIsSound
<1>3. \A p \in built : MatchNext(p, facts[p], {})
  BY <1>0, TablesStay
<1>4. ASSUME build.pc = "merge" PROVE PendingNext(build.merge, build.base)
  BY <1>0, <1>2, <1>4, PendingStays DEF BuildIsSound
<1>5. ASSUME build.pc = "test"
      PROVE  MatchNext(build.merge.product, facts[build.merge.product], build.base)
  BY <1>0, <1>2, <1>5, MatchStays DEF BuildIsSound
<1>6. ASSUME late # NoMerge PROVE PendingNext(late, {})
  BY <1>0, <1>6, PendingStays DEF BuildIsSound
<1>7. build.verdict = "failed" => build.base # PublishedRuns'
  BY <1>0, <1>2 DEF BuildIsSound
<1> QED BY <1>0, <1>1, <1>2, <1>3, <1>4, <1>5, <1>6, <1>7, InvariantNext DEF MartsAreCuts, BuildIsSound
LEMMA StartBuildKeepsInv ==
    ASSUME AnalyticsInv, RawInv', RawKeeps, NEW full \in BOOLEAN, StartBuild(full)
    PROVE  AnalyticsInv'
<1>0. /\ RawInv /\ TypeOK /\ MartsAreCuts /\ BuildIsSound
      /\ built' = built /\ facts' = facts /\ late' = late /\ late = NoMerge
      /\ PublishedRuns' = PublishedRuns
      /\ build' = [pc |-> "select", full |-> full, todo |-> Product,
                   merge |-> NoMerge, base |-> PublishedRuns, verdict |-> "none"]
  BY RunsStay DEF AnalyticsInv, StartBuild, Inspected, marts
<1>1. TypeOK'
  BY <1>0 DEF TypeOK, RawInv, Build, NoMerge, Merge, PublishedRuns
<1>2. \A p \in built : MatchNext(p, facts[p], {})
  BY <1>0, TablesStay
<1>3. /\ build'.pc = "select" /\ build'.base = PublishedRuns /\ build'.verdict = "none"
  BY <1>0
<1> QED BY <1>0, <1>1, <1>2, <1>3, InvariantNext DEF MartsAreCuts

\* The rows that a fact table and a candidate table hold have their types.
LEMMA RowsAreFacts ==
    ASSUME RawInv, NEW p
    PROVE  /\ Ranked(RevisionHistory(p)) \subseteq FactRow
           /\ Ranked(Candidates(p)) \subseteq FactRow
           /\ RevisionHistory(p) \subseteq FactRow
BY HistoryRows DEF Ranked, Candidates

LEMMA CreateFactsKeepsInv ==
    ASSUME AnalyticsInv, RawInv', RawKeeps, NEW p \in Product, CreateFacts(p)
    PROVE  AnalyticsInv'
<1> DEFINE F == Ranked(RevisionHistory(p))
<1>0. /\ RawInv /\ TypeOK /\ MartsAreCuts /\ BuildIsSound
      /\ build.pc = "select" /\ late' = late
      /\ built' = built \cup {p} /\ facts' = [facts EXCEPT ![p] = F]
      /\ build' = [build EXCEPT !.pc = "test", !.merge = [product |-> p, rows |-> {}]]
      /\ PublishedRuns' = PublishedRuns
  BY RunsStay DEF AnalyticsInv, CreateFacts
<1>1. F \subseteq FactRow
  BY <1>0, RowsAreFacts
<1>2. FactsMatch(p, F, build.base)
  BY <1>0, CreatedCut, FrontierCovers DEF FactsMatch, BuildIsSound
<1>3. MatchNext(p, F, build.base) /\ MatchNext(p, F, {})
  BY <1>0, <1>2, MatchWeakens, MatchStays DEF BuildIsSound
<1> HIDE DEF F
<1>4. /\ build' \in Build /\ build'.pc = "test" /\ build'.merge.product = p
      /\ build'.base = build.base /\ build'.verdict = build.verdict
  BY <1>0 DEF TypeOK, Build, Merge
<1>5. /\ facts' \in [Product -> SUBSET FactRow] /\ facts'[p] = F
      /\ \A q \in Product : q # p => facts'[q] = facts[q]
  BY <1>0, <1>1 DEF TypeOK
<1>6. TypeOK'
  BY <1>0, <1>4, <1>5 DEF TypeOK, RawInv
<1>7. \A q \in built' : MatchNext(q, facts'[q], {})
  BY <1>0, <1>3, <1>5, TablesStay DEF TypeOK
<1>8. late' = NoMerge
  BY <1>0 DEF BuildIsSound
<1> QED BY <1>0, <1>3, <1>4, <1>5, <1>6, <1>7, <1>8, InvariantNext DEF MartsAreCuts, BuildIsSound

LEMMA SelectCandidatesKeepsInv ==
    ASSUME AnalyticsInv, RawInv', RawKeeps, NEW p \in Product, SelectCandidates(p)
    PROVE  AnalyticsInv'
<1> DEFINE m == [product |-> p, rows |-> Ranked(Candidates(p))]
<1>0. /\ RawInv /\ TypeOK /\ MartsAreCuts /\ BuildIsSound
      /\ build.pc = "select" /\ late' = late /\ built' = built /\ facts' = facts
      /\ p \in built
      /\ build' = [build EXCEPT !.pc = "merge", !.merge = m]
      /\ PublishedRuns' = PublishedRuns
  BY RunsStay DEF AnalyticsInv, SelectCandidates, marts
<1>1. PICK n \in 0..Frontier : /\ facts[p] \subseteq RevisionHistory(p)
                               /\ {Source(f) : f \in facts[p]} = StateAsOf(p, n)
  BY <1>0 DEF MartsAreCuts, FactsMatch
<1>2. Pending(m, build.base)
  <2>1. Ranked(Candidates(p)) =
            Ranked({h \in RevisionHistory(p) : \A f \in facts[p] : h.seq > f.seq})
    BY DEF Candidates
  <2>2. /\ MergeInto(facts[p], m.rows) \subseteq RevisionHistory(p)
        /\ {Source(f) : f \in MergeInto(facts[p], m.rows)} = StateAsOf(p, Frontier)
        /\ \A f \in facts[p], g \in m.rows : f.seq < g.seq
    BY <1>0, <1>1, <2>1, MergedCut
  <2>3. Frontier \in 0..Frontier /\ Covers(Frontier, build.base)
    BY <1>0, FrontierCovers DEF BuildIsSound
  <2>4. FactsMatch(p, MergeInto(facts[p], m.rows), build.base)
    BY <2>2, <2>3 DEF FactsMatch
  <2>5. m.product = p
    OBVIOUS
  <2> HIDE DEF m
  <2> QED BY <1>0, <2>2, <2>4, <2>5 DEF Pending
<1>3. m \in Merge
  BY <1>0, RowsAreFacts DEF Merge
<1> HIDE DEF m
<1>4. PendingNext(m, build.base)
  BY <1>0, <1>2, PendingStays DEF BuildIsSound
<1>5. /\ build' \in Build /\ build'.pc = "merge" /\ build'.merge = m
      /\ build'.base = build.base /\ build'.verdict = build.verdict
  BY <1>0, <1>3 DEF TypeOK, Build
<1>6. TypeOK'
  BY <1>0, <1>5 DEF TypeOK, RawInv
<1>7. \A q \in built : MatchNext(q, facts[q], {})
  BY <1>0, TablesStay
<1>8. late' = NoMerge
  BY <1>0 DEF BuildIsSound
<1> QED BY <1>0, <1>4, <1>5, <1>6, <1>7, <1>8, InvariantNext DEF MartsAreCuts, BuildIsSound
\* Applying a pending MERGE, by its build or by itself.
LEMMA ApplyMerge ==
    ASSUME AnalyticsInv, RawInv', RawKeeps, NEW m \in Merge, NEW base,
           base \subseteq PublishedRuns, Pending(m, base), built' = built,
           facts' = [facts EXCEPT ![m.product] = MergeInto(@, m.rows)]
    PROVE  /\ m.product \in built /\ m.product \in Product
           /\ facts' \in [Product -> SUBSET FactRow]
           /\ facts'[m.product] = MergeInto(facts[m.product], m.rows)
           /\ \A q \in Product : q # m.product => facts'[q] = facts[q]
           /\ MatchNext(m.product, facts'[m.product], base)
           /\ \A q \in built : MatchNext(q, facts'[q], {})
<1>0. RawInv /\ TypeOK /\ MartsAreCuts
  BY DEF AnalyticsInv
<1>1. PICK p : p = m.product
  OBVIOUS
<1>2. p \in built /\ p \in Product
  BY <1>0, <1>1 DEF Pending, TypeOK
<1>3. m.rows \subseteq FactRow
  BY DEF Merge
<1>4. MergeInto(facts[p], m.rows) \subseteq FactRow
  BY <1>0, <1>2, <1>3 DEF TypeOK, MergeInto
<1>5. /\ facts' \in [Product -> SUBSET FactRow]
      /\ facts'[p] = MergeInto(facts[p], m.rows)
      /\ \A q \in Product : q # p => facts'[q] = facts[q]
  BY <1>0, <1>1, <1>2, <1>4 DEF TypeOK
<1>6. FactsMatch(p, MergeInto(facts[p], m.rows), base)
  BY <1>1 DEF Pending
<1>7. FactsMatch(p, MergeInto(facts[p], m.rows), {})
  BY <1>6, MatchWeakens
<1>8. MatchNext(p, facts'[p], base) /\ MatchNext(p, facts'[p], {})
  BY <1>0, <1>5, <1>6, <1>7, MatchStays
<1>9. \A q \in built : MatchNext(q, facts'[q], {})
  BY <1>0, <1>5, <1>8, TablesStay DEF TypeOK
<1> QED BY <1>1, <1>2, <1>5, <1>8, <1>9

LEMMA MergeCandidatesKeepsInv ==
    ASSUME AnalyticsInv, RawInv', RawKeeps, MergeCandidates
    PROVE  AnalyticsInv'
<1>0. /\ RawInv /\ TypeOK /\ MartsAreCuts /\ BuildIsSound
      /\ build.pc = "merge" /\ late' = late /\ built' = built
      /\ facts' = [facts EXCEPT ![build.merge.product] = MergeInto(@, build.merge.rows)]
      /\ build' = [build EXCEPT !.pc = "test", !.merge.rows = {}]
      /\ PublishedRuns' = PublishedRuns
  BY RunsStay DEF AnalyticsInv, MergeCandidates
<1>1. /\ Pending(build.merge, build.base) /\ build.base \subseteq PublishedRuns
      /\ build.merge \in Merge
  BY <1>0 DEF BuildIsSound, TypeOK, Build
<1>2. PICK p : p = build.merge.product
  OBVIOUS
<1>3. /\ p \in built /\ p \in Product
      /\ facts' \in [Product -> SUBSET FactRow]
      /\ \A q \in Product : q # p => facts'[q] = facts[q]
      /\ MatchNext(p, facts'[p], build.base)
      /\ \A q \in built : MatchNext(q, facts'[q], {})
  BY <1>0, <1>1, <1>2, ApplyMerge
<1>4. /\ build' \in Build /\ build'.pc = "test" /\ build'.merge.product = p
      /\ build'.base = build.base /\ build'.verdict = build.verdict
  BY <1>0, <1>2 DEF TypeOK, Build, Merge
<1>5. TypeOK'
  BY <1>0, <1>3, <1>4 DEF TypeOK, RawInv
<1>6. late' = NoMerge
  BY <1>0 DEF BuildIsSound
<1> QED BY <1>0, <1>3, <1>4, <1>5, <1>6, InvariantNext DEF MartsAreCuts, BuildIsSound

\* A build whose base is still everything that is published passes its tests.
LEMMA RunTestsKeepsInv ==
    ASSUME AnalyticsInv, RawInv', RawKeeps, RunTests
    PROVE  AnalyticsInv'
<1> DEFINE p == build.merge.product
           rest == build.todo \ {p}
           passed == Reconciled(p) /\ ValidFacts(p)
<1>0. /\ RawInv /\ TypeOK /\ MartsAreCuts /\ BuildIsSound
      /\ build.pc = "test" /\ late' = late /\ built' = built /\ facts' = facts
      /\ build' = [build EXCEPT
                       !.pc = IF passed /\ rest # {} THEN "select" ELSE "idle",
                       !.todo = IF passed THEN rest ELSE {},
                       !.merge = NoMerge,
                       !.verdict = IF ~passed THEN "failed"
                                   ELSE IF rest = {} THEN "passed" ELSE "none"]
      /\ PublishedRuns' = PublishedRuns
  BY RunsStay DEF AnalyticsInv, RunTests, marts
<1>1. build.base = PublishedRuns => passed
  <2> SUFFICES ASSUME build.base = PublishedRuns PROVE passed
    OBVIOUS
  <2>1. FactsMatch(p, facts[p], PublishedRuns)
    BY <1>0 DEF BuildIsSound
  <2>2. PICK q : q = p
    OBVIOUS
  <2>3. Reconciled(q) /\ ValidFacts(q)
    BY <1>0, <2>1, <2>2, QuietReconciles, CutIsValid
  <2> QED BY <2>2, <2>3
<1>2. rest \subseteq Product
  BY <1>0 DEF TypeOK, Build
<1> HIDE DEF passed, rest
<1>3. /\ build' \in Build /\ build'.pc \in {"select", "idle"}
      /\ build'.base = build.base
      /\ build'.verdict = "failed" => ~passed
  BY <1>0, <1>2 DEF TypeOK, Build, Merge, NoMerge
<1>4. TypeOK'
  BY <1>0, <1>3 DEF TypeOK, RawInv
<1>5. \A q \in built : MatchNext(q, facts[q], {})
  BY <1>0, TablesStay
<1>6. late' = NoMerge
  BY <1>0 DEF BuildIsSound
<1> QED BY <1>0, <1>1, <1>3, <1>4, <1>5, <1>6, InvariantNext DEF MartsAreCuts, BuildIsSound

LEMMA KillBuildKeepsInv ==
    ASSUME AnalyticsInv, RawInv', RawKeeps, KillBuild
    PROVE  AnalyticsInv'
<1>0. /\ RawInv /\ TypeOK /\ MartsAreCuts /\ BuildIsSound
      /\ built' = built /\ facts' = facts
      /\ late' = NoMerge \/ (build.pc = "merge" /\ late' = build.merge)
      /\ build' = [build EXCEPT !.pc = "idle", !.todo = {}, !.merge = NoMerge]
      /\ PublishedRuns' = PublishedRuns
  BY RunsStay DEF AnalyticsInv, KillBuild, marts
<1>1. /\ build' \in Build /\ build'.pc = "idle" /\ build'.base = build.base
      /\ build'.verdict = build.verdict
  BY <1>0 DEF TypeOK, Build, Merge, NoMerge
<1>2. NoMerge \in Merge /\ build.merge \in Merge
  BY <1>0 DEF TypeOK, Build, Merge, NoMerge
<1>3. TypeOK'
  BY <1>0, <1>1, <1>2 DEF TypeOK, RawInv
<1>4. \A q \in built : MatchNext(q, facts[q], {})
  BY <1>0, TablesStay
<1>5. build.pc = "merge" => PendingNext(build.merge, {})
  BY <1>0, PendingStays DEF BuildIsSound
<1>6. late' # NoMerge => \A m : m = late' => PendingNext(m, {})
  BY <1>0, <1>5
<1> QED BY <1>0, <1>1, <1>3, <1>4, <1>6, InvariantNext DEF MartsAreCuts, BuildIsSound

LEMMA LateMergeKeepsInv ==
    ASSUME AnalyticsInv, RawInv', RawKeeps, LateMerge
    PROVE  AnalyticsInv'
<1>0. /\ RawInv /\ TypeOK /\ MartsAreCuts /\ BuildIsSound
      /\ late # NoMerge /\ late' = NoMerge /\ built' = built /\ build' = build
      /\ facts' = [facts EXCEPT ![late.product] = MergeInto(@, late.rows)]
      /\ PublishedRuns' = PublishedRuns
  BY RunsStay DEF AnalyticsInv, LateMerge
<1>1. Pending(late, {}) /\ late \in Merge /\ build.pc = "idle" /\ NoMerge \in Merge
  BY <1>0 DEF BuildIsSound, TypeOK, Merge, NoMerge
<1>2. PICK p : p = late.product
  OBVIOUS
<1>3. /\ p \in built /\ p \in Product
      /\ facts' \in [Product -> SUBSET FactRow]
      /\ \A q \in Product : q # p => facts'[q] = facts[q]
      /\ \A q \in built : MatchNext(q, facts'[q], {})
  BY <1>0, <1>1, <1>2, ApplyMerge
<1>4. TypeOK'
  BY <1>0, <1>1, <1>3 DEF TypeOK, RawInv
<1> QED BY <1>0, <1>1, <1>3, <1>4, InvariantNext DEF MartsAreCuts, BuildIsSound

----------------------------------------------------------------------------
(* The invariant, and what follows from it.                                *)

LEMMA InitInv == Init => AnalyticsInv
<1> SUFFICES ASSUME Init PROVE AnalyticsInv
  OBVIOUS
<1>1. RawInv
  BY RawInitInv DEF Init
<1>2. /\ built = {} /\ facts = [p \in Product |-> {}] /\ late = NoMerge
      /\ build = [pc |-> "idle", full |-> FALSE, todo |-> {}, merge |-> NoMerge,
                  base |-> {}, verdict |-> "none"]
  BY DEF Init
<1>3. NoMerge \in Merge
  BY DEF NoMerge, Merge
<1>4. build \in Build
  BY <1>2, <1>3 DEF Build
<1>5. TypeOK
  BY <1>1, <1>2, <1>3, <1>4 DEF TypeOK, RawInv
<1>6. MartsAreCuts
  BY <1>2 DEF MartsAreCuts
<1>7. /\ build.base = {} /\ build.verdict = "none" /\ build.pc = "idle"
  BY <1>2
<1>8. BuildIsSound
  BY <1>2, <1>7 DEF BuildIsSound
<1> QED BY <1>1, <1>5, <1>6, <1>8 DEF AnalyticsInv

LEMMA NextKeeps ==
    ASSUME AnalyticsInv, [Next]_vars
    PROVE  RawInv' /\ RawKeeps
<1>1. [RawNext]_rawVars
  BY StepIsRaw
<1>2. RawInv'
  BY <1>1, RawStep DEF AnalyticsInv
<1> QED BY <1>1, <1>2, RawStepKeeps DEF AnalyticsInv

LEMMA NextInv == AnalyticsInv /\ [Next]_vars => AnalyticsInv'
<1> SUFFICES ASSUME AnalyticsInv, [Next]_vars PROVE AnalyticsInv'
  OBVIOUS
<1>0. RawInv' /\ RawKeeps
  BY NextKeeps
<1>1. CASE Ingest
  BY <1>0, <1>1, IngestKeepsInv DEF Ingest
<1>2. ASSUME NEW full \in BOOLEAN, StartBuild(full) PROVE AnalyticsInv'
  BY <1>0, <1>2, StartBuildKeepsInv
<1>3. ASSUME NEW p \in Product, CreateFacts(p) PROVE AnalyticsInv'
  BY <1>0, <1>3, CreateFactsKeepsInv
<1>4. ASSUME NEW p \in Product, SelectCandidates(p) PROVE AnalyticsInv'
  BY <1>0, <1>4, SelectCandidatesKeepsInv
<1>5. CASE MergeCandidates
  BY <1>0, <1>5, MergeCandidatesKeepsInv
<1>6. CASE RunTests
  BY <1>0, <1>6, RunTestsKeepsInv
<1>7. CASE KillBuild
  BY <1>0, <1>7, KillBuildKeepsInv
<1>8. CASE LateMerge
  BY <1>0, <1>8, LateMergeKeepsInv
<1>9. CASE UNCHANGED vars
  BY <1>0, <1>9, IngestKeepsInv DEF vars, marts
<1> QED BY <1>1, <1>2, <1>3, <1>4, <1>5, <1>6, <1>7, <1>8, <1>9 DEF Next, BuildStep

\* The inductive invariant of the dbt models over an ingesting warehouse holds in
\* every reachable state.
THEOREM AnalyticsCorrect == Spec => []AnalyticsInv
BY InitInv, NextInv, PTL DEF Spec

\* For any set of runs, keys, products and any interleaving of ingestion with
\* builds, killed builds and their MERGE jobs, the tables, the fact rows and the
\* state of the build have their types (warehouse/model.py's tables, marts/*.sql).
THEOREM AnalyticsTypeCorrect == Spec => []TypeOK
<1>1. AnalyticsInv => TypeOK
  BY DEF AnalyticsInv
<1> QED BY <1>1, AnalyticsCorrect, PTL

\* The incremental models of the fact tables: whatever builds, refreshes, kills
\* and late MERGE jobs wrote them, they hold exactly the latest states after some
\* number of commits, one row per key.
THEOREM FactsCutCorrect == Spec => []FactsAreACut
<1>1. ASSUME AnalyticsInv PROVE FactsAreACut
  <2> SUFFICES ASSUME NEW p \in built
               PROVE  \E n \in 0..sequence :
                          /\ {Source(f) : f \in facts[p]} = StateAsOf(p, n)
                          /\ Cardinality(facts[p]) = Cardinality(StateAsOf(p, n))
    BY DEF FactsAreACut
  <2>0. RawInv /\ FactsMatch(p, facts[p], {})
    BY <1>1 DEF AnalyticsInv, MartsAreCuts
  <2>1. PICK n \in 0..Frontier : /\ {Source(f) : f \in facts[p]} = StateAsOf(p, n)
                                 /\ facts[p] \subseteq RevisionHistory(p)
    BY <2>0 DEF FactsMatch
  <2>2. Cardinality({Source(f) : f \in facts[p]}) = Cardinality(facts[p])
    BY <2>0, <2>1, HistoryCounts
  <2>3. n \in 0..sequence
    BY <2>0, FrontierFacts, TakenRuns
  <2> QED BY <2>1, <2>2, <2>3
<1>2. AnalyticsInv => FactsAreACut
  BY <1>1
<1> QED BY <1>2, AnalyticsCorrect, PTL

\* The rows of the fact tables satisfy valid_*_facts.sql and unique_grain at every
\* moment, not only when the tests run.
THEOREM FactsKnownCorrect == Spec => []FactsAreKnown
<1>1. AnalyticsInv => FactsAreKnown
  BY CutIsValid DEF AnalyticsInv, MartsAreCuts, FactsAreKnown
<1> QED BY <1>1, AnalyticsCorrect, PTL

\* int_*_revision_history.sql: the inner join of the transitions with their
\* contents neither drops nor duplicates an eligible transition.
THEOREM HistoryCompleteCorrect == Spec => []HistoryIsComplete
<1>1. AnalyticsInv => HistoryIsComplete
  BY HistoryCounts DEF AnalyticsInv, HistoryIsComplete
<1> QED BY <1>1, AnalyticsCorrect, PTL

\* reconcile_*.sql and valid_*_facts.sql fail a build only when ingestion has
\* published a run since that build started.
THEOREM QuietBuildsCorrect == Spec => []QuietBuildsPass
<1>1. AnalyticsInv => QuietBuildsPass
  BY DEF AnalyticsInv, BuildIsSound, QuietBuildsPass
<1> QED BY <1>1, AnalyticsCorrect, PTL

\* A MERGE of candidates above what a table holds takes no key back.
LEMMA MergeNeverRegresses ==
    ASSUME AnalyticsInv, NEW m, NEW base, Pending(m, base), NEW f \in facts[m.product]
    PROVE  \E g \in MergeInto(facts[m.product], m.rows) : g.key = f.key /\ g.seq >= f.seq
<1>1. FactsMatch(m.product, MergeInto(facts[m.product], m.rows), base)
  BY DEF Pending
<1>2. PICK p : p = m.product
  OBVIOUS
<1>3. p \in built /\ facts[p] \subseteq RevisionHistory(p)
  BY <1>2 DEF AnalyticsInv, MartsAreCuts, FactsMatch, Pending
<1>4. m.rows \subseteq MergeInto(facts[p], m.rows)
  BY DEF MergeInto
<1>5. /\ f.seq \in Nat
      /\ \A g \in m.rows : g.seq \in Nat /\ f.seq < g.seq
  BY <1>1, <1>2, <1>3, <1>4, HistoryFacts DEF AnalyticsInv, FactsMatch, Pending
<1>6. CASE \E g \in m.rows : g.key = f.key
  BY <1>2, <1>4, <1>5, <1>6
<1>7. CASE \A g \in m.rows : g.key # f.key
  <2>1. f \in MergeInto(facts[p], m.rows)
    BY <1>2, <1>7 DEF MergeInto
  <2> QED BY <1>2, <1>5, <2>1
<1> QED BY <1>6, <1>7

\* Neither a first build, a full refresh, an incremental MERGE nor a MERGE that
\* outlived its build takes a key's fact back to an earlier state or drops it.
THEOREM FactsForwardCorrect == Spec => FactsNeverRegress
<1> DEFINE Forward == \A p \in Product : \A f \in facts[p] : \E g \in facts'[p] :
                          g.key = f.key /\ g.seq >= f.seq
<1>1. ASSUME AnalyticsInv, [Next]_vars PROVE Forward
  <2>0. /\ RawInv /\ TypeOK /\ MartsAreCuts /\ BuildIsSound
    BY <1>1 DEF AnalyticsInv
  <2>1. \A p \in Product : \A f \in facts[p] : f.seq \in Nat /\ f \in RevisionHistory(p)
    <3> SUFFICES ASSUME NEW p \in Product, NEW f \in facts[p]
                 PROVE  f.seq \in Nat /\ f \in RevisionHistory(p)
      OBVIOUS
    <3>1. facts[p] \subseteq RevisionHistory(p)
      BY <2>0 DEF MartsAreCuts, FactsMatch
    <3> QED BY <2>0, <3>1, HistoryFacts
  <2>2. ASSUME facts' = facts PROVE Forward
    BY <2>1, <2>2
  <2>3. ASSUME NEW p \in Product, CreateFacts(p) PROVE Forward
    <3>1. /\ facts'[p] = Ranked(RevisionHistory(p))
          /\ \A q \in Product : q # p => facts'[q] = facts[q]
      BY <2>0, <2>3 DEF CreateFacts, TypeOK
    <3>2. \A f \in facts[p] : \E g \in facts'[p] : g.key = f.key /\ g.seq >= f.seq
      BY <2>0, <2>1, <3>1, RankedNeverRegresses
    <3>3. \A q \in Product : q # p =>
              \A f \in facts[q] : \E g \in facts'[q] : g.key = f.key /\ g.seq >= f.seq
      BY <2>1, <3>1
    <3> QED BY <3>2, <3>3
  <2>4. ASSUME NEW m, NEW base, Pending(m, base),
               facts' = [facts EXCEPT ![m.product] = MergeInto(@, m.rows)]
        PROVE  Forward
    <3>1. m.product \in Product
      BY <2>0, <2>4 DEF Pending, TypeOK
    <3>2. /\ facts'[m.product] = MergeInto(facts[m.product], m.rows)
          /\ \A q \in Product : q # m.product => facts'[q] = facts[q]
      BY <2>0, <2>4, <3>1 DEF TypeOK
    <3>3. \A f \in facts[m.product] : \E g \in facts'[m.product] :
              g.key = f.key /\ g.seq >= f.seq
      BY <1>1, <2>4, <3>2, MergeNeverRegresses
    <3>4. \A q \in Product : q # m.product =>
              \A f \in facts[q] : \E g \in facts'[q] : g.key = f.key /\ g.seq >= f.seq
      BY <2>1, <3>2
    <3> QED BY <3>3, <3>4
  <2>5. CASE MergeCandidates
    <3>1. /\ Pending(build.merge, build.base)
          /\ facts' = [facts EXCEPT ![build.merge.product] = MergeInto(@, build.merge.rows)]
      BY <2>0, <2>5 DEF MergeCandidates, BuildIsSound
    <3> QED BY <2>4, <3>1
  <2>6. CASE LateMerge
    <3>1. /\ Pending(late, {})
          /\ facts' = [facts EXCEPT ![late.product] = MergeInto(@, late.rows)]
      BY <2>0, <2>6 DEF LateMerge, BuildIsSound
    <3> QED BY <2>4, <3>1
  <2>7. CASE Ingest \/ (\E full \in BOOLEAN : StartBuild(full)) \/ KillBuild \/ UNCHANGED vars
             \/ (\E p \in Product : SelectCandidates(p)) \/ RunTests
    <3>1. facts' = facts
      BY <2>7 DEF Ingest, StartBuild, KillBuild, vars, SelectCandidates, RunTests, marts
    <3> QED BY <2>2, <3>1
  <2> QED BY <1>1, <2>3, <2>5, <2>6, <2>7 DEF Next, BuildStep
<1>2. AnalyticsInv /\ [Next]_vars => [Forward]_vars
  BY <1>1
<1> QED BY <1>2, AnalyticsCorrect, PTL DEF Spec, FactsNeverRegress
=============================================================================
