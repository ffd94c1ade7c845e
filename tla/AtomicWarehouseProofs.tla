----------------------- MODULE AtomicWarehouseProofs -----------------------
(***************************************************************************)
(* What the readers of the raw warehouse may rely on, whoever writes it:   *)
(* facts about the accepted runs and the two revision tables that follow   *)
(* from AtomicWarehouse alone, for every set of runs, keys and values.     *)
(* Warehouse inherits them by refinement and Analytics by extension.       *)
(***************************************************************************)
EXTENDS AtomicWarehouse, FiniteSetTheorems, TLAPS

Taken(r) == accepted[r].state # "none"

\* Only the last accepted run can await its publication.
GateIsSound == \A r \in Run : accepted[r].state = "open" => accepted[r].seq = sequence

\* Commit sequences number the accepted runs, and rows belong to such runs.
SequencesAreTotal ==
    /\ \A r, s \in Run : Taken(r) /\ Taken(s) /\ accepted[r].seq = accepted[s].seq => r = s
    /\ \A n \in 1..sequence : \E r \in Run : Taken(r) /\ accepted[r].seq = n
    /\ \A r \in Run : Taken(r) => accepted[r].seq \in 1..sequence
    /\ \A x \in contents : Taken(x.run)
    /\ \A t \in transitions : Taken(t.run) /\ t.seq = accepted[t.run].seq

\* The join of the two tables is one to one, and its content is never younger.
ContentsMatch ==
    /\ \A x, y \in contents : x.key = y.key /\ x.value = y.value => x = y
    /\ \A t \in transitions : \E x \in contents :
           /\ x.key = t.key
           /\ x.value = t.value
           /\ accepted[x.run].seq <= t.seq

\* Rows carry the knowledge time of their run, and times follow the commits.
KnowledgeIsOrdered ==
    /\ \A x \in contents : x.seen = accepted[x.run].at
    /\ \A t \in transitions : t.known = accepted[t.run].at
    /\ \A r \in Run : Published(r) <=> accepted[r].at # Null
    /\ \A r \in Run : Published(r) => accepted[r].at <= clock
    /\ \A r, s \in Run : Published(r) /\ Published(s) /\ accepted[r].seq <= accepted[s].seq
                             => accepted[r].at <= accepted[s].at

\* The states of a key are ordered alike by ordinal and by commit.
StatesAreOrdered ==
    \A t, u \in transitions : t.key = u.key =>
        /\ t.ordinal <= u.ordinal <=> t.seq <= u.seq
        /\ t.seq = u.seq => t = u

\* A key that had a state by the n-th commit had a last one.
StatesHaveLatest ==
    \A n \in Nat, t \in transitions : t.seq <= n =>
        \E w \in transitions :
            /\ w.key = t.key /\ w.seq <= n
            /\ \A u \in transitions : u.key = t.key /\ u.seq <= n => u.seq <= w.seq

\* As of its commit, a run's batch is what the transitions say.
BatchesAreReconstructed ==
    \A r \in Run : Taken(r) => \A k \in DOMAIN accepted[r].batch :
        \E t \in transitions :
            /\ t.key = k
            /\ t.value = accepted[r].batch[k]
            /\ t.seq <= accepted[r].seq
            /\ \A u \in transitions :
                   u.key = k /\ u.seq <= accepted[r].seq => u.ordinal <= t.ordinal

TablesAreFinite == IsFiniteSet(contents) /\ IsFiniteSet(transitions)

\* The inductive invariant.
RawInv ==
    /\ RawTypeOK
    /\ GateIsSound
    /\ SequencesAreTotal
    /\ ContentsMatch
    /\ KnowledgeIsOrdered
    /\ StatesAreOrdered
    /\ StatesHaveLatest
    /\ BatchesAreReconstructed
    /\ TablesAreFinite
----------------------------------------------------------------------------
(* What the two steps do to the tables.                                    *)

\* A batch is a function from finitely many keys to values.
LEMMA BatchFacts ==
    ASSUME NEW b \in Batch
    PROVE  /\ IsFiniteSet(DOMAIN b)
           /\ DOMAIN b \subseteq Key
           /\ \A k \in DOMAIN b : b[k] \in Value
<1>1. PICK S \in SUBSET Key : IsFiniteSet(S) /\ b \in [S -> Value]
  BY DEF Batch
<1> QED BY <1>1

\* The ordinal plan_write gives a new state exceeds all earlier ones.
LEMMA NextOrdinalFacts ==
    ASSUME RawInv, NEW k
    PROVE  /\ NextOrdinal(k) \in Nat
           /\ \A u \in transitions : u.key = k => u.ordinal < NextOrdinal(k)
<1>1. \A u \in transitions : u.ordinal \in Nat /\ u.seq \in Nat /\ u.run \in Run
  BY DEF RawInv, RawTypeOK, TransitionRow
<1>2. CASE LatestRows(k) = {}
  <2>1. ASSUME NEW t \in transitions, t.key = k PROVE FALSE
    <3>1. sequence \in Nat /\ \A u \in transitions : u.seq <= sequence
      BY <1>1 DEF RawInv, RawTypeOK, SequencesAreTotal
    <3>2. PICK w \in transitions :
              /\ w.key = t.key
              /\ \A u \in transitions : u.key = t.key /\ u.seq <= sequence => u.seq <= w.seq
      BY <3>1 DEF RawInv, StatesHaveLatest
    <3>3. w \in LatestRows(k)
      BY <2>1, <3>1, <3>2 DEF RawInv, StatesAreOrdered, LatestRows
    <3> QED BY <1>2, <3>3
  <2>2. NextOrdinal(k) = 1
    BY <1>2 DEF NextOrdinal
  <2> QED BY <2>1, <2>2
<1>3. CASE LatestRows(k) # {}
  <2>1. PICK w \in LatestRows(k) : NextOrdinal(k) = w.ordinal + 1
    BY <1>3 DEF NextOrdinal
  <2>2. w \in transitions /\ \A u \in transitions : u.key = k => u.ordinal <= w.ordinal
    BY <2>1 DEF LatestRows
  <2> QED BY <1>1, <2>1, <2>2
<1> QED BY <1>2, <1>3

\* The content rows of a batch are new, and finitely many.
LEMMA NewContentsFacts ==
    ASSUME RawTypeOK, NEW r \in Run, NEW b \in Batch
    PROVE  /\ NewContents(r, b) \subseteq ContentRow
           /\ IsFiniteSet(NewContents(r, b))
           /\ \A x \in NewContents(r, b) :
                  /\ x.run = r /\ x.seen = Null
                  /\ x.key \in DOMAIN b /\ x.value = b[x.key] /\ ~Stored(x.key, x.value)
           /\ \A x, y \in NewContents(r, b) : x.key = y.key => x = y
           /\ \A k \in DOMAIN b : ~Stored(k, b[k]) =>
                  \E x \in NewContents(r, b) : x.key = k /\ x.value = b[k]
<1>1. NewContents(r, b) \subseteq ContentRow
  BY BatchFacts DEF NewContents, ContentRow, Time
<1>2. IsFiniteSet(NewContents(r, b))
  <2> DEFINE D == {j \in DOMAIN b : ~Stored(j, b[j])}
             f == [k \in D |-> [key |-> k, value |-> b[k], run |-> r, seen |-> Null]]
  <2>1. IsFiniteSet(D)
    BY BatchFacts, FS_Subset
  <2>2. f \in Surjection(D, NewContents(r, b))
    BY DEF Surjection, NewContents
  <2> QED BY <2>1, <2>2, FS_Surjection
<1>3. \A x \in NewContents(r, b) :
          /\ x.run = r /\ x.seen = Null
          /\ x.key \in DOMAIN b /\ x.value = b[x.key] /\ ~Stored(x.key, x.value)
          /\ x = [key |-> x.key, value |-> b[x.key], run |-> r, seen |-> Null]
  BY DEF NewContents
<1>4. \A k \in DOMAIN b : ~Stored(k, b[k]) =>
          \E x \in NewContents(r, b) : x.key = k /\ x.value = b[k]
  <2> SUFFICES ASSUME NEW k \in DOMAIN b, ~Stored(k, b[k])
               PROVE  \E x \in NewContents(r, b) : x.key = k /\ x.value = b[k]
    OBVIOUS
  <2>1. [key |-> k, value |-> b[k], run |-> r, seen |-> Null] \in NewContents(r, b)
    BY DEF NewContents
  <2> QED BY <2>1
<1> QED BY <1>1, <1>2, <1>3, <1>4

\* The transitions of a batch carry the next sequence and the next ordinals.
LEMMA NewTransitionsFacts ==
    ASSUME RawInv, NEW r \in Run, NEW b \in Batch
    PROVE  /\ NewTransitions(r, b) \subseteq TransitionRow
           /\ IsFiniteSet(NewTransitions(r, b))
           /\ \A t \in NewTransitions(r, b) :
                  /\ t.run = r /\ t.known = Null /\ t.seq = sequence + 1
                  /\ t.key \in DOMAIN b /\ t.value = b[t.key]
                  /\ \A u \in transitions : u.key = t.key => u.ordinal < t.ordinal
           /\ \A t, u \in NewTransitions(r, b) : t.key = u.key => t = u
           /\ \A k \in DOMAIN b : Changed(k, b[k]) =>
                  \E t \in NewTransitions(r, b) : t.key = k /\ t.value = b[k]
<1>0. sequence + 1 \in Nat
  BY DEF RawInv, RawTypeOK
<1>1. NewTransitions(r, b) \subseteq TransitionRow
  BY <1>0, BatchFacts, NextOrdinalFacts DEF NewTransitions, TransitionRow, Time
<1>2. IsFiniteSet(NewTransitions(r, b))
  <2> DEFINE D == {j \in DOMAIN b : Changed(j, b[j])}
             f == [k \in D |-> [run |-> r, key |-> k, value |-> b[k],
                                ordinal |-> NextOrdinal(k), seq |-> sequence + 1,
                                known |-> Null]]
  <2>1. IsFiniteSet(D)
    BY BatchFacts, FS_Subset
  <2>2. f \in Surjection(D, NewTransitions(r, b))
    BY DEF Surjection, NewTransitions
  <2> QED BY <2>1, <2>2, FS_Surjection
<1>3. \A t \in NewTransitions(r, b) :
          /\ t.run = r /\ t.known = Null /\ t.seq = sequence + 1
          /\ t.key \in DOMAIN b /\ t.value = b[t.key] /\ t.ordinal = NextOrdinal(t.key)
          /\ t = [run |-> r, key |-> t.key, value |-> b[t.key],
                  ordinal |-> NextOrdinal(t.key), seq |-> sequence + 1, known |-> Null]
  BY DEF NewTransitions
<1>4. \A k \in DOMAIN b : Changed(k, b[k]) =>
          \E t \in NewTransitions(r, b) : t.key = k /\ t.value = b[k]
  <2> SUFFICES ASSUME NEW k \in DOMAIN b, Changed(k, b[k])
               PROVE  \E t \in NewTransitions(r, b) : t.key = k /\ t.value = b[k]
    OBVIOUS
  <2>1. [run |-> r, key |-> k, value |-> b[k], ordinal |-> NextOrdinal(k),
         seq |-> sequence + 1, known |-> Null] \in NewTransitions(r, b)
    BY DEF NewTransitions
  <2> QED BY <2>1
<1>5. \A t \in NewTransitions(r, b) :
          \A u \in transitions : u.key = t.key => u.ordinal < t.ordinal
  BY <1>3, NextOrdinalFacts
<1> QED BY <1>1, <1>2, <1>3, <1>4, <1>5

\* Accepting a batch adds exactly the planned rows: none of its contents is
\* stored, and a run that was not accepted before owns no transition.
LEMMA AcceptFacts ==
    ASSUME RawInv, NEW r \in Run, NEW b \in Batch, Accept(r, b)
    PROVE  /\ ~Taken(r)
           /\ sequence' = sequence + 1
           /\ clock' = clock
           /\ accepted'[r].state = "open" /\ accepted'[r].seq = sequence + 1
           /\ accepted'[r].batch = b /\ accepted'[r].at = Null
           /\ \A s \in Run \ {r} : accepted'[s] = accepted[s] /\ accepted[s].state # "open"
           /\ contents' = contents \cup NewContents(r, b)
           /\ transitions' = transitions \cup NewTransitions(r, b)
<1>1. accepted \in [Run -> Entry]
  BY DEF RawInv, RawTypeOK
<1>2. ~Taken(r)
  BY DEF Accept, Taken
<1>3. contents' = contents \cup NewContents(r, b)
  BY NewContentsFacts DEF Accept, MergeContents, RawInv
<1>4. \A t \in transitions : t.run # r
  BY <1>2 DEF RawInv, SequencesAreTotal
<1>5. \A t \in NewTransitions(r, b) : t.run = r
  BY NewTransitionsFacts
<1>6. transitions' = transitions \cup NewTransitions(r, b)
  BY <1>4, <1>5 DEF Accept, MergeTransitions
<1> QED BY <1>1, <1>2, <1>3, <1>6 DEF Accept

StampedContent(x, r, t) == IF x.run = r /\ x.seen = Null THEN [x EXCEPT !.seen = t] ELSE x
StampedState(x, r, t) == IF x.run = r /\ x.known = Null THEN [x EXCEPT !.known = t] ELSE x

\* Publishing a run gives its rows their time and leaves all other rows alone.
LEMMA PublishFacts ==
    ASSUME RawInv, NEW r \in Run, NEW t \in 0..clock, Publish(r, t)
    PROVE  /\ accepted[r].state = "open" /\ accepted[r].at = Null
           /\ t \in Nat /\ t <= clock
           /\ sequence' = sequence /\ clock' = clock
           /\ accepted'[r] = [accepted[r] EXCEPT !.state = "published", !.at = t]
           /\ \A s \in Run \ {r} : accepted'[s] = accepted[s]
           /\ contents' = {StampedContent(x, r, t) : x \in contents}
           /\ transitions' = {StampedState(x, r, t) : x \in transitions}
           /\ \A x \in contents :
                  LET y == StampedContent(x, r, t)
                  IN  /\ y.run = x.run /\ y.key = x.key /\ y.value = x.value
                      /\ y.seen = IF x.run = r THEN t ELSE x.seen
                      /\ y \in ContentRow
                      /\ x.run # r => y = x
           /\ \A x \in transitions :
                  LET y == StampedState(x, r, t)
                  IN  /\ y.run = x.run /\ y.key = x.key /\ y.value = x.value
                      /\ y.ordinal = x.ordinal /\ y.seq = x.seq
                      /\ y.known = IF x.run = r THEN t ELSE x.known
                      /\ y \in TransitionRow
                      /\ x.run # r => y = x
<1>1. accepted \in [Run -> Entry] /\ clock \in Nat
  BY DEF RawInv, RawTypeOK
<1>2. accepted[r].state = "open"
  BY DEF Publish
<1>3. accepted[r].at = Null
  BY <1>2 DEF RawInv, KnowledgeIsOrdered, Published
<1>4. t \in Nat /\ t <= clock
  BY <1>1
<1>5. ASSUME NEW x \in contents
      PROVE  LET y == StampedContent(x, r, t)
             IN  /\ y.run = x.run /\ y.key = x.key /\ y.value = x.value
                 /\ y.seen = IF x.run = r THEN t ELSE x.seen
                 /\ y \in ContentRow
                 /\ x.run # r => y = x
  <2>1. x \in ContentRow /\ t \in Time
    BY <1>4 DEF RawInv, RawTypeOK, Time
  <2>2. x.run = r => x.seen = Null
    BY <1>3 DEF RawInv, KnowledgeIsOrdered
  <2> QED BY <2>1, <2>2 DEF StampedContent, ContentRow
<1>6. ASSUME NEW x \in transitions
      PROVE  LET y == StampedState(x, r, t)
             IN  /\ y.run = x.run /\ y.key = x.key /\ y.value = x.value
                 /\ y.ordinal = x.ordinal /\ y.seq = x.seq
                 /\ y.known = IF x.run = r THEN t ELSE x.known
                 /\ y \in TransitionRow
                 /\ x.run # r => y = x
  <2>1. x \in TransitionRow /\ t \in Time
    BY <1>4 DEF RawInv, RawTypeOK, Time
  <2>2. x.run = r => x.known = Null
    BY <1>3 DEF RawInv, KnowledgeIsOrdered
  <2> QED BY <2>1, <2>2 DEF StampedState, TransitionRow
<1>7. /\ contents' = {StampedContent(x, r, t) : x \in contents}
      /\ transitions' = {StampedState(x, r, t) : x \in transitions}
  BY DEF Publish, StampContents, StampTransitions, StampedContent, StampedState
<1>8. /\ sequence' = sequence /\ clock' = clock
      /\ accepted'[r] = [accepted[r] EXCEPT !.state = "published", !.at = t]
      /\ \A s \in Run \ {r} : accepted'[s] = accepted[s]
  BY <1>1 DEF Publish
<1> HIDE DEF StampedContent, StampedState
<1> QED BY <1>2, <1>3, <1>4, <1>5, <1>6, <1>7, <1>8
----------------------------------------------------------------------------
(* Accepting a batch preserves each part of the invariant.                 *)

LEMMA AcceptTypes ==
    ASSUME RawInv, NEW r \in Run, NEW b \in Batch, Accept(r, b)
    PROVE  RawTypeOK' /\ TablesAreFinite'
<1>1. RawTypeOK /\ TablesAreFinite
  BY DEF RawInv
<1>0. /\ sequence' = sequence + 1 /\ clock' = clock
      /\ contents' = contents \cup NewContents(r, b)
      /\ transitions' = transitions \cup NewTransitions(r, b)
  BY AcceptFacts, Zenon
<1>2. sequence' \in Nat /\ clock' \in Nat
  BY <1>0, <1>1 DEF RawTypeOK
<1>3. contents' \subseteq ContentRow /\ transitions' \subseteq TransitionRow
  BY <1>0, <1>1, NewContentsFacts, NewTransitionsFacts DEF RawTypeOK
<1>4. [state |-> "open", seq |-> sequence + 1, batch |-> b, at |-> Null] \in Entry
  BY <1>1 DEF RawTypeOK, Entry, RunState, Time
<1>5. accepted' \in [Run -> Entry]
  BY <1>1, <1>4 DEF RawTypeOK, Accept
<1>6. IsFiniteSet(contents') /\ IsFiniteSet(transitions')
  BY <1>0, <1>1, NewContentsFacts, NewTransitionsFacts, FS_Union DEF TablesAreFinite
<1> QED BY <1>2, <1>3, <1>5, <1>6 DEF RawTypeOK, TablesAreFinite

\* The runs as a step finds and leaves them.
LEMMA TakenRuns ==
    ASSUME RawInv
    PROVE  /\ sequence \in Nat /\ clock \in Nat
           /\ \A s \in Run : /\ accepted[s] \in Entry /\ accepted[s].seq \in Nat
                             /\ Taken(s) => accepted[s].seq <= sequence
                             /\ Published(s) => accepted[s].at \in Nat /\ accepted[s].at <= clock
           /\ \A t \in transitions :
                  /\ t \in TransitionRow /\ t.run \in Run /\ t.seq \in Nat /\ t.ordinal \in Nat
                  /\ t.seq <= sequence
           /\ \A x \in contents : x \in ContentRow /\ x.run \in Run
<1>1. /\ sequence \in Nat /\ clock \in Nat
      /\ \A s \in Run : accepted[s] \in Entry /\ accepted[s].seq \in Nat
                        /\ accepted[s].at \in Time
  BY DEF RawInv, RawTypeOK, Entry
<1>2. \A s \in Run : Taken(s) => accepted[s].seq <= sequence
  BY <1>1 DEF RawInv, SequencesAreTotal
<1>3. \A s \in Run : Published(s) => accepted[s].at \in Nat /\ accepted[s].at <= clock
  BY <1>1 DEF RawInv, KnowledgeIsOrdered, Time
<1>4. \A t \in transitions : /\ t \in TransitionRow /\ t.run \in Run /\ t.seq \in Nat
                             /\ t.ordinal \in Nat
  BY DEF RawInv, RawTypeOK, TransitionRow
<1>5. \A t \in transitions : t.seq <= sequence
  BY <1>2, <1>4 DEF RawInv, SequencesAreTotal
<1>6. \A x \in contents : x \in ContentRow /\ x.run \in Run
  BY DEF RawInv, RawTypeOK, ContentRow
<1> QED BY <1>1, <1>2, <1>3, <1>4, <1>5, <1>6

LEMMA AcceptSequences ==
    ASSUME RawInv, NEW r \in Run, NEW b \in Batch, Accept(r, b)
    PROVE  GateIsSound' /\ SequencesAreTotal'
<1>1. /\ accepted'[r].state = "open" /\ accepted'[r].seq = sequence + 1
      /\ \A s \in Run \ {r} : accepted'[s] = accepted[s] /\ accepted[s].state # "open"
      /\ sequence' = sequence + 1 /\ ~Taken(r)
      /\ contents' = contents \cup NewContents(r, b)
      /\ transitions' = transitions \cup NewTransitions(r, b)
  BY AcceptFacts, Zenon
<1>0. sequence \in Nat
  BY TakenRuns
<1>2. Taken(r)' /\ \A s \in Run \ {r} : Taken(s)' <=> Taken(s)
  BY <1>1 DEF Taken
<1>3. GateIsSound'
  BY <1>0, <1>1 DEF GateIsSound
<1>4. \A p, s \in Run : Taken(p)' /\ Taken(s)' /\ accepted'[p].seq = accepted'[s].seq => p = s
  BY <1>0, <1>1, <1>2, TakenRuns DEF RawInv, SequencesAreTotal
<1>5. \A n \in 1..sequence' : \E s \in Run : Taken(s)' /\ accepted'[s].seq = n
  <2> SUFFICES ASSUME NEW n \in 1..sequence'
               PROVE  \E s \in Run : Taken(s)' /\ accepted'[s].seq = n
    OBVIOUS
  <2>1. CASE n = sequence + 1
    BY <1>1, <1>2, <2>1
  <2>2. CASE n # sequence + 1
    <3>1. n \in 1..sequence
      BY <1>0, <1>1, <2>2
    <3>2. PICK s \in Run : Taken(s) /\ accepted[s].seq = n
      BY <3>1 DEF RawInv, SequencesAreTotal
    <3>3. s # r
      BY <1>1, <3>2
    <3> QED BY <1>1, <1>2, <3>2, <3>3
  <2> QED BY <2>1, <2>2
<1>6. \A s \in Run : Taken(s)' => accepted'[s].seq \in 1..sequence'
  BY <1>0, <1>1, <1>2 DEF RawInv, SequencesAreTotal
<1>7. \A x \in contents' : Taken(x.run)'
  <2>1. \A x \in contents : x.run \in Run \ {r} /\ Taken(x.run)
    BY <1>1, TakenRuns DEF RawInv, SequencesAreTotal
  <2>2. \A x \in NewContents(r, b) : x.run = r
    BY NewContentsFacts DEF RawInv
  <2> QED BY <1>1, <1>2, <2>1, <2>2
<1>8. \A t \in transitions' : Taken(t.run)' /\ t.seq = accepted'[t.run].seq
  <2>1. \A t \in transitions : /\ t.run \in Run \ {r} /\ Taken(t.run)
                               /\ t.seq = accepted[t.run].seq
    BY <1>1, TakenRuns DEF RawInv, SequencesAreTotal
  <2>2. \A t \in NewTransitions(r, b) : t.run = r /\ t.seq = sequence + 1
    BY NewTransitionsFacts
  <2> QED BY <1>1, <1>2, <2>1, <2>2
<1> QED BY <1>3, <1>4, <1>5, <1>6, <1>7, <1>8 DEF SequencesAreTotal

LEMMA AcceptContents ==
    ASSUME RawInv, NEW r \in Run, NEW b \in Batch, Accept(r, b)
    PROVE  ContentsMatch'
<1>1. /\ contents' = contents \cup NewContents(r, b)
      /\ transitions' = transitions \cup NewTransitions(r, b)
      /\ accepted'[r].seq = sequence + 1
      /\ \A s \in Run \ {r} : accepted'[s] = accepted[s]
      /\ ~Taken(r)
  BY AcceptFacts, Zenon
<1>2. /\ \A x \in NewContents(r, b) : x.run = r /\ ~Stored(x.key, x.value)
      /\ \A x, y \in NewContents(r, b) : x.key = y.key => x = y
      /\ \A k \in DOMAIN b : ~Stored(k, b[k]) =>
             \E x \in NewContents(r, b) : x.key = k /\ x.value = b[k]
  BY NewContentsFacts DEF RawInv
<1>3. \A x, y \in contents' : x.key = y.key /\ x.value = y.value => x = y
  BY <1>1, <1>2 DEF RawInv, ContentsMatch, Stored
<1>4. \A x \in contents : x.run # r
  BY <1>1 DEF RawInv, SequencesAreTotal
<1>5. ASSUME NEW t \in transitions'
      PROVE  \E x \in contents' : /\ x.key = t.key /\ x.value = t.value
                                  /\ accepted'[x.run].seq <= t.seq
  <2>1. CASE t \in transitions
    <3>1. PICK x \in contents : /\ x.key = t.key /\ x.value = t.value
                                /\ accepted[x.run].seq <= t.seq
      BY <2>1 DEF RawInv, ContentsMatch
    <3>2. accepted'[x.run] = accepted[x.run]
      BY <1>1, <1>4, TakenRuns
    <3> QED BY <1>1, <3>1, <3>2
  <2>2. CASE t \in NewTransitions(r, b)
    <3>1. t.seq = sequence + 1 /\ t.key \in DOMAIN b /\ t.value = b[t.key] /\ sequence \in Nat
      BY <2>2, NewTransitionsFacts, TakenRuns
    <3>2. CASE Stored(t.key, t.value)
      <4>1. PICK x \in contents : x.key = t.key /\ x.value = t.value
        BY <3>2 DEF Stored
      <4>2. x.run \in Run /\ Taken(x.run) /\ accepted[x.run].seq \in Nat
            /\ accepted[x.run].seq <= sequence
        BY TakenRuns DEF RawInv, SequencesAreTotal
      <4>3. accepted'[x.run].seq <= t.seq
        BY <1>1, <1>4, <3>1, <4>2
      <4> QED BY <1>1, <4>1, <4>3
    <3>3. CASE ~Stored(t.key, t.value)
      <4>1. PICK x \in NewContents(r, b) : x.key = t.key /\ x.value = t.value
        BY <1>2, <3>1, <3>3
      <4>2. accepted'[x.run].seq <= t.seq
        BY <1>1, <1>2, <3>1
      <4> QED BY <1>1, <4>1, <4>2
    <3> QED BY <3>2, <3>3
  <2> QED BY <1>1, <2>1, <2>2
<1> QED BY <1>3, <1>5 DEF ContentsMatch

LEMMA AcceptKnowledge ==
    ASSUME RawInv, NEW r \in Run, NEW b \in Batch, Accept(r, b)
    PROVE  KnowledgeIsOrdered'
<1>1. /\ contents' = contents \cup NewContents(r, b)
      /\ transitions' = transitions \cup NewTransitions(r, b)
      /\ accepted'[r].at = Null /\ accepted'[r].state = "open"
      /\ \A s \in Run \ {r} : accepted'[s] = accepted[s]
      /\ ~Taken(r) /\ clock' = clock
  BY AcceptFacts, Zenon
<1>2. \A x \in contents' : x.seen = accepted'[x.run].at
  <2>1. \A x \in contents : x.run \in Run \ {r} /\ x.seen = accepted[x.run].at
    BY <1>1, TakenRuns DEF RawInv, SequencesAreTotal, KnowledgeIsOrdered
  <2>2. \A x \in NewContents(r, b) : x.run = r /\ x.seen = Null
    BY NewContentsFacts DEF RawInv
  <2> QED BY <1>1, <2>1, <2>2
<1>3. \A t \in transitions' : t.known = accepted'[t.run].at
  <2>1. \A t \in transitions : t.run \in Run \ {r} /\ t.known = accepted[t.run].at
    BY <1>1, TakenRuns DEF RawInv, SequencesAreTotal, KnowledgeIsOrdered
  <2>2. \A t \in NewTransitions(r, b) : t.run = r /\ t.known = Null
    BY NewTransitionsFacts
  <2> QED BY <1>1, <2>1, <2>2
<1>4. ~Published(r)' /\ \A s \in Run \ {r} : Published(s)' <=> Published(s)
  BY <1>1 DEF Published
<1> QED BY <1>1, <1>2, <1>3, <1>4 DEF RawInv, KnowledgeIsOrdered

LEMMA AcceptStates ==
    ASSUME RawInv, NEW r \in Run, NEW b \in Batch, Accept(r, b)
    PROVE  StatesAreOrdered' /\ StatesHaveLatest' /\ BatchesAreReconstructed'
<1> DEFINE N == NewTransitions(r, b)
<1>1. /\ transitions' = transitions \cup N /\ sequence' = sequence + 1
      /\ accepted'[r].seq = sequence + 1 /\ accepted'[r].batch = b
      /\ \A s \in Run \ {r} : accepted'[s] = accepted[s]
  BY AcceptFacts, Zenon
<1>2. /\ \A t \in N : /\ t.seq = sequence + 1 /\ t.key \in DOMAIN b /\ t.value = b[t.key]
                      /\ \A u \in transitions : u.key = t.key => u.ordinal < t.ordinal
      /\ \A t, u \in N : t.key = u.key => t = u
      /\ \A k \in DOMAIN b : Changed(k, b[k]) => \E t \in N : t.key = k /\ t.value = b[k]
  BY NewTransitionsFacts
<1>3. /\ sequence \in Nat
      /\ \A t \in transitions : t.seq \in Nat /\ t.ordinal \in Nat /\ t.seq <= sequence
      /\ \A t \in N : t.ordinal \in Nat
  BY TakenRuns, NewTransitionsFacts DEF TransitionRow
<1> HIDE DEF N
<1>4. StatesAreOrdered'
  <2> SUFFICES ASSUME NEW t \in transitions', NEW u \in transitions', t.key = u.key
               PROVE  /\ t.ordinal <= u.ordinal <=> t.seq <= u.seq
                      /\ t.seq = u.seq => t = u
    BY DEF StatesAreOrdered
  <2>1. CASE t \in transitions /\ u \in transitions
    BY <2>1 DEF RawInv, StatesAreOrdered
  <2>2. CASE t \in N /\ u \in N
    BY <1>2, <1>3, <2>2
  <2>3. CASE t \in transitions /\ u \in N
    BY <1>2, <1>3, <2>3
  <2>4. CASE t \in N /\ u \in transitions
    BY <1>2, <1>3, <2>4
  <2> QED BY <1>1, <2>1, <2>2, <2>3, <2>4
<1>5. StatesHaveLatest'
  <2> SUFFICES ASSUME NEW n \in Nat, NEW t \in transitions', t.seq <= n
               PROVE  \E w \in transitions' :
                          /\ w.key = t.key /\ w.seq <= n
                          /\ \A u \in transitions' :
                                 u.key = t.key /\ u.seq <= n => u.seq <= w.seq
    BY DEF StatesHaveLatest
  <2>1. CASE \E w \in N : w.key = t.key /\ w.seq <= n
    BY <1>1, <1>2, <1>3, <2>1
  <2>2. CASE ~\E w \in N : w.key = t.key /\ w.seq <= n
    <3>1. t \in transitions
      BY <1>1, <2>2
    <3>2. PICK w \in transitions :
              /\ w.key = t.key /\ w.seq <= n
              /\ \A u \in transitions : u.key = t.key /\ u.seq <= n => u.seq <= w.seq
      BY <3>1 DEF RawInv, StatesHaveLatest
    <3> QED BY <1>1, <2>2, <3>2
  <2> QED BY <2>1, <2>2
<1>6. BatchesAreReconstructed'
  <2> SUFFICES ASSUME NEW s \in Run, Taken(s)', NEW k \in DOMAIN accepted'[s].batch
               PROVE  \E t \in transitions' :
                          /\ t.key = k
                          /\ t.value = accepted'[s].batch[k]
                          /\ t.seq <= accepted'[s].seq
                          /\ \A u \in transitions' :
                                 u.key = k /\ u.seq <= accepted'[s].seq => u.ordinal <= t.ordinal
    BY DEF BatchesAreReconstructed
  <2>1. CASE s # r
    <3>1. accepted'[s] = accepted[s] /\ Taken(s)
      BY <1>1, <2>1 DEF Taken
    <3>2. accepted[s].seq \in Nat /\ accepted[s].seq <= sequence
      BY <3>1, TakenRuns
    <3>3. PICK t \in transitions :
              /\ t.key = k
              /\ t.value = accepted[s].batch[k]
              /\ t.seq <= accepted[s].seq
              /\ \A u \in transitions :
                     u.key = k /\ u.seq <= accepted[s].seq => u.ordinal <= t.ordinal
      BY <3>1 DEF RawInv, BatchesAreReconstructed
    <3>4. \A u \in N : ~(u.seq <= accepted[s].seq)
      BY <1>2, <1>3, <3>2
    <3> QED BY <1>1, <3>1, <3>3, <3>4
  <2>2. CASE s = r
    <3>1. accepted'[s].seq = sequence + 1 /\ accepted'[s].batch = b /\ k \in DOMAIN b
      BY <1>1, <2>2
    <3>2. CASE \E t \in N : t.key = k
      <4>1. PICK t \in N : t.key = k
        BY <3>2
      <4>2. t.value = b[k] /\ t.seq <= sequence + 1
        BY <1>2, <1>3, <4>1
      <4>3. \A u \in transitions' : u.key = k => u.ordinal <= t.ordinal
        BY <1>1, <1>2, <1>3, <4>1
      <4> QED BY <1>1, <3>1, <4>1, <4>2, <4>3
    <3>3. CASE ~\E t \in N : t.key = k
      <4>1. PICK t \in LatestRows(k) : t.value = b[k]
        BY <1>2, <3>1, <3>3 DEF Changed
      <4>2. /\ t \in transitions /\ t.key = k /\ t.seq <= sequence + 1
            /\ \A u \in transitions : u.key = k => u.ordinal <= t.ordinal
        BY <1>3, <4>1 DEF LatestRows
      <4> QED BY <1>1, <3>1, <3>3, <4>1, <4>2
    <3> QED BY <3>2, <3>3
  <2> QED BY <2>1, <2>2
<1> QED BY <1>4, <1>5, <1>6
----------------------------------------------------------------------------
(* Publishing a run preserves each part of the invariant.                  *)

\* The runs as a publication leaves them.
LEMMA PublishRuns ==
    ASSUME RawInv, NEW r \in Run, NEW t \in 0..clock, Publish(r, t)
    PROVE  /\ accepted' \in [Run -> Entry]
           /\ accepted'[r].state = "published" /\ accepted'[r].at = t
           /\ accepted'[r].seq = sequence /\ accepted[r].seq = sequence
           /\ \A s \in Run : /\ accepted'[s].seq = accepted[s].seq
                             /\ accepted'[s].batch = accepted[s].batch
                             /\ Taken(s)' <=> Taken(s)
           /\ \A s \in Run \ {r} : /\ accepted'[s] = accepted[s]
                                   /\ Published(s)' <=> Published(s)
                                   /\ accepted[s].state # "open"
           /\ \A s \in Run : Published(s) => accepted[s].at <= t
<1>1. /\ accepted[r].state = "open" /\ t \in Nat
      /\ accepted'[r] = [accepted[r] EXCEPT !.state = "published", !.at = t]
      /\ \A s \in Run \ {r} : accepted'[s] = accepted[s]
  BY PublishFacts, Zenon
<1>2. accepted \in [Run -> Entry] /\ accepted[r] \in Entry
  BY DEF RawInv, RawTypeOK
<1>3. accepted'[r] \in Entry
  BY <1>1, <1>2 DEF Entry, RunState, Time
<1>4. accepted' \in [Run -> Entry]
  BY <1>2, <1>3 DEF Publish
<1>5. /\ accepted'[r].state = "published" /\ accepted'[r].at = t
      /\ accepted'[r].seq = accepted[r].seq /\ accepted'[r].batch = accepted[r].batch
  BY <1>1, <1>2 DEF Entry
<1>6. accepted[r].seq = sequence
  BY <1>1 DEF RawInv, GateIsSound
<1>7. \A s \in Run \ {r} : accepted[s].state # "open"
  <2> SUFFICES ASSUME NEW s \in Run, accepted[s].state = "open"
               PROVE  s = r
    OBVIOUS
  <2>1. accepted[s].seq = sequence
    BY DEF RawInv, GateIsSound
  <2>2. Taken(s) /\ Taken(r)
    BY <1>1 DEF Taken
  <2> QED BY <1>6, <2>1, <2>2 DEF RawInv, SequencesAreTotal
<1>8. \A s \in Run : Published(s) => accepted[s].at <= t
  BY DEF Publish
<1> QED BY <1>1, <1>4, <1>5, <1>6, <1>7, <1>8 DEF Taken, Published

\* The content rows before and after a publication correspond.
LEMMA PublishContents ==
    ASSUME RawInv, NEW r \in Run, NEW t \in 0..clock, Publish(r, t)
    PROVE  /\ \A y \in contents' : \E x \in contents :
                  /\ y = StampedContent(x, r, t) /\ y \in ContentRow
                  /\ y.run = x.run /\ y.key = x.key /\ y.value = x.value
                  /\ y.seen = IF x.run = r THEN t ELSE x.seen
           /\ \A x \in contents : \E y \in contents' :
                  y.run = x.run /\ y.key = x.key /\ y.value = x.value
           /\ IsFiniteSet(contents')
<1>1. /\ contents' = {StampedContent(x, r, t) : x \in contents}
      /\ \A x \in contents :
             LET y == StampedContent(x, r, t)
             IN  /\ y.run = x.run /\ y.key = x.key /\ y.value = x.value
                 /\ y.seen = IF x.run = r THEN t ELSE x.seen
                 /\ y \in ContentRow
                 /\ x.run # r => y = x
  BY PublishFacts, Zenon
<1>2. IsFiniteSet(contents')
  <2> DEFINE f == [x \in contents |-> StampedContent(x, r, t)]
  <2>1. IsFiniteSet(contents)
    BY DEF RawInv, TablesAreFinite
  <2>2. f \in Surjection(contents, contents')
    BY <1>1 DEF Surjection
  <2> QED BY <2>1, <2>2, FS_Surjection
<1> QED BY <1>1, <1>2

\* The transitions before and after a publication correspond.
LEMMA PublishTransitions ==
    ASSUME RawInv, NEW r \in Run, NEW t \in 0..clock, Publish(r, t)
    PROVE  /\ \A y \in transitions' : \E x \in transitions :
                  /\ y = StampedState(x, r, t) /\ y \in TransitionRow
                  /\ y.run = x.run /\ y.key = x.key /\ y.value = x.value
                  /\ y.ordinal = x.ordinal /\ y.seq = x.seq
                  /\ y.known = IF x.run = r THEN t ELSE x.known
           /\ \A x \in transitions : \E y \in transitions' :
                  /\ y.run = x.run /\ y.key = x.key /\ y.value = x.value
                  /\ y.ordinal = x.ordinal /\ y.seq = x.seq
           /\ IsFiniteSet(transitions')
<1>1. /\ transitions' = {StampedState(x, r, t) : x \in transitions}
      /\ \A x \in transitions :
             LET y == StampedState(x, r, t)
             IN  /\ y.run = x.run /\ y.key = x.key /\ y.value = x.value
                 /\ y.ordinal = x.ordinal /\ y.seq = x.seq
                 /\ y.known = IF x.run = r THEN t ELSE x.known
                 /\ y \in TransitionRow
                 /\ x.run # r => y = x
  BY PublishFacts, Zenon
<1>2. IsFiniteSet(transitions')
  <2> DEFINE f == [x \in transitions |-> StampedState(x, r, t)]
  <2>1. IsFiniteSet(transitions)
    BY DEF RawInv, TablesAreFinite
  <2>2. f \in Surjection(transitions, transitions')
    BY <1>1 DEF Surjection
  <2> QED BY <2>1, <2>2, FS_Surjection
<1> QED BY <1>1, <1>2

LEMMA PublishKeepsInv ==
    ASSUME RawInv, NEW r \in Run, NEW t \in 0..clock, Publish(r, t)
    PROVE  RawInv'
<1>1. /\ accepted' \in [Run -> Entry]
      /\ accepted'[r].state = "published" /\ accepted'[r].at = t
      /\ accepted'[r].seq = sequence /\ accepted[r].seq = sequence
      /\ \A s \in Run : /\ accepted'[s].seq = accepted[s].seq
                        /\ accepted'[s].batch = accepted[s].batch
                        /\ Taken(s)' <=> Taken(s)
      /\ \A s \in Run \ {r} : /\ accepted'[s] = accepted[s]
                              /\ Published(s)' <=> Published(s)
                              /\ accepted[s].state # "open"
      /\ \A s \in Run : Published(s) => accepted[s].at <= t
  BY PublishRuns, Zenon
<1>2. /\ \A y \in contents' : \E x \in contents :
             /\ y = StampedContent(x, r, t) /\ y \in ContentRow
             /\ y.run = x.run /\ y.key = x.key /\ y.value = x.value
             /\ y.seen = IF x.run = r THEN t ELSE x.seen
      /\ \A x \in contents : \E y \in contents' :
             y.run = x.run /\ y.key = x.key /\ y.value = x.value
      /\ IsFiniteSet(contents')
  BY PublishContents, Zenon
<1>3. /\ \A y \in transitions' : \E x \in transitions :
             /\ y = StampedState(x, r, t) /\ y \in TransitionRow
             /\ y.run = x.run /\ y.key = x.key /\ y.value = x.value
             /\ y.ordinal = x.ordinal /\ y.seq = x.seq
             /\ y.known = IF x.run = r THEN t ELSE x.known
      /\ \A x \in transitions : \E y \in transitions' :
             /\ y.run = x.run /\ y.key = x.key /\ y.value = x.value
             /\ y.ordinal = x.ordinal /\ y.seq = x.seq
      /\ IsFiniteSet(transitions')
  BY PublishTransitions, Zenon
<1>4. sequence' = sequence /\ clock' = clock /\ t \in Nat /\ t <= clock
  BY PublishFacts, Zenon
<1>5. /\ sequence \in Nat /\ clock \in Nat
      /\ \A s \in Run : accepted[s].seq \in Nat
      /\ \A x \in transitions : x.run \in Run /\ x.seq \in Nat /\ x.ordinal \in Nat
      /\ \A x \in contents : x.run \in Run
  BY TakenRuns
<1>6. RawTypeOK' /\ TablesAreFinite'
  BY <1>1, <1>2, <1>3, <1>4, <1>5 DEF RawTypeOK, TablesAreFinite
<1>7. GateIsSound'
  BY <1>1, <1>4 DEF GateIsSound
<1>8. SequencesAreTotal'
  <2>1. /\ \A p, s \in Run : Taken(p)' /\ Taken(s)' /\ accepted'[p].seq = accepted'[s].seq => p = s
        /\ \A n \in 1..sequence' : \E s \in Run : Taken(s)' /\ accepted'[s].seq = n
        /\ \A s \in Run : Taken(s)' => accepted'[s].seq \in 1..sequence'
    BY <1>1, <1>4 DEF RawInv, SequencesAreTotal
  <2>2. \A x \in contents' : Taken(x.run)'
    BY <1>1, <1>2, <1>5 DEF RawInv, SequencesAreTotal
  <2>3. \A x \in transitions' : Taken(x.run)' /\ x.seq = accepted'[x.run].seq
    BY <1>1, <1>3, <1>5 DEF RawInv, SequencesAreTotal
  <2> QED BY <2>1, <2>2, <2>3 DEF SequencesAreTotal
<1>9. ContentsMatch'
  <2>1. \A x, y \in contents' : x.key = y.key /\ x.value = y.value => x = y
    BY <1>2 DEF RawInv, ContentsMatch
  <2>2. ASSUME NEW u \in transitions'
        PROVE  \E y \in contents' : /\ y.key = u.key /\ y.value = u.value
                                    /\ accepted'[y.run].seq <= u.seq
    <3>1. PICK w \in transitions : u.key = w.key /\ u.value = w.value /\ u.seq = w.seq
      BY <1>3
    <3>2. PICK x \in contents : /\ x.key = w.key /\ x.value = w.value
                                /\ accepted[x.run].seq <= w.seq
      BY DEF RawInv, ContentsMatch
    <3>3. PICK y \in contents' : y.run = x.run /\ y.key = x.key /\ y.value = x.value
      BY <1>2
    <3> QED BY <1>1, <1>5, <3>1, <3>2, <3>3
  <2> QED BY <2>1, <2>2 DEF ContentsMatch
<1>10. KnowledgeIsOrdered'
  <2>1. \A y \in contents' : y.seen = accepted'[y.run].at
    BY <1>1, <1>2, <1>5 DEF RawInv, KnowledgeIsOrdered
  <2>2. \A y \in transitions' : y.known = accepted'[y.run].at
    BY <1>1, <1>3, <1>5 DEF RawInv, KnowledgeIsOrdered
  <2>3. Published(r)' /\ t # Null
    BY <1>1, <1>4, NullAssumption DEF Published
  <2>4. \A s \in Run : Published(s)' <=> accepted'[s].at # Null
    BY <1>1, <2>3 DEF RawInv, KnowledgeIsOrdered
  <2>5. \A s \in Run : Published(s)' => accepted'[s].at <= clock'
    BY <1>1, <1>4 DEF RawInv, KnowledgeIsOrdered
  <2>6. ASSUME NEW p \in Run, NEW s \in Run, Published(p)', Published(s)',
               accepted'[p].seq <= accepted'[s].seq
        PROVE  accepted'[p].at <= accepted'[s].at
    <3>1. CASE p # r /\ s # r
      BY <1>1, <2>6, <3>1 DEF RawInv, KnowledgeIsOrdered
    <3>2. CASE s = r
      BY <1>1, <1>4, <2>6, <3>2
    <3>3. CASE p = r /\ s # r
      <4>1. Published(s) /\ Taken(s)
        BY <1>1, <2>6, <3>3 DEF Published, Taken
      <4>2. accepted[s].seq <= sequence
        BY <4>1, TakenRuns
      <4>3. accepted[s].seq = accepted[r].seq
        BY <1>1, <1>5, <2>6, <3>3, <4>2
      <4>4. Taken(r)
        BY DEF Taken, Publish
      <4> QED BY <3>3, <4>1, <4>3, <4>4 DEF RawInv, SequencesAreTotal
    <3> QED BY <3>1, <3>2, <3>3
  <2> QED BY <2>1, <2>2, <2>4, <2>5, <2>6 DEF KnowledgeIsOrdered
<1>11. StatesAreOrdered'
  <2> SUFFICES ASSUME NEW y \in transitions', NEW z \in transitions', y.key = z.key
               PROVE  /\ y.ordinal <= z.ordinal <=> y.seq <= z.seq
                      /\ y.seq = z.seq => y = z
    BY DEF StatesAreOrdered
  <2>1. PICK x \in transitions : /\ y = StampedState(x, r, t) /\ y.key = x.key
                                 /\ y.ordinal = x.ordinal /\ y.seq = x.seq
    BY <1>3
  <2>2. PICK w \in transitions : /\ z = StampedState(w, r, t) /\ z.key = w.key
                                 /\ z.ordinal = w.ordinal /\ z.seq = w.seq
    BY <1>3
  <2> QED BY <2>1, <2>2 DEF RawInv, StatesAreOrdered
<1>12. StatesHaveLatest'
  <2> SUFFICES ASSUME NEW n \in Nat, NEW y \in transitions', y.seq <= n
               PROVE  \E w \in transitions' :
                          /\ w.key = y.key /\ w.seq <= n
                          /\ \A u \in transitions' :
                                 u.key = y.key /\ u.seq <= n => u.seq <= w.seq
    BY DEF StatesHaveLatest
  <2>1. PICK x \in transitions : y.key = x.key /\ y.seq = x.seq
    BY <1>3
  <2>2. PICK v \in transitions :
            /\ v.key = x.key /\ v.seq <= n
            /\ \A u \in transitions : u.key = x.key /\ u.seq <= n => u.seq <= v.seq
    BY <2>1 DEF RawInv, StatesHaveLatest
  <2>3. PICK w \in transitions' : w.key = v.key /\ w.seq = v.seq
    BY <1>3
  <2>4. \A u \in transitions' : u.key = y.key /\ u.seq <= n => u.seq <= w.seq
    BY <1>3, <2>1, <2>2, <2>3
  <2> QED BY <2>1, <2>2, <2>3, <2>4
<1>13. BatchesAreReconstructed'
  <2> SUFFICES ASSUME NEW s \in Run, Taken(s)', NEW k \in DOMAIN accepted'[s].batch
               PROVE  \E y \in transitions' :
                          /\ y.key = k
                          /\ y.value = accepted'[s].batch[k]
                          /\ y.seq <= accepted'[s].seq
                          /\ \A u \in transitions' :
                                 u.key = k /\ u.seq <= accepted'[s].seq => u.ordinal <= y.ordinal
    BY DEF BatchesAreReconstructed
  <2>1. /\ Taken(s) /\ accepted'[s].batch = accepted[s].batch
        /\ accepted'[s].seq = accepted[s].seq
    BY <1>1
  <2>2. PICK x \in transitions :
            /\ x.key = k
            /\ x.value = accepted[s].batch[k]
            /\ x.seq <= accepted[s].seq
            /\ \A u \in transitions :
                   u.key = k /\ u.seq <= accepted[s].seq => u.ordinal <= x.ordinal
    BY <2>1 DEF RawInv, BatchesAreReconstructed
  <2>3. PICK y \in transitions' : /\ y.key = x.key /\ y.value = x.value
                                  /\ y.ordinal = x.ordinal /\ y.seq = x.seq
    BY <1>3
  <2>4. \A u \in transitions' : u.key = k /\ u.seq <= accepted[s].seq => u.ordinal <= y.ordinal
    BY <1>3, <2>2, <2>3
  <2> QED BY <2>1, <2>2, <2>3, <2>4
<1> QED BY <1>6, <1>7, <1>8, <1>9, <1>10, <1>11, <1>12, <1>13 DEF RawInv
LEMMA TickKeepsInv == RawInv /\ Tick => RawInv'
<1> SUFFICES ASSUME RawInv, Tick PROVE RawInv'
  OBVIOUS
<1>1. /\ clock' = clock + 1 /\ sequence' = sequence /\ contents' = contents
      /\ transitions' = transitions /\ accepted' = accepted
  BY DEF Tick
<1>2. \A s \in Run : Published(s) => accepted[s].at <= clock'
  BY <1>1, TakenRuns
<1>3. clock' \in Nat
  BY <1>1, TakenRuns
<1>4. RawTypeOK' /\ TablesAreFinite' /\ GateIsSound' /\ ContentsMatch'
  BY <1>1, <1>3 DEF RawInv, RawTypeOK, TablesAreFinite, GateIsSound, ContentsMatch
<1>5. SequencesAreTotal'
  BY <1>1 DEF RawInv, SequencesAreTotal, Taken
<1>6. KnowledgeIsOrdered'
  BY <1>1, <1>2 DEF RawInv, KnowledgeIsOrdered, Published
<1>7. StatesAreOrdered' /\ StatesHaveLatest'
  BY <1>1 DEF RawInv, StatesAreOrdered, StatesHaveLatest
<1>8. BatchesAreReconstructed'
  BY <1>1 DEF RawInv, BatchesAreReconstructed, Taken
<1> QED BY <1>4, <1>5, <1>6, <1>7, <1>8 DEF RawInv

LEMMA StutterKeepsRawInv == RawInv /\ UNCHANGED rawVars => RawInv'
<1> SUFFICES ASSUME RawInv, UNCHANGED rawVars PROVE RawInv'
  OBVIOUS
<1>1. /\ clock' = clock /\ sequence' = sequence /\ contents' = contents
      /\ transitions' = transitions /\ accepted' = accepted
  BY DEF rawVars
<1> QED BY <1>1 DEF RawInv, RawTypeOK, TablesAreFinite, GateIsSound, ContentsMatch,
                    SequencesAreTotal, KnowledgeIsOrdered, StatesAreOrdered,
                    StatesHaveLatest, BatchesAreReconstructed, Taken, Published

LEMMA RawInitInv == RawInit => RawInv
<1> SUFFICES ASSUME RawInit PROVE RawInv
  OBVIOUS
<1>1. NoBatch \in Batch
  <2>1. {} \in SUBSET Key /\ IsFiniteSet({}) /\ NoBatch \in [{} -> Value]
    BY FS_EmptySet DEF NoBatch
  <2> QED BY <2>1 DEF Batch
<1>2. NoEntry \in Entry /\ NoEntry.state = "none" /\ NoEntry.at = Null
  BY <1>1 DEF NoEntry, Entry, RunState, Time
<1>3. /\ accepted \in [Run -> Entry] /\ sequence = 0 /\ clock = 0
      /\ contents = {} /\ transitions = {}
      /\ \A s \in Run : accepted[s].state = "none" /\ accepted[s].at = Null
  BY <1>2 DEF RawInit
<1>4. RawTypeOK
  BY <1>3 DEF RawTypeOK
<1>5. IsFiniteSet(contents) /\ IsFiniteSet(transitions)
  BY <1>3, FS_EmptySet
<1>6. SequencesAreTotal
  BY <1>3 DEF SequencesAreTotal, Taken
<1>7. KnowledgeIsOrdered /\ GateIsSound
  BY <1>3 DEF KnowledgeIsOrdered, GateIsSound, Published
<1>8. StatesAreOrdered /\ StatesHaveLatest /\ ContentsMatch
  BY <1>3 DEF StatesAreOrdered, StatesHaveLatest, ContentsMatch
<1>9. BatchesAreReconstructed
  BY <1>3 DEF BatchesAreReconstructed, Taken
<1> QED BY <1>4, <1>5, <1>6, <1>7, <1>8, <1>9 DEF RawInv, TablesAreFinite

LEMMA RawStep == RawInv /\ [RawNext]_rawVars => RawInv'
<1> SUFFICES ASSUME RawInv, [RawNext]_rawVars PROVE RawInv'
  OBVIOUS
<1>1. CASE \E r \in Run : \E b \in Batch : Accept(r, b)
  <2>1. PICK r \in Run, b \in Batch : Accept(r, b)
    BY <1>1
  <2>2. RawTypeOK' /\ TablesAreFinite'
    BY <2>1, AcceptTypes, Zenon
  <2>3. GateIsSound' /\ SequencesAreTotal'
    BY <2>1, AcceptSequences, Zenon
  <2>4. ContentsMatch'
    BY <2>1, AcceptContents, Zenon
  <2>5. KnowledgeIsOrdered'
    BY <2>1, AcceptKnowledge, Zenon
  <2>6. StatesAreOrdered' /\ StatesHaveLatest' /\ BatchesAreReconstructed'
    BY <2>1, AcceptStates, Zenon
  <2> QED BY <2>2, <2>3, <2>4, <2>5, <2>6 DEF RawInv
<1>2. CASE \E r \in Run : \E t \in 0..clock : Publish(r, t)
  <2>1. PICK r \in Run, t \in 0..clock : Publish(r, t)
    BY <1>2
  <2> QED BY <2>1, PublishKeepsInv, Zenon
<1>3. CASE Tick
  BY <1>3, TickKeepsInv
<1>4. CASE UNCHANGED rawVars
  BY <1>4, StutterKeepsRawInv
<1> QED BY <1>1, <1>2, <1>3, <1>4 DEF RawNext

\* Whatever the runs, their batches and the clock: commit sequences are total
\* and gate-ordered, knowledge times follow them, and the transitions of a
\* key reconstruct every accepted batch as of its commit.
THEOREM RawCorrect == RawSpec => []RawInv
BY RawInitInv, RawStep, PTL DEF RawSpec
=============================================================================
