-------------------------- MODULE RefinementProofs --------------------------
(***************************************************************************)
(* The commit protocol implements AtomicWarehouse, for every number of     *)
(* runs, invocations and requests and every combination of faults; what    *)
(* holds of the atomic warehouse therefore holds of the protocol.          *)
(***************************************************************************)
EXTENDS WarehouseProofs

AtomicProofs == INSTANCE AtomicWarehouseProofs WITH accepted <- AcceptedRuns

Succeeded(r) == runs[r].status = "SUCCEEDED"

\* Time t may become the knowledge time of run r: no run that succeeded while
\* r awaits its finalization is known later than t.
KnownBy(r, t) ==
    /\ t \in Nat /\ t <= clock
    /\ runs[r].status = "COMMITTED" =>
           \A s \in Run : Succeeded(s) => runs[s].knowledge_at <= t

\* Only SUCCEEDED manifests carry a knowledge time, the clock has reached it,
\* and the end of a commit job can become one: in the job's metadata, and in
\* the hands of a client about to finalize with it.
TimesAreOrdered ==
    /\ \A r \in Run : Succeeded(r) <=> runs[r].knowledge_at # Null
    /\ \A r \in Run : Succeeded(r) => runs[r].knowledge_at <= clock
    /\ \A r \in Run : commitJob[r].state \in {"committed", "done"} => Committed(r)
    /\ \A r \in Run : commitJob[r].state = "done" => KnownBy(r, commitJob[r].ended)
    /\ \A c \in Client : client[c].pc = "finalize" =>
           Committed(client[c].run) /\ KnownBy(client[c].run, client[c].ended)
----------------------------------------------------------------------------
(* What a step does to the manifests, the commit jobs, the clock and the   *)
(* clients that hold an end time.                                          *)

\* Neither a commit nor a finalization: no run gains or loses its place, its
\* time or the request it is bound to.
CalmStep ==
    /\ QuietStep
    /\ \A s \in Run : /\ runs'[s].knowledge_at = runs[s].knowledge_at
                      /\ runs[s].status # "ABSENT" =>
                             /\ runs'[s].request = runs[s].request
                             /\ runs'[s].status # "ABSENT"

FinalizeStep(c) ==
    /\ client[c].pc = "finalize"
    /\ OwnsGate(client[c].run)
    /\ FinalizeTransaction(client[c].run, client[c].ended)

\* The steps by their effect on the manifests.
LEMMA ManifestStep ==
    ASSUME TypeOK, ClientsAreBound, [Next]_vars
    PROVE  \/ CalmStep
           \/ \E r \in Run : CommitStep(r)
           \/ \E c \in Client : FinalizeStep(c)
<1>1. CASE UNCHANGED <<control, tables, runs>>
  BY <1>1 DEF CalmStep, QuietStep, control, tables
<1>2. ASSUME NEW r \in Run, RunBegin(r)
      PROVE  CalmStep
  <2>1. runs[r] \in Manifest
    BY DEF TypeOK
  <2>2. \A s \in Run \ {r} : runs'[s] = runs[s]
    BY <1>2 DEF RunBegin, TypeOK
  <2>3. CASE runs' = runs
    BY <1>2, <2>3 DEF CalmStep, QuietStep, RunBegin, control, tables
  <2>4. CASE runs' # runs
    <3>1. runs[r].status = "ABSENT"
      BY <1>2, <2>4 DEF RunBegin
    <3>2. runs'[r] = [runs[r] EXCEPT !.status = "STARTED", !.request = beginJob[r].request]
      BY <1>2, <2>4 DEF RunBegin, TypeOK
    <3>3. runs'[r].status = "STARTED" /\ runs'[r].knowledge_at = runs[r].knowledge_at
      BY <2>1, <3>2 DEF Manifest
    <3> QED
      BY <1>2, <2>2, <3>1, <3>3 DEF CalmStep, QuietStep, RunBegin, Committed, control, tables
  <2> QED BY <2>3, <2>4
<1>3. ASSUME NEW c \in Client, RecordFailure(c)
      PROVE  CalmStep
  <2> DEFINE r == client[c].run
  <2>1. r \in Run /\ runs[r] \in Manifest
    BY <1>3 DEF TypeOK, ClientsAreBound, RecordFailure
  <2>2. \A s \in Run \ {r} : runs'[s] = runs[s]
    BY <1>3 DEF RecordFailure, TypeOK
  <2>3. UNCHANGED <<sequence, active, contents, transitions>>
    BY <1>3 DEF RecordFailure, control, tables
  <2>4. CASE FailureGuard(r)
    <3>1. runs'[r] = [runs[r] EXCEPT !.status = "FAILED", !.accepted = 0]
      BY <1>3, <2>1, <2>4 DEF RecordFailure, TypeOK
    <3>2. /\ runs'[r].status = "FAILED" /\ runs'[r].knowledge_at = runs[r].knowledge_at
          /\ runs'[r].request = runs[r].request
      BY <2>1, <3>1 DEF Manifest
    <3>3. runs[r].status = "STARTED"
      BY <2>4 DEF FailureGuard
    <3> QED
      BY <2>2, <2>3, <3>2, <3>3 DEF CalmStep, QuietStep, Committed
  <2>5. CASE ~FailureGuard(r)
    BY <1>3, <2>3, <2>5 DEF CalmStep, QuietStep, RecordFailure
  <2> QED BY <2>4, <2>5
<1>4. ASSUME NEW c \in Client, Finalize(c)
      PROVE  UNCHANGED <<control, tables, runs>> \/ FinalizeStep(c)
  BY <1>4 DEF Finalize, FinalizeStep
<1>5. ASSUME NEW r \in Run, RunCommit(r)
      PROVE  UNCHANGED <<control, tables, runs>> \/ CommitStep(r)
  BY <1>5 DEF RunCommit, CommitStep
<1>6. ASSUME NEW c \in Client, ClientStep(c)
      PROVE  \/ UNCHANGED <<control, tables, runs>>
             \/ RecordFailure(c)
             \/ Finalize(c)
  BY <1>6 DEF ClientStep, AwaitBegin, ReadManifest, LookupJob, Fetch, TakeSnapshot,
     SubmitCommit, AwaitCommit, UnchangedServer
<1>7. ASSUME NEW r \in Run, ServerStep(r) \/ ExpireJob(r)
      PROVE  UNCHANGED <<control, tables, runs>> \/ RunBegin(r) \/ RunCommit(r)
  BY <1>7 DEF ServerStep, EndCommit, ExpireJob
<1>8. CASE \/ \E c \in Client, r \in Run, q \in Request : StartIngest(c, r, q)
           \/ \E c \in Client, r \in Run : StartResume(c, r)
           \/ \E c \in Client : Abandon(c)
           \/ UNCHANGED vars
  BY <1>1, <1>8 DEF StartIngest, StartResume, Abandon, UnchangedServer, vars, control, tables
<1> QED
  BY <1>1, <1>2, <1>3, <1>4, <1>5, <1>6, <1>7, <1>8 DEF Next

\* The clock moves by one, and only when a commit job ends.
LEMMA ClockStep ==
    ASSUME TypeOK, [Next]_vars
    PROVE  \/ clock' = clock
           \/ clock' = clock + 1 /\ UNCHANGED <<sequence, active, contents, transitions, runs>>
<1>1. ASSUME NEW r \in Run, ServerStep(r) \/ ExpireJob(r)
      PROVE  \/ clock' = clock
             \/ clock' = clock + 1 /\ UNCHANGED <<sequence, active, contents, transitions, runs>>
  BY <1>1 DEF ServerStep, RunBegin, RunCommit, EndCommit, ExpireJob, control, tables
<1>2. ASSUME NEW c \in Client, ClientStep(c) \/ Abandon(c)
      PROVE  clock' = clock
  BY <1>2 DEF ClientStep, Abandon, AwaitBegin, ReadManifest, LookupJob, Fetch, TakeSnapshot,
     SubmitCommit, AwaitCommit, RecordFailure, Finalize, UnchangedServer, jobs
<1>3. CASE \/ \E c \in Client, r \in Run, q \in Request : StartIngest(c, r, q)
           \/ \E c \in Client, r \in Run : StartResume(c, r)
           \/ UNCHANGED vars
  BY <1>3 DEF StartIngest, StartResume, UnchangedServer, jobs, vars
<1> QED BY <1>1, <1>2, <1>3 DEF Next

\* A job is durable after a step because it was, or because it just committed;
\* it is done because it was, or because it just ended.
LEMMA JobStep ==
    ASSUME TypeOK, ClientsAreBound, [Next]_vars, NEW s \in Run,
           commitJob'[s].state \in {"committed", "done"}
    PROVE  \/ commitJob'[s] = commitJob[s]
           \/ CommitStep(s) /\ commitJob'[s].state = "committed"
           \/ /\ commitJob[s].state = "committed" /\ commitJob'[s].ended = clock'
              /\ UNCHANGED runs
<1>1. ASSUME NEW r \in Run, NEW v, commitJob' = [commitJob EXCEPT ![r] = v],
             v.state \notin {"committed", "done"}
      PROVE  commitJob'[s] = commitJob[s]
  BY <1>1 DEF TypeOK
<1>2. ASSUME NEW r \in Run, RunCommit(r)
      PROVE  \/ commitJob'[s] = commitJob[s]
             \/ CommitStep(s) /\ commitJob'[s].state = "committed"
  <2>0. commitJob[r] \in CommitJob
    BY DEF TypeOK
  <2>1. [commitJob[r] EXCEPT !.state = "error", !.plan = NoPlan].state = "error"
        /\ [commitJob[r] EXCEPT !.state = "committed", !.plan = NoPlan].state = "committed"
    BY <2>0 DEF CommitJob
  <2>2. CASE commitJob' = [commitJob EXCEPT ![r] = [@ EXCEPT !.state = "error", !.plan = NoPlan]]
    BY <1>1, <2>1, <2>2
  <2>3. CASE /\ CommitTransaction(r)
             /\ commitJob' = [commitJob EXCEPT ![r] = [@ EXCEPT !.state = "committed",
                                                                !.plan = NoPlan]]
    BY <1>2, <2>1, <2>3 DEF TypeOK, CommitStep, RunCommit
  <2> QED BY <1>2, <2>2, <2>3 DEF RunCommit
<1>3. ASSUME NEW r \in Run, EndCommit(r)
      PROVE  \/ commitJob'[s] = commitJob[s]
             \/ /\ commitJob[s].state = "committed" /\ commitJob'[s].ended = clock'
                /\ UNCHANGED runs
  <2>0. commitJob[r] \in CommitJob
    BY DEF TypeOK
  <2>1. \A st : [commitJob[r] EXCEPT !.state = st, !.ended = clock'].ended = clock'
    BY <2>0 DEF CommitJob
  <2> QED BY <1>3, <2>1 DEF EndCommit, TypeOK
<1>4. ASSUME NEW r \in Run, ExpireJob(r)
      PROVE  commitJob'[s] = commitJob[s]
  BY <1>1, <1>4 DEF ExpireJob
<1>5. ASSUME NEW c \in Client, SubmitCommit(c)
      PROVE  commitJob'[s] = commitJob[s]
  <2>1. client[c].run \in Run
    BY <1>5 DEF SubmitCommit, ClientsAreBound
  <2> QED BY <1>1, <1>5, <2>1 DEF SubmitCommit
<1>6. ASSUME NEW c \in Client, ClientStep(c) \/ Abandon(c), ~SubmitCommit(c)
      PROVE  commitJob' = commitJob
  BY <1>6 DEF ClientStep, Abandon, AwaitBegin, ReadManifest, LookupJob, Fetch, TakeSnapshot,
     AwaitCommit, RecordFailure, Finalize, UnchangedServer, jobs
<1>7. CASE \/ \E c \in Client, r \in Run, q \in Request : StartIngest(c, r, q)
           \/ \E c \in Client, r \in Run : StartResume(c, r)
           \/ \E r \in Run : RunBegin(r)
           \/ UNCHANGED vars
  BY <1>7 DEF StartIngest, StartResume, RunBegin, UnchangedServer, jobs, vars
<1> QED BY <1>2, <1>3, <1>4, <1>5, <1>6, <1>7 DEF Next, ServerStep

\* A client holds an end time because it held it before, or has just read it
\* from a job that is done.
LEMMA HolderStep ==
    ASSUME TypeOK, ClientsAreBound, [Next]_vars, NEW d \in Client,
           client'[d].pc = "finalize"
    PROVE  \/ client'[d] = client[d]
           \/ /\ client[d].run \in Run /\ client'[d].run = client[d].run
              /\ commitJob[client[d].run].state = "done"
              /\ client'[d].ended = commitJob[client[d].run].ended
              /\ UNCHANGED <<runs, clock>>
<1>0. client[d] \in ClientState
  BY DEF TypeOK
<1>1. ASSUME NEW c \in Client, NEW v, client' = [client EXCEPT ![c] = v], v.pc # "finalize"
      PROVE  client'[d] = client[d]
  BY <1>1 DEF TypeOK
<1>2. Idle.pc # "finalize"
  BY DEF Idle
<1>3. ASSUME NEW c \in Client, Leave(c)
      PROVE  client'[d] = client[d]
  BY <1>1, <1>2, <1>3 DEF Leave
<1>4. ASSUME NEW c \in Client, NEW l \in Label \ {"finalize"}, Goto(c, l)
      PROVE  client'[d] = client[d]
  <2>1. client'[c].pc = l
    BY <1>4 DEF Goto, TypeOK, ClientState
  <2> QED BY <1>4, <2>1 DEF Goto, TypeOK
<1>5. ASSUME NEW c \in Client, NEW r \in Run, NEW q \in Request, StartIngest(c, r, q)
      PROVE  client'[d] = client[d]
  <2>1. [Idle EXCEPT !.pc = "begin", !.run = r, !.req = q, !.stage = "ingest"].pc = "begin"
    BY DEF Idle
  <2> QED BY <1>1, <1>5, <2>1 DEF StartIngest
<1>6. ASSUME NEW c \in Client, NEW r \in Run, StartResume(c, r)
      PROVE  client'[d] = client[d]
  <2>1. [Idle EXCEPT !.pc = "read", !.run = r].pc = "read"
    BY DEF Idle
  <2> QED BY <1>1, <1>6, <2>1 DEF StartResume
<1>7. ASSUME NEW c \in Client, AwaitCommit(c)
      PROVE  \/ client'[d] = client[d]
             \/ /\ client[d].run \in Run /\ client'[d].run = client[d].run
                /\ commitJob[client[d].run].state = "done"
                /\ client'[d].ended = commitJob[client[d].run].ended
                /\ UNCHANGED <<runs, clock>>
  <2>1. CASE Goto(c, "fail") \/ Leave(c)
    BY <1>3, <1>4, <2>1 DEF Label
  <2>2. CASE /\ commitJob[client[c].run].state = "done"
             /\ client' = [client EXCEPT ![c] = [@ EXCEPT
                    !.pc = "finalize", !.ended = commitJob[client[c].run].ended]]
    <3>1. CASE c # d
      BY <2>2, <3>1 DEF TypeOK
    <3>2. CASE c = d
      <4>1. client[d].run \in Run
        BY <1>7, <3>2 DEF AwaitCommit, ClientsAreBound
      <4>2. client'[d] = [client[d] EXCEPT !.pc = "finalize",
                                           !.ended = commitJob[client[d].run].ended]
        BY <2>2, <3>2 DEF TypeOK
      <4>3. client'[d].run = client[d].run /\ client'[d].ended = commitJob[client[d].run].ended
        BY <1>0, <4>2 DEF ClientState
      <4> QED BY <1>7, <2>2, <3>2, <4>1, <4>3 DEF AwaitCommit, UnchangedServer, jobs
    <3> QED BY <3>1, <3>2
  <2> QED BY <1>7, <2>1, <2>2 DEF AwaitCommit
<1>8. ASSUME NEW c \in Client, ClientStep(c) \/ Abandon(c), ~AwaitCommit(c)
      PROVE  client'[d] = client[d]
  <2>0. client[c] \in ClientState
    BY DEF TypeOK
  <2>1. CASE AwaitBegin(c) \/ LookupJob(c)
    BY <1>3, <1>4, <2>1 DEF AwaitBegin, LookupJob, Label
  <2>2. CASE ReadManifest(c)
    <3>1. [client[c] EXCEPT !.pc = "lookup", !.seen = runs[client[c].run].status].pc = "lookup"
      BY <2>0 DEF ClientState
    <3> QED BY <1>1, <1>3, <2>2, <3>1 DEF ReadManifest
  <2>3. CASE Fetch(c)
    <3>1. \A b : [client[c] EXCEPT !.pc = "read", !.stage = "persist", !.batch = b].pc = "read"
      BY <2>0 DEF ClientState
    <3> QED BY <1>1, <1>4, <2>3, <3>1 DEF Fetch, Label
  <2>4. CASE TakeSnapshot(c)
    <3>1. [client[c] EXCEPT !.pc = "submit", !.batch = NoBatch,
               !.plan = PlanWrite(client[c].run, client[c].batch)].pc = "submit"
      BY <2>0 DEF ClientState
    <3> QED BY <1>1, <1>4, <2>4, <3>1 DEF TakeSnapshot, Label
  <2>5. CASE SubmitCommit(c)
    <3>1. [client[c] EXCEPT !.pc = "read", !.stage = "submitted", !.plan = NoPlan].pc = "read"
      BY <2>0 DEF ClientState
    <3> QED BY <1>1, <2>5, <3>1 DEF SubmitCommit
  <2>6. CASE RecordFailure(c) \/ Finalize(c) \/ Abandon(c)
    BY <1>3, <2>6 DEF RecordFailure, Finalize, Abandon
  <2> QED BY <1>8, <2>1, <2>2, <2>3, <2>4, <2>5, <2>6 DEF ClientStep
<1>9. CASE (\E r \in Run : ServerStep(r) \/ ExpireJob(r)) \/ UNCHANGED vars
  BY <1>9 DEF ServerStep, RunBegin, RunCommit, EndCommit, ExpireJob, vars
<1> QED BY <1>5, <1>6, <1>7, <1>8, <1>9 DEF Next
----------------------------------------------------------------------------
(* Knowledge times.                                                        *)

\* The manifest commit_query writes.
LEMMA CommitManifest ==
    ASSUME TypeOK, NEW r \in Run, CommitStep(r)
    PROVE  /\ runs[r].status = "STARTED" /\ runs'[r].status = "COMMITTED"
           /\ runs'[r].commit_sequence = sequence + 1
           /\ runs'[r].batch_hash = commitJob[r].plan.batch
           /\ runs'[r].knowledge_at = runs[r].knowledge_at
           /\ runs'[r].request = runs[r].request
           /\ runs'[r].new_contents = Cardinality(commitJob[r].plan.contents)
           /\ runs'[r].new_transitions = Cardinality(commitJob[r].plan.transitions)
           /\ \A s \in Run \ {r} : runs'[s] = runs[s]
<1>1. runs[r] \in Manifest
  BY DEF TypeOK
<1>2. /\ runs'[r] = [runs[r] EXCEPT !.status = "COMMITTED",
                             !.commit_completed = TRUE,
                             !.commit_sequence = commitJob[r].plan.expected + 1,
                             !.batch_hash = commitJob[r].plan.batch,
                             !.accepted = Cardinality(DOMAIN commitJob[r].plan.batch),
                             !.new_contents = Cardinality(commitJob[r].plan.contents),
                             !.new_transitions = Cardinality(commitJob[r].plan.transitions)]
      /\ \A s \in Run \ {r} : runs'[s] = runs[s]
  BY DEF TypeOK, CommitStep, CommitTransaction
<1>3. runs[r].status = "STARTED" /\ sequence = commitJob[r].plan.expected
  BY DEF CommitStep, CommitTransaction, CommitAsserts
<1> QED BY <1>1, <1>2, <1>3 DEF Manifest

\* The manifest finalize_query writes.
LEMMA FinalizeManifest ==
    ASSUME TypeOK, ClientsAreBound, NEW c \in Client, FinalizeStep(c), NEW r, r = client[c].run
    PROVE  /\ r \in Run /\ client[c].ended \in Time
           /\ active = r /\ runs[r].status = "COMMITTED" /\ runs'[r].status = "SUCCEEDED"
           /\ runs'[r].knowledge_at = client[c].ended
           /\ runs'[r].commit_sequence = runs[r].commit_sequence
           /\ runs'[r].batch_hash = runs[r].batch_hash
           /\ runs'[r].request = runs[r].request
           /\ runs'[r].new_contents = runs[r].new_contents
           /\ runs'[r].new_transitions = runs[r].new_transitions
           /\ \A s \in Run \ {r} : runs'[s] = runs[s]
<1>1. r \in Run /\ client[c].ended \in Time
  BY DEF TypeOK, ClientState, ClientsAreBound, FinalizeStep
<1>2. runs[r] \in Manifest
  BY <1>1 DEF TypeOK
<1>3. /\ runs'[r] = [runs[r] EXCEPT !.status = "SUCCEEDED", !.knowledge_at = client[c].ended]
      /\ \A s \in Run \ {r} : runs'[s] = runs[s]
  BY <1>1 DEF TypeOK, FinalizeStep, FinalizeTransaction
<1> QED BY <1>1, <1>2, <1>3 DEF Manifest, FinalizeStep, OwnsGate

\* The end of a run's commit job stays fit to be its knowledge time: while the
\* run awaits finalization the gate keeps every other run from succeeding.
LEMMA KnownByKept ==
    ASSUME Inv, [Next]_vars, NEW r \in Run, Committed(r)
    PROVE  /\ Committed(r)'
           /\ \A t : KnownBy(r, t) =>
                  /\ t \in Nat /\ t <= clock'
                  /\ runs'[r].status = "COMMITTED" =>
                         \A s \in Run : Succeeded(s)' => runs'[s].knowledge_at <= t
<1>0. TypeOK /\ ClientsAreBound /\ GateMarksUnfinalizedRun
  BY DEF Inv, ProtocolInvariant
<1>1. clock \in Nat /\ clock' \in Nat /\ clock <= clock'
  BY <1>0, ClockStep DEF TypeOK
<1>2. \A t : KnownBy(r, t) => t \in Nat /\ t <= clock'
  BY <1>1 DEF KnownBy
<1>3. CASE CalmStep
  <2>1. runs'[r] = runs[r] /\ \A s \in Run : Succeeded(s)' => runs'[s] = runs[s] /\ Succeeded(s)
    BY <1>3 DEF CalmStep, QuietStep, Committed, Succeeded
  <2> QED BY <1>2, <2>1 DEF KnownBy, Committed
<1>4. ASSUME NEW p \in Run, CommitStep(p)
      PROVE  runs'[r] = runs[r]
             /\ \A s \in Run : Succeeded(s)' => runs'[s] = runs[s] /\ Succeeded(s)
  <2>1. /\ runs[p].status = "STARTED" /\ runs'[p].status = "COMMITTED"
        /\ \A s \in Run \ {p} : runs'[s] = runs[s]
    BY <1>0, <1>4, CommitManifest
  <2>2. p # r
    BY <2>1 DEF Committed
  <2> QED BY <2>1, <2>2 DEF Succeeded
<1>5. ASSUME NEW c \in Client, FinalizeStep(c)
      PROVE  Committed(r)' /\ runs'[r].status # "COMMITTED"
  <2> DEFINE p == client[c].run
  <2>1. /\ p \in Run /\ active = p /\ runs'[p].status = "SUCCEEDED"
        /\ \A s \in Run \ {p} : runs'[s] = runs[s]
    BY <1>0, <1>5, FinalizeManifest
  <2>2. CASE r = p
    BY <2>1, <2>2 DEF Committed
  <2>3. CASE r # p
    <3>1. runs[r].status # "COMMITTED"
      BY <1>0, <2>1, <2>3 DEF GateMarksUnfinalizedRun
    <3> QED BY <2>1, <2>3, <3>1 DEF Committed
  <2> QED BY <2>2, <2>3
<1>6. CASE \E p \in Run : CommitStep(p)
  BY <1>2, <1>4, <1>6 DEF KnownBy, Committed
<1>7. CASE \E c \in Client : FinalizeStep(c)
  BY <1>2, <1>5, <1>7 DEF KnownBy
<1> QED BY <1>0, <1>3, <1>6, <1>7, ManifestStep

\* Every step keeps the knowledge times, and the times about to become one, in
\* their order.
LEMMA TimesStep ==
    ASSUME Inv, TimesAreOrdered, [Next]_vars
    PROVE  TimesAreOrdered'
<1>0. TypeOK /\ ClientsAreBound /\ GateMarksUnfinalizedRun
  BY DEF Inv, ProtocolInvariant
<1>1. clock \in Nat /\ clock' \in Nat /\ clock <= clock'
  BY <1>0, ClockStep DEF TypeOK
<1>2. \A r \in Run : runs[r].knowledge_at \in Time
  BY <1>0 DEF TypeOK, Manifest
<1>3. /\ \A r \in Run : Succeeded(r)' <=> runs'[r].knowledge_at # Null
      /\ \A r \in Run : Succeeded(r)' => runs'[r].knowledge_at <= clock'
  <2>0. /\ \A r \in Run : Succeeded(r) <=> runs[r].knowledge_at # Null
        /\ \A r \in Run : Succeeded(r) => runs[r].knowledge_at \in Nat
                                          /\ runs[r].knowledge_at <= clock
    BY <1>2 DEF TimesAreOrdered, Time
  <2>1. CASE CalmStep
    <3>1. \A s \in Run : /\ runs'[s].knowledge_at = runs[s].knowledge_at
                         /\ Succeeded(s)' <=> Succeeded(s)
      BY <2>1 DEF CalmStep, QuietStep, Committed, Succeeded
    <3> QED BY <1>1, <2>0, <3>1
  <2>2. ASSUME NEW p \in Run, CommitStep(p)
        PROVE  \A s \in Run : /\ runs'[s].knowledge_at = runs[s].knowledge_at
                              /\ Succeeded(s)' <=> Succeeded(s)
    BY <1>0, <2>2, CommitManifest DEF Succeeded
  <2>3. ASSUME NEW c \in Client, FinalizeStep(c)
        PROVE  \E p \in Run : /\ Succeeded(p)' /\ runs'[p].knowledge_at \in Nat
                              /\ runs'[p].knowledge_at <= clock
                              /\ \A s \in Run \ {p} : runs'[s] = runs[s]
    <3>1. client[c].ended \in Nat /\ client[c].ended <= clock
      BY <2>3 DEF TimesAreOrdered, FinalizeStep, KnownBy
    <3> QED BY <1>0, <2>3, <3>1, FinalizeManifest DEF Succeeded
  <2>4. CASE \E p \in Run : CommitStep(p)
    BY <1>1, <2>0, <2>2, <2>4
  <2>5. CASE \E c \in Client : FinalizeStep(c)
    <3>1. PICK p \in Run : /\ Succeeded(p)' /\ runs'[p].knowledge_at \in Nat
                           /\ runs'[p].knowledge_at <= clock
                           /\ \A s \in Run \ {p} : runs'[s] = runs[s]
      BY <2>3, <2>5
    <3> QED BY <1>1, <2>0, <3>1, NullAssumption DEF Succeeded
  <2> QED BY <1>0, <2>1, <2>4, <2>5, ManifestStep
<1>4. ASSUME NEW r \in Run, commitJob'[r].state \in {"committed", "done"}
      PROVE  /\ Committed(r)'
             /\ commitJob'[r].state = "done" => KnownBy(r, commitJob[r].ended)'
  <2>1. CASE commitJob'[r] = commitJob[r]
    <3>1. Committed(r) /\ (commitJob[r].state = "done" => KnownBy(r, commitJob[r].ended))
      BY <1>4, <2>1 DEF TimesAreOrdered
    <3> QED BY <2>1, <3>1, KnownByKept DEF KnownBy, Committed
  <2>2. CASE CommitStep(r) /\ commitJob'[r].state = "committed"
    BY <1>0, <2>2, CommitManifest DEF Committed
  <2>3. CASE /\ commitJob[r].state = "committed" /\ commitJob'[r].ended = clock'
             /\ UNCHANGED runs
    <3>1. Committed(r)'
      BY <2>3 DEF TimesAreOrdered, Committed
    <3>2. \A s \in Run : Succeeded(s)' => runs'[s].knowledge_at <= clock'
      BY <1>3
    <3> QED BY <1>1, <2>3, <3>1, <3>2 DEF KnownBy
  <2> QED BY <1>0, <1>4, <2>1, <2>2, <2>3, JobStep
<1>5. ASSUME NEW d \in Client, client'[d].pc = "finalize"
      PROVE  (Committed(client[d].run) /\ KnownBy(client[d].run, client[d].ended))'
  <2>1. CASE client'[d] = client[d]
    <3>1. /\ client[d].run \in Run /\ Committed(client[d].run)
          /\ KnownBy(client[d].run, client[d].ended)
      BY <1>0, <1>5, <2>1 DEF TimesAreOrdered, ClientsAreBound
    <3> QED BY <2>1, <3>1, KnownByKept DEF KnownBy, Committed
  <2>2. CASE /\ client[d].run \in Run /\ client'[d].run = client[d].run
             /\ commitJob[client[d].run].state = "done"
             /\ client'[d].ended = commitJob[client[d].run].ended
             /\ UNCHANGED <<runs, clock>>
    <3>1. /\ Committed(client[d].run)
          /\ KnownBy(client[d].run, commitJob[client[d].run].ended)
      BY <2>2 DEF TimesAreOrdered
    <3> QED BY <2>2, <3>1, KnownByKept DEF KnownBy, Committed
  <2> QED BY <1>0, <1>5, <2>1, <2>2, HolderStep
<1> QED BY <1>3, <1>4, <1>5 DEF TimesAreOrdered

LEMMA TimesInit == Init => TimesAreOrdered
<1> SUFFICES ASSUME Init PROVE TimesAreOrdered
  OBVIOUS
<1>1. \A r \in Run : /\ runs[r].status = "ABSENT" /\ runs[r].knowledge_at = Null
                     /\ commitJob[r].state = "none"
  BY DEF Init, NoManifest
<1>2. \A c \in Client : client[c].pc = "idle"
  BY DEF Init, Idle
<1> QED BY <1>1, <1>2 DEF TimesAreOrdered, Succeeded
----------------------------------------------------------------------------
(* Step simulation.                                                        *)

\* Both specifications plan, merge and stamp alike.
LEMMA SameTables ==
    ASSUME NEW r, NEW b, NEW t
    PROVE  /\ AtomicProofs!MergeContents(AtomicProofs!NewContents(r, b))
                  = MergeContents(NewContents(r, b))
           /\ AtomicProofs!MergeTransitions(AtomicProofs!NewTransitions(r, b))
                  = MergeTransitions(NewTransitions(r, b))
           /\ AtomicProofs!StampContents(r, t) = StampContents(r, t)
           /\ AtomicProofs!StampTransitions(r, t) = StampTransitions(r, t)
<1>1. \A k, v : AtomicProofs!Stored(k, v) = Stored(k, v)
  BY DEF AtomicProofs!Stored, Stored
<1>2. \A k : AtomicProofs!LatestRows(k) = LatestRows(k)
  BY DEF AtomicProofs!LatestRows, LatestRows
<1>3. \A k, v : AtomicProofs!Changed(k, v) = Changed(k, v)
  BY <1>2 DEF AtomicProofs!Changed, Changed
<1>4. \A k : AtomicProofs!NextOrdinal(k) = NextOrdinal(k)
  BY DEF AtomicProofs!NextOrdinal, NextOrdinal, AtomicProofs!LatestRows, LatestRows
<1>5. AtomicProofs!NewContents(r, b) = NewContents(r, b)
  BY <1>1 DEF AtomicProofs!NewContents, NewContents
<1>6. AtomicProofs!NewTransitions(r, b) = NewTransitions(r, b)
  BY <1>3, <1>4 DEF AtomicProofs!NewTransitions, NewTransitions
<1>7. \A rows : AtomicProofs!MergeContents(rows) = MergeContents(rows)
  BY <1>1 DEF AtomicProofs!MergeContents, MergeContents
<1>8. \A rows : AtomicProofs!MergeTransitions(rows) = MergeTransitions(rows)
  BY DEF AtomicProofs!MergeTransitions, MergeTransitions
<1>9. AtomicProofs!StampContents(r, t) = StampContents(r, t)
      /\ AtomicProofs!StampTransitions(r, t) = StampTransitions(r, t)
  BY DEF AtomicProofs!StampContents, StampContents, AtomicProofs!StampTransitions,
         StampTransitions
<1> QED BY <1>5, <1>6, <1>7, <1>8, <1>9

\* The accepted runs, read off the manifests.
LEMMA AcceptedFacts ==
    ASSUME NEW r \in Run
    PROVE  /\ AcceptedRuns[r].state = "none" <=> ~Committed(r)
           /\ AcceptedRuns[r].state = "open" <=> runs[r].status = "COMMITTED"
           /\ AcceptedRuns[r].state = "published" <=> Succeeded(r)
           /\ Committed(r) => /\ AcceptedRuns[r].seq = runs[r].commit_sequence
                              /\ AcceptedRuns[r].batch = runs[r].batch_hash
                              /\ AcceptedRuns[r].at = runs[r].knowledge_at
<1>1. CASE Committed(r)
  <2>1. AcceptedRuns[r] =
            [state |-> IF runs[r].status = "COMMITTED" THEN "open" ELSE "published",
             seq |-> runs[r].commit_sequence, batch |-> runs[r].batch_hash,
             at |-> runs[r].knowledge_at]
    BY <1>1 DEF AcceptedRuns
  <2> QED BY <1>1, <2>1 DEF Committed, Succeeded
<1>2. CASE ~Committed(r)
  <2>1. AcceptedRuns[r] = [state |-> "none", seq |-> 0, batch |-> NoBatch, at |-> Null]
    BY <1>2 DEF AcceptedRuns
  <2> QED BY <1>2, <2>1 DEF Committed, Succeeded
<1> QED BY <1>1, <1>2

\* A calm step leaves the accepted runs alone.
LEMMA CalmRefines ==
    ASSUME CalmStep
    PROVE  /\ AcceptedRuns' = AcceptedRuns
           /\ UNCHANGED <<sequence, contents, transitions>>
<1>1. \A s \in Run : /\ Committed(s)' <=> Committed(s)
                     /\ Committed(s) => runs'[s] = runs[s]
  BY DEF CalmStep, QuietStep, Committed
<1> QED BY <1>1 DEF CalmStep, QuietStep, AcceptedRuns

\* The commit script is one Accept of the batch it was planned from: a plan
\* that passes the script's assertions is what plan_write would answer now.
LEMMA CommitRefines ==
    ASSUME Inv, TimesAreOrdered, NEW r \in Run, CommitStep(r), clock' = clock
    PROVE  \E b \in Batch : AtomicProofs!Accept(r, b)
<1> DEFINE plan == commitJob[r].plan
           b == plan.batch
           e == [state |-> "open", seq |-> sequence + 1, batch |-> b, at |-> Null]
<1>0. /\ TypeOK /\ ClientsAreBound /\ GateMarksUnfinalizedRun /\ PlansAreWellFormed
      /\ PlansAreFreshOrRefused
  BY DEF Inv, ProtocolInvariant
<1>1. sequence = plan.expected /\ active = NoRun
  BY DEF CommitStep, CommitTransaction, CommitAsserts
<1>2. [run |-> r, plan |-> plan] \in PlansInFlight
  BY <1>0, CommitRows
<1>3. FreshPlan(r, plan)
  BY <1>0, <1>2 DEF PlansAreFreshOrRefused
<1>4. plan = PlanWrite(r, b)
  BY <1>1, <1>3 DEF FreshPlan
<1>5. b \in Batch
  BY <1>0 DEF TypeOK, CommitJob, Plan
<1>6. plan.contents = NewContents(r, b) /\ plan.transitions = NewTransitions(r, b)
  BY <1>4 DEF PlanWrite
<1>7. /\ runs[r].status = "STARTED" /\ runs'[r].status = "COMMITTED"
      /\ runs'[r].commit_sequence = sequence + 1 /\ runs'[r].batch_hash = b
      /\ runs'[r].knowledge_at = runs[r].knowledge_at
      /\ \A s \in Run \ {r} : runs'[s] = runs[s]
  BY <1>0, CommitManifest
<1>8. runs[r].knowledge_at = Null
  BY <1>7 DEF TimesAreOrdered, Succeeded
<1>9. /\ sequence' = sequence + 1
      /\ contents' = MergeContents(NewContents(r, b))
      /\ transitions' = MergeTransitions(NewTransitions(r, b))
  BY <1>6 DEF CommitStep, CommitTransaction
<1>10. \A s \in Run : AcceptedRuns[s].state # "open"
  <2>1. \A s \in Run : runs[s].status # "COMMITTED"
    BY <1>0, <1>1, ConstantsAssumption DEF GateMarksUnfinalizedRun
  <2> QED BY <2>1, AcceptedFacts
<1>11. AcceptedRuns[r].state = "none"
  BY <1>7, AcceptedFacts DEF Committed
<1>12. AcceptedRuns' = [AcceptedRuns EXCEPT ![r] = e]
  <2>1. Committed(r)' /\ \A s \in Run \ {r} : Committed(s)' <=> Committed(s)
    BY <1>7 DEF Committed
  <2>2. AcceptedRuns'[r] = e
    BY <1>7, <1>8, <2>1 DEF AcceptedRuns
  <2>3. \A s \in Run \ {r} : AcceptedRuns'[s] = AcceptedRuns[s]
    BY <1>7, <2>1 DEF AcceptedRuns
  <2>4. AcceptedRuns = [s \in Run |-> AcceptedRuns[s]]
        /\ AcceptedRuns' = [s \in Run |-> AcceptedRuns'[s]]
    BY DEF AcceptedRuns
  <2> HIDE DEF e
  <2> QED BY <2>2, <2>3, <2>4
<1>13. AtomicProofs!Accept(r, b)
  BY <1>9, <1>10, <1>11, <1>12, SameTables DEF AtomicProofs!Accept
<1> QED BY <1>5, <1>13

\* Publishing an entry changes its state and its time only.
LEMMA PublishedEntry ==
    ASSUME NEW x \in [state : {"open", "published"}, seq : Nat, batch : Batch, at : Time],
           NEW t \in Time
    PROVE  [x EXCEPT !.state = "published", !.at = t]
               = [state |-> "published", seq |-> x.seq, batch |-> x.batch, at |-> t]
<1> DEFINE y == [x EXCEPT !.state = "published", !.at = t]
           z == [state |-> "published", seq |-> x.seq, batch |-> x.batch, at |-> t]
<1>1. /\ y \in [state : {"open", "published"}, seq : Nat, batch : Batch, at : Time]
      /\ z \in [state : {"open", "published"}, seq : Nat, batch : Batch, at : Time]
  OBVIOUS
<1>2. y.state = z.state /\ y.seq = z.seq /\ y.batch = z.batch /\ y.at = z.at
  OBVIOUS
<1> HIDE DEF y, z
<1>3. y = z
  BY <1>1, <1>2
<1> QED BY <1>3 DEF y, z

\* The finalization script is one Publish, at the end time its client read.
LEMMA FinalizeRefines ==
    ASSUME Inv, TimesAreOrdered, NEW c \in Client, FinalizeStep(c), clock' = clock
    PROVE  \E r \in Run : \E t \in 0..clock : AtomicProofs!Publish(r, t)
<1> SUFFICES ASSUME NEW r, r = client[c].run, NEW t, t = client[c].ended
             PROVE  \E q \in Run : \E u \in 0..clock : AtomicProofs!Publish(q, u)
  OBVIOUS
<1> DEFINE e == [AcceptedRuns[r] EXCEPT !.state = "published", !.at = t]
<1>0. TypeOK /\ ClientsAreBound
  BY DEF Inv, ProtocolInvariant
<1>1. /\ r \in Run /\ runs[r].status = "COMMITTED" /\ runs'[r].status = "SUCCEEDED"
      /\ runs'[r].knowledge_at = t /\ runs'[r].commit_sequence = runs[r].commit_sequence
      /\ runs'[r].batch_hash = runs[r].batch_hash
      /\ \A s \in Run \ {r} : runs'[s] = runs[s]
  BY <1>0, FinalizeManifest
<1>2. KnownBy(r, t)
  BY DEF TimesAreOrdered, FinalizeStep
<1>3. t \in 0..clock /\ \A s \in Run : Succeeded(s) => runs[s].knowledge_at <= t
  BY <1>0, <1>1, <1>2 DEF KnownBy, TypeOK
<1>4. AcceptedRuns[r].state = "open"
  BY <1>1, AcceptedFacts
<1>5. \A s \in Run : AtomicProofs!Published(s) => AcceptedRuns[s].at <= t
  BY <1>3, AcceptedFacts DEF AtomicProofs!Published, Succeeded, Committed
<1>6. AcceptedRuns' = [AcceptedRuns EXCEPT ![r] = e]
  <2>1. /\ Committed(r) /\ Committed(r)'
        /\ \A s \in Run \ {r} : Committed(s)' <=> Committed(s)
    BY <1>1 DEF Committed
  <2>2. AcceptedRuns[r] = [state |-> "open", seq |-> runs[r].commit_sequence,
                           batch |-> runs[r].batch_hash, at |-> runs[r].knowledge_at]
    BY <1>1, <2>1 DEF AcceptedRuns
  <2>3. e = [state |-> "published", seq |-> runs[r].commit_sequence,
             batch |-> runs[r].batch_hash, at |-> t]
    <3>1. runs[r] \in Manifest /\ t \in Time
      BY <1>0, <1>1, FinalizeManifest DEF TypeOK
    <3>2. AcceptedRuns[r] \in [state : {"open", "published"}, seq : Nat, batch : Batch, at : Time]
      BY <2>2, <3>1 DEF Manifest
    <3>3. e = [state |-> "published", seq |-> AcceptedRuns[r].seq,
               batch |-> AcceptedRuns[r].batch, at |-> t]
      BY <3>1, <3>2, PublishedEntry, Zenon
    <3>4. /\ AcceptedRuns[r].seq = runs[r].commit_sequence
          /\ AcceptedRuns[r].batch = runs[r].batch_hash
      BY <2>2
    <3> HIDE DEF e
    <3> QED BY <3>3, <3>4
  <2>4. AcceptedRuns'[r] = [state |-> "published", seq |-> runs[r].commit_sequence,
                            batch |-> runs[r].batch_hash, at |-> t]
    BY <1>1, <2>1 DEF AcceptedRuns
  <2>5. \A s \in Run \ {r} : AcceptedRuns'[s] = AcceptedRuns[s]
    BY <1>1, <2>1 DEF AcceptedRuns
  <2>6. AcceptedRuns = [s \in Run |-> AcceptedRuns[s]]
        /\ AcceptedRuns' = [s \in Run |-> AcceptedRuns'[s]]
    BY DEF AcceptedRuns
  <2>7. AcceptedRuns'[r] = e
    BY <2>3, <2>4
  <2> HIDE DEF e
  <2> QED BY <1>1, <2>5, <2>6, <2>7
<1>7. /\ contents' = StampContents(r, t) /\ transitions' = StampTransitions(r, t)
      /\ sequence' = sequence
  BY DEF FinalizeStep, FinalizeTransaction
<1>8. AtomicProofs!Publish(r, t)
  BY <1>4, <1>5, <1>6, <1>7, SameTables DEF AtomicProofs!Publish
<1> QED BY <1>1, <1>3, <1>8

\* Every step of the protocol is a step of the atomic warehouse, or none.
LEMMA StepRefines ==
    ASSUME Inv, TimesAreOrdered, [Next]_vars
    PROVE  [AtomicProofs!RawNext]_(AtomicProofs!rawVars)
<1>0. TypeOK /\ ClientsAreBound
  BY DEF Inv, ProtocolInvariant
<1>1. CASE CalmStep /\ clock' = clock
  BY <1>1, CalmRefines DEF AtomicProofs!rawVars
<1>2. CASE CalmStep /\ clock' = clock + 1
  <2>1. AtomicProofs!Tick
    BY <1>2, CalmRefines DEF AtomicProofs!Tick
  <2> QED BY <2>1 DEF AtomicProofs!RawNext
<1>3. CASE \E r \in Run : CommitStep(r)
  <2>1. PICK r \in Run : CommitStep(r)
    BY <1>3
  <2>2. clock' = clock
    <3>1. sequence' # sequence
      BY <1>0, <2>1 DEF CommitStep, CommitTransaction, TypeOK
    <3> QED BY <1>0, <3>1, ClockStep
  <2>3. \E b \in Batch : AtomicProofs!Accept(r, b)
    BY <2>1, <2>2, CommitRefines
  <2>4. AtomicProofs!Batch = Batch
    BY Zenon DEF AtomicProofs!Batch, Batch, AtomicProofs!IsFiniteSet, IsFiniteSet
  <2>5. AtomicProofs!RawNext
    BY <2>3, <2>4 DEF AtomicProofs!RawNext
  <2> QED BY <2>5
<1>4. CASE \E c \in Client : FinalizeStep(c)
  <2>1. PICK c \in Client : FinalizeStep(c)
    BY <1>4
  <2>2. clock' = clock
    <3>1. runs' # runs
      BY <1>0, <2>1, FinalizeManifest
    <3> QED BY <1>0, <3>1, ClockStep
  <2>3. \E r \in Run : \E t \in 0..clock : AtomicProofs!Publish(r, t)
    BY <2>1, <2>2, FinalizeRefines
  <2> QED BY <2>3 DEF AtomicProofs!RawNext
<1> QED BY <1>0, <1>1, <1>2, <1>3, <1>4, ManifestStep, ClockStep

LEMMA InitRefines == Init => AtomicProofs!RawInit
<1> SUFFICES ASSUME Init PROVE AtomicProofs!RawInit
  OBVIOUS
<1>1. \A r \in Run : ~Committed(r)
  BY DEF Init, NoManifest, Committed
<1>2. AcceptedRuns = [r \in Run |-> AtomicProofs!NoEntry]
  BY <1>1 DEF AcceptedRuns, AtomicProofs!NoEntry, AtomicProofs!NoBatch, NoBatch
<1> QED BY <1>2 DEF Init, AtomicProofs!RawInit

LEMMA TimesHold == Spec => []TimesAreOrdered
<1>1. Inv /\ TimesAreOrdered /\ [Next]_vars => TimesAreOrdered'
  BY TimesStep
<1> QED BY <1>1, TimesInit, InvHolds, PTL DEF Spec

LEMMA SpecRefines == Spec => AtomicProofs!RawSpec
<1>1. Inv /\ TimesAreOrdered /\ [Next]_vars => [AtomicProofs!RawNext]_(AtomicProofs!rawVars)
  BY StepRefines
<1> QED BY <1>1, InitRefines, InvHolds, TimesHold, PTL DEF Spec, AtomicProofs!RawSpec
\* Linearizability: whatever invocations, retries, crashes, stale plans,
\* aborted and late jobs do, the raw tables evolve as if each accepted batch
\* were planned and written in one step (commit_query) and stamped in a second
\* one (finalize_query) before the next batch.
THEOREM Linearizable == Spec => ImplementsAtomicWarehouse
<1>1. AtomicProofs!RawInit => Atomic!RawInit
  BY DEF AtomicProofs!RawInit, Atomic!RawInit, AtomicProofs!NoEntry, Atomic!NoEntry,
         AtomicProofs!NoBatch, Atomic!NoBatch
<1>2. AtomicProofs!RawNext => Atomic!RawNext
  BY Zenon DEF AtomicProofs!RawNext, Atomic!RawNext, AtomicProofs!Tick, Atomic!Tick,
         AtomicProofs!Accept, Atomic!Accept, AtomicProofs!Publish, Atomic!Publish,
         AtomicProofs!Published, Atomic!Published, AtomicProofs!Batch, Atomic!Batch,
         AtomicProofs!IsFiniteSet, Atomic!IsFiniteSet,
         AtomicProofs!MergeContents, Atomic!MergeContents,
         AtomicProofs!MergeTransitions, Atomic!MergeTransitions,
         AtomicProofs!NewContents, Atomic!NewContents,
         AtomicProofs!NewTransitions, Atomic!NewTransitions,
         AtomicProofs!Stored, Atomic!Stored, AtomicProofs!Changed, Atomic!Changed,
         AtomicProofs!NextOrdinal, Atomic!NextOrdinal,
         AtomicProofs!LatestRows, Atomic!LatestRows,
         AtomicProofs!StampContents, Atomic!StampContents,
         AtomicProofs!StampTransitions, Atomic!StampTransitions
<1>3. [AtomicProofs!RawNext]_(AtomicProofs!rawVars) => [Atomic!RawNext]_(Atomic!rawVars)
  BY <1>2 DEF AtomicProofs!rawVars, Atomic!rawVars
<1> QED BY <1>1, <1>3, SpecRefines, PTL DEF AtomicProofs!RawSpec, Atomic!RawSpec,
            ImplementsAtomicWarehouse

LEMMA AtomicInvHolds == Spec => []AtomicProofs!RawInv
BY SpecRefines, AtomicProofs!RawCorrect, NullAssumption, PTL
----------------------------------------------------------------------------
(* What the protocol inherits.                                             *)

\* Each committed run has its own commit sequence in 1..sequence, every number
\* is taken, and transitions carry their run's (the counter commit_query
\* advances by one under its sequence assertion).
THEOREM SequencesCorrect == Spec => []CommitSequencesAreTotal
<1>1. AtomicProofs!RawInv /\ TypeOK => CommitSequencesAreTotal
  <2> SUFFICES ASSUME AtomicProofs!RawInv, TypeOK
               PROVE  CommitSequencesAreTotal
    OBVIOUS
  <2>1. \A r \in Run : AtomicProofs!Taken(r) <=> Committed(r)
    BY AcceptedFacts DEF AtomicProofs!Taken
  <2>2. AtomicProofs!SequencesAreTotal
    BY DEF AtomicProofs!RawInv
  <2>3. \A t \in transitions : t.run \in Run
    BY DEF TypeOK, TransitionRow
  <2> QED BY <2>1, <2>2, <2>3, AcceptedFacts
          DEF AtomicProofs!SequencesAreTotal, CommitSequencesAreTotal
<1> QED BY <1>1, AtomicInvHolds, TypeCorrect, PTL

\* A row is stamped exactly when its run SUCCEEDED, with its knowledge time,
\* and knowledge times never run against the commit order, however late the
\* finalization of a crashed run is resumed.
THEOREM KnowledgeCorrect == Spec => []KnowledgeFollowsCommitOrder
<1>1. AtomicProofs!RawInv /\ Inv /\ TimesAreOrdered => KnowledgeFollowsCommitOrder
  <2> SUFFICES ASSUME AtomicProofs!RawInv, Inv, TimesAreOrdered
               PROVE  KnowledgeFollowsCommitOrder
    OBVIOUS
  <2>1. AtomicProofs!KnowledgeIsOrdered
    BY DEF AtomicProofs!RawInv
  <2>2. /\ \A x \in contents : x.run \in Run /\ Committed(x.run)
        /\ \A t \in transitions : t.run \in Run /\ Committed(t.run)
        /\ \A r \in Run : runs[r].commit_sequence \in Nat
    BY DEF Inv, ProtocolInvariant, OnlyCommittedRunsOwnRows, TypeOK, ContentRow, TransitionRow,
           Manifest
  <2>3. /\ \A x \in contents : x.seen = runs[x.run].knowledge_at
        /\ \A t \in transitions : t.known = runs[t.run].knowledge_at
    BY <2>1, <2>2, AcceptedFacts DEF AtomicProofs!KnowledgeIsOrdered
  <2>4. \A r \in Run : Succeeded(r) <=> AtomicProofs!Published(r)
    BY AcceptedFacts DEF AtomicProofs!Published
  <2>5. \A r, s \in Run : /\ Succeeded(r) /\ Succeeded(s)
                          /\ runs[r].commit_sequence < runs[s].commit_sequence
                          => runs[r].knowledge_at <= runs[s].knowledge_at
    BY <2>1, <2>2, <2>4, AcceptedFacts DEF AtomicProofs!KnowledgeIsOrdered, Succeeded, Committed
  <2> QED BY <2>3, <2>5 DEF TimesAreOrdered, Succeeded, KnowledgeFollowsCommitOrder
<1> QED BY <1>1, AtomicInvHolds, InvHolds, TimesHold, PTL

\* As of a run's commit, the latest state of each key it accepted is the value
\* it accepted, although plan_write keeps only the changes.
THEOREM HistoryCorrect == Spec => []HistoryReconstructsBatches
<1>1. AtomicProofs!RawInv => HistoryReconstructsBatches
  <2> SUFFICES ASSUME AtomicProofs!RawInv PROVE HistoryReconstructsBatches
    OBVIOUS
  <2>1. \A r \in Run : AtomicProofs!Taken(r) <=> Committed(r)
    BY AcceptedFacts DEF AtomicProofs!Taken
  <2>2. AtomicProofs!BatchesAreReconstructed
    BY DEF AtomicProofs!RawInv
  <2> QED BY <2>1, <2>2, AcceptedFacts
          DEF AtomicProofs!BatchesAreReconstructed, HistoryReconstructsBatches
<1> QED BY <1>1, AtomicInvHolds, PTL

\* The inner join of transitions and contents loses and duplicates nothing.
THEOREM ContentsCorrect == Spec => []TransitionsHaveOneContent
<1>1. AtomicProofs!RawInv /\ Inv => TransitionsHaveOneContent
  <2> SUFFICES ASSUME AtomicProofs!RawInv, Inv PROVE TransitionsHaveOneContent
    OBVIOUS
  <2>1. AtomicProofs!ContentsMatch
    BY DEF AtomicProofs!RawInv
  <2>2. \A x \in contents : x.run \in Run /\ Committed(x.run)
    BY DEF Inv, ProtocolInvariant, OnlyCommittedRunsOwnRows, TypeOK, ContentRow
  <2>3. \A x \in contents : AcceptedRuns[x.run].seq = runs[x.run].commit_sequence
    BY <2>2, AcceptedFacts
  <2> QED BY <2>1, <2>3 DEF AtomicProofs!ContentsMatch, TransitionsHaveOneContent
<1> QED BY <1>1, AtomicInvHolds, InvHolds, PTL
\* What BindingIsPermanent says of one step.
KeepsBinding ==
    \A r \in Run : runs[r].status # "ABSENT" =>
        runs'[r].request = runs[r].request /\ runs'[r].status # "ABSENT"

\* A manifest keeps the request it was created for, whichever begin, retry,
\* failure or finalization comes later.
THEOREM BindingCorrect == Spec => BindingIsPermanent
<1>1. Inv /\ [Next]_vars => [KeepsBinding]_vars
  <2> SUFFICES ASSUME Inv, [Next]_vars PROVE KeepsBinding
    OBVIOUS
  <2>0. TypeOK /\ ClientsAreBound
    BY DEF Inv, ProtocolInvariant
  <2>1. CASE CalmStep
    BY <2>1 DEF CalmStep, KeepsBinding
  <2>2. ASSUME NEW r \in Run, CommitStep(r)
        PROVE  KeepsBinding
    BY <2>0, <2>2, CommitManifest DEF KeepsBinding
  <2>3. ASSUME NEW c \in Client, FinalizeStep(c)
        PROVE  KeepsBinding
    BY <2>0, <2>3, FinalizeManifest DEF KeepsBinding
  <2> QED BY <2>0, <2>1, <2>2, <2>3, ManifestStep
<1>2. Spec => [][KeepsBinding]_vars
  BY <1>1, InvHolds, PTL DEF Spec
<1> QED BY <1>2 DEF BindingIsPermanent, KeepsBinding
----------------------------------------------------------------------------
(* The counts of the manifest.                                             *)

ContentsOf(r) == {x \in contents : x.run = r}
TransitionsOf(r) == {t \in transitions : t.run = r}

\* Each run's rows are finitely many, and those of a run that awaits its
\* finalization carry no time yet.
RowsAreFinite ==
    \A r \in Run : /\ IsFiniteSet(ContentsOf(r)) /\ IsFiniteSet(TransitionsOf(r))
                   /\ ~Succeeded(r) => /\ \A x \in ContentsOf(r) : x.seen = Null
                                       /\ \A t \in TransitionsOf(r) : t.known = Null

LEMMA RowsHold == Spec => []RowsAreFinite
<1>1. AtomicProofs!RawInv /\ KnowledgeFollowsCommitOrder => RowsAreFinite
  <2> SUFFICES ASSUME AtomicProofs!RawInv, KnowledgeFollowsCommitOrder PROVE RowsAreFinite
    OBVIOUS
  <2>1. AtomicProofs!TablesAreFinite
    BY DEF AtomicProofs!RawInv
  <2>2. IsFiniteSet(contents) /\ IsFiniteSet(transitions)
    BY <2>1, Zenon DEF AtomicProofs!TablesAreFinite, AtomicProofs!IsFiniteSet, IsFiniteSet
  <2>3. \A r \in Run : IsFiniteSet(ContentsOf(r)) /\ IsFiniteSet(TransitionsOf(r))
    BY <2>2, FS_Subset DEF ContentsOf, TransitionsOf
  <2> QED BY <2>3 DEF RowsAreFinite, KnowledgeFollowsCommitOrder, Succeeded, ContentsOf,
                      TransitionsOf
<1> QED BY <1>1, AtomicInvHolds, KnowledgeCorrect, PTL

\* A commit adds the rows of its plan to its run's, which had none, and leaves
\* those of the other runs alone.
LEMMA CommitCounts ==
    ASSUME Inv, NEW r \in Run, CommitStep(r)
    PROVE  /\ ContentsOf(r)' = commitJob[r].plan.contents
           /\ TransitionsOf(r)' = commitJob[r].plan.transitions
           /\ \A s \in Run \ {r} : /\ ContentsOf(s)' = ContentsOf(s)
                                   /\ TransitionsOf(s)' = TransitionsOf(s)
<1> DEFINE plan == commitJob[r].plan
<1>0. /\ TypeOK /\ PlansAreWellFormed /\ PlansAreFreshOrRefused
      /\ OnlyCommittedRunsOwnRows
  BY DEF Inv, ProtocolInvariant
<1>1. sequence = plan.expected /\ runs[r].status = "STARTED"
  BY DEF CommitStep, CommitTransaction, CommitAsserts
<1>2. [run |-> r, plan |-> plan] \in PlansInFlight /\ WellFormedPlan(r, plan)
  BY <1>0, CommitRows
<1>3. plan = PlanWrite(r, plan.batch)
  <2>1. FreshPlan(r, plan)
    BY <1>0, <1>2 DEF PlansAreFreshOrRefused
  <2> QED BY <1>1, <2>1 DEF FreshPlan
<1>4. \A x \in plan.contents : ~Stored(x.key, x.value)
  <2>1. plan.contents = NewContents(r, plan.batch)
    BY <1>3 DEF PlanWrite
  <2> QED BY <2>1 DEF NewContents
<1>5. (\A x \in contents : x.run # r) /\ (\A t \in transitions : t.run # r)
  BY <1>0, <1>1 DEF OnlyCommittedRunsOwnRows, Committed
<1>6. (\A x \in plan.contents : x.run = r) /\ (\A t \in plan.transitions : t.run = r)
  BY <1>2 DEF WellFormedPlan
<1>7. contents' = contents \cup plan.contents
  BY <1>4 DEF CommitStep, CommitTransaction, MergeContents
<1>8. transitions' = transitions \cup plan.transitions
  BY <1>5, <1>6 DEF CommitStep, CommitTransaction, MergeTransitions
<1> QED BY <1>5, <1>6, <1>7, <1>8 DEF ContentsOf, TransitionsOf

\* Stamping maps the rows of the finalized run one to one, and no other row.
LEMMA FinalizeCounts ==
    ASSUME TypeOK, RowsAreFinite, NEW r \in Run, NEW t \in Time, ~Succeeded(r),
           FinalizeTransaction(r, t), NEW s \in Run
    PROVE  /\ Cardinality(ContentsOf(s)') = Cardinality(ContentsOf(s))
           /\ Cardinality(TransitionsOf(s)') = Cardinality(TransitionsOf(s))
<1>0. /\ transitions' = {Stamp(x, r, t) : x \in transitions}
      /\ \A x \in transitions : Stamp(x, r, t).run = x.run
      /\ contents' = {StampSeen(x, r, t) : x \in contents}
      /\ \A x \in contents : StampSeen(x, r, t).run = x.run
  BY FinalizeRows
<1>1. CASE s # r
  <2>1. \A x \in contents : x.run = s => StampSeen(x, r, t) = x
    BY <1>1 DEF StampSeen
  <2>2. \A x \in transitions : x.run = s => Stamp(x, r, t) = x
    BY <1>1 DEF Stamp
  <2>3. ContentsOf(s)' = ContentsOf(s) /\ TransitionsOf(s)' = TransitionsOf(s)
    BY <1>0, <2>1, <2>2 DEF ContentsOf, TransitionsOf
  <2> QED BY <2>3
<1>2. CASE s = r
  <2>0. /\ IsFiniteSet(ContentsOf(r)) /\ IsFiniteSet(TransitionsOf(r))
        /\ \A x \in ContentsOf(r) : x.seen = Null
        /\ \A x \in TransitionsOf(r) : x.known = Null
    BY DEF RowsAreFinite
  <2>1. Cardinality(ContentsOf(r)') = Cardinality(ContentsOf(r))
    <3> DEFINE f == [x \in ContentsOf(r) |-> StampSeen(x, r, t)]
    <3>1. \A x \in ContentsOf(r) : /\ x \in ContentRow /\ x.run = r
                                   /\ StampSeen(x, r, t) = [x EXCEPT !.seen = t]
      BY <2>0 DEF ContentsOf, StampSeen, TypeOK
    <3>2. \A x, y \in ContentsOf(r) : StampSeen(x, r, t) = StampSeen(y, r, t) => x = y
      <4> SUFFICES ASSUME NEW x \in ContentsOf(r), NEW y \in ContentsOf(r),
                          StampSeen(x, r, t) = StampSeen(y, r, t)
                   PROVE  x = y
        OBVIOUS
      <4>1. [x EXCEPT !.seen = t] = [y EXCEPT !.seen = t]
        BY <3>1
      <4>2. x.key = y.key /\ x.value = y.value /\ x.run = y.run
        BY <3>1, <4>1 DEF ContentRow
      <4> QED BY <2>0, <3>1, <4>2 DEF ContentRow
    <3>3. \A x \in ContentsOf(r) : StampSeen(x, r, t) \in ContentsOf(r)'
      BY <1>0 DEF ContentsOf
    <3>4. \A y \in ContentsOf(r)' : \E x \in ContentsOf(r) : StampSeen(x, r, t) = y
      BY <1>0 DEF ContentsOf
    <3>5. f \in Bijection(ContentsOf(r), ContentsOf(r)')
      <4> HIDE DEF ContentsOf
      <4> QED BY <3>2, <3>3, <3>4 DEF Bijection, Injection, IsInjective, Surjection
    <3> QED BY <2>0, <3>5, FS_Bijection DEF ExistsBijection
  <2>2. Cardinality(TransitionsOf(r)') = Cardinality(TransitionsOf(r))
    <3> DEFINE f == [x \in TransitionsOf(r) |-> Stamp(x, r, t)]
    <3>1. \A x \in TransitionsOf(r) : /\ x \in TransitionRow /\ x.run = r
                                      /\ Stamp(x, r, t) = [x EXCEPT !.known = t]
      BY <2>0 DEF TransitionsOf, Stamp, TypeOK
    <3>2. \A x, y \in TransitionsOf(r) : Stamp(x, r, t) = Stamp(y, r, t) => x = y
      <4> SUFFICES ASSUME NEW x \in TransitionsOf(r), NEW y \in TransitionsOf(r),
                          Stamp(x, r, t) = Stamp(y, r, t)
                   PROVE  x = y
        OBVIOUS
      <4>1. [x EXCEPT !.known = t] = [y EXCEPT !.known = t]
        BY <3>1
      <4>2. /\ x.key = y.key /\ x.value = y.value /\ x.run = y.run
            /\ x.ordinal = y.ordinal /\ x.seq = y.seq
        BY <3>1, <4>1 DEF TransitionRow
      <4> QED BY <2>0, <3>1, <4>2 DEF TransitionRow
    <3>3. \A x \in TransitionsOf(r) : Stamp(x, r, t) \in TransitionsOf(r)'
      BY <1>0 DEF TransitionsOf
    <3>4. \A y \in TransitionsOf(r)' : \E x \in TransitionsOf(r) : Stamp(x, r, t) = y
      BY <1>0 DEF TransitionsOf
    <3>5. f \in Bijection(TransitionsOf(r), TransitionsOf(r)')
      <4> HIDE DEF TransitionsOf
      <4> QED BY <3>2, <3>3, <3>4 DEF Bijection, Injection, IsInjective, Surjection
    <3> QED BY <2>0, <3>5, FS_Bijection DEF ExistsBijection
  <2> QED BY <1>2, <2>1, <2>2
<1> QED BY <1>1, <1>2

\* Every step keeps the manifests' counts true.
LEMMA CountsStep ==
    ASSUME Inv, RowsAreFinite, CountsDescribeRows, [Next]_vars
    PROVE  CountsDescribeRows'
<1>0. TypeOK /\ ClientsAreBound
  BY DEF Inv, ProtocolInvariant
<1>1. \A s \in Run : Committed(s) =>
          /\ runs[s].new_contents = Cardinality(ContentsOf(s))
          /\ runs[s].new_transitions = Cardinality(TransitionsOf(s))
  BY DEF CountsDescribeRows, ContentsOf, TransitionsOf
<1>2. SUFFICES \A s \in Run : Committed(s)' =>
          /\ runs'[s].new_contents = Cardinality(ContentsOf(s)')
          /\ runs'[s].new_transitions = Cardinality(TransitionsOf(s)')
  BY DEF CountsDescribeRows, ContentsOf, TransitionsOf
<1>3. CASE CalmStep
  <2>1. \A s \in Run : Committed(s)' => runs'[s] = runs[s] /\ Committed(s)
    BY <1>3 DEF CalmStep, QuietStep, Committed
  <2>2. \A s \in Run : ContentsOf(s)' = ContentsOf(s) /\ TransitionsOf(s)' = TransitionsOf(s)
    BY <1>3 DEF CalmStep, QuietStep, ContentsOf, TransitionsOf
  <2> QED BY <1>1, <2>1, <2>2
<1>4. ASSUME NEW r \in Run, CommitStep(r), NEW s \in Run, Committed(s)'
      PROVE  /\ runs'[s].new_contents = Cardinality(ContentsOf(s)')
             /\ runs'[s].new_transitions = Cardinality(TransitionsOf(s)')
  <2>1. /\ runs'[r].new_contents = Cardinality(commitJob[r].plan.contents)
        /\ runs'[r].new_transitions = Cardinality(commitJob[r].plan.transitions)
        /\ \A p \in Run \ {r} : runs'[p] = runs[p]
    BY <1>0, <1>4, CommitManifest
  <2>2. /\ ContentsOf(r)' = commitJob[r].plan.contents
        /\ TransitionsOf(r)' = commitJob[r].plan.transitions
        /\ \A p \in Run \ {r} : /\ ContentsOf(p)' = ContentsOf(p)
                                /\ TransitionsOf(p)' = TransitionsOf(p)
    BY <1>4, CommitCounts
  <2>3. CASE s = r
    BY <2>1, <2>2, <2>3
  <2>4. CASE s # r
    <3>1. Committed(s)
      BY <1>4, <2>1, <2>4 DEF Committed
    <3> QED BY <1>1, <2>1, <2>2, <2>4, <3>1
  <2> QED BY <2>3, <2>4
<1>5. ASSUME NEW c \in Client, FinalizeStep(c), NEW s \in Run, Committed(s)'
      PROVE  /\ runs'[s].new_contents = Cardinality(ContentsOf(s)')
             /\ runs'[s].new_transitions = Cardinality(TransitionsOf(s)')
  <2> SUFFICES ASSUME NEW r, r = client[c].run, NEW t, t = client[c].ended
               PROVE  /\ runs'[s].new_contents = Cardinality(ContentsOf(s)')
                      /\ runs'[s].new_transitions = Cardinality(TransitionsOf(s)')
    OBVIOUS
  <2>1. /\ r \in Run /\ t \in Time /\ runs[r].status = "COMMITTED"
        /\ runs'[r].new_contents = runs[r].new_contents
        /\ runs'[r].new_transitions = runs[r].new_transitions
        /\ \A p \in Run \ {r} : runs'[p] = runs[p]
    BY <1>0, <1>5, FinalizeManifest
  <2>2. FinalizeTransaction(r, t) /\ ~Succeeded(r)
    BY <1>5, <2>1 DEF FinalizeStep, Succeeded
  <2>3. /\ Cardinality(ContentsOf(s)') = Cardinality(ContentsOf(s))
        /\ Cardinality(TransitionsOf(s)') = Cardinality(TransitionsOf(s))
    BY <1>0, <2>1, <2>2, FinalizeCounts
  <2>4. Committed(s)
    BY <1>5, <2>1 DEF Committed
  <2>5. /\ runs'[s].new_contents = runs[s].new_contents
        /\ runs'[s].new_transitions = runs[s].new_transitions
    BY <2>1
  <2> QED BY <1>1, <2>3, <2>4, <2>5
<1> QED BY <1>0, <1>3, <1>4, <1>5, ManifestStep

\* new_contents and new_transitions, taken from the length of the script's
\* parameters, count the rows its insert-only MERGEs added.
THEOREM CountsCorrect == Spec => []CountsDescribeRows
<1>1. Init => CountsDescribeRows
  BY DEF Init, NoManifest, CountsDescribeRows, Committed
<1>2. Inv /\ RowsAreFinite /\ CountsDescribeRows /\ [Next]_vars => CountsDescribeRows'
  BY CountsStep
<1> QED BY <1>1, <1>2, InvHolds, RowsHold, PTL DEF Spec
=============================================================================
