-------------------------- MODULE WarehouseProofs --------------------------
(* Proofs about Warehouse for every set of runs, clients, requests, keys   *)
(* and values.                                                             *)
EXTENDS Warehouse, FiniteSetTheorems, TLAPS

\* The inductive invariant.
Inv == TypeOK /\ ProtocolInvariant

\* The initial plan, manifest and client state have their types.
LEMMA IdleType == /\ NoBatch \in Batch
                  /\ NoPlan \in Plan
                  /\ Idle \in ClientState
                  /\ NoManifest \in Manifest
<1>1. NoBatch \in [{} -> Value]
  BY DEF NoBatch
<1>2. NoBatch \in Batch
  BY <1>1, FS_EmptySet DEF Batch
<1>3. NoPlan \in Plan
  BY <1>2 DEF NoPlan, Plan
<1>4. QED
  BY <1>2, <1>3 DEF Idle, ClientState, Label, Stage, Status, Time, NoManifest, Manifest

\* A client that ends its call, becoming idle, keeps the type of client.
LEMMA LeaveType ==
  ASSUME TypeOK, NEW c \in Client, Leave(c)
  PROVE  client' \in [Client -> ClientState]
BY IdleType DEF TypeOK, Leave, ClientState

\* A client that moves to another label keeps the type of client.
LEMMA GotoType ==
  ASSUME TypeOK, NEW c \in Client, NEW l \in Label, Goto(c, l)
  PROVE  client' \in [Client -> ClientState]
BY DEF TypeOK, Goto, ClientState

\* The begin script (begin_run) keeps the type invariant.
LEMMA RunBeginType ==
  ASSUME TypeOK, NEW r \in Run, RunBegin(r)
  PROVE  TypeOK'
<1>1. runs' \in [Run -> Manifest]
  <2>1. runs[r] \in Manifest /\ beginJob[r].request \in Request \cup {Null}
    BY DEF TypeOK, BeginJob
  <2>2. [runs[r] EXCEPT !.status = "STARTED", !.request = beginJob[r].request] \in Manifest
    BY <2>1 DEF Manifest, Status
  <2>3. QED
    BY <2>2 DEF TypeOK, RunBegin
<1>2. beginJob' \in [Run -> BeginJob]
  BY DEF TypeOK, RunBegin, JobState, BeginJob
<1>3. QED
  BY <1>1, <1>2 DEF TypeOK, RunBegin, control, tables

\* The commit script (commit_query), accepted or refused, keeps the type
\* invariant: what it merges are rows of the tables' schemas.
LEMMA RunCommitType ==
  ASSUME TypeOK, PlansAreWellFormed, NEW r \in Run, RunCommit(r)
  PROVE  TypeOK'
<1>0. commitJob[r].plan \in Plan /\ NoPlan \in Plan
  BY IdleType DEF TypeOK, CommitJob
<1>1. commitJob' \in [Run -> CommitJob]
  <2>1. \A s \in JobState : [commitJob[r] EXCEPT !.state = s, !.plan = NoPlan] \in CommitJob
    BY <1>0 DEF TypeOK, CommitJob
  <2>2. QED
    BY <2>1 DEF TypeOK, RunCommit, JobState
<1>2. CASE CommitTransaction(r)
  <2> DEFINE plan == commitJob[r].plan
  <2>1. /\ Cardinality(plan.contents) \in Nat
        /\ Cardinality(plan.transitions) \in Nat
    <3>1. [run |-> r, plan |-> plan] \in PlansInFlight
      BY DEF PlansInFlight, RunCommit
    <3>2. IsFiniteSet(plan.contents) /\ IsFiniteSet(plan.transitions)
      BY <3>1 DEF PlansAreWellFormed, WellFormedPlan
    <3>3. QED
      BY <3>2, FS_CardinalityType
  <2>2. Cardinality(DOMAIN plan.batch) \in Nat
    <3>1. PICK S \in SUBSET Key : IsFiniteSet(S) /\ plan.batch \in [S -> Value]
      BY <1>0 DEF Plan, Batch
    <3>2. QED
      BY <3>1, FS_CardinalityType
  <2>3. runs' \in [Run -> Manifest]
    <3>1. runs[r] \in Manifest /\ plan.expected + 1 \in Nat /\ plan.batch \in Batch
      BY <1>0 DEF TypeOK, Plan
    <3>2. [runs[r] EXCEPT !.status = "COMMITTED",
                          !.commit_completed = TRUE,
                          !.commit_sequence = plan.expected + 1,
                          !.batch_hash = plan.batch,
                          !.accepted = Cardinality(DOMAIN plan.batch),
                          !.new_contents = Cardinality(plan.contents),
                          !.new_transitions = Cardinality(plan.transitions)] \in Manifest
      BY <2>1, <2>2, <3>1 DEF Manifest, Status
    <3>3. QED
      BY <1>2, <3>2 DEF TypeOK, CommitTransaction
  <2>4. contents' \subseteq ContentRow /\ transitions' \subseteq TransitionRow
    BY <1>2, <1>0 DEF TypeOK, CommitTransaction, MergeContents, MergeTransitions, Plan
  <2>5. QED
    BY <1>1, <1>2, <2>3, <2>4 DEF TypeOK, RunCommit, CommitTransaction
<1>3. CASE UNCHANGED <<control, tables, runs>>
  BY <1>1, <1>3 DEF TypeOK, RunCommit, control, tables
<1>4. QED
  BY <1>2, <1>3 DEF RunCommit

\* The end of a commit job and the loss of job metadata keep the type invariant.
LEMMA JobEndType ==
  ASSUME TypeOK, NEW r \in Run, EndCommit(r) \/ ExpireJob(r)
  PROVE  TypeOK'
<1>1. CASE EndCommit(r)
  <2>1. PICK s \in {"done", "error"} :
           commitJob' = [commitJob EXCEPT ![r] = [@ EXCEPT !.state = s, !.ended = clock']]
    BY <1>1 DEF EndCommit
  <2>2. clock' \in Nat
    <3>1. clock' \in {clock, clock + 1}
      BY <1>1, Zenon DEF EndCommit
    <3>2. QED
      BY <3>1 DEF TypeOK
  <2>3. [commitJob[r] EXCEPT !.state = s, !.ended = clock'] \in CommitJob
    BY <2>2 DEF TypeOK, CommitJob, JobState, Time
  <2>4. commitJob' \in [Run -> CommitJob]
    BY <2>1, <2>3 DEF TypeOK
  <2>5. QED
    BY <1>1, <2>2, <2>4 DEF TypeOK, EndCommit, control, tables
<1>2. CASE ExpireJob(r)
  <2>1. [state |-> "none", plan |-> NoPlan, ended |-> Null] \in CommitJob
    BY IdleType DEF CommitJob, JobState, Time
  <2>2. commitJob' \in [Run -> CommitJob]
    BY <1>2, <2>1 DEF TypeOK, ExpireJob
  <2>3. beginJob' \in [Run -> BeginJob]
    BY <1>2 DEF TypeOK, ExpireJob, JobState, BeginJob
  <2>4. QED
    BY <1>2, <2>2, <2>3 DEF TypeOK, ExpireJob, control, tables
<1>3. QED
  BY <1>1, <1>2

\* plan_write returns a plan: its rows fit the tables.
LEMMA PlanWriteType ==
  ASSUME TypeOK, NEW r \in Run, NEW b \in Batch
  PROVE  /\ PlanWrite(r, b) \in Plan
         /\ IsFiniteSet(PlanWrite(r, b).contents)
         /\ IsFiniteSet(PlanWrite(r, b).transitions)
<1>1. PICK S \in SUBSET Key : IsFiniteSet(S) /\ b \in [S -> Value]
  BY DEF Batch
<1>2. \A k \in Key : NextOrdinal(k) \in Nat
  BY DEF NextOrdinal, LatestRows, TypeOK, TransitionRow
<1>3. NewContents(r, b) \subseteq ContentRow
  BY <1>1 DEF NewContents, ContentRow, Time
<1>4. NewTransitions(r, b) \subseteq TransitionRow
  BY <1>1, <1>2 DEF NewTransitions, TransitionRow, Time, TypeOK
<1>5. IsFiniteSet(NewContents(r, b))
  <2> DEFINE D == {j \in DOMAIN b : ~Stored(j, b[j])}
             f == [k \in D |-> [key |-> k, value |-> b[k], run |-> r, seen |-> Null]]
  <2>1. IsFiniteSet(D)
    BY <1>1, FS_Subset
  <2>2. f \in Surjection(D, NewContents(r, b))
    BY DEF Surjection, NewContents
  <2>3. QED
    BY <2>1, <2>2, FS_Surjection DEF ExistsSurjection
<1>6. IsFiniteSet(NewTransitions(r, b))
  <2> DEFINE D == {j \in DOMAIN b : Changed(j, b[j])}
             f == [k \in D |-> [run |-> r, key |-> k, value |-> b[k],
                                ordinal |-> NextOrdinal(k), seq |-> sequence + 1,
                                known |-> Null]]
  <2>1. IsFiniteSet(D)
    BY <1>1, FS_Subset
  <2>2. f \in Surjection(D, NewTransitions(r, b))
    BY DEF Surjection, NewTransitions
  <2>3. QED
    BY <2>1, <2>2, FS_Surjection DEF ExistsSurjection
<1>7. QED
  BY <1>3, <1>4, <1>5, <1>6 DEF PlanWrite, Plan, TypeOK

\* Every step of reconcile(), persist() and fail() keeps the type invariant.
LEMMA ClientStepType ==
  ASSUME TypeOK, ClientsAreBound, NEW c \in Client, ClientStep(c)
  PROVE  TypeOK'
<1>1. CASE AwaitBegin(c)
  <2>1. client' \in [Client -> ClientState]
    BY <1>1, LeaveType, GotoType DEF AwaitBegin, Label
  <2>2. QED
    BY <1>1, <2>1 DEF TypeOK, AwaitBegin, UnchangedServer, control, tables, jobs
<1>2. CASE ReadManifest(c)
  <2>1. [client[c] EXCEPT !.pc = "lookup", !.seen = runs[client[c].run].status] \in ClientState
    <3>1. runs[client[c].run].status \in Status
      BY <1>2 DEF TypeOK, ClientsAreBound, ReadManifest, Manifest
    <3>2. QED
      BY <3>1 DEF TypeOK, ClientState, Label
  <2>2. client' \in [Client -> ClientState]
    BY <1>2, <2>1, LeaveType DEF TypeOK, ReadManifest
  <2>3. QED
    BY <1>2, <2>2 DEF TypeOK, ReadManifest, UnchangedServer, control, tables, jobs
<1>3. CASE LookupJob(c)
  <2>1. client' \in [Client -> ClientState]
    BY <1>3, LeaveType, GotoType DEF LookupJob, Label
  <2>2. QED
    BY <1>3, <2>1 DEF TypeOK, LookupJob, UnchangedServer, control, tables, jobs
<1>4. CASE Fetch(c)
  <2>1. ASSUME NEW S \in SUBSET KeysOf[client[c].req], NEW b \in [S -> Value]
        PROVE  [client[c] EXCEPT !.pc = "read", !.stage = "persist", !.batch = b]
                   \in ClientState
    <3>1. client[c].req \in Request
      BY <1>4 DEF Fetch, ClientsAreBound
    <3>2. IsFiniteSet(S) /\ S \in SUBSET Key
      BY <3>1, ConstantsAssumption, FS_Subset
    <3>3. b \in Batch
      BY <3>2 DEF Batch
    <3>4. QED
      BY <3>3 DEF TypeOK, ClientState, Label, Stage
  <2>2. client' \in [Client -> ClientState]
    <3>1. CASE Goto(c, "fail")
      BY <3>1, GotoType DEF Label
    <3>2. CASE \E S \in SUBSET KeysOf[client[c].req] \ {{}} : \E b \in [S -> Value] :
                  client' = [client EXCEPT ![c] = [@ EXCEPT
                                 !.pc = "read", !.stage = "persist", !.batch = b]]
      <4>0. PICK S \in SUBSET KeysOf[client[c].req] \ {{}} : \E b \in [S -> Value] :
                client' = [client EXCEPT ![c] = [@ EXCEPT
                               !.pc = "read", !.stage = "persist", !.batch = b]]
        BY <3>2
      <4>1. PICK b \in [S -> Value] :
                client' = [client EXCEPT ![c] = [@ EXCEPT
                               !.pc = "read", !.stage = "persist", !.batch = b]]
        BY <4>0
      <4>2. [client[c] EXCEPT !.pc = "read", !.stage = "persist", !.batch = b]
                \in ClientState
        BY <2>1
      <4>3. QED
        BY <4>1, <4>2 DEF TypeOK
    <3>3. QED
      BY <1>4, <3>1, <3>2 DEF Fetch
  <2>3. QED
    BY <1>4, <2>2 DEF TypeOK, Fetch, UnchangedServer, control, tables, jobs
<1>5. CASE TakeSnapshot(c)
  <2>1. client[c].run \in Run /\ client[c].batch \in Batch
    BY <1>5 DEF TypeOK, ClientState, ClientsAreBound, TakeSnapshot
  <2>2. PlanWrite(client[c].run, client[c].batch) \in Plan
    BY <2>1, PlanWriteType
  <2>3. [client[c] EXCEPT !.pc = "submit", !.batch = NoBatch,
                          !.plan = PlanWrite(client[c].run, client[c].batch)] \in ClientState
    BY <2>2, IdleType DEF TypeOK, ClientState, Label
  <2>4. client' \in [Client -> ClientState]
    BY <1>5, <2>3, GotoType DEF TypeOK, TakeSnapshot, Label
  <2>5. QED
    BY <1>5, <2>4 DEF TypeOK, TakeSnapshot, UnchangedServer, control, tables, jobs
<1>6. CASE SubmitCommit(c)
  <2>1. [client[c] EXCEPT !.pc = "read", !.stage = "submitted", !.plan = NoPlan]
            \in ClientState
    BY IdleType DEF TypeOK, ClientState, Label, Stage
  <2>2. client' \in [Client -> ClientState]
    BY <1>6, <2>1 DEF TypeOK, SubmitCommit
  <2>3. [state |-> "running", plan |-> client[c].plan, ended |-> Null] \in CommitJob
    BY DEF TypeOK, ClientState, CommitJob, JobState, Time
  <2>4. commitJob' \in [Run -> CommitJob]
    BY <1>6, <2>3 DEF TypeOK, SubmitCommit
  <2>5. QED
    BY <1>6, <2>2, <2>4 DEF TypeOK, SubmitCommit, control, tables
<1>7. CASE AwaitCommit(c)
  <2>1. [client[c] EXCEPT !.pc = "finalize", !.ended = commitJob[client[c].run].ended]
            \in ClientState
    <3>1. commitJob[client[c].run].ended \in Time
      BY <1>7 DEF TypeOK, ClientsAreBound, AwaitCommit, CommitJob
    <3>2. QED
      BY <3>1 DEF TypeOK, ClientState, Label
  <2>2. client' \in [Client -> ClientState]
    BY <1>7, <2>1, LeaveType, GotoType DEF TypeOK, AwaitCommit, Label
  <2>3. QED
    BY <1>7, <2>2 DEF TypeOK, AwaitCommit, UnchangedServer, control, tables, jobs
<1>8. CASE RecordFailure(c)
  <2>1. client' \in [Client -> ClientState]
    BY <1>8, LeaveType DEF RecordFailure
  <2>2. runs' \in [Run -> Manifest]
    <3>1. runs[client[c].run] \in Manifest
      BY <1>8 DEF TypeOK, ClientsAreBound, RecordFailure
    <3>2. [runs[client[c].run] EXCEPT !.status = "FAILED", !.accepted = 0] \in Manifest
      BY <3>1 DEF Manifest, Status
    <3>3. QED
      BY <1>8, <3>2 DEF TypeOK, RecordFailure
  <2>3. QED
    BY <1>8, <2>1, <2>2 DEF TypeOK, RecordFailure, control, tables, jobs
<1>9. CASE Finalize(c)
  <2> DEFINE r == client[c].run
             t == client[c].ended
  <2>1. client' \in [Client -> ClientState]
    BY <1>9, LeaveType DEF Finalize
  <2>2. r \in Run /\ t \in Time
    BY <1>9 DEF TypeOK, ClientState, ClientsAreBound, Finalize
  <2>3. CASE FinalizeTransaction(r, t)
    <3>0. runs[r] \in Manifest
      BY <2>2 DEF TypeOK
    <3>1. [runs[r] EXCEPT !.status = "SUCCEEDED", !.knowledge_at = t] \in Manifest
      BY <2>2, <3>0 DEF Manifest, Status
    <3>2. runs' \in [Run -> Manifest]
      BY <2>3, <3>1 DEF TypeOK, FinalizeTransaction
    <3>3. \A x \in ContentRow : [x EXCEPT !.seen = t] \in ContentRow
      BY <2>2 DEF ContentRow
    <3>4. contents' \subseteq ContentRow
      BY <2>3, <3>3 DEF TypeOK, FinalizeTransaction, StampContents
    <3>5. \A x \in TransitionRow : [x EXCEPT !.known = t] \in TransitionRow
      BY <2>2 DEF TransitionRow
    <3>6. transitions' \subseteq TransitionRow
      BY <2>3, <3>5 DEF TypeOK, FinalizeTransaction, StampTransitions
    <3>7. QED
      BY <1>9, <2>1, <2>3, <3>2, <3>4, <3>6
         DEF TypeOK, Finalize, FinalizeTransaction, jobs
  <2>4. CASE UNCHANGED <<control, tables, runs>>
    BY <1>9, <2>1, <2>4 DEF TypeOK, Finalize, control, tables, jobs
  <2>5. QED
    BY <1>9, <2>3, <2>4 DEF Finalize
<1>10. QED
  BY <1>1, <1>2, <1>3, <1>4, <1>5, <1>6, <1>7, <1>8, <1>9 DEF ClientStep

\* Starting ingest() or resume, and abandoning either, keep the type invariant.
LEMMA StartType ==
  ASSUME TypeOK, NEW c \in Client, NEW r \in Run,
         \/ \E q \in Request : StartIngest(c, r, q)
         \/ StartResume(c, r)
         \/ Abandon(c)
  PROVE  TypeOK'
<1>1. ASSUME NEW q \in Request, StartIngest(c, r, q) PROVE TypeOK'
  <2>1. [Idle EXCEPT !.pc = "begin", !.run = r, !.req = q, !.stage = "ingest"] \in ClientState
    BY IdleType DEF ClientState, Label, Stage
  <2>2. client' \in [Client -> ClientState]
    BY <1>1, <2>1 DEF TypeOK, StartIngest
  <2>3. [state |-> "running", request |-> q] \in BeginJob
    BY DEF BeginJob, JobState
  <2>4. beginJob' \in [Run -> BeginJob]
    BY <1>1, <2>3 DEF TypeOK, StartIngest
  <2>5. QED
    BY <1>1, <2>2, <2>4 DEF TypeOK, StartIngest, control, tables
<1>2. CASE StartResume(c, r)
  <2>1. [Idle EXCEPT !.pc = "read", !.run = r] \in ClientState
    BY IdleType DEF ClientState, Label
  <2>2. client' \in [Client -> ClientState]
    BY <1>2, <2>1 DEF TypeOK, StartResume
  <2>3. QED
    BY <1>2, <2>2 DEF TypeOK, StartResume, UnchangedServer, control, tables, jobs
<1>3. CASE Abandon(c)
  BY <1>3, LeaveType DEF TypeOK, Abandon, UnchangedServer, control, tables, jobs
<1>4. QED
  BY <1>1, <1>2, <1>3

\* Every step keeps the type invariant.
LEMMA TypeStep ==
  ASSUME TypeOK, ClientsAreBound, PlansAreWellFormed, [Next]_vars
  PROVE  TypeOK'
<1>1. CASE \E c \in Client, r \in Run, q \in Request : StartIngest(c, r, q)
  BY <1>1, StartType
<1>2. CASE \E c \in Client, r \in Run : StartResume(c, r)
  BY <1>2, StartType
<1>3. CASE \E c \in Client : ClientStep(c)
  BY <1>3, ClientStepType
<1>4. CASE \E c \in Client : Abandon(c)
  BY <1>4, LeaveType DEF TypeOK, Abandon, UnchangedServer, control, tables, jobs
<1>5. CASE \E r \in Run : ServerStep(r) \/ ExpireJob(r)
  BY <1>5, RunBeginType, RunCommitType, JobEndType DEF ServerStep
<1>6. CASE UNCHANGED vars
  BY <1>6 DEF TypeOK, vars
<1>7. QED
  BY <1>1, <1>2, <1>3, <1>4, <1>5, <1>6 DEF Next

\* Every step keeps each busy client bound to a run and, past begin(), to its
\* request.
LEMMA BoundStep ==
  ASSUME TypeOK, ClientsAreBound, [Next]_vars
  PROVE  ClientsAreBound'
<1> SUFFICES ASSUME NEW d \in Client
             PROVE  (/\ client[d].pc # "idle" => client[d].run \in Run
                     /\ client[d].stage # "resume" => client[d].req \in Request
                     /\ client[d].pc \in {"fetch", "snapshot", "submit"} =>
                            client[d].stage # "resume")'
  BY DEF ClientsAreBound
<1>0. /\ client[d].pc # "idle" => client[d].run \in Run
      /\ client[d].stage # "resume" => client[d].req \in Request
      /\ client[d].pc \in {"fetch", "snapshot", "submit"} => client[d].stage # "resume"
      /\ client[d] \in ClientState
  BY DEF TypeOK, ClientsAreBound
<1>2. ASSUME NEW c \in Client, NEW r \in Run, StartResume(c, r)
      PROVE  client'[d] = client[d]
             \/ client'[d] = [Idle EXCEPT !.pc = "read", !.run = r]
  BY <1>2 DEF StartResume, TypeOK
<1>3. ASSUME NEW c \in Client, ClientStep(c) \/ Abandon(c)
      PROVE  \/ client'[d] = client[d]
             \/ client'[d] = Idle
             \/ /\ client'[d].run = client[d].run
                /\ client[d].pc # "idle"
                /\ client'[d].req = client[d].req
                /\ \/ client'[d].stage = client[d].stage
                   \/ client'[d].stage # "resume" /\ client[d].stage # "resume"
                /\ client'[d].pc \in {"fetch", "snapshot", "submit"} =>
                       client'[d].stage # "resume"
  <2>1. CASE c # d
    BY <1>3, <2>1 DEF TypeOK, ClientStep, Abandon, AwaitBegin, ReadManifest, LookupJob,
       Fetch, TakeSnapshot, SubmitCommit, AwaitCommit, RecordFailure, Finalize, Leave, Goto
  <2>2. CASE c = d
    <3>1. CASE Leave(d)
      BY <3>1 DEF Leave, TypeOK
    <3>2. ASSUME NEW l \in Label, Goto(d, l)
          PROVE  /\ client'[d].run = client[d].run
                 /\ client'[d].req = client[d].req
                 /\ client'[d].stage = client[d].stage
                 /\ client'[d].pc = l
      BY <3>2, <1>0 DEF Goto, TypeOK, ClientState
    <3>3. CASE AwaitBegin(d)
      BY <3>1, <3>2, <3>3 DEF AwaitBegin, Label
    <3>4. CASE ReadManifest(d)
      <4>1. CASE Leave(d)
        BY <3>1, <4>1
      <4>2. CASE ~Leave(d)
        <5>1. client' = [client EXCEPT ![d] = [@ EXCEPT
                             !.pc = "lookup", !.seen = runs[client[d].run].status]]
          BY <3>4, <4>2 DEF ReadManifest
        <5>2. /\ client'[d].run = client[d].run
              /\ client'[d].req = client[d].req
              /\ client'[d].stage = client[d].stage
              /\ client'[d].pc = "lookup"
          BY <5>1, <1>0 DEF TypeOK, ClientState
        <5>3. QED
          BY <5>2, <3>4 DEF ReadManifest
      <4>3. QED
        BY <4>1, <4>2
    <3>5. CASE LookupJob(d)
      BY <3>1, <3>2, <3>5 DEF LookupJob, Label
    <3>6. CASE Fetch(d)
      <4>1. CASE Goto(d, "fail")
        BY <3>2, <3>6, <4>1 DEF Fetch, Label
      <4>2. CASE \E S \in SUBSET KeysOf[client[d].req] \ {{}} : \E b \in [S -> Value] :
                    client' = [client EXCEPT ![d] = [@ EXCEPT
                                   !.pc = "read", !.stage = "persist", !.batch = b]]
        <5>1. /\ client'[d].run = client[d].run
              /\ client'[d].req = client[d].req
              /\ client'[d].stage = "persist"
              /\ client'[d].pc = "read"
          BY <4>2, <1>0 DEF TypeOK, ClientState
        <5>2. QED
          BY <5>1, <3>6, <1>0 DEF Fetch
      <4>3. QED
        BY <3>6, <4>1, <4>2 DEF Fetch
    <3>7. CASE TakeSnapshot(d)
      <4>1. CASE Goto(d, "fail")
        BY <3>2, <3>7, <4>1 DEF TakeSnapshot, Label
      <4>2. CASE ~Goto(d, "fail")
        BY <3>7, <4>2, <1>0 DEF TakeSnapshot, TypeOK, ClientState
      <4>3. QED
        BY <4>1, <4>2
    <3>8. CASE SubmitCommit(d)
      BY <3>8, <1>0 DEF SubmitCommit, TypeOK, ClientState
    <3>9. CASE AwaitCommit(d)
      <4>1. CASE Goto(d, "fail")
        BY <3>2, <3>9, <4>1 DEF AwaitCommit, Label
      <4>2. CASE Leave(d)
        BY <3>1, <4>2
      <4>3. CASE client' = [client EXCEPT ![d] = [@ EXCEPT
                     !.pc = "finalize", !.ended = commitJob[client[d].run].ended]]
        <5>1. /\ client'[d].run = client[d].run
              /\ client'[d].req = client[d].req
              /\ client'[d].stage = client[d].stage
              /\ client'[d].pc = "finalize"
          BY <4>3, <1>0 DEF TypeOK, ClientState
        <5>2. QED
          BY <5>1, <3>9 DEF AwaitCommit
      <4>4. QED
        BY <3>9, <4>1, <4>2, <4>3 DEF AwaitCommit
    <3>10. CASE RecordFailure(d) \/ Finalize(d) \/ Abandon(d)
      BY <3>1, <3>10 DEF RecordFailure, Finalize, Abandon
    <3>11. QED
      BY <1>3, <2>2, <3>3, <3>4, <3>5, <3>6, <3>7, <3>8, <3>9, <3>10 DEF ClientStep
  <2>3. QED
    BY <2>1, <2>2
<1>4. ASSUME NEW r \in Run, ServerStep(r) \/ ExpireJob(r)
      PROVE  client' = client
  BY <1>4 DEF ServerStep, RunBegin, RunCommit, EndCommit, ExpireJob
<1>5. CASE UNCHANGED vars
  BY <1>0, <1>5 DEF vars
<1>6. Idle.pc = "idle" /\ Idle.stage = "resume"
  BY DEF Idle
<1>7. ASSUME NEW c \in Client, NEW r \in Run, NEW q \in Request, StartIngest(c, r, q)
      PROVE  /\ client'[d].pc # "idle" => client'[d].run \in Run
             /\ client'[d].stage # "resume" => client'[d].req \in Request
             /\ client'[d].pc \in {"fetch", "snapshot", "submit"} =>
                    client'[d].stage # "resume"
  <2>1. CASE client'[d] = client[d]
    BY <1>0, <2>1
  <2>2. CASE client'[d] = [Idle EXCEPT !.pc = "begin", !.run = r, !.req = q,
                                       !.stage = "ingest"]
    BY <2>2 DEF Idle
  <2>3. \/ client'[d] = client[d]
        \/ client'[d] = [Idle EXCEPT !.pc = "begin", !.run = r, !.req = q,
                                     !.stage = "ingest"]
    BY <1>7 DEF StartIngest, TypeOK
  <2>4. QED
    BY <2>1, <2>2, <2>3
<1>8. ASSUME NEW c \in Client, NEW r \in Run, StartResume(c, r)
      PROVE  /\ client'[d].pc # "idle" => client'[d].run \in Run
             /\ client'[d].stage # "resume" => client'[d].req \in Request
             /\ client'[d].pc \in {"fetch", "snapshot", "submit"} =>
                    client'[d].stage # "resume"
  <2>1. CASE client'[d] = client[d]
    BY <1>0, <2>1
  <2>2. CASE client'[d] = [Idle EXCEPT !.pc = "read", !.run = r]
    <3>1. client'[d].pc = "read" /\ client'[d].run = r /\ client'[d].stage = "resume"
      BY <2>2 DEF Idle
    <3>2. QED
      BY <3>1
  <2>3. QED
    BY <1>2, <1>8, <2>1, <2>2
<1>9. ASSUME NEW c \in Client, ClientStep(c) \/ Abandon(c)
      PROVE  /\ client'[d].pc # "idle" => client'[d].run \in Run
             /\ client'[d].stage # "resume" => client'[d].req \in Request
             /\ client'[d].pc \in {"fetch", "snapshot", "submit"} =>
                    client'[d].stage # "resume"
  BY <1>0, <1>3, <1>6, <1>9
<1>10. QED
  BY <1>0, <1>4, <1>5, <1>7, <1>8, <1>9 DEF Next

----------------------------------------------------------------------------
(* What a step does to the tables: nothing, one commit or one finalization.*)

QuietStep ==
  /\ UNCHANGED <<sequence, active, contents, transitions>>
  /\ \A s \in Run : /\ runs[s].status \notin {"ABSENT", "STARTED"} => runs'[s] = runs[s]
                    /\ Committed(s)' => runs'[s] = runs[s]

CommitStep(r) ==
  /\ commitJob[r].state = "running"
  /\ CommitTransaction(r)

\* The steps by their effect on the shared tables: a commit, a finalization, a
\* change of a run that owns nothing, or no effect.
LEMMA StepKinds ==
  ASSUME TypeOK, ClientsAreBound, [Next]_vars
  PROVE  \/ QuietStep
         \/ \E r \in Run : CommitStep(r)
         \/ \E r \in Run, t \in Time : OwnsGate(r) /\ FinalizeTransaction(r, t)
<1>1. CASE UNCHANGED <<control, tables, runs>>
  BY <1>1 DEF QuietStep, control, tables
<1>2. ASSUME NEW r \in Run, RunBegin(r)
      PROVE  QuietStep
  <2>1. runs[r] \in Manifest
    BY DEF TypeOK
  <2>2. \A s \in Run \ {r} : runs'[s] = runs[s]
    BY <1>2 DEF RunBegin, TypeOK
  <2>3. runs'[r] = runs[r] \/ (runs[r].status = "ABSENT" /\ runs'[r].status = "STARTED")
    <3>1. CASE runs' = runs
      BY <3>1
    <3>2. CASE runs' # runs
      <4>1. runs[r].status = "ABSENT"
        BY <1>2, <3>2 DEF RunBegin
      <4>2. runs'[r] = [runs[r] EXCEPT !.status = "STARTED", !.request = beginJob[r].request]
        BY <1>2, <3>2 DEF RunBegin, TypeOK
      <4>3. runs'[r].status = "STARTED"
        BY <2>1, <4>2 DEF Manifest
      <4>4. QED
        BY <4>1, <4>3
    <3>3. QED
      BY <3>1, <3>2
  <2>4. QED
    BY <1>2, <2>2, <2>3 DEF QuietStep, RunBegin, Committed, control, tables
<1>3. ASSUME NEW c \in Client, RecordFailure(c)
      PROVE  QuietStep
  <2> DEFINE r == client[c].run
  <2>1. r \in Run /\ runs[r] \in Manifest
    BY <1>3 DEF TypeOK, ClientsAreBound, RecordFailure
  <2>2. \A s \in Run \ {r} : runs'[s] = runs[s]
    BY <1>3 DEF RecordFailure, TypeOK
  <2>3. runs'[r] = runs[r] \/ (runs[r].status = "STARTED" /\ runs'[r].status = "FAILED")
    <3>1. CASE FailureGuard(r)
      <4>1. runs'[r] = [runs[r] EXCEPT !.status = "FAILED", !.accepted = 0]
        BY <1>3, <2>1, <3>1 DEF RecordFailure, TypeOK
      <4>2. runs'[r].status = "FAILED"
        BY <2>1, <4>1 DEF Manifest
      <4>3. QED
        BY <3>1, <4>2 DEF FailureGuard
    <3>2. CASE ~FailureGuard(r)
      BY <1>3, <3>2 DEF RecordFailure
    <3>3. QED
      BY <3>1, <3>2
  <2>4. QED
    BY <1>3, <2>2, <2>3 DEF QuietStep, RecordFailure, Committed, control, tables
<1>4. ASSUME NEW c \in Client, Finalize(c)
      PROVE  \/ UNCHANGED <<control, tables, runs>>
             \/ \E r \in Run, t \in Time : OwnsGate(r) /\ FinalizeTransaction(r, t)
  <2>1. client[c].run \in Run /\ client[c].ended \in Time
    BY <1>4 DEF TypeOK, ClientState, ClientsAreBound, Finalize
  <2>2. QED
    BY <1>4, <2>1 DEF Finalize
<1>5. ASSUME NEW r \in Run, RunCommit(r)
      PROVE  UNCHANGED <<control, tables, runs>> \/ CommitStep(r)
  BY <1>5 DEF RunCommit, CommitStep
<1>6. ASSUME NEW c \in Client, ClientStep(c)
      PROVE  \/ UNCHANGED <<control, tables, runs>>
             \/ RecordFailure(c)
             \/ Finalize(c)
  BY <1>6 DEF ClientStep, AwaitBegin, ReadManifest, LookupJob, Fetch, TakeSnapshot,
     SubmitCommit, AwaitCommit, UnchangedServer
<1>7. ASSUME NEW r \in Run, ServerStep(r) \/ ExpireJob(r)
      PROVE  UNCHANGED <<control, tables, runs>> \/ RunBegin(r) \/ RunCommit(r)
  BY <1>7 DEF ServerStep, EndCommit, ExpireJob
<1>8. CASE \/ \E c \in Client, r \in Run, q \in Request : StartIngest(c, r, q)
           \/ \E c \in Client, r \in Run : StartResume(c, r)
           \/ \E c \in Client : Abandon(c)
           \/ UNCHANGED vars
  BY <1>1, <1>8 DEF StartIngest, StartResume, Abandon, UnchangedServer, vars, control, tables
<1>9. QED
  BY <1>1, <1>2, <1>3, <1>4, <1>5, <1>6, <1>7, <1>8 DEF Next

\* What commit_query has done to the manifests and the control row.
LEMMA CommitFacts ==
  ASSUME TypeOK, NEW r \in Run, CommitTransaction(r)
  PROVE  /\ runs'[r].status = "COMMITTED"
         /\ runs'[r].commit_sequence = sequence + 1
         /\ \A s \in Run \ {r} : runs'[s] = runs[s]
<1>1. runs[r] \in Manifest
  BY DEF TypeOK
<1>2. runs'[r] = [runs[r] EXCEPT !.status = "COMMITTED",
                          !.commit_completed = TRUE,
                          !.commit_sequence = commitJob[r].plan.expected + 1,
                          !.batch_hash = commitJob[r].plan.batch,
                          !.accepted = Cardinality(DOMAIN commitJob[r].plan.batch),
                          !.new_contents = Cardinality(commitJob[r].plan.contents),
                          !.new_transitions = Cardinality(commitJob[r].plan.transitions)]
  BY DEF TypeOK, CommitTransaction
<1>3. runs'[r].status = "COMMITTED"
      /\ runs'[r].commit_sequence = commitJob[r].plan.expected + 1
  BY <1>1, <1>2 DEF Manifest
<1>4. QED
  BY <1>3 DEF TypeOK, CommitTransaction, CommitAsserts

\* What finalize_query has done to the manifests and the control row.
LEMMA FinalizeFacts ==
  ASSUME TypeOK, NEW r \in Run, NEW t \in Time, OwnsGate(r), FinalizeTransaction(r, t)
  PROVE  /\ runs'[r].status = "SUCCEEDED"
         /\ runs'[r].knowledge_at = t
         /\ runs'[r].commit_sequence = runs[r].commit_sequence
         /\ \A s \in Run \ {r} : runs'[s] = runs[s]
<1>1. runs[r] \in Manifest
  BY DEF TypeOK
<1>2. runs'[r] = [runs[r] EXCEPT !.status = "SUCCEEDED", !.knowledge_at = t]
  BY DEF TypeOK, FinalizeTransaction
<1>3. QED
  BY <1>1, <1>2 DEF TypeOK, Manifest, FinalizeTransaction

\* Every step keeps active_run_id naming exactly the COMMITTED run.
LEMMA GateStep ==
  ASSUME TypeOK, ClientsAreBound, GateMarksUnfinalizedRun, [Next]_vars
  PROVE  GateMarksUnfinalizedRun'
<1>1. CASE QuietStep
  <2>1. \A s \in Run : runs'[s].status = "COMMITTED" <=> runs[s].status = "COMMITTED"
    BY <1>1 DEF QuietStep, Committed
  <2>2. active' = active
    BY <1>1 DEF QuietStep
  <2>3. QED
    BY <2>1, <2>2 DEF GateMarksUnfinalizedRun
<1>2. ASSUME NEW r \in Run, CommitStep(r)
      PROVE  GateMarksUnfinalizedRun'
  <2>1. active = NoRun /\ active' = r
    BY <1>2 DEF CommitStep, CommitTransaction, CommitAsserts
  <2>2. \A s \in Run : runs[s].status # "COMMITTED"
    BY <2>1, ConstantsAssumption DEF GateMarksUnfinalizedRun
  <2>3. runs'[r].status = "COMMITTED" /\ \A s \in Run \ {r} : runs'[s] = runs[s]
    BY <1>2, CommitFacts DEF CommitStep
  <2>4. QED
    BY <2>1, <2>2, <2>3 DEF GateMarksUnfinalizedRun
<1>3. ASSUME NEW r \in Run, NEW t \in Time, OwnsGate(r), FinalizeTransaction(r, t)
      PROVE  GateMarksUnfinalizedRun'
  <2>1. active = r /\ active' = NoRun
    BY <1>3 DEF OwnsGate, FinalizeTransaction
  <2>2. \A s \in Run \ {r} : runs[s].status # "COMMITTED"
    BY <2>1 DEF GateMarksUnfinalizedRun
  <2>3. runs'[r].status = "SUCCEEDED" /\ \A s \in Run \ {r} : runs'[s] = runs[s]
    BY <1>3, FinalizeFacts
  <2>4. \A s \in Run : runs'[s].status # "COMMITTED"
    BY <2>2, <2>3
  <2>5. QED
    BY <2>1, <2>4, ConstantsAssumption DEF GateMarksUnfinalizedRun
<1>4. QED
  BY <1>1, <1>2, <1>3, StepKinds

\* The rows a commit adds come from its plan, and it removes none.
LEMMA CommitRows ==
  ASSUME PlansAreWellFormed, NEW r \in Run, CommitStep(r)
  PROVE  /\ [run |-> r, plan |-> commitJob[r].plan] \in PlansInFlight
         /\ WellFormedPlan(r, commitJob[r].plan)
         /\ contents \subseteq contents'
         /\ \A x \in contents' : x \in contents \/ x \in commitJob[r].plan.contents
         /\ transitions \subseteq transitions'
         /\ \A t \in transitions' : t \in transitions \/ t \in commitJob[r].plan.transitions
<1>1. [run |-> r, plan |-> commitJob[r].plan] \in PlansInFlight
  BY DEF PlansInFlight, CommitStep
<1>2. WellFormedPlan(r, commitJob[r].plan)
  BY <1>1 DEF PlansAreWellFormed
<1>3. QED
  BY <1>1, <1>2 DEF CommitStep, CommitTransaction, MergeContents, MergeTransitions

Stamp(x, r, t) == IF x.run = r /\ x.known = Null THEN [x EXCEPT !.known = t] ELSE x
StampSeen(x, r, t) == IF x.run = r /\ x.seen = Null THEN [x EXCEPT !.seen = t] ELSE x

\* Finalization maps each row to one that differs in its timestamp at most.
LEMMA FinalizeRows ==
  ASSUME TypeOK, NEW r \in Run, NEW t \in Time, FinalizeTransaction(r, t)
  PROVE  /\ transitions' = {Stamp(x, r, t) : x \in transitions}
         /\ \A x \in transitions :
                LET y == Stamp(x, r, t)
                IN  /\ y.run = x.run /\ y.key = x.key /\ y.value = x.value
                    /\ y.ordinal = x.ordinal /\ y.seq = x.seq
         /\ contents' = {StampSeen(x, r, t) : x \in contents}
         /\ \A x \in contents :
                LET y == StampSeen(x, r, t)
                IN  y.run = x.run /\ y.key = x.key /\ y.value = x.value
<1>1. transitions' = {Stamp(x, r, t) : x \in transitions}
  BY DEF FinalizeTransaction, StampTransitions, Stamp
<1>2. contents' = {StampSeen(x, r, t) : x \in contents}
  BY DEF FinalizeTransaction, StampContents, StampSeen
<1>3. ASSUME NEW x \in transitions
      PROVE  LET y == Stamp(x, r, t)
             IN  /\ y.run = x.run /\ y.key = x.key /\ y.value = x.value
                 /\ y.ordinal = x.ordinal /\ y.seq = x.seq
  <2>1. x \in TransitionRow
    BY DEF TypeOK
  <2>2. QED
    BY <2>1 DEF Stamp, TransitionRow
<1>4. ASSUME NEW x \in contents
      PROVE  LET y == StampSeen(x, r, t)
             IN  y.run = x.run /\ y.key = x.key /\ y.value = x.value
  <2>1. x \in ContentRow
    BY DEF TypeOK
  <2>2. QED
    BY <2>1 DEF StampSeen, ContentRow
<1>5. QED
  BY <1>1, <1>2, <1>3, <1>4

\* Every step keeps all rows owned by runs that committed.
LEMMA OwnershipStep ==
  ASSUME TypeOK, ClientsAreBound, PlansAreWellFormed, OnlyCommittedRunsOwnRows, [Next]_vars
  PROVE  OnlyCommittedRunsOwnRows'
<1>0. /\ \A x \in contents : x.run \in Run
      /\ \A x \in transitions : x.run \in Run
  BY DEF TypeOK, ContentRow, TransitionRow
<1>1. CASE QuietStep
  BY <1>0, <1>1 DEF QuietStep, OnlyCommittedRunsOwnRows, Committed
<1>2. ASSUME NEW r \in Run, CommitStep(r)
      PROVE  OnlyCommittedRunsOwnRows'
  <2>1. Committed(r)' /\ \A s \in Run : Committed(s) => Committed(s)'
    BY <1>2, CommitFacts DEF CommitStep, Committed
  <2>2. WellFormedPlan(r, commitJob[r].plan)
    BY <1>2, CommitRows
  <2>3. \A x \in contents' : Committed(x.run)'
    BY <1>0, <1>2, <2>1, <2>2, CommitRows DEF WellFormedPlan, OnlyCommittedRunsOwnRows
  <2>4. \A x \in transitions' : Committed(x.run)'
    BY <1>0, <1>2, <2>1, <2>2, CommitRows DEF WellFormedPlan, OnlyCommittedRunsOwnRows
  <2>5. QED
    BY <2>3, <2>4 DEF OnlyCommittedRunsOwnRows
<1>3. ASSUME NEW r \in Run, NEW t \in Time, OwnsGate(r), FinalizeTransaction(r, t)
      PROVE  OnlyCommittedRunsOwnRows'
  <2>1. \A s \in Run : Committed(s) => Committed(s)'
    BY <1>3, FinalizeFacts DEF Committed
  <2>2. \A x \in contents' : Committed(x.run)'
    BY <1>0, <1>3, <2>1, FinalizeRows DEF OnlyCommittedRunsOwnRows
  <2>3. \A x \in transitions' : Committed(x.run)'
    BY <1>0, <1>3, <2>1, FinalizeRows DEF OnlyCommittedRunsOwnRows
  <2>4. QED
    BY <2>2, <2>3 DEF OnlyCommittedRunsOwnRows
<1>4. QED
  BY <1>1, <1>2, <1>3, StepKinds

\* A plan in flight after a step was in flight before it, or was just computed
\* from the batch of a client.
LEMMA FlightOrigin ==
  ASSUME TypeOK, ClientsAreBound, [Next]_vars, NEW p \in PlansInFlight'
  PROVE  \/ p \in PlansInFlight
         \/ /\ UNCHANGED <<sequence, active, contents, transitions>>
            /\ active = NoRun
            /\ \E c \in Client : /\ client[c].pc = "snapshot"
                                /\ client[c].run \in Run /\ client[c].batch \in Batch
                                /\ p = [run |-> client[c].run,
                                        plan |-> PlanWrite(client[c].run, client[c].batch)]
<1> DEFINE Held(d) == client'[d].pc = "submit" => /\ client[d].pc = "submit"
                                                  /\ client'[d].run = client[d].run
                                                  /\ client'[d].plan = client[d].plan
           Queued(s) == commitJob'[s].state = "running" => commitJob'[s] = commitJob[s]
<1>1. SUFFICES ASSUME ~(/\ UNCHANGED <<sequence, active, contents, transitions>>
                        /\ active = NoRun
                        /\ \E c \in Client : /\ client[c].pc = "snapshot"
                                            /\ client[c].run \in Run /\ client[c].batch \in Batch
                                            /\ p = [run |-> client[c].run,
                                                    plan |-> PlanWrite(client[c].run, client[c].batch)])
               PROVE  p \in PlansInFlight
  OBVIOUS
<1>2. CASE (\A d \in Client : Held(d)) /\ (\A s \in Run : Queued(s))
  BY <1>2 DEF PlansInFlight
<1>3. Idle.pc = "idle"
  BY DEF Idle
<1>4. ASSUME NEW c \in Client, Leave(c)
      PROVE  \A d \in Client : Held(d)
  BY <1>3, <1>4 DEF Leave, TypeOK
<1>5. ASSUME NEW c \in Client, NEW l \in Label \ {"submit"}, Goto(c, l)
      PROVE  \A d \in Client : Held(d)
  <2>1. client'[c].pc = l
    BY <1>5 DEF Goto, TypeOK, ClientState
  <2>2. QED
    BY <1>5, <2>1 DEF Goto, TypeOK
<1>6. ASSUME NEW c \in Client, NEW v,
             client' = [client EXCEPT ![c] = v], v.pc # "submit"
      PROVE  \A d \in Client : Held(d)
  BY <1>6 DEF TypeOK
<1>7. ASSUME UNCHANGED commitJob
      PROVE  \A s \in Run : Queued(s)
  BY <1>7
<1>8. ASSUME NEW r \in Run, NEW v,
             commitJob' = [commitJob EXCEPT ![r] = v], v.state # "running"
      PROVE  \A s \in Run : Queued(s)
  BY <1>8 DEF TypeOK
<1>9. ASSUME NEW c \in Client, NEW r \in Run, NEW q \in Request, StartIngest(c, r, q)
      PROVE  p \in PlansInFlight
  <2>1. [Idle EXCEPT !.pc = "begin", !.run = r, !.req = q, !.stage = "ingest"].pc # "submit"
    BY DEF Idle
  <2>2. QED
    BY <1>2, <1>6, <1>7, <1>9, <2>1 DEF StartIngest
<1>10. ASSUME NEW c \in Client, NEW r \in Run, StartResume(c, r)
       PROVE  p \in PlansInFlight
  <2>1. [Idle EXCEPT !.pc = "read", !.run = r].pc # "submit"
    BY DEF Idle
  <2>2. QED
    BY <1>2, <1>6, <1>7, <1>10, <2>1 DEF StartResume, UnchangedServer, jobs
<1>11. ASSUME NEW c \in Client, ClientStep(c) \/ Abandon(c)
       PROVE  p \in PlansInFlight
  <2>0. client[c] \in ClientState
    BY DEF TypeOK
  <2>1. CASE AwaitBegin(c)
    BY <1>2, <1>4, <1>5, <1>7, <2>1 DEF AwaitBegin, UnchangedServer, jobs, Label
  <2>2. CASE ReadManifest(c)
    <3>1. [client[c] EXCEPT !.pc = "lookup", !.seen = runs[client[c].run].status].pc # "submit"
      BY <2>0 DEF ClientState
    <3>2. QED
      BY <1>2, <1>4, <1>6, <1>7, <2>2, <3>1 DEF ReadManifest, UnchangedServer, jobs
  <2>3. CASE LookupJob(c)
    BY <1>2, <1>4, <1>5, <1>7, <2>3 DEF LookupJob, UnchangedServer, jobs, Label
  <2>4. CASE Fetch(c)
    <3>1. \A b : [client[c] EXCEPT !.pc = "read", !.stage = "persist", !.batch = b].pc # "submit"
      BY <2>0 DEF ClientState
    <3>2. \A d \in Client : Held(d)
      BY <1>5, <1>6, <2>4, <3>1 DEF Fetch, Label
    <3>3. QED
      BY <1>2, <1>7, <2>4, <3>2 DEF Fetch, UnchangedServer, jobs
  <2>5. CASE TakeSnapshot(c)
    <3>1. UNCHANGED commitJob /\ UNCHANGED <<sequence, active, contents, transitions>>
      BY <2>5 DEF TakeSnapshot, UnchangedServer, control, tables, jobs
    <3>2. CASE Goto(c, "fail")
      BY <1>2, <1>5, <1>7, <3>1, <3>2 DEF Label
    <3>3. CASE ~Goto(c, "fail")
      <4> DEFINE r == client[c].run
                 b == client[c].batch
                 v == [client[c] EXCEPT !.pc = "submit", !.batch = NoBatch,
                                        !.plan = PlanWrite(r, b)]
      <4>1. /\ active = NoRun /\ client' = [client EXCEPT ![c] = v]
            /\ client[c].pc = "snapshot"
        BY <2>5, <3>3 DEF TakeSnapshot
      <4>2. r \in Run /\ b \in Batch
        BY <2>0, <2>5 DEF ClientsAreBound, TakeSnapshot, ClientState
      <4>3. v.run = r /\ v.plan = PlanWrite(r, b)
        BY <2>0 DEF ClientState
      <4>4. client'[c] = v /\ \A d \in Client \ {c} : client'[d] = client[d]
        BY <4>1 DEF TypeOK
      <4>5. CASE p = [run |-> client'[c].run, plan |-> client'[c].plan]
        BY <1>1, <3>1, <4>1, <4>2, <4>3, <4>4, <4>5
      <4>6. CASE p # [run |-> client'[c].run, plan |-> client'[c].plan]
        BY <3>1, <4>4, <4>6 DEF PlansInFlight
      <4>7. QED
        BY <4>5, <4>6
    <3>4. QED
      BY <3>2, <3>3
  <2>6. CASE SubmitCommit(c)
    <3> DEFINE r == client[c].run
               v == [client[c] EXCEPT !.pc = "read", !.stage = "submitted", !.plan = NoPlan]
    <3>1. v.pc # "submit"
      BY <2>0 DEF ClientState
    <3>2. \A d \in Client : Held(d)
      BY <1>6, <2>6, <3>1 DEF SubmitCommit
    <3>3. r \in Run /\ [run |-> r, plan |-> client[c].plan] \in PlansInFlight
      BY <2>6 DEF SubmitCommit, ClientsAreBound, PlansInFlight
    <3>4. \A s \in Run \ {r} : commitJob'[s] = commitJob[s]
      BY <2>6 DEF SubmitCommit, TypeOK
    <3>5. commitJob'[r] = commitJob[r] \/ commitJob'[r].plan = client[c].plan
      BY <2>6, <3>3 DEF SubmitCommit, TypeOK
    <3>6. CASE \E s \in Run : /\ commitJob'[s].state = "running"
                              /\ p = [run |-> s, plan |-> commitJob'[s].plan]
      <4>1. PICK s \in Run : /\ commitJob'[s].state = "running"
                             /\ p = [run |-> s, plan |-> commitJob'[s].plan]
        BY <3>6
      <4>2. CASE commitJob'[s] = commitJob[s]
        BY <4>1, <4>2 DEF PlansInFlight
      <4>3. CASE s = r /\ commitJob'[s].plan = client[c].plan
        BY <3>3, <4>1, <4>3
      <4>4. QED
        BY <3>4, <3>5, <4>2, <4>3
    <3>7. CASE \E d \in Client : /\ client'[d].pc = "submit"
                                 /\ p = [run |-> client'[d].run, plan |-> client'[d].plan]
      BY <3>2, <3>7 DEF PlansInFlight
    <3>8. QED
      BY <3>6, <3>7 DEF PlansInFlight
  <2>7. CASE AwaitCommit(c)
    <3>1. [client[c] EXCEPT !.pc = "finalize",
                            !.ended = commitJob[client[c].run].ended].pc # "submit"
      BY <2>0 DEF ClientState
    <3>2. \A d \in Client : Held(d)
      BY <1>4, <1>5, <1>6, <2>7, <3>1 DEF AwaitCommit, Label
    <3>3. QED
      BY <1>2, <1>7, <2>7, <3>2 DEF AwaitCommit, UnchangedServer, jobs
  <2>8. CASE RecordFailure(c) \/ Finalize(c) \/ Abandon(c)
    BY <1>2, <1>4, <1>7, <2>8 DEF RecordFailure, Finalize, Abandon, UnchangedServer, jobs
  <2>9. QED
    BY <1>11, <2>1, <2>2, <2>3, <2>4, <2>5, <2>6, <2>7, <2>8 DEF ClientStep
<1>12. ASSUME NEW r \in Run, ServerStep(r) \/ ExpireJob(r)
       PROVE  p \in PlansInFlight
  <2>0. commitJob[r] \in CommitJob
    BY DEF TypeOK
  <2>1. client' = client
    BY <1>12 DEF ServerStep, RunBegin, RunCommit, EndCommit, ExpireJob
  <2>2. \A d \in Client : Held(d)
    BY <2>1
  <2>3. CASE UNCHANGED commitJob
    BY <1>2, <1>7, <2>2, <2>3
  <2>4. CASE RunCommit(r)
    <3>1. \A st \in {"committed", "error"} :
             [commitJob[r] EXCEPT !.state = st, !.plan = NoPlan].state # "running"
      BY <2>0 DEF CommitJob
    <3>2. \A s \in Run : Queued(s)
      BY <1>8, <2>4, <3>1 DEF RunCommit
    <3>3. QED
      BY <1>2, <2>2, <3>2
  <2>5. CASE EndCommit(r)
    <3>1. \A st \in {"done", "error"} :
             [commitJob[r] EXCEPT !.state = st, !.ended = clock'].state # "running"
      BY <2>0 DEF CommitJob
    <3>2. \A s \in Run : Queued(s)
      BY <1>8, <2>5, <3>1 DEF EndCommit
    <3>3. QED
      BY <1>2, <2>2, <3>2
  <2>6. CASE ExpireJob(r)
    BY <1>2, <1>7, <1>8, <2>2, <2>6 DEF ExpireJob
  <2>7. QED
    BY <1>12, <2>3, <2>4, <2>5, <2>6 DEF ServerStep, RunBegin
<1>13. CASE UNCHANGED vars
  BY <1>13 DEF vars, PlansInFlight
<1>14. QED
  BY <1>9, <1>10, <1>11, <1>12, <1>13 DEF Next

\* A plan in flight after a step was in flight before it, or was just computed.
LEMMA FlightStep ==
  ASSUME TypeOK, ClientsAreBound, [Next]_vars, NEW p \in PlansInFlight'
  PROVE  \/ p \in PlansInFlight
         \/ /\ UNCHANGED <<sequence, active, contents, transitions>>
            /\ active = NoRun
            /\ \E r \in Run, b \in Batch : p = [run |-> r, plan |-> PlanWrite(r, b)]
BY FlightOrigin

\* Nothing a plan relies on is ever taken back: the sequence only grows, and
\* a stored value stays stored.
LEMMA Monotone ==
  ASSUME TypeOK, ClientsAreBound, PlansAreWellFormed, [Next]_vars
  PROVE  /\ sequence' >= sequence
         /\ \A k, v : Stored(k, v) => Stored(k, v)'
<1>1. CASE QuietStep
  BY <1>1 DEF QuietStep, Stored, TypeOK
<1>2. ASSUME NEW r \in Run, CommitStep(r)
      PROVE  sequence' >= sequence /\ contents \subseteq contents'
  <2>1. sequence' = sequence + 1
    BY <1>2 DEF CommitStep, CommitTransaction
  <2>2. contents \subseteq contents'
    BY <1>2, CommitRows
  <2>3. QED
    BY <2>1, <2>2 DEF TypeOK
<1>3. ASSUME NEW r \in Run, NEW t \in Time, FinalizeTransaction(r, t)
      PROVE  sequence' >= sequence /\ \A k, v : Stored(k, v) => Stored(k, v)'
  <2>1. sequence' >= sequence
    BY <1>3 DEF FinalizeTransaction, TypeOK
  <2>2. \A x \in contents : \E y \in contents' : y.key = x.key /\ y.value = x.value
    BY <1>3, FinalizeRows
  <2>3. QED
    BY <2>1, <2>2 DEF Stored
<1>4. QED
  BY <1>1, <1>2, <1>3, StepKinds DEF Stored

\* A plan computed from the current snapshot is well formed.
LEMMA NewPlanWellFormed ==
  ASSUME TypeOK, NEW r \in Run, NEW b \in Batch
  PROVE  WellFormedPlan(r, PlanWrite(r, b))
<1> DEFINE plan == PlanWrite(r, b)
<1>1. plan.expected <= sequence
  BY DEF PlanWrite, TypeOK
<1>2. IsFiniteSet(plan.contents) /\ IsFiniteSet(plan.transitions)
  BY PlanWriteType
<1>3. \A x \in NewContents(r, b) :
          /\ x.run = r /\ x.seen = Null
          /\ x.key \in DOMAIN b /\ x.value = b[x.key]
          /\ x = [key |-> x.key, value |-> b[x.key], run |-> r, seen |-> Null]
  BY DEF NewContents
<1>4. \A x, y \in NewContents(r, b) : x.key = y.key => x = y
  BY <1>3
<1>5. \A t \in NewTransitions(r, b) :
          /\ t.run = r /\ t.known = Null /\ t.seq = sequence + 1
          /\ t.key \in DOMAIN b /\ t.value = b[t.key]
          /\ t = [run |-> r, key |-> t.key, value |-> b[t.key],
                  ordinal |-> NextOrdinal(t.key), seq |-> sequence + 1, known |-> Null]
  BY DEF NewTransitions
<1>6. \A t, u \in NewTransitions(r, b) : t.key = u.key => t = u
  BY <1>5
<1>7. \A t \in NewTransitions(r, b) :
          \/ Stored(t.key, t.value)
          \/ \E x \in NewContents(r, b) : x.key = t.key /\ x.value = t.value
  <2> SUFFICES ASSUME NEW t \in NewTransitions(r, b), ~Stored(t.key, t.value)
               PROVE  \E x \in NewContents(r, b) : x.key = t.key /\ x.value = t.value
    OBVIOUS
  <2>1. t.key \in DOMAIN b /\ t.value = b[t.key]
    BY <1>5
  <2>2. [key |-> t.key, value |-> b[t.key], run |-> r, seen |-> Null] \in NewContents(r, b)
    BY <2>1 DEF NewContents
  <2>3. QED
    BY <2>1, <2>2
<1>8. /\ plan.contents = NewContents(r, b)
      /\ plan.transitions = NewTransitions(r, b)
      /\ plan.expected = sequence
  BY DEF PlanWrite
<1>9. QED
  BY <1>1, <1>2, <1>3, <1>4, <1>5, <1>6, <1>7, <1>8 DEF WellFormedPlan

\* A plan computed while no run is active is fresh.
LEMMA NewPlanFresh ==
  ASSUME NEW r \in Run, NEW b \in Batch, active = NoRun
  PROVE  FreshPlan(r, PlanWrite(r, b))
<1>1. PlanWrite(r, b).batch = b
  BY DEF PlanWrite
<1>2. QED
  BY <1>1 DEF FreshPlan

\* The plan depends on the sequence and the tables only.
LEMMA PlanStable ==
  ASSUME UNCHANGED <<sequence, contents, transitions>>, NEW r, NEW b
  PROVE  PlanWrite(r, b)' = PlanWrite(r, b)
BY DEF PlanWrite, NewContents, NewTransitions, Stored, Changed, NextOrdinal, LatestRows

\* A plan in flight belongs to a run and has the type of plans.
LEMMA FlightType ==
  ASSUME TypeOK, ClientsAreBound, NEW p \in PlansInFlight
  PROVE  p.run \in Run /\ p.plan \in Plan /\ p.plan.expected \in Nat
<1>1. p.run \in Run /\ p.plan \in Plan
  BY DEF TypeOK, ClientsAreBound, PlansInFlight, ClientState, CommitJob
<1>2. QED
  BY <1>1 DEF Plan

\* A well-formed plan stays so as sequence and stored values grow.
LEMMA WellFormedKept ==
  ASSUME TypeOK, TypeOK', NEW r, NEW plan, plan.expected \in Nat, WellFormedPlan(r, plan),
         sequence' >= sequence, \A k, v : Stored(k, v) => Stored(k, v)'
  PROVE  WellFormedPlan(r, plan)'
<1>1. plan.expected <= sequence'
  BY DEF WellFormedPlan, TypeOK
<1>2. \A t \in plan.transitions :
          \/ Stored(t.key, t.value)'
          \/ \E x \in plan.contents : x.key = t.key /\ x.value = t.value
  BY DEF WellFormedPlan
<1>3. QED
  BY <1>1, <1>2 DEF WellFormedPlan

\* Every step keeps all plans in flight well formed.
LEMMA WellFormedStep ==
  ASSUME TypeOK, ClientsAreBound, PlansAreWellFormed, [Next]_vars
  PROVE  PlansAreWellFormed'
<1> SUFFICES ASSUME NEW p \in PlansInFlight'
             PROVE  WellFormedPlan(p.run, p.plan)'
  BY DEF PlansAreWellFormed
<1>0. TypeOK' /\ sequence' >= sequence /\ \A k, v : Stored(k, v) => Stored(k, v)'
  BY TypeStep, Monotone
<1>1. CASE p \in PlansInFlight
  <2>1. WellFormedPlan(p.run, p.plan) /\ p.plan.expected \in Nat
    BY <1>1, FlightType DEF PlansAreWellFormed
  <2>2. QED
    BY <1>0, <2>1, WellFormedKept
<1>2. CASE \E r \in Run, b \in Batch : p = [run |-> r, plan |-> PlanWrite(r, b)]
  <2>1. PICK r \in Run, b \in Batch : p = [run |-> r, plan |-> PlanWrite(r, b)]
    BY <1>2
  <2>2. p.run = r /\ p.plan = PlanWrite(r, b)
    BY <2>1
  <2>3. WellFormedPlan(p.run, p.plan)
    BY <2>2, NewPlanWellFormed
  <2>4. p.plan.expected \in Nat
    BY <2>2 DEF PlanWrite, TypeOK
  <2>5. QED
    BY <1>0, <2>3, <2>4, WellFormedKept
<1>3. QED
  BY <1>1, <1>2, FlightStep

\* While no run holds the gate, only a commit changes the tables, and a commit
\* moves the sequence on.
LEMMA FreeGateStep ==
  ASSUME TypeOK, ClientsAreBound, [Next]_vars, active = NoRun, sequence' = sequence
  PROVE  UNCHANGED <<active, contents, transitions>>
<1>1. ASSUME NEW r \in Run, CommitStep(r)
      PROVE  FALSE
  BY <1>1 DEF CommitStep, CommitTransaction, TypeOK
<1>2. ASSUME NEW r \in Run, OwnsGate(r)
      PROVE  FALSE
  BY <1>2, ConstantsAssumption DEF OwnsGate
<1>3. QED
  BY <1>1, <1>2, StepKinds DEF QuietStep

\* Every step keeps all plans in flight fresh, or stale and so refused.
LEMMA FreshStep ==
  ASSUME TypeOK, ClientsAreBound, PlansAreWellFormed, PlansAreFreshOrRefused, [Next]_vars
  PROVE  PlansAreFreshOrRefused'
<1> SUFFICES ASSUME NEW p \in PlansInFlight'
             PROVE  FreshPlan(p.run, p.plan)'
  BY DEF PlansAreFreshOrRefused
<1>1. CASE p \in PlansInFlight
  <2>1. FreshPlan(p.run, p.plan) /\ p.plan.expected <= sequence /\ p.plan.expected \in Nat
    BY <1>1, FlightType DEF PlansAreFreshOrRefused, PlansAreWellFormed, WellFormedPlan
  <2>2. sequence' >= sequence /\ sequence' \in Nat /\ sequence \in Nat
    BY TypeStep, Monotone DEF TypeOK
  <2>3. CASE p.plan.expected # sequence'
    BY <2>3 DEF FreshPlan
  <2>4. CASE p.plan.expected = sequence'
    <3>1. p.plan.expected = sequence /\ sequence' = sequence
      BY <2>1, <2>2, <2>4
    <3>2. active = NoRun
      BY <2>1, <3>1 DEF FreshPlan
    <3>3. UNCHANGED <<active, contents, transitions>>
      BY <3>1, <3>2, FreeGateStep
    <3>4. p.plan = PlanWrite(p.run, p.plan.batch)'
      BY <2>1, <3>1, <3>3, PlanStable DEF FreshPlan
    <3>5. QED
      BY <3>2, <3>3, <3>4 DEF FreshPlan
  <2>5. QED
    BY <2>3, <2>4
<1>2. CASE /\ UNCHANGED <<sequence, active, contents, transitions>>
           /\ active = NoRun
           /\ \E r \in Run, b \in Batch : p = [run |-> r, plan |-> PlanWrite(r, b)]
  <2>1. PICK r \in Run, b \in Batch : p = [run |-> r, plan |-> PlanWrite(r, b)]
    BY <1>2
  <2>2. p.run = r /\ p.plan = PlanWrite(r, b) /\ p.plan.batch = b
    BY <2>1 DEF PlanWrite
  <2>3. PlanWrite(r, b)' = PlanWrite(r, b)
    BY <1>2, PlanStable
  <2>4. QED
    BY <1>2, <2>2, <2>3 DEF FreshPlan
<1>3. QED
  BY <1>1, <1>2, FlightStep

\* What plan_write's ordinal means: it exceeds every ordinal of the key and
\* follows that of a latest row, if there is one.
LEMMA OrdinalFacts ==
  ASSUME TypeOK, HistoryHasLatest, NEW k
  PROVE  /\ NextOrdinal(k) \in Nat
         /\ \A u \in transitions : u.key = k => u.ordinal < NextOrdinal(k)
         /\ \/ NextOrdinal(k) = 1
            \/ \E w \in LatestRows(k) : NextOrdinal(k) = w.ordinal + 1
<1>0. \A u \in transitions : u.ordinal \in Nat
  BY DEF TypeOK, TransitionRow
<1>1. CASE LatestRows(k) = {}
  <2>1. \A u \in transitions : u.key # k
    BY <1>1 DEF HistoryHasLatest
  <2>2. NextOrdinal(k) = 1
    BY <1>1 DEF NextOrdinal
  <2>3. QED
    BY <2>1, <2>2
<1>2. CASE LatestRows(k) # {}
  <2>1. PICK w \in LatestRows(k) : NextOrdinal(k) = w.ordinal + 1
    BY <1>2 DEF NextOrdinal
  <2>2. w \in transitions /\ \A u \in transitions : u.key = k => u.ordinal <= w.ordinal
    BY <2>1 DEF LatestRows
  <2>3. QED
    BY <1>0, <2>1, <2>2
<1>3. QED
  BY <1>1, <1>2

\* The rows a commit adds continue the chains: each is the next state of its
\* key, because a plan whose sequence is current is fresh.
LEMMA CommittedPlan ==
  ASSUME TypeOK, PlansAreWellFormed, PlansAreFreshOrRefused, HistoryHasLatest,
         NEW r \in Run, CommitStep(r),
         NEW t \in transitions', t \notin transitions
  PROVE  /\ t.seq = sequence + 1
         /\ t.ordinal = NextOrdinal(t.key)
         /\ Changed(t.key, t.value)
         /\ \A u \in transitions' : u.key = t.key => u = t \/ u.ordinal < t.ordinal
         /\ \A u \in transitions' : u.key = t.key /\ u \notin transitions => u = t
<1> DEFINE plan == commitJob[r].plan
<1>1. /\ [run |-> r, plan |-> plan] \in PlansInFlight
      /\ WellFormedPlan(r, plan)
      /\ \A u \in transitions' : u \in transitions \/ u \in plan.transitions
  BY CommitRows
<1>2. plan.expected = sequence
  BY DEF CommitStep, CommitTransaction, CommitAsserts
<1>3. plan.transitions = NewTransitions(r, plan.batch)
  <2>1. plan = PlanWrite(r, plan.batch)
    BY <1>1, <1>2 DEF PlansAreFreshOrRefused, FreshPlan
  <2>2. PlanWrite(r, plan.batch).transitions = NewTransitions(r, plan.batch)
    BY DEF PlanWrite
  <2>3. QED
    BY <2>1, <2>2
<1>4. /\ t \in plan.transitions /\ t.seq = sequence + 1
      /\ t.ordinal = NextOrdinal(t.key) /\ Changed(t.key, t.value)
  BY <1>1, <1>3 DEF NewTransitions
<1>5. \A u \in transitions' : u.key = t.key /\ u \notin transitions => u = t
  BY <1>1, <1>4 DEF WellFormedPlan
<1>6. \A u \in transitions : u.key = t.key => u.ordinal < t.ordinal
  BY <1>4, OrdinalFacts
<1>7. QED
  BY <1>4, <1>5, <1>6

\* Every step keeps a transition of highest ordinal for each key that has one.
LEMMA LatestStep ==
  ASSUME TypeOK, ClientsAreBound, PlansAreWellFormed, PlansAreFreshOrRefused,
         HistoryHasLatest, [Next]_vars
  PROVE  HistoryHasLatest'
<1>0. TypeOK'
  BY TypeStep
<1>1. CASE QuietStep
  BY <1>1 DEF QuietStep, HistoryHasLatest, LatestRows
<1>2. ASSUME NEW r \in Run, CommitStep(r), NEW t \in transitions'
      PROVE  (t.seq <= sequence /\ LatestRows(t.key) # {})'
  <2>0. sequence' = sequence + 1 /\ sequence \in Nat /\ t.seq \in Nat
    BY <1>0, <1>2 DEF CommitStep, CommitTransaction, TypeOK, TransitionRow
  <2>1. \A u \in transitions' : u.ordinal \in Nat
    BY <1>0 DEF TypeOK, TransitionRow
  <2>2. t.seq <= sequence'
    <3>1. CASE t \in transitions
      BY <2>0, <3>1 DEF HistoryHasLatest
    <3>2. CASE t \notin transitions
      BY <1>2, <2>0, <3>2, CommittedPlan
    <3>3. QED
      BY <3>1, <3>2
  <2>3. CASE \E n \in transitions' : n.key = t.key /\ n \notin transitions
    <3>1. PICK n \in transitions' : n.key = t.key /\ n \notin transitions
      BY <2>3
    <3>2. \A u \in transitions' : u.key = n.key => u = n \/ u.ordinal < n.ordinal
      BY <1>2, <3>1, CommittedPlan
    <3>3. n \in LatestRows(t.key)'
      BY <2>1, <3>1, <3>2 DEF LatestRows
    <3>4. QED
      BY <2>2, <3>3
  <2>4. CASE \A n \in transitions' : n.key = t.key => n \in transitions
    <3>1. PICK w \in LatestRows(t.key) : TRUE
      BY <2>4 DEF HistoryHasLatest
    <3>2. w \in transitions' /\ w.key = t.key
      BY <1>2, <3>1, CommitRows DEF LatestRows
    <3>3. w \in LatestRows(t.key)'
      BY <2>4, <3>1, <3>2 DEF LatestRows
    <3>4. QED
      BY <2>2, <3>3
  <2>5. QED
    BY <2>3, <2>4
<1>3. ASSUME NEW r \in Run, NEW s \in Time, FinalizeTransaction(r, s), NEW t \in transitions'
      PROVE  (t.seq <= sequence /\ LatestRows(t.key) # {})'
  <2>0. sequence' = sequence
    BY <1>3 DEF FinalizeTransaction
  <2>1. transitions' = {Stamp(x, r, s) : x \in transitions}
    BY <1>3, FinalizeRows
  <2>2. \A x \in transitions : /\ Stamp(x, r, s).key = x.key
                               /\ Stamp(x, r, s).ordinal = x.ordinal
                               /\ Stamp(x, r, s).seq = x.seq
    BY <1>3, FinalizeRows
  <2>3. PICK x \in transitions : t = Stamp(x, r, s)
    BY <2>1
  <2>4. t.seq = x.seq /\ t.key = x.key
    BY <2>2, <2>3
  <2>5. PICK w \in LatestRows(x.key) : TRUE
    BY DEF HistoryHasLatest
  <2>6. /\ w \in transitions /\ w.key = x.key
        /\ \A u \in transitions : u.key = x.key => u.ordinal <= w.ordinal
    BY <2>5 DEF LatestRows
  <2>7. Stamp(w, r, s) \in LatestRows(t.key)'
    BY <2>1, <2>2, <2>4, <2>6 DEF LatestRows
  <2>8. QED
    BY <2>0, <2>4, <2>7 DEF HistoryHasLatest
<1>4. QED
  BY <1>1, <1>2, <1>3, StepKinds DEF HistoryHasLatest

\* Every step keeps the transitions of each key a gapless chain of changes.
LEMMA ChainStep ==
  ASSUME TypeOK, ClientsAreBound, PlansAreWellFormed, PlansAreFreshOrRefused,
         HistoryHasLatest, HistoryIsAChain, [Next]_vars
  PROVE  HistoryIsAChain'
<1> DEFINE Follows(t, u) == /\ u.key = t.key
                            /\ u.ordinal + 1 = t.ordinal
                            /\ u.seq < t.seq
                            /\ u.value # t.value
<1>0. TypeOK'
  BY TypeStep
<1>1. CASE QuietStep
  BY <1>1 DEF QuietStep, HistoryIsAChain
<1>2. ASSUME NEW r \in Run, CommitStep(r)
      PROVE  HistoryIsAChain'
  <2>0. \A u \in transitions' : u.ordinal \in Nat /\ u.seq \in Nat
    BY <1>0 DEF TypeOK, TransitionRow
  <2>1. ASSUME NEW t \in transitions', NEW u \in transitions',
               t.key = u.key, t.ordinal = u.ordinal
        PROVE  t = u
    <3>1. CASE t \notin transitions
      <4>1. u = t \/ u.ordinal < t.ordinal
        BY <1>2, <2>1, <3>1, CommittedPlan
      <4>2. QED
        BY <2>0, <2>1, <4>1
    <3>2. CASE u \notin transitions
      <4>1. t = u \/ t.ordinal < u.ordinal
        BY <1>2, <2>1, <3>2, CommittedPlan
      <4>2. QED
        BY <2>0, <2>1, <4>1
    <3>3. CASE t \in transitions /\ u \in transitions
      BY <2>1, <3>3 DEF HistoryIsAChain
    <3>4. QED
      BY <3>1, <3>2, <3>3
  <2>2. ASSUME NEW t \in transitions'
        PROVE  t.ordinal = 1 \/ \E u \in transitions' : Follows(t, u)
    <3>0. transitions \subseteq transitions'
      BY <1>2, CommitRows
    <3>1. CASE t \in transitions
      BY <3>0, <3>1 DEF HistoryIsAChain
    <3>2. CASE t \notin transitions
      <4>1. t.ordinal = NextOrdinal(t.key) /\ t.seq = sequence + 1 /\ Changed(t.key, t.value)
        BY <1>2, <3>2, CommittedPlan
      <4>2. CASE t.ordinal # 1
        <5>1. PICK w \in LatestRows(t.key) : t.ordinal = w.ordinal + 1
          BY <4>1, <4>2, OrdinalFacts
        <5>2. w \in transitions /\ w.key = t.key /\ w.value # t.value
          BY <4>1, <5>1 DEF LatestRows, Changed
        <5>3. w.seq < t.seq
          BY <2>0, <3>0, <4>1, <5>2 DEF HistoryHasLatest, TypeOK
        <5>4. QED
          BY <3>0, <5>1, <5>2, <5>3
      <4>3. QED
        BY <4>2
    <3>3. QED
      BY <3>1, <3>2
  <2>3. QED
    BY <2>1, <2>2 DEF HistoryIsAChain
<1>3. ASSUME NEW r \in Run, NEW s \in Time, FinalizeTransaction(r, s)
      PROVE  HistoryIsAChain'
  <2>1. transitions' = {Stamp(x, r, s) : x \in transitions}
    BY <1>3, FinalizeRows
  <2>2. \A x \in transitions : /\ Stamp(x, r, s).key = x.key
                               /\ Stamp(x, r, s).value = x.value
                               /\ Stamp(x, r, s).ordinal = x.ordinal
                               /\ Stamp(x, r, s).seq = x.seq
    BY <1>3, FinalizeRows
  <2>3. ASSUME NEW t \in transitions', NEW u \in transitions',
               t.key = u.key, t.ordinal = u.ordinal
        PROVE  t = u
    <3>1. PICK x \in transitions : t = Stamp(x, r, s)
      BY <2>1
    <3>2. PICK y \in transitions : u = Stamp(y, r, s)
      BY <2>1
    <3>3. x.key = y.key /\ x.ordinal = y.ordinal
      BY <2>2, <2>3, <3>1, <3>2
    <3>4. x = y
      BY <3>3 DEF HistoryIsAChain
    <3>5. QED
      BY <3>1, <3>2, <3>4
  <2>4. ASSUME NEW t \in transitions'
        PROVE  t.ordinal = 1 \/ \E u \in transitions' : Follows(t, u)
    <3>1. PICK x \in transitions : t = Stamp(x, r, s)
      BY <2>1
    <3>2. t.key = x.key /\ t.ordinal = x.ordinal /\ t.seq = x.seq /\ t.value = x.value
      BY <2>2, <3>1
    <3>3. CASE x.ordinal # 1
      <4>1. PICK y \in transitions : Follows(x, y)
        BY <3>3 DEF HistoryIsAChain
      <4>2. Follows(t, Stamp(y, r, s)) /\ Stamp(y, r, s) \in transitions'
        BY <2>1, <2>2, <3>2, <4>1
      <4>3. QED
        BY <4>2
    <3>4. QED
      BY <3>2, <3>3
  <2>5. QED
    BY <2>3, <2>4 DEF HistoryIsAChain
<1>4. QED
  BY <1>1, <1>2, <1>3, StepKinds

\* The bootstrapped, empty warehouse satisfies the invariant.
LEMMA InitLemma == Init => Inv
<1> SUFFICES ASSUME Init PROVE Inv
  OBVIOUS
<1>1. TypeOK
  <2>1. runs \in [Run -> Manifest] /\ client \in [Client -> ClientState]
    BY IdleType DEF Init
  <2>2. beginJob \in [Run -> BeginJob]
    BY DEF Init, BeginJob, JobState
  <2>3. commitJob \in [Run -> CommitJob]
    BY IdleType DEF Init, CommitJob, JobState, Time
  <2>4. QED
    BY <2>1, <2>2, <2>3 DEF Init, TypeOK
<1>2. PlansInFlight = {}
  BY DEF Init, Idle, PlansInFlight
<1>3. ClientsAreBound
  BY DEF Init, Idle, ClientsAreBound
<1>4. GateMarksUnfinalizedRun
  BY ConstantsAssumption DEF Init, NoManifest, GateMarksUnfinalizedRun
<1>5. OnlyCommittedRunsOwnRows /\ HistoryHasLatest /\ HistoryIsAChain
  BY DEF Init, OnlyCommittedRunsOwnRows, HistoryHasLatest, HistoryIsAChain
<1>6. QED
  BY <1>1, <1>2, <1>3, <1>4, <1>5
     DEF Inv, ProtocolInvariant, PlansAreWellFormed, PlansAreFreshOrRefused

\* Every step of the protocol keeps the invariant.
LEMMA InvStep == Inv /\ [Next]_vars => Inv'
BY TypeStep, BoundStep, GateStep, OwnershipStep, WellFormedStep, FreshStep, LatestStep,
   ChainStep DEF Inv, ProtocolInvariant

\* The inductive invariant holds throughout.
LEMMA InvHolds == Spec => []Inv
BY InitLemma, InvStep, PTL DEF Spec

\* The tables, the job store and the invocations keep their types, for any
\* number of runs, clients, requests, keys and values: plan_write's ordinals
\* stay numbers, and no row is written outside its table's schema.
THEOREM TypeCorrect == Spec => []TypeOK
<1>1. Inv => TypeOK
  BY DEF Inv
<1>2. QED
  BY <1>1, InvHolds, PTL

\* The protocol invariant that race checks is inductive.
THEOREM ProtocolCorrect == Spec => []ProtocolInvariant
<1>1. Inv => ProtocolInvariant
  BY DEF Inv
<1>2. QED
  BY <1>1, InvHolds, PTL

\* The control row names exactly the run whose commit is not finalized.
THEOREM GateCorrect == Spec => []GateMarksUnfinalizedRun
<1>1. Inv => GateMarksUnfinalizedRun
  BY DEF Inv, ProtocolInvariant
<1>2. QED
  BY <1>1, InvHolds, PTL

\* No row belongs to a run that is FAILED or never committed.
THEOREM OwnershipCorrect == Spec => []OnlyCommittedRunsOwnRows
<1>1. Inv => OnlyCommittedRunsOwnRows
  BY DEF Inv, ProtocolInvariant
<1>2. QED
  BY <1>1, InvHolds, PTL

\* A plan that commit_query's assertions would still accept is not stale.
THEOREM PlansCorrect == Spec => []PlansAreFreshOrRefused
<1>1. Inv => PlansAreFreshOrRefused
  BY DEF Inv, ProtocolInvariant
<1>2. QED
  BY <1>1, InvHolds, PTL

\* Each key's transitions form one gapless chain of changes in commit order.
THEOREM ChainCorrect == Spec => []HistoryIsAChain
<1>1. Inv => HistoryIsAChain
  BY DEF Inv, ProtocolInvariant
<1>2. QED
  BY <1>1, InvHolds, PTL

\* What HistoryIsAppendOnly says of one step.
KeepsHistory ==
  /\ \A r \in Run : runs[r].status \in {"SUCCEEDED", "FAILED"} => runs'[r] = runs[r]
  /\ \A x \in contents : x.seen # Null => x \in contents'
  /\ \A t \in transitions : t.known # Null => t \in transitions'

\* No step changes a terminal manifest, nor removes or rewrites a stamped row.
LEMMA KeepsHistoryStep ==
  ASSUME Inv, [Next]_vars
  PROVE  KeepsHistory
<1>0. TypeOK /\ ClientsAreBound /\ PlansAreWellFormed
  BY DEF Inv, ProtocolInvariant
<1>1. CASE QuietStep
  BY <1>1 DEF QuietStep, KeepsHistory
<1>2. ASSUME NEW r \in Run, CommitStep(r)
      PROVE  KeepsHistory
  <2>1. runs[r].status = "STARTED"
    BY <1>2 DEF CommitStep, CommitTransaction, CommitAsserts
  <2>2. \A s \in Run \ {r} : runs'[s] = runs[s]
    BY <1>0, <1>2, CommitFacts DEF CommitStep
  <2>3. contents \subseteq contents' /\ transitions \subseteq transitions'
    BY <1>0, <1>2, CommitRows
  <2>4. QED
    BY <2>1, <2>2, <2>3 DEF KeepsHistory
<1>3. ASSUME NEW r \in Run, NEW t \in Time, OwnsGate(r), FinalizeTransaction(r, t)
      PROVE  KeepsHistory
  <2>1. runs[r].status = "COMMITTED"
    BY <1>3 DEF OwnsGate
  <2>2. \A s \in Run \ {r} : runs'[s] = runs[s]
    BY <1>0, <1>3, FinalizeFacts
  <2>3. \A x \in contents : x.seen # Null => x \in contents'
    BY <1>0, <1>3, FinalizeRows DEF StampSeen
  <2>4. \A x \in transitions : x.known # Null => x \in transitions'
    BY <1>0, <1>3, FinalizeRows DEF Stamp
  <2>5. QED
    BY <2>1, <2>2, <2>3, <2>4 DEF KeepsHistory
<1>4. QED
  BY <1>0, <1>1, <1>2, <1>3, StepKinds

\* Accepted history is append-only: no replay, resume, late job or late
\* failure changes a terminal manifest or touches a stamped row.
THEOREM AppendOnly == Spec => HistoryIsAppendOnly
<1>1. Inv /\ [Next]_vars => [KeepsHistory]_vars
  BY KeepsHistoryStep
<1>2. Spec => [][KeepsHistory]_vars
  BY <1>1, InvHolds, PTL DEF Spec
<1>3. QED
  BY <1>2 DEF HistoryIsAppendOnly, KeepsHistory
=============================================================================
