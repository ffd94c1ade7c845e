----------------------------- MODULE Warehouse -----------------------------
(***************************************************************************)
(* The raw warehouse commit protocol: BigQueryWarehouse (begin, reconcile, *)
(* persist, fail), the SQL scripts it submits, the pure write planner and  *)
(* the ingest() coordinator and `warehouse resume` command that call it.   *)
(*                                                                         *)
(* A client stands for one invocation of the CLI or of the workflow task,  *)
(* together with whatever request of its is in flight: a request that the  *)
(* caller gave up on but that lands later is a slow client, a caller that  *)
(* died is a client that took Abandon.                                     *)
(*                                                                         *)
(* External assumption (BigQuery): every script below begins by updating   *)
(* the single control row inside its transaction, so transactions conflict *)
(* pairwise and each takes effect atomically or aborts.                    *)
(***************************************************************************)
EXTENDS RevisionTables

CONSTANTS
    Client,   \* concurrent invocations
    Request,  \* bounded requests: one product, one Pacific day, one hub
    KeysOf,   \* KeysOf[q]: the keys that lie in request q's hub and day
    NoRun,    \* NULL where a run ID is expected
    Faults    \* the server faults of this instance, a subset of Fault

\* What the service may do to a job beyond running it: abort its transaction,
\* report an error although its transaction is durable, forget its metadata.
Fault == {"abort", "late_error", "expire"}

ASSUME ConstantsAssumption ==
    /\ NoRun \notin Run
    /\ KeysOf \in [Request -> SUBSET Key]
    /\ \A q \in Request : IsFiniteSet(KeysOf[q])  \* at most MAX_BATCH_ROWS
    /\ Faults \subseteq Fault

VARIABLES
    active,       \* warehouse_control.active_run_id
    runs,         \* ingestion_runs, one row per run ID (ABSENT: no row)
    beginJob,     \* the job named by each run's stable begin ID
    commitJob,    \* the job named by each run's stable commit ID
    clock,        \* the server clock that stamps job ends
    client        \* the invocations

vars == <<sequence, active, runs, contents, transitions,
          beginJob, commitJob, clock, client>>

tables == <<contents, transitions>>
control == <<sequence, active>>
jobs == <<beginJob, commitJob, clock>>

Status == {"ABSENT", "STARTED", "COMMITTED", "SUCCEEDED", "FAILED"}
JobState == {"none", "running", "committed", "done", "error"}
Stage == {"ingest", "persist", "submitted", "resume"}
Label == {"idle", "begin", "read", "lookup", "wait", "fetch", "snapshot",
          "submit", "fail", "finalize"}

Manifest == [status : Status, request : Request \cup {Null},
             commit_completed : BOOLEAN, commit_sequence : Nat,
             knowledge_at : Time, batch_hash : Batch, accepted : Nat,
             new_contents : Nat, new_transitions : Nat]
BeginJob == [state : JobState, request : Request \cup {Null}]
CommitJob == [state : JobState, plan : Plan, ended : Time]
ClientState == [pc : Label, run : Run \cup {NoRun}, req : Request \cup {Null},
                stage : Stage, seen : Status, batch : Batch, plan : Plan,
                ended : Time]

NoPlan == [expected |-> 0, contents |-> {}, transitions |-> {}, batch |-> NoBatch]
NoManifest == [status |-> "ABSENT", request |-> Null,
               commit_completed |-> FALSE, commit_sequence |-> 0,
               knowledge_at |-> Null, batch_hash |-> NoBatch, accepted |-> 0,
               new_contents |-> 0, new_transitions |-> 0]
Idle == [pc |-> "idle", run |-> NoRun, req |-> Null, stage |-> "resume",
         seen |-> "ABSENT", batch |-> NoBatch, plan |-> NoPlan, ended |-> Null]

TypeOK ==
    /\ sequence \in Nat
    /\ active \in Run \cup {NoRun}
    /\ runs \in [Run -> Manifest]
    /\ contents \subseteq ContentRow
    /\ transitions \subseteq TransitionRow
    /\ beginJob \in [Run -> BeginJob]
    /\ commitJob \in [Run -> CommitJob]
    /\ clock \in Nat
    /\ client \in [Client -> ClientState]

\* bootstrap() has seeded the control row with sequence 0 and no active run.
Init ==
    /\ sequence = 0
    /\ active = NoRun
    /\ runs = [r \in Run |-> NoManifest]
    /\ contents = {}
    /\ transitions = {}
    /\ beginJob = [r \in Run |-> [state |-> "none", request |-> Null]]
    /\ commitJob = [r \in Run |-> [state |-> "none", plan |-> NoPlan,
                                   ended |-> Null]]
    /\ clock = 0
    /\ client = [c \in Client |-> Idle]

----------------------------------------------------------------------------
(* The server: jobs run independently of the clients that submitted them.  *)

\* Mutant: the insert becomes an upsert.
RunBeginUpsert(r) ==
    /\ beginJob[r].state = "running"
    /\ runs' = [runs EXCEPT ![r].status = "STARTED", ![r].request = beginJob[r].request]
    /\ beginJob' = [beginJob EXCEPT ![r] = [state |-> "done", request |-> Null]]
    /\ UNCHANGED <<control, tables, commitJob, clock, client>>

\* The begin script inserts the manifest of the request the job was submitted
\* with, or fails its assertion; the job ID is stable, so its outcome is too.
RunBegin(r) ==
    /\ beginJob[r].state = "running"
    /\ \/ /\ runs[r].status = "ABSENT" \/ runs[r].request = beginJob[r].request
          /\ runs' = IF runs[r].status = "ABSENT"
                     THEN [runs EXCEPT ![r] = [@ EXCEPT
                              !.status = "STARTED", !.request = beginJob[r].request]]
                     ELSE runs
          /\ beginJob' = [beginJob EXCEPT ![r] = [state |-> "done", request |-> Null]]
       \/ /\ \/ "abort" \in Faults
             \/ runs[r].status # "ABSENT" /\ runs[r].request # beginJob[r].request
          /\ beginJob' = [beginJob EXCEPT ![r] = [state |-> "error", request |-> Null]]
          /\ UNCHANGED runs
    /\ UNCHANGED <<control, tables, commitJob, clock, client>>

\* Mutants: one of the assertions is dropped.
CommitAssertsNoSequence(r) == runs[r].status = "STARTED" /\ active = NoRun
CommitAssertsNoStatus(r) == sequence = commitJob[r].plan.expected /\ active = NoRun

\* The three assertions of the commit script.
CommitAsserts(r) ==
    /\ runs[r].status = "STARTED"
    /\ sequence = commitJob[r].plan.expected
    /\ active = NoRun

\* Mutant: the control row keeps its sequence.
CommitTransactionSameSequence(r) ==
    LET plan == commitJob[r].plan
    IN  /\ CommitAsserts(r)
        /\ active' = r
        /\ contents' = MergeContents(plan.contents)
        /\ transitions' = MergeTransitions(plan.transitions)
        /\ runs' = [runs EXCEPT ![r].status = "COMMITTED",
                                ![r].commit_completed = TRUE,
                                ![r].commit_sequence = plan.expected + 1]
        /\ UNCHANGED sequence

CommitTransaction(r) ==
    LET plan == commitJob[r].plan
    IN  /\ CommitAsserts(r)
        /\ sequence' = sequence + 1
        /\ active' = r
        /\ contents' = MergeContents(plan.contents)
        /\ transitions' = MergeTransitions(plan.transitions)
        /\ runs' = [runs EXCEPT ![r] = [@ EXCEPT
              !.status = "COMMITTED",
              !.commit_completed = TRUE,
              !.commit_sequence = plan.expected + 1,
              !.batch_hash = plan.batch,
              !.accepted = Cardinality(DOMAIN plan.batch),
              !.new_contents = Cardinality(plan.contents),
              !.new_transitions = Cardinality(plan.transitions)]]

RunCommit(r) ==
    /\ commitJob[r].state = "running"
    /\ \/ /\ CommitTransaction(r)
          /\ commitJob' = [commitJob EXCEPT ![r] = [@ EXCEPT !.state = "committed",
                                                                !.plan = NoPlan]]
       \/ /\ "abort" \in Faults \/ ~CommitAsserts(r)
          /\ commitJob' = [commitJob EXCEPT ![r] = [@ EXCEPT !.state = "error",
                                                                !.plan = NoPlan]]
          /\ UNCHANGED <<control, tables, runs>>
    /\ UNCHANGED <<beginJob, clock, client>>

\* The job ends some time after its transaction became durable, and its end
\* time is what clients later read as job.ended.
EndCommit(r) ==
    /\ commitJob[r].state = "committed"
    /\ clock' \in {clock, clock + 1}
    /\ \E s \in {"done"} \cup (IF "late_error" \in Faults THEN {"error"} ELSE {}) :
           commitJob' = [commitJob EXCEPT ![r] = [@ EXCEPT !.state = s, !.ended = clock']]
    /\ UNCHANGED <<control, tables, runs, beginJob, client>>

\* The service forgets a finished job: get_job answers NotFound afterwards.
ExpireJob(r) ==
    /\ "expire" \in Faults
    /\ \/ /\ beginJob[r].state \in {"done", "error"}
          /\ beginJob' = [beginJob EXCEPT ![r] = [state |-> "none", request |-> Null]]
          /\ UNCHANGED commitJob
       \/ /\ commitJob[r].state \in {"done", "error"}
          /\ commitJob' = [commitJob EXCEPT ![r] =
                              [state |-> "none", plan |-> NoPlan, ended |-> Null]]
          /\ UNCHANGED beginJob
    /\ UNCHANGED <<control, tables, runs, clock, client>>

----------------------------------------------------------------------------
(* The clients.                                                            *)

Goto(c, label) == client' = [client EXCEPT ![c].pc = label]
Leave(c) == client' = [client EXCEPT ![c] = Idle]
UnchangedServer == UNCHANGED <<control, tables, runs, jobs>>

\* ingest() calls begin(), which submits under the stable begin ID; a Conflict
\* reattaches to the job that already has it, whatever became of that job.
StartIngest(c, r, q) ==
    /\ client[c].pc = "idle"
    /\ beginJob' = IF beginJob[r].state = "none"
                   THEN [beginJob EXCEPT ![r] = [state |-> "running", request |-> q]]
                   ELSE beginJob
    /\ client' = [client EXCEPT ![c] = [Idle EXCEPT !.pc = "begin", !.run = r,
                                                    !.req = q, !.stage = "ingest"]]
    /\ UNCHANGED <<control, tables, runs, commitJob, clock>>

\* `warehouse resume` is reconcile() on its own.
StartResume(c, r) ==
    /\ client[c].pc = "idle"
    /\ client' = [client EXCEPT ![c] = [Idle EXCEPT !.pc = "read", !.run = r]]
    /\ UnchangedServer

\* begin() waits for the job, reads the manifest back and checks that it is
\* bound to this request.
AwaitBegin(c) ==
    LET r == client[c].run
    IN  /\ client[c].pc = "begin"
        /\ beginJob[r].state # "running"
        /\ IF beginJob[r].state = "done" /\ runs[r].request = client[c].req
           THEN Goto(c, "read") ELSE Leave(c)
        /\ UnchangedServer

\* reconcile() reads the manifest. A terminal status ends the call: SUCCEEDED
\* is returned, FAILED and an unknown run raise.
ReadManifest(c) ==
    LET status == runs[client[c].run].status
    IN  /\ client[c].pc = "read"
        /\ IF status \in {"STARTED", "COMMITTED"}
           THEN client' = [client EXCEPT ![c] = [@ EXCEPT !.pc = "lookup", !.seen = status]]
           ELSE Leave(c)
        /\ UnchangedServer

\* Mutant: a COMMITTED run is never waited for.
LookupJobStartedOnly(c) ==
    /\ client[c].pc = "lookup"
    /\ IF client[c].seen = "COMMITTED" THEN Leave(c)
       ELSE IF commitJob[client[c].run].state # "none" THEN Goto(c, "wait")
       ELSE CASE client[c].stage = "ingest" -> Goto(c, "fetch")
              [] client[c].stage = "persist" -> Goto(c, "snapshot")
              [] OTHER -> Leave(c)
    /\ UnchangedServer

\* reconcile() looks the commit job up. With no such job a STARTED run may go
\* on to its next step (fetch, then plan); every other caller raises.
LookupJob(c) ==
    /\ client[c].pc = "lookup"
    /\ \/ /\ commitJob[client[c].run].state # "none"
          /\ Goto(c, "wait")
       \/ /\ commitJob[client[c].run].state = "none"
          /\ CASE client[c].seen = "STARTED" /\ client[c].stage = "ingest" ->
                      Goto(c, "fetch")
               [] client[c].seen = "STARTED" /\ client[c].stage = "persist" ->
                      Goto(c, "snapshot")
               [] OTHER -> Leave(c)
    /\ UnchangedServer

\* The source answers with some of the request's observations, or fails; the
\* adapter refuses an answer without observations, so no batch is empty.
Fetch(c) ==
    /\ client[c].pc = "fetch"
    /\ \/ \E S \in SUBSET KeysOf[client[c].req] \ {{}} : \E b \in [S -> Value] :
              client' = [client EXCEPT ![c] = [@ EXCEPT
                             !.pc = "read", !.stage = "persist", !.batch = b]]
       \/ Goto(c, "fail")
    /\ UnchangedServer

\* persist() reads one snapshot and plans from it. An unfinalized commit, a
\* rejected batch or a failed query all end in fail().
TakeSnapshot(c) ==
    /\ client[c].pc = "snapshot"
    /\ \/ /\ active = NoRun
          /\ client' = [client EXCEPT ![c] = [@ EXCEPT
                 !.pc = "submit", !.batch = NoBatch,
                 !.plan = PlanWrite(client[c].run, client[c].batch)]]
       \/ Goto(c, "fail")
    /\ UnchangedServer

\* persist() submits under the stable commit ID (a Conflict reattaches to the
\* existing job and drops this plan), then reconciles.
SubmitCommit(c) ==
    LET r == client[c].run
    IN  /\ client[c].pc = "submit"
        /\ commitJob' = IF commitJob[r].state = "none"
                        THEN [commitJob EXCEPT ![r] =
                                 [state |-> "running", plan |-> client[c].plan,
                                  ended |-> Null]]
                        ELSE commitJob
        /\ client' = [client EXCEPT ![c] = [@ EXCEPT
               !.pc = "read", !.stage = "submitted", !.plan = NoPlan]]
        /\ UNCHANGED <<control, tables, runs, beginJob, clock>>

\* Mutants: the end time is not checked for NULL; a failed job is not recorded.
AwaitCommitNoEnd(c) ==
    /\ client[c].pc = "wait"
    /\ commitJob[client[c].run].state = "done"
    /\ Goto(c, "finalize")
    /\ UnchangedServer
AwaitCommitUnrecorded(c) ==
    LET job == commitJob[client[c].run]
    IN  /\ client[c].pc = "wait"
        /\ \/ /\ job.state = "done"
              /\ client' = [client EXCEPT ![c] = [@ EXCEPT
                                !.pc = "finalize", !.ended = job.ended]]
           \/ /\ job.state \in {"error", "none"}
              /\ Leave(c)
        /\ UnchangedServer

\* reconcile() waits for the job to end: success leads to finalization with
\* job.ended, a confirmed terminal error to fail(), lost metadata raises.
AwaitCommit(c) ==
    LET job == commitJob[client[c].run]
    IN  /\ client[c].pc = "wait"
        /\ \/ /\ job.state = "done"
              /\ client' = [client EXCEPT ![c] = [@ EXCEPT
                                !.pc = "finalize", !.ended = job.ended]]
           \/ /\ job.state = "error"
              /\ Goto(c, "fail")
           \/ /\ job.state = "none"
              /\ Leave(c)
        /\ UnchangedServer

\* Mutants: the guard is dropped; the guard only spares a COMMITTED run.
FailureUnguarded(r) == TRUE
FailureUnlessCommitted(r) == runs[r].status # "COMMITTED"

\* The failure script touches only a run that is still STARTED.
FailureGuard(r) == runs[r].status = "STARTED" /\ ~runs[r].commit_completed

RecordFailure(c) ==
    LET r == client[c].run
    IN  /\ client[c].pc = "fail"
        /\ runs' = IF FailureGuard(r)
                   THEN [runs EXCEPT ![r] = [@ EXCEPT !.status = "FAILED",
                                                       !.accepted = 0]]
                   ELSE runs
        /\ Leave(c)
        /\ UNCHANGED <<control, tables, jobs>>

\* The two assertions of the finalization script.
OwnsGate(r) == active = r /\ runs[r].status = "COMMITTED"

\* Mutant: the gate is not released.
FinalizeKeepsGate(r, t) ==
    /\ contents' = StampContents(r, t)
    /\ transitions' = StampTransitions(r, t)
    /\ runs' = [runs EXCEPT ![r] = [@ EXCEPT !.status = "SUCCEEDED",
                                             !.knowledge_at = t]]
    /\ UNCHANGED control

FinalizeTransaction(r, t) ==
    /\ contents' = StampContents(r, t)
    /\ transitions' = StampTransitions(r, t)
    /\ runs' = [runs EXCEPT ![r] = [@ EXCEPT !.status = "SUCCEEDED",
                                             !.knowledge_at = t]]
    /\ active' = NoRun
    /\ UNCHANGED sequence

\* A run that is already SUCCEEDED is left alone; otherwise the assertions
\* hold or the script raises. The read-back that follows changes nothing.
Finalize(c) ==
    LET r == client[c].run
    IN  /\ client[c].pc = "finalize"
        /\ \/ /\ runs[r].status # "SUCCEEDED"
              /\ OwnsGate(r)
              /\ FinalizeTransaction(r, client[c].ended)
           \/ /\ runs[r].status = "SUCCEEDED" \/ ~OwnsGate(r)
              /\ UNCHANGED <<control, tables, runs>>
        /\ Leave(c)
        /\ UNCHANGED jobs

\* The caller dies, times out, or an answer is lost: any call may raise before
\* its effect, and after its effect the client may equally stop.
Abandon(c) ==
    /\ client[c].pc # "idle"
    /\ Leave(c)
    /\ UnchangedServer

ClientStep(c) ==
    \/ AwaitBegin(c) \/ ReadManifest(c) \/ LookupJob(c) \/ Fetch(c)
    \/ TakeSnapshot(c) \/ SubmitCommit(c) \/ AwaitCommit(c)
    \/ RecordFailure(c) \/ Finalize(c)

ServerStep(r) == RunBegin(r) \/ RunCommit(r) \/ EndCommit(r)

Next ==
    \/ \E c \in Client, r \in Run, q \in Request : StartIngest(c, r, q)
    \/ \E c \in Client, r \in Run : StartResume(c, r)
    \/ \E c \in Client : ClientStep(c) \/ Abandon(c)
    \/ \E r \in Run : ServerStep(r) \/ ExpireJob(r)

Spec == Init /\ [][Next]_vars

----------------------------------------------------------------------------
(* Fairness. The service runs what was submitted and a live client takes   *)
(* its next step; an operator eventually resumes a run that has a commit   *)
(* job and no terminal status, as the "resume run ..." errors ask; and     *)
(* interruptions are not for ever: from some point on calls run to their   *)
(* end.                                                                    *)

Unresolved(r) == runs[r].status \in {"STARTED", "COMMITTED"}

ServerFairness == \A r \in Run : WF_vars(ServerStep(r))

ClientFairness == \A c \in Client : WF_vars(ClientStep(c))

InterruptionsCease ==
    <>[][\A c \in Client : client[c].pc # "idle" /\ client'[c] # client[c] =>
             ClientStep(c)]_vars

OperatorFairness ==
    \A r \in Run :
        SF_vars(/\ Unresolved(r)
                /\ commitJob[r].state # "none"
                /\ \E c \in Client : StartResume(c, r))

\* A caller that keeps repeating the same ingest request and run ID.
RetryFairness ==
    \A r \in Run, q \in Request : SF_vars(\E c \in Client : StartIngest(c, r, q))

Fairness == ServerFairness /\ ClientFairness /\ InterruptionsCease

FairSpec == Spec /\ Fairness /\ OperatorFairness
RetrySpec == Spec /\ Fairness /\ RetryFairness
----------------------------------------------------------------------------
(* Safety.                                                                 *)

Committed(r) == runs[r].status \in {"COMMITTED", "SUCCEEDED"}

\* The finalization gate: warehouse_control.active_run_id names exactly the
\* run whose data is durable but not finalized, so at most one run is
\* COMMITTED and a free gate means that every commit is finalized. (The commit
\* and finalization scripts; the snapshot's refusal while a run is active.)
GateMarksUnfinalizedRun == \A r \in Run : active = r <=> runs[r].status = "COMMITTED"

\* A run recorded as FAILED, or one that never committed, owns no rows: no
\* late commit job can land after fail(), and no late fail() can relabel a run
\* whose data is durable. (failure_query's guard, commit_query's assertions.)
OnlyCommittedRunsOwnRows ==
    /\ \A x \in contents : Committed(x.run)
    /\ \A t \in transitions : Committed(t.run)

\* Commit sequences order the commits: each committed run has its own number
\* in 1..sequence, every number is taken, a transition carries its run's.
CommitSequencesAreTotal ==
    /\ \A r, s \in Run : /\ Committed(r)
                         /\ Committed(s)
                         /\ runs[r].commit_sequence = runs[s].commit_sequence
                         => r = s
    /\ \A n \in 1..sequence : \E r \in Run : Committed(r) /\ runs[r].commit_sequence = n
    /\ \A r \in Run : Committed(r) => runs[r].commit_sequence \in 1..sequence
    /\ \A t \in transitions : t.seq = runs[t.run].commit_sequence

\* Each key's transitions form one chain: ordinals are unique and have no gap,
\* a later ordinal comes from a later commit, and consecutive states differ
\* (A then A adds nothing, A then B then A adds three). This is what a stale
\* plan would break: plan_write ran on a snapshot some commits ago.
HistoryIsAChain ==
    /\ \A t, u \in transitions : t.key = u.key /\ t.ordinal = u.ordinal => t = u
    /\ \A t \in transitions :
           \/ t.ordinal = 1
           \/ \E u \in transitions : /\ u.key = t.key
                                     /\ u.ordinal + 1 = t.ordinal
                                     /\ u.seq < t.seq
                                     /\ u.value # t.value

\* The transitions reconstruct every accepted batch: as of a run's commit, the
\* latest state of each key it accepted is the value it accepted, although
\* only the changes against an earlier snapshot were written.
HistoryReconstructsBatches ==
    \A r \in Run : Committed(r) => \A k \in DOMAIN runs[r].batch_hash :
        \E t \in transitions :
            /\ t.key = k
            /\ t.value = runs[r].batch_hash[k]
            /\ t.seq <= runs[r].commit_sequence
            /\ \A u \in transitions :
                   u.key = k /\ u.seq <= runs[r].commit_sequence => u.ordinal <= t.ordinal

\* Every transition finds exactly one content row with its key and value, first
\* stored by a run that committed no later: the inner join on content_id of
\* the revision history loses and duplicates nothing once the run SUCCEEDED.
TransitionsHaveOneContent ==
    /\ \A x, y \in contents : x.key = y.key /\ x.value = y.value => x = y
    /\ \A t \in transitions : \E x \in contents :
           /\ x.key = t.key
           /\ x.value = t.value
           /\ runs[x.run].commit_sequence <= t.seq

\* Knowledge time: a row is stamped exactly when its run has SUCCEEDED, with
\* that run's knowledge_at, and knowledge times never run against the commit
\* order, however late a crashed run's finalization is resumed.
KnowledgeFollowsCommitOrder ==
    /\ \A x \in contents : x.seen = runs[x.run].knowledge_at
    /\ \A t \in transitions : t.known = runs[t.run].knowledge_at
    /\ \A r \in Run : runs[r].status = "SUCCEEDED" <=> runs[r].knowledge_at # Null
    /\ \A r, s \in Run : /\ runs[r].status = "SUCCEEDED"
                         /\ runs[s].status = "SUCCEEDED"
                         /\ runs[r].commit_sequence < runs[s].commit_sequence
                         => runs[r].knowledge_at <= runs[s].knowledge_at

\* new_contents and new_transitions, which the commit script takes from the
\* length of its parameters, describe the rows its insert-only MERGEs added.
CountsDescribeRows ==
    \A r \in Run : Committed(r) =>
        /\ runs[r].new_contents = Cardinality({x \in contents : x.run = r})
        /\ runs[r].new_transitions = Cardinality({t \in transitions : t.run = r})

\* Every plan computed and not yet run, with the run that owns it: held by a
\* client about to submit it, or by its commit job.
PlansInFlight ==
    {[run |-> client[c].run, plan |-> client[c].plan] :
         c \in {d \in Client : client[d].pc = "submit"}}
    \cup {[run |-> r, plan |-> commitJob[r].plan] :
         r \in {s \in Run : commitJob[s].state = "running"}}

\* A plan that could still commit is the plan plan_write would compute now:
\* while the sequence it read is current, nothing it depends on has changed
\* since its snapshot, and no commit awaits finalization. The sequence
\* assertion alone carries HistoryIsAChain and CountsDescribeRows.
FreshPlan(r, plan) ==
    plan.expected = sequence => active = NoRun /\ plan = PlanWrite(r, plan.batch)

PlansAreFreshOrRefused == \A p \in PlansInFlight : FreshPlan(p.run, p.plan)

\* What the commit protocol keeps true of every plan in flight, submitted or
\* not: it was read at a past or the current sequence, it holds one row per
\* key, all owned by its run, and it stores the content its transitions need.
WellFormedPlan(r, plan) ==
    /\ plan.expected <= sequence
    /\ IsFiniteSet(plan.contents) /\ IsFiniteSet(plan.transitions)
    /\ \A x \in plan.contents : x.run = r /\ x.seen = Null
    /\ \A x, y \in plan.contents : x.key = y.key => x = y
    /\ \A t \in plan.transitions :
           /\ t.run = r
           /\ t.known = Null
           /\ t.seq = plan.expected + 1
           /\ \/ Stored(t.key, t.value)
              \/ \E x \in plan.contents : x.key = t.key /\ x.value = t.value
    /\ \A t, u \in plan.transitions : t.key = u.key => t = u

PlansAreWellFormed == \A p \in PlansInFlight : WellFormedPlan(p.run, p.plan)

\* A busy client works on a run; one past begin() has the request it checked.
ClientsAreBound ==
    \A c \in Client :
        /\ client[c].pc # "idle" => client[c].run \in Run
        /\ client[c].stage # "resume" => client[c].req \in Request
        /\ client[c].pc \in {"fetch", "snapshot", "submit"} => client[c].stage # "resume"

\* Each key that has a transition has one of highest ordinal, and no transition
\* carries a commit sequence that has not been reached.
HistoryHasLatest ==
    \A t \in transitions : t.seq <= sequence /\ LatestRows(t.key) # {}

\* The inductive invariant: the proofs of the safety properties rest on it.
ProtocolInvariant ==
    /\ ClientsAreBound
    /\ GateMarksUnfinalizedRun
    /\ OnlyCommittedRunsOwnRows
    /\ PlansAreWellFormed
    /\ PlansAreFreshOrRefused
    /\ HistoryHasLatest
    /\ HistoryIsAChain

----------------------------------------------------------------------------
(* What a step may never do.                                               *)

\* Accepted history is append-only: a terminal manifest never changes again,
\* and a stamped row is neither removed nor rewritten, whichever replay,
\* resume or late job arrives. (warehouse contract; SUCCEEDED replay no-op.)
HistoryIsAppendOnly ==
    [][/\ \A r \in Run : runs[r].status \in {"SUCCEEDED", "FAILED"} =>
                             runs'[r] = runs[r]
       /\ \A x \in contents : x.seen # Null => x \in contents'
       /\ \A t \in transitions : t.known # Null => t \in transitions']_vars

\* A manifest keeps the request it was created for, so a run ID can never be
\* rebound to other data.
BindingIsPermanent ==
    [][\A r \in Run : runs[r].status # "ABSENT" =>
           runs'[r].request = runs[r].request /\ runs'[r].status # "ABSENT"]_vars
----------------------------------------------------------------------------
(* What the protocol as a whole amounts to.                                *)

\* The accepted runs as AtomicWarehouse sees them.
AcceptedRuns ==
    [r \in Run |->
        IF Committed(r)
        THEN [state |-> IF runs[r].status = "COMMITTED" THEN "open" ELSE "published",
              seq |-> runs[r].commit_sequence, batch |-> runs[r].batch_hash,
              at |-> runs[r].knowledge_at]
        ELSE [state |-> "none", seq |-> 0, batch |-> NoBatch, at |-> Null]]

Atomic == INSTANCE AtomicWarehouse WITH accepted <- AcceptedRuns

\* Linearizability: whatever invocations, retries, crashes, aborted and late
\* jobs do, the tables evolve as if each accepted batch were planned and
\* written in one step, and stamped in a second one before the next batch.
ImplementsAtomicWarehouse == Atomic!RawSpec

----------------------------------------------------------------------------
(* Progress, under FairSpec and while the service keeps job metadata and   *)
(* reports outcomes truthfully (Faults \subseteq {"abort"}).               *)

\* An unfinalized commit does not block the other writers for ever: the gate it
\* holds is eventually released, crashes and lost answers notwithstanding.
GateIsReleased == \A r \in Run : active = r ~> active # r

\* A run whose commit job was ever submitted ends SUCCEEDED or FAILED, even if
\* the submitter saw neither the acknowledgement nor the outcome.
SubmittedRunsResolve ==
    \A r \in Run : commitJob[r].state # "none" ~> runs[r].status \in {"SUCCEEDED", "FAILED"}

----------------------------------------------------------------------------
(* Statements of the documentation that the code does not meet.            *)

\* docs/contracts/warehouse.md: "A lost/late job response stays unconfirmed; it
\* is not relabeled FAILED without a terminal job error." A second invocation
\* of the same run, past its own job lookup, relabels it when its fetch fails.
FailedOnlyOnTerminalJobError ==
    [][\A r \in Run :
           /\ runs[r].status = "STARTED"
           /\ runs'[r].status = "FAILED"
           /\ commitJob[r].state # "none"
           => commitJob[r].state = "error"]_vars

\* docs/contracts/orchestration.md: before a manifest exists "Same-ID retry is
\* safe for selected transient failures." With a stable begin job ID an aborted
\* begin is what every later retry reattaches to.
SameIdRetryCreatesManifest ==
    \A r \in Run : beginJob[r].state # "none" ~> runs[r].status # "ABSENT"
=============================================================================
