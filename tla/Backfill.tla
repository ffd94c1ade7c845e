------------------------------ MODULE Backfill ------------------------------
(***************************************************************************)
(* The orchestration layer over Warehouse: expand() turns a plan into      *)
(* units, the backfill task runs them one after the other through          *)
(* execute_unit() with one automatic retry, then dbt, then verify().       *)
(*                                                                         *)
(* Flow c is a workflow process; it calls ingest() as Warehouse's client   *)
(* c. The task graph is Flyte's local runner (external): a task that       *)
(* raises RetryableIngestionError runs once more, any other error ends     *)
(* the workflow.                                                           *)
(***************************************************************************)
EXTENDS Warehouse, SequencesExt

CONSTANTS
    Plans,         \* the Backfill inputs that are submitted, all with one ID
    Hub,           \* TRADING_HUBS, ordered as numbers
    FallBackDays,  \* Pacific days of 25 hours
    RunOf,         \* RunOf[q]: uuid5 of the backfill ID and the request ID
    MaxDays        \* MAX_DAYS

NoHub == 0  \* the location of a load request

BackfillPlan == [start : Nat, end : Nat, lmp : BOOLEAN, load : BOOLEAN,
                 hubs : Seq(Nat), dbt : BOOLEAN]

ASSUME BackfillAssumption ==
    /\ Plans \subseteq BackfillPlan
    /\ Hub \subseteq Nat \ {NoHub}
    /\ \A q \in Request : q \in [product : {"lmp", "load"}, day : Nat, hub : Nat]
    /\ RunOf \in [Request -> Run]
    /\ \A p, q \in Request : RunOf[p] = RunOf[q] => p = q
    /\ MaxDays \in Nat \ {0}

VARIABLES
    flow,      \* the workflow processes
    factKeys,  \* the logical keys in the fact tables
    counted    \* in how many reports a run's rows were counted as new, up to 2

workflow == <<flow, factKeys, counted>>
allVars == <<vars, workflow>>

Outcome == {"ok", "transient", "fatal", "unconfirmed"}
Result == [req : Request, accepted : Nat, new_contents : Nat,
           new_transitions : Nat, reused : BOOLEAN]
Flow == [pc : {"idle", "prior", "call", "ingest", "state", "dbt", "verify",
               "report", "reported"},
         plan : Plans \cup {Null}, next : Nat, retried : BOOLEAN,
         prior : Status, error : Outcome, results : Seq(Result)]
NoFlow == [pc |-> "idle", plan |-> Null, next |-> 1, retried |-> FALSE,
           prior |-> "ABSENT", error |-> "ok", results |-> <<>>]

BackfillTypeOK ==
    /\ TypeOK
    /\ flow \in [Client -> Flow]
    /\ factKeys \subseteq Key
    /\ counted \in [Run -> 0..2]

BackfillInit ==
    /\ Init
    /\ flow = [c \in Client |-> NoFlow]
    /\ factKeys = {}
    /\ counted = [r \in Run |-> 0]

----------------------------------------------------------------------------
(* expand(): the whole plan is validated before any I/O.                   *)

ValidPlan(p) ==
    /\ p.start <= p.end /\ p.end - p.start < MaxDays
    /\ p.lmp \/ p.load
    /\ ToSet(p.hubs) \subseteq Hub
    /\ IsInjective(p.hubs)
    /\ p.lmp => p.hubs # <<>>
    /\ p.load => (p.start..p.end) \cap FallBackDays = {}

\* Days ascending; each day the selected hubs in order, then load.
Expand(p) ==
    LET hubs == SetToSortSeq(ToSet(p.hubs), <)
        lmp(d) == [i \in DOMAIN hubs |-> [product |-> "lmp", day |-> d, hub |-> hubs[i]]]
        load(d) == << [product |-> "load", day |-> d, hub |-> NoHub] >>
    IN  FlattenSeq([i \in 1..(p.end - p.start + 1) |->
            (IF p.lmp THEN lmp(p.start + i - 1) ELSE <<>>)
            \o (IF p.load THEN load(p.start + i - 1) ELSE <<>>)])

\* The units of a valid plan are requests, and there is at least one.
ASSUME PlansAreRequests ==
    \A p \in {v \in Plans : ValidPlan(v)} :
        Expand(p) \in Seq(Request) /\ Expand(p) # <<>>

\* They are in the order of their days.
ASSUME PlansAscend ==
    \A p \in {v \in Plans : ValidPlan(v)} : \A i, j \in DOMAIN Expand(p) :
        i <= j => Expand(p)[i].day <= Expand(p)[j].day

Units(c) == Expand(flow[c].plan)
UnitOf(c) == Units(c)[flow[c].next]
RunOfUnit(c) == RunOf[UnitOf(c)]

----------------------------------------------------------------------------
(* execute_unit(): one attempt, and what its errors lead to.               *)

Stop(c) == flow' = [flow EXCEPT ![c] = NoFlow]

\* A RetryableIngestionError buys the unit one more attempt.
Again(c, retryable) ==
    IF retryable /\ ~flow[c].retried
    THEN flow' = [flow EXCEPT ![c] = [@ EXCEPT !.pc = "prior", !.retried = TRUE,
                                               !.prior = "ABSENT", !.error = "ok"]]
    ELSE Stop(c)

StartBackfill(c, p) ==
    /\ flow[c].pc \in {"idle", "reported"}
    /\ ValidPlan(p)
    /\ flow' = [flow EXCEPT ![c] = [NoFlow EXCEPT !.pc = "prior", !.plan = p]]
    /\ UNCHANGED <<vars, factKeys, counted>>

ReadPrior(c) ==
    /\ flow[c].pc = "prior"
    /\ flow' = [flow EXCEPT ![c] = [@ EXCEPT !.pc = "call",
                                             !.prior = runs[RunOfUnit(c)].status]]
    /\ UNCHANGED <<vars, factKeys, counted>>

PriorUnreadable(c) ==
    /\ flow[c].pc = "prior"
    /\ \E transient \in BOOLEAN : Again(c, transient)
    /\ UNCHANGED <<vars, factKeys, counted>>

CallIngest(c) ==
    /\ flow[c].pc = "call"
    /\ StartIngest(c, RunOfUnit(c), UnitOf(c))
    /\ flow' = [flow EXCEPT ![c].pc = "ingest"]
    /\ UNCHANGED <<factKeys, counted>>

\* How ingest() ends where Warehouse's client leaves: with the SUCCEEDED
\* manifest it read, or with an error. Errors of BigQuery calls and of the
\* source are transient or not; the others have no transient cause.
OutcomesOf(c) ==
    LET pc == client[c].pc
        done == runs'[client[c].run].status = "SUCCEEDED"
    IN  CASE pc = "read" -> IF done THEN {"ok"} ELSE {"fatal"}
          [] pc = "finalize" /\ done -> {"ok", "transient", "fatal"}
          [] pc = "finalize" /\ ~done -> {"unconfirmed"}
          [] pc \in {"lookup", "wait"} -> {"unconfirmed"}
          [] OTHER -> {"transient", "fatal"}

\* Mutant: the prior manifest is ignored.
ReusedNever(c) == FALSE

Reused(c) == flow[c].prior = "SUCCEEDED"

\* The SUCCEEDED manifest m of the unit is recorded; the next unit, dbt or the
\* report follows.
Advance(c, m) ==
    LET last == flow[c].next = Len(Units(c))
        result == [req |-> UnitOf(c), accepted |-> m.accepted,
                   new_contents |-> IF Reused(c) THEN 0 ELSE m.new_contents,
                   new_transitions |-> IF Reused(c) THEN 0 ELSE m.new_transitions,
                   reused |-> Reused(c)]
    IN  flow' = [flow EXCEPT ![c] = [@ EXCEPT
            !.pc = IF ~last THEN "prior" ELSE IF flow[c].plan.dbt THEN "dbt" ELSE "report",
            !.next = IF last THEN flow[c].next ELSE flow[c].next + 1,
            !.retried = FALSE,
            !.prior = "ABSENT",
            !.results = Append(flow[c].results, result)]]

\* Mutant: the next unit follows whatever became of this one.
EndAnyhow(c, outcome) == Advance(c, runs'[client[c].run])

End(c, outcome) ==
    \/ outcome = "ok" /\ Advance(c, runs'[client[c].run])
    \/ /\ outcome # "ok"
       /\ flow' = [flow EXCEPT ![c] = [@ EXCEPT !.pc = "state", !.error = outcome]]

IngestStep(c) ==
    /\ flow[c].pc = "ingest"
    /\ ClientStep(c)
    /\ \/ client'[c].pc # "idle" /\ UNCHANGED flow
       \/ client'[c].pc = "idle" /\ \E outcome \in OutcomesOf(c) : End(c, outcome)
    /\ UNCHANGED <<factKeys, counted>>

\* The errors a call inside ingest() can raise while the process lives on. The
\* source and the snapshot have handlers of their own; a submission or a
\* finalization that raises is unconfirmed, whether or not it took effect.
RaisedAt(c) ==
    CASE client[c].pc = "read" ->
             {"transient", "fatal"}
             \cup (IF client[c].stage = "submitted" THEN {"unconfirmed"} ELSE {})
      [] client[c].pc \in {"begin", "lookup", "fail"} -> {"transient", "fatal"}
      [] client[c].pc \in {"wait", "submit", "finalize"} -> {"unconfirmed"}
      [] OTHER -> {}

Interrupt(c) ==
    /\ flow[c].pc = "ingest"
    /\ Abandon(c)
    /\ \E outcome \in RaisedAt(c) : End(c, outcome)
    /\ UNCHANGED <<factKeys, counted>>

Retryable(error, status) == error = "transient" /\ status \in {"ABSENT", "STARTED"}

\* The manifest is read again, if it can be, to classify the error.
ReadState(c) ==
    /\ flow[c].pc = "state"
    /\ \/ Again(c, Retryable(flow[c].error, runs[RunOfUnit(c)].status))
       \/ Stop(c)
    /\ UNCHANGED <<vars, factKeys, counted>>

\* The workflow process dies, or a step outside ingest() raises.
Crash(c) ==
    /\ flow[c].pc \notin {"idle", "reported"}
    /\ Stop(c)
    /\ IF client[c].pc = "idle" THEN UNCHANGED vars ELSE Abandon(c)
    /\ UNCHANGED <<factKeys, counted>>

----------------------------------------------------------------------------
(* dbt and verification.                                                   *)

\* What a passed build promises of the fact tables (see Analytics): a row for
\* every key with a state of a SUCCEEDED run.
PublishedKeys == {t.key : t \in {u \in transitions : runs[u.run].status = "SUCCEEDED"}}

BuildAnalytics(c) ==
    /\ flow[c].pc = "dbt"
    /\ factKeys' = PublishedKeys
    /\ flow' = [flow EXCEPT ![c].pc = "verify"]
    /\ UNCHANGED <<vars, counted>>

\* A build that fails may have merged its facts before.
BuildFails(c) ==
    /\ flow[c].pc = "dbt"
    /\ factKeys' \in {factKeys, PublishedKeys}
    /\ Stop(c)
    /\ UNCHANGED <<vars, counted>>

\* Where the units of a product are in the plan.
Selected(c, product) == {i \in DOMAIN Units(c) : Units(c)[i].product = product}

\* Mutant: the days of the first unit only.
SliceFirstDay(c, product) ==
    Units(c)[Min(Selected(c, product))].day..Units(c)[Min(Selected(c, product))].day

\* The days verify() selects for a product: from its first unit's to its last's.
Slice(c, product) ==
    Units(c)[Min(Selected(c, product))].day..Units(c)[Max(Selected(c, product))].day

\* The facts of a unit's day and hub that the bounded query counts. (That they
\* are unique and eligible is Analytics!ValidFacts.)
FactCount(c, q) ==
    IF q.day \in Slice(c, q.product) THEN Cardinality(factKeys \cap KeysOf[q]) ELSE 0

Verified(c) ==
    \A i \in DOMAIN flow[c].results :
        LET result == flow[c].results[i]
        IN  FactCount(c, result.req) >= result.accepted

VerifyAnalytics(c) ==
    /\ flow[c].pc = "verify"
    /\ IF Verified(c) THEN flow' = [flow EXCEPT ![c].pc = "report"] ELSE Stop(c)
    /\ UNCHANGED <<vars, factKeys, counted>>

\* The report counts the new rows of every result that is not reused.
Report(c) ==
    /\ flow[c].pc = "report"
    /\ flow' = [flow EXCEPT ![c].pc = "reported"]
    /\ counted' = [r \in Run |->
           IF \E i \in DOMAIN flow[c].results :
                  LET result == flow[c].results[i]
                  IN  RunOf[result.req] = r /\ ~result.reused
           THEN IF counted[r] = 2 THEN 2 ELSE counted[r] + 1
           ELSE counted[r]]
    /\ UNCHANGED <<vars, factKeys>>

FlowStep(c) ==
    \/ ReadPrior(c) \/ CallIngest(c) \/ IngestStep(c) \/ ReadState(c)
    \/ BuildAnalytics(c) \/ VerifyAnalytics(c) \/ Report(c)

Trouble(c) == PriorUnreadable(c) \/ Interrupt(c) \/ Crash(c) \/ BuildFails(c)

Server == (\E r \in Run : ServerStep(r) \/ ExpireJob(r)) /\ UNCHANGED workflow

BackfillNext ==
    \/ \E c \in Client, p \in Plans : StartBackfill(c, p)
    \/ \E c \in Client : FlowStep(c) \/ Trouble(c)
    \/ Server

BackfillSpec == BackfillInit /\ [][BackfillNext]_allVars

\* The service runs what was submitted, a live process takes its next step, the
\* operator resubmits the plan until it is reported ("Resume ... with the same
\* backfill ID"), and trouble ends at some point.
FairBackfillSpec ==
    /\ BackfillSpec
    /\ WF_allVars(Server)
    /\ \A c \in Client : WF_allVars(FlowStep(c))
    /\ \A c \in Client, p \in Plans :
           WF_allVars(flow[c].pc = "idle" /\ StartBackfill(c, p))
    /\ <>[][\A c \in Client :
               flow[c].pc \notin {"idle", "reported"} /\ flow'[c] # flow[c] =>
                   FlowStep(c)]_allVars

----------------------------------------------------------------------------
(* Properties.                                                             *)

\* Past ingestion, and in the report, the results are the plan's units in their
\* order, each SUCCEEDED and with the counts of its manifest, whatever attempts,
\* interruptions, resumed processes and overlapping plans led there.
ReportsAreComplete ==
    \A c \in Client : flow[c].pc \in {"dbt", "verify", "report", "reported"} =>
        /\ Len(flow[c].results) = Len(Units(c))
        /\ \A i \in DOMAIN Units(c) :
               LET result == flow[c].results[i]
                   m == runs[RunOf[Units(c)[i]]]
               IN  /\ result.req = Units(c)[i]
                   /\ m.status = "SUCCEEDED"
                   /\ result.accepted = m.accepted
                   /\ ~result.reused => /\ result.new_contents = m.new_contents
                                        /\ result.new_transitions = m.new_transitions

\* Fail fast: a unit's manifest exists only if, in some valid plan, every unit
\* before it SUCCEEDED; a failed or unresolved unit leaves later ones unstarted,
\* and a rejected plan starts none.
UnitsStartInOrder ==
    \A q \in Request : runs[RunOf[q]].status # "ABSENT" =>
        \E p \in {v \in Plans : ValidPlan(v)} : \E i \in DOMAIN Expand(p) :
            /\ Expand(p)[i] = q
            /\ \A j \in 1..(i - 1) : runs[RunOf[Expand(p)[j]]].status = "SUCCEEDED"

\* As long as workflows of one backfill ID do not overlap in time, the rows a
\* run added are counted as new by at most one report, retries and resumed
\* workflows included.
NewRowsCountedOnce == \A r \in Run : counted[r] <= 1

\* verify() never contradicts a passed build: within the days it selects, the
\* facts of each unit's day and hub are at least as many as its run accepted,
\* for the runs of earlier workflows that were only reused as well.
VerificationAgrees == \A c \in Client : flow[c].pc = "verify" => Verified(c)

\* The begin job was aborted: its ID is taken, and no manifest can be created as long
\* as the job's metadata is kept.
Pinned(r) == runs[r].status = "ABSENT" /\ beginJob[r].state = "error"

\* The commit is durable, but its job reports an error: reconcile() then calls the
\* guarded fail() again and again, and never finalizes the run.
Misreported(r) == runs[r].status = "COMMITTED" /\ commitJob[r].state = "error"

\* A backfill that was started is eventually reported, or one of its own units can
\* never succeed under its ID, for one of three reasons and no other: the unit is
\* FAILED for good, its begin job was aborted, or its commit was misreported.
BackfillCompletes ==
    \A c \in Client, p \in Plans :
        flow[c].pc = "prior" /\ flow[c].plan = p ~>
            \/ flow[c].pc = "reported" /\ flow[c].plan = p
            \/ \E i \in DOMAIN Expand(p) :
                   LET r == RunOf[Expand(p)[i]]
                   IN  runs[r].status = "FAILED" \/ Pinned(r) \/ Misreported(r)
=============================================================================
