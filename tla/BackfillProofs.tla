--------------------------- MODULE BackfillProofs ---------------------------
(***************************************************************************)
(* The backfill workflows over the commit protocol: for any number of      *)
(* workflow processes, plans, requests and runs, units start in order and  *)
(* a report holds the manifests of its plan.                               *)
(***************************************************************************)
EXTENDS Backfill, RefinementProofs

\* Some valid plan has reached the unit of run r.
Reached(r) ==
    \E p \in {v \in Plans : ValidPlan(v)} : \E i \in DOMAIN Expand(p) :
        /\ RunOf[Expand(p)[i]] = r
        /\ \A j \in 1..(i - 1) : runs[RunOf[Expand(p)[j]]].status = "SUCCEEDED"

\* The result holds what the manifest of unit q says.
Recorded(result, q) ==
    LET m == runs[RunOf[q]]
    IN  /\ result.req = q
        /\ m.status = "SUCCEEDED"
        /\ result.accepted = m.accepted
        /\ ~result.reused => /\ result.new_contents = m.new_contents
                             /\ result.new_transitions = m.new_transitions

Running == {"prior", "call", "ingest", "state"}
Ingested == {"dbt", "verify", "report", "reported"}

\* The workflow in state f has recorded a result for each unit before its
\* current one.
ProgressOf(f) ==
    /\ f.pc # "idle" => /\ f.plan \in Plans /\ ValidPlan(f.plan)
                        /\ \A i \in DOMAIN f.results :
                               Recorded(f.results[i], Expand(f.plan)[i])
    /\ f.pc \in Running => /\ f.next \in DOMAIN Expand(f.plan)
                           /\ Len(f.results) = f.next - 1
    /\ f.pc \in Ingested => Len(f.results) = Len(Expand(f.plan))

ProgressIsRecorded == \A c \in Client : ProgressOf(flow[c])

\* An invocation is the ingest() call of its workflow's current unit.
CallsAreUnits ==
    \A c \in Client :
        /\ client[c].pc # "idle" => flow[c].pc = "ingest"
        /\ flow[c].pc = "ingest" => client[c].pc # "idle" /\ client[c].run = RunOfUnit(c)

\* Neither a begin job nor a manifest exists for a unit no plan has reached.
WorkIsReached ==
    \A r \in Run : runs[r].status # "ABSENT" \/ beginJob[r].state # "none" => Reached(r)

\* The inductive invariant.
BackfillInv ==
    Inv /\ BackfillTypeOK /\ ProgressIsRecorded /\ CallsAreUnits /\ WorkIsReached

----------------------------------------------------------------------------
(* What the workflows rely on from below.                                  *)

\* The units of a valid plan have runs.
LEMMA UnitFacts ==
    ASSUME NEW p \in Plans, ValidPlan(p)
    PROVE  /\ Len(Expand(p)) \in Nat /\ Len(Expand(p)) >= 1
           /\ DOMAIN Expand(p) = 1..Len(Expand(p))
           /\ \A i \in DOMAIN Expand(p) : /\ Expand(p)[i] \in Request
                                          /\ RunOf[Expand(p)[i]] \in Run
<1>1. Expand(p) \in Seq(Request) /\ Expand(p) # <<>>
  BY PlansAreRequests
<1>2. RunOf \in [Request -> Run]
  BY BackfillAssumption
<1> HIDE DEF Expand
<1> QED BY <1>1, <1>2

\* A step of the commit protocol creates a manifest only for a run whose begin
\* job exists.
LEMMA ManifestsComeFromJobs ==
    ASSUME Inv, [Next]_vars, NEW r \in Run, runs'[r].status # "ABSENT"
    PROVE  runs[r].status # "ABSENT" \/ beginJob[r].state # "none"
<1>0. TypeOK /\ ClientsAreBound /\ PlansAreWellFormed
  BY DEF Inv, ProtocolInvariant
<1>1. CASE UNCHANGED runs
  BY <1>1
<1>2. ASSUME NEW s \in Run, RunBegin(s)
      PROVE  runs[r].status # "ABSENT" \/ beginJob[r].state # "none"
  BY <1>0, <1>2 DEF RunBegin, TypeOK
<1>3. ASSUME NEW s \in Run, RunCommit(s)
      PROVE  runs[r].status # "ABSENT" \/ beginJob[r].state # "none"
  BY <1>0, <1>3 DEF RunCommit, CommitTransaction, CommitAsserts, TypeOK
<1>4. ASSUME NEW c \in Client, RecordFailure(c)
      PROVE  runs[r].status # "ABSENT" \/ beginJob[r].state # "none"
  BY <1>0, <1>4 DEF RecordFailure, FailureGuard, TypeOK
<1>5. ASSUME NEW c \in Client, Finalize(c)
      PROVE  runs[r].status # "ABSENT" \/ beginJob[r].state # "none"
  BY <1>0, <1>5 DEF Finalize, OwnsGate, FinalizeTransaction, TypeOK
<1>6. ASSUME NEW c \in Client, ClientStep(c)
      PROVE  UNCHANGED runs \/ RecordFailure(c) \/ Finalize(c)
  BY <1>6 DEF ClientStep, AwaitBegin, ReadManifest, LookupJob, Fetch, TakeSnapshot,
     SubmitCommit, AwaitCommit, UnchangedServer
<1>7. ASSUME NEW s \in Run, ServerStep(s) \/ ExpireJob(s)
      PROVE  UNCHANGED runs \/ RunBegin(s) \/ RunCommit(s)
  BY <1>7 DEF ServerStep, EndCommit, ExpireJob
<1>8. CASE \/ \E c \in Client, s \in Run, q \in Request : StartIngest(c, s, q)
           \/ \E c \in Client, s \in Run : StartResume(c, s)
           \/ \E c \in Client : Abandon(c)
           \/ UNCHANGED vars
  BY <1>1, <1>8 DEF StartIngest, StartResume, Abandon, UnchangedServer, vars
<1> QED BY <1>1, <1>2, <1>3, <1>4, <1>5, <1>6, <1>7, <1>8 DEF Next

\* What a workflow has seen of the commit protocol stays true.
LEMMA WorkKept ==
    ASSUME Inv, [Next]_vars
    PROVE  /\ \A r \in Run : Reached(r) => Reached(r)'
           /\ \A f \in Flow : ProgressOf(f) => ProgressOf(f)'
<1>1. \A r \in Run : runs[r].status = "SUCCEEDED" => runs'[r] = runs[r]
  BY KeepsHistoryStep DEF KeepsHistory
<1>2. ASSUME NEW r \in Run, Reached(r) PROVE Reached(r)'
  <2>1. PICK p \in {v \in Plans : ValidPlan(v)} : \E i \in DOMAIN Expand(p) :
            /\ RunOf[Expand(p)[i]] = r
            /\ \A j \in 1..(i - 1) : runs[RunOf[Expand(p)[j]]].status = "SUCCEEDED"
    BY <1>2 DEF Reached
  <2>2. PICK i \in DOMAIN Expand(p) :
            /\ RunOf[Expand(p)[i]] = r
            /\ \A j \in 1..(i - 1) : runs[RunOf[Expand(p)[j]]].status = "SUCCEEDED"
    BY <2>1
  <2>3. \A j \in 1..(i - 1) : RunOf[Expand(p)[j]] \in Run
    BY <2>1, UnitFacts
  <2>4. \A j \in 1..(i - 1) : runs'[RunOf[Expand(p)[j]]].status = "SUCCEEDED"
    BY <1>1, <2>2, <2>3
  <2> QED BY <2>1, <2>2, <2>4 DEF Reached
<1>3. ASSUME NEW f \in Flow, ProgressOf(f) PROVE ProgressOf(f)'
  <2> SUFFICES ASSUME f.pc # "idle", NEW i \in DOMAIN f.results
               PROVE  Recorded(f.results[i], Expand(f.plan)[i])'
    BY <1>3 DEF ProgressOf
  <2>1. f.plan \in Plans /\ ValidPlan(f.plan) /\ Recorded(f.results[i], Expand(f.plan)[i])
    BY <1>3 DEF ProgressOf
  <2>2. f.results \in Seq(Result) /\ f.pc \in Running \cup Ingested
    BY DEF Flow, Running, Ingested
  <2>3. i \in DOMAIN Expand(f.plan)
    BY <1>3, <2>1, <2>2, UnitFacts DEF ProgressOf
  <2>4. RunOf[Expand(f.plan)[i]] \in Run
    BY <2>1, <2>3, UnitFacts
  <2> QED BY <1>1, <2>1, <2>4 DEF Recorded
<1> QED BY <1>2, <1>3
\* What a client's step leaves to the others, and to itself.
LEMMA CallEffects ==
    ASSUME TypeOK, NEW c \in Client, ClientStep(c) \/ Abandon(c)
    PROVE  /\ beginJob' = beginJob
           /\ \A d \in Client \ {c} : client'[d] = client[d]
           /\ client'[c].pc # "idle" => client'[c].run = client[c].run
           /\ client[c].pc # "idle"
<1>0. client[c] \in ClientState /\ client \in [Client -> ClientState]
  BY DEF TypeOK
<1>1. ASSUME NEW l \in Label, Goto(c, l)
      PROVE  /\ \A d \in Client \ {c} : client'[d] = client[d]
             /\ client'[c].run = client[c].run
  BY <1>0, <1>1 DEF Goto, ClientState
<1>2. ASSUME Leave(c)
      PROVE  /\ \A d \in Client \ {c} : client'[d] = client[d]
             /\ client'[c].pc = "idle"
  BY <1>0, <1>2 DEF Leave, Idle
<1>3. CASE Abandon(c)
  BY <1>2, <1>3 DEF Abandon, UnchangedServer, jobs
<1>4. CASE AwaitBegin(c)
  BY <1>1, <1>2, <1>4 DEF AwaitBegin, UnchangedServer, jobs, Label
<1>5. CASE ReadManifest(c)
  <2>1. /\ beginJob' = beginJob /\ client[c].pc = "read"
        /\ \/ client' = [client EXCEPT ![c] = [@ EXCEPT !.pc = "lookup",
                                                     !.seen = runs[client[c].run].status]]
           \/ Leave(c)
    BY <1>5 DEF ReadManifest, UnchangedServer, jobs
  <2> QED BY <1>0, <1>2, <2>1 DEF ClientState
<1>6. CASE LookupJob(c)
  <2>1. /\ beginJob' = beginJob /\ client[c].pc = "lookup"
        /\ Goto(c, "wait") \/ Goto(c, "fetch") \/ Goto(c, "snapshot") \/ Leave(c)
    BY <1>6 DEF LookupJob, UnchangedServer, jobs
  <2> QED BY <1>1, <1>2, <2>1 DEF Label
<1>7. CASE Fetch(c)
  <2>1. beginJob' = beginJob /\ client[c].pc = "fetch"
    BY <1>7 DEF Fetch, UnchangedServer, jobs
  <2>2. CASE Goto(c, "fail")
    BY <1>1, <2>1, <2>2 DEF Label
  <2>3. CASE ~Goto(c, "fail")
    <3>1. PICK b : client' = [client EXCEPT ![c] = [@ EXCEPT
                                  !.pc = "read", !.stage = "persist", !.batch = b]]
      BY <1>7, <2>3 DEF Fetch
    <3> QED BY <1>0, <2>1, <3>1 DEF ClientState
  <2> QED BY <2>2, <2>3
<1>8. CASE TakeSnapshot(c)
  BY <1>0, <1>1, <1>8 DEF TakeSnapshot, UnchangedServer, jobs, Label, ClientState
<1>9. CASE SubmitCommit(c)
  BY <1>0, <1>9 DEF SubmitCommit, ClientState
<1>10. CASE AwaitCommit(c)
  BY <1>0, <1>1, <1>2, <1>10 DEF AwaitCommit, UnchangedServer, jobs, Label, ClientState
<1>11. CASE RecordFailure(c)
  BY <1>2, <1>11 DEF RecordFailure, jobs
<1>12. CASE Finalize(c)
  BY <1>2, <1>12 DEF Finalize, jobs
<1> QED BY <1>3, <1>4, <1>5, <1>6, <1>7, <1>8, <1>9, <1>10, <1>11, <1>12 DEF ClientStep

\* The server creates no begin job and moves no client.
LEMMA ServerEffects ==
    ASSUME TypeOK, NEW r \in Run, ServerStep(r) \/ ExpireJob(r)
    PROVE  /\ client' = client
           /\ \A s \in Run : beginJob'[s].state # "none" => beginJob[s].state # "none"
<1>1. CASE RunBegin(r)
  BY <1>1 DEF RunBegin, TypeOK
<1>2. CASE RunCommit(r) \/ EndCommit(r)
  BY <1>2 DEF RunCommit, EndCommit
<1>3. CASE ExpireJob(r)
  BY <1>3 DEF ExpireJob, TypeOK
<1> QED BY <1>1, <1>2, <1>3 DEF ServerStep

----------------------------------------------------------------------------
(* The kinds of steps.                                                     *)

\* The runs that had been reached before a step without a new begin job.
LEMMA ReachedNext ==
    ASSUME BackfillInv, [Next]_vars, NEW s,
           \A r \in Run : beginJob'[r].state # "none" =>
               beginJob[r].state # "none" \/ (r = s /\ Reached(s))
    PROVE  WorkIsReached'
<1>1. \A r \in Run : Reached(r) => Reached(r)'
  BY WorkKept DEF BackfillInv
<1>2. \A r \in Run : runs'[r].status # "ABSENT" =>
          runs[r].status # "ABSENT" \/ beginJob[r].state # "none"
  BY ManifestsComeFromJobs DEF BackfillInv
<1> QED BY <1>1, <1>2 DEF BackfillInv, WorkIsReached

\* What a workflow whose state does not change relied on still holds.
LEMMA OthersKept ==
    ASSUME BackfillInv, [Next]_vars, NEW c \in Client, NEW g \in Flow,
           flow' = [flow EXCEPT ![c] = g], ProgressOf(g)'
    PROVE  ProgressIsRecorded' /\ flow' \in [Client -> Flow]
<1>0. flow \in [Client -> Flow]
  BY DEF BackfillInv, BackfillTypeOK
<1>1. flow' \in [Client -> Flow] /\ flow'[c] = g /\ \A d \in Client \ {c} : flow'[d] = flow[d]
  BY <1>0
<1>2. \A f \in Flow : ProgressOf(f) => ProgressOf(f)'
  BY WorkKept DEF BackfillInv
<1>3. ASSUME NEW d \in Client PROVE ProgressOf(flow[d])'
  <2>1. CASE d = c
    BY <1>1, <2>1 DEF ProgressOf
  <2>2. CASE d # c
    <3>1. PICK f \in Flow : f = flow[d]
      BY <1>0
    <3>2. ProgressOf(f)' /\ f = flow'[d]
      BY <1>1, <1>2, <2>2, <3>1 DEF BackfillInv, ProgressIsRecorded
    <3> QED BY <3>2 DEF ProgressOf
  <2> QED BY <2>1, <2>2
<1> QED BY <1>1, <1>3 DEF ProgressIsRecorded
\* A step of a workflow outside ingest().
LEMMA FlowOnly ==
    ASSUME BackfillInv, NEW c \in Client, NEW g \in Flow, UNCHANGED vars,
           flow' = [flow EXCEPT ![c] = g], ProgressOf(g),
           flow[c].pc # "ingest", g.pc # "ingest",
           factKeys' \subseteq Key, counted' \in [Run -> 0..2]
    PROVE  BackfillInv'
<1>0. Inv /\ TypeOK /\ [Next]_vars /\ client' = client /\ beginJob' = beginJob
      /\ flow \in [Client -> Flow]
  BY DEF BackfillInv, BackfillTypeOK, vars
<1>1. Inv' /\ TypeOK'
  BY <1>0, InvStep DEF Inv
<1>2. ProgressOf(g)'
  BY <1>0, WorkKept
<1>3. ProgressIsRecorded' /\ flow' \in [Client -> Flow]
  BY <1>0, <1>2, OthersKept
<1>4. WorkIsReached'
  BY <1>0, ReachedNext
<1>5. flow'[c] = g /\ \A d \in Client \ {c} : flow'[d] = flow[d]
  BY <1>0
<1>6. CallsAreUnits'
  BY <1>0, <1>5 DEF BackfillInv, CallsAreUnits, RunOfUnit, UnitOf, Units
<1> QED BY <1>1, <1>3, <1>4, <1>6 DEF BackfillInv, BackfillTypeOK

\* The end of a workflow's ingest() call.
LEMMA CallOver ==
    ASSUME BackfillInv, NEW c \in Client, NEW g \in Flow, ClientStep(c) \/ Abandon(c),
           client'[c].pc = "idle", flow' = [flow EXCEPT ![c] = g], ProgressOf(g)',
           g.pc # "ingest", UNCHANGED <<factKeys, counted>>
    PROVE  BackfillInv'
<1>0. Inv /\ TypeOK /\ [Next]_vars /\ flow \in [Client -> Flow]
  BY DEF BackfillInv, BackfillTypeOK, Next
<1>1. Inv' /\ TypeOK'
  BY <1>0, InvStep DEF Inv
<1>2. beginJob' = beginJob /\ \A d \in Client \ {c} : client'[d] = client[d]
  BY <1>0, CallEffects
<1>3. ProgressIsRecorded' /\ flow' \in [Client -> Flow]
  BY <1>0, OthersKept
<1>4. WorkIsReached'
  BY <1>0, <1>2, ReachedNext
<1>5. flow'[c] = g /\ \A d \in Client \ {c} : flow'[d] = flow[d]
  BY <1>0
<1>6. CallsAreUnits'
  BY <1>2, <1>5 DEF BackfillInv, CallsAreUnits, RunOfUnit, UnitOf, Units
<1> QED BY <1>1, <1>3, <1>4, <1>6 DEF BackfillInv, BackfillTypeOK

\* A step that leaves every workflow where it is: of the server, or of a call.
LEMMA CallGoesOn ==
    ASSUME BackfillInv, [Next]_vars, UNCHANGED workflow,
           \A c \in Client : /\ client'[c].pc # "idle" <=> client[c].pc # "idle"
                             /\ client'[c].run = client[c].run,
           \A r \in Run : beginJob'[r].state # "none" => beginJob[r].state # "none"
    PROVE  BackfillInv'
<1>0. Inv /\ TypeOK /\ flow \in [Client -> Flow]
      /\ flow' = flow /\ factKeys' = factKeys /\ counted' = counted
  BY DEF BackfillInv, BackfillTypeOK, workflow
<1>1. Inv' /\ TypeOK'
  BY <1>0, InvStep DEF Inv
<1>2. ProgressIsRecorded'
  <2> SUFFICES ASSUME NEW c \in Client PROVE ProgressOf(flow[c])'
    BY DEF ProgressIsRecorded
  <2>1. PICK f \in Flow : f = flow[c]
    BY <1>0
  <2>2. ProgressOf(f)' /\ f = flow'[c]
    BY <1>0, <2>1, WorkKept DEF BackfillInv, ProgressIsRecorded
  <2> QED BY <2>2 DEF ProgressOf
<1>3. WorkIsReached'
  BY ReachedNext
<1>4. CallsAreUnits'
  BY <1>0 DEF BackfillInv, CallsAreUnits, RunOfUnit, UnitOf, Units
<1> QED BY <1>0, <1>1, <1>2, <1>3, <1>4 DEF BackfillInv, BackfillTypeOK

\* Progress does not depend on how far the current unit is.
LEMMA SameProgress ==
    ASSUME NEW f \in Flow, NEW g \in Flow, ProgressOf(f), f.pc # "idle",
           g.plan = f.plan, g.next = f.next, g.results = f.results,
           \/ f.pc \in Running /\ g.pc \in Running
           \/ f.pc \in Ingested /\ g.pc \in Ingested
    PROVE  ProgressOf(g)
BY DEF ProgressOf, Running, Ingested

\* A workflow that is over, or has not begun.
LEMMA NoProgress == NoFlow \in Flow /\ ProgressOf(NoFlow)
<1>1. /\ NoFlow.pc = "idle" /\ NoFlow.plan = Null /\ NoFlow.next = 1
      /\ NoFlow.retried = FALSE /\ NoFlow.prior = "ABSENT" /\ NoFlow.error = "ok"
      /\ NoFlow.results = <<>>
  BY DEF NoFlow
<1>2. <<>> \in Seq(Result)
  OBVIOUS
<1>3. NoFlow \in Flow
  BY <1>2 DEF NoFlow, Flow, Status, Outcome
<1> QED BY <1>1, <1>3 DEF ProgressOf, Running, Ingested

\* The unit that a workflow is at.
LEMMA CurrentUnit ==
    ASSUME BackfillInv, NEW c \in Client, flow[c].pc \in Running
    PROVE  /\ flow[c].plan \in Plans /\ ValidPlan(flow[c].plan)
           /\ flow[c].next \in DOMAIN Units(c)
           /\ UnitOf(c) \in Request /\ RunOfUnit(c) \in Run
           /\ Reached(RunOfUnit(c))
<1>0. flow[c] \in Flow /\ ProgressOf(flow[c]) /\ flow[c].pc # "idle"
  BY DEF BackfillInv, BackfillTypeOK, ProgressIsRecorded, Running
<1>1. /\ flow[c].plan \in Plans /\ ValidPlan(flow[c].plan)
      /\ flow[c].next \in DOMAIN Units(c) /\ Len(flow[c].results) = flow[c].next - 1
      /\ \A i \in DOMAIN flow[c].results :
             Recorded(flow[c].results[i], Expand(flow[c].plan)[i])
  BY <1>0 DEF ProgressOf, Units
<1>2. UnitOf(c) \in Request /\ RunOfUnit(c) \in Run
  BY <1>1, UnitFacts DEF UnitOf, Units, RunOfUnit
<1>3. DOMAIN flow[c].results = 1..(flow[c].next - 1)
  BY <1>0, <1>1 DEF Flow
<1>4. \A j \in 1..(flow[c].next - 1) :
          runs[RunOf[Expand(flow[c].plan)[j]]].status = "SUCCEEDED"
  BY <1>1, <1>3 DEF Recorded
<1>5. Reached(RunOfUnit(c))
  BY <1>1, <1>4 DEF Reached, RunOfUnit, UnitOf, Units
<1> QED BY <1>1, <1>2, <1>5

----------------------------------------------------------------------------
(* The steps of a workflow.                                                *)

\* The state of a workflow after its current unit's result, and its progress.
LEMMA NextUnit ==
    ASSUME BackfillInv, [Next]_vars, NEW f \in Flow, ProgressOf(f), f.pc \in Running,
           NEW q, q = Expand(f.plan)[f.next], NEW result \in Result, Recorded(result, q)',
           NEW g \in Flow, g.plan = f.plan, g.results = Append(f.results, result),
           \/ /\ f.next = Len(Expand(f.plan)) /\ g.pc \in {"dbt", "report"}
           \/ /\ f.next # Len(Expand(f.plan)) /\ g.pc = "prior" /\ g.next = f.next + 1
    PROVE  ProgressOf(g)'
<1>1. /\ f.plan \in Plans /\ ValidPlan(f.plan) /\ f.next \in DOMAIN Expand(f.plan)
      /\ f.results \in Seq(Result) /\ Len(f.results) = f.next - 1 /\ f.pc # "idle"
  BY DEF ProgressOf, Running, Flow
<1>2. /\ Len(Expand(f.plan)) \in Nat /\ DOMAIN Expand(f.plan) = 1..Len(Expand(f.plan))
      /\ f.next \in Nat /\ f.next >= 1 /\ f.next <= Len(Expand(f.plan))
  BY <1>1, UnitFacts
<1>3. /\ Len(g.results) = f.next
      /\ DOMAIN f.results = 1..(f.next - 1)
      /\ DOMAIN g.results = 1..f.next
      /\ g.results[f.next] = result
      /\ \A i \in 1..(f.next - 1) : g.results[i] = f.results[i]
  BY <1>1, <1>2
<1>4. ProgressOf(f)'
  BY WorkKept DEF BackfillInv
<1>5. ASSUME NEW i \in DOMAIN g.results
      PROVE  Recorded(g.results[i], Expand(g.plan)[i])'
  <2>1. CASE i = f.next
    BY <1>3, <2>1
  <2>2. CASE i # f.next
    <3>1. i \in DOMAIN f.results /\ g.results[i] = f.results[i]
      BY <1>2, <1>3, <2>2
    <3>2. Recorded(f.results[i], Expand(f.plan)[i])'
      BY <1>1, <1>4, <3>1 DEF ProgressOf
    <3> QED BY <3>1, <3>2
  <2> QED BY <2>1, <2>2
<1>6. CASE f.next = Len(Expand(f.plan)) /\ g.pc \in {"dbt", "report"}
  BY <1>1, <1>3, <1>5, <1>6 DEF ProgressOf, Running, Ingested
<1>7. CASE f.next # Len(Expand(f.plan)) /\ g.pc = "prior" /\ g.next = f.next + 1
  <2>1. g.next \in DOMAIN Expand(g.plan) /\ Len(g.results) = g.next - 1
    BY <1>2, <1>3, <1>7
  <2> QED BY <1>1, <1>5, <1>7, <2>1 DEF ProgressOf, Running, Ingested
<1> QED BY <1>6, <1>7

\* The unit's SUCCEEDED manifest becomes its result, and the next unit, dbt or
\* the report follows.
LEMMA Advanced ==
    ASSUME BackfillInv, [Next]_vars, NEW c \in Client, flow[c].pc = "ingest",
           Inv', NEW m, m = runs'[RunOfUnit(c)], m.status = "SUCCEEDED", Advance(c, m)
    PROVE  \E g \in Flow : /\ flow' = [flow EXCEPT ![c] = g]
                           /\ ProgressOf(g)' /\ g.pc # "ingest"
<1>1. PICK f \in Flow : f = flow[c]
  BY DEF BackfillInv, BackfillTypeOK
<1>2. PICK q : q = UnitOf(c)
  OBVIOUS
<1>3. PICK b \in BOOLEAN : b = Reused(c)
  BY DEF Reused
<1>4. /\ ProgressOf(f) /\ f.pc \in Running
      /\ f.plan \in Plans /\ ValidPlan(f.plan) /\ f.next \in DOMAIN Expand(f.plan)
      /\ q \in Request /\ RunOf[q] \in Run /\ q = Expand(f.plan)[f.next]
      /\ RunOfUnit(c) = RunOf[q] /\ Units(c) = Expand(f.plan)
  BY <1>1, <1>2, CurrentUnit
     DEF BackfillInv, ProgressIsRecorded, Running, Units, UnitOf, RunOfUnit
<1>5. m \in Manifest /\ m = runs'[RunOf[q]]
  BY <1>4 DEF Inv, TypeOK
<1> DEFINE result == [req |-> q, accepted |-> m.accepted,
                      new_contents |-> IF b THEN 0 ELSE m.new_contents,
                      new_transitions |-> IF b THEN 0 ELSE m.new_transitions,
                      reused |-> b]
<1>5a. PICK l \in {"prior", "dbt", "report"}, n \in Nat :
           /\ l = (IF ~(f.next = Len(Expand(f.plan))) THEN "prior"
                   ELSE IF f.plan.dbt THEN "dbt" ELSE "report")
           /\ n = (IF f.next = Len(Expand(f.plan)) THEN f.next ELSE f.next + 1)
  BY DEF Flow
<1> DEFINE g == [f EXCEPT !.pc = l, !.next = n, !.retried = FALSE, !.prior = "ABSENT",
                          !.results = Append(f.results, result)]
<1>6. flow' = [flow EXCEPT ![c] = g]
  BY <1>1, <1>2, <1>3, <1>4, <1>5a DEF Advance
<1>7. result \in Result /\ Recorded(result, q)'
  BY <1>4, <1>5 DEF Result, Manifest, Recorded
<1> HIDE DEF result
<1>8. Append(f.results, result) \in Seq(Result) /\ f.next \in Nat
  BY <1>7 DEF Flow
<1>9. /\ g \in Flow
      /\ g.plan = f.plan /\ g.results = Append(f.results, result)
      /\ g.pc = l /\ g.next = n
  BY <1>5a, <1>8 DEF Flow, Status
<1> HIDE DEF g
<1>10. ProgressOf(g)'
  <2>1. \/ f.next = Len(Expand(f.plan)) /\ g.pc \in {"dbt", "report"}
        \/ f.next # Len(Expand(f.plan)) /\ g.pc = "prior" /\ g.next = f.next + 1
    BY <1>5a, <1>9
  <2> QED BY <1>4, <1>7, <1>9, <2>1, NextUnit
<1>11. g.pc # "ingest"
  BY <1>5a, <1>9
<1> QED BY <1>6, <1>9, <1>10, <1>11
LEMMA StopKeeps ==
    ASSUME BackfillInv, NEW c \in Client, Stop(c), flow[c].pc # "ingest", UNCHANGED vars,
           factKeys' \subseteq Key, counted' \in [Run -> 0..2]
    PROVE  BackfillInv'
<1>1. NoFlow \in Flow /\ ProgressOf(NoFlow) /\ NoFlow.pc # "ingest"
  BY NoProgress DEF NoFlow
<1> QED BY <1>1, FlowOnly DEF Stop

LEMMA AgainKeeps ==
    ASSUME BackfillInv, NEW c \in Client, NEW retryable \in BOOLEAN, Again(c, retryable),
           flow[c].pc \in {"prior", "state"}, UNCHANGED vars, UNCHANGED <<factKeys, counted>>
    PROVE  BackfillInv'
<1>1. factKeys' \subseteq Key /\ counted' \in [Run -> 0..2]
  BY DEF BackfillInv, BackfillTypeOK
<1>2. CASE Stop(c)
  BY <1>1, <1>2, StopKeeps
<1>3. CASE ~Stop(c)
  <2>1. PICK f \in Flow : f = flow[c] /\ ProgressOf(f)
    BY DEF BackfillInv, BackfillTypeOK, ProgressIsRecorded
  <2> DEFINE g == [f EXCEPT !.pc = "prior", !.retried = TRUE, !.prior = "ABSENT", !.error = "ok"]
  <2>2. flow' = [flow EXCEPT ![c] = g]
    BY <1>3, <2>1 DEF Again
  <2>3. /\ g \in Flow /\ g.pc = "prior" /\ g.plan = f.plan /\ g.next = f.next
        /\ g.results = f.results
    BY DEF Flow, Status, Outcome
  <2> HIDE DEF g
  <2>4. ProgressOf(g)
    BY <2>1, <2>3, SameProgress DEF Running
  <2> QED BY <1>1, <2>1, <2>2, <2>3, <2>4, FlowOnly
<1> QED BY <1>2, <1>3

\* Steps of a workflow that keep its place in the plan.
LEMMA PlaceKeeps ==
    ASSUME BackfillInv, NEW c \in Client, UNCHANGED vars, flow[c].pc # "ingest",
           factKeys' \subseteq Key, counted' \in [Run -> 0..2],
           NEW l \in {"call", "verify", "report", "reported"}, NEW s \in Status,
           flow' = [flow EXCEPT ![c] = [flow[c] EXCEPT !.pc = l, !.prior = s]],
           \/ flow[c].pc \in Running /\ l \in Running
           \/ flow[c].pc \in Ingested /\ l \in Ingested
    PROVE  BackfillInv'
<1>1. PICK f \in Flow : f = flow[c] /\ ProgressOf(f)
  BY DEF BackfillInv, BackfillTypeOK, ProgressIsRecorded
<1> DEFINE g == [f EXCEPT !.pc = l, !.prior = s]
<1>2. flow' = [flow EXCEPT ![c] = g]
  BY <1>1
<1>3. /\ g \in Flow /\ g.pc = l /\ g.plan = f.plan /\ g.next = f.next
      /\ g.results = f.results
  BY DEF Flow
<1> HIDE DEF g
<1>4. ProgressOf(g)
  BY <1>1, <1>3, SameProgress DEF Running, Ingested
<1> QED BY <1>1, <1>2, <1>3, <1>4, FlowOnly

\* The steps outside ingest().
LEMMA OutsideKeeps ==
    ASSUME BackfillInv, NEW c \in Client,
           \/ \E p \in Plans : StartBackfill(c, p)
           \/ ReadPrior(c) \/ PriorUnreadable(c) \/ ReadState(c)
           \/ BuildAnalytics(c) \/ BuildFails(c) \/ VerifyAnalytics(c) \/ Report(c)
    PROVE  BackfillInv'
<1>0. /\ flow \in [Client -> Flow] /\ flow[c] \in Flow /\ TypeOK
      /\ factKeys \subseteq Key /\ counted \in [Run -> 0..2]
      /\ flow[c].prior \in Status
  BY DEF BackfillInv, BackfillTypeOK, Flow
<1>1. PublishedKeys \subseteq Key
  BY <1>0 DEF PublishedKeys, TypeOK, TransitionRow
<1>2. ASSUME NEW p \in Plans, StartBackfill(c, p) PROVE BackfillInv'
  <2> DEFINE g == [NoFlow EXCEPT !.pc = "prior", !.plan = p]
  <2>1. /\ flow' = [flow EXCEPT ![c] = g] /\ ValidPlan(p) /\ UNCHANGED vars
        /\ factKeys' = factKeys /\ counted' = counted /\ flow[c].pc # "ingest"
    BY <1>2 DEF StartBackfill
  <2>2. /\ g \in Flow /\ g.pc = "prior" /\ g.plan = p /\ g.next = 1 /\ g.results = <<>>
    BY NoProgress DEF NoFlow, Flow, Status
  <2> HIDE DEF g
  <2>3. 1 \in DOMAIN Expand(p) /\ Len(g.results) = 0 /\ DOMAIN g.results = {}
    BY <2>1, <2>2, UnitFacts
  <2>4. ProgressOf(g)
    BY <2>1, <2>2, <2>3 DEF ProgressOf, Running, Ingested
  <2> QED BY <1>0, <2>1, <2>2, <2>4, FlowOnly
<1>3. CASE ReadPrior(c)
  <2>1. RunOfUnit(c) \in Run /\ flow[c].pc = "prior"
    BY <1>3, CurrentUnit DEF ReadPrior, Running
  <2>2. runs[RunOfUnit(c)].status \in Status
    BY <1>0, <2>1 DEF TypeOK, Manifest
  <2>3. /\ flow' = [flow EXCEPT ![c] = [flow[c] EXCEPT !.pc = "call",
                                            !.prior = runs[RunOfUnit(c)].status]]
        /\ UNCHANGED vars /\ factKeys' = factKeys /\ counted' = counted
    BY <1>3 DEF ReadPrior
  <2> QED BY <1>0, <2>1, <2>2, <2>3, PlaceKeeps DEF Running
<1>4. CASE PriorUnreadable(c)
  BY <1>4, AgainKeeps DEF PriorUnreadable
<1>5. CASE ReadState(c)
  <2>1. \/ Again(c, Retryable(flow[c].error, runs[RunOfUnit(c)].status))
        \/ Stop(c)
    BY <1>5 DEF ReadState
  <2>2. /\ flow[c].pc = "state" /\ UNCHANGED vars /\ factKeys' = factKeys
        /\ counted' = counted
    BY <1>5 DEF ReadState
  <2>3. CASE Stop(c)
    BY <1>0, <2>2, <2>3, StopKeeps
  <2>4. Retryable(flow[c].error, runs[RunOfUnit(c)].status) \in BOOLEAN
    BY DEF Retryable
  <2>5. CASE Again(c, Retryable(flow[c].error, runs[RunOfUnit(c)].status))
    BY <2>2, <2>4, <2>5, AgainKeeps
  <2> QED BY <2>1, <2>3, <2>5
<1>6. CASE BuildAnalytics(c)
  <2>1. /\ flow' = [flow EXCEPT ![c] = [flow[c] EXCEPT !.pc = "verify",
                                                       !.prior = flow[c].prior]]
        /\ flow[c].pc = "dbt" /\ UNCHANGED vars /\ factKeys' \subseteq Key
        /\ counted' = counted
    BY <1>0, <1>1, <1>6 DEF BuildAnalytics, Flow
  <2> QED BY <1>0, <2>1, PlaceKeeps DEF Ingested
<1>7. CASE BuildFails(c)
  BY <1>0, <1>1, <1>7, StopKeeps DEF BuildFails
<1>8. CASE VerifyAnalytics(c)
  <2>1. CASE Stop(c)
    BY <1>0, <1>8, <2>1, StopKeeps DEF VerifyAnalytics
  <2>2. CASE ~Stop(c)
    <3>1. /\ flow' = [flow EXCEPT ![c] = [flow[c] EXCEPT !.pc = "report",
                                                         !.prior = flow[c].prior]]
          /\ flow[c].pc = "verify" /\ UNCHANGED vars /\ factKeys' = factKeys
          /\ counted' = counted
      BY <1>0, <1>8, <2>2 DEF VerifyAnalytics, Flow
    <3> QED BY <1>0, <3>1, PlaceKeeps DEF Ingested
  <2> QED BY <2>1, <2>2
<1>9. CASE Report(c)
  <2>1. counted' \in [Run -> 0..2]
    BY <1>0, <1>9 DEF Report
  <2>2. /\ flow' = [flow EXCEPT ![c] = [flow[c] EXCEPT !.pc = "reported",
                                                       !.prior = flow[c].prior]]
        /\ flow[c].pc = "report" /\ UNCHANGED vars /\ factKeys' = factKeys
    BY <1>0, <1>9 DEF Report, Flow
  <2> QED BY <1>0, <2>1, <2>2, PlaceKeeps DEF Ingested
<1> QED BY <1>2, <1>3, <1>4, <1>5, <1>6, <1>7, <1>8, <1>9
\* A workflow calls ingest() for its current unit.
LEMMA CallKeeps ==
    ASSUME BackfillInv, NEW c \in Client, CallIngest(c)
    PROVE  BackfillInv'
<1>0. /\ Inv /\ TypeOK /\ flow \in [Client -> Flow] /\ flow[c].pc = "call"
      /\ beginJob \in [Run -> BeginJob] /\ client \in [Client -> ClientState]
      /\ factKeys' = factKeys /\ counted' = counted
  BY DEF BackfillInv, BackfillTypeOK, CallIngest, TypeOK
<1>1. PICK r \in Run, q \in Request : r = RunOfUnit(c) /\ q = UnitOf(c) /\ Reached(r)
  BY <1>0, CurrentUnit DEF Running
<1>2. StartIngest(c, r, q)
  BY <1>1 DEF CallIngest
<1>3. [Next]_vars
  BY <1>2 DEF Next
<1>4. Inv' /\ TypeOK'
  BY <1>0, <1>3, InvStep DEF Inv
<1>5. PICK f \in Flow : f = flow[c] /\ ProgressOf(f)
  BY <1>0 DEF BackfillInv, ProgressIsRecorded
<1> DEFINE g == [f EXCEPT !.pc = "ingest"]
<1>6. flow' = [flow EXCEPT ![c] = g]
  BY <1>0, <1>5 DEF CallIngest
<1>7. /\ g \in Flow /\ g.pc = "ingest" /\ g.plan = f.plan /\ g.next = f.next
      /\ g.results = f.results
  BY DEF Flow
<1> HIDE DEF g
<1>8. ProgressOf(g)
  BY <1>0, <1>5, <1>7, SameProgress DEF Running
<1>9. ProgressOf(g)'
  BY <1>3, <1>7, <1>8, WorkKept DEF BackfillInv
<1>10. ProgressIsRecorded' /\ flow' \in [Client -> Flow]
  BY <1>3, <1>6, <1>7, <1>9, OthersKept
<1>11. \A s \in Run : beginJob'[s].state # "none" =>
           beginJob[s].state # "none" \/ (s = r /\ Reached(r))
  BY <1>0, <1>1, <1>2 DEF StartIngest
<1>12. WorkIsReached'
  BY <1>3, <1>11, ReachedNext
<1>13. /\ client'[c].pc = "begin" /\ client'[c].run = r
       /\ \A d \in Client \ {c} : client'[d] = client[d]
  BY <1>0, <1>2 DEF StartIngest, Idle
<1>14. flow'[c] = g /\ \A d \in Client \ {c} : flow'[d] = flow[d]
  BY <1>0, <1>6
<1>15. RunOfUnit(c)' = r
  BY <1>1, <1>5, <1>7, <1>14 DEF RunOfUnit, UnitOf, Units
<1>16. CallsAreUnits'
  <2> SUFFICES ASSUME NEW d \in Client
               PROVE  /\ client'[d].pc # "idle" => flow'[d].pc = "ingest"
                      /\ flow'[d].pc = "ingest" =>
                             client'[d].pc # "idle" /\ client'[d].run = RunOfUnit(d)'
    BY DEF CallsAreUnits
  <2>1. CASE d = c
    BY <1>7, <1>13, <1>14, <1>15, <2>1
  <2>2. CASE d # c
    BY <1>13, <1>14, <2>2 DEF BackfillInv, CallsAreUnits, RunOfUnit, UnitOf, Units
  <2> QED BY <2>1, <2>2
<1> QED BY <1>0, <1>4, <1>10, <1>12, <1>16 DEF BackfillInv, BackfillTypeOK

\* An ingest() call that ends without a result leaves its workflow in doubt.
LEMMA InDoubt ==
    ASSUME BackfillInv, [Next]_vars, NEW c \in Client, flow[c].pc = "ingest",
           NEW outcome \in Outcome,
           flow' = [flow EXCEPT ![c] = [flow[c] EXCEPT !.pc = "state", !.error = outcome]]
    PROVE  \E g \in Flow : /\ flow' = [flow EXCEPT ![c] = g]
                           /\ ProgressOf(g)' /\ g.pc # "ingest"
<1>1. PICK f \in Flow : f = flow[c] /\ ProgressOf(f)
  BY DEF BackfillInv, BackfillTypeOK, ProgressIsRecorded
<1> DEFINE g == [f EXCEPT !.pc = "state", !.error = outcome]
<1>2. flow' = [flow EXCEPT ![c] = g]
  BY <1>1
<1>3. /\ g \in Flow /\ g.pc = "state" /\ g.plan = f.plan /\ g.next = f.next
      /\ g.results = f.results
  BY DEF Flow
<1> HIDE DEF g
<1>4. ProgressOf(g)
  BY <1>1, <1>3, SameProgress DEF Running
<1>5. ProgressOf(g)'
  BY <1>3, <1>4, WorkKept DEF BackfillInv
<1> QED BY <1>2, <1>3, <1>5

\* ingest() takes a step; where it returns, the manifest it read SUCCEEDED.
LEMMA IngestKeeps ==
    ASSUME BackfillInv, NEW c \in Client, IngestStep(c)
    PROVE  BackfillInv'
<1>0. /\ flow[c].pc = "ingest" /\ ClientStep(c) /\ [Next]_vars
      /\ UNCHANGED <<factKeys, counted>> /\ Inv /\ TypeOK
  BY DEF BackfillInv, BackfillTypeOK, IngestStep, Next
<1>1. /\ beginJob' = beginJob /\ \A d \in Client \ {c} : client'[d] = client[d]
      /\ client'[c].pc # "idle" => client'[c].run = client[c].run
      /\ client[c].pc # "idle" /\ client[c].run = RunOfUnit(c)
  BY <1>0, CallEffects DEF BackfillInv, CallsAreUnits
<1>2. CASE client'[c].pc # "idle" /\ UNCHANGED flow
  <2>1. \A d \in Client : /\ client'[d].pc # "idle" <=> client[d].pc # "idle"
                          /\ client'[d].run = client[d].run
    BY <1>1, <1>2
  <2>2. UNCHANGED workflow
    BY <1>0, <1>2 DEF workflow
  <2> QED BY <1>0, <1>1, <2>1, <2>2, CallGoesOn
<1>3. CASE client'[c].pc = "idle" /\ \E outcome \in OutcomesOf(c) : End(c, outcome)
  <2>1. PICK outcome \in OutcomesOf(c) : End(c, outcome)
    BY <1>3
  <2>2. /\ outcome \in Outcome
        /\ outcome = "ok" => runs'[client[c].run].status = "SUCCEEDED"
    <3> DEFINE done == runs'[client[c].run].status = "SUCCEEDED"
    <3>1. CASE client[c].pc = "read"
      <4>1. outcome \in IF done THEN {"ok"} ELSE {"fatal"}
        BY <2>1, <3>1 DEF OutcomesOf
      <4> QED BY <4>1 DEF Outcome
    <3>2. CASE client[c].pc = "finalize" /\ done
      <4>1. outcome \in {"ok", "transient", "fatal"}
        BY <2>1, <3>2 DEF OutcomesOf
      <4> QED BY <3>2, <4>1 DEF Outcome
    <3>3. CASE client[c].pc # "read" /\ ~(client[c].pc = "finalize" /\ done)
      <4>1. outcome \in {"unconfirmed", "transient", "fatal"}
        BY <2>1, <3>3 DEF OutcomesOf
      <4> QED BY <4>1 DEF Outcome
    <3> QED BY <3>1, <3>2, <3>3
  <2>3. Inv'
    BY <1>0, InvStep
  <2>4. CASE outcome = "ok"
    <3>1. PICK m : m = runs'[client[c].run]
      OBVIOUS
    <3>2. Advance(c, m)
      BY <2>1, <2>4, <3>1 DEF End
    <3>3. m = runs'[RunOfUnit(c)] /\ m.status = "SUCCEEDED"
      BY <1>1, <2>2, <2>4, <3>1
    <3>4. PICK g \in Flow : /\ flow' = [flow EXCEPT ![c] = g]
                            /\ ProgressOf(g)' /\ g.pc # "ingest"
      BY <1>0, <2>3, <3>2, <3>3, Advanced
    <3> QED BY <1>0, <1>3, <3>4, CallOver
  <2>5. CASE outcome # "ok"
    <3>1. flow' = [flow EXCEPT ![c] = [flow[c] EXCEPT !.pc = "state", !.error = outcome]]
      BY <2>1, <2>5 DEF End
    <3>2. PICK g \in Flow : /\ flow' = [flow EXCEPT ![c] = g]
                            /\ ProgressOf(g)' /\ g.pc # "ingest"
      BY <1>0, <2>2, <3>1, InDoubt
    <3> QED BY <1>0, <1>3, <3>2, CallOver
  <2> QED BY <2>4, <2>5
<1> QED BY <1>2, <1>3 DEF IngestStep

LEMMA InterruptKeeps ==
    ASSUME BackfillInv, NEW c \in Client, Interrupt(c)
    PROVE  BackfillInv'
<1>0. /\ flow[c].pc = "ingest" /\ Abandon(c) /\ [Next]_vars
      /\ UNCHANGED <<factKeys, counted>> /\ TypeOK
  BY DEF BackfillInv, BackfillTypeOK, Interrupt, Next
<1>1. client'[c].pc = "idle"
  BY <1>0 DEF Abandon, Leave, Idle, TypeOK
<1>2. PICK outcome \in RaisedAt(c) : End(c, outcome)
  BY DEF Interrupt
<1>3. outcome \in {"transient", "fatal", "unconfirmed"}
  BY <1>2 DEF RaisedAt
<1>4. flow' = [flow EXCEPT ![c] = [flow[c] EXCEPT !.pc = "state", !.error = outcome]]
  BY <1>2, <1>3 DEF End
<1>5. PICK g \in Flow : /\ flow' = [flow EXCEPT ![c] = g]
                        /\ ProgressOf(g)' /\ g.pc # "ingest"
  BY <1>0, <1>3, <1>4, InDoubt DEF Outcome
<1> QED BY <1>0, <1>1, <1>5, CallOver

LEMMA CrashKeeps ==
    ASSUME BackfillInv, NEW c \in Client, Crash(c)
    PROVE  BackfillInv'
<1>0. Stop(c) /\ UNCHANGED <<factKeys, counted>> /\ TypeOK
      /\ factKeys \subseteq Key /\ counted \in [Run -> 0..2]
  BY DEF BackfillInv, BackfillTypeOK, Crash
<1>1. CASE client[c].pc = "idle"
  <2>1. UNCHANGED vars /\ flow[c].pc # "ingest"
    BY <1>1 DEF Crash, BackfillInv, CallsAreUnits
  <2> QED BY <1>0, <2>1, StopKeeps
<1>2. CASE client[c].pc # "idle"
  <2>1. Abandon(c) /\ [Next]_vars
    BY <1>2 DEF Crash, Next
  <2>2. client'[c].pc = "idle"
    BY <1>0, <2>1 DEF Abandon, Leave, Idle, TypeOK
  <2>3. NoFlow \in Flow /\ ProgressOf(NoFlow) /\ NoFlow.pc # "ingest"
    BY NoProgress DEF NoFlow
  <2>4. ProgressOf(NoFlow)'
    BY <2>1, <2>3, WorkKept DEF BackfillInv, NoFlow
  <2>5. flow' = [flow EXCEPT ![c] = NoFlow]
    BY <1>0 DEF Stop
  <2> QED BY <1>0, <2>1, <2>2, <2>3, <2>4, <2>5, CallOver
<1> QED BY <1>1, <1>2

LEMMA ServerKeeps ==
    ASSUME BackfillInv, Server
    PROVE  BackfillInv'
<1>1. PICK r \in Run : ServerStep(r) \/ ExpireJob(r)
  BY DEF Server
<1>2. UNCHANGED workflow /\ [Next]_vars /\ TypeOK
  BY <1>1 DEF Server, Next, BackfillInv, BackfillTypeOK
<1> QED BY <1>1, <1>2, ServerEffects, CallGoesOn

----------------------------------------------------------------------------
(* The invariant, and what follows from it.                                *)

LEMMA BackfillInitInv == BackfillInit => BackfillInv
<1> SUFFICES ASSUME BackfillInit PROVE BackfillInv
  OBVIOUS
<1>1. Inv /\ TypeOK
  BY InitLemma DEF BackfillInit, Inv
<1>2. flow = [c \in Client |-> NoFlow] /\ NoFlow \in Flow /\ NoFlow.pc = "idle"
  BY NoProgress DEF BackfillInit, NoFlow
<1>3. BackfillTypeOK
  BY <1>1, <1>2 DEF BackfillInit, BackfillTypeOK
<1>4. ProgressIsRecorded
  BY <1>2, NoProgress DEF ProgressIsRecorded
<1>5. CallsAreUnits
  BY <1>2 DEF CallsAreUnits, BackfillInit, Init, Idle
<1>6. WorkIsReached
  BY DEF WorkIsReached, BackfillInit, Init, NoManifest
<1> QED BY <1>1, <1>3, <1>4, <1>5, <1>6 DEF BackfillInv

LEMMA BackfillNextInv == BackfillInv /\ [BackfillNext]_allVars => BackfillInv'
<1> SUFFICES ASSUME BackfillInv, [BackfillNext]_allVars PROVE BackfillInv'
  OBVIOUS
<1>1. ASSUME NEW c \in Client, NEW p \in Plans, StartBackfill(c, p) PROVE BackfillInv'
  BY <1>1, OutsideKeeps
<1>2. ASSUME NEW c \in Client, FlowStep(c) PROVE BackfillInv'
  BY <1>2, OutsideKeeps, CallKeeps, IngestKeeps DEF FlowStep
<1>3. ASSUME NEW c \in Client, Trouble(c) PROVE BackfillInv'
  BY <1>3, OutsideKeeps, InterruptKeeps, CrashKeeps DEF Trouble
<1>4. CASE Server
  BY <1>4, ServerKeeps
<1>5. CASE UNCHANGED allVars
  <2>1. UNCHANGED vars /\ UNCHANGED workflow
    BY <1>5 DEF allVars
  <2>2. client' = client /\ beginJob' = beginJob
    BY <2>1 DEF vars
  <2> QED BY <2>1, <2>2, CallGoesOn
<1> QED BY <1>1, <1>2, <1>3, <1>4, <1>5 DEF BackfillNext

\* A step of the orchestration is one of the commit protocol, or leaves it alone.
LEMMA StepIsProtocol ==
    ASSUME BackfillInv, [BackfillNext]_allVars
    PROVE  [Next]_vars
<1>1. ASSUME NEW c \in Client, CallIngest(c) PROVE [Next]_vars
  <2>1. RunOfUnit(c) \in Run /\ UnitOf(c) \in Request
    BY <1>1, CurrentUnit DEF CallIngest, Running
  <2>2. StartIngest(c, RunOfUnit(c), UnitOf(c))
    BY <1>1 DEF CallIngest
  <2> QED BY <2>1, <2>2 DEF Next
<1>2. ASSUME NEW c \in Client, IngestStep(c) \/ Interrupt(c) PROVE [Next]_vars
  BY <1>2 DEF IngestStep, Interrupt, Next
<1>3. ASSUME NEW c \in Client, Crash(c) PROVE [Next]_vars
  BY <1>3 DEF Crash, Next
<1>4. CASE Server
  BY <1>4 DEF Server, Next
<1>5. ASSUME NEW c \in Client,
             \/ \E p \in Plans : StartBackfill(c, p)
             \/ ReadPrior(c) \/ PriorUnreadable(c) \/ ReadState(c)
             \/ BuildAnalytics(c) \/ BuildFails(c) \/ VerifyAnalytics(c) \/ Report(c)
      PROVE  UNCHANGED vars
  BY <1>5 DEF StartBackfill, ReadPrior, PriorUnreadable, ReadState, BuildAnalytics,
     BuildFails, VerifyAnalytics, Report
<1>6. CASE UNCHANGED allVars
  BY <1>6 DEF allVars
<1> QED BY <1>1, <1>2, <1>3, <1>4, <1>5, <1>6 DEF BackfillNext, FlowStep, Trouble

LEMMA BackfillHolds == BackfillSpec => []BackfillInv
BY BackfillInitInv, BackfillNextInv, PTL DEF BackfillSpec

\* The workflows, their results and the counts of reports keep their types, for
\* any number of workflow processes and any set of plans.
THEOREM BackfillTypeCorrect == BackfillSpec => []BackfillTypeOK
<1>1. BackfillInv => BackfillTypeOK
  BY DEF BackfillInv
<1> QED BY <1>1, BackfillHolds, PTL

\* What a step of the orchestration does to the raw warehouse is a step of the
\* commit protocol or nothing, so everything proved of Spec holds under it.
THEOREM BackfillUsesProtocol == BackfillSpec => Spec
<1>1. BackfillInit => Init
  BY DEF BackfillInit
<1> QED BY <1>1, StepIsProtocol, BackfillHolds, PTL DEF BackfillSpec, Spec

\* execute_unit() and the report: past ingestion the results are the units of
\* the plan, in their order, each with what its SUCCEEDED manifest says.
THEOREM ReportsCorrect == BackfillSpec => []ReportsAreComplete
<1>1. ASSUME BackfillInv PROVE ReportsAreComplete
  <2> SUFFICES ASSUME NEW c \in Client, flow[c].pc \in Ingested
               PROVE  /\ Len(flow[c].results) = Len(Units(c))
                      /\ \A i \in DOMAIN Units(c) :
                             Recorded(flow[c].results[i], Units(c)[i])
    BY DEF ReportsAreComplete, Recorded, Ingested
  <2>1. flow[c] \in Flow /\ ProgressOf(flow[c]) /\ flow[c].pc # "idle"
    BY <1>1 DEF BackfillInv, BackfillTypeOK, ProgressIsRecorded, Ingested
  <2>2. /\ flow[c].plan \in Plans /\ ValidPlan(flow[c].plan)
        /\ Len(flow[c].results) = Len(Expand(flow[c].plan))
        /\ flow[c].results \in Seq(Result)
    BY <2>1 DEF ProgressOf, Flow
  <2>3. DOMAIN Expand(flow[c].plan) = DOMAIN flow[c].results
    BY <2>2, UnitFacts
  <2> QED BY <2>1, <2>2, <2>3 DEF ProgressOf, Units
<1>2. BackfillInv => ReportsAreComplete
  BY <1>1
<1> QED BY <1>2, BackfillHolds, PTL

\* expand() and the unit loop of the backfill task: a manifest exists only for a
\* unit that a valid plan reached with every unit before it SUCCEEDED.
THEOREM OrderCorrect == BackfillSpec => []UnitsStartInOrder
<1>1. ASSUME BackfillInv PROVE UnitsStartInOrder
  <2> SUFFICES ASSUME NEW q \in Request, runs[RunOf[q]].status # "ABSENT"
               PROVE  \E p \in {v \in Plans : ValidPlan(v)} : \E i \in DOMAIN Expand(p) :
                          /\ Expand(p)[i] = q
                          /\ \A j \in 1..(i - 1) : runs[RunOf[Expand(p)[j]]].status = "SUCCEEDED"
    BY DEF UnitsStartInOrder
  <2>1. RunOf[q] \in Run
    BY BackfillAssumption
  <2>2. Reached(RunOf[q])
    BY <1>1, <2>1 DEF BackfillInv, WorkIsReached
  <2>3. PICK p \in {v \in Plans : ValidPlan(v)} : \E i \in DOMAIN Expand(p) :
            /\ RunOf[Expand(p)[i]] = RunOf[q]
            /\ \A j \in 1..(i - 1) : runs[RunOf[Expand(p)[j]]].status = "SUCCEEDED"
    BY <2>2 DEF Reached
  <2>4. \A i \in DOMAIN Expand(p) : RunOf[Expand(p)[i]] = RunOf[q] => Expand(p)[i] = q
    BY <2>3, UnitFacts, BackfillAssumption
  <2> QED BY <2>3, <2>4
<1>2. BackfillInv => UnitsStartInOrder
  BY <1>1
<1> QED BY <1>2, BackfillHolds, PTL

----------------------------------------------------------------------------
(* One workflow process at a time.                                         *)

\* What the reports have counted is not about to be counted by a workflow in
\* state f again.
NewOf(f) ==
    /\ f.pc \in {"call", "ingest", "state"} /\ f.prior # "SUCCEEDED" =>
           counted[RunOf[Expand(f.plan)[f.next]]] = 0
    /\ f.pc \notin {"idle", "reported"} =>
           \A i \in DOMAIN f.results :
               ~f.results[i].reused => counted[RunOf[f.results[i].req]] = 0

CountsAreNew ==
    /\ \A r \in Run : counted[r] \in {0, 1}
    /\ \A r \in Run : counted[r] = 1 => runs[r].status = "SUCCEEDED"
    /\ \A c \in Client : NewOf(flow[c])

\* What a workflow does to its own state between its reports: it stays, stops or
\* starts, goes on with its unit, or records the unit's result.
LEMMA FlowMoves ==
    ASSUME BackfillInv, NEW c \in Client, NEW f, f = flow[c], NEW g, g = flow'[c],
           \/ FlowStep(c) \/ Trouble(c)
           \/ \E p \in Plans : StartBackfill(c, p),
           ~Report(c)
    PROVE  /\ counted' = counted
           /\ \/ g = f
              \/ g.results = <<>> /\ g.pc \in {"idle", "prior"}
              \/ /\ g.plan = f.plan /\ g.next = f.next /\ g.results = f.results
                 /\ f.pc \notin {"idle", "reported"}
                 /\ g.pc \in {"call", "ingest", "state"} =>
                        \/ g.prior = f.prior /\ f.pc \in {"call", "ingest"}
                        \/ g.prior = runs[RunOfUnit(c)].status /\ f.pc = "prior"
              \/ \E result \in Result :
                     /\ f.pc = "ingest" /\ g.pc \notin {"call", "ingest", "state"}
                     /\ g.results = Append(f.results, result)
                     /\ result.req = UnitOf(c) /\ (result.reused <=> f.prior = "SUCCEEDED")
<1>0. flow \in [Client -> Flow] /\ f \in Flow
  BY DEF BackfillInv, BackfillTypeOK
<1> DEFINE Goal == \/ g = f
                   \/ g.results = <<>> /\ g.pc \in {"idle", "prior"}
                   \/ /\ g.plan = f.plan /\ g.next = f.next /\ g.results = f.results
                      /\ f.pc \notin {"idle", "reported"}
                      /\ g.pc \in {"call", "ingest", "state"} =>
                             \/ g.prior = f.prior /\ f.pc \in {"call", "ingest"}
                             \/ g.prior = runs[RunOfUnit(c)].status /\ f.pc = "prior"
                   \/ \E result \in Result :
                          /\ f.pc = "ingest" /\ g.pc \notin {"call", "ingest", "state"}
                          /\ g.results = Append(f.results, result)
                          /\ result.req = UnitOf(c)
                          /\ (result.reused <=> f.prior = "SUCCEEDED")
<1>1. ASSUME Stop(c) PROVE Goal
  <2>1. g = NoFlow
    BY <1>0, <1>1 DEF Stop
  <2> QED BY <2>1 DEF NoFlow
<1>2. ASSUME NEW p \in Plans, StartBackfill(c, p) PROVE Goal
  <2>1. g = [NoFlow EXCEPT !.pc = "prior", !.plan = p]
    BY <1>0, <1>2 DEF StartBackfill
  <2> QED BY <2>1 DEF NoFlow
<1>3. ASSUME NEW b, Again(c, b), f.pc \in {"prior", "state"} PROVE Goal
  <2>1. CASE Stop(c)
    BY <1>1, <2>1
  <2>2. CASE ~Stop(c)
    <3>1. g = [f EXCEPT !.pc = "prior", !.retried = TRUE, !.prior = "ABSENT", !.error = "ok"]
      BY <1>0, <1>3, <2>2 DEF Again
    <3> QED BY <1>0, <1>3, <3>1 DEF Flow
  <2> QED BY <2>1, <2>2
<1>4. CASE ReadPrior(c)
  <2>1. g = [f EXCEPT !.pc = "call", !.prior = runs[RunOfUnit(c)].status] /\ f.pc = "prior"
    BY <1>0, <1>4 DEF ReadPrior
  <2>2. counted' = counted
    BY <1>4 DEF ReadPrior
  <2> QED BY <1>0, <2>1, <2>2 DEF Flow
<1>5. CASE PriorUnreadable(c)
  BY <1>3, <1>5 DEF PriorUnreadable
<1>6. CASE CallIngest(c)
  <2>1. g = [f EXCEPT !.pc = "ingest"] /\ f.pc = "call" /\ counted' = counted
    BY <1>0, <1>6 DEF CallIngest
  <2> QED BY <1>0, <2>1 DEF Flow
<1>7. ASSUME NEW m, Advance(c, m), f.pc = "ingest", Inv', m = runs'[RunOfUnit(c)] PROVE Goal
  <2>1. PICK q : q = UnitOf(c)
    OBVIOUS
  <2>2. PICK b \in BOOLEAN : b = Reused(c) /\ (b <=> f.prior = "SUCCEEDED")
    BY DEF Reused
  <2>3. q \in Request /\ m \in Manifest
    <3>1. UnitOf(c) \in Request /\ RunOfUnit(c) \in Run
      BY <1>7, CurrentUnit DEF Running
    <3> QED BY <1>7, <2>1, <3>1 DEF Inv, TypeOK
  <2> DEFINE result == [req |-> q, accepted |-> m.accepted,
                        new_contents |-> IF b THEN 0 ELSE m.new_contents,
                        new_transitions |-> IF b THEN 0 ELSE m.new_transitions,
                        reused |-> b]
  <2>4. PICK l \in {"prior", "dbt", "report"} :
            l = IF ~(f.next = Len(Units(c))) THEN "prior"
                ELSE IF f.plan.dbt THEN "dbt" ELSE "report"
    OBVIOUS
  <2>4a. PICK n : n = IF f.next = Len(Units(c)) THEN f.next ELSE f.next + 1
    OBVIOUS
  <2>5. flow' = [flow EXCEPT ![c] = [f EXCEPT !.pc = l, !.next = n, !.retried = FALSE,
                     !.prior = "ABSENT", !.results = Append(f.results, result)]]
    BY <1>7, <2>1, <2>2, <2>4, <2>4a DEF Advance
  <2>6. result \in Result /\ result.req = q /\ result.reused = b
    BY <2>3 DEF Result, Manifest
  <2> HIDE DEF result
  <2>7. g.pc = l /\ g.results = Append(f.results, result)
    BY <1>0, <2>5 DEF Flow
  <2> QED BY <1>7, <2>1, <2>2, <2>4, <2>6, <2>7
<1>8. ASSUME NEW outcome, f.pc = "ingest",
             flow' = [flow EXCEPT ![c] = [flow[c] EXCEPT !.pc = "state", !.error = outcome]]
      PROVE  Goal
  <2>1. g = [f EXCEPT !.pc = "state", !.error = outcome]
    BY <1>0, <1>8
  <2> QED BY <1>0, <1>8, <2>1 DEF Flow
<1>9. CASE IngestStep(c)
  <2>1. f.pc = "ingest" /\ counted' = counted /\ ClientStep(c) /\ client[c].run = RunOfUnit(c)
    BY <1>9 DEF IngestStep, BackfillInv, CallsAreUnits
  <2>2. Inv'
    BY <2>1, InvStep DEF Next, BackfillInv
  <2>3. CASE UNCHANGED flow
    BY <2>1, <2>3
  <2>4. CASE \E outcome \in OutcomesOf(c) : End(c, outcome)
    <3>1. PICK outcome \in OutcomesOf(c) : End(c, outcome)
      BY <2>4
    <3>2. CASE outcome = "ok"
      <4>1. PICK m : m = runs'[client[c].run]
        OBVIOUS
      <4>2. Advance(c, m) /\ m = runs'[RunOfUnit(c)]
        BY <2>1, <3>1, <3>2, <4>1 DEF End
      <4> QED BY <1>7, <2>1, <2>2, <4>2
    <3>3. CASE outcome # "ok"
      BY <1>8, <2>1, <3>1, <3>3 DEF End
    <3> QED BY <3>2, <3>3
  <2> QED BY <1>9, <2>3, <2>4 DEF IngestStep
<1>10. CASE Interrupt(c)
  <2>1. f.pc = "ingest" /\ counted' = counted
    BY <1>10 DEF Interrupt
  <2>2. PICK outcome \in RaisedAt(c) : End(c, outcome)
    BY <1>10 DEF Interrupt
  <2>3. outcome # "ok"
    BY <2>2 DEF RaisedAt
  <2> QED BY <1>8, <2>1, <2>2, <2>3 DEF End
<1>11. CASE ReadState(c)
  BY <1>1, <1>3, <1>11 DEF ReadState
<1>12. CASE Crash(c)
  BY <1>1, <1>12 DEF Crash
<1>13. CASE BuildFails(c)
  BY <1>1, <1>13 DEF BuildFails
<1>14. CASE BuildAnalytics(c)
  <2>1. g = [f EXCEPT !.pc = "verify"] /\ f.pc = "dbt" /\ counted' = counted
    BY <1>0, <1>14 DEF BuildAnalytics
  <2> QED BY <1>0, <2>1 DEF Flow
<1>15. CASE VerifyAnalytics(c)
  <2>1. CASE Stop(c)
    BY <1>1, <1>15, <2>1 DEF VerifyAnalytics
  <2>2. CASE ~Stop(c)
    <3>1. g = [f EXCEPT !.pc = "report"] /\ f.pc = "verify" /\ counted' = counted
      BY <1>0, <1>15, <2>2 DEF VerifyAnalytics
    <3> QED BY <1>0, <3>1 DEF Flow
  <2> QED BY <1>15, <2>1, <2>2 DEF VerifyAnalytics
<1>16. counted' = counted
  BY DEF FlowStep, Trouble, StartBackfill, ReadPrior, PriorUnreadable, CallIngest, IngestStep,
     ReadState, BuildAnalytics, VerifyAnalytics, Interrupt, Crash, BuildFails
<1>17. Goal
  BY <1>2, <1>4, <1>5, <1>6, <1>9, <1>10, <1>11, <1>12, <1>13, <1>14, <1>15
     DEF FlowStep, Trouble
<1> QED BY <1>16, <1>17
\* The claim carried over a step that counts nothing.
LEMMA CountsCarried ==
    ASSUME BackfillInv, CountsAreNew, [Next]_vars, counted' = counted,
           \A c \in Client : NewOf(flow'[c])
    PROVE  CountsAreNew'
<1>1. \A r \in Run : runs[r].status = "SUCCEEDED" => runs'[r] = runs[r]
  BY KeepsHistoryStep DEF KeepsHistory, BackfillInv
<1>2. \A r \in Run : /\ counted'[r] \in {0, 1}
                     /\ counted'[r] = 1 => runs'[r].status = "SUCCEEDED"
  BY <1>1 DEF CountsAreNew
<1>3. \A c \in Client : NewOf(flow[c])'
  BY DEF NewOf
<1> QED BY <1>2, <1>3 DEF CountsAreNew

\* A report counts runs that SUCCEEDED, and that nothing had counted.
LEMMA ReportCounts ==
    ASSUME BackfillInv, CountsAreNew, NEW c \in Client, \A d \in Client : d = c, Report(c)
    PROVE  CountsAreNew'
<1>0. /\ flow[c].pc = "report" /\ flow' = [flow EXCEPT ![c].pc = "reported"]
      /\ flow \in [Client -> Flow] /\ flow[c] \in Flow /\ runs' = runs
      /\ counted \in [Run -> 0..2]
  BY DEF Report, BackfillInv, BackfillTypeOK, vars
<1>1. flow'[c].pc = "reported"
  BY <1>0 DEF Flow
<1>2. ProgressOf(flow[c]) /\ NewOf(flow[c])
  BY DEF BackfillInv, ProgressIsRecorded, CountsAreNew
<1>3. ASSUME NEW i \in DOMAIN flow[c].results
      PROVE  /\ runs[RunOf[flow[c].results[i].req]].status = "SUCCEEDED"
             /\ ~flow[c].results[i].reused => counted[RunOf[flow[c].results[i].req]] = 0
  BY <1>0, <1>2 DEF ProgressOf, NewOf, Recorded
<1>4. ASSUME NEW r \in Run
      PROVE  counted'[r] \in {0, 1} /\ (counted'[r] = 1 => runs'[r].status = "SUCCEEDED")
  <2>1. counted[r] \in {0, 1} /\ (counted[r] = 1 => runs[r].status = "SUCCEEDED")
    BY DEF CountsAreNew
  <2>2. CASE \E i \in DOMAIN flow[c].results :
                 RunOf[flow[c].results[i].req] = r /\ ~flow[c].results[i].reused
    <3>1. counted[r] = 0 /\ runs[r].status = "SUCCEEDED"
      BY <1>3, <2>2
    <3>2. counted'[r] = 1
      BY <2>2, <3>1 DEF Report
    <3> QED BY <1>0, <3>1, <3>2
  <2>3. CASE ~\E i \in DOMAIN flow[c].results :
                 RunOf[flow[c].results[i].req] = r /\ ~flow[c].results[i].reused
    <3>1. counted'[r] = counted[r]
      BY <2>3 DEF Report
    <3> QED BY <1>0, <2>1, <3>1
  <2> QED BY <2>2, <2>3
<1>5. \A d \in Client : NewOf(flow[d])'
  BY <1>1 DEF NewOf
<1> QED BY <1>4, <1>5 DEF CountsAreNew

\* Between reports, a workflow comes to a result that is not reused only from a
\* run that was not SUCCEEDED when it looked.
LEMMA MoveIsNew ==
    ASSUME BackfillInv, CountsAreNew, NEW c \in Client, \A d \in Client : d = c,
           [Next]_vars, \/ FlowStep(c) \/ Trouble(c)
                        \/ \E p \in Plans : StartBackfill(c, p),
           ~Report(c)
    PROVE  CountsAreNew'
<1>1. PICK f \in Flow : f = flow[c] /\ NewOf(f) /\ ProgressOf(f)
  BY DEF BackfillInv, BackfillTypeOK, ProgressIsRecorded, CountsAreNew
<1>2. PICK g : g = flow'[c]
  OBVIOUS
<1>3. counted' = counted
  BY <1>1, <1>2, FlowMoves
<1>4. CASE g = f
  BY <1>1, <1>2, <1>3, <1>4, CountsCarried
<1>5. CASE g.results = <<>> /\ g.pc \in {"idle", "prior"}
  <2>1. DOMAIN g.results = {}
    BY <1>5
  <2>2. NewOf(g)
    BY <1>5, <2>1 DEF NewOf
  <2> QED BY <1>2, <1>3, <2>2, CountsCarried
<1>6. CASE /\ g.plan = f.plan /\ g.next = f.next /\ g.results = f.results
           /\ f.pc \notin {"idle", "reported"}
           /\ g.pc \in {"call", "ingest", "state"} =>
                  \/ g.prior = f.prior /\ f.pc \in {"call", "ingest"}
                  \/ g.prior = runs[RunOfUnit(c)].status /\ f.pc = "prior"
  <2>1. ASSUME g.pc \in {"call", "ingest", "state"}, g.prior # "SUCCEEDED"
        PROVE  counted[RunOf[Expand(g.plan)[g.next]]] = 0
    <3>1. CASE g.prior = f.prior /\ f.pc \in {"call", "ingest"}
      BY <1>1, <1>6, <2>1, <3>1 DEF NewOf
    <3>2. CASE g.prior = runs[RunOfUnit(c)].status /\ f.pc = "prior"
      <4>1. RunOfUnit(c) \in Run /\ RunOfUnit(c) = RunOf[Expand(f.plan)[f.next]]
        BY <1>1, <3>2, CurrentUnit DEF Running, RunOfUnit, UnitOf, Units
      <4> QED BY <1>6, <2>1, <3>2, <4>1 DEF CountsAreNew
    <3> QED BY <1>6, <2>1, <3>1, <3>2
  <2>2. NewOf(g)
    BY <1>1, <1>6, <2>1 DEF NewOf
  <2> QED BY <1>2, <1>3, <2>2, CountsCarried
<1>7. CASE \E result \in Result :
               /\ f.pc = "ingest" /\ g.pc \notin {"call", "ingest", "state"}
               /\ g.results = Append(f.results, result)
               /\ result.req = UnitOf(c) /\ (result.reused <=> f.prior = "SUCCEEDED")
  <2>1. PICK result \in Result :
            /\ f.pc = "ingest" /\ g.pc \notin {"call", "ingest", "state"}
            /\ g.results = Append(f.results, result)
            /\ result.req = UnitOf(c) /\ (result.reused <=> f.prior = "SUCCEEDED")
    BY <1>7
  <2>2. ~result.reused => counted[RunOf[result.req]] = 0
    BY <1>1, <2>1 DEF NewOf, UnitOf, Units
  <2>3. \A i \in DOMAIN f.results :
            ~f.results[i].reused => counted[RunOf[f.results[i].req]] = 0
    BY <1>1, <2>1 DEF NewOf
  <2>4. f.results \in Seq(Result)
    BY DEF Flow
  <2>5. \A i \in DOMAIN g.results : g.results[i] = result \/ (i \in DOMAIN f.results
                                                              /\ g.results[i] = f.results[i])
    BY <2>1, <2>4
  <2>6. NewOf(g)
    BY <2>1, <2>2, <2>3, <2>5 DEF NewOf
  <2> QED BY <1>2, <1>3, <2>6, CountsCarried
<1>8. \/ g = f
      \/ g.results = <<>> /\ g.pc \in {"idle", "prior"}
      \/ /\ g.plan = f.plan /\ g.next = f.next /\ g.results = f.results
         /\ f.pc \notin {"idle", "reported"}
         /\ g.pc \in {"call", "ingest", "state"} =>
                \/ g.prior = f.prior /\ f.pc \in {"call", "ingest"}
                \/ g.prior = runs[RunOfUnit(c)].status /\ f.pc = "prior"
      \/ \E result \in Result :
             /\ f.pc = "ingest" /\ g.pc \notin {"call", "ingest", "state"}
             /\ g.results = Append(f.results, result)
             /\ result.req = UnitOf(c) /\ (result.reused <=> f.prior = "SUCCEEDED")
  BY <1>1, <1>2, FlowMoves
<1> QED BY <1>4, <1>5, <1>6, <1>7, <1>8

LEMMA CountsNext ==
    ASSUME BackfillInv, CountsAreNew, [BackfillNext]_allVars, \A c, d \in Client : c = d
    PROVE  CountsAreNew'
<1>0. [Next]_vars
  BY StepIsProtocol
<1>1. ASSUME NEW c \in Client, FlowStep(c) \/ Trouble(c) \/ \E p \in Plans : StartBackfill(c, p)
      PROVE  CountsAreNew'
  <2>1. \A d \in Client : d = c
    OBVIOUS
  <2> QED BY <1>0, <1>1, <2>1, ReportCounts, MoveIsNew
<1>2. CASE UNCHANGED workflow
  <2>1. flow' = flow /\ counted' = counted
    BY <1>2 DEF workflow
  <2> QED BY <1>0, <2>1, CountsCarried DEF CountsAreNew
<1>3. UNCHANGED allVars => UNCHANGED workflow
  BY DEF allVars
<1> QED BY <1>1, <1>2, <1>3 DEF BackfillNext, Server

\* Where the workflows of a backfill ID do not overlap in time, the rows that a
\* run added are counted as new by at most one report, retries, interruptions
\* and resumed workflows included (execute_unit()'s prior manifest).
THEOREM CountedOnceCorrect ==
    ASSUME \A c, d \in Client : c = d
    PROVE  BackfillSpec => []NewRowsCountedOnce
<1>1. BackfillInit => CountsAreNew
  BY DEF BackfillInit, CountsAreNew, NewOf, NoFlow
<1>2. BackfillInv /\ CountsAreNew /\ [BackfillNext]_allVars => CountsAreNew'
  BY CountsNext
<1>3. CountsAreNew => NewRowsCountedOnce
  BY DEF CountsAreNew, NewRowsCountedOnce
<1> QED BY <1>1, <1>2, <1>3, BackfillHolds, PTL DEF BackfillSpec
----------------------------------------------------------------------------
(* Verification: what runs, plans and calls know of their unit's keys.     *)

\* The keys of the request whose unit has run r.
KeysFor(r) == UNION {KeysOf[q] : q \in {x \in Request : RunOf[x] = r}}

\* A call is made for the run of its request and fetches keys of that request;
\* plans in flight and accepted batches have no others.
CallsKeepToUnit ==
    \A c \in Client : client[c].stage # "resume" =>
        /\ RunOf[client[c].req] = client[c].run
        /\ DOMAIN client[c].batch \subseteq KeysOf[client[c].req]

PlansKeepToUnit == \A p \in PlansInFlight : DOMAIN p.plan.batch \subseteq KeysFor(p.run)

RunsKeepToUnit ==
    \A r \in Run : Committed(r) =>
        /\ runs[r].accepted = Cardinality(DOMAIN runs[r].batch_hash)
        /\ DOMAIN runs[r].batch_hash \subseteq KeysFor(r)

\* What a call's next step does to what it was made for.
LEMMA CallData ==
    ASSUME TypeOK, ClientsAreBound, NEW c \in Client, ClientStep(c) \/ Abandon(c),
           client'[c].stage # "resume"
    PROVE  /\ client[c].stage # "resume"
           /\ client'[c].run = client[c].run /\ client'[c].req = client[c].req
           /\ \/ client'[c].batch = client[c].batch
              \/ DOMAIN client'[c].batch \subseteq KeysOf[client[c].req]
<1>0. client[c] \in ClientState /\ client \in [Client -> ClientState]
  BY DEF TypeOK
<1> DEFINE Kept == /\ client[c].stage # "resume"
                   /\ client'[c].run = client[c].run /\ client'[c].req = client[c].req
                   /\ \/ client'[c].batch = client[c].batch
                      \/ DOMAIN client'[c].batch \subseteq KeysOf[client[c].req]
<1>1. ~Leave(c)
  BY <1>0 DEF Leave, Idle
<1>2. ASSUME NEW l, Goto(c, l) PROVE Kept
  <2>1. client'[c] = [client[c] EXCEPT !.pc = l]
    BY <1>0, <1>2 DEF Goto
  <2> QED BY <1>0, <2>1 DEF ClientState
<1>3. CASE AwaitBegin(c) \/ LookupJob(c) \/ Abandon(c) \/ RecordFailure(c) \/ Finalize(c)
  BY <1>1, <1>2, <1>3 DEF AwaitBegin, LookupJob, Abandon, RecordFailure, Finalize
<1>4. CASE ReadManifest(c)
  <2>1. PICK s : client' = [client EXCEPT ![c] = [@ EXCEPT !.pc = "lookup", !.seen = s]]
    BY <1>1, <1>4 DEF ReadManifest
  <2> QED BY <1>0, <2>1 DEF ClientState
<1>5. CASE Fetch(c)
  <2>1. CASE \E l : Goto(c, l)
    BY <1>2, <2>1
  <2>2. CASE ~\E l : Goto(c, l)
    <3>1. PICK b \in UNION {[S -> Value] : S \in SUBSET KeysOf[client[c].req]} :
              client' = [client EXCEPT ![c] = [@ EXCEPT
                             !.pc = "read", !.stage = "persist", !.batch = b]]
      BY <1>5, <2>2 DEF Fetch
    <3>2. client[c].stage # "resume"
      BY <1>5 DEF Fetch, ClientsAreBound
    <3>3. client'[c].run = client[c].run /\ client'[c].req = client[c].req
          /\ client'[c].batch = b
      BY <1>0, <3>1 DEF ClientState
    <3> QED BY <3>2, <3>3
  <2> QED BY <2>1, <2>2
<1>6. CASE TakeSnapshot(c)
  <2>1. CASE Goto(c, "fail")
    BY <1>2, <2>1
  <2>2. CASE ~Goto(c, "fail")
    <3>1. PICK p : client' = [client EXCEPT ![c] = [@ EXCEPT
                              !.pc = "submit", !.batch = NoBatch, !.plan = p]]
      BY <1>6, <2>2 DEF TakeSnapshot
    <3>2. DOMAIN NoBatch = {}
      BY DEF NoBatch
    <3>3. client'[c].run = client[c].run /\ client'[c].req = client[c].req
          /\ client'[c].batch = NoBatch
      BY <1>0, <3>1 DEF ClientState
    <3>4. client[c].stage # "resume"
      BY <1>6 DEF TakeSnapshot, ClientsAreBound
    <3> QED BY <3>2, <3>3, <3>4
  <2> QED BY <2>1, <2>2
<1>7. CASE SubmitCommit(c)
  <2>1. client' = [client EXCEPT ![c] = [@ EXCEPT
                       !.pc = "read", !.stage = "submitted", !.plan = NoPlan]]
    BY <1>7 DEF SubmitCommit
  <2>2. client[c].stage # "resume"
    BY <1>7 DEF SubmitCommit, ClientsAreBound
  <2> QED BY <1>0, <2>1, <2>2 DEF ClientState
<1>8. CASE AwaitCommit(c)
  <2>1. CASE Goto(c, "fail")
    BY <1>2, <2>1
  <2>2. CASE ~Goto(c, "fail")
    <3>1. PICK t : client' = [client EXCEPT ![c] = [@ EXCEPT !.pc = "finalize", !.ended = t]]
      BY <1>1, <1>8, <2>2 DEF AwaitCommit
    <3> QED BY <1>0, <3>1 DEF ClientState
  <2> QED BY <2>1, <2>2
<1> QED BY <1>3, <1>4, <1>5, <1>6, <1>7, <1>8 DEF ClientStep

\* Only the unit's ingest() call is ever made for a run.
LEMMA CallsKept ==
    ASSUME BackfillInv, CallsKeepToUnit, [BackfillNext]_allVars
    PROVE  CallsKeepToUnit'
<1>0. TypeOK /\ ClientsAreBound /\ client \in [Client -> ClientState]
  BY DEF BackfillInv, Inv, ProtocolInvariant, TypeOK
<1>1. CASE client' = client
  BY <1>1 DEF CallsKeepToUnit
<1>2. ASSUME NEW c \in Client, ClientStep(c) \/ Abandon(c)
      PROVE  CallsKeepToUnit'
  <2>1. \A d \in Client \ {c} : client'[d] = client[d]
    BY <1>0, <1>2, CallEffects
  <2>2. client'[c].stage # "resume" =>
           /\ RunOf[client'[c].req] = client'[c].run
           /\ DOMAIN client'[c].batch \subseteq KeysOf[client'[c].req]
    BY <1>0, <1>2, CallData DEF CallsKeepToUnit
  <2> QED BY <2>1, <2>2 DEF CallsKeepToUnit
<1>3. ASSUME NEW c \in Client, CallIngest(c)
      PROVE  CallsKeepToUnit'
  <2>1. PICK q : q = UnitOf(c)
    OBVIOUS
  <2>2. client' = [client EXCEPT ![c] = [Idle EXCEPT !.pc = "begin", !.run = RunOf[q],
                                                     !.req = q, !.stage = "ingest"]]
    BY <1>3, <2>1 DEF CallIngest, StartIngest, RunOfUnit
  <2>3. /\ client'[c].run = RunOf[q] /\ client'[c].req = q
        /\ client'[c].batch = NoBatch
    BY <1>0, <2>2 DEF Idle
  <2>4. DOMAIN NoBatch = {}
    BY DEF NoBatch
  <2>5. \A d \in Client \ {c} : client'[d] = client[d]
    BY <1>0, <2>2
  <2> QED BY <2>3, <2>4, <2>5 DEF CallsKeepToUnit
<1>4. CASE Server
  BY <1>0, <1>1, <1>4, ServerEffects DEF Server
<1>5. ASSUME NEW c \in Client, FlowStep(c) \/ Trouble(c) \/ \E p \in Plans : StartBackfill(c, p)
      PROVE  client' = client \/ ClientStep(c) \/ Abandon(c) \/ CallIngest(c)
  BY <1>5 DEF FlowStep, Trouble, ReadPrior, PriorUnreadable, IngestStep,
     ReadState, BuildAnalytics, VerifyAnalytics, Report, Interrupt, Crash, BuildFails,
     StartBackfill, vars
<1>6. CASE UNCHANGED allVars
  BY <1>1, <1>6 DEF allVars, vars
<1> QED BY <1>1, <1>2, <1>3, <1>4, <1>5, <1>6 DEF BackfillNext

\* A new plan has the batch of the call that computed it.
LEMMA PlansKept ==
    ASSUME BackfillInv, [Next]_vars, CallsKeepToUnit, PlansKeepToUnit
    PROVE  PlansKeepToUnit'
<1>0. TypeOK /\ ClientsAreBound
  BY DEF BackfillInv, Inv, ProtocolInvariant
<1> SUFFICES ASSUME NEW p \in PlansInFlight' PROVE DOMAIN p.plan.batch \subseteq KeysFor(p.run)
  BY DEF PlansKeepToUnit, KeysFor
<1>1. CASE p \in PlansInFlight
  BY <1>1 DEF PlansKeepToUnit
<1>2. CASE p \notin PlansInFlight
  <2>1. PICK c \in Client : /\ client[c].pc = "snapshot"
                            /\ p = [run |-> client[c].run,
                                    plan |-> PlanWrite(client[c].run, client[c].batch)]
    BY <1>0, <1>2, FlightOrigin
  <2>2. /\ client[c].stage # "resume" /\ client[c].req \in Request
        /\ RunOf[client[c].req] = client[c].run
        /\ DOMAIN client[c].batch \subseteq KeysOf[client[c].req]
    BY <1>0, <2>1 DEF ClientsAreBound, CallsKeepToUnit
  <2>3. p.run = client[c].run /\ p.plan.batch = client[c].batch
    BY <2>1 DEF PlanWrite
  <2> QED BY <2>2, <2>3 DEF KeysFor
<1> QED BY <1>1, <1>2

\* What a commit records of its batch, and a finalization leaves.
LEMMA CommitBatch ==
    ASSUME TypeOK, NEW r \in Run, CommitTransaction(r)
    PROVE  /\ runs'[r].batch_hash = commitJob[r].plan.batch
           /\ runs'[r].accepted = Cardinality(DOMAIN runs'[r].batch_hash)
<1>1. runs[r] \in Manifest
  BY DEF TypeOK
<1>2. PICK b : b = commitJob[r].plan.batch
  OBVIOUS
<1>3. PICK n : n = Cardinality(DOMAIN b)
  OBVIOUS
<1>4. runs'[r] = [runs[r] EXCEPT !.status = "COMMITTED",
                          !.commit_completed = TRUE,
                          !.commit_sequence = commitJob[r].plan.expected + 1,
                          !.batch_hash = b,
                          !.accepted = n,
                          !.new_contents = Cardinality(commitJob[r].plan.contents),
                          !.new_transitions = Cardinality(commitJob[r].plan.transitions)]
  BY <1>2, <1>3 DEF TypeOK, CommitTransaction
<1>5. runs'[r].batch_hash = b /\ runs'[r].accepted = n
  BY <1>1, <1>4 DEF Manifest
<1> QED BY <1>2, <1>3, <1>5

LEMMA FinalizeBatch ==
    ASSUME TypeOK, NEW r \in Run, NEW t, FinalizeTransaction(r, t)
    PROVE  /\ runs'[r].batch_hash = runs[r].batch_hash
           /\ runs'[r].accepted = runs[r].accepted
<1>1. runs[r] \in Manifest
  BY DEF TypeOK
<1>2. runs'[r] = [runs[r] EXCEPT !.status = "SUCCEEDED", !.knowledge_at = t]
  BY DEF TypeOK, FinalizeTransaction
<1> QED BY <1>1, <1>2 DEF Manifest

\* The manifest describes the batch of the plan that was committed.
LEMMA RunsKept ==
    ASSUME BackfillInv, [Next]_vars, PlansKeepToUnit, RunsKeepToUnit
    PROVE  RunsKeepToUnit'
<1>0. TypeOK /\ ClientsAreBound /\ PlansAreWellFormed
  BY DEF BackfillInv, Inv, ProtocolInvariant
<1>1. CASE QuietStep
  BY <1>1 DEF QuietStep, RunsKeepToUnit, Committed, KeysFor
<1>2. ASSUME NEW r \in Run, CommitStep(r)
      PROVE  RunsKeepToUnit'
  <2>1. \A s \in Run \ {r} : runs'[s] = runs[s]
    BY <1>0, <1>2, CommitFacts DEF CommitStep
  <2>2. /\ runs'[r].batch_hash = commitJob[r].plan.batch
        /\ runs'[r].accepted = Cardinality(DOMAIN runs'[r].batch_hash)
    BY <1>0, <1>2, CommitBatch DEF CommitStep
  <2>3. [run |-> r, plan |-> commitJob[r].plan] \in PlansInFlight
    BY <1>0, <1>2, CommitRows
  <2>4. DOMAIN commitJob[r].plan.batch \subseteq KeysFor(r)
    BY <2>3 DEF PlansKeepToUnit
  <2> QED BY <2>1, <2>2, <2>4 DEF RunsKeepToUnit, Committed, KeysFor
<1>3. ASSUME NEW r \in Run, NEW t \in Time, OwnsGate(r), FinalizeTransaction(r, t)
      PROVE  RunsKeepToUnit'
  <2>1. \A s \in Run \ {r} : runs'[s] = runs[s]
    BY <1>0, <1>3, FinalizeFacts
  <2>2. /\ runs'[r].batch_hash = runs[r].batch_hash
        /\ runs'[r].accepted = runs[r].accepted
    BY <1>0, <1>3, FinalizeBatch
  <2>3. Committed(r)
    BY <1>3 DEF OwnsGate, Committed
  <2> QED BY <2>1, <2>2, <2>3 DEF RunsKeepToUnit, Committed, KeysFor
<1> QED BY <1>0, <1>1, <1>2, <1>3, StepKinds
----------------------------------------------------------------------------
(* The facts.                                                              *)

\* The least-number principle, for sets.
LEMMA LeastExists ==
    ASSUME NEW S \in SUBSET Nat, S # {}
    PROVE  \E x \in S : \A y \in S : x <= y
<1> DEFINE R == {ss \in Nat \X Nat : ss[1] < ss[2]}
<1>1. IsWellFoundedOn(R, Nat)
  BY NatLessThanWellFounded DEF OpToRel
<1> HIDE DEF R
<1>2. PICK x \in S : \A y \in S : ~(<<y, x>> \in R)
  BY <1>1, WFMin, Zenon
<1>3. ASSUME NEW y \in S PROVE x <= y
  <2>1. <<y, x>> \in Nat \X Nat /\ <<y, x>>[1] = y /\ <<y, x>>[2] = x
    OBVIOUS
  <2>2. y < x => <<y, x>> \in R
    BY <2>1, Zenon DEF R
  <2> QED BY <1>2, <2>2
<1> QED BY <1>3

\* A set of positions has a first and a last one.
LEMMA MinMaxFacts ==
    ASSUME NEW n \in Nat, NEW S \in SUBSET (1..n), S # {}
    PROVE  /\ Min(S) \in S /\ \A y \in S : Min(S) <= y
           /\ Max(S) \in S /\ \A y \in S : y <= Max(S)
<1>1. \E x \in S : \A y \in S : x <= y
  BY LeastExists
<1>2. \E x \in S : \A y \in S : x >= y
  <2> DEFINE T == {n - x : x \in S}
  <2>1. \A x \in S : n - x \in Nat
    OBVIOUS
  <2>1a. T \in SUBSET Nat /\ T # {}
    BY <2>1
  <2>2. PICK t \in T : \A u \in T : t <= u
    BY <2>1a, LeastExists
  <2>3. PICK x \in S : t = n - x
    OBVIOUS
  <2>4. \A y \in S : n - x <= n - y
    BY <2>2, <2>3
  <2> QED BY <2>4
<1>3. Min(S) \in S /\ \A y \in S : Min(S) <= y
  BY <1>1, Zenon DEF Min
<1>4. Max(S) \in S /\ \A y \in S : Max(S) >= y
  BY <1>2, Zenon DEF Max
<1> QED BY <1>3, <1>4

\* The keys that run r accepted.
Fetched(r) == DOMAIN runs[r].batch_hash

\* While a workflow waits for verify(), the facts hold what its units accepted.
FactsHold ==
    \A c \in Client : flow[c].pc = "verify" => \A i \in DOMAIN flow[c].results :
        Fetched(RunOf[flow[c].results[i].req]) \subseteq factKeys

\* The inductive invariant of the verification.
VerifyInv ==
    BackfillInv /\ CallsKeepToUnit /\ PlansKeepToUnit /\ RunsKeepToUnit /\ FactsHold

\* The keys that a SUCCEEDED run accepted are published, although a key whose
\* value it did not change has only rows of earlier runs.
LEMMA SucceededArePublished ==
    ASSUME Inv, AtomicProofs!RawInv, HistoryReconstructsBatches, CommitSequencesAreTotal,
           NEW r \in Run, Succeeded(r)
    PROVE  Fetched(r) \subseteq PublishedKeys
<1> SUFFICES ASSUME NEW k \in Fetched(r) PROVE k \in PublishedKeys
  OBVIOUS
<1>0. TypeOK /\ OnlyCommittedRunsOwnRows /\ sequence \in Nat
  BY DEF Inv, ProtocolInvariant, TypeOK
<1>1. Committed(r)
  BY DEF Committed, Succeeded
<1>2. PICK t \in transitions : t.key = k /\ t.seq <= runs[r].commit_sequence
  BY <1>1 DEF HistoryReconstructsBatches, Fetched
<1>3. t.run \in Run /\ Committed(t.run) /\ t.seq = runs[t.run].commit_sequence
  BY <1>0 DEF TypeOK, TransitionRow, OnlyCommittedRunsOwnRows, CommitSequencesAreTotal
<1>4. runs[t.run].status # "COMMITTED"
  <2> SUFFICES ASSUME runs[t.run].status = "COMMITTED" PROVE FALSE
    OBVIOUS
  <2>1. AcceptedRuns[t.run].state = "open" /\ AcceptedRuns[t.run].seq = runs[t.run].commit_sequence
    BY <1>3, AcceptedFacts
  <2>2. runs[t.run].commit_sequence = sequence
    BY <1>3, <2>1 DEF AtomicProofs!RawInv, AtomicProofs!GateIsSound
  <2>3. runs[r].commit_sequence \in 1..sequence
    BY <1>1 DEF CommitSequencesAreTotal
  <2>4. runs[r].commit_sequence = runs[t.run].commit_sequence
    BY <1>0, <1>2, <1>3, <2>2, <2>3
  <2>5. r = t.run
    BY <1>1, <1>3, <2>4 DEF CommitSequencesAreTotal
  <2> QED BY <2>5 DEF Succeeded
<1>5. runs[t.run].status = "SUCCEEDED"
  BY <1>3, <1>4 DEF Committed
<1> QED BY <1>2, <1>5 DEF PublishedKeys

\* A workflow comes to verify() from a passed build; the facts change only to
\* what is published.
LEMMA VerifyMoves ==
    ASSUME BackfillInv, [BackfillNext]_allVars, NEW c \in Client, NEW g, g = flow'[c],
           g.pc = "verify"
    PROVE  \/ g = flow[c] /\ factKeys' \in {factKeys, PublishedKeys}
           \/ g.results = flow[c].results /\ flow[c].pc = "dbt" /\ factKeys' = PublishedKeys
<1>0. flow \in [Client -> Flow]
  BY DEF BackfillInv, BackfillTypeOK
<1> DEFINE Goal == \/ g = flow[c] /\ factKeys' \in {factKeys, PublishedKeys}
                   \/ /\ g.results = flow[c].results /\ flow[c].pc = "dbt"
                      /\ factKeys' = PublishedKeys
<1>1. CASE Server \/ UNCHANGED allVars
  BY <1>1 DEF Server, workflow, allVars
<1>2. ASSUME NEW d \in Client, FlowStep(d) \/ Trouble(d) \/ \E p \in Plans : StartBackfill(d, p)
      PROVE  factKeys' \in {factKeys, PublishedKeys}
  BY <1>2 DEF FlowStep, Trouble, ReadPrior, PriorUnreadable, CallIngest, IngestStep,
     ReadState, BuildAnalytics, VerifyAnalytics, Report, Interrupt, Crash, BuildFails,
     StartBackfill
<1>3. ASSUME NEW d \in Client, NEW v, flow' = [flow EXCEPT ![d] = v], v.pc # "verify"
      PROVE  g = flow[c]
  BY <1>0, <1>3
<1>4. ASSUME NEW d \in Client, Stop(d) PROVE g = flow[c]
  BY <1>3, <1>4 DEF Stop, NoFlow
<1>5. ASSUME NEW d \in Client, NEW b, Again(d, b) PROVE g = flow[c]
  <2>1. CASE Stop(d)
    BY <1>4, <2>1
  <2>2. CASE ~Stop(d)
    <3>1. [flow[d] EXCEPT !.pc = "prior", !.retried = TRUE,
                          !.prior = "ABSENT", !.error = "ok"].pc = "prior"
      BY <1>0 DEF Flow
    <3> QED BY <1>3, <1>5, <2>2, <3>1 DEF Again
  <2> QED BY <2>1, <2>2
<1>6. ASSUME NEW d \in Client, NEW m, Advance(d, m) PROVE g = flow[c]
  <2>1. PICK l : l = IF ~(flow[d].next = Len(Units(d))) THEN "prior"
                     ELSE IF flow[d].plan.dbt THEN "dbt" ELSE "report"
    OBVIOUS
  <2>2. l # "verify"
    BY <2>1
  <2>3. PICK n, rs : flow' = [flow EXCEPT ![d] = [flow[d] EXCEPT !.pc = l, !.next = n,
                         !.retried = FALSE, !.prior = "ABSENT", !.results = rs]]
    BY <1>6, <2>1 DEF Advance
  <2>4. [flow[d] EXCEPT !.pc = l, !.next = n, !.retried = FALSE, !.prior = "ABSENT",
                        !.results = rs].pc = l
    BY <1>0 DEF Flow
  <2> QED BY <1>3, <2>2, <2>3, <2>4
<1>7. ASSUME NEW d \in Client, NEW outcome, End(d, outcome) PROVE g = flow[c]
  <2>1. CASE outcome = "ok"
    BY <1>6, <1>7, <2>1 DEF End
  <2>2. CASE outcome # "ok"
    <3>1. flow' = [flow EXCEPT ![d] = [flow[d] EXCEPT !.pc = "state", !.error = outcome]]
      BY <1>7, <2>2 DEF End
    <3>2. [flow[d] EXCEPT !.pc = "state", !.error = outcome].pc = "state"
      BY <1>0 DEF Flow
    <3> QED BY <1>3, <3>1, <3>2
  <2> QED BY <2>1, <2>2
<1>8. ASSUME NEW d \in Client, NEW l, NEW s, l # "verify",
             flow' = [flow EXCEPT ![d] = [flow[d] EXCEPT !.pc = l, !.prior = s]]
      PROVE  g = flow[c]
  <2>1. [flow[d] EXCEPT !.pc = l, !.prior = s].pc = l
    BY <1>0 DEF Flow
  <2> QED BY <1>3, <1>8, <2>1
<1>9. ASSUME NEW d \in Client, NEW l, l # "verify", flow' = [flow EXCEPT ![d].pc = l]
      PROVE  g = flow[c]
  <2>1. flow' = [flow EXCEPT ![d] = [flow[d] EXCEPT !.pc = l]]
    BY <1>9
  <2>2. [flow[d] EXCEPT !.pc = l].pc = l
    BY <1>0 DEF Flow
  <2> QED BY <1>3, <1>9, <2>1, <2>2
<1>10. ASSUME NEW d \in Client, NEW p \in Plans, StartBackfill(d, p) PROVE g = flow[c]
  <2>1. [NoFlow EXCEPT !.pc = "prior", !.plan = p].pc = "prior"
    BY DEF NoFlow
  <2> QED BY <1>3, <1>10, <2>1 DEF StartBackfill
<1>11. ASSUME NEW d \in Client, \/ ReadPrior(d) \/ CallIngest(d) \/ IngestStep(d)
                                \/ ReadState(d) \/ VerifyAnalytics(d) \/ Report(d)
                                \/ Trouble(d)
       PROVE  g = flow[c]
  <2>1. CASE ReadPrior(d)
    BY <1>8, <2>1 DEF ReadPrior
  <2>2. CASE CallIngest(d) \/ VerifyAnalytics(d) \/ Report(d)
    BY <1>4, <1>9, <2>2 DEF CallIngest, VerifyAnalytics, Report
  <2>3. CASE IngestStep(d) \/ Interrupt(d)
    BY <1>7, <2>3 DEF IngestStep, Interrupt
  <2>4. CASE ReadState(d) \/ PriorUnreadable(d) \/ Crash(d) \/ BuildFails(d)
    BY <1>4, <1>5, <2>4 DEF ReadState, PriorUnreadable, Crash, BuildFails
  <2> QED BY <1>11, <2>1, <2>2, <2>3, <2>4 DEF Trouble
<1>12. ASSUME NEW d \in Client, BuildAnalytics(d) PROVE Goal
  <2>1. factKeys' = PublishedKeys /\ flow[d].pc = "dbt"
        /\ flow' = [flow EXCEPT ![d] = [flow[d] EXCEPT !.pc = "verify"]]
    BY <1>12 DEF BuildAnalytics
  <2>2. [flow[d] EXCEPT !.pc = "verify"].results = flow[d].results
    BY <1>0 DEF Flow
  <2>3. CASE c = d
    <3>1. g = [flow[d] EXCEPT !.pc = "verify"]
      BY <1>0, <2>1, <2>3
    <3> QED BY <2>1, <2>2, <2>3, <3>1
  <2>4. CASE c # d
    BY <1>0, <2>1, <2>4
  <2> QED BY <2>3, <2>4
<1>13. ASSUME NEW d \in Client, FlowStep(d) \/ Trouble(d) \/ \E p \in Plans : StartBackfill(d, p)
       PROVE  Goal
  <2>1. CASE BuildAnalytics(d)
    BY <1>12, <2>1
  <2>2. CASE ~BuildAnalytics(d)
    BY <1>2, <1>10, <1>11, <1>13, <2>2 DEF FlowStep
  <2> QED BY <2>1, <2>2
<1> QED BY <1>1, <1>13 DEF BackfillNext

\* Facts that a workflow relies on are replaced by all that is published only.
LEMMA FactsHoldNext ==
    ASSUME BackfillInv, FactsHold, [BackfillNext]_allVars, [Next]_vars,
           \A r \in Run : Succeeded(r) => Fetched(r) \subseteq PublishedKeys
    PROVE  FactsHold'
<1> SUFFICES ASSUME NEW c \in Client, flow'[c].pc = "verify",
                    NEW i \in DOMAIN flow'[c].results
             PROVE  DOMAIN runs'[RunOf[flow'[c].results[i].req]].batch_hash \subseteq factKeys'
  BY DEF FactsHold, Fetched
<1>1. PICK g : g = flow'[c]
  OBVIOUS
<1>2. \/ g = flow[c] /\ factKeys' \in {factKeys, PublishedKeys}
      \/ g.results = flow[c].results /\ flow[c].pc = "dbt" /\ factKeys' = PublishedKeys
  BY <1>1, VerifyMoves
<1>3. g.results = flow[c].results /\ flow[c].pc \in {"dbt", "verify"}
  BY <1>1, <1>2
<1>4. PICK f \in Flow : f = flow[c]
  BY DEF BackfillInv, BackfillTypeOK
<1>5. i \in DOMAIN f.results /\ f.pc \in Ingested /\ f.pc # "idle" /\ f.results \in Seq(Result)
  BY <1>1, <1>3, <1>4 DEF Ingested, Flow
<1>6. f.plan \in Plans /\ ValidPlan(f.plan) /\ Recorded(f.results[i], Expand(f.plan)[i])
      /\ Len(f.results) = Len(Expand(f.plan))
  BY <1>4, <1>5 DEF BackfillInv, ProgressIsRecorded, ProgressOf
<1>7. PICK r \in Run : r = RunOf[f.results[i].req] /\ Succeeded(r)
  <2>1. i \in DOMAIN Expand(f.plan)
    BY <1>5, <1>6, UnitFacts
  <2>2. RunOf[Expand(f.plan)[i]] \in Run
    BY <1>6, <2>1, UnitFacts
  <2> QED BY <1>6, <2>2 DEF Recorded, Succeeded
<1>8. runs'[r] = runs[r]
  BY <1>7, KeepsHistoryStep DEF BackfillInv, KeepsHistory, Succeeded
<1>9. Fetched(r) \subseteq factKeys'
  <2>1. CASE factKeys' = PublishedKeys
    BY <1>7, <2>1
  <2>2. CASE factKeys' = factKeys /\ g = flow[c]
    BY <1>1, <1>4, <1>5, <1>7, <2>2 DEF FactsHold
  <2> QED BY <1>2, <2>1, <2>2
<1>10. r = RunOf[flow'[c].results[i].req]
  BY <1>1, <1>3, <1>4, <1>7
<1> QED BY <1>8, <1>9, <1>10 DEF Fetched

\* The slice of a product has the day of each of its units.
LEMMA SelectedDays ==
    ASSUME BackfillInv, NEW c \in Client, flow[c].plan \in Plans, ValidPlan(flow[c].plan),
           NEW i \in DOMAIN Units(c)
    PROVE  Units(c)[i].day \in Slice(c, Units(c)[i].product)
<1> DEFINE n == Len(Units(c))
           S == Selected(c, Units(c)[i].product)
<1>1. n \in Nat /\ DOMAIN Units(c) = 1..n /\ \A j \in 1..n : Units(c)[j] \in Request
  BY UnitFacts DEF Units
<1>2. \A j \in 1..n : Units(c)[j].day \in Nat
  BY <1>1, BackfillAssumption
<1>3. S \in SUBSET (1..n) /\ i \in S
  BY <1>1 DEF Selected
<1>4. \A j, k \in 1..n : j <= k => Units(c)[j].day <= Units(c)[k].day
  BY <1>1, PlansAscend DEF Units
<1> HIDE DEF n, S
<1>5. Min(S) \in 1..n /\ Min(S) <= i /\ Max(S) \in 1..n /\ i <= Max(S)
  BY <1>1, <1>3, MinMaxFacts
<1>6. i \in 1..n
  BY <1>3
<1>7. Units(c)[i].day \in Units(c)[Min(S)].day..Units(c)[Max(S)].day
  BY <1>2, <1>4, <1>5, <1>6
<1> QED BY <1>7 DEF S, Slice

\* Enough facts for each result.
LEMMA FactsSuffice ==
    ASSUME VerifyInv
    PROVE  VerificationAgrees
<1> SUFFICES ASSUME NEW c \in Client, flow[c].pc = "verify", NEW i \in DOMAIN flow[c].results
             PROVE  FactCount(c, flow[c].results[i].req) >= flow[c].results[i].accepted
  BY DEF VerificationAgrees, Verified
<1>0. BackfillInv
  BY DEF VerifyInv
<1>1. PICK f \in Flow : f = flow[c]
  BY <1>0 DEF BackfillInv, BackfillTypeOK
<1>2. i \in DOMAIN f.results /\ f.pc \in Ingested /\ f.pc # "idle" /\ f.results \in Seq(Result)
  BY <1>1 DEF Ingested, Flow
<1>3. f.plan \in Plans /\ ValidPlan(f.plan) /\ Recorded(f.results[i], Expand(f.plan)[i])
      /\ Len(f.results) = Len(Expand(f.plan))
  BY <1>0, <1>1, <1>2 DEF BackfillInv, ProgressIsRecorded, ProgressOf
<1>4. i \in DOMAIN Expand(f.plan)
  BY <1>2, <1>3, UnitFacts
<1>5. PICK q \in Request : q = Expand(f.plan)[i]
  BY <1>3, <1>4, UnitFacts
<1>6. PICK r \in Run : r = RunOf[q]
  BY <1>5, BackfillAssumption
<1>7. /\ f.results[i].req = q /\ Succeeded(r) /\ Committed(r)
      /\ f.results[i].accepted = runs[r].accepted
  BY <1>3, <1>5, <1>6 DEF Recorded, Succeeded, Committed
<1>8. q.day \in Slice(c, q.product)
  BY <1>0, <1>1, <1>3, <1>4, <1>5, SelectedDays DEF Units
<1>9. Fetched(r) \subseteq factKeys
  BY <1>1, <1>2, <1>6, <1>7 DEF VerifyInv, FactsHold
<1>10. runs[r].accepted = Cardinality(Fetched(r)) /\ Fetched(r) \subseteq KeysFor(r)
  BY <1>7 DEF VerifyInv, RunsKeepToUnit, Fetched
<1>11. KeysFor(r) = KeysOf[q]
  <2>1. \A x \in Request : RunOf[x] = r => x = q
    BY <1>6, BackfillAssumption
  <2>2. {x \in Request : RunOf[x] = r} = {q}
    BY <1>6, <2>1
  <2> QED BY <2>2 DEF KeysFor
<1>12. PICK K : K = factKeys \cap KeysOf[q]
  OBVIOUS
<1>13. IsFiniteSet(KeysOf[q])
  BY ConstantsAssumption
<1>14. IsFiniteSet(K) /\ Cardinality(K) \in Nat
  BY <1>12, <1>13, FS_Subset, FS_CardinalityType
<1>15. Fetched(r) \in SUBSET K
  BY <1>9, <1>10, <1>11, <1>12
<1>16. Cardinality(Fetched(r)) <= Cardinality(K) /\ Cardinality(Fetched(r)) \in Nat
  BY <1>14, <1>15, FS_Subset, FS_CardinalityType
<1>17. FactCount(c, q) = Cardinality(K)
  BY <1>8, <1>12 DEF FactCount
<1> QED BY <1>1, <1>7, <1>10, <1>14, <1>16, <1>17

\* A step preserves the invariant, if what SUCCEEDED is published.
LEMMA VerifyInvStep ==
    ASSUME VerifyInv, [BackfillNext]_allVars, [Next]_vars,
           \A r \in Run : Succeeded(r) => Fetched(r) \subseteq PublishedKeys
    PROVE  VerifyInv'
<1>1. BackfillInv'
  BY BackfillNextInv DEF VerifyInv
<1>2. CallsKeepToUnit'
  BY CallsKept DEF VerifyInv
<1>3. PlansKeepToUnit'
  BY PlansKept DEF VerifyInv
<1>4. RunsKeepToUnit'
  BY RunsKept DEF VerifyInv
<1>5. FactsHold'
  BY FactsHoldNext DEF VerifyInv
<1> QED BY <1>1, <1>2, <1>3, <1>4, <1>5 DEF VerifyInv

\* It holds initially.
LEMMA VerifyInvInit == BackfillInit => VerifyInv
<1> SUFFICES ASSUME BackfillInit PROVE VerifyInv
  OBVIOUS
<1>1. BackfillInv
  BY BackfillInitInv
<1>2. \A c \in Client : client[c].stage = "resume" /\ client[c].pc = "idle"
  BY DEF BackfillInit, Init, Idle
<1>3. \A r \in Run : ~Committed(r) /\ commitJob[r].state = "none"
  BY DEF BackfillInit, Init, NoManifest, Committed
<1>4. PlansInFlight = {}
  BY <1>2, <1>3 DEF PlansInFlight
<1>5. FactsHold
  BY DEF BackfillInit, NoFlow, FactsHold
<1> QED BY <1>1, <1>2, <1>3, <1>4, <1>5
        DEF VerifyInv, CallsKeepToUnit, PlansKeepToUnit, RunsKeepToUnit

\* verify() never contradicts a passed build: within the days it selects, the
\* facts of a unit's day and hub are at least as many as its run accepted.
THEOREM VerificationCorrect == BackfillSpec => []VerificationAgrees
<1>1. /\ Inv /\ AtomicProofs!RawInv /\ HistoryReconstructsBatches /\ CommitSequencesAreTotal
      => \A r \in Run : Succeeded(r) => Fetched(r) \subseteq PublishedKeys
  BY SucceededArePublished
<1>2. [BackfillNext]_allVars /\ BackfillInv => [Next]_vars
  BY StepIsProtocol
<1>3. /\ VerifyInv /\ [BackfillNext]_allVars /\ [Next]_vars
      /\ (\A r \in Run : Succeeded(r) => Fetched(r) \subseteq PublishedKeys)
      => VerifyInv'
  BY VerifyInvStep
<1>4. BackfillSpec => []VerifyInv
  BY <1>1, <1>2, <1>3, VerifyInvInit, BackfillHolds, BackfillUsesProtocol, InvHolds,
     AtomicInvHolds, HistoryCorrect, SequencesCorrect, PTL DEF BackfillSpec
<1>5. VerifyInv => VerificationAgrees
  BY FactsSuffice
<1> QED BY <1>4, <1>5, PTL
=============================================================================
