-------------------------- MODULE AtomicWarehouse --------------------------
(***************************************************************************)
(* What the raw warehouse promises its readers: an accepted batch is       *)
(* planned against, and written to, the current tables in one step, and    *)
(* its knowledge time is published in a second one, before any other batch *)
(* is accepted. Warehouse implements this with concurrent invocations,     *)
(* stale plans, retries and crashes; Analytics is built on it.             *)
(***************************************************************************)
EXTENDS RevisionTables

VARIABLES
    accepted,  \* what became of each run: its batch, its place, its time
    clock      \* the server clock

rawVars == <<sequence, contents, transitions, accepted, clock>>

RunState == {"none", "open", "published"}
Entry == [state : RunState, seq : Nat, batch : Batch, at : Time]
NoEntry == [state |-> "none", seq |-> 0, batch |-> NoBatch, at |-> Null]

RawTypeOK ==
    /\ sequence \in Nat
    /\ contents \subseteq ContentRow
    /\ transitions \subseteq TransitionRow
    /\ accepted \in [Run -> Entry]
    /\ clock \in Nat

RawInit ==
    /\ sequence = 0
    /\ contents = {}
    /\ transitions = {}
    /\ accepted = [r \in Run |-> NoEntry]
    /\ clock = 0

Published(r) == accepted[r].state = "published"

\* Mutant: no gate, a batch is accepted while another awaits publication.
AcceptUngated(r, b) ==
    /\ accepted[r].state = "none"
    /\ sequence' = sequence + 1
    /\ contents' = MergeContents(NewContents(r, b))
    /\ transitions' = MergeTransitions(NewTransitions(r, b))
    /\ accepted' = [accepted EXCEPT ![r] = [state |-> "open", seq |-> sequence + 1,
                                            batch |-> b, at |-> Null]]
    /\ UNCHANGED clock

\* The batch b of run r enters the tables.
Accept(r, b) ==
    /\ sequence' = sequence + 1
    /\ \A s \in Run : accepted[s].state # "open"
    /\ accepted[r].state = "none"
    /\ contents' = MergeContents(NewContents(r, b))
    /\ transitions' = MergeTransitions(NewTransitions(r, b))
    /\ accepted' = [accepted EXCEPT ![r] = [state |-> "open", seq |-> sequence + 1,
                                            batch |-> b, at |-> Null]]
    /\ UNCHANGED clock

\* Run r becomes readable, known at time t: the end of its commit job, which
\* no earlier run's knowledge time exceeds.
Publish(r, t) ==
    /\ accepted[r].state = "open"
    /\ \A s \in Run : Published(s) => accepted[s].at <= t
    /\ contents' = StampContents(r, t)
    /\ transitions' = StampTransitions(r, t)
    /\ accepted' = [accepted EXCEPT ![r] = [@ EXCEPT !.state = "published", !.at = t]]
    /\ UNCHANGED <<sequence, clock>>

Tick == clock' = clock + 1 /\ UNCHANGED <<sequence, contents, transitions, accepted>>

RawNext ==
    \/ \E r \in Run : \/ \E b \in Batch : Accept(r, b)
                      \/ \E t \in 0..clock : Publish(r, t)
    \/ Tick

RawSpec == RawInit /\ [][RawNext]_rawVars
=============================================================================
