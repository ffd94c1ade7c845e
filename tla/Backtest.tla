------------------------------ MODULE Backtest ------------------------------
(***************************************************************************)
(* The daily battery benchmark (backtesting/) over the input mart that     *)
(* CaisoSource fills, or over a file: the inputs of all days are checked,  *)
(* then each day is dispatched, checked hour by hour and added up.         *)
(*                                                                         *)
(* What the solver returned is revealed as validate_dispatch() reads it.   *)
(* The sums of the metrics and of the aggregate are kept as accumulators   *)
(* over the hours and days done. Money is left out: that its sums are      *)
(* recomputed only decides whether the result is refused.                  *)
(***************************************************************************)
EXTENDS CaisoSource, Battery

CONSTANTS
    FileRow,  \* the rows of an --input-json file
    MaxSpan,  \* at most this many days (7)
    Power,    \* the powers the solver may return
    Level     \* the states of charge it may return

\* One row as from_row() reads it, its lineage left out; a row it cannot read ends
\* the command before anything happens. The logical key is text in the input;
\* here the number of the row's key.
InputRow == [location : TradingHub, market_date : Days, start : Int, end : Int, key : Int]

ASSUME BacktestAssumption ==
    /\ FileRow \subseteq InputRow /\ IsFiniteSet(FileRow)
    /\ MaxSpan \in Nat
    /\ Power \subseteq Int /\ Level \subseteq Int
    /\ InitialSoc = TerminalSoc  \* backtest_daily refuses anything else

VARIABLE bench  \* the benchmark that is running, or its report

vars == <<sourceVars, bench>>

Totals == [hours : Nat, days : Nat, charged : Int, discharged : Int,
           charging : Nat, discharging : Nat]
Bench == [pc : {"idle", "inputs", "solve", "hour", "reported"}, start : Days, end : Days,
          location : TradingHub \cup {NoHub}, file : BOOLEAN, rows : SUBSET InputRow,
          day : Days, hour : Nat, soc : Int, totals : Totals]
NoTotals == [hours |-> 0, days |-> 0, charged |-> 0, discharged |-> 0,
             charging |-> 0, discharging |-> 0]
NoBench == [pc |-> "idle", start |-> 0, end |-> 0, location |-> NoHub, file |-> FALSE,
            rows |-> {}, day |-> 0, hour |-> 0, soc |-> 0, totals |-> NoTotals]

TypeOK == SourceTypeOK /\ bench \in Bench

Init == SourceInit /\ bench = NoBench

----------------------------------------------------------------------------
(* The inputs.                                                             *)

\* requests(): a bounded range of completed days.
ValidRange(start, end) == start <= end /\ end - start < MaxSpan /\ end < Today

\* The query of read_prices(), in one SELECT. The logical key digests fields that
\* are the same in one hub's rows, and the start of the interval.
Selected(start, end, location) ==
    {[location |-> m.location, market_date |-> m.market_date, start |-> m.start,
      end |-> m.end, key |-> m.start - Midnight(0)] :
        m \in {row \in mart : /\ row.location = location
                              /\ start <= row.market_date /\ row.market_date <= end}}

\* main() and read_prices(), or the file. The mart is read once, so a fetch that
\* goes on meanwhile makes no difference, and none is modelled.
ReadInputs(start, end, location) ==
    /\ bench.pc = "idle"
    /\ fetch.pc = "idle"
    /\ ValidRange(start, end)
    /\ \E file \in BOOLEAN :
           \E rows \in IF file THEN SUBSET FileRow ELSE {Selected(start, end, location)} :
               bench' = [NoBench EXCEPT !.pc = "inputs", !.start = start, !.end = end,
                             !.location = location, !.file = file, !.rows = rows]
    /\ UNCHANGED sourceVars

\* MarketPrice and PriceInterval: a whole hour on the row's Pacific date.
ValidInput(row) ==
    /\ row.start % Hour = 0
    /\ row.end - row.start = Hour
    /\ row.start \in Instants
    /\ DateOf(row.start) = row.market_date

RowsOf(day) == {row \in bench.rows : row.market_date = day}

\* Mutant: every day has the ordinary number of hours.
ContinuousOrdinary(day) ==
    /\ Cardinality(RowsOf(day)) = DayHours
    /\ \A row \in RowsOf(day) : \E i \in 0..(DayHours - 1) :
           row.start = Midnight(day) + i * Hour

\* The sorted rows of a day start at consecutive hours from its midnight on.
Continuous(day) ==
    /\ Cardinality(RowsOf(day)) = HoursOf(day)
    /\ \A i \in 0..(HoursOf(day) - 1) : \E row \in RowsOf(day) :
           /\ row.start = Midnight(day) + i * Hour
           /\ row.end = Midnight(day) + (i + 1) * Hour

InputsAccepted ==
    /\ \A row \in bench.rows :
           /\ ValidInput(row)
           /\ row.location = bench.location
           /\ bench.start <= row.market_date /\ row.market_date <= bench.end
    /\ \A r, s \in bench.rows : r.key = s.key => r = s
    /\ \A day \in bench.start..bench.end : Continuous(day)

\* Every day is validated before the first is solved.
CheckInputs ==
    /\ bench.pc = "inputs"
    /\ bench' = IF InputsAccepted
                THEN [bench EXCEPT !.pc = "solve", !.day = bench.start]
                ELSE NoBench
    /\ UNCHANGED sourceVars

----------------------------------------------------------------------------
(* The dispatch of one day, hour by hour.                                  *)

\* One interval for each accepted row of the day; the solution has as many.
Horizon == Cardinality(RowsOf(bench.day))

\* The solver's first state of charge.
StartDay(soc) ==
    /\ bench.pc = "solve"
    /\ bench' = IF ValidSoc(soc) /\ Within(soc - InitialSoc, Tol)
                THEN [bench EXCEPT !.pc = "hour", !.hour = 0, !.soc = soc]
                ELSE NoBench
    /\ UNCHANGED sourceVars

\* Mutant: any nonzero power counts as activity.
ActiveAbove0(power) == IF power > 0 THEN 1 ELSE 0

Active(power) == IF power > Tol THEN 1 ELSE 0

\* DayMetrics and Aggregate, one more hour.
Added(totals, charge, discharge) ==
    [hours |-> totals.hours + 1,
     days |-> totals.days,
     charged |-> totals.charged + charge,
     discharged |-> totals.discharged + discharge,
     charging |-> totals.charging + Active(charge),
     discharging |-> totals.discharging + Active(discharge)]

DispatchHour(charge, discharge, mode, soc) ==
    /\ bench.pc = "hour"
    /\ bench.hour < Horizon
    /\ bench' = IF /\ ValidSoc(soc)
                   /\ ValidPower(charge, discharge, mode)
                   /\ Reconciles(bench.soc, charge, discharge, soc)
                THEN [bench EXCEPT !.hour = @ + 1, !.soc = soc,
                                   !.totals = Added(@, charge, discharge)]
                ELSE NoBench
    /\ UNCHANGED sourceVars

\* The last state of charge is the terminal one.
ValidEnd == Within(bench.soc - TerminalSoc, Tol)

EndDay ==
    /\ bench.pc = "hour"
    /\ bench.hour = Horizon
    /\ bench' = IF ~ValidEnd THEN NoBench
                ELSE [bench EXCEPT !.pc = IF bench.day = bench.end THEN "reported" ELSE "solve",
                                   !.day = IF bench.day = bench.end THEN @ ELSE @ + 1,
                                   !.hour = 0,
                                   !.soc = 0,
                                   !.totals.days = @ + 1]
    /\ UNCHANGED sourceVars

\* The solver is missing, fails or is not optimal, a value is not finite, a vector
\* has the wrong length, or the money does not reconcile: no report at all.
SolverFails ==
    /\ bench.pc \in {"solve", "hour"}
    /\ bench' = NoBench
    /\ UNCHANGED sourceVars

\* The caller has the report; the process ends.
Report ==
    /\ bench.pc = "reported"
    /\ bench' = NoBench
    /\ UNCHANGED sourceVars

Next ==
    \/ bench.pc = "idle" /\ SourceNext /\ UNCHANGED bench
    \/ \E start, end \in Days, l \in TradingHub : ReadInputs(start, end, l)
    \/ CheckInputs
    \/ \E soc \in Level : StartDay(soc)
    \/ \E charge, discharge \in Power, mode \in {0, 1}, soc \in Level :
           DispatchHour(charge, discharge, mode, soc)
    \/ EndDay
    \/ SolverFails
    \/ Report

Spec == Init /\ [][Next]_vars

----------------------------------------------------------------------------

\* The hours between the first midnight and the last, DST days included.
HoursOfRange ==
    {u \in Midnight(bench.start)..(Midnight(bench.end + 1) - 1) : u % Hour = 0}

\* The inputs have exactly one row of the hub for each hour of the range.
Tiles ==
    /\ {row.start : row \in bench.rows} = HoursOfRange
    /\ Cardinality(bench.rows) = Cardinality(HoursOfRange)
    /\ \A row \in bench.rows : row.location = bench.location /\ row.end = row.start + Hour

\* A benchmark is only computed from inputs that tile its days, whatever a file
\* holds (repeated intervals under different keys, rows of other days and hubs).
\* What ingestion put on record passes the marts' tests and is refused for no other
\* reason than a missing hour: the market dates, bounds and lengths of days of the
\* adapter, the warehouse, dbt and the benchmark agree, whatever the clock does.
InputsTileTheDays ==
    /\ MartIsValid /\ SummaryIsValid
    /\ bench.pc = "inputs" => /\ InputsAccepted => Tiles
                              /\ ~bench.file /\ Tiles => InputsAccepted

\* A report weighs each hour of its range once: the hours it counted are those
\* between the outer midnights, and charging, discharging and idle hours add up
\* to them, none of them negative, tolerances notwithstanding.
ActivityAddsUp ==
    /\ bench.totals.charging + bench.totals.discharging <= bench.totals.hours
    /\ bench.pc = "reported" =>
           bench.totals.hours * Hour = Midnight(bench.end + 1) - Midnight(bench.start)

\* How far the accepted hours and days can drift from an exact balance.
Slack == Tol * (bench.totals.hours + 2 * bench.totals.days)

\* Energy is conserved over any number of days: what was charged, after losses,
\* is what was discharged plus what is stored beyond the initial level, up to one
\* tolerance per hour and two per day; each day starts where the last one ended.
EnergyIsConserved ==
    LET drift == Gain(bench.totals.charged) - Loss(bench.totals.discharged)
    IN  /\ bench.pc \in {"solve", "reported"} => Within(drift, Scale * Slack)
        /\ bench.pc = "hour" =>
               Within(drift - Scale * (bench.soc - InitialSoc), Scale * (Slack + Tol))
=============================================================================
