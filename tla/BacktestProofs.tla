--------------------------- MODULE BacktestProofs ---------------------------
(***************************************************************************)
(* The benchmark's accounting, for every zone, battery, tolerance, solver  *)
(* and set of inputs: the metrics count each hour of the range once, and   *)
(* the accepted hours and days conserve energy up to their tolerances.     *)
(***************************************************************************)
EXTENDS Backtest, SourceProofs

\* Nothing has been counted before the first day is solved.
NothingCounted ==
    /\ bench.pc \in {"idle", "inputs"} => bench.totals = NoTotals /\ bench.hour = 0
    /\ bench.pc = "inputs" => bench.start <= bench.end

\* While the days are solved, the hours counted so far are those between the
\* first midnight and the hour at work.
HoursCounted ==
    bench.pc \in {"solve", "hour"} =>
        /\ bench.start <= bench.day /\ bench.day <= bench.end
        /\ bench.pc = "solve" => bench.hour = 0
        /\ bench.totals.hours * Hour
               = Midnight(bench.day) - Midnight(bench.start) + bench.hour * Hour

\* The rows the days are solved from stay the accepted ones: as many as each day
\* has hours.
DaysComplete ==
    bench.pc \in {"solve", "hour"} =>
        \A day \in bench.start..bench.end : Cardinality(RowsOf(day)) = HoursOf(day)

BenchInv ==
    /\ TypeOK
    /\ NothingCounted
    /\ DaysComplete
    /\ HoursCounted
    /\ ActivityAddsUp
    /\ EnergyIsConserved

----------------------------------------------------------------------------
(* Tolerances.                                                             *)

LEMMA WithinAdds ==
    ASSUME NEW x \in Int, NEW y \in Int, NEW p \in Int, NEW q \in Int,
           Within(x, p), Within(y, q)
    PROVE  Within(x + y, p + q)
BY DEF Within

LEMMA WithinScales ==
    ASSUME NEW s \in Nat, NEW x \in Int, NEW p \in Int, Within(x, p)
    PROVE  /\ Within(s * x, s * p)
           /\ Within(-(s * x), s * p)
<1>1. ASSUME NEW a \in Int, NEW b \in Int, a <= b PROVE s * a <= s * b
  BY <1>1
<1>2. s * x <= s * p
  BY <1>1 DEF Within
<1>3. s * (-p) <= s * x
  BY <1>1 DEF Within
<1>4. s * (-p) = -(s * p) /\ s * x \in Int /\ s * p \in Int
  OBVIOUS
<1> QED BY <1>2, <1>3, <1>4 DEF Within

LEMMA EnergyTypes ==
    /\ Scale \in Nat /\ Tol \in Nat /\ InitialSoc \in Int
    /\ \A x \in Int : Gain(x) \in Int /\ Loss(x) \in Int
    /\ Gain(0) = 0 /\ Loss(0) = 0
<1>1. /\ ChargeDen \in Nat /\ ChargeNum \in Nat /\ DischargeDen \in Nat
      /\ DischargeNum \in Nat
  BY BatteryAssumption DEF ValidConfig
<1> QED BY <1>1, BatteryAssumption DEF ValidConfig, Scale, Gain, Loss

LEMMA FlowsAdd ==
    ASSUME NEW x \in Int, NEW y \in Int
    PROVE  Gain(x + y) = Gain(x) + Gain(y) /\ Loss(x + y) = Loss(x) + Loss(y)
<1> DEFINE g == ChargeNum * DischargeNum
           l == ChargeDen * DischargeDen
<1>1. g \in Int /\ l \in Int
  <2>1. /\ ChargeDen \in Nat /\ ChargeNum \in Nat /\ DischargeDen \in Nat
        /\ DischargeNum \in Nat
    BY BatteryAssumption DEF ValidConfig
  <2> QED BY <2>1
<1>2. Gain(x + y) = g * (x + y) /\ Gain(x) = g * x /\ Gain(y) = g * y
  BY DEF Gain
<1>3. Loss(x + y) = l * (x + y) /\ Loss(x) = l * x /\ Loss(y) = l * y
  BY DEF Loss
<1> HIDE DEF g, l
<1> QED BY <1>1, <1>2, <1>3

\* The three ways the balance moves: an accepted first level, hour and last level.
\* drift is what was charged beyond what was discharged, in the cells; slack
\* counts the tolerances spent so far.
LEMMA BalanceStarts ==
    ASSUME NEW drift \in Int, NEW slack \in Int, NEW soc \in Int,
           Within(drift, Scale * slack), Within(soc - InitialSoc, Tol)
    PROVE  Within(drift - Scale * (soc - InitialSoc), Scale * (slack + Tol))
<1> DEFINE e == soc - InitialSoc
<1>1. e \in Int /\ Scale \in Nat /\ Tol \in Int
  BY EnergyTypes
<1>2. Within(-(Scale * e), Scale * Tol)
  BY <1>1, WithinScales
<1> HIDE DEF e
<1>3. Scale * e \in Int /\ Scale * Tol \in Int /\ Scale * slack \in Int
  BY <1>1
<1>4. Within(drift + -(Scale * e), Scale * slack + Scale * Tol)
  BY <1>2, <1>3, WithinAdds
<1>5. /\ drift + -(Scale * e) = drift - Scale * e
      /\ Scale * slack + Scale * Tol = Scale * (slack + Tol)
  BY <1>1, <1>3
<1> QED BY <1>4, <1>5 DEF e

LEMMA BalanceMoves ==
    ASSUME NEW drift \in Int, NEW slack \in Int, NEW soc \in Int, NEW next \in Int,
           NEW c \in Int, NEW d \in Int,
           Within(drift - Scale * (soc - InitialSoc), Scale * (slack + Tol)),
           Reconciles(soc, c, d, next)
    PROVE  Within(drift + Gain(c) - Loss(d) - Scale * (next - InitialSoc),
                  Scale * (slack + Tol + Tol))
<1> DEFINE x == drift - Scale * (soc - InitialSoc)
           y == Scale * soc + Gain(c) - Loss(d) - Scale * next
<1>1. /\ Scale \in Int /\ Tol \in Int /\ InitialSoc \in Int
      /\ Gain(c) \in Int /\ Loss(d) \in Int
  BY EnergyTypes
<1>2. /\ x \in Int /\ y \in Int /\ Scale * (slack + Tol) \in Int /\ Scale * Tol \in Int
  BY <1>1
<1>3. Within(x, Scale * (slack + Tol)) /\ Within(y, Scale * Tol)
  BY DEF Reconciles
<1>4. Within(x + y, Scale * (slack + Tol) + Scale * Tol)
  BY <1>2, <1>3, WithinAdds
<1>5. x + y = drift + Gain(c) - Loss(d) - Scale * (next - InitialSoc)
  BY <1>1
<1>6. Scale * (slack + Tol) + Scale * Tol = Scale * (slack + Tol + Tol)
  BY <1>1
<1> QED BY <1>4, <1>5, <1>6

LEMMA BalanceEnds ==
    ASSUME NEW drift \in Int, NEW slack \in Int, NEW soc \in Int,
           Within(drift - Scale * (soc - InitialSoc), Scale * (slack + Tol)),
           Within(soc - TerminalSoc, Tol)
    PROVE  Within(drift, Scale * (slack + 2 * Tol))
<1> DEFINE e == soc - InitialSoc
           x == drift - Scale * e
<1>1. /\ e \in Int /\ Scale \in Nat /\ Tol \in Int /\ Within(e, Tol)
  BY EnergyTypes, BacktestAssumption
<1>2. Within(Scale * e, Scale * Tol)
  BY <1>1, WithinScales
<1> HIDE DEF e
<1>3. /\ Scale * e \in Int /\ x \in Int /\ Scale * Tol \in Int
      /\ Scale * (slack + Tol) \in Int
  BY <1>1
<1>4. Within(x, Scale * (slack + Tol))
  BY DEF e
<1> HIDE DEF x
<1>5. Within(x + Scale * e, Scale * (slack + Tol) + Scale * Tol)
  BY <1>2, <1>3, <1>4, WithinAdds
<1>6. /\ x + Scale * e = drift
      /\ Scale * (slack + Tol) + Scale * Tol = Scale * (slack + 2 * Tol)
  BY <1>1, <1>3 DEF x
<1> QED BY <1>5, <1>6

----------------------------------------------------------------------------
(* Each step of the benchmark preserves the invariant.                     *)

LEMMA IdleIsSound ==
    ASSUME SourceTypeOK', bench' = NoBench
    PROVE  BenchInv'
<1>1. NoBench \in Bench
  BY TimeAssumption DEF NoBench, Bench, Days, NoTotals, Totals
<1>2. bench'.pc = "idle" /\ bench'.totals = NoTotals /\ bench'.hour = 0
  BY DEF NoBench
<1>3. NoTotals.charging = 0 /\ NoTotals.discharging = 0 /\ NoTotals.hours = 0
  BY DEF NoTotals
<1>4. ActivityAddsUp'
  BY <1>2, <1>3 DEF ActivityAddsUp
<1>5. EnergyIsConserved'
  BY <1>2 DEF EnergyIsConserved
<1> QED BY <1>1, <1>2, <1>4, <1>5
    DEF BenchInv, TypeOK, NothingCounted, HoursCounted, DaysComplete

\* The query returns well-typed rows.
LEMMA SelectedRows ==
    ASSUME SourceTypeOK, NEW start, NEW end, NEW location
    PROVE  Selected(start, end, location) \subseteq InputRow
<1>1. Midnight(0) \in Int
  BY MidnightIsInt, TimeAssumption
<1>2. ASSUME NEW m \in mart
      PROVE  [location |-> m.location, market_date |-> m.market_date, start |-> m.start,
              end |-> m.end, key |-> m.start - Midnight(0)] \in InputRow
  BY <1>1 DEF SourceTypeOK, MartRow, InputRow
<1> QED BY <1>2 DEF Selected

LEMMA ReadInputsStep ==
    ASSUME BenchInv, NEW start \in Days, NEW end \in Days, NEW location \in TradingHub,
           ReadInputs(start, end, location)
    PROVE  BenchInv'
<1>1. PICK file \in BOOLEAN :
          \E rows \in IF file THEN SUBSET FileRow ELSE {Selected(start, end, location)} :
              bench' = [NoBench EXCEPT !.pc = "inputs", !.start = start, !.end = end,
                            !.location = location, !.file = file, !.rows = rows]
  BY DEF ReadInputs
<1>2. PICK rows \in IF file THEN SUBSET FileRow ELSE {Selected(start, end, location)} :
          bench' = [NoBench EXCEPT !.pc = "inputs", !.start = start, !.end = end,
                        !.location = location, !.file = file, !.rows = rows]
  BY <1>1
<1>3. rows \subseteq InputRow
  BY SelectedRows, BacktestAssumption DEF BenchInv, TypeOK
<1>4. bench' = [pc |-> "inputs", start |-> start, end |-> end, location |-> location,
                file |-> file, rows |-> rows, day |-> 0, hour |-> 0, soc |-> 0,
                totals |-> NoTotals]
  BY <1>2 DEF NoBench
<1>5. 0 \in Days /\ NoTotals \in Totals
  BY TimeAssumption DEF Days, NoTotals, Totals
<1>6. bench' \in Bench
  BY <1>3, <1>4, <1>5 DEF Bench
<1>7. /\ bench'.pc = "inputs" /\ bench'.totals = NoTotals /\ bench'.hour = 0
      /\ bench'.start <= bench'.end
  BY <1>4 DEF ReadInputs, ValidRange
<1>8. NoTotals.charging = 0 /\ NoTotals.discharging = 0 /\ NoTotals.hours = 0
  BY DEF NoTotals
<1>9. SourceTypeOK'
  BY DEF ReadInputs, BenchInv, TypeOK, SourceTypeOK, sourceVars
<1>10. ActivityAddsUp'
  BY <1>7, <1>8 DEF ActivityAddsUp
<1>11. EnergyIsConserved'
  BY <1>7 DEF EnergyIsConserved
<1> QED BY <1>6, <1>7, <1>9, <1>10, <1>11
    DEF BenchInv, TypeOK, NothingCounted, HoursCounted, DaysComplete

\* Only the check of the inputs decides which rows are solved.
LEMMA RowsKept ==
    ASSUME DaysComplete, bench.pc \in {"solve", "hour"},
           bench'.rows = bench.rows, bench'.start = bench.start, bench'.end = bench.end
    PROVE  DaysComplete'
<1>1. \A day \in bench.start..bench.end : Cardinality(RowsOf(day)) = HoursOf(day)
  BY DEF DaysComplete
<1>2. \A day : {row \in bench'.rows : row.market_date = day} = RowsOf(day)
  BY DEF RowsOf
<1> QED BY <1>1, <1>2 DEF DaysComplete, RowsOf, HoursOf, Midnight

LEMMA CheckInputsStep ==
    ASSUME BenchInv, CheckInputs
    PROVE  BenchInv'
<1>1. SourceTypeOK'
  BY DEF CheckInputs, BenchInv, TypeOK, SourceTypeOK, sourceVars
<1>2. CASE bench' = NoBench
  BY <1>1, <1>2, IdleIsSound
<1>3. CASE InputsAccepted /\ bench' = [bench EXCEPT !.pc = "solve", !.day = bench.start]
  <2>1. bench \in Bench /\ bench.pc = "inputs" /\ bench.totals = NoTotals
        /\ bench.start <= bench.end
    BY DEF BenchInv, TypeOK, NothingCounted, CheckInputs
  <2>2. bench' \in Bench
    BY <1>3, <2>1 DEF Bench
  <2>3. /\ bench'.pc = "solve" /\ bench'.day = bench.start /\ bench'.start = bench.start
        /\ bench'.end = bench.end /\ bench'.totals = NoTotals /\ bench'.hour = bench.hour
    BY <1>3, <2>1 DEF Bench
  <2>4. /\ NoTotals.charging = 0 /\ NoTotals.discharging = 0 /\ NoTotals.hours = 0
        /\ NoTotals.charged = 0 /\ NoTotals.discharged = 0 /\ NoTotals.days = 0
    BY DEF NoTotals
  <2>5. bench.hour = 0
    BY <2>1 DEF BenchInv, NothingCounted
  <2>6. bench.start \in 0..(LastDay + 1) /\ bench.start \in Int /\ bench.end \in Int
    BY <2>1, TimeAssumption DEF Bench, Days
  <2>7. HoursCounted'
    <3>1. /\ Midnight(bench.day)' = Midnight(bench.start)
          /\ Midnight(bench.start)' = Midnight(bench.start)
      BY <2>3 DEF Midnight
    <3>2. Midnight(bench.start) \in Int /\ Hour \in Int
      BY <2>6, MidnightIsInt, TimeAssumption
    <3> QED BY <2>1, <2>3, <2>4, <2>5, <2>6, <3>1, <3>2 DEF HoursCounted
  <2>8. ActivityAddsUp'
    BY <2>3, <2>4 DEF ActivityAddsUp
  <2>9. EnergyIsConserved'
    <3>1. Gain(0) = 0 /\ Loss(0) = 0
      BY EnergyTypes
    <3>2. Slack' = 0 /\ Scale * 0 = 0
      BY <2>3, <2>4, EnergyTypes DEF Slack
    <3>3. Within(0, 0)
      BY DEF Within
    <3> QED BY <2>3, <2>4, <3>1, <3>2, <3>3 DEF EnergyIsConserved
  <2>10. DaysComplete'
    <3>1. \A day \in bench.start..bench.end : Cardinality(RowsOf(day)) = HoursOf(day)
      BY <1>3 DEF InputsAccepted, Continuous
    <3>2. bench'.rows = bench.rows
      BY <1>3, <2>1 DEF Bench
    <3>3. \A day : {row \in bench'.rows : row.market_date = day} = RowsOf(day)
      BY <3>2 DEF RowsOf
    <3> QED BY <2>3, <3>1, <3>3 DEF DaysComplete, RowsOf, HoursOf, Midnight
  <2> QED BY <1>1, <2>2, <2>3, <2>7, <2>8, <2>9, <2>10 DEF BenchInv, TypeOK, NothingCounted
<1> QED BY <1>2, <1>3 DEF CheckInputs

\* What the metrics of a benchmark at work are.
LEMMA TotalsAreNumbers ==
    ASSUME BenchInv
    PROVE  /\ bench \in Bench /\ bench.soc \in Int /\ bench.hour \in Nat
           /\ bench.totals \in Totals
           /\ bench.totals.charged \in Int /\ bench.totals.discharged \in Int
           /\ bench.totals.hours \in Nat /\ bench.totals.days \in Nat
           /\ bench.totals.charging \in Nat /\ bench.totals.discharging \in Nat
           /\ bench.day \in Days /\ bench.start \in Days /\ bench.end \in Days
           /\ Slack \in Int
           /\ Gain(bench.totals.charged) - Loss(bench.totals.discharged) \in Int
<1>1. bench \in Bench
  BY DEF BenchInv, TypeOK
<1>2. /\ bench.soc \in Int /\ bench.hour \in Nat /\ bench.totals \in Totals
      /\ bench.day \in Days /\ bench.start \in Days /\ bench.end \in Days
  BY <1>1 DEF Bench
<1>3. /\ bench.totals.charged \in Int /\ bench.totals.discharged \in Int
      /\ bench.totals.hours \in Nat /\ bench.totals.days \in Nat
      /\ bench.totals.charging \in Nat /\ bench.totals.discharging \in Nat
  BY <1>2 DEF Totals
<1> QED BY <1>1, <1>2, <1>3, EnergyTypes DEF Slack

LEMMA StartDayStep ==
    ASSUME BenchInv, NEW soc \in Level, StartDay(soc)
    PROVE  BenchInv'
<1>1. SourceTypeOK'
  BY DEF StartDay, BenchInv, TypeOK, SourceTypeOK, sourceVars
<1>2. CASE bench' = NoBench
  BY <1>1, <1>2, IdleIsSound
<1>3. CASE /\ Within(soc - InitialSoc, Tol)
           /\ bench' = [bench EXCEPT !.pc = "hour", !.hour = 0, !.soc = soc]
  <2>1. bench.pc = "solve" /\ soc \in Int
    BY BacktestAssumption DEF StartDay
  <2>2. bench' \in Bench
    BY <1>3, <2>1, TotalsAreNumbers DEF Bench
  <2>3. /\ bench'.pc = "hour" /\ bench'.day = bench.day /\ bench'.start = bench.start
        /\ bench'.end = bench.end /\ bench'.totals = bench.totals /\ bench'.hour = 0
        /\ bench'.soc = soc /\ bench'.rows = bench.rows
    BY <1>3, TotalsAreNumbers DEF Bench
  <2>4. HoursCounted'
    BY <2>1, <2>3 DEF BenchInv, HoursCounted, Midnight
  <2>5. ActivityAddsUp'
    BY <2>3 DEF BenchInv, ActivityAddsUp
  <2>6. EnergyIsConserved'
    <3>1. Within(Gain(bench.totals.charged) - Loss(bench.totals.discharged), Scale * Slack)
      BY <2>1 DEF BenchInv, EnergyIsConserved
    <3>2. Within(Gain(bench.totals.charged) - Loss(bench.totals.discharged)
                     - Scale * (soc - InitialSoc), Scale * (Slack + Tol))
      BY <1>3, <2>1, <3>1, TotalsAreNumbers, BalanceStarts
    <3>3. Slack' = Slack
      BY <2>3 DEF Slack
    <3> QED BY <2>3, <3>2, <3>3 DEF EnergyIsConserved
  <2>7. DaysComplete'
    BY <2>1, <2>3, RowsKept DEF BenchInv
  <2> QED BY <1>1, <2>2, <2>3, <2>4, <2>5, <2>6, <2>7 DEF BenchInv, TypeOK, NothingCounted
<1> QED BY <1>2, <1>3 DEF StartDay

LEMMA AddedTotals ==
    ASSUME NEW t \in Totals, NEW c \in Int, NEW d \in Int
    PROVE  /\ Added(t, c, d) \in Totals
           /\ Added(t, c, d).hours = t.hours + 1
           /\ Added(t, c, d).days = t.days
           /\ Added(t, c, d).charged = t.charged + c
           /\ Added(t, c, d).discharged = t.discharged + d
           /\ Added(t, c, d).charging = t.charging + Active(c)
           /\ Added(t, c, d).discharging = t.discharging + Active(d)
<1>1. Active(c) \in Nat /\ Active(d) \in Nat
  BY DEF Active
<1> QED BY <1>1 DEF Added, Totals

\* One more unit of tolerance spent.
LEMMA SlackGrows ==
    ASSUME NEW h \in Int, NEW n \in Int
    PROVE  /\ Tol * ((h + 1) + 2 * n) = Tol * (h + 2 * n) + Tol
           /\ Tol * (h + 2 * (n + 1)) = Tol * (h + 2 * n) + 2 * Tol
<1> DEFINE m == h + 2 * n
<1>1. m \in Int /\ (h + 1) + 2 * n = m + 1 /\ h + 2 * (n + 1) = m + 2
  OBVIOUS
<1>2. Tol \in Int
  BY EnergyTypes
<1> HIDE DEF m
<1>3. Tol * (m + 1) = Tol * m + Tol /\ Tol * (m + 2) = Tol * m + 2 * Tol
  BY <1>1, <1>2
<1> QED BY <1>1, <1>3 DEF m

\* An hour adds itself to the metrics; only one direction counts as active.
LEMMA DispatchHourStep ==
    ASSUME BenchInv, NEW c \in Power, NEW d \in Power, NEW mode \in {0, 1},
           NEW soc \in Level, DispatchHour(c, d, mode, soc)
    PROVE  BenchInv'
<1>1. SourceTypeOK'
  BY DEF DispatchHour, BenchInv, TypeOK, SourceTypeOK, sourceVars
<1>2. CASE bench' = NoBench
  BY <1>1, <1>2, IdleIsSound
<1>3. CASE /\ ValidPower(c, d, mode)
           /\ Reconciles(bench.soc, c, d, soc)
           /\ bench' = [bench EXCEPT !.hour = @ + 1, !.soc = soc,
                                    !.totals = Added(@, c, d)]
  <2> DEFINE t == bench.totals
  <2>1. bench.pc = "hour" /\ soc \in Int /\ c \in Int /\ d \in Int
    BY BacktestAssumption DEF DispatchHour
  <2>2. /\ Active(c) \in {0, 1} /\ Active(d) \in {0, 1} /\ Active(c) + Active(d) <= 1
    BY <1>3, <2>1, BatteryAssumption DEF Active, ValidPower, ValidConfig
  <2>3. /\ bench'.pc = "hour" /\ bench'.day = bench.day /\ bench'.start = bench.start
        /\ bench'.end = bench.end /\ bench'.totals = Added(t, c, d)
        /\ bench'.hour = bench.hour + 1 /\ bench'.soc = soc /\ bench'.rows = bench.rows
    BY <1>3, <2>1, TotalsAreNumbers DEF Bench
  <2>4. t \in Totals /\ bench.hour + 1 \in Nat
    BY TotalsAreNumbers
  <2>5. Added(t, c, d) \in Totals
    BY <2>1, <2>4, AddedTotals
  <2>6. bench' \in Bench
    BY <1>3, <2>1, <2>4, <2>5, TotalsAreNumbers DEF Bench
  <2>7. /\ bench'.totals.hours = t.hours + 1 /\ bench'.totals.days = t.days
        /\ bench'.totals.charged = t.charged + c
        /\ bench'.totals.discharged = t.discharged + d
        /\ bench'.totals.charging = t.charging + Active(c)
        /\ bench'.totals.discharging = t.discharging + Active(d)
    <3> HIDE DEF t
    <3>1. bench'.totals = Added(t, c, d)
      BY <2>3
    <3>2. /\ Added(t, c, d).hours = t.hours + 1 /\ Added(t, c, d).days = t.days
          /\ Added(t, c, d).charged = t.charged + c
          /\ Added(t, c, d).discharged = t.discharged + d
          /\ Added(t, c, d).charging = t.charging + Active(c)
          /\ Added(t, c, d).discharging = t.discharging + Active(d)
      BY <2>1, <2>4, AddedTotals
    <3> QED BY <3>1, <3>2
  <2>8. HoursCounted'
    <3>1. /\ Midnight(bench.day)' = Midnight(bench.day)
          /\ Midnight(bench.start)' = Midnight(bench.start)
      BY <2>3 DEF Midnight
    <3>2. Midnight(bench.start) \in Int /\ Midnight(bench.day) \in Int /\ Hour \in Int
      BY TotalsAreNumbers, DaysHaveMidnights, TimeAssumption
    <3>3. /\ bench.start <= bench.day /\ bench.day <= bench.end
          /\ t.hours * Hour = Midnight(bench.day) - Midnight(bench.start) + bench.hour * Hour
      BY <2>1 DEF BenchInv, HoursCounted
    <3>4. /\ (t.hours + 1) * Hour = t.hours * Hour + Hour
          /\ (bench.hour + 1) * Hour = bench.hour * Hour + Hour
          /\ t.hours * Hour \in Int /\ bench.hour * Hour \in Int
      BY <3>2, TotalsAreNumbers
    <3>5. bench'.totals.hours * Hour =
              Midnight(bench.day) - Midnight(bench.start) + bench'.hour * Hour
      BY <2>3, <2>7, <3>2, <3>3, <3>4
    <3> QED BY <2>3, <3>1, <3>3, <3>5 DEF HoursCounted
  <2>9. ActivityAddsUp'
    BY <2>2, <2>3, <2>7, TotalsAreNumbers DEF BenchInv, ActivityAddsUp
  <2>10. EnergyIsConserved'
    <3> DEFINE drift == Gain(t.charged) - Loss(t.discharged)
    <3>1. Within(drift - Scale * (bench.soc - InitialSoc), Scale * (Slack + Tol))
      BY <2>1 DEF BenchInv, EnergyIsConserved
    <3>2. drift \in Int /\ Slack \in Int /\ bench.soc \in Int
      BY TotalsAreNumbers
    <3>3. Within(drift + Gain(c) - Loss(d) - Scale * (soc - InitialSoc),
                 Scale * (Slack + Tol + Tol))
      BY <1>3, <2>1, <3>1, <3>2, BalanceMoves
    <3>4. /\ Gain(t.charged + c) = Gain(t.charged) + Gain(c)
          /\ Loss(t.discharged + d) = Loss(t.discharged) + Loss(d)
          /\ Gain(t.charged) \in Int /\ Gain(c) \in Int
          /\ Loss(t.discharged) \in Int /\ Loss(d) \in Int
      BY <2>1, FlowsAdd, EnergyTypes, TotalsAreNumbers
    <3>5. Gain(t.charged + c) - Loss(t.discharged + d) = drift + Gain(c) - Loss(d)
      BY <3>4
    <3>6. Slack' = Slack + Tol
      BY <2>7, SlackGrows, TotalsAreNumbers DEF Slack
    <3>7. /\ Gain(bench.totals.charged)' = Gain(t.charged + c)
          /\ Loss(bench.totals.discharged)' = Loss(t.discharged + d)
      BY <2>7 DEF Gain, Loss
    <3>8. bench'.pc = "hour" /\ bench'.soc = soc
      BY <2>3
    <3> DEFINE after == drift + Gain(c) - Loss(d)
    <3>9. Gain(bench.totals.charged)' - Loss(bench.totals.discharged)' = after
      BY <3>5, <3>7
    <3>10. Within(after - Scale * (soc - InitialSoc), Scale * (Slack + Tol + Tol))
      <4> DEFINE stored == Scale * (soc - InitialSoc)
      <4>1. stored \in Int
        BY <2>1, EnergyTypes
      <4> HIDE DEF stored
      <4>2. drift + Gain(c) - Loss(d) - stored = after - stored
        BY <3>2, <3>4, <4>1
      <4>3. Within(drift + Gain(c) - Loss(d) - stored, Scale * (Slack + Tol + Tol))
        BY <3>3, Zenon DEF stored
      <4>4. Within(after - stored, Scale * (Slack + Tol + Tol))
        BY <4>2, <4>3
      <4> QED BY <4>4, Zenon DEF stored
    <3> HIDE DEF after
    <3>11. Within(after - Scale * (bench'.soc - InitialSoc), Scale * (Slack' + Tol))
      BY <3>6, <3>8, <3>10
    <3> QED BY <3>8, <3>9, <3>11 DEF EnergyIsConserved
  <2>11. DaysComplete'
    BY <2>1, <2>3, RowsKept DEF BenchInv
  <2> QED BY <1>1, <2>3, <2>6, <2>8, <2>9, <2>10, <2>11 DEF BenchInv, TypeOK, NothingCounted
<1> QED BY <1>2, <1>3 DEF DispatchHour

\* A day that ends at the terminal level completes its hours, and the next one
\* starts at the following midnight.
LEMMA EndDayStep ==
    ASSUME BenchInv, EndDay
    PROVE  BenchInv'
<1>1. SourceTypeOK'
  BY DEF EndDay, BenchInv, TypeOK, SourceTypeOK, sourceVars
<1>2. CASE bench' = NoBench
  BY <1>1, <1>2, IdleIsSound
<1>3. CASE /\ ValidEnd
           /\ bench' = [bench EXCEPT
                            !.pc = IF bench.day = bench.end THEN "reported" ELSE "solve",
                            !.day = IF bench.day = bench.end THEN @ ELSE @ + 1,
                            !.hour = 0, !.soc = 0, !.totals.days = @ + 1]
  <2> DEFINE t == bench.totals
             last == bench.day = bench.end
             u == [t EXCEPT !.days = @ + 1]
  <2>1. bench.pc = "hour" /\ bench.hour = HoursOf(bench.day)
    <3>1. bench.pc = "hour" /\ bench.hour = Cardinality(RowsOf(bench.day))
      BY DEF EndDay, Horizon
    <3>2. bench.day \in bench.start..bench.end
      <4>1. bench.start \in Int /\ bench.day \in Int /\ bench.end \in Int
        BY TotalsAreNumbers, TimeAssumption DEF Days
      <4>2. bench.start <= bench.day /\ bench.day <= bench.end
        BY <3>1 DEF BenchInv, HoursCounted
      <4> QED BY <4>1, <4>2
    <3> QED BY <3>1, <3>2 DEF BenchInv, DaysComplete
  <2>2. /\ bench.start <= bench.day /\ bench.day <= bench.end
        /\ t.hours * Hour = Midnight(bench.day) - Midnight(bench.start) + bench.hour * Hour
    BY <2>1 DEF BenchInv, HoursCounted
  <2>3. /\ u \in Totals /\ u.days = t.days + 1 /\ u.hours = t.hours
        /\ u.charged = t.charged /\ u.discharged = t.discharged
        /\ u.charging = t.charging /\ u.discharging = t.discharging
    BY TotalsAreNumbers DEF Totals
  <2>4. /\ bench'.pc = (IF last THEN "reported" ELSE "solve")
        /\ bench'.day = (IF last THEN bench.day ELSE bench.day + 1)
        /\ bench'.start = bench.start /\ bench'.end = bench.end
        /\ bench'.hour = 0 /\ bench'.soc = 0 /\ bench'.totals = u
        /\ bench'.location = bench.location /\ bench'.file = bench.file
        /\ bench'.rows = bench.rows
    BY <1>3, TotalsAreNumbers DEF Bench
  <2>5. bench'.day \in Days
    <3>1. /\ bench.day \in Nat /\ bench.end \in Nat /\ LastDay \in Nat
          /\ bench.day <= LastDay /\ bench.end <= LastDay
      BY TotalsAreNumbers, TimeAssumption DEF Days
    <3>2. ~last => bench.day + 1 \in Nat /\ bench.day + 1 <= LastDay
      BY <2>2, <3>1
    <3>3. CASE last
      BY <2>4, <3>3, TotalsAreNumbers
    <3>4. CASE ~last
      BY <2>4, <3>1, <3>2, <3>4 DEF Days
    <3> QED BY <3>3, <3>4
  <2>6. bench' = [pc |-> bench'.pc, start |-> bench.start, end |-> bench.end,
                  location |-> bench.location, file |-> bench.file, rows |-> bench.rows,
                  day |-> bench'.day, hour |-> 0, soc |-> 0, totals |-> u]
    BY <1>3, <2>4, TotalsAreNumbers DEF Bench
  <2>7. bench' \in Bench
    <3>1. /\ bench'.pc \in {"solve", "reported"}
          /\ bench.location \in TradingHub \cup {NoHub} /\ bench.file \in BOOLEAN
          /\ bench.rows \in SUBSET InputRow
      BY <2>4, TotalsAreNumbers DEF Bench
    <3> HIDE DEF u
    <3> QED BY <2>3, <2>5, <2>6, <3>1, TotalsAreNumbers DEF Bench
  <2>8. /\ Midnight(bench.start) \in Int /\ Midnight(bench.day) \in Int
        /\ Midnight(bench.day + 1) \in Int
        /\ t.hours * Hour = Midnight(bench.day + 1) - Midnight(bench.start)
    <3>1. /\ Midnight(bench.start) \in Int /\ Midnight(bench.day) \in Int
          /\ Midnight(bench.day + 1) \in Int
      BY DaysHaveMidnights, TotalsAreNumbers
    <3>2. bench.hour * Hour = Midnight(bench.day + 1) - Midnight(bench.day)
      BY <2>1, HoursAreExact, TotalsAreNumbers
    <3> QED BY <2>2, <3>1, <3>2
  <2>9. HoursCounted'
    <3>1. CASE last
      BY <2>4, <3>1 DEF HoursCounted
    <3>2. CASE ~last
      <4>1. bench.start <= bench.day + 1 /\ bench.day + 1 <= bench.end
        <5>1. bench.start \in Int /\ bench.day \in Int /\ bench.end \in Int
          BY TotalsAreNumbers, TimeAssumption DEF Days
        <5> QED BY <2>2, <3>2, <5>1
      <4>2. Midnight(bench.day)' = Midnight(bench.day + 1)
            /\ Midnight(bench.start)' = Midnight(bench.start)
        BY <2>4, <3>2 DEF Midnight
      <4>3. 0 * Hour = 0
        BY TimeAssumption
      <4>4. bench'.totals.hours * Hour =
                Midnight(bench.day)' - Midnight(bench.start)' + bench'.hour * Hour
        BY <2>3, <2>4, <2>8, <4>2, <4>3
      <4> QED BY <2>4, <3>2, <4>1, <4>4 DEF HoursCounted
    <3> QED BY <3>1, <3>2
  <2>10. ActivityAddsUp'
    <3>1. bench'.totals.charging + bench'.totals.discharging <= bench'.totals.hours
      BY <2>3, <2>4 DEF BenchInv, ActivityAddsUp
    <3>2. ASSUME bench'.pc = "reported"
          PROVE  bench'.totals.hours * Hour
                     = Midnight(bench.end + 1)' - Midnight(bench.start)'
      <4>1. last
        BY <2>4, <3>2
      <4>2. /\ Midnight(bench.end + 1)' = Midnight(bench.day + 1)
            /\ Midnight(bench.start)' = Midnight(bench.start)
        BY <2>4, <4>1 DEF Midnight
      <4> QED BY <2>3, <2>4, <2>8, <4>2
    <3> QED BY <3>1, <3>2 DEF ActivityAddsUp
  <2>11. EnergyIsConserved'
    <3> DEFINE drift == Gain(t.charged) - Loss(t.discharged)
    <3>1. Within(drift - Scale * (bench.soc - InitialSoc), Scale * (Slack + Tol))
      BY <2>1 DEF BenchInv, EnergyIsConserved
    <3>2. drift \in Int /\ Slack \in Int /\ bench.soc \in Int
      BY TotalsAreNumbers
    <3>3. Within(drift, Scale * (Slack + 2 * Tol))
      BY <1>3, <3>1, <3>2, BalanceEnds DEF ValidEnd
    <3>4. Slack' = Slack + 2 * Tol
      BY <2>3, <2>4, SlackGrows, TotalsAreNumbers DEF Slack
    <3>5. /\ Gain(bench.totals.charged)' = Gain(t.charged)
          /\ Loss(bench.totals.discharged)' = Loss(t.discharged)
      BY <2>3, <2>4 DEF Gain, Loss
    <3>6. bench'.pc # "hour"
      BY <2>4
    <3> QED BY <3>3, <3>4, <3>5, <3>6 DEF EnergyIsConserved
  <2>12. NothingCounted'
    BY <2>4 DEF NothingCounted
  <2>13. DaysComplete'
    BY <2>1, <2>4, RowsKept DEF BenchInv
  <2> QED BY <1>1, <2>7, <2>9, <2>10, <2>11, <2>12, <2>13 DEF BenchInv, TypeOK
<1> QED BY <1>2, <1>3 DEF EndDay

\* Steps that leave the benchmark alone.
LEMMA BenchUnchanged ==
    ASSUME BenchInv, SourceTypeOK', bench' = bench
    PROVE  BenchInv'
<1>1. bench' \in Bench /\ NothingCounted'
  BY DEF BenchInv, TypeOK, NothingCounted
<1>2. HoursCounted'
  BY DEF BenchInv, HoursCounted, Midnight
<1>3. ActivityAddsUp'
  BY DEF BenchInv, ActivityAddsUp, Midnight
<1>4. EnergyIsConserved'
  BY DEF BenchInv, EnergyIsConserved, Slack, Gain, Loss
<1>5. DaysComplete'
  <2>1. CASE bench.pc \in {"solve", "hour"}
    BY <2>1, RowsKept DEF BenchInv
  <2>2. CASE ~(bench.pc \in {"solve", "hour"})
    BY <2>2 DEF DaysComplete
  <2> QED BY <2>1, <2>2
<1> QED BY <1>1, <1>2, <1>3, <1>4, <1>5 DEF BenchInv, TypeOK

LEMMA BenchInvHolds == BenchInv /\ [Next]_vars => BenchInv'
<1> SUFFICES ASSUME BenchInv, [Next]_vars PROVE BenchInv'
  OBVIOUS
<1>1. CASE bench.pc = "idle" /\ SourceNext /\ UNCHANGED bench
  BY <1>1, SourceTypes, BenchUnchanged DEF BenchInv, TypeOK
<1>2. CASE \E start, end \in Days, l \in TradingHub : ReadInputs(start, end, l)
  BY <1>2, ReadInputsStep
<1>3. CASE CheckInputs
  BY <1>3, CheckInputsStep
<1>4. CASE \E soc \in Level : StartDay(soc)
  BY <1>4, StartDayStep
<1>5. CASE \E charge, discharge \in Power, mode \in {0, 1}, soc \in Level :
               DispatchHour(charge, discharge, mode, soc)
  BY <1>5, DispatchHourStep
<1>6. CASE EndDay
  BY <1>6, EndDayStep
<1>7. CASE SolverFails \/ Report
  <2>1. SourceTypeOK' /\ bench' = NoBench
    BY <1>7 DEF SolverFails, Report, BenchInv, TypeOK, SourceTypeOK, sourceVars
  <2> QED BY <2>1, IdleIsSound
<1>8. CASE UNCHANGED vars
  <2>1. SourceTypeOK' /\ bench' = bench
    BY <1>8 DEF vars, BenchInv, TypeOK, SourceTypeOK, sourceVars
  <2> QED BY <2>1, BenchUnchanged
<1> QED BY <1>1, <1>2, <1>3, <1>4, <1>5, <1>6, <1>7, <1>8 DEF Next

LEMMA BenchInvStarts == Init => BenchInv
<1> SUFFICES ASSUME Init PROVE BenchInv
  OBVIOUS
<1>1. SourceTypeOK
  BY TimeAssumption DEF Init, SourceInit, SourceTypeOK, NoFetch, Fetch, Product, Days
<1>2. NoBench \in Bench
  BY TimeAssumption DEF NoBench, Bench, Days, NoTotals, Totals
<1>3. bench.pc = "idle" /\ bench.totals = NoTotals /\ bench.hour = 0 /\ bench \in Bench
  BY <1>2 DEF Init, NoBench
<1>4. ActivityAddsUp
  BY <1>3 DEF ActivityAddsUp, NoTotals
<1>5. EnergyIsConserved
  BY <1>3 DEF EnergyIsConserved
<1> QED BY <1>1, <1>3, <1>4, <1>5 
    DEF BenchInv, TypeOK, NothingCounted, HoursCounted, DaysComplete

LEMMA BenchInvariant == Spec => []BenchInv
BY BenchInvStarts, BenchInvHolds, PTL DEF Spec

----------------------------------------------------------------------------

\* The adapter's frame, the mart and the benchmark stay well typed: a row that
\* passed the checks of the adapter always makes a complete observation.
THEOREM BenchTypes == Spec => []TypeOK
<1>1. BenchInv => TypeOK
  BY DEF BenchInv
<1> QED BY <1>1, BenchInvariant, PTL

\* Activity never exceeds the hours counted, and a report has counted every hour
\* between its outer midnights, for any calendar of clock changes and whatever
\* powers the solver returns within its tolerance.
THEOREM ActivityCorrect == Spec => []ActivityAddsUp
<1>1. BenchInv => ActivityAddsUp
  BY DEF BenchInv
<1> QED BY <1>1, BenchInvariant, PTL

\* The hourly and daily checks of validate_dispatch() bound the drift of a whole
\* report, for every battery, efficiency and number of days.
THEOREM EnergyCorrect == Spec => []EnergyIsConserved
<1>1. BenchInv => EnergyIsConserved
  BY DEF BenchInv
<1> QED BY <1>1, BenchInvariant, PTL
=============================================================================
