---------------------------- MODULE CaisoSource ----------------------------
(***************************************************************************)
(* The source adapter (sources/caiso.py), the observation records it makes *)
(* (domain.py) and batch_rows(), the warehouse's own check of a batch. The *)
(* answer of gridstatus (external) is revealed row by row as the adapter   *)
(* reads it. Errors end the fetch; Warehouse models what ingest() does     *)
(* then. An accepted LMP batch reaches the input mart through the commit   *)
(* protocol (Warehouse) and dbt (Analytics), here in one step.             *)
(***************************************************************************)
EXTENDS PacificTime, Decimals, FiniteSets

CONSTANTS
    TradingHub,    \* TRADING_HUBS
    NoHub,         \* the location of system load
    Today,         \* the first day that is not completed
    Slot,          \* ticks of a load interval (five minutes)
    MaxBatchRows,  \* MAX_BATCH_ROWS
    Malformed,     \* a source field of the wrong type, null, naive or not finite
    FrameRow       \* the rows a gridstatus frame may contain

\* A row's fields: three times, a location, whether Market and Location Type are
\* the expected ones, and a number (the four LMP components are one here).
SourceRow == [time : WallTime \cup {Malformed}, start : WallTime \cup {Malformed},
              end : WallTime \cup {Malformed}, location : TradingHub \cup {NoHub, Malformed},
              market : BOOLEAN, value : Decimal \cup {Malformed}]

ASSUME SourceAssumption ==
    /\ Today \in Days
    /\ Slot \in Nat \ {0} /\ Hour % Slot = 0
    /\ MaxBatchRows \in Nat
    /\ MaxBatchRows >= (DayHours + 1) * (Hour \div Slot)
    /\ NoHub \notin TradingHub /\ Malformed \notin TradingHub \cup {NoHub} \cup Decimal
    /\ FrameRow \subseteq SourceRow

VARIABLES
    fetch,  \* the fetch that is going on
    mart    \* mart_battery_optimization_inputs: the LMP intervals on record

sourceVars == <<fetch, mart>>

Product == {"lmp", "load"}
Observation == [location : TradingHub \cup {NoHub}, start : Int, end : Int,
                value : Decimal]
MartRow == [location : TradingHub, market_date : Days, start : Int, end : Int]
Fetch == [pc : {"idle", "rows", "persist"}, product : Product, day : Days,
          location : TradingHub \cup {NoHub}, records : SUBSET Observation]
NoFetch == [pc |-> "idle", product |-> "lmp", day |-> 0, location |-> NoHub,
            records |-> {}]

SourceTypeOK == fetch \in Fetch /\ mart \subseteq MartRow

SourceInit == fetch = NoFetch /\ mart = {}

----------------------------------------------------------------------------
(* One row.                                                                *)

Duration(product) == IF product = "lmp" THEN Hour ELSE Slot

\* _timestamp(): a well-formed, existing, aware time.
ValidTime(v) == v # Malformed /\ AcceptsWallTime(v)

\* _times(): Time labels the start of the interval.
ValidTimes(row) ==
    /\ ValidTime(row.start) /\ ValidTime(row.end) /\ ValidTime(row.time)
    /\ ToUtc(row.time) = ToUtc(row.start)

\* Mutant: only the length of the interval is checked.
IntervalUnaligned(product, start, end) == end - start = Duration(product)

\* _interval(): the product's exact duration, aligned to it.
Interval(product, start, end) ==
    /\ end - start = Duration(product)
    /\ start % Duration(product) = 0

\* Mutant: any location is taken for a hub.
ValidLmpAnyHub(row) == row.market

\* normalize_lmp(), the fields of its own.
ValidLmp(row) == row.location \in TradingHub /\ row.market

\* LoadObservation: system demand is not net load.
Nonnegative(value) == value.coefficient = 0 \/ ~value.neg

\* normalize_load(): a repeated local hour cannot be told apart.
ValidLoad(row) == ~FallBack(DateOf(ToUtc(row.start))) /\ Nonnegative(row.value)

ValidRow(product, row) ==
    /\ ValidTimes(row)
    /\ row.value # Malformed
    /\ IF product = "lmp" THEN ValidLmp(row) ELSE ValidLoad(row)
    /\ Interval(product, ToUtc(row.start), ToUtc(row.end))

Record(product, row) ==
    [location |-> IF product = "lmp" THEN row.location ELSE NoHub,
     start |-> ToUtc(row.start), end |-> ToUtc(row.end), value |-> row.value]

\* logical_key, within one product: the identity fields.
SameKey(r, s) == r.location = s.location /\ r.start = s.start /\ r.end = s.end

----------------------------------------------------------------------------
(* The fetch.                                                              *)

\* Request.__post_init__, _check_day and _check_load_day precede any request.
ValidRequest(product, day, location) ==
    /\ day < Today
    /\ product = "lmp" => location \in TradingHub
    /\ product = "load" => location = NoHub /\ ~FallBack(day)

StartFetch(product, day, location) ==
    /\ fetch.pc = "idle"
    /\ ValidRequest(product, day, location)
    /\ fetch' = [NoFetch EXCEPT !.pc = "rows", !.product = product, !.day = day,
                                !.location = location]
    /\ UNCHANGED mart

\* normalize_lmp(), normalize_load(): a bad or repeated row refuses the answer.
ReadRow(row) ==
    LET record == Record(fetch.product, row)
    IN  /\ fetch.pc = "rows"
        /\ IF /\ ValidRow(fetch.product, row)
              /\ \A seen \in fetch.records : ~SameKey(seen, record)
           THEN fetch' = [fetch EXCEPT !.records = @ \cup {record}]
           ELSE fetch' = NoFetch
        /\ UNCHANGED mart

\* The last check of fetch_lmp() and fetch_load().
InRequest(product, day, location, r) ==
    /\ product = "lmp" => r.location = location
    /\ Midnight(day) <= r.start /\ r.start < Midnight(day + 1)

EndRows ==
    /\ fetch.pc = "rows"
    /\ fetch' = IF /\ fetch.records # {}
                   /\ \A r \in fetch.records :
                          InRequest(fetch.product, fetch.day, fetch.location, r)
                THEN [fetch EXCEPT !.pc = "persist"]
                ELSE NoFetch
    /\ UNCHANGED mart

\* The request raises, or the frame lacks columns or has malformed rows.
FetchFails ==
    /\ fetch.pc = "rows"
    /\ fetch' = NoFetch
    /\ UNCHANGED mart

\* batch_rows(), except that numbers are stored exactly.
BatchFits(product, day, location, records) ==
    /\ Cardinality(records) <= MaxBatchRows
    /\ \A r \in records :
           /\ product = "lmp" <=> r.location # NoHub
           /\ Midnight(day) <= r.start /\ r.start < Midnight(day + 1)
           /\ r.end <= Midnight(day + 1)
           /\ product = "lmp" => r.location = location
    /\ \A r, s \in records : SameKey(r, s) => r = s

ToMartRow(r) ==
    [location |-> r.location, market_date |-> fetch.day, start |-> r.start, end |-> r.end]

PersistRows ==
    LET batch == fetch.records
    IN  /\ fetch.pc = "persist"
        /\ mart' = IF /\ fetch.product = "lmp"
                      /\ BatchFits(fetch.product, fetch.day, fetch.location, batch)
                      /\ \A r \in batch : Numeric(r.value)
                   THEN mart \cup {ToMartRow(r) : r \in batch}
                   ELSE mart
        /\ fetch' = NoFetch

SourceNext ==
    \/ \E p \in Product, d \in Days, l \in TradingHub \cup {NoHub} : StartFetch(p, d, l)
    \/ \E row \in FrameRow : ReadRow(row)
    \/ EndRows \/ FetchFails \/ PersistRows

----------------------------------------------------------------------------

\* The mart's rows pass dbt's own test of them: whole hours, under the Pacific
\* date of their start, one row per hub and hour.
MartIsValid ==
    /\ \A m \in mart : /\ m.end - m.start = Hour
                       /\ m.start % Hour = 0
                       /\ m.market_date = DateOf(m.start)
    /\ \A m, n \in mart : m.location = n.location /\ m.start = n.start => m = n

\* mart_daily_lmp_summary: observation_count, for a group that has a row.
ObservationCount(location, day) ==
    Cardinality({m \in mart : m.location = location /\ m.market_date = day})

\* The summary's rows pass theirs: no day has more rows than hours.
SummaryIsValid ==
    \A m \in mart :
        /\ HoursOf(m.market_date) \in (DayHours - 1)..(DayHours + 1)
        /\ ObservationCount(m.location, m.market_date) <= HoursOf(m.market_date)

FetchBegins == fetch.pc = "rows" /\ fetch.records = {}

\* Whatever wall times of the requested day an answer holds, as_utc() accepts
\* those the clock showed and no others, and loses none: both passes of a repeated
\* hour are told apart, and no skipped hour is taken for another one.
WallTimesRoundTrip == FetchBegins => RoundTrips(fetch.day)

\* Whatever numbers an answer holds, content hashes see their values and nothing
\* else: the encoding is exact, and equal numbers have one text however the source
\* wrote them (1, 1.0, 10E-1, a negative zero). A batch is refused for a number
\* exactly if NUMERIC would round it or overflow.
EncodingIsCanonical == FetchBegins => \A x \in Decimal : EncodedExactly(x)

\* The adapter and the warehouse check an answer independently and with
\* different conditions: the adapter never looks at where an interval ends, the
\* warehouse never at its alignment. They agree: a fetched day is refused by
\* batch_rows() only for a number that NUMERIC cannot hold, on days of every length.
FetchedBatchesFit ==
    fetch.pc = "persist" =>
        BatchFits(fetch.product, fetch.day, fetch.location, fetch.records)
=============================================================================
