---------------------------- MODULE InputsProofs ----------------------------
(***************************************************************************)
(* The inputs of the benchmark, for every zone, source frame, input file   *)
(* and range of days: they are accepted only if they tile the range, and   *)
(* what ingestion put on record is refused only if it does not.            *)
(***************************************************************************)
EXTENDS BacktestProofs

\* A row of the mart, as the benchmark's query of a range and a hub returns it.
SoundRow(row, start, end, location) ==
    /\ Interval("lmp", row.start, row.end)
    /\ Midnight(row.market_date) <= row.start
    /\ row.start < Midnight(row.market_date + 1)
    /\ start <= row.market_date /\ row.market_date <= end
    /\ row.location = location
    /\ row.key = row.start - Midnight(0)

InputsAreSound ==
    bench.pc = "inputs" =>
        /\ IsFiniteSet(bench.rows)
        /\ ~bench.file => \A row \in bench.rows :
               SoundRow(row, bench.start, bench.end, bench.location)

\* The inductive invariant.
InputsInv == BenchInv /\ SourceInv /\ InputsAreSound

----------------------------------------------------------------------------
(* The hours of a range.                                                   *)

LEMMA RangeFacts ==
    ASSUME NEW d \in Days, NEW e \in Days, d <= e
    PROVE  \E n \in Nat : Midnight(d) % Hour = 0 /\ Midnight(e + 1) = Nth(Midnight(d), n, Hour)
<1>1. /\ d \in 0..(LastDay + 1) /\ e + 1 \in 0..(LastDay + 1) /\ d < e + 1
      /\ Hour \in Nat \ {0} /\ DayHours \in Nat /\ d \in Int /\ e + 1 \in Int
      /\ Ahead[d] \in Int /\ Ahead[e + 1] \in Int
  BY TimeAssumption DEF Days
<1>2. PICK j \in Int, k \in Int : Midnight(d) = k * Hour /\ Midnight(e + 1) = j * Hour
  <2>1. d * DayHours - Ahead[d] \in Int /\ (e + 1) * DayHours - Ahead[e + 1] \in Int
    BY <1>1
  <2> QED BY <2>1 DEF Midnight
<1>3. k * Hour < j * Hour
  <2>1. Midnight(d) + Hour <= Midnight(e + 1)
    BY <1>1, MidnightsGrow
  <2>2. k * Hour \in Int /\ j * Hour \in Int
    BY <1>1
  <2> QED BY <1>1, <1>2, <2>1, <2>2
<1>4. k < j
  BY <1>1, <1>3, ProductsOrder
<1>5. j = k + (j - k) /\ j - k \in Nat
  BY <1>4
<1>6. j * Hour = k * Hour + (j - k) * Hour
  BY <1>1, <1>5, ProductsDistribute
<1>7. (k * Hour) % Hour = 0
  BY <1>1, MultipleIsExact
<1> QED BY <1>2, <1>5, <1>6, <1>7 DEF Nth

\* A day of a range lies between the outer midnights.
LEMMA DayInRange ==
    ASSUME NEW d \in Days, NEW e \in Days, NEW day \in Days, d <= day, day <= e
    PROVE  Midnight(d) <= Midnight(day) /\ Midnight(day + 1) <= Midnight(e + 1)
<1>1. /\ d \in 0..(LastDay + 1) /\ day \in 0..(LastDay + 1)
      /\ day + 1 \in 0..(LastDay + 1) /\ e + 1 \in 0..(LastDay + 1) /\ day + 1 <= e + 1
  BY TimeAssumption DEF Days
<1> QED BY <1>1, MidnightsAreOrdered

\* An instant between the outer midnights of a range is on one of its days.
LEMMA RangeHasDate ==
    ASSUME NEW d \in Days, NEW e \in Days, d <= e,
           NEW u \in Midnight(d)..(Midnight(e + 1) - 1)
    PROVE  /\ DateOf(u) \in Days /\ d <= DateOf(u) /\ DateOf(u) <= e
           /\ Midnight(DateOf(u)) <= u /\ u < Midnight(DateOf(u) + 1)
<1>1. /\ d \in 0..(LastDay + 1) /\ e + 1 \in 0..(LastDay + 1)
      /\ 0 \in 0..(LastDay + 1) /\ LastDay + 1 \in 0..(LastDay + 1)
      /\ d \in Int /\ e \in Int /\ 0 <= d /\ e + 1 <= LastDay + 1
  BY TimeAssumption DEF Days
<1>2. Midnight(0) <= Midnight(d) /\ Midnight(e + 1) <= Midnight(LastDay + 1)
  BY <1>1, MidnightsAreOrdered
<1>3. /\ Midnight(0) \in Int /\ Midnight(d) \in Int /\ Midnight(e + 1) \in Int
      /\ Midnight(LastDay + 1) \in Int
  BY <1>1, MidnightIsInt
<1>4. u \in Instants
  BY <1>2, <1>3 DEF Instants
<1> DEFINE date == DateOf(u)
<1>5. date \in Days /\ Midnight(date) <= u /\ u < Midnight(date + 1)
  BY <1>4, DatesExist
<1> HIDE DEF date
<1>6. /\ date \in 0..(LastDay + 1) /\ date + 1 \in 0..(LastDay + 1) /\ date \in Int
      /\ Midnight(date) \in Int /\ Midnight(date + 1) \in Int
  BY <1>5, MidnightIsInt, TimeAssumption DEF Days
<1>7. d <= date
  <2>1. date + 1 <= d => Midnight(date + 1) <= Midnight(d)
    BY <1>1, <1>6, MidnightsAreOrdered
  <2> QED BY <1>1, <1>3, <1>5, <1>6, <2>1
<1>8. date <= e
  <2>1. e + 1 <= date => Midnight(e + 1) <= Midnight(date)
    BY <1>1, <1>6, MidnightsAreOrdered
  <2> QED BY <1>1, <1>3, <1>5, <1>6, <2>1
<1> QED BY <1>5, <1>7, <1>8 DEF date

HoursBetween(d, e) == {u \in Midnight(d)..(Midnight(e + 1) - 1) : u % Hour = 0}

LEMMA HoursInRange ==
    ASSUME NEW d \in Days, NEW e \in Days, NEW n \in Nat, NEW i \in 0..(n - 1),
           Midnight(d) % Hour = 0, Midnight(e + 1) = Nth(Midnight(d), n, Hour)
    PROVE  Nth(Midnight(d), i, Hour) \in HoursBetween(d, e)
<1> DEFINE first == Midnight(d)
           last == Midnight(e + 1)
<1>1. Hour \in Nat \ {0} /\ first \in Int /\ last \in Int /\ i \in Int
  BY TimeAssumption, DayFacts
<1>2. first % Hour = 0 /\ last = Nth(first, n, Hour)
  OBVIOUS
<1> HIDE DEF first, last
<1>3. Nth(first, i, Hour) \in Int
  BY <1>1, NthIsInt
<1>4. Nth(first, i, Hour) % Hour = 0
  BY <1>1, <1>2, NthIsAligned
<1>5. first <= Nth(first, i, Hour) /\ Nth(first, i, Hour) < last
  BY <1>1, <1>2, NthIsBetween
<1>6. Nth(first, i, Hour) \in first..(last - 1)
  BY <1>1, <1>3, <1>5
<1> QED BY <1>4, <1>6 DEF HoursBetween, first, last

\* Things that start at different hours of the range are finitely many, and as many
\* as its hours if they start at each of them.
LEMMA StartsInRange ==
    ASSUME NEW d \in Days, NEW e \in Days, NEW n \in Nat,
           Midnight(d) % Hour = 0,
           Midnight(e + 1) = Nth(Midnight(d), n, Hour),
           NEW R, NEW start \in [R -> HoursBetween(d, e)],
           \A x, y \in R : start[x] = start[y] => x = y
    PROVE  /\ IsFiniteSet(R)
           /\ (\A u \in HoursBetween(d, e) : \E x \in R : start[x] = u) => Cardinality(R) = n
<1> DEFINE first == Midnight(d)
           last == Midnight(e + 1)
<1>1. Hour \in Nat \ {0} /\ first \in Int /\ last \in Int
  BY TimeAssumption, DayFacts
<1>2. \A u \in HoursBetween(d, e) : u \in Int /\ u % Hour = 0 /\ first <= u /\ u < last
  BY <1>1 DEF HoursBetween
<1>3. \A i \in 0..(n - 1) : Nth(first, i, Hour) \in HoursBetween(d, e)
  BY HoursInRange
<1>4. first % Hour = 0 /\ last = Nth(first, n, Hour)
  OBVIOUS
<1> HIDE DEF first, last
<1>5. Spread(R, start, Hour, first, last)
  BY <1>2 DEF Spread
<1>6. IsFiniteSet(R)
  BY <1>1, <1>4, <1>5, StartsAreFew
<1>7. ASSUME \A u \in HoursBetween(d, e) : \E x \in R : start[x] = u
      PROVE  Cardinality(R) = n
  <2> DEFINE w == [i \in 0..(n - 1) |-> CHOOSE x \in R : start[x] = Nth(first, i, Hour)]
  <2>1. \A i \in 0..(n - 1) : w[i] \in R /\ start[w[i]] = Nth(first, i, Hour)
    BY <1>3, <1>7
  <2>2. w \in [0..(n - 1) -> R]
    BY <2>1
  <2> HIDE DEF w
  <2>3. Covers(w, R, start, Hour, first, n)
    BY <2>1, <2>2 DEF Covers
  <2> QED BY <1>1, <1>4, <1>5, <2>3, StartsAreCounted
<1> QED BY <1>6, <1>7

\* The same, and the hours themselves are counted.
LEMMA RangeIsCounted ==
    ASSUME NEW d \in Days, NEW e \in Days, d <= e,
           NEW R, NEW start \in [R -> HoursBetween(d, e)],
           \A x, y \in R : start[x] = start[y] => x = y
    PROVE  /\ IsFiniteSet(R)
           /\ (\A u \in HoursBetween(d, e) : \E x \in R : start[x] = u)
                  => Cardinality(R) = Cardinality(HoursBetween(d, e))
<1>1. PICK n \in Nat : /\ Midnight(d) % Hour = 0
                       /\ Midnight(e + 1) = Nth(Midnight(d), n, Hour)
  BY RangeFacts
<1>2. Cardinality(HoursBetween(d, e)) = n
  <2> DEFINE same == [u \in HoursBetween(d, e) |-> u]
  <2>1. /\ same \in [HoursBetween(d, e) -> HoursBetween(d, e)]
        /\ \A x, y \in HoursBetween(d, e) : same[x] = same[y] => x = y
        /\ \A u \in HoursBetween(d, e) : \E x \in HoursBetween(d, e) : same[x] = u
    OBVIOUS
  <2> HIDE DEF same
  <2> QED BY <1>1, <2>1, StartsInRange
<1> QED BY <1>1, <1>2, StartsInRange

----------------------------------------------------------------------------
(* The rows the benchmark reads.                                           *)

LEMMA SoundRowFacts ==
    ASSUME NEW d \in Days, NEW e \in Days, NEW location,
           NEW row \in InputRow, SoundRow(row, d, e, location)
    PROVE  /\ row.start \in HoursBetween(d, e) /\ row.start \in Int
           /\ row.end = row.start + Hour /\ row.start % Hour = 0
           /\ DateOf(row.start) = row.market_date
           /\ row.start \in Instants
<1>1. /\ row.start \in Int /\ row.end \in Int /\ row.market_date \in Days
      /\ d \in Int /\ e \in Int /\ Hour \in Int
  BY TimeAssumption DEF InputRow, Days
<1>2. /\ row.end - row.start = Hour /\ row.start % Hour = 0
      /\ Midnight(row.market_date) <= row.start
      /\ row.start < Midnight(row.market_date + 1)
      /\ d <= row.market_date /\ row.market_date <= e
  BY DEF SoundRow, Interval, Duration
<1>3. DateOf(row.start) = row.market_date
  BY <1>1, <1>2, DateIsUnique
<1>4. /\ Midnight(d) <= Midnight(row.market_date)
      /\ Midnight(row.market_date + 1) <= Midnight(e + 1)
  BY <1>1, <1>2, DayInRange
<1>5. 0 \in Days /\ LastDay \in Days /\ 0 <= row.market_date /\ row.market_date <= LastDay
  BY <1>1, TimeAssumption DEF Days
<1>6. /\ Midnight(0) <= Midnight(row.market_date)
      /\ Midnight(row.market_date + 1) <= Midnight(LastDay + 1)
  BY <1>1, <1>5, DayInRange
<1>7. /\ Midnight(d) \in Int /\ Midnight(e + 1) \in Int /\ Midnight(0) \in Int
      /\ Midnight(LastDay + 1) \in Int
      /\ Midnight(row.market_date) \in Int /\ Midnight(row.market_date + 1) \in Int
  BY <1>1, <1>5, DayFacts
<1>8. row.start \in HoursBetween(d, e)
  BY <1>1, <1>2, <1>4, <1>7 DEF HoursBetween
<1>9. row.start \in Instants
  BY <1>1, <1>2, <1>6, <1>7 DEF Instants
<1> QED BY <1>1, <1>2, <1>3, <1>8, <1>9

\* The start of a sound row tells it from the others.
LEMMA SoundRowsDiffer ==
    ASSUME NEW d \in Days, NEW e \in Days, NEW location,
           NEW r \in InputRow, NEW s \in InputRow,
           SoundRow(r, d, e, location), SoundRow(s, d, e, location), r.start = s.start
    PROVE  r = s
<1>1. r.end = s.end /\ r.market_date = s.market_date
  BY SoundRowFacts
<1>2. r.location = s.location /\ r.key = s.key
  BY DEF SoundRow
<1> QED BY <1>1, <1>2 DEF InputRow

\* What the query returns: finitely many sound rows.
LEMMA SelectedIsSound ==
    ASSUME SourceInv, NEW d \in Days, NEW e \in Days, d <= e, NEW location \in TradingHub
    PROVE  /\ Selected(d, e, location) \subseteq InputRow
           /\ \A row \in Selected(d, e, location) : SoundRow(row, d, e, location)
           /\ IsFiniteSet(Selected(d, e, location))
<1> DEFINE R == Selected(d, e, location)
           start == [row \in R |-> row.start]
<1>1. \A m \in mart : m \in MartRow /\ m.start \in Int
  BY DEF SourceInv, SourceTypeOK, MartRow
<1>2. Midnight(0) \in Int
  BY MidnightIsInt, TimeAssumption
<1>3. R \subseteq InputRow
  BY <1>1, <1>2 DEF Selected, InputRow, MartRow
<1>4. \A row \in R : SoundRow(row, d, e, location)
  BY DEF Selected, SoundRow, SourceInv, MartIsSound
<1>5. start \in [R -> HoursBetween(d, e)]
  BY <1>3, <1>4, SoundRowFacts
<1>6. \A x, y \in R : start[x] = start[y] => x = y
  BY <1>3, <1>4, SoundRowsDiffer
<1> HIDE DEF R, start
<1>7. IsFiniteSet(R)
  BY <1>5, <1>6, RangeIsCounted
<1> QED BY <1>3, <1>4, <1>7 DEF R

\* Everything the two directions below start from.
Reading ==
    /\ bench.pc = "inputs"
    /\ bench.start \in Days /\ bench.end \in Days /\ bench.start <= bench.end
    /\ bench.rows \subseteq InputRow /\ IsFiniteSet(bench.rows)

LEMMA InputFacts ==
    ASSUME InputsInv, bench.pc = "inputs"
    PROVE  Reading
BY DEF InputsInv, BenchInv, TypeOK, Bench, NothingCounted, InputsAreSound, Reading

\* The rows of an accepted day are its hours.
LEMMA ContinuousDay ==
    ASSUME Reading, NEW day \in Days, Continuous(day)
    PROVE  /\ \A row \in RowsOf(day) :
                  Midnight(day) <= row.start /\ row.start < Midnight(day + 1)
           /\ \A r, s \in RowsOf(day) : r.start = s.start => r = s
           /\ \A u \in Midnight(day)..(Midnight(day + 1) - 1) :
                  u % Hour = 0 => \E row \in RowsOf(day) : row.start = u
<1> DEFINE R == RowsOf(day)
           first == Midnight(day)
           last == Midnight(day + 1)
           start == [row \in R |-> row.start]
<1>1. PICK n \in Nat : first % Hour = 0 /\ last = Nth(first, n, Hour) /\ n = HoursOf(day)
  <2>1. "lmp" \in Product /\ Duration("lmp") = Hour
    BY DEF Product, Duration
  <2> QED BY <2>1, DayIntervals
<1>2. Hour \in Nat \ {0} /\ first \in Int /\ last \in Int
  BY TimeAssumption, DayFacts
<1>3. IsFiniteSet(R) /\ \A row \in R : row.start \in Int
  BY FS_Subset DEF RowsOf, Reading, InputRow
<1>4. Cardinality(R) = n
  BY <1>1 DEF Continuous
<1>5. \A i \in 0..(n - 1) : \E row \in R : row.start = Nth(first, i, Hour)
  BY <1>1 DEF Continuous, Nth
<1>6. \A row \in R : start[row] = row.start
  OBVIOUS
<1> HIDE DEF R, first, last, start
<1> DEFINE w == [i \in 0..(n - 1) |-> CHOOSE row \in R : row.start = Nth(first, i, Hour)]
<1>7. Covers(w, R, start, Hour, first, n)
  <2>1. \A i \in 0..(n - 1) : w[i] \in R /\ w[i].start = Nth(first, i, Hour)
    BY <1>5
  <2>2. w \in [0..(n - 1) -> R]
    BY <2>1
  <2> HIDE DEF w
  <2> QED BY <1>6, <2>1, <2>2 DEF Covers
<1> HIDE DEF w
<1>8. /\ \A row \in R : \E i \in 0..(n - 1) : row = w[i]
      /\ \A r, s \in R : start[r] = start[s] => r = s
  <2>1. IsFiniteSet(R)
    BY <1>3
  <2>2. Hour \in Nat \ {0} /\ first \in Int
    BY <1>2
  <2>3. w \in Surjection(0..(n - 1), R)
    BY <1>4, <1>7, <2>1, <2>2, CoverIsSurjection
  <2>4. ASSUME NEW row \in R PROVE \E i \in 0..(n - 1) : row = w[i]
    BY <2>3, CoverIsOnto
  <2>5. ASSUME NEW r \in R, NEW s \in R, start[r] = start[s] PROVE r = s
    BY <1>7, <2>2, <2>3, <2>5, StartsDiffer
  <2> QED BY <2>4, <2>5
<1>9. ASSUME NEW row \in R PROVE first <= row.start /\ row.start < last
  <2>1. PICK i \in 0..(n - 1) : row = w[i]
    BY <1>8
  <2>2. row.start = Nth(first, i, Hour)
    BY <1>6, <1>7, <2>1 DEF Covers
  <2> QED BY <1>1, <1>2, <2>2, NthIsBetween
<1>10. ASSUME NEW u \in first..(last - 1), u % Hour = 0
       PROVE  \E row \in R : row.start = u
  <2>1. u \in Int /\ first <= u /\ u < last
    BY <1>2
  <2>2. first % Hour = 0 /\ last = Nth(first, n, Hour) /\ n \in Nat
    BY <1>1
  <2>3. \E i \in 0..(n - 1) : u = Nth(first, i, Hour)
    BY <1>2, <1>10, <2>1, <2>2, NthIsOnto, Zenon
  <2>4. PICK i \in 0..(n - 1) : u = Nth(first, i, Hour)
    BY <2>3
  <2> QED BY <1>5, <2>4
<1> QED BY <1>6, <1>8, <1>9, <1>10 DEF R, first, last

\* Rows that are accepted tile the range.
LEMMA AcceptedTiles ==
    ASSUME Reading, InputsAccepted
    PROVE  Tiles
<1> DEFINE R == bench.rows
           d == bench.start
           e == bench.end
           start == [row \in R |-> row.start]
<1>1. /\ d \in Days /\ e \in Days /\ d <= e
      /\ d \in Int /\ e \in Int /\ Hour \in Int
      /\ \A day \in d..e : day \in Days
  BY TimeAssumption DEF Reading, Days
<1>2. ASSUME NEW row \in R
      PROVE  /\ row.start \in Int /\ row.end \in Int /\ row.market_date \in Days
             /\ ValidInput(row) /\ row.location = bench.location
             /\ row.market_date \in d..e /\ row \in RowsOf(row.market_date)
             /\ Continuous(row.market_date)
  <2>1. row.start \in Int /\ row.end \in Int /\ row.market_date \in Days
    BY DEF Reading, InputRow
  <2>2. /\ ValidInput(row) /\ row.location = bench.location
        /\ row.market_date \in d..e
    BY <1>1, <2>1 DEF InputsAccepted, Days
  <2> QED BY <2>1, <2>2 DEF InputsAccepted, RowsOf
<1>3. ASSUME NEW row \in R PROVE row.start \in HoursBetween(d, e)
  <2> DEFINE day == row.market_date
  <2>1. Midnight(day) <= row.start /\ row.start < Midnight(day + 1)
    BY <1>2, ContinuousDay
  <2>2. day \in Days /\ d <= day /\ day <= e
    BY <1>1, <1>2 DEF Days
  <2>3. Midnight(d) <= Midnight(day) /\ Midnight(day + 1) <= Midnight(e + 1)
    BY <1>1, <2>2, DayInRange
  <2>4. /\ Midnight(d) \in Int /\ Midnight(e + 1) \in Int
        /\ Midnight(day) \in Int /\ Midnight(day + 1) \in Int
    BY <1>1, <2>2, DayFacts
  <2>5. row.start % Hour = 0
    BY <1>2 DEF ValidInput
  <2> HIDE DEF day
  <2> QED BY <1>2, <2>1, <2>3, <2>4, <2>5 DEF HoursBetween
<1>4. ASSUME NEW r \in R, NEW s \in R, r.start = s.start PROVE r = s
  <2>1. r.market_date = s.market_date
    BY <1>2, <1>4 DEF ValidInput
  <2> QED BY <1>2, <1>4, <2>1, ContinuousDay
<1>5. ASSUME NEW u \in HoursBetween(d, e) PROVE \E row \in R : row.start = u
  <2>1. u \in Midnight(d)..(Midnight(e + 1) - 1) /\ u % Hour = 0
    BY DEF HoursBetween
  <2> DEFINE day == DateOf(u)
  <2>2. /\ day \in Days /\ d <= day /\ day <= e
        /\ Midnight(day) <= u /\ u < Midnight(day + 1)
    BY <1>1, <2>1, RangeHasDate
  <2> HIDE DEF day
  <2>3. Midnight(day) \in Int /\ Midnight(day + 1) \in Int /\ u \in Int
    BY <1>1, <2>1, <2>2, DayFacts
  <2>4. Continuous(day)
    <3>1. day \in d..e
      BY <1>1, <2>2 DEF Days
    <3> QED BY <3>1 DEF InputsAccepted
  <2>5. u \in Midnight(day)..(Midnight(day + 1) - 1)
    BY <2>2, <2>3
  <2>6. PICK row \in RowsOf(day) : row.start = u
    BY <2>1, <2>2, <2>4, <2>5, ContinuousDay
  <2> QED BY <2>6 DEF RowsOf
<1>6. HoursOfRange = HoursBetween(d, e)
  BY DEF HoursOfRange, HoursBetween
<1>7. start \in [R -> HoursBetween(d, e)] /\ \A x, y \in R : start[x] = start[y] => x = y
  BY <1>3, <1>4
<1>8. \A u \in HoursBetween(d, e) : \E x \in R : start[x] = u
  BY <1>5
<1>9. Cardinality(R) = Cardinality(HoursOfRange)
  <2> HIDE DEF R, d, e, start
  <2> QED BY <1>1, <1>6, <1>7, <1>8, RangeIsCounted
<1>10. {row.start : row \in R} = HoursOfRange
  BY <1>3, <1>5, <1>6
<1>11. \A row \in R : row.location = bench.location /\ row.end = row.start + Hour
  BY <1>1, <1>2 DEF ValidInput
<1> QED BY <1>9, <1>10, <1>11 DEF Tiles

\* Sound rows that tile the range are accepted.
LEMMA TilesAreAccepted ==
    ASSUME Reading, Tiles,
           \A row \in bench.rows : SoundRow(row, bench.start, bench.end, bench.location)
    PROVE  InputsAccepted
<1> DEFINE d == bench.start
           e == bench.end
<1>1. /\ d \in Days /\ e \in Days /\ d <= e
      /\ d \in Int /\ e \in Int /\ Hour \in Nat \ {0}
      /\ \A day \in d..e : day \in Days /\ d <= day /\ day <= e
  BY TimeAssumption DEF Reading, Days
<1>2. ASSUME NEW row \in bench.rows
      PROVE  /\ row \in InputRow /\ row.start \in Int /\ row.end \in Int
             /\ row.start \in HoursBetween(d, e)
             /\ row.end = row.start + Hour /\ row.start % Hour = 0
             /\ DateOf(row.start) = row.market_date
             /\ row.start \in Instants
  <2>1. row \in InputRow
    BY DEF Reading
  <2> QED BY <1>1, <2>1, SoundRowFacts DEF InputRow
<1>3. \A row \in bench.rows :
          /\ ValidInput(row)
          /\ row.location = bench.location
          /\ d <= row.market_date /\ row.market_date <= e
  BY <1>1, <1>2 DEF ValidInput, SoundRow
<1>4. \A r, s \in bench.rows : r.start = s.start => r = s
  BY <1>1, <1>2, SoundRowsDiffer
<1>5. ASSUME NEW r \in bench.rows, NEW s \in bench.rows, r.key = s.key PROVE r = s
  <2>1. Midnight(0) \in Int
    BY MidnightIsInt, TimeAssumption
  <2>2. r.start = s.start
    BY <1>2, <1>5, <2>1 DEF SoundRow
  <2> QED BY <1>4, <2>2
<1>6. ASSUME NEW day \in d..e PROVE Continuous(day)
  <2> DEFINE R == RowsOf(day)
             first == Midnight(day)
             last == Midnight(day + 1)
             start == [row \in R |-> row.start]
  <2>0. day \in Days /\ d <= day /\ day <= e
    BY <1>1
  <2>1. PICK n \in Nat : first % Hour = 0 /\ last = Nth(first, n, Hour) /\ n = HoursOf(day)
    <3>1. "lmp" \in Product /\ Duration("lmp") = Hour
      BY DEF Product, Duration
    <3> QED BY <2>0, <3>1, DayIntervals
  <2>2. first \in Int /\ last \in Int
    BY <2>0, DayFacts
  <2>3. Midnight(d) <= first /\ last <= Midnight(e + 1)
        /\ Midnight(d) \in Int /\ Midnight(e + 1) \in Int
    BY <1>1, <2>0, DayInRange, DayFacts
  <2>4. ASSUME NEW i \in 0..(n - 1)
        PROVE  \E row \in R : row.start = Nth(first, i, Hour) /\ row.end = row.start + Hour
    <3> DEFINE u == Nth(first, i, Hour)
    <3>1. u \in Int /\ u % Hour = 0 /\ first <= u /\ u < last
      <4> HIDE DEF first, last
      <4>1. u \in Int
        BY <1>1, <2>2, NthIsInt
      <4>2. u % Hour = 0
        BY <1>1, <2>1, <2>2, NthIsAligned
      <4> QED BY <1>1, <2>1, <2>2, <4>1, <4>2, NthIsBetween
    <3> HIDE DEF u
    <3>2. u \in HoursOfRange
      BY <2>2, <2>3, <3>1 DEF HoursOfRange
    <3>3. PICK row \in bench.rows : row.start = u
      BY <3>2 DEF Tiles
    <3>4. DateOf(u) = day
      BY <2>0, <3>1, DateIsUnique
    <3>5. row \in R
      BY <1>2, <3>3, <3>4 DEF RowsOf
    <3> QED BY <1>2, <3>3, <3>5 DEF u
  <2>5. \A row \in R : row.start \in Int /\ row.start % Hour = 0
                       /\ first <= row.start /\ row.start < last
    BY <1>2 DEF RowsOf, SoundRow
  <2>6. Spread(R, start, Hour, first, last)
    <3>1. \A x, y \in R : start[x] = start[y] => x = y
      BY <1>4 DEF RowsOf
    <3> HIDE DEF R
    <3> QED BY <2>5, <3>1 DEF Spread
  <2> DEFINE w == [i \in 0..(n - 1) |-> CHOOSE row \in R : /\ row.start = Nth(first, i, Hour)
                                                           /\ row.end = row.start + Hour]
  <2>7. \A i \in 0..(n - 1) : w[i] \in R /\ w[i].start = Nth(first, i, Hour)
    BY <2>4
  <2>8. Covers(w, R, start, Hour, first, n)
    <3>1. \A row \in R : start[row] = row.start
      OBVIOUS
    <3>2. w \in [0..(n - 1) -> R]
      BY <2>7
    <3> HIDE DEF w, R, start
    <3> QED BY <2>7, <3>1, <3>2 DEF Covers
  <2>9. Cardinality(R) = n
    <3> HIDE DEF w, R, start, first, last
    <3> QED BY <1>1, <2>1, <2>2, <2>6, <2>8, StartsAreCounted
  <2>10. ASSUME NEW i \in 0..(n - 1)
         PROVE  \E row \in R : /\ row.start = Midnight(day) + i * Hour
                               /\ row.end = Midnight(day) + (i + 1) * Hour
    <3>1. Midnight(day) + (i + 1) * Hour = Midnight(day) + i * Hour + Hour
      <4>1. (i + 1) * Hour = i * Hour + Hour /\ i * Hour \in Int
        BY <1>1
      <4> QED BY <1>1, <2>2, <4>1
    <3> QED BY <2>4, <3>1 DEF Nth
  <2> HIDE DEF R
  <2>11. /\ Cardinality(R) = HoursOf(day)
         /\ \A i \in 0..(HoursOf(day) - 1) : \E row \in R :
                /\ row.start = Midnight(day) + i * Hour
                /\ row.end = Midnight(day) + (i + 1) * Hour
    BY <2>1, <2>9, <2>10
  <2> QED BY <2>11 DEF Continuous, R
<1> QED BY <1>3, <1>5, <1>6 DEF InputsAccepted
----------------------------------------------------------------------------
(* The inductive invariant.                                                *)

LEMMA InputsInvStarts == Init => InputsInv
<1>1. Init => InputsAreSound
  BY DEF Init, NoBench, InputsAreSound
<1> QED BY <1>1, BenchInvStarts, SourceInvStarts DEF Init, InputsInv

\* Only ReadInputs fills in rows; nothing else leaves any there.
LEMMA RowsAreRead ==
    ASSUME InputsInv, NEW start \in Days, NEW end \in Days, NEW location \in TradingHub,
           ReadInputs(start, end, location)
    PROVE  InputsAreSound'
<1>1. PICK file \in BOOLEAN :
          \E rows \in IF file THEN SUBSET FileRow ELSE {Selected(start, end, location)} :
              bench' = [NoBench EXCEPT !.pc = "inputs", !.start = start, !.end = end,
                            !.location = location, !.file = file, !.rows = rows]
  BY DEF ReadInputs
<1>2. PICK rows \in IF file THEN SUBSET FileRow ELSE {Selected(start, end, location)} :
          bench' = [NoBench EXCEPT !.pc = "inputs", !.start = start, !.end = end,
                        !.location = location, !.file = file, !.rows = rows]
  BY <1>1
<1>3. /\ bench'.start = start /\ bench'.end = end /\ bench'.location = location
      /\ bench'.file = file /\ bench'.rows = rows
  BY <1>2 DEF NoBench
<1>4. start <= end
  BY DEF ReadInputs, ValidRange
<1>5. CASE file
  <2>1. IsFiniteSet(rows)
    BY <1>2, <1>5, FS_Subset, BacktestAssumption
  <2> QED BY <1>3, <1>5, <2>1 DEF InputsAreSound
<1>6. CASE ~file
  <2>1. rows = Selected(start, end, location)
    BY <1>2, <1>6
  <2>2. /\ IsFiniteSet(rows)
        /\ \A row \in rows : SoundRow(row, start, end, location)
    BY <1>4, <2>1, SelectedIsSound DEF InputsInv
  <2>3. \A row \in bench'.rows : SoundRow(row, bench'.start, bench'.end, bench'.location)
    BY <1>3, <2>2
  <2> QED BY <1>3, <2>2, <2>3 DEF InputsAreSound
<1> QED BY <1>5, <1>6

LEMMA OtherStepsLeaveNoRows ==
    ASSUME InputsInv, Next,
           ~\E start, end \in Days, l \in TradingHub : ReadInputs(start, end, l)
    PROVE  bench' = bench \/ bench'.pc # "inputs"
<1>0. bench \in Bench
  BY DEF InputsInv, BenchInv, TypeOK
<1>1. NoBench.pc # "inputs"
  BY DEF NoBench
<1>2. CASE CheckInputs
  BY <1>0, <1>1, <1>2 DEF CheckInputs, Bench
<1>3. ASSUME NEW soc \in Level, StartDay(soc) PROVE bench'.pc # "inputs"
  BY <1>0, <1>1, <1>3 DEF StartDay, Bench
<1>4. ASSUME NEW charge \in Power, NEW discharge \in Power, NEW mode \in {0, 1},
             NEW soc \in Level, DispatchHour(charge, discharge, mode, soc)
      PROVE  bench'.pc # "inputs"
  <2>1. CASE bench' = NoBench
    BY <1>1, <2>1
  <2>2. CASE bench' = [bench EXCEPT !.hour = @ + 1, !.soc = soc,
                                    !.totals = Added(@, charge, discharge)]
    BY <1>0, <1>4, <2>2 DEF DispatchHour, Bench
  <2> QED BY <1>4, <2>1, <2>2 DEF DispatchHour
<1>5. CASE EndDay
  <2>1. CASE bench' = NoBench
    BY <1>1, <2>1
  <2>2. CASE bench' # NoBench
    BY <1>0, <1>5, <2>2 DEF EndDay, Bench
  <2> QED BY <2>1, <2>2
<1>6. CASE SolverFails \/ Report
  BY <1>1, <1>6 DEF SolverFails, Report
<1> QED BY <1>2, <1>3, <1>4, <1>5, <1>6 DEF Next

LEMMA InputsInvHolds == InputsInv /\ [Next]_vars => InputsInv'
<1> SUFFICES ASSUME InputsInv, [Next]_vars PROVE InputsInv'
  OBVIOUS
<1>1. BenchInv /\ SourceInv /\ InputsAreSound
  BY DEF InputsInv
<1>2. BenchInv'
  BY <1>1, BenchInvHolds
<1>3. SourceInv'
  <2>1. CASE SourceNext
    BY <1>1, <2>1, SourceInvHolds
  <2>2. CASE UNCHANGED sourceVars
    BY <1>1, <2>2 DEF sourceVars, SourceInv, SourceTypeOK, FetchIsSound, MartIsSound
  <2>3. SourceNext \/ UNCHANGED sourceVars
    BY DEF Next, vars, ReadInputs, CheckInputs, StartDay, DispatchHour, EndDay,
           SolverFails, Report
  <2> QED BY <2>1, <2>2, <2>3
<1>4. InputsAreSound'
  <2>1. CASE \E start, end \in Days, l \in TradingHub : ReadInputs(start, end, l)
    BY <2>1, RowsAreRead
  <2>2. CASE /\ Next
             /\ ~\E start, end \in Days, l \in TradingHub : ReadInputs(start, end, l)
    <3>1. bench' = bench \/ bench'.pc # "inputs"
      BY <2>2, OtherStepsLeaveNoRows
    <3> QED BY <1>1, <3>1 DEF InputsAreSound
  <2>3. CASE UNCHANGED vars
    BY <1>1, <2>3 DEF vars, InputsAreSound
  <2> QED BY <2>1, <2>2, <2>3
<1> QED BY <1>2, <1>3, <1>4 DEF InputsInv

LEMMA InputsInvariant == Spec => []InputsInv
BY InputsInvStarts, InputsInvHolds, PTL DEF Spec

----------------------------------------------------------------------------

\* What the adapter compared with the request before it wrote anything, batch_rows()
\* accepts, whatever frame the source returned: the two sets of conditions agree.
THEOREM FetchedFitCorrect == Spec => []FetchedBatchesFit
<1>1. InputsInv => FetchedBatchesFit
  BY BatchesFit DEF InputsInv
<1> QED BY <1>1, InputsInvariant, PTL

\* Whatever day is fetched, as_utc() accepts the wall times its clock showed and no
\* others, and tells both passes of a repeated hour apart.
THEOREM WallTimesCorrect == Spec => []WallTimesRoundTrip
<1>1. InputsInv => WallTimesRoundTrip
  <2> SUFFICES ASSUME InputsInv, FetchBegins PROVE RoundTrips(fetch.day)
    BY DEF WallTimesRoundTrip
  <2>1. fetch.day \in Days
    BY DEF InputsInv, SourceInv, SourceTypeOK, Fetch
  <2> QED BY <2>1, RoundTripsCorrect
<1> QED BY <1>1, InputsInvariant, PTL

\* Whatever is fetched, the encoding of each decimal is exact and normal, and numeric()
\* accepts it exactly if NUMERIC stores it unchanged.
THEOREM EncodingCorrect == Spec => []EncodingIsCanonical
<1>1. InputsInv => EncodingIsCanonical
  BY EncodingsAreExact DEF EncodingIsCanonical
<1> QED BY <1>1, InputsInvariant, PTL

\* The benchmark accepts rows, of the mart or of any file, only if they are one row
\* of the hub for each hour of its days; the rows of the mart are refused for a
\* missing hour only; and whatever was fetched passes the tests of the marts.
THEOREM InputsCorrect == Spec => []InputsTileTheDays
<1>1. InputsInv => InputsTileTheDays
  <2> SUFFICES ASSUME InputsInv PROVE InputsTileTheDays
    OBVIOUS
  <2>1. MartIsValid /\ SummaryIsValid
    BY MartsPass DEF InputsInv
  <2>2. ASSUME bench.pc = "inputs", InputsAccepted PROVE Tiles
    BY <2>2, InputFacts, AcceptedTiles
  <2>3. ASSUME bench.pc = "inputs", ~bench.file, Tiles PROVE InputsAccepted
    <3>1. \A row \in bench.rows : SoundRow(row, bench.start, bench.end, bench.location)
      BY <2>3 DEF InputsInv, InputsAreSound
    <3> QED BY <2>3, <3>1, InputFacts, TilesAreAccepted
  <2> QED BY <2>1, <2>2, <2>3 DEF InputsTileTheDays
<1> QED BY <1>1, InputsInvariant, PTL
=============================================================================
