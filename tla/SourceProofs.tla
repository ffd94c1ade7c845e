---------------------------- MODULE SourceProofs ----------------------------
(***************************************************************************)
(* The source adapter and its clock, for every zone whose days begin with  *)
(* a change of at most an hour, every frame and every number of fetches:   *)
(* wall times convert without loss, what the adapter accepts fits the      *)
(* warehouse's bounds, and the marts pass their tests.                     *)
(***************************************************************************)
EXTENDS CaisoSource, FiniteSetTheorems, TLAPS

\* What the adapter has accepted so far, and has compared with the request.
FetchIsSound ==
    /\ \A r \in fetch.records :
           /\ Interval(fetch.product, r.start, r.end)
           /\ IF fetch.product = "lmp" THEN r.location \in TradingHub ELSE r.location = NoHub
    /\ \A r, s \in fetch.records : SameKey(r, s) => r = s
    /\ fetch.pc = "persist" => \A r \in fetch.records :
           InRequest(fetch.product, fetch.day, fetch.location, r)

\* A row of the mart is a whole hour within its market date.
MartIsSound ==
    \A m \in mart : /\ Interval("lmp", m.start, m.end)
                    /\ Midnight(m.market_date) <= m.start
                    /\ m.start < Midnight(m.market_date + 1)

\* The inductive invariant.
SourceInv == SourceTypeOK /\ FetchIsSound /\ MartIsSound

----------------------------------------------------------------------------
(* Days.                                                                   *)

LEMMA MidnightIsInt == \A d \in 0..(LastDay + 1) : Midnight(d) \in Int
BY TimeAssumption DEF Midnight

LEMMA DaysHaveMidnights == \A d \in Days : Midnight(d) \in Int /\ Midnight(d + 1) \in Int
BY TimeAssumption, MidnightIsInt DEF Days

\* A multiple of the divisor is divided exactly.
LEMMA ExactDivision ==
    ASSUME NEW k \in Int, NEW h \in Nat \ {0}
    PROVE  (k * h) \div h = k
OBVIOUS

LEMMA ProductsDistribute ==
    ASSUME NEW j \in Int, NEW k \in Int, NEW h \in Int
    PROVE  /\ (j + k) * h = j * h + k * h
           /\ (j - k) * h = j * h - k * h
           /\ j * h \in Int
OBVIOUS

LEMMA ProductsGrow ==
    ASSUME NEW j \in Int, NEW k \in Int, NEW h \in Nat, j <= k
    PROVE  j * h <= k * h
OBVIOUS

\* The midnights of a day, and the hour at which its clock is changed, in ticks.
LEMMA DayFacts ==
    ASSUME NEW d \in Days
    PROVE  /\ Shift(d) \in -1..1
           /\ Midnight(d) \in Int /\ Midnight(d + 1) \in Int
           /\ Midnight(d + 1) = Midnight(d) + DayHours * Hour - Shift(d) * Hour
           /\ HoursOf(d) = DayHours - Shift(d)
           /\ (SwitchHour + Shift(d)) * Hour = SwitchHour * Hour + Shift(d) * Hour
           /\ SwitchHour * Hour \in Int /\ DayHours * Hour \in Int
           /\ Hour <= SwitchHour * Hour
           /\ SwitchHour * Hour + Hour <= DayHours * Hour
           /\ Shift(d) = 1 => Shift(d) * Hour = Hour
           /\ Shift(d) = 0 => Shift(d) * Hour = 0
           /\ Shift(d) = -1 => Shift(d) * Hour = -Hour
<1>1. /\ d \in Nat /\ d \in 0..(LastDay + 1) /\ d + 1 \in 0..(LastDay + 1)
      /\ Hour \in Nat \ {0} /\ DayHours \in Nat /\ SwitchHour \in 1..(DayHours - 1)
      /\ Ahead[d] \in 0..1 /\ Ahead[d + 1] \in 0..1
  BY TimeAssumption DEF Days
<1>2. Shift(d) \in -1..1
  BY <1>1 DEF Shift
<1>3. Midnight(d) \in Int /\ Midnight(d + 1) \in Int
  BY <1>1, MidnightIsInt
<1>4. (d + 1) * DayHours - Ahead[d + 1] = (d * DayHours - Ahead[d]) + (DayHours - Shift(d))
  BY <1>1 DEF Shift
<1>5. DayHours - Shift(d) \in Int /\ d * DayHours - Ahead[d] \in Int
  BY <1>1, <1>2
<1>6. Midnight(d + 1) = Midnight(d) + (DayHours - Shift(d)) * Hour
  BY <1>1, <1>4, <1>5, ProductsDistribute DEF Midnight
<1>7. (DayHours - Shift(d)) * Hour = DayHours * Hour - Shift(d) * Hour
  BY <1>1, <1>2, ProductsDistribute
<1>8. HoursOf(d) = DayHours - Shift(d)
  <2>1. Midnight(d + 1) - Midnight(d) = (DayHours - Shift(d)) * Hour
    BY <1>1, <1>3, <1>5, <1>6
  <2> QED BY <1>1, <1>5, <2>1, ExactDivision DEF HoursOf
<1>9. (SwitchHour + Shift(d)) * Hour = SwitchHour * Hour + Shift(d) * Hour
  BY <1>1, <1>2, ProductsDistribute
<1>10. 1 * Hour <= SwitchHour * Hour /\ (SwitchHour + 1) * Hour <= DayHours * Hour
  BY <1>1, ProductsGrow
<1>11. (SwitchHour + 1) * Hour = SwitchHour * Hour + 1 * Hour
  BY <1>1, ProductsDistribute
<1>12. /\ Shift(d) = 1 => Shift(d) * Hour = Hour
       /\ Shift(d) = 0 => Shift(d) * Hour = 0
       /\ Shift(d) = -1 => Shift(d) * Hour = -Hour
  BY <1>1
<1>13. SwitchHour * Hour \in Int /\ DayHours * Hour \in Int /\ Shift(d) * Hour \in Int
  BY <1>1, <1>2
<1> QED BY <1>1, <1>2, <1>3, <1>6, <1>7, <1>8, <1>9, <1>10, <1>11, <1>12, <1>13

\* A day is a whole number of hours, whatever the clock does on it.
LEMMA HoursAreExact ==
    ASSUME NEW d \in Days
    PROVE  /\ HoursOf(d) \in Int
           /\ HoursOf(d) * Hour = Midnight(d + 1) - Midnight(d)
<1>1. Hour \in Nat /\ DayHours \in Nat
  BY TimeAssumption
<1>2. (DayHours - Shift(d)) * Hour = DayHours * Hour - Shift(d) * Hour
  BY <1>1, DayFacts, ProductsDistribute
<1> QED BY <1>1, <1>2, DayFacts

\* Later days begin later, at least an hour.
LEMMA MidnightsGrow ==
    ASSUME NEW d \in 0..(LastDay + 1), NEW e \in 0..(LastDay + 1), d < e
    PROVE  Midnight(d) + Hour <= Midnight(e)
<1>1. /\ d \in Nat /\ e \in Nat /\ Hour \in Nat \ {0} /\ DayHours \in Nat /\ DayHours >= 2
      /\ Ahead[d] \in 0..1 /\ Ahead[e] \in 0..1
  BY TimeAssumption
<1>2. (d + 1) * DayHours <= e * DayHours
  BY <1>1, ProductsGrow
<1>3. (d + 1) * DayHours = d * DayHours + DayHours
  BY <1>1
<1>4. (d * DayHours - Ahead[d]) + 1 <= e * DayHours - Ahead[e]
  BY <1>1, <1>2, <1>3
<1>5. /\ d * DayHours - Ahead[d] \in Int /\ (d * DayHours - Ahead[d]) + 1 \in Int
      /\ e * DayHours - Ahead[e] \in Int
  BY <1>1
<1>6. ((d * DayHours - Ahead[d]) + 1) * Hour <= (e * DayHours - Ahead[e]) * Hour
  BY <1>1, <1>4, <1>5, ProductsGrow
<1>7. ((d * DayHours - Ahead[d]) + 1) * Hour = (d * DayHours - Ahead[d]) * Hour + Hour
  BY <1>1, <1>5
<1> QED BY <1>6, <1>7 DEF Midnight

LEMMA MidnightsAreOrdered ==
    ASSUME NEW d \in 0..(LastDay + 1), NEW e \in 0..(LastDay + 1), d <= e
    PROVE  Midnight(d) <= Midnight(e)
<1>1. Midnight(d) \in Int /\ Midnight(e) \in Int /\ d \in Int /\ e \in Int /\ Hour \in Nat
  BY MidnightIsInt, TimeAssumption
<1>2. CASE d = e
  BY <1>1, <1>2
<1>3. CASE d < e
  BY <1>1, <1>3, MidnightsGrow
<1> QED BY <1>1, <1>2, <1>3

\* An instant between a day's midnights has that date and no other.
LEMMA DateIsUnique ==
    ASSUME NEW d \in Days, NEW u \in Int, Midnight(d) <= u, u < Midnight(d + 1)
    PROVE  DateOf(u) = d
<1>1. ASSUME NEW e \in Days, Midnight(e) <= u, u < Midnight(e + 1) PROVE e = d
  <2>1. /\ d \in Int /\ e \in Int /\ d + 1 \in 0..(LastDay + 1) /\ e + 1 \in 0..(LastDay + 1)
        /\ d \in 0..(LastDay + 1) /\ e \in 0..(LastDay + 1)
    BY TimeAssumption DEF Days
  <2>2. ASSUME NEW x \in 0..(LastDay + 1), NEW y \in 0..(LastDay + 1), x <= y
        PROVE  Midnight(x) <= Midnight(y) /\ Midnight(x) \in Int /\ Midnight(y) \in Int
    BY <2>2, MidnightIsInt, MidnightsAreOrdered
  <2>3. CASE d + 1 <= e
    BY <1>1, <2>1, <2>2, <2>3
  <2>4. CASE e + 1 <= d
    BY <1>1, <2>1, <2>2, <2>4
  <2> QED BY <2>1, <2>3, <2>4
<1> QED BY <1>1 DEF DateOf

LEMMA DivisionBounds ==
    ASSUME NEW u \in Int, NEW h \in Nat \ {0}
    PROVE  /\ u \div h \in Int
           /\ (u \div h) * h <= u
           /\ u < (u \div h) * h + h
OBVIOUS

\* Every instant of the horizon has a date.
LEMMA DatesExist ==
    ASSUME NEW u \in Instants
    PROVE  /\ DateOf(u) \in Days
           /\ Midnight(DateOf(u)) <= u /\ u < Midnight(DateOf(u) + 1)
<1> DEFINE L == DayHours * Hour
           q == u \div L
<1>1. /\ LastDay \in Nat /\ Hour \in Nat \ {0} /\ DayHours \in Nat /\ DayHours >= 2
      /\ Days = 0..LastDay
  BY TimeAssumption DEF Days
<1>2. L \in Nat \ {0} /\ Hour <= L
  <2>1. 1 * Hour <= L
    BY <1>1, ProductsGrow
  <2> QED BY <1>1, <2>1
<1>3. ASSUME NEW d \in 0..(LastDay + 1)
      PROVE  /\ Midnight(d) \in Int /\ d * L \in Int
             /\ d * L - Hour <= Midnight(d) /\ Midnight(d) <= d * L
  <2>1. d \in Int /\ Ahead[d] \in 0..1 /\ d * DayHours \in Int
    BY <1>1, TimeAssumption
  <2>2. Midnight(d) = (d * DayHours) * Hour - Ahead[d] * Hour
    BY <1>1, <2>1, ProductsDistribute DEF Midnight
  <2>3. (d * DayHours) * Hour = d * L
    BY <1>1, <2>1
  <2>4. Ahead[d] * Hour \in 0..Hour
    BY <1>1, <2>1
  <2>5. d * L \in Int
    BY <1>2, <2>1
  <2> QED BY <1>1, <2>2, <2>3, <2>4, <2>5
<1>4. /\ u \in Int /\ Midnight(0) <= u /\ u < Midnight(LastDay + 1)
      /\ 0 \in 0..(LastDay + 1) /\ LastDay + 1 \in 0..(LastDay + 1)
  BY <1>1, MidnightIsInt DEF Instants
<1> HIDE DEF L
<1>5. q \in Int /\ q * L <= u /\ u < q * L + L
  BY <1>2, <1>4, DivisionBounds
<1>6. \A i \in Int : (i + 1) * L = i * L + L /\ i * L \in Int
  BY <1>2
<1> HIDE DEF q
<1>7. q <= LastDay
  <2>1. q * L < (LastDay + 1) * L
    <3>1. /\ Midnight(LastDay + 1) <= (LastDay + 1) * L
          /\ Midnight(LastDay + 1) \in Int /\ (LastDay + 1) * L \in Int
      BY <1>3, <1>4
    <3>2. q * L \in Int /\ u \in Int
      BY <1>4, <1>5, <1>6
    <3> QED BY <1>4, <1>5, <3>1, <3>2
  <2> QED BY <1>1, <1>2, <1>5, <2>1, ProductsGrow
<1>8. -1 <= q
  <2>1. (-1) * L = -L
    BY <1>2
  <2>2. 0 * L = 0
    BY <1>2
  <2>3. (-1) * L <= u
    BY <1>1, <1>2, <1>3, <1>4, <2>1, <2>2
  <2>4. (-1) * L < (q + 1) * L
    <3>1. (q + 1) * L = q * L + L /\ q * L \in Int /\ u \in Int /\ L \in Int /\ -L \in Int
      BY <1>2, <1>4, <1>5, <1>6
    <3> QED BY <1>5, <2>1, <2>3, <3>1
  <2>5. q + 1 <= -1 => (q + 1) * L <= (-1) * L
    BY <1>2, <1>5, ProductsGrow
  <2> QED BY <1>2, <1>5, <1>6, <2>1, <2>4, <2>5
<1>9. \E d \in Days : Midnight(d) <= u /\ u < Midnight(d + 1)
  <2>1. CASE q = -1
    <3>1. u < 0 /\ 1 * L = L /\ 1 \in 0..(LastDay + 1) /\ 0 \in Days
      BY <1>1, <1>2, <1>5, <2>1
    <3>2. Midnight(1) >= L - Hour /\ Midnight(1) \in Int
      BY <1>3, <3>1
    <3>3. u < Midnight(0 + 1)
      BY <1>1, <1>2, <1>4, <3>1, <3>2
    <3> QED BY <1>4, <3>1, <3>3
  <2>2. CASE q >= 0 /\ u < Midnight(q + 1)
    <3>1. q \in Days /\ q \in 0..(LastDay + 1)
      BY <1>1, <1>5, <1>7, <2>2
    <3>2. Midnight(q) <= u
      BY <1>3, <1>4, <1>5, <3>1
    <3> QED BY <2>2, <3>1, <3>2
  <2>3. CASE q >= 0 /\ ~(u < Midnight(q + 1))
    <3>1. q + 1 \in 0..(LastDay + 1)
      BY <1>1, <1>5, <1>7, <2>3
    <3>2. Midnight(q + 1) <= u
      BY <1>3, <1>4, <2>3, <3>1
    <3>3. q + 1 # LastDay + 1
      BY <1>4, <2>3
    <3>4. q + 1 \in Days /\ q + 2 \in 0..(LastDay + 1)
      BY <1>1, <1>5, <3>1, <3>3
    <3>5. (q + 2) * L = q * L + L + L
      <4>1. (q + 2) * L = ((q + 1) + 1) * L
        BY <1>5
      <4> QED BY <1>5, <1>6, <4>1
    <3>6. u < Midnight(q + 2)
      BY <1>1, <1>2, <1>3, <1>4, <1>5, <3>4, <3>5
    <3>7. (q + 1) + 1 = q + 2
      BY <1>5
    <3> QED BY <3>2, <3>4, <3>6, <3>7
  <2> QED BY <1>5, <1>8, <2>1, <2>2, <2>3
<1> QED BY <1>9 DEF DateOf

----------------------------------------------------------------------------
(* The clock.                                                              *)

\* utcoffset() takes the offset after the change.
Late(v) == IF Irregular(v.day, v.wall) THEN v.fold = 1 ELSE v.wall >= SwitchHour * Hour

\* What astimezone(UTC) and astimezone(PACIFIC) compute on one day, in ticks
\* since its midnight.
LEMMA UtcOf ==
    ASSUME NEW v, v.day \in Days, v.wall \in Int
    PROVE  /\ ToUtc(v) \in Int
           /\ ToUtc(v) = Midnight(v.day) + v.wall
                             - (IF Late(v) THEN Shift(v.day) * Hour ELSE 0)
           /\ Offset(v) = IF Late(v) THEN Ahead[v.day + 1] ELSE Ahead[v.day]
<1> DEFINE d == v.day
<1>1. /\ d \in Nat /\ Hour \in Nat \ {0} /\ DayHours \in Nat
      /\ Ahead[d] \in 0..1 /\ Ahead[d + 1] \in 0..1
  BY TimeAssumption DEF Days
<1>2. Offset(v) = IF Late(v) THEN Ahead[d + 1] ELSE Ahead[d]
  BY DEF Offset, Late
<1>3. Shift(d) \in Int /\ Midnight(d) \in Int /\ d * DayHours - Ahead[d] \in Int
  BY <1>1, DayFacts
<1>4. CASE Late(v)
  <2>1. d * DayHours - Offset(v) = (d * DayHours - Ahead[d]) - Shift(d)
    BY <1>1, <1>2, <1>4 DEF Shift
  <2>2. (d * DayHours - Offset(v)) * Hour = Midnight(d) - Shift(d) * Hour
    BY <1>1, <1>3, <2>1, ProductsDistribute DEF Midnight
  <2>3. Shift(d) * Hour \in Int
    BY <1>1, <1>3
  <2> QED BY <1>2, <1>3, <1>4, <2>2, <2>3 DEF ToUtc
<1>5. CASE ~Late(v)
  <2>1. (d * DayHours - Offset(v)) * Hour = Midnight(d)
    BY <1>2, <1>5 DEF Midnight
  <2> QED BY <1>2, <1>3, <1>5, <2>1 DEF ToUtc
<1> QED BY <1>4, <1>5

LEMMA LocalOf ==
    ASSUME NEW u \in Int, DateOf(u) \in Days
    PROVE  LET d == DateOf(u)
               elapsed == u - Midnight(d)
           IN  /\ Local(u).day = d
               /\ elapsed < SwitchHour * Hour =>
                      Local(u).wall = elapsed /\ Local(u).fold = 0
               /\ elapsed >= SwitchHour * Hour =>
                      /\ Local(u).wall = elapsed + Shift(d) * Hour
                      /\ Local(u).fold = 1 <=> Local(u).wall < SwitchHour * Hour
<1>1. Midnight(DateOf(u)) \in Int /\ SwitchHour * Hour \in Int
  BY DayFacts
<1> QED BY <1>1 DEF Local

\* The wall times of a day that are skipped or repeated, in ticks.
LEMMA IrregularTimes ==
    ASSUME NEW d \in Days, NEW w \in Int
    PROVE  /\ Shift(d) = 1 =>
                  (Irregular(d, w) <=> SwitchHour * Hour <= w /\ w < SwitchHour * Hour + Hour)
           /\ Shift(d) = 0 => ~Irregular(d, w)
           /\ Shift(d) = -1 =>
                  (Irregular(d, w) <=> SwitchHour * Hour - Hour <= w /\ w < SwitchHour * Hour)
<1>1. Hour \in Nat \ {0}
  BY TimeAssumption
<1> QED BY <1>1, DayFacts DEF Irregular

\* What the clock shows when a wall time has been converted and as_utc() accepts it.
LEMMA AcceptedIsShown ==
    ASSUME NEW d \in Days, NEW v \in WallTime, v.day = d, AcceptsWallTime(v)
    PROVE  /\ ToUtc(v) \in Midnight(d)..(Midnight(d + 1) - 1)
           /\ Local(ToUtc(v)).wall = v.wall
<1> DEFINE u == ToUtc(v)
           S == SwitchHour * Hour
<1>1. v.wall \in Int /\ 0 <= v.wall /\ v.wall < DayHours * Hour /\ v.fold \in 0..1
  BY TimeAssumption, DayFacts DEF WallTime
<1>2. Local(u).day = d /\ Local(u).wall = v.wall
  BY DEF AcceptsWallTime
<1>3. DateOf(u) = d
  BY <1>2 DEF Local
<1>4. u \in Int /\ u = Midnight(d) + v.wall - (IF Late(v) THEN Shift(d) * Hour ELSE 0)
  BY <1>1, UtcOf
<1>5. /\ u - Midnight(d) < S => v.wall = u - Midnight(d)
      /\ u - Midnight(d) >= S => v.wall = u - Midnight(d) + Shift(d) * Hour
  BY <1>2, <1>3, <1>4, LocalOf
<1>6. Hour \in Nat \ {0} /\ S \in Int /\ Midnight(d) \in Int /\ Midnight(d + 1) \in Int
  BY TimeAssumption, DayFacts
<1>7. Midnight(d) <= u /\ u < Midnight(d + 1)
  <2>1. CASE Shift(d) = 1
    BY <1>1, <1>4, <1>5, <1>6, <2>1, DayFacts, IrregularTimes DEF Late
  <2>2. CASE Shift(d) = 0
    BY <1>1, <1>4, <1>5, <1>6, <2>2, DayFacts, IrregularTimes DEF Late
  <2>3. CASE Shift(d) = -1
    BY <1>1, <1>4, <1>5, <1>6, <2>3, DayFacts, IrregularTimes DEF Late
  <2> QED BY <2>1, <2>2, <2>3, DayFacts
<1> QED BY <1>2, <1>4, <1>6, <1>7

\* A wall time that the clock shows at instant u is accepted, whatever its fold;
\* it converts to u if it has the fold of that moment.
LEMMA ShownIsAccepted ==
    ASSUME NEW d \in Days, NEW u \in Midnight(d)..(Midnight(d + 1) - 1),
           NEW v, v.day = d, v.wall = Local(u).wall, v.fold \in 0..1
    PROVE  /\ AcceptsWallTime(v)
           /\ v.fold = Local(u).fold => ToUtc(v) = u
<1> DEFINE S == SwitchHour * Hour
           t == ToUtc(v)
<1>1. /\ Hour \in Nat \ {0} /\ S \in Int
      /\ Midnight(d) \in Int /\ Midnight(d + 1) \in Int /\ u \in Int
  BY TimeAssumption, DayFacts
<1>2. DateOf(u) = d
  BY <1>1, DateIsUnique
<1>3. /\ u - Midnight(d) < S => v.wall = u - Midnight(d) /\ Local(u).fold = 0
      /\ u - Midnight(d) >= S =>
             /\ v.wall = u - Midnight(d) + Shift(d) * Hour
             /\ Local(u).fold = 1 <=> v.wall < S
  BY <1>1, <1>2, LocalOf
<1>4. v.wall \in Int
  BY <1>1, <1>3, DayFacts
<1>5. t \in Int /\ t = Midnight(d) + v.wall - (IF Late(v) THEN Shift(d) * Hour ELSE 0)
  BY <1>4, UtcOf
<1>6. Midnight(d) <= t /\ t < Midnight(d + 1)
  <2>1. CASE Shift(d) = 1
    BY <1>1, <1>3, <1>4, <1>5, <2>1, DayFacts, IrregularTimes DEF Late
  <2>2. CASE Shift(d) = 0
    BY <1>1, <1>3, <1>4, <1>5, <2>2, DayFacts, IrregularTimes DEF Late
  <2>3. CASE Shift(d) = -1
    BY <1>1, <1>3, <1>4, <1>5, <2>3, DayFacts, IrregularTimes DEF Late
  <2> QED BY <2>1, <2>2, <2>3, DayFacts
<1>7. DateOf(t) = d
  BY <1>5, <1>6, DateIsUnique
<1>8. /\ Local(t).day = d
      /\ t - Midnight(d) < S => Local(t).wall = t - Midnight(d) /\ Local(t).fold = 0
      /\ t - Midnight(d) >= S =>
             /\ Local(t).wall = t - Midnight(d) + Shift(d) * Hour
             /\ Local(t).fold = 1 <=> Local(t).wall < S
  BY <1>5, <1>7, LocalOf
<1>9. /\ Local(t).wall = v.wall
      /\ Shift(d) # 0 => (Late(Local(t)) <=> Late(v))
      /\ v.fold = Local(u).fold => t = u
  <2>1. CASE Shift(d) = 1
    BY <1>1, <1>3, <1>4, <1>5, <1>8, <2>1, DayFacts, IrregularTimes DEF Late
  <2>2. CASE Shift(d) = 0
    BY <1>1, <1>3, <1>4, <1>5, <1>8, <2>2, DayFacts, IrregularTimes DEF Late
  <2>3. CASE Shift(d) = -1
    BY <1>1, <1>3, <1>4, <1>5, <1>8, <2>3, DayFacts, IrregularTimes DEF Late
  <2> QED BY <2>1, <2>2, <2>3, DayFacts
<1>10. Offset(Local(t)) = Offset(v)
  <2>1. /\ Offset(v) = IF Late(v) THEN Ahead[d + 1] ELSE Ahead[d]
        /\ Offset(Local(t)) = IF Late(Local(t)) THEN Ahead[d + 1] ELSE Ahead[d]
    BY <1>4, <1>8, <1>9, UtcOf
  <2>2. Shift(d) = 0 => Ahead[d] = Ahead[d + 1]
    <3>1. Ahead[d] \in Int /\ Ahead[d + 1] \in Int
      BY TimeAssumption DEF Days
    <3> QED BY <3>1 DEF Shift
  <2> QED BY <1>9, <2>1, <2>2
<1> QED BY <1>8, <1>9, <1>10 DEF AcceptsWallTime

\* as_utc(): on a day of any length, whenever the clock is changed and in either
\* direction, exactly the wall times that some clock showed are accepted, and each
\* instant of the day is recovered from what the clock showed then.
THEOREM RoundTripsCorrect ==
    ASSUME NEW d \in Days
    PROVE  RoundTrips(d)
<1> DEFINE shown == Midnight(d)..(Midnight(d + 1) - 1)
<1>1. ASSUME NEW u \in shown
      PROVE  AcceptsWallTime(Local(u)) /\ ToUtc(Local(u)) = u
  <2>1. u \in Int /\ DateOf(u) = d
    BY DayFacts, DateIsUnique
  <2>2. Local(u).day = d /\ Local(u).fold \in 0..1
    BY <2>1 DEF Local
  <2> QED BY <2>2, ShownIsAccepted
<1>2. ASSUME NEW v \in WallTime, v.day = d
      PROVE  AcceptsWallTime(v) <=> \E u \in shown : Local(u).wall = v.wall
  <2>1. v.fold \in 0..1
    BY DEF WallTime
  <2>2. ASSUME AcceptsWallTime(v) PROVE \E u \in shown : Local(u).wall = v.wall
    BY <1>2, <2>2, AcceptedIsShown
  <2>3. ASSUME NEW u \in shown, Local(u).wall = v.wall PROVE AcceptsWallTime(v)
    BY <1>2, <2>1, <2>3, ShownIsAccepted
  <2> QED BY <2>2, <2>3
<1> QED BY <1>1, <1>2 DEF RoundTrips

----------------------------------------------------------------------------
(* Counting intervals.                                                     *)

LEMMA MultipleOf ==
    ASSUME NEW a \in Int, NEW h \in Nat \ {0}
    PROVE  /\ a % h = 0 => a = (a \div h) * h
           /\ a \div h \in Int
OBVIOUS

LEMMA MultipleIsExact ==
    ASSUME NEW k \in Int, NEW h \in Nat \ {0}
    PROVE  (k * h) % h = 0
OBVIOUS

LEMMA ProductsOrder ==
    ASSUME NEW j \in Int, NEW k \in Int, NEW h \in Nat \ {0}
    PROVE  /\ j * h < k * h <=> j < k
           /\ j * h = k * h <=> j = k
<1>1. j < k => (j + 1) * h <= k * h
  BY ProductsGrow
<1>2. k < j => (k + 1) * h <= j * h
  BY ProductsGrow
<1>3. (j + 1) * h = j * h + h /\ (k + 1) * h = k * h + h /\ j * h \in Int /\ k * h \in Int
  OBVIOUS
<1> QED BY <1>1, <1>2, <1>3

\* The i-th interval of length h after an instant.
Nth(first, i, h) == first + i * h

LEMMA NthIsInt ==
    ASSUME NEW first \in Int, NEW h \in Nat \ {0}, NEW i \in Int
    PROVE  Nth(first, i, h) \in Int
BY ProductsDistribute DEF Nth

LEMMA NthDiffers ==
    ASSUME NEW first \in Int, NEW h \in Nat \ {0}, NEW i \in Int, NEW j \in Int,
           Nth(first, i, h) = Nth(first, j, h)
    PROVE  i = j
<1>1. i * h \in Int /\ j * h \in Int
  BY ProductsDistribute
<1>2. i * h = j * h
  BY <1>1 DEF Nth
<1> QED BY <1>2, ProductsOrder

LEMMA NthIsBetween ==
    ASSUME NEW first \in Int, NEW h \in Nat \ {0}, NEW n \in Nat, NEW i \in 0..(n - 1)
    PROVE  first <= Nth(first, i, h) /\ Nth(first, i, h) < Nth(first, n, h)
<1>1. i * h < n * h
  BY ProductsOrder
<1>2. i * h \in Nat /\ n * h \in Nat
  OBVIOUS
<1> QED BY <1>1, <1>2 DEF Nth

LEMMA NthIsAligned ==
    ASSUME NEW first \in Int, NEW h \in Nat \ {0}, NEW i \in Int, first % h = 0
    PROVE  Nth(first, i, h) % h = 0
<1>1. first = (first \div h) * h /\ first \div h \in Int
  BY MultipleOf
<1>2. ((first \div h) + i) * h = (first \div h) * h + i * h
  BY <1>1, ProductsDistribute
<1>3. (((first \div h) + i) * h) % h = 0
  BY <1>1, MultipleIsExact
<1> QED BY <1>1, <1>2, <1>3 DEF Nth

LEMMA NthIsOnto ==
    ASSUME NEW first \in Int, NEW h \in Nat \ {0}, NEW n \in Nat, first % h = 0,
           NEW u \in Int, u % h = 0, first <= u, u < Nth(first, n, h)
    PROVE  \E i \in 0..(n - 1) : u = Nth(first, i, h)
<1> DEFINE k == first \div h
           j == u \div h
<1>1. first = k * h /\ k \in Int /\ u = j * h /\ j \in Int
  BY MultipleOf
<1> HIDE DEF k, j
<1>2. k * h + n * h = (k + n) * h
  BY <1>1, ProductsDistribute
<1>3. j < k + n
  BY <1>1, <1>2, ProductsOrder DEF Nth
<1>4. k <= j
  <2>1. ~(j * h < k * h)
    BY <1>1
  <2> QED BY <1>1, <2>1, ProductsOrder
<1>5. j - k \in 0..(n - 1) /\ j = k + (j - k) /\ j - k \in Int
  BY <1>1, <1>3, <1>4
<1>6. j * h = k * h + (j - k) * h
  BY <1>1, <1>5, ProductsDistribute
<1> QED BY <1>1, <1>5, <1>6 DEF Nth

LEMMA IndicesAreCounted ==
    ASSUME NEW n \in Nat
    PROVE  IsFiniteSet(0..(n - 1)) /\ Cardinality(0..(n - 1)) = n
BY FS_Interval

\* The members of R start at different multiples of h between two instants.
Spread(R, start, h, first, last) ==
    /\ start \in [R -> Int]
    /\ \A x \in R : start[x] % h = 0 /\ first <= start[x] /\ start[x] < last
    /\ \A x, y \in R : start[x] = start[y] => x = y

\* w[i] is a member of R that starts at the i-th interval.
Covers(w, R, start, h, first, n) ==
    /\ w \in [0..(n - 1) -> R]
    /\ \A i \in 0..(n - 1) : start[w[i]] = Nth(first, i, h)

\* They are at most as many as the intervals there.
LEMMA StartsAreFew ==
    ASSUME NEW R, NEW start, NEW h \in Nat \ {0}, NEW first \in Int, NEW n \in Nat,
           first % h = 0, Spread(R, start, h, first, Nth(first, n, h))
    PROVE  IsFiniteSet(R) /\ Cardinality(R) <= n
<1> DEFINE k == first \div h
           f == [x \in R |-> (start[x] \div h) - k]
           T == 0..(n - 1)
<1>0. k \in Int /\ first = k * h /\ n * h \in Int /\ k * h \in Int
  BY MultipleOf
<1>1. ASSUME NEW x \in R
      PROVE  /\ f[x] \in T
             /\ start[x] = (k + f[x]) * h
  <2>0. /\ start[x] \in Int /\ start[x] % h = 0
        /\ first <= start[x] /\ start[x] < first + n * h
    BY DEF Spread, Nth
  <2>1. start[x] = (start[x] \div h) * h /\ start[x] \div h \in Int
    BY <2>0, MultipleOf
  <2> HIDE DEF k
  <2>2. k * h + n * h = (k + n) * h
    BY <1>0, ProductsDistribute
  <2>3. (start[x] \div h) * h < (k + n) * h
    BY <1>0, <2>0, <2>1, <2>2
  <2>4. start[x] \div h < k + n
    BY <1>0, <2>1, <2>3, ProductsOrder
  <2>5. ~((start[x] \div h) * h < k * h)
    BY <1>0, <2>0, <2>1
  <2>6. ~(start[x] \div h < k)
    BY <1>0, <2>1, <2>5, ProductsOrder
  <2>7. f[x] \in T /\ k + f[x] = start[x] \div h
    BY <1>0, <2>1, <2>4, <2>6
  <2> QED BY <2>1, <2>7
<1> HIDE DEF k, f
<1>2. f \in Injection(R, T)
  <2>1. f \in [R -> T]
    BY <1>1 DEF f
  <2>2. \A x, y \in R : f[x] = f[y] => x = y
    BY <1>1 DEF Spread
  <2> HIDE DEF T
  <2> QED BY <2>1, <2>2 DEF Injection, IsInjective
<1>3. IsFiniteSet(T) /\ Cardinality(T) = n
  BY IndicesAreCounted
<1> HIDE DEF T
<1> QED BY <1>2, <1>3, FS_Injection

LEMMA CoverIsInjection ==
    ASSUME NEW R, NEW start, NEW h \in Nat \ {0}, NEW first \in Int, NEW n \in Nat, NEW w,
           Covers(w, R, start, h, first, n)
    PROVE  w \in Injection(0..(n - 1), R)
<1>1. ASSUME NEW i \in 0..(n - 1), NEW j \in 0..(n - 1), w[i] = w[j] PROVE i = j
  BY <1>1, NthDiffers DEF Covers
<1> QED BY <1>1 DEF Covers, Injection, IsInjective

\* If each interval has one of them, they are as many as the intervals.
LEMMA StartsAreCounted ==
    ASSUME NEW R, NEW start, NEW h \in Nat \ {0}, NEW first \in Int, NEW n \in Nat, NEW w,
           first % h = 0, Spread(R, start, h, first, Nth(first, n, h)),
           Covers(w, R, start, h, first, n)
    PROVE  IsFiniteSet(R) /\ Cardinality(R) = n
<1>1. IsFiniteSet(R) /\ Cardinality(R) <= n
  BY StartsAreFew
<1>2. w \in Injection(0..(n - 1), R)
  BY CoverIsInjection
<1>3. IsFiniteSet(0..(n - 1)) /\ Cardinality(0..(n - 1)) = n
  BY IndicesAreCounted
<1>4. n <= Cardinality(R)
  BY <1>1, <1>2, <1>3, FS_Injection
<1>5. Cardinality(R) \in Nat
  BY <1>1, FS_CardinalityType
<1> QED BY <1>1, <1>4, <1>5

\* If R has as many members as there are intervals, and each interval has one of
\* them, then there are no others, and no two start at the same one.
LEMMA CoverIsSurjection ==
    ASSUME NEW R, IsFiniteSet(R), NEW start, NEW h \in Nat \ {0}, NEW first \in Int,
           NEW n \in Nat, NEW w, Cardinality(R) = n, Covers(w, R, start, h, first, n)
    PROVE  w \in Surjection(0..(n - 1), R)
<1> DEFINE T == 0..(n - 1)
<1>1. w \in Injection(T, R)
  BY CoverIsInjection
<1>2. IsFiniteSet(T) /\ Cardinality(T) = n
  BY IndicesAreCounted
<1> HIDE DEF T
<1>3. w \in Surjection(T, R)
  BY <1>1, <1>2, FS_Injection
<1> QED BY <1>3 DEF T

LEMMA CoverIsOnto ==
    ASSUME NEW R, NEW n, NEW w, w \in Surjection(0..(n - 1), R), NEW x \in R
    PROVE  \E i \in 0..(n - 1) : x = w[i]
BY DEF Surjection

LEMMA StartsDiffer ==
    ASSUME NEW R, NEW start, NEW h \in Nat \ {0}, NEW first \in Int,
           NEW n \in Nat, NEW w, Covers(w, R, start, h, first, n),
           w \in Surjection(0..(n - 1), R), NEW x \in R, NEW y \in R, start[x] = start[y]
    PROVE  x = y
<1>1. PICK i \in 0..(n - 1) : x = w[i]
  BY DEF Surjection
<1>2. PICK j \in 0..(n - 1) : y = w[j]
  BY DEF Surjection
<1>3. Nth(first, i, h) = Nth(first, j, h)
  BY <1>1, <1>2 DEF Covers
<1> QED BY <1>1, <1>2, <1>3, NthDiffers

----------------------------------------------------------------------------
(* The intervals of a day.                                                 *)

\* A product's intervals divide the hour.
LEMMA DurationFacts ==
    ASSUME NEW product \in Product
    PROVE  /\ Duration(product) \in Nat \ {0}
           /\ Hour \div Duration(product) \in 1..(Hour \div Slot)
           /\ Hour = (Hour \div Duration(product)) * Duration(product)
           /\ Hour \div Hour = 1
<1>1. Hour \in Nat \ {0} /\ Slot \in Nat \ {0} /\ Hour % Slot = 0
  BY TimeAssumption, SourceAssumption
<1>2. Hour = (Hour \div Slot) * Slot /\ Hour \div Slot \in Int
  BY <1>1, MultipleOf
<1>3. Hour \div Slot >= 1
  <2>1. 0 * Slot < (Hour \div Slot) * Slot
    BY <1>1, <1>2
  <2> QED BY <1>1, <1>2, <2>1, ProductsOrder
<1>4. Hour = 1 * Hour /\ Hour \div Hour = 1
  <2>1. Hour = 1 * Hour
    BY <1>1
  <2> QED BY <1>1, <2>1, ExactDivision
<1> QED BY <1>1, <1>2, <1>3, <1>4 DEF Duration, Product

\* The intervals between two midnights, counted.
LEMMA DayIntervals ==
    ASSUME NEW product \in Product, NEW d \in Days
    PROVE  \E n \in Nat :
               /\ Midnight(d) % Duration(product) = 0
               /\ Midnight(d + 1) = Nth(Midnight(d), n, Duration(product))
               /\ n <= (DayHours + 1) * (Hour \div Slot)
               /\ product = "lmp" => n = HoursOf(d)
<1> DEFINE h == Duration(product)
           q == Hour \div h
           m == d * DayHours - Ahead[d]
<1>1. /\ d \in Nat /\ DayHours \in Nat /\ DayHours >= 2 /\ Ahead[d] \in 0..1
  BY TimeAssumption DEF Days
<1>2. h \in Nat \ {0} /\ q \in 1..(Hour \div Slot) /\ Hour = q * h
      /\ q \in Nat /\ Hour \div Slot \in Nat
  BY DurationFacts, TimeAssumption, SourceAssumption
<1>3. m \in Int /\ Midnight(d) = m * Hour
  BY <1>1 DEF Midnight
<1>4. HoursOf(d) \in Nat /\ HoursOf(d) <= DayHours + 1
  BY <1>1, DayFacts
<1>5. Midnight(d + 1) = m * Hour + HoursOf(d) * Hour
  BY <1>3, <1>4, DayFacts, HoursAreExact
<1> HIDE DEF h, q, m
<1>6. m * (q * h) = (m * q) * h /\ HoursOf(d) * (q * h) = (HoursOf(d) * q) * h
      /\ m * q \in Int /\ HoursOf(d) * q \in Nat
  BY <1>2, <1>3, <1>4
<1>7. HoursOf(d) * q <= (DayHours + 1) * (Hour \div Slot)
  <2>1. HoursOf(d) * q <= (DayHours + 1) * q
    BY <1>1, <1>2, <1>4, ProductsGrow
  <2>2. q * (DayHours + 1) <= (Hour \div Slot) * (DayHours + 1)
    BY <1>1, <1>2, ProductsGrow
  <2>3. /\ q * (DayHours + 1) = (DayHours + 1) * q
        /\ (Hour \div Slot) * (DayHours + 1) = (DayHours + 1) * (Hour \div Slot)
        /\ (DayHours + 1) * q \in Int /\ HoursOf(d) * q \in Int
        /\ (DayHours + 1) * (Hour \div Slot) \in Int
    BY <1>1, <1>2, <1>4
  <2> QED BY <2>1, <2>2, <2>3
<1>8. product = "lmp" => HoursOf(d) * q = HoursOf(d)
  <2>1. product = "lmp" => q = 1
    BY DurationFacts DEF q, h, Duration
  <2> QED BY <1>4, <2>1
<1> DEFINE k == m * q
           n == HoursOf(d) * q
<1>9. k \in Int /\ n \in Nat /\ Midnight(d) = k * h /\ Midnight(d + 1) = k * h + n * h
  BY <1>2, <1>3, <1>5, <1>6
<1> HIDE DEF k, n
<1>10. n <= (DayHours + 1) * (Hour \div Slot) /\ (product = "lmp" => n = HoursOf(d))
  BY <1>7, <1>8 DEF n
<1>11. Midnight(d) % h = 0
  BY <1>2, <1>9, MultipleIsExact
<1> QED BY <1>9, <1>10, <1>11 DEF h, Nth

\* An aligned interval that starts on a day ends on it.
LEMMA IntervalsStayInDay ==
    ASSUME NEW product \in Product, NEW d \in Days, NEW start \in Int, NEW end \in Int,
           Interval(product, start, end), start < Midnight(d + 1)
    PROVE  end <= Midnight(d + 1)
<1> DEFINE h == Duration(product)
<1>1. PICK n \in Nat : /\ Midnight(d) % h = 0
                       /\ Midnight(d + 1) = Nth(Midnight(d), n, h)
  BY DayIntervals
<1>2. h \in Nat \ {0} /\ Midnight(d) \in Int /\ Midnight(d + 1) \in Int
  BY DurationFacts, DayFacts
<1>3. PICK j \in Int : Midnight(d + 1) = j * h
  <2>1. Midnight(d + 1) % h = 0
    BY <1>1, <1>2, NthIsAligned
  <2> QED BY <1>2, <2>1, MultipleOf
<1>4. start = (start \div h) * h /\ start \div h \in Int
  BY <1>2, MultipleOf DEF Interval
<1> HIDE DEF h
<1>5. start \div h < j
  BY <1>2, <1>3, <1>4, ProductsOrder
<1>6. ((start \div h) + 1) * h <= j * h
  BY <1>2, <1>4, <1>5, ProductsGrow
<1>7. ((start \div h) + 1) * h = (start \div h) * h + h
  BY <1>2, <1>4
<1>8. end = start + h
  BY <1>2 DEF Interval, h
<1> QED BY <1>3, <1>4, <1>6, <1>7, <1>8

\* Things of one day with aligned starts of their own.
LEMMA DayHasRoom ==
    ASSUME NEW product \in Product, NEW d \in Days, NEW R, NEW start,
           Spread(R, start, Duration(product), Midnight(d), Midnight(d + 1))
    PROVE  /\ IsFiniteSet(R)
           /\ Cardinality(R) <= (DayHours + 1) * (Hour \div Slot)
           /\ product = "lmp" => Cardinality(R) <= HoursOf(d)
<1>1. PICK n \in Nat :
          /\ Midnight(d) % Duration(product) = 0
          /\ Midnight(d + 1) = Nth(Midnight(d), n, Duration(product))
          /\ n <= (DayHours + 1) * (Hour \div Slot)
          /\ product = "lmp" => n = HoursOf(d)
  BY DayIntervals
<1>2. Duration(product) \in Nat \ {0} /\ Midnight(d) \in Int
  BY DurationFacts, DayFacts
<1>3. IsFiniteSet(R) /\ Cardinality(R) <= n
  BY <1>1, <1>2, StartsAreFew
<1>4. Cardinality(R) \in Nat
  BY <1>3, FS_CardinalityType
<1>5. (DayHours + 1) * (Hour \div Slot) \in Int
  BY TimeAssumption, DurationFacts, SourceAssumption
<1> QED BY <1>1, <1>3, <1>4, <1>5

----------------------------------------------------------------------------
(* The adapter and the mart.                                               *)

LEMMA UtcIsInt == \A v \in WallTime : ToUtc(v) \in Int
<1> SUFFICES ASSUME NEW v \in WallTime PROVE ToUtc(v) \in Int
  OBVIOUS
<1>1. v.day \in Days /\ v.wall \in Int
  BY TimeAssumption DEF WallTime
<1>2. Ahead[v.day] \in Int /\ Ahead[v.day + 1] \in Int
  BY <1>1, TimeAssumption DEF Days
<1>3. Offset(v) \in Int
  BY <1>2 DEF Offset
<1> QED BY <1>1, <1>3, TimeAssumption DEF ToUtc, Days

\* A row that passes the checks becomes a well-typed observation.
LEMMA RecordIsObservation ==
    ASSUME NEW product \in Product, NEW row \in FrameRow, ValidRow(product, row)
    PROVE  Record(product, row) \in Observation
<1>1. row \in SourceRow
  BY SourceAssumption
<1>2. /\ row.start \in WallTime /\ row.end \in WallTime /\ row.value \in Decimal
  BY <1>1 DEF ValidRow, ValidTimes, ValidTime, SourceRow
<1>3. ToUtc(row.start) \in Int /\ ToUtc(row.end) \in Int
  BY <1>2, UtcIsInt
<1>4. product = "lmp" => row.location \in TradingHub
  BY DEF ValidRow, ValidLmp
<1> QED BY <1>2, <1>3, <1>4 DEF Record, Observation

LEMMA SourceTypes == SourceTypeOK /\ SourceNext => SourceTypeOK'
<1> SUFFICES ASSUME SourceTypeOK, SourceNext PROVE SourceTypeOK'
  OBVIOUS
<1> USE DEF SourceTypeOK
<1>0. NoFetch \in Fetch
  BY TimeAssumption DEF NoFetch, Fetch, Product, Days
<1>1. CASE \E p \in Product, d \in Days, l \in TradingHub \cup {NoHub} : StartFetch(p, d, l)
  BY <1>0, <1>1 DEF StartFetch, Fetch, NoFetch
<1>2. CASE \E row \in FrameRow : ReadRow(row)
  <2> PICK row \in FrameRow : ReadRow(row)
    BY <1>2
  <2> DEFINE record == Record(fetch.product, row)
  <2>1. mart' = mart
    BY DEF ReadRow
  <2>2. CASE fetch' = NoFetch
    BY <1>0, <2>1, <2>2
  <2>3. CASE /\ ValidRow(fetch.product, row)
             /\ fetch' = [fetch EXCEPT !.records = @ \cup {record}]
    <3>1. fetch.product \in Product
      BY DEF Fetch
    <3>2. record \in Observation
      BY <2>3, <3>1, RecordIsObservation
    <3> QED BY <2>1, <2>3, <3>2 DEF Fetch
  <2> QED BY <2>2, <2>3 DEF ReadRow
<1>3. CASE EndRows
  BY <1>0, <1>3 DEF EndRows, Fetch
<1>4. CASE FetchFails
  BY <1>0, <1>4 DEF FetchFails
<1>5. CASE PersistRows
  <2>1. fetch' = NoFetch
    BY <1>5 DEF PersistRows
  <2>2. CASE mart' = mart
    BY <1>0, <2>1, <2>2
  <2>3. CASE /\ fetch.product = "lmp"
             /\ BatchFits(fetch.product, fetch.day, fetch.location, fetch.records)
             /\ mart' = mart \cup {ToMartRow(r) : r \in fetch.records}
    <3>1. ASSUME NEW r \in fetch.records PROVE ToMartRow(r) \in MartRow
      <4>1. r \in Observation /\ fetch.day \in Days
        BY DEF Fetch
      <4>2. r.location \in TradingHub
        BY <2>3, <4>1 DEF BatchFits, Observation
      <4> QED BY <4>1, <4>2 DEF ToMartRow, MartRow, Observation
    <3> QED BY <1>0, <2>1, <2>3, <3>1
  <2> QED BY <1>5, <2>2, <2>3 DEF PersistRows
<1> QED BY <1>1, <1>2, <1>3, <1>4, <1>5 DEF SourceNext

\* Each step of a fetch keeps what is known of its records.
LEMMA FetchStep == SourceInv /\ SourceNext => FetchIsSound'
<1> SUFFICES ASSUME SourceInv, SourceNext PROVE FetchIsSound'
  OBVIOUS
<1>0. SourceTypeOK /\ FetchIsSound
  BY DEF SourceInv
<1>1. CASE fetch'.records = {}
  BY <1>1 DEF FetchIsSound
<1>2. CASE fetch' = NoFetch
  BY <1>1, <1>2 DEF NoFetch
<1>3. CASE \E p \in Product, d \in Days, l \in TradingHub \cup {NoHub} : StartFetch(p, d, l)
  BY <1>1, <1>3 DEF StartFetch, NoFetch
<1>4. ASSUME NEW row \in FrameRow, ReadRow(row) PROVE FetchIsSound'
  <2> DEFINE record == Record(fetch.product, row)
  <2>1. CASE /\ ValidRow(fetch.product, row)
             /\ \A seen \in fetch.records : ~SameKey(seen, record)
             /\ fetch' = [fetch EXCEPT !.records = @ \cup {record}]
    <3>1. /\ fetch'.records = fetch.records \cup {record}
          /\ fetch'.product = fetch.product /\ fetch'.pc = "rows"
      BY <1>0, <1>4, <2>1 DEF SourceTypeOK, Fetch, ReadRow
    <3>2. /\ Interval(fetch.product, record.start, record.end)
          /\ IF fetch.product = "lmp" THEN record.location \in TradingHub
             ELSE record.location = NoHub
      BY <2>1 DEF Record, ValidRow, ValidLmp
    <3>3. \A seen \in fetch.records : ~SameKey(record, seen)
      BY <2>1 DEF SameKey
    <3> HIDE DEF record
    <3> QED BY <1>0, <2>1, <3>1, <3>2, <3>3 DEF FetchIsSound
  <2> QED BY <1>2, <1>4, <2>1 DEF ReadRow
<1>5. CASE EndRows
  <2>1. CASE /\ \A r \in fetch.records :
                    InRequest(fetch.product, fetch.day, fetch.location, r)
             /\ fetch' = [fetch EXCEPT !.pc = "persist"]
    <3>1. /\ fetch'.records = fetch.records /\ fetch'.product = fetch.product
          /\ fetch'.day = fetch.day /\ fetch'.location = fetch.location
      BY <1>0, <2>1 DEF SourceTypeOK, Fetch
    <3> QED BY <1>0, <2>1, <3>1 DEF FetchIsSound
  <2> QED BY <1>2, <1>5, <2>1 DEF EndRows
<1>6. CASE FetchFails \/ PersistRows
  BY <1>2, <1>6 DEF FetchFails, PersistRows
<1> QED BY <1>3, <1>4, <1>5, <1>6 DEF SourceNext

\* A batch is persisted under the date of its intervals.
LEMMA MartStep == SourceInv /\ SourceNext => MartIsSound'
<1> SUFFICES ASSUME SourceInv, SourceNext PROVE MartIsSound'
  OBVIOUS
<1>0. SourceTypeOK /\ FetchIsSound /\ MartIsSound
  BY DEF SourceInv
<1>1. CASE mart' = mart
  BY <1>0, <1>1 DEF MartIsSound
<1>2. CASE /\ fetch.pc = "persist" /\ fetch.product = "lmp"
           /\ mart' = mart \cup {ToMartRow(r) : r \in fetch.records}
  <2>1. ASSUME NEW r \in fetch.records
        PROVE  /\ Interval("lmp", ToMartRow(r).start, ToMartRow(r).end)
               /\ Midnight(ToMartRow(r).market_date) <= ToMartRow(r).start
               /\ ToMartRow(r).start < Midnight(ToMartRow(r).market_date + 1)
    BY <1>0, <1>2 DEF FetchIsSound, InRequest, ToMartRow
  <2> QED BY <1>0, <1>2, <2>1 DEF MartIsSound
<1>3. SourceNext => mart' = mart \/ PersistRows
  BY DEF SourceNext, StartFetch, ReadRow, EndRows, FetchFails
<1> QED BY <1>1, <1>2, <1>3 DEF PersistRows

LEMMA SourceInvHolds == SourceInv /\ SourceNext => SourceInv'
BY SourceTypes, FetchStep, MartStep DEF SourceInv

LEMMA SourceInvStarts == SourceInit => SourceInv
BY TimeAssumption DEF SourceInit, SourceInv, SourceTypeOK, FetchIsSound, MartIsSound,
   NoFetch, Fetch, Product, Days

\* What the adapter has compared with the request, batch_rows() accepts.
LEMMA BatchesFit == SourceInv => FetchedBatchesFit
<1> SUFFICES ASSUME SourceInv, fetch.pc = "persist"
             PROVE  BatchFits(fetch.product, fetch.day, fetch.location, fetch.records)
  BY DEF FetchedBatchesFit
<1> DEFINE R == fetch.records
           start == [r \in R |-> r.start]
<1>1. /\ fetch.product \in Product /\ fetch.day \in Days /\ R \subseteq Observation
      /\ \A r \in R : r.start \in Int /\ r.end \in Int
  BY DEF SourceInv, SourceTypeOK, Fetch, Observation
<1>2. /\ \A r \in R : /\ Interval(fetch.product, r.start, r.end)
                      /\ IF fetch.product = "lmp" THEN r.location \in TradingHub
                         ELSE r.location = NoHub
                      /\ InRequest(fetch.product, fetch.day, fetch.location, r)
      /\ \A r, s \in R : SameKey(r, s) => r = s
  BY DEF SourceInv, FetchIsSound
<1>3. \A r, s \in R : r.start = s.start => r = s
  <2> SUFFICES ASSUME NEW r \in R, NEW s \in R, r.start = s.start PROVE r = s
    OBVIOUS
  <2>1. r.end = s.end
    <3>1. Duration(fetch.product) \in Int
      BY <1>1, DurationFacts
    <3> QED BY <1>1, <1>2, <3>1 DEF Interval
  <2>2. r.location = s.location
    BY <1>1, <1>2 DEF InRequest, Product
  <2> QED BY <1>2, <2>1, <2>2 DEF SameKey
<1>4. Cardinality(R) <= (DayHours + 1) * (Hour \div Slot) /\ IsFiniteSet(R)
  <2>1. start \in [R -> Int]
    BY <1>1
  <2>2. \A x \in R : /\ start[x] % Duration(fetch.product) = 0
                     /\ Midnight(fetch.day) <= start[x]
                     /\ start[x] < Midnight(fetch.day + 1)
    BY <1>2 DEF Interval, InRequest
  <2>3. \A x, y \in R : start[x] = start[y] => x = y
    BY <1>3
  <2> HIDE DEF R, start
  <2>4. Spread(R, start, Duration(fetch.product), Midnight(fetch.day), Midnight(fetch.day + 1))
    BY <2>1, <2>2, <2>3 DEF Spread
  <2> QED BY <1>1, <2>4, DayHasRoom
<1>5. Cardinality(R) <= MaxBatchRows
  <2>1. Cardinality(R) \in Nat
    BY <1>4, FS_CardinalityType
  <2>2. (DayHours + 1) * (Hour \div Slot) \in Int
    BY TimeAssumption, DurationFacts, SourceAssumption
  <2> QED BY <1>4, <2>1, <2>2, SourceAssumption
<1>6. ASSUME NEW r \in R
      PROVE  /\ fetch.product = "lmp" <=> r.location # NoHub
             /\ Midnight(fetch.day) <= r.start /\ r.start < Midnight(fetch.day + 1)
             /\ r.end <= Midnight(fetch.day + 1)
             /\ fetch.product = "lmp" => r.location = fetch.location
  BY <1>1, <1>2, IntervalsStayInDay, SourceAssumption DEF InRequest
<1> QED BY <1>2, <1>5, <1>6 DEF BatchFits

\* The marts pass their tests.
LEMMA MartsPass == SourceInv => MartIsValid /\ SummaryIsValid
<1> SUFFICES ASSUME SourceInv PROVE MartIsValid /\ SummaryIsValid
  OBVIOUS
<1>1. ASSUME NEW m \in mart
      PROVE  /\ m \in MartRow /\ m.start \in Int /\ m.end \in Int /\ m.market_date \in Days
             /\ m.end - m.start = Hour /\ m.start % Hour = 0
             /\ Midnight(m.market_date) <= m.start
             /\ m.start < Midnight(m.market_date + 1)
             /\ DateOf(m.start) = m.market_date
  <2>1. m \in MartRow /\ m.start \in Int /\ m.end \in Int /\ m.market_date \in Days
    BY DEF SourceInv, SourceTypeOK, MartRow
  <2>2. /\ m.end - m.start = Hour /\ m.start % Hour = 0
        /\ Midnight(m.market_date) <= m.start
        /\ m.start < Midnight(m.market_date + 1)
    BY DEF SourceInv, MartIsSound, Interval, Duration
  <2> QED BY <2>1, <2>2, DateIsUnique
<1>2. ASSUME NEW m \in mart, NEW n \in mart, m.location = n.location, m.start = n.start
      PROVE  m = n
  <2>1. m.market_date = n.market_date
    BY <1>1, <1>2
  <2>2. m.end = n.end
    BY <1>1, <1>2, TimeAssumption
  <2> QED BY <1>1, <1>2, <2>1, <2>2 DEF MartRow
<1>3. MartIsValid
  BY <1>1, <1>2 DEF MartIsValid
<1>4. ASSUME NEW m \in mart
      PROVE  /\ HoursOf(m.market_date) \in (DayHours - 1)..(DayHours + 1)
             /\ ObservationCount(m.location, m.market_date) <= HoursOf(m.market_date)
  <2> DEFINE R == {x \in mart : x.location = m.location /\ x.market_date = m.market_date}
             start == [x \in R |-> x.start]
  <2>1. HoursOf(m.market_date) \in (DayHours - 1)..(DayHours + 1)
    BY <1>1, DayFacts, TimeAssumption
  <2>2. start \in [R -> Int]
    BY <1>1
  <2>3. \A x \in R : /\ start[x] % Duration("lmp") = 0
                     /\ Midnight(m.market_date) <= start[x]
                     /\ start[x] < Midnight(m.market_date + 1)
    BY <1>1 DEF Duration
  <2>4. \A x, y \in R : start[x] = start[y] => x = y
    BY <1>2
  <2>5. ObservationCount(m.location, m.market_date) = Cardinality(R)
    BY DEF ObservationCount
  <2>6. "lmp" \in Product /\ m.market_date \in Days
    BY <1>1 DEF Product
  <2> HIDE DEF R, start
  <2>7. Cardinality(R) <= HoursOf(m.market_date)
    <3>1. Spread(R, start, Duration("lmp"), Midnight(m.market_date),
                 Midnight(m.market_date + 1))
      BY <2>2, <2>3, <2>4 DEF Spread
    <3> QED BY <2>6, <3>1, DayHasRoom
  <2> QED BY <2>1, <2>5, <2>7
<1> QED BY <1>3, <1>4 DEF SummaryIsValid

----------------------------------------------------------------------------
(* Powers of ten.                                                          *)

\* The least-number principle, for sets.
LEMMA LeastExists ==
    ASSUME NEW S \in SUBSET Nat, S # {}
    PROVE  \E x \in S : \A y \in S : x <= y
<1> DEFINE R == {ss \in Nat \X Nat : ss[1] < ss[2]}
<1>1. IsWellFoundedOn(R, Nat)
  BY NatLessThanWellFounded DEF OpToRel
<1> HIDE DEF R
<1>2. PICK x \in S : \A y \in S : ~(<<y, x>> \in R)
  BY <1>1, WFMin, Zenon
<1>3. ASSUME NEW y \in S PROVE x <= y
  <2>1. <<y, x>> \in Nat \X Nat /\ <<y, x>>[1] = y /\ <<y, x>>[2] = x
    OBVIOUS
  <2>2. y < x => <<y, x>> \in R
    BY <2>1, Zenon DEF R
  <2> QED BY <1>2, <2>2
<1> QED BY <1>3

\* Induction: a set of numbers that holds 0 and the successors of its members.
LEMMA AllNumbers ==
    ASSUME NEW S, 0 \in S, \A n \in Nat : n \in S => n + 1 \in S
    PROVE  Nat \subseteq S
<1> SUFFICES ASSUME NEW k \in Nat, k \notin S PROVE FALSE
  OBVIOUS
<1> DEFINE Missing == Nat \ S
<1>1. Missing \in SUBSET Nat /\ Missing # {}
  OBVIOUS
<1>2. PICK m \in Missing : \A y \in Missing : m <= y
  BY <1>1, LeastExists
<1>3. m # 0 /\ m - 1 \in Nat
  OBVIOUS
<1>4. m - 1 \in S
  BY <1>2, <1>3
<1>5. (m - 1) + 1 = m
  OBVIOUS
<1> QED BY <1>3, <1>4, <1>5

\* The powers up to m.
PowersTo(g, m) ==
    /\ g \in [0..m -> Nat]
    /\ g[0] = 1
    /\ \A i \in 1..m : g[i] = 10 * g[i - 1]

\* The beginnings of a power function agree where both are defined.
LEMMA PowersAgree ==
    ASSUME NEW m \in Nat, NEW n \in Nat, NEW g, NEW h, PowersTo(g, m), PowersTo(h, n),
           NEW i \in 0..m, i \in 0..n
    PROVE  g[i] = h[i]
<1> DEFINE S == {k \in Nat : k \in 0..m /\ k \in 0..n => g[k] = h[k]}
<1>1. 0 \in S
  BY DEF PowersTo
<1>2. ASSUME NEW k \in Nat, k \in S PROVE k + 1 \in S
  <2> SUFFICES ASSUME k + 1 \in 0..m, k + 1 \in 0..n PROVE g[k + 1] = h[k + 1]
    OBVIOUS
  <2>1. g[k] = h[k] /\ k + 1 \in 1..m /\ k + 1 \in 1..n /\ (k + 1) - 1 = k
    BY <1>2
  <2> QED BY <2>1 DEF PowersTo
<1> HIDE DEF S
<1>3. Nat \subseteq S
  BY <1>1, <1>2, AllNumbers
<1>4. i \in Nat
  OBVIOUS
<1>5. i \in S
  BY <1>3, <1>4
<1> QED BY <1>5 DEF S

\* They can be continued by a number.
LEMMA PowersExtend ==
    ASSUME NEW m \in Nat, NEW g, PowersTo(g, m)
    PROVE  \E h : PowersTo(h, m + 1)
<1> DEFINE h == [i \in 0..(m + 1) |-> IF i = m + 1 THEN 10 * g[m] ELSE g[i]]
<1>0. g \in [0..m -> Nat] /\ g[0] = 1 /\ \A i \in 1..m : g[i] = 10 * g[i - 1]
  BY DEF PowersTo
<1>1. h \in [0..(m + 1) -> Nat]
  BY <1>0
<1>2. h[0] = 1
  BY <1>0
<1>3. ASSUME NEW i \in 1..(m + 1) PROVE h[i] = 10 * h[i - 1]
  <2>1. i - 1 \in 0..m /\ h[i - 1] = g[i - 1]
    OBVIOUS
  <2>2. CASE i = m + 1
    BY <2>1, <2>2
  <2>3. CASE i # m + 1
    BY <1>0, <2>1, <2>3
  <2> QED BY <2>2, <2>3
<1> QED BY <1>1, <1>2, <1>3 DEF PowersTo

\* There is one of any length.
LEMMA PowersExist == \A m \in Nat : \E g : PowersTo(g, m)
<1> DEFINE S == {m \in Nat : \E g : PowersTo(g, m)}
<1>1. 0 \in S
  <2>1. PowersTo([i \in 0..0 |-> 1], 0)
    BY DEF PowersTo
  <2> QED BY <2>1
<1>2. ASSUME NEW k \in Nat, k \in S PROVE k + 1 \in S
  BY <1>2, PowersExtend
<1> HIDE DEF S
<1>3. Nat \subseteq S
  BY <1>1, <1>2, AllNumbers
<1> QED BY <1>3 DEF S

\* The recursive function PowerOfTen is what its definition says.
LEMMA PowerIsDefined ==
    PowerOfTen = [n \in Nat |-> IF n = 0 THEN 1 ELSE 10 * PowerOfTen[n - 1]]
<1> DEFINE Upto(n) == CHOOSE g : PowersTo(g, n)
           F == [n \in Nat |-> Upto(n)[n]]
<1>1. \A n \in Nat : PowersTo(Upto(n), n)
  BY PowersExist
<1>2. F[0] = 1
  BY <1>1 DEF PowersTo
<1>3. ASSUME NEW n \in Nat, n # 0 PROVE F[n] = 10 * F[n - 1]
  <2>1. n - 1 \in Nat /\ n \in 1..n /\ n - 1 \in 0..n /\ n - 1 \in 0..(n - 1)
    BY <1>3
  <2>2. PowersTo(Upto(n), n) /\ PowersTo(Upto(n - 1), n - 1)
    BY <1>1, <2>1
  <2> HIDE DEF Upto
  <2>3. Upto(n)[n - 1] = Upto(n - 1)[n - 1]
    BY <2>1, <2>2, PowersAgree
  <2>4. Upto(n)[n] = 10 * Upto(n)[n - 1]
    BY <2>1, <2>2 DEF PowersTo
  <2> QED BY <2>1, <2>3, <2>4
<1> HIDE DEF F
<1>4. F = [n \in Nat |-> IF n = 0 THEN 1 ELSE 10 * F[n - 1]]
  <2>1. F = [n \in Nat |-> F[n]]
    BY DEF F
  <2>2. \A n \in Nat : F[n] = IF n = 0 THEN 1 ELSE 10 * F[n - 1]
    BY <1>2, <1>3
  <2> QED BY <2>1, <2>2
<1> QED BY <1>4, Zenon DEF PowerOfTen

\* What it computes.
LEMMA PowerFacts ==
    /\ PowerOfTen[0] = 1
    /\ \A n \in Nat : PowerOfTen[n + 1] = 10 * PowerOfTen[n] /\ PowerOfTen[n] \in Nat \ {0}
<1>0. \A n \in Nat : PowerOfTen[n] = IF n = 0 THEN 1 ELSE 10 * PowerOfTen[n - 1]
  <2> DEFINE F == [n \in Nat |-> IF n = 0 THEN 1 ELSE 10 * PowerOfTen[n - 1]]
  <2>1. PowerOfTen = F
    BY PowerIsDefined
  <2>2. \A n \in Nat : F[n] = IF n = 0 THEN 1 ELSE 10 * PowerOfTen[n - 1]
    OBVIOUS
  <2> QED BY <2>1, <2>2, Zenon
<1>1. PowerOfTen[0] = 1
  BY <1>0
<1>2. ASSUME NEW n \in Nat PROVE PowerOfTen[n + 1] = 10 * PowerOfTen[n]
  <2>1. n + 1 \in Nat /\ n + 1 # 0 /\ (n + 1) - 1 = n
    OBVIOUS
  <2> QED BY <1>0, <2>1
<1> DEFINE S == {n \in Nat : PowerOfTen[n] \in Nat \ {0}}
<1>3. 0 \in S
  BY <1>1
<1>4. ASSUME NEW k \in Nat, k \in S PROVE k + 1 \in S
  BY <1>2, <1>4
<1> HIDE DEF S
<1>5. Nat \subseteq S
  BY <1>3, <1>4, AllNumbers
<1> QED BY <1>1, <1>2, <1>5 DEF S

LEMMA TimesTen == ASSUME NEW x \in Int, NEW y \in Int PROVE 10 * (x * y) = x * (10 * y)
OBVIOUS

\* The powers of sums and of differences.
LEMMA PowersMultiply ==
    ASSUME NEW a \in Nat, NEW b \in Nat
    PROVE  PowerOfTen[a + b] = PowerOfTen[a] * PowerOfTen[b]
<1> DEFINE S == {n \in Nat : PowerOfTen[a + n] = PowerOfTen[a] * PowerOfTen[n]}
<1>1. 0 \in S
  BY PowerFacts
<1>2. ASSUME NEW k \in Nat, k \in S PROVE k + 1 \in S
  <2>1. a + (k + 1) = (a + k) + 1 /\ a + k \in Nat
    OBVIOUS
  <2>2. PowerOfTen[a + (k + 1)] = 10 * (PowerOfTen[a] * PowerOfTen[k])
    BY <1>2, <2>1, PowerFacts
  <2>3. PowerOfTen[k + 1] = 10 * PowerOfTen[k] /\ PowerOfTen[a] \in Int /\ PowerOfTen[k] \in Int
    BY PowerFacts
  <2>4. 10 * (PowerOfTen[a] * PowerOfTen[k]) = PowerOfTen[a] * (10 * PowerOfTen[k])
    BY <2>3, TimesTen
  <2> QED BY <2>2, <2>3, <2>4
<1> HIDE DEF S
<1>3. Nat \subseteq S
  BY <1>1, <1>2, AllNumbers
<1> QED BY <1>3 DEF S

LEMMA PowersDivide ==
    ASSUME NEW j \in Nat, NEW k \in Nat, j <= k
    PROVE  PowerOfTen[k] = PowerOfTen[k - j] * PowerOfTen[j]
<1>1. k - j \in Nat /\ (k - j) + j = k
  OBVIOUS
<1> QED BY <1>1, PowersMultiply

LEMMA Associate ==
    ASSUME NEW x \in Int, NEW y \in Int, NEW z \in Int
    PROVE  (x * y) * z = x * (y * z)
OBVIOUS

LEMMA Remainder ==
    ASSUME NEW c \in Nat, NEW d \in Nat \ {0}
    PROVE  /\ c \div d \in Nat /\ c % d \in 0..(d - 1)
           /\ c = (c \div d) * d + (c % d)
OBVIOUS

\* A set of numbers that has a bound has a greatest one.
LEMMA GreatestExists ==
    ASSUME NEW n \in Nat, NEW S \in SUBSET (0..n), S # {}
    PROVE  \E x \in S : \A y \in S : y <= x
<1> DEFINE T == {n - x : x \in S}
<1>1. \A x \in S : n - x \in Nat
  OBVIOUS
<1>2. T \in SUBSET Nat /\ T # {}
  BY <1>1
<1>3. PICK t \in T : \A u \in T : t <= u
  BY <1>2, LeastExists
<1>4. PICK x \in S : t = n - x
  OBVIOUS
<1>5. \A y \in S : n - x <= n - y
  BY <1>3, <1>4
<1> QED BY <1>5

----------------------------------------------------------------------------
(* Encodings of decimals.                                                  *)

\* The texts decimal_text makes, with digits enough for any value.
Text == [neg : BOOLEAN, whole : Nat, places : 0..Precision, part : Nat]

\* The magnitude of a text in units of the last place.
Magnitude(text) ==
    text.whole * PowerOfTen[Precision] + text.part * PowerOfTen[Precision - text.places]

\* Its digits after the point, and none too many.
IsText(text) == text \in Text /\ text.part < PowerOfTen[text.places]
IsStripped(text) == text.places > 0 => text.part % 10 # 0

\* Stripping zeros keeps the value and leaves no zero at the end.
LEMMA StrippedFacts ==
    ASSUME NEW text, IsText(text)
    PROVE  /\ IsText(Stripped(text)) /\ IsStripped(Stripped(text))
           /\ Stripped(text).neg = text.neg
           /\ Magnitude(Stripped(text)) = Magnitude(text)
<1> DEFINE S == {k \in 0..text.places : text.part % PowerOfTen[k] = 0}
           z == CHOOSE k \in 0..text.places :
                     /\ text.part % PowerOfTen[k] = 0
                     /\ \A j \in 0..text.places : text.part % PowerOfTen[j] = 0 => j <= k
<1>0. /\ text \in Text /\ text.part \in Nat /\ text.places \in Nat /\ text.places <= Precision
      /\ text.part < PowerOfTen[text.places] /\ Precision \in Nat
  BY DecimalAssumption DEF IsText, Text
<1>1. 0 \in S
  BY <1>0, PowerFacts
<1>2. \E k \in S : \A j \in S : j <= k
  BY <1>0, <1>1, GreatestExists
<1>3. \E k \in 0..text.places :
          /\ text.part % PowerOfTen[k] = 0
          /\ \A j \in 0..text.places : text.part % PowerOfTen[j] = 0 => j <= k
  BY <1>2
<1>4. /\ z \in 0..text.places
      /\ text.part % PowerOfTen[z] = 0
      /\ \A j \in 0..text.places : text.part % PowerOfTen[j] = 0 => j <= z
  BY <1>3, Zenon
<1> DEFINE s == text.part \div PowerOfTen[z]
           p == text.places - z
<1>5. Stripped(text) = [text EXCEPT !.places = p, !.part = s]
  BY DEF Stripped
<1> HIDE DEF z
<1>6. /\ z \in Nat /\ p \in Nat /\ p + z = text.places /\ p \in 0..Precision
      /\ PowerOfTen[z] \in Nat \ {0} /\ PowerOfTen[p] \in Nat \ {0}
  BY <1>0, <1>4, PowerFacts
<1>7. s \in Nat /\ text.part = s * PowerOfTen[z]
  <2>1. text.part \div PowerOfTen[z] \in Nat
    BY <1>0, <1>6, Remainder
  <2>2. PICK d \in Nat \ {0} : d = PowerOfTen[z]
    BY <1>6
  <2>3. text.part % d = 0
    BY <1>4, <2>2
  <2>4. text.part \in Int
    BY <1>0
  <2>5. text.part = (text.part \div d) * d
    BY <2>3, <2>4, MultipleOf
  <2>6. text.part = (text.part \div PowerOfTen[z]) * PowerOfTen[z]
    BY <2>2, <2>5
  <2> QED BY <2>1, <2>6, Zenon
<1> HIDE DEF s, p
<1>8. /\ Stripped(text).neg = text.neg /\ Stripped(text).whole = text.whole
      /\ Stripped(text).places = p /\ Stripped(text).part = s /\ Stripped(text) \in Text
  BY <1>0, <1>5, <1>6, <1>7 DEF Text
<1>9. s < PowerOfTen[p]
  <2>1. PowerOfTen[text.places] = PowerOfTen[p] * PowerOfTen[z]
    BY <1>6, PowersMultiply
  <2>2. s * PowerOfTen[z] < PowerOfTen[p] * PowerOfTen[z]
    BY <1>0, <1>7, <2>1
  <2> QED BY <1>6, <1>7, <2>2, ProductsOrder
<1>10. ASSUME p > 0 PROVE s % 10 # 0
  <2> SUFFICES ASSUME s % 10 = 0 PROVE FALSE
    OBVIOUS
  <2>1. PICK m \in Nat : s = m * 10
    BY <1>7, Remainder
  <2>2. text.part = m * (10 * PowerOfTen[z])
    BY <1>6, <1>7, <2>1, Associate
  <2>3. PowerOfTen[z + 1] = 10 * PowerOfTen[z] /\ PowerOfTen[z + 1] \in Nat \ {0}
    BY <1>6, PowerFacts
  <2>4. text.part % PowerOfTen[z + 1] = 0
    BY <2>2, <2>3, MultipleIsExact
  <2>5. z + 1 \in 0..text.places
    BY <1>0, <1>6, <1>10
  <2> QED BY <1>4, <1>6, <2>4, <2>5
<1>11. Magnitude(Stripped(text)) = Magnitude(text)
  <2>1. Precision - text.places \in Nat /\ Precision - p = z + (Precision - text.places)
    BY <1>0, <1>6
  <2>2. PowerOfTen[Precision - p] = PowerOfTen[z] * PowerOfTen[Precision - text.places]
    BY <1>6, <2>1, PowersMultiply
  <2>3. PowerOfTen[Precision - text.places] \in Int
    BY <2>1, PowerFacts
  <2>4. (s * PowerOfTen[z]) * PowerOfTen[Precision - text.places]
        = s * (PowerOfTen[z] * PowerOfTen[Precision - text.places])
    BY <1>6, <1>7, <2>3, Associate
  <2>5. s * PowerOfTen[Precision - p] = text.part * PowerOfTen[Precision - text.places]
    BY <1>7, <2>2, <2>4, Zenon
  <2> QED BY <1>8, <2>5 DEF Magnitude
<1> QED BY <1>8, <1>9, <1>10, <1>11 DEF IsText, IsStripped

\* format(value, "f") keeps the value.
LEMMA FixedFacts ==
    ASSUME NEW x \in Decimal
    PROVE  /\ IsText(Fixed(x)) /\ Fixed(x).neg = x.neg
           /\ Magnitude(Fixed(x)) = x.coefficient * PowerOfTen[x.exponent + Precision]
<1>0. /\ x.neg \in BOOLEAN /\ x.coefficient \in Nat /\ x.exponent \in Int
      /\ -x.exponent <= Precision /\ Precision \in Nat
  BY DecimalAssumption
<1>1. CASE x.exponent >= 0
  <2> DEFINE w == x.coefficient * PowerOfTen[x.exponent]
  <2>1. PowerOfTen[x.exponent] \in Nat \ {0} /\ PowerOfTen[Precision] \in Nat \ {0}
        /\ PowerOfTen[0] = 1
    BY <1>0, <1>1, PowerFacts
  <2>2. w \in Nat
    BY <1>0, <2>1
  <2>3. w * PowerOfTen[Precision]
        = x.coefficient * (PowerOfTen[x.exponent] * PowerOfTen[Precision])
    BY <1>0, <2>1, Associate
  <2>4. PowerOfTen[x.exponent + Precision] = PowerOfTen[x.exponent] * PowerOfTen[Precision]
    BY <1>0, <1>1, PowersMultiply
  <2>5. w * PowerOfTen[Precision] = x.coefficient * PowerOfTen[x.exponent + Precision]
    BY <2>3, <2>4
  <2>6. Fixed(x) = [neg |-> x.neg, whole |-> w, places |-> 0, part |-> 0]
    BY <1>1 DEF Fixed
  <2>7. w * PowerOfTen[Precision] \in Int
    BY <2>1, <2>2
  <2> HIDE DEF w
  <2>8. 0 * PowerOfTen[Precision - 0] = 0
    BY <1>0, <2>1
  <2> QED BY <1>0, <2>1, <2>2, <2>5, <2>6, <2>7, <2>8 DEF IsText, Text, Magnitude
<1>2. CASE ~(x.exponent >= 0)
  <2> DEFINE p == -x.exponent
             d == PowerOfTen[p]
             w == x.coefficient \div d
             r == x.coefficient % d
             h == PowerOfTen[Precision - p]
  <2>1. p \in Nat /\ p \in 0..Precision /\ Precision - p \in Nat
        /\ x.exponent + Precision = Precision - p /\ p + (Precision - p) = Precision
    BY <1>0, <1>2
  <2>2. d \in Nat \ {0} /\ h \in Nat \ {0}
    BY <2>1, PowerFacts
  <2>3. PowerOfTen[Precision] = d * h
    BY <2>1, PowersMultiply
  <2>4. Fixed(x) = [neg |-> x.neg, whole |-> w, places |-> p, part |-> r]
    BY <1>2 DEF Fixed
  <2> HIDE DEF p, d, h
  <2>5. w \in Nat /\ r \in 0..(d - 1) /\ x.coefficient = w * d + r
    BY <1>0, <2>2, Remainder
  <2> HIDE DEF w, r
  <2>6. (w * d + r) * h = (w * d) * h + r * h
    BY <2>2, <2>5, ProductsDistribute
  <2>7. (w * d) * h = w * (d * h)
    BY <2>2, <2>5, Associate
  <2>8. x.coefficient * h = w * PowerOfTen[Precision] + r * h
    BY <2>3, <2>5, <2>6, <2>7
  <2>9. Magnitude(Fixed(x)) = w * PowerOfTen[Precision] + r * h
    BY <2>4 DEF Magnitude, h
  <2>10. IsText(Fixed(x)) /\ Fixed(x).neg = x.neg
    BY <1>0, <2>1, <2>2, <2>4, <2>5 DEF IsText, Text, d
  <2>11. PowerOfTen[x.exponent + Precision] = h
    BY <2>1 DEF h
  <2> QED BY <2>8, <2>9, <2>10, <2>11
<1> QED BY <1>1, <1>2

\* Only the text of zero is worth nothing.
LEMMA MagnitudeIsNat ==
    ASSUME NEW text, IsText(text)
    PROVE  /\ Magnitude(text) \in Nat
           /\ Magnitude(text) = 0 <=> (text.whole = 0 /\ text.part = 0)
<1>0. text.whole \in Nat /\ text.part \in Nat /\ Precision \in Nat
      /\ Precision - text.places \in Nat
  BY DecimalAssumption DEF IsText, Text
<1>1. PowerOfTen[Precision] \in Nat \ {0} /\ PowerOfTen[Precision - text.places] \in Nat \ {0}
  BY <1>0, PowerFacts
<1>2. Magnitude(text) = text.whole * PowerOfTen[Precision]
                        + text.part * PowerOfTen[Precision - text.places]
  BY DEF Magnitude
<1>3. PICK a \in Nat, b \in Nat, c \in Nat \ {0}, d \in Nat \ {0} :
          /\ a = text.whole /\ b = text.part
          /\ c = PowerOfTen[Precision] /\ d = PowerOfTen[Precision - text.places]
  BY <1>0, <1>1
<1>4. a * c + b * d \in Nat /\ (a * c + b * d = 0 <=> (a = 0 /\ b = 0))
  <2>1. a * c + b * d \in Nat
    OBVIOUS
  <2>2. a * c + b * d = 0 <=> (a = 0 /\ b = 0)
    <3>1. a * c \in Nat /\ b * d \in Nat
      OBVIOUS
    <3>2. (a # 0 => a * c > 0) /\ (b # 0 => b * d > 0)
      OBVIOUS
    <3>3. (a = 0 => a * c = 0) /\ (b = 0 => b * d = 0)
      OBVIOUS
    <3> QED BY <3>1, <3>2, <3>3
  <2> QED BY <2>1, <2>2
<1>5. Magnitude(text) = a * c + b * d
  BY <1>2, <1>3
<1> QED BY <1>3, <1>4, <1>5, Zenon

\* What decimal_text makes of a decimal.
LEMMA TextFacts ==
    ASSUME NEW x \in Decimal
    PROVE  /\ IsText(decimal_text(x)) /\ IsStripped(decimal_text(x))
           /\ Magnitude(decimal_text(x)) = x.coefficient * PowerOfTen[x.exponent + Precision]
           /\ decimal_text(x).neg <=> (x.neg /\ x.coefficient # 0)
<1>0. /\ x.coefficient \in Nat /\ x.exponent + Precision \in Nat /\ Precision \in Nat
      /\ x.neg \in BOOLEAN
  BY DecimalAssumption
<1>1. CASE x.coefficient = 0
  <2>1. decimal_text(x) = Zero
    BY <1>1 DEF decimal_text
  <2>2. PowerOfTen[0] = 1 /\ PowerOfTen[Precision] \in Nat /\ PowerOfTen[Precision - 0] \in Nat
        /\ PowerOfTen[x.exponent + Precision] \in Nat
    BY <1>0, PowerFacts
  <2>3. Zero.neg = FALSE /\ Zero.whole = 0 /\ Zero.places = 0 /\ Zero.part = 0 /\ Zero \in Text
    BY <1>0 DEF Zero, Text
  <2>4. 0 * PowerOfTen[Precision] = 0 /\ 0 * PowerOfTen[Precision - 0] = 0
        /\ 0 * PowerOfTen[x.exponent + Precision] = 0
    BY <2>2
  <2>5. Magnitude(Zero) = 0
    BY <2>3, <2>4 DEF Magnitude
  <2> QED BY <1>1, <2>1, <2>2, <2>3, <2>4, <2>5 DEF IsText, IsStripped
<1>2. CASE x.coefficient # 0
  <2>1. decimal_text(x) = Stripped(Fixed(x))
    BY <1>2 DEF decimal_text
  <2> QED BY <1>2, <2>1, FixedFacts, StrippedFacts
<1> QED BY <1>1, <1>2

\* The digits after the point are worth less than one.
LEMMA PartIsSmall ==
    ASSUME NEW text, IsText(text)
    PROVE  /\ text.part * PowerOfTen[Precision - text.places] \in Nat
           /\ text.part * PowerOfTen[Precision - text.places] < PowerOfTen[Precision]
<1>0. text.part \in Nat /\ Precision \in Nat /\ text.places \in Nat
      /\ Precision - text.places \in Nat /\ text.part < PowerOfTen[text.places]
      /\ text.places <= Precision
  BY DecimalAssumption DEF IsText, Text
<1>1. PICK d \in Nat \ {0} : d = PowerOfTen[Precision - text.places]
  BY <1>0, PowerFacts
<1>2. PICK u \in Nat \ {0} : u = PowerOfTen[text.places]
  BY <1>0, PowerFacts
<1>3. PowerOfTen[Precision] = u * d
  <2>1. text.places + (Precision - text.places) = Precision
    BY <1>0
  <2> QED BY <1>0, <1>1, <1>2, <2>1, PowersMultiply
<1>4. PICK p \in Nat : p = text.part
  BY <1>0
<1>5. p * d < u * d
  BY <1>0, <1>2, <1>4, ProductsOrder
<1>6. p * d \in Nat
  OBVIOUS
<1> QED BY <1>1, <1>3, <1>4, <1>5, <1>6, Zenon

\* Numbers of units with a rest are ordered by the units.
LEMMA WholeOrder ==
    ASSUME NEW w \in Nat, NEW n \in Nat, NEW d \in Nat \ {0}, NEW r \in 0..(d - 1)
    PROVE  w * d + r < n * d <=> w < n
<1>1. w < n => (w + 1) * d <= n * d
  BY ProductsGrow
<1>2. n <= w => n * d <= w * d
  BY ProductsGrow
<1>3. (w + 1) * d = w * d + d /\ w * d \in Int /\ n * d \in Int
  OBVIOUS
<1> QED BY <1>1, <1>2, <1>3

\* numeric()'s limit before the point.
LEMMA WholeFits ==
    ASSUME NEW text, IsText(text)
    PROVE  Magnitude(text) < PowerOfTen[Whole + Precision] <=> text.whole < PowerOfTen[Whole]
<1>0. text.whole \in Nat /\ Precision \in Nat /\ Whole \in Nat
  BY DecimalAssumption DEF IsText, Text
<1>1. PICK w \in Nat, n \in Nat, d \in Nat \ {0} :
          w = text.whole /\ n = PowerOfTen[Whole] /\ d = PowerOfTen[Precision]
  BY <1>0, PowerFacts
<1>2. PICK r \in 0..(d - 1) : r = text.part * PowerOfTen[Precision - text.places]
  BY <1>1, PartIsSmall
<1>3. PowerOfTen[Whole + Precision] = n * d
  BY <1>0, <1>1, PowersMultiply
<1>4. Magnitude(text) = w * d + r
  BY <1>1, <1>2 DEF Magnitude
<1>5. w * d + r < n * d <=> w < n
  BY WholeOrder, Zenon
<1> QED BY <1>1, <1>3, <1>4, <1>5, Zenon

LEMMA TenDivides ==
    ASSUME NEW part \in Int, NEW k \in Int, part = 10 * k
    PROVE  part % 10 = 0
OBVIOUS

\* numeric()'s limit after the point.
LEMMA PlacesFit ==
    ASSUME NEW text, IsText(text), IsStripped(text)
    PROVE  Magnitude(text) % PowerOfTen[Precision - Places] = 0 <=> text.places <= Places
<1>0. /\ text.whole \in Nat /\ text.part \in Nat /\ Precision \in Nat /\ Places \in Nat
      /\ text.places \in Nat /\ text.places <= Precision /\ Places <= Precision
      /\ Precision - text.places \in Nat /\ Precision - Places \in Nat
  BY DecimalAssumption DEF IsText, Text
<1>1. PICK w \in Nat, p \in Nat : w = text.whole /\ p = text.part
  BY <1>0
<1>2. PICK a \in Nat, b \in Nat : a = Precision - text.places /\ b = Precision - Places
  BY <1>0
<1>3. Magnitude(text) = w * PowerOfTen[Precision] + p * PowerOfTen[a]
  BY <1>1, <1>2 DEF Magnitude
<1>4. ASSUME text.places <= Places
      PROVE  Magnitude(text) % PowerOfTen[b] = 0
  <2>0. b <= a /\ a - b \in Nat
    BY <1>0, <1>2, <1>4
  <2>1. PICK d \in Nat \ {0}, x \in Nat, y \in Nat :
            d = PowerOfTen[b] /\ x = PowerOfTen[Places] /\ y = PowerOfTen[a - b]
    BY <1>0, <2>0, PowerFacts
  <2>2. PowerOfTen[Precision] = x * d
    <3>1. Places + b = Precision
      BY <1>0, <1>2
    <3> QED BY <1>0, <1>2, <2>1, <3>1, PowersMultiply
  <2>3. PowerOfTen[a] = y * d
    BY <2>0, <2>1, PowersDivide
  <2>4. w * (x * d) + p * (y * d) = (w * x + p * y) * d
    <3>1. w * (x * d) = (w * x) * d /\ p * (y * d) = (p * y) * d
      OBVIOUS
    <3>2. (w * x) * d + (p * y) * d = (w * x + p * y) * d
      OBVIOUS
    <3> QED BY <3>1, <3>2
  <2>5. Magnitude(text) = (w * x + p * y) * d
    BY <1>3, <2>2, <2>3, <2>4, Zenon
  <2>6. w * x + p * y \in Int
    OBVIOUS
  <2>7. ((w * x + p * y) * d) % d = 0
    BY <2>6, MultipleIsExact
  <2> QED BY <2>1, <2>5, <2>7, Zenon
<1>5. ASSUME Magnitude(text) % PowerOfTen[b] = 0, ~(text.places <= Places)
      PROVE  FALSE
  <2>0. /\ text.places > 0 /\ b - a - 1 \in Nat /\ b - a \in Nat /\ text.places - 1 \in Nat
        /\ (b - a - 1) + 1 = b - a /\ (text.places - 1) + 1 = text.places /\ a <= b
    BY <1>0, <1>2, <1>5
  <2>1. PICK d \in Nat \ {0}, u \in Nat, v \in Nat, m \in Nat :
            /\ d = PowerOfTen[a] /\ u = PowerOfTen[text.places - 1]
            /\ v = PowerOfTen[b - a - 1] /\ m = Magnitude(text)
    BY <1>2, <2>0, PowerFacts, MagnitudeIsNat
  <2>2. PowerOfTen[Precision] = (10 * u) * d
    <3>1. text.places + a = Precision
      BY <1>0, <1>2
    <3>2. PowerOfTen[text.places] = 10 * u
      BY <2>0, <2>1, PowerFacts
    <3>3. PowerOfTen[text.places + a] = PowerOfTen[text.places] * PowerOfTen[a]
      BY <1>0, PowersMultiply
    <3> QED BY <2>1, <3>1, <3>2, <3>3, Zenon
  <2>3. PowerOfTen[b] = (10 * v) * d
    <3>1. PowerOfTen[b - a] = 10 * v
      BY <2>0, <2>1, PowerFacts
    <3>2. PowerOfTen[b] = PowerOfTen[b - a] * PowerOfTen[a]
      BY <2>0, PowersDivide
    <3> QED BY <2>1, <3>1, <3>2, Zenon
  <2>4. PICK e \in Nat \ {0} : e = PowerOfTen[b]
    BY <1>2, PowerFacts
  <2>5. PICK k \in Int : m = k * e
    <3>1. m % e = 0
      BY <1>5, <2>1, <2>4
    <3>2. m = (m \div e) * e /\ m \div e \in Int
      BY <3>1, MultipleOf
    <3> QED BY <3>2
  <2>6. m = (k * (10 * v)) * d
    <3>1. k * ((10 * v) * d) = (k * (10 * v)) * d
      OBVIOUS
    <3> QED BY <2>3, <2>4, <2>5, <3>1, Zenon
  <2>7. m = (w * (10 * u) + p) * d
    <3>1. w * ((10 * u) * d) + p * d = (w * (10 * u) + p) * d
      OBVIOUS
    <3> QED BY <1>3, <2>1, <2>2, <3>1, Zenon
  <2>8. k * (10 * v) \in Int /\ w * (10 * u) + p \in Int
    OBVIOUS
  <2>9. k * (10 * v) = w * (10 * u) + p
    BY <2>6, <2>7, <2>8, ProductsOrder
  <2>10. p = 10 * (k * v - w * u)
    <3>1. k * (10 * v) = 10 * (k * v) /\ w * (10 * u) = 10 * (w * u)
      OBVIOUS
    <3>2. 10 * (k * v - w * u) = 10 * (k * v) - 10 * (w * u)
      OBVIOUS
    <3> QED BY <2>8, <2>9, <3>1, <3>2
  <2>11. p % 10 = 0
    BY <2>10, TenDivides
  <2> QED BY <1>1, <2>0, <2>11 DEF IsStripped
<1> QED BY <1>2, <1>4, <1>5

\* The values of a decimal and of its text, by their magnitude.
LEMMA SignedValues ==
    ASSUME NEW x \in Decimal, NEW m, m = Magnitude(decimal_text(x))
    PROVE  /\ m \in Nat
           /\ Scaled(x) = IF x.neg THEN -m ELSE m
           /\ Read(decimal_text(x)) = IF x.neg THEN -m ELSE m
           /\ m = 0 <=> x.coefficient = 0
<1>0. /\ x.coefficient \in Nat /\ x.exponent + Precision \in Nat /\ x.neg \in BOOLEAN
  BY DecimalAssumption
<1>1. PICK c \in Nat, d \in Nat \ {0} :
          c = x.coefficient /\ d = PowerOfTen[x.exponent + Precision]
  BY <1>0, PowerFacts
<1>2. m = c * d /\ m \in Nat
  <2>1. c * d \in Nat
    OBVIOUS
  <2> QED BY <1>1, <2>1, TextFacts
<1>3. m = 0 <=> c = 0
  <2>1. c = 0 => c * d = 0
    OBVIOUS
  <2>2. c # 0 => c * d # 0
    OBVIOUS
  <2> QED BY <1>2, <2>1, <2>2
<1>4. (-1 * c) * d = -(c * d) /\ (1 * c) * d = c * d
  OBVIOUS
<1>5. Scaled(x) = IF x.neg THEN -m ELSE m
  <2>1. Scaled(x) = IF x.neg THEN (-1 * c) * d ELSE (1 * c) * d
    BY <1>1 DEF Scaled
  <2> QED BY <1>2, <1>4, <2>1
<1>6. Read(decimal_text(x)) = IF decimal_text(x).neg THEN -1 * m ELSE 1 * m
  BY DEF Read, Magnitude
<1>7. decimal_text(x).neg <=> (x.neg /\ c # 0)
  BY <1>1, TextFacts
<1>8. -1 * m = -m /\ 1 * m = m /\ (m = 0 => -m = m)
  BY <1>2
<1>9. Read(decimal_text(x)) = IF x.neg THEN -m ELSE m
  BY <1>3, <1>6, <1>7, <1>8
<1> QED BY <1>1, <1>2, <1>3, <1>5, <1>9

\* Divisibility ignores the sign.
LEMMA NegativeMultiple ==
    ASSUME NEW m \in Nat, NEW d \in Nat \ {0}
    PROVE  (-m) % d = 0 <=> m % d = 0
<1>1. ASSUME m % d = 0 PROVE (-m) % d = 0
  <2>1. PICK k \in Int : m = k * d
    <3>1. m = (m \div d) * d /\ m \div d \in Int
      BY <1>1, MultipleOf
    <3> QED BY <3>1
  <2>2. -m = (-k) * d /\ -k \in Int
    BY <2>1
  <2> QED BY <2>2, MultipleIsExact
<1>2. ASSUME (-m) % d = 0 PROVE m % d = 0
  <2>1. PICK j \in Int : j = -m
    OBVIOUS
  <2>2. PICK k \in Int : j = k * d
    <3>1. j % d = 0
      BY <1>2, <2>1
    <3> QED BY <3>1, MultipleOf
  <2>3. m = (-k) * d /\ -k \in Int
    BY <2>1, <2>2
  <2> QED BY <2>3, MultipleIsExact
<1> QED BY <1>1, <1>2

\* decimal_text is exact and normal, and numeric() accepts what NUMERIC stores
\* unchanged, for decimals of any size.
THEOREM EncodingsAreExact == \A x \in Decimal : EncodedExactly(x)
<1> SUFFICES ASSUME NEW x \in Decimal PROVE EncodedExactly(x)
  OBVIOUS
<1>0. PICK text : text = decimal_text(x)
  OBVIOUS
<1>1. PICK m \in Nat : m = Magnitude(text)
  BY <1>0, SignedValues
<1>2. /\ IsText(text) /\ IsStripped(text)
      /\ (text.neg <=> (x.neg /\ x.coefficient # 0))
  BY <1>0, TextFacts
<1>3. /\ Scaled(x) = IF x.neg THEN -m ELSE m
      /\ Read(text) = IF x.neg THEN -m ELSE m
      /\ m = 0 <=> x.coefficient = 0
  BY <1>0, <1>1, SignedValues
<1>4. IsNormal(text)
  <2>1. m = 0 <=> (text.whole = 0 /\ text.part = 0)
    BY <1>1, <1>2, MagnitudeIsNat
  <2>2. text.part \in 0..(PowerOfTen[text.places] - 1)
    <3>1. text.part \in Nat /\ text.places \in Nat /\ text.part < PowerOfTen[text.places]
      BY <1>2, DecimalAssumption DEF IsText, Text
    <3>2. PowerOfTen[text.places] \in Nat
      BY <3>1, PowerFacts
    <3> QED BY <3>1, <3>2
  <2> QED BY <1>2, <1>3, <2>1, <2>2 DEF IsNormal, IsStripped
<1>5. Numeric(x) <=> /\ m % PowerOfTen[Precision - Places] = 0
                     /\ m < PowerOfTen[Whole + Precision]
  BY <1>0, <1>1, <1>2, WholeFits, PlacesFit DEF Numeric
<1>6. PICK d \in Nat \ {0} : d = PowerOfTen[Precision - Places]
  BY DecimalAssumption, PowerFacts
<1>7. PICK b \in Nat \ {0} : b = PowerOfTen[Whole + Precision]
  BY DecimalAssumption, PowerFacts
<1>8. (-m) % d = 0 <=> m % d = 0
  BY NegativeMultiple
<1>9. Scaled(x) % d = 0 <=> m % d = 0
  BY <1>3, <1>8
<1>10. m < b <=> (Scaled(x) < b /\ -Scaled(x) < b)
  BY <1>3
<1> QED BY <1>0, <1>3, <1>4, <1>5, <1>6, <1>7, <1>9, <1>10 DEF EncodedExactly

\* A number has one quotient and one rest.
LEMMA SplitsOnce ==
    ASSUME NEW v \in Nat, NEW w \in Nat, NEW d \in Nat \ {0},
           NEW q \in 0..(d - 1), NEW r \in 0..(d - 1), v * d + q = w * d + r
    PROVE  v = w
<1>1. v < w => (v + 1) * d <= w * d
  BY ProductsGrow
<1>2. w < v => (w + 1) * d <= v * d
  BY ProductsGrow
<1>3. (v + 1) * d = v * d + d /\ (w + 1) * d = w * d + d /\ v * d \in Int /\ w * d \in Int
  OBVIOUS
<1> QED BY <1>1, <1>2, <1>3

\* A part with more places is not worth the same once zeros are stripped.
LEMMA PlacesAreLeast ==
    ASSUME NEW s, NEW t, IsText(s), IsText(t), IsStripped(t),
           s.part * PowerOfTen[Precision - s.places] = t.part * PowerOfTen[Precision - t.places]
    PROVE  t.places <= s.places
<1> SUFFICES ASSUME s.places < t.places PROVE FALSE
  BY DecimalAssumption DEF IsText, Text
<1>0. /\ s.part \in Nat /\ t.part \in Nat /\ Precision \in Nat
      /\ s.places \in Nat /\ t.places \in Nat /\ t.places <= Precision /\ s.places <= Precision
  BY DecimalAssumption DEF IsText, Text
<1>1. PICK a \in Nat, b \in Nat : a = Precision - s.places /\ b = Precision - t.places
  BY <1>0
<1>2. b <= a /\ a - b - 1 \in Nat /\ (a - b - 1) + 1 = a - b /\ a - b \in Nat
  BY <1>0, <1>1
<1>3. PICK d \in Nat \ {0}, u \in Nat : d = PowerOfTen[b] /\ u = PowerOfTen[a - b - 1]
  BY <1>1, <1>2, PowerFacts
<1>4. PowerOfTen[a] = (10 * u) * d
  <2>1. PowerOfTen[a - b] = 10 * u
    BY <1>2, <1>3, PowerFacts
  <2> QED BY <1>2, <1>3, <2>1, PowersDivide
<1>5. PICK p \in Nat, q \in Nat : p = s.part /\ q = t.part
  BY <1>0
<1>6. p * ((10 * u) * d) = q * d
  BY <1>1, <1>3, <1>4, <1>5
<1>7. (p * (10 * u)) * d = q * d
  <2>1. (p * (10 * u)) * d = p * ((10 * u) * d)
    OBVIOUS
  <2> QED BY <1>6, <2>1
<1>8. p * (10 * u) \in Int
  OBVIOUS
<1>9. p * (10 * u) = q
  BY <1>7, <1>8, ProductsOrder
<1>10. p * (10 * u) = 10 * (p * u) /\ p * u \in Int
  OBVIOUS
<1>11. q % 10 = 0
  BY <1>9, <1>10, TenDivides
<1> QED BY <1>0, <1>5, <1>11 DEF IsStripped

\* A magnitude has one text of a sign.
LEMMA TextsAreUnique ==
    ASSUME NEW s, NEW t, IsText(s), IsText(t), IsStripped(s), IsStripped(t),
           s.neg = t.neg, Magnitude(s) = Magnitude(t)
    PROVE  s = t
<1>0. /\ s \in Text /\ t \in Text /\ s.whole \in Nat /\ t.whole \in Nat
      /\ s.part \in Nat /\ t.part \in Nat /\ s.places \in Nat /\ t.places \in Nat
      /\ Precision \in Nat /\ s.places <= Precision
  BY DecimalAssumption DEF IsText, Text
<1>1. PICK d \in Nat \ {0} : d = PowerOfTen[Precision]
  BY <1>0, PowerFacts
<1>2. PICK q \in 0..(d - 1) : q = s.part * PowerOfTen[Precision - s.places]
  BY <1>1, PartIsSmall
<1>3. PICK r \in 0..(d - 1) : r = t.part * PowerOfTen[Precision - t.places]
  BY <1>1, PartIsSmall
<1>4. PICK v \in Nat, w \in Nat : v = s.whole /\ w = t.whole
  BY <1>0
<1>5. v * d + q = w * d + r
  BY <1>1, <1>2, <1>3, <1>4 DEF Magnitude
<1>6. v = w
  BY <1>5, SplitsOnce
<1>7. q = r
  <2>1. v * d \in Int
    OBVIOUS
  <2> QED BY <1>5, <1>6, <2>1
<1>8. s.places = t.places
  <2>1. s.places <= t.places /\ t.places <= s.places
    BY <1>2, <1>3, <1>7, PlacesAreLeast
  <2> QED BY <1>0, <2>1
<1>9. s.part = t.part
  <2>1. PICK e \in Nat \ {0} : e = PowerOfTen[Precision - s.places]
    BY <1>0, PowerFacts
  <2>2. s.part * e = t.part * e
    BY <1>2, <1>3, <1>7, <1>8, <2>1
  <2>3. PICK i \in Int, j \in Int : i = s.part /\ j = t.part
    BY <1>0
  <2>4. i * e = j * e
    BY <2>2, <2>3
  <2>5. i = j
    BY <2>4, ProductsOrder
  <2> QED BY <2>3, <2>5
<1>10. /\ s = [neg |-> s.neg, whole |-> s.whole, places |-> s.places, part |-> s.part]
       /\ t = [neg |-> t.neg, whole |-> t.whole, places |-> t.places, part |-> t.part]
  BY <1>0 DEF Text
<1> QED BY <1>4, <1>6, <1>8, <1>9, <1>10

\* Equal numbers have one text, however the source wrote them, and different
\* numbers have different ones.
THEOREM EncodingsAreCanonical ==
    \A x, y \in Decimal : Scaled(x) = Scaled(y) <=> decimal_text(x) = decimal_text(y)
<1> SUFFICES ASSUME NEW x \in Decimal, NEW y \in Decimal
             PROVE  Scaled(x) = Scaled(y) <=> decimal_text(x) = decimal_text(y)
  OBVIOUS
<1>1. PICK m \in Nat, n \in Nat : m = Magnitude(decimal_text(x)) /\ n = Magnitude(decimal_text(y))
  BY SignedValues
<1>2. /\ Scaled(x) = Read(decimal_text(x)) /\ Scaled(y) = Read(decimal_text(y))
      /\ Scaled(x) = IF x.neg THEN -m ELSE m
      /\ Scaled(y) = IF y.neg THEN -n ELSE n
      /\ (m = 0 <=> x.coefficient = 0) /\ (n = 0 <=> y.coefficient = 0)
      /\ x.neg \in BOOLEAN /\ y.neg \in BOOLEAN
  BY <1>1, SignedValues, DecimalAssumption
<1>3. ASSUME Scaled(x) = Scaled(y) PROVE decimal_text(x) = decimal_text(y)
  <2>1. m = n /\ (m # 0 => (x.neg <=> y.neg))
    BY <1>2, <1>3
  <2>2. decimal_text(x).neg <=> decimal_text(y).neg
    BY <1>2, <2>1, TextFacts
  <2>3. decimal_text(x).neg \in BOOLEAN /\ decimal_text(y).neg \in BOOLEAN
    BY TextFacts DEF IsText, Text
  <2>4. decimal_text(x).neg = decimal_text(y).neg
    BY <2>2, <2>3
  <2> QED BY <1>1, <2>1, <2>4, TextFacts, TextsAreUnique
<1> QED BY <1>2, <1>3
=============================================================================
