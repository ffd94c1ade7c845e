---------------------------- MODULE PacificTime ----------------------------
(***************************************************************************)
(* Pacific wall-clock time and UTC, as time.py, Request.bounds and the     *)
(* source adapter use them. Instants are ticks of a UTC that is shifted by *)
(* the zone's standard offset, a whole number of hours. The zone data      *)
(* (ZoneInfo) are external: Ahead says when daylight time is in force.     *)
(***************************************************************************)
EXTENDS Integers

CONSTANTS
    Hour,        \* ticks per hour
    DayHours,    \* hours of an ordinary day (24)
    SwitchHour,  \* the clock is changed when it shows this hour (2)
    LastDay,     \* the days are 0..LastDay
    Ahead        \* Ahead[d] = 1 if daylight time is in force when day d begins

Days == 0..LastDay

ASSUME TimeAssumption ==
    /\ Hour \in Nat \ {0}
    /\ DayHours \in Nat
    /\ SwitchHour \in 1..(DayHours - 1)
    /\ LastDay \in Nat
    /\ Ahead \in [0..(LastDay + 1) -> 0..1]

WallTime == [day : Days, wall : 0..(DayHours * Hour - 1), fold : 0..1]

\* Local midnight, as an instant; a day ends where the next one begins.
Midnight(d) == (d * DayHours - Ahead[d]) * Hour

Instants == Midnight(0)..(Midnight(LastDay + 1) - 1)

HoursOf(d) == (Midnight(d + 1) - Midnight(d)) \div Hour

\* A day of DayHours + 1 hours, on which the clock is set back.
FallBack(d) == Midnight(d + 1) - Midnight(d) > DayHours * Hour

\* Hours by which the clock is changed on day d.
Shift(d) == Ahead[d + 1] - Ahead[d]

DateOf(u) == CHOOSE d \in Days : Midnight(d) <= u /\ u < Midnight(d + 1)

\* astimezone(PACIFIC): fold marks the second pass of a repeated hour.
Local(u) ==
    LET d == DateOf(u)
        elapsed == u - Midnight(d)
        changed == elapsed >= SwitchHour * Hour
        wall == IF changed THEN elapsed + Shift(d) * Hour ELSE elapsed
    IN  [day |-> d, wall |-> wall,
         fold |-> IF changed /\ wall < SwitchHour * Hour THEN 1 ELSE 0]

\* The wall times of day d that are skipped or repeated, if any.
Irregular(d, w) ==
    \/ SwitchHour * Hour <= w /\ w < (SwitchHour + Shift(d)) * Hour
    \/ (SwitchHour + Shift(d)) * Hour <= w /\ w < SwitchHour * Hour

\* utcoffset(), in hours beyond the standard offset: fold decides where the
\* wall time alone does not.
Offset(v) ==
    IF IF Irregular(v.day, v.wall) THEN v.fold = 1 ELSE v.wall >= SwitchHour * Hour
    THEN Ahead[v.day + 1] ELSE Ahead[v.day]

\* astimezone(UTC).
ToUtc(v) == (v.day * DayHours - Offset(v)) * Hour + v.wall

\* Mutant: the round trip is not compared.
AcceptsAnyWallTime(v) == TRUE

\* as_utc() accepts a wall time that survives the round trip, offset included.
AcceptsWallTime(v) ==
    LET back == Local(ToUtc(v))
    IN  back.day = v.day /\ back.wall = v.wall /\ Offset(back) = Offset(v)

----------------------------------------------------------------------------

\* On day d as_utc() accepts exactly the wall times some clock showed, and each
\* instant is recovered from what the clock showed then.
RoundTrips(d) ==
    LET shown == Midnight(d)..(Midnight(d + 1) - 1)
    IN  /\ \A u \in shown : AcceptsWallTime(Local(u)) /\ ToUtc(Local(u)) = u
        /\ \A v \in WallTime : v.day = d =>
               (AcceptsWallTime(v) <=> \E u \in shown : Local(u).wall = v.wall)
=============================================================================
