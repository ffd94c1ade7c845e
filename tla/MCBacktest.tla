----------------------------- MODULE MCBacktest -----------------------------
(* Days 0 and 3 have two hours, day 1 has three (the clock shows hour 0 twice)
   and day 2 has one (the clock never shows hour 1). An hour has two load slots
   and four ticks. *)
EXTENDS Backtest, TLC

CONSTANTS h1, h2

MCPower == -1..3
MCLevel == -1..4

MCAhead == <<1, 0, 1, 1>> @@ (0 :> 1)

D(neg, coefficient, exponent) ==
    [neg |-> neg, coefficient |-> coefficient, exponent |-> exponent]

MCDecimal ==
    {D(neg, c, e) : neg \in BOOLEAN, c \in {0, 1, 5, 9, 10, 99, 100, 101, 120, 999, 1000},
                    e \in -3..2}

At(day, wall, fold) == [day |-> day, wall |-> wall, fold |-> fold]
Row(hub, start, end) ==
    [time |-> start, start |-> start, end |-> end, location |-> hub, market |-> TRUE,
     value |-> D(FALSE, 10, -1)]

\* Every hour of days 1 and 2 at one hub, one hour of day 0 and one of another
\* hub; the load slots of day 2; and rows that are wrong in one way each.
Hours ==
    {Row(h1, Local(u), Local(u + Hour)) :
        u \in {t \in Midnight(1)..(Midnight(3) - 1) : t % Hour = 0}}
Slots ==
    {Row(NoHub, Local(u), Local(u + Slot)) :
        u \in {t \in Midnight(2)..(Midnight(2) + Hour - 1) : t % Slot = 0}}
First == Row(h1, Local(Midnight(2)), Local(Midnight(2) + Hour))
Wrong ==
    {[First EXCEPT !.market = FALSE],
     [First EXCEPT !.location = Malformed],
     [First EXCEPT !.value = Malformed],
     [First EXCEPT !.end = Malformed],
     [First EXCEPT !.time = Local(Midnight(2) + 1)],
     [First EXCEPT !.value = D(FALSE, 999, 2)],
     [First EXCEPT !.value = D(TRUE, 5, 0), !.location = NoHub],
     Row(h1, Local(Midnight(3) - 1), Local(Midnight(3) - 1 + Hour)),
     Row(NoHub, Local(Midnight(3) - 1), Local(Midnight(3) - 1 + Slot)),
     Row(h1, At(2, SwitchHour * Hour, 0), At(3, 0, 0))}
MCFrameRow ==
    Hours \cup Slots \cup Wrong
        \cup {Row(h1, Local(Midnight(1) - Hour), Local(Midnight(1))),
              Row(h2, Local(Midnight(2)), Local(Midnight(2) + Hour))}

\* The two hours of day 0, each of them twice under different keys; one under the
\* wrong date, one unaligned, and one of another hub.
File(hub, day, start, end, key) ==
    [location |-> hub, market_date |-> day, start |-> start, end |-> end, key |-> key]
MCFileRow ==
    LET m == Midnight(0)
    IN  {File(h1, 0, m, m + Hour, 1), File(h1, 0, m, m + Hour, 2),
         File(h1, 0, m + Hour, m + 2 * Hour, 3), File(h1, 0, m + Hour, m + 2 * Hour, 1),
         File(h1, 1, m + Hour, m + 2 * Hour, 4), File(h1, 0, m + 1, m + 1 + Hour, 5),
         File(h2, 0, m, m + Hour, 6)}
=============================================================================
