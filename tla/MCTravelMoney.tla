---------------------------- MODULE MCTravelMoney ----------------------------
(* TravelMoney over every small trip: two legs at most, three or four days, *)
(* two regions of two clusters, and a rate that changes on the third day.   *)
EXTENDS TravelMoney

MCTables ==
  [regions    |-> {[key |-> "A", from |-> 0, cluster |-> "I"], [key |-> "B", from |-> 0, cluster |-> "II"]},
   rates      |-> {[key |-> "I", from |-> 0, daily |-> 150001], [key |-> "II", from |-> 0, daily |-> 180003],
                   [key |-> "II", from |-> 3, daily |-> 220050], [key |-> "II", from |-> 9, daily |-> 300000]},
   splits     |-> {[from |-> 0, lodging |-> 50, meals |-> 30, incidentals |-> 20]},
   departures |-> {[from |-> 0, pct |-> 50]}]

MCLegs ==
  {[date |-> d, region |-> r, mode |-> IF r = "B" THEN "gov_vehicle" ELSE "bus",
    fare |-> IF r = "B" THEN Nothing ELSE 15000, lodging |-> p, meals |-> p]
     : d \in 1 .. 3, r \in {"A", "B", Nothing}, p \in BOOLEAN}

MCTrips ==
  {t \in [legs: {<<l>> : l \in MCLegs} \cup {<<l, k>> : l \in MCLegs, k \in MCLegs},
          depart: {1, Nothing}, return: {3, 4}, region: {"A"}, within50km: BOOLEAN,
          overnight: {FALSE}, other: {700}] : Computable(t, MCTables)}

(* Every centavo of the total is on exactly one leg, or on a day that has   *)
(* none: no day is paid twice when two legs share it.                       *)
ASSUME EveryDayIsPaidOnce ==
  \A t \in MCTrips :
    LET totals == ComputeClaimTotals(t, MCTables, 0)
    IN  totals.per_diem + totals.transport
          = SumOf([i \in DOMAIN t.legs |-> LegTotal(t, MCTables, i)])
              + SumOf([d \in Span(t) \ LegDates(t) |-> DayAmounts(t, MCTables)[d]])

(* A day is paid at the place the traveller last went to, of that day's     *)
(* table, and at the claim's own before the first leg.                      *)
ASSUME PaidWhereTheyAre ==
  \A t \in MCTrips : \A d \in Span(t) :
    LET before == {i \in DOMAIN t.legs : t.legs[i].date <= d}
        latest == CHOOSE i \in before : \A j \in before :
                    \/ t.legs[j].date < t.legs[i].date
                    \/ (t.legs[j].date = t.legs[i].date /\ j <= i)
    IN  Region(t)[d] = IF before = {} \/ t.legs[latest].region = Nothing THEN t.region
                       ELSE t.legs[latest].region

(* A provision never costs the traveller a component the day does not have: *)
(* lodging on the way home is not taken off the half day.                   *)
ASSUME NoDoubleDeduction ==
  \A t \in MCTrips : \A i \in DOMAIN t.legs :
    t.legs[i].date = LastDay(t) =>
      DayAmounts([t EXCEPT !.legs[i].lodging = TRUE], MCTables)
        = DayAmounts([t EXCEPT !.legs[i].lodging = FALSE], MCTables)

(* Within 50 km and back the same evening nothing but fares is due, and     *)
(* otherwise a day with nothing provided is within a centavo of its share.  *)
ASSUME DaysAreWorthTheirShare ==
  \A t \in MCTrips : \A d \in Span(t) :
    LET daily == RateOf(MCTables, Region(t)[d], d).daily
        off   == 100 * DayAmounts(t, MCTables)[d] - daily * DayPct(t, MCTables, d)
    IN  /\ t.within50km => DayAmounts(t, MCTables)[d] = 0
        /\ Paid(t, d) = ComponentsOf(DayType(t, d)) => off \in -150 .. 150

-----------------------------------------------------------------------------
MCValues == [days: {Nothing, -1, 0, 1, 5, 30}, basis: {"working", "calendar", "typo"}] \cup {Nothing}
MCHolidays ==
  {{[day |-> d, active |-> TRUE, type |-> "regular"] : d \in S} : S \in SUBSET {2, 4, 7, 8, 9}}

(* No configuration leaves an advance without a clock; a fallback from the  *)
(* working basis never gives the traveller more time; and a later return    *)
(* never has an earlier deadline.                                           *)
ASSUME DeadlinesFailShort ==
  \A value \in MCValues, holidays \in MCHolidays, day \in 0 .. 7 :
    LET due(v) == ResolveDeadline(day, v, holidays)
    IN  /\ due(value) > day
        /\ value # Nothing /\ value.basis = "working" =>
             due([value EXCEPT !.basis = "typo"]) <= due(value)
        /\ ResolveDeadline(day, value, holidays) <= ResolveDeadline(day + 1, value, holidays)

(* The holidays read for the working basis are all that matter.             *)
ASSUME HolidayWindowReachesTheDeadline ==
  \A value \in MCValues, holidays \in MCHolidays, day \in 0 .. 7 :
    ResolveDeadline(day, value, holidays)
      = LiquidationDeadline(day, ReadRule(value), {h.day : h \in holidays})

-----------------------------------------------------------------------------
(* Agendas of a week: every set of the rows below, of which a source shows  *)
(* two, in windows of at most four days.                                    *)
Cal == INSTANCE Agenda WITH DEFAULT_WINDOW_DAYS <- 2, MAX_WINDOW_DAYS <- 3, SOURCE_CAP <- 2

MCRow(source, id, from, to, own, overseen, status) ==
  [source |-> source, id |-> id, from |-> from, to |-> to, own |-> own,
   overseen |-> overseen, status |-> status]
MCRows ==
  {MCRow("core.activity", 1, 2, Nothing, FALSE, FALSE, "planned"),
   MCRow("reimb.travel", 1, 3, 6, TRUE, FALSE, "draft"),
   MCRow("reimb.travel", 2, 3, Nothing, FALSE, TRUE, "paid_closed"),
   MCRow("reimb.travel", 3, 5, 5, TRUE, TRUE, "returned"),
   MCRow("reimb.travel", 4, 4, 7, FALSE, FALSE, "returned"),
   MCRow("reimb.travel", 5, Nothing, Nothing, TRUE, FALSE, "draft"),
   MCRow("reimb.liquidation", 1, 4, Nothing, TRUE, FALSE, "overdue"),
   MCRow("reimb.liquidation", 2, 6, Nothing, TRUE, FALSE, "settled")}
MCFlags == {Nothing} \cup [enabled: BOOLEAN, is_active: BOOLEAN]
MCDayOff == {[day |-> 4, active |-> TRUE, type |-> "local"], [day |-> 2, active |-> TRUE, type |-> "special_working"]}
MCAgenda(rows, flag, w) == Cal!Collect(rows, flag, MCDayOff, w, 5)
MCShown(agenda) == UNION {{e.row : e \in agenda.days[d].events} : d \in DOMAIN agenda.days}
MCWindows == {Cal!ResolveWindow(a, b, 2) : a \in {0, 3, 4, Nothing}, b \in {3, 5, 9, Nothing}} \ {Nothing}
MCLate == MCRow("reimb.liquidation", 3, 1, Nothing, TRUE, FALSE, "open")
On == [enabled |-> TRUE, is_active |-> TRUE]

(* Turning the page loses nothing: what a wide window shows, its two halves *)
(* show between them, and what is missing anywhere is counted in the total. *)
ASSUME PagesLoseNothing ==
  \A rows \in SUBSET MCRows, w \in MCWindows : \A cut \in w.start .. w.end - 1 :
    LET whole == MCAgenda(rows, On, w)
        left  == MCAgenda(rows, On, [w EXCEPT !.end = cut])
        right == MCAgenda(rows, On, [w EXCEPT !.start = cut + 1])
    IN  /\ MCShown(whole) \subseteq MCShown(left) \cup MCShown(right)
        /\ whole.total >= Cardinality(MCShown(whole))
        /\ whole.total > Cardinality(MCShown(whole)) <=>
             \E s \in DOMAIN whole.reports : whole.reports[s].capped

(* A cap only ever drops the latest rows of a source.                       *)
ASSUME CapDropsTheLatest ==
  \A rows \in SUBSET MCRows, w \in MCWindows :
    LET shown == MCShown(MCAgenda(rows, On, w))
    IN  \A e \in shown, f \in rows \ shown :
          (e.source = f.source /\ (f.own \/ f.overseen) /\ f.from # Nothing /\ f.status # "settled"
             /\ Cal!Overlaps(f, w)) => e.from <= f.from

(* A module that is off leaves no trace: its agenda is that of an office    *)
(* without its rows.                                                        *)
ASSUME OffMeansAbsent ==
  \A rows \in SUBSET MCRows, flag \in MCFlags \ {On}, w \in MCWindows :
    MCAgenda(rows, flag, w)
      = MCAgenda({row \in rows : row.source = "core.activity"}, Nothing, w)

(* Within its window the agenda tells working days from days off, and no    *)
(* one's settled or other people's advance, or hidden trip, is on it.       *)
ASSUME AgendaIsRight ==
  \A rows \in SUBSET MCRows, w \in MCWindows :
    LET agenda == MCAgenda(rows \cup {MCLate}, On, w)
    IN  /\ \A d \in DOMAIN agenda.days \cap (w.start .. w.end) :
             agenda.days[d].is_nonworking <=> ~IsWorkingDay(d, {4})
        /\ \A e \in MCShown(agenda) :
             /\ e.source = "core.activity" \/ e.own \/ e.overseen
             /\ e.source = "reimb.liquidation" => e.own /\ e.status # "settled"
        /\ w.start <= 1 => \E e \in agenda.days[1].events : e.row = MCLate /\ e.urgency = "overdue"
=============================================================================
