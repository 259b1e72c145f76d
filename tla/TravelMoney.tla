----------------------------- MODULE TravelMoney -----------------------------
(***************************************************************************)
(* What a trip is worth and when its advance is due: services/per_diem.py,  *)
(* the fold of its result into a claim's totals (services/compute.py),      *)
(* settlement_mode and services/deadline.py.  All of it is pure.            *)
(*                                                                         *)
(* Money is in centavos, a percentage of an amount in hundredths of one; a  *)
(* day is a number.  A trip is [legs, depart, return, region, within50km,   *)
(* overnight, other]; its legs are in (seq, id) order, each                 *)
(* [date, region, mode, fare, lodging, meals].  Tables are sets of          *)
(* effective-dated rows: regions [key, from, cluster], rates [key, from,    *)
(* daily], apportionments [from, lodging, meals, incidentals] and departure *)
(* rates [from, pct].                                                       *)
(***************************************************************************)
EXTENDS Workdays, Sequences

CONSTANT Nothing   \* NULL: no date, no region, no fare, no row

(* core/money.py to_money: ROUND_HALF_UP to the centavo.                    *)
ToMoney(hundredths) == (hundredths + 50) \div 100

(* per_diem.py _as_of: the latest row in force on a day.                    *)
AsOf(dated, day) ==
  LET inForce == {r \in dated : r.from <= day}
  IN  IF inForce = {} THEN Nothing
      ELSE CHOOSE r \in inForce : \A s \in inForce : s.from <= r.from
Keyed(dated, key) == {r \in dated : r.key = key}

(* _apportionment, _departure_pct: the two rules must fit each other.       *)
Apportions(row) == row # Nothing /\ row.lodging + row.meals + row.incidentals = 100
Departs(row, split) == row # Nothing /\ row.pct = split.meals + split.incidentals

-----------------------------------------------------------------------------
(* compute_per_diem.  The span of the trip.                                 *)
LegDates(trip) == {trip.legs[i].date : i \in DOMAIN trip.legs}
Dated(trip) == trip.depart # Nothing /\ trip.return # Nothing
FirstDay(trip) ==
  IF Dated(trip) THEN trip.depart
  ELSE CHOOSE d \in LegDates(trip) : \A e \in LegDates(trip) : d <= e
LastDay(trip) ==
  IF Dated(trip) THEN trip.return
  ELSE CHOOSE d \in LegDates(trip) : \A e \in LegDates(trip) : e <= d
Span(trip) == FirstDay(trip) .. LastDay(trip)

(* The refusals that need no table.                                         *)
Sound(trip) ==
  /\ trip.legs # <<>>
  /\ \A i \in DOMAIN trip.legs :
       /\ trip.legs[i].date # Nothing
       /\ trip.legs[i].mode = "gov_vehicle" => trip.legs[i].fare \in {Nothing, 0}
  /\ Span(trip) # {}
  /\ LegDates(trip) \subseteq Span(trip)

(* The last leg of a day controls it; a day without one has leg 0.          *)
LegsOn(trip, day) == {i \in DOMAIN trip.legs : trip.legs[i].date = day}
Controlling(trip, day) ==
  IF LegsOn(trip, day) = {} THEN 0
  ELSE CHOOSE i \in LegsOn(trip, day) : \A j \in LegsOn(trip, day) : j <= i

(* Where each day is spent: a day without a leg carries the day before on.  *)
Region(trip) ==
  LET on[d \in Span(trip)] ==
        LET i == Controlling(trip, d)
        IN  IF i # 0 /\ trip.legs[i].region # Nothing THEN trip.legs[i].region
            ELSE IF i = 0 /\ d > FirstDay(trip) THEN on[d - 1]
            ELSE trip.region
  IN  on

DayType(trip, day) ==
  IF FirstDay(trip) = LastDay(trip) THEN "same_day"
  ELSE IF day = FirstDay(trip) THEN "arrival"
  ELSE IF day = LastDay(trip) THEN "return"
  ELSE "full"

(* The components a type of day has; the host's provisions strip those that *)
(* are there.                                                               *)
ComponentsOf(type) ==
  IF type \in {"arrival", "full"} THEN {"lodging", "meals", "incidentals"}
  ELSE {"meals", "incidentals"}
Provided(leg) ==
  (IF leg.lodging THEN {"lodging"} ELSE {}) \cup (IF leg.meals THEN {"meals"} ELSE {})
Gated(trip) == trip.within50km /\ ~trip.overnight
Paid(trip, day) ==
  LET i == Controlling(trip, day)
  IN  IF Gated(trip) THEN {}
      ELSE ComponentsOf(DayType(trip, day)) \ (IF i = 0 THEN {} ELSE Provided(trip.legs[i]))

(* One day of the breakdown, at the rates of that day.                      *)
RateOf(tables, region, day) ==
  LET place == AsOf(Keyed(tables.regions, region), day)
  IN  IF region = Nothing \/ place = Nothing THEN Nothing
      ELSE AsOf(Keyed(tables.rates, place.cluster), day)

Component(daily, split, name) == ToMoney(daily * split[name])

DayAmount(daily, split, names) ==
  (IF "lodging" \in names THEN Component(daily, split, "lodging") ELSE 0)
    + (IF "meals" \in names THEN Component(daily, split, "meals") ELSE 0)
    + (IF "incidentals" \in names THEN Component(daily, split, "incidentals") ELSE 0)

DayPct(trip, tables, day) ==
  IF Gated(trip) THEN 0
  ELSE IF DayType(trip, day) \in {"arrival", "full"} THEN 100
  ELSE AsOf(tables.departures, day).pct

Computable(trip, tables) ==
  /\ Sound(trip)
  /\ \A d \in Span(trip) :
       LET split == AsOf(tables.splits, d)
       IN  /\ RateOf(tables, Region(trip)[d], d) # Nothing
           /\ Apportions(split) /\ Departs(AsOf(tables.departures, d), split)

DayAmounts(trip, tables) ==
  [d \in Span(trip) |->
     DayAmount(RateOf(tables, Region(trip)[d], d).daily, AsOf(tables.splits, d), Paid(trip, d))]

SumOf(f) ==
  LET over[S \in SUBSET DOMAIN f] ==
        IF S = {} THEN 0 ELSE LET k == CHOOSE k \in S : TRUE IN f[k] + over[S \ {k}]
  IN  over[DOMAIN f]

Fare(leg) == IF leg.mode = "gov_vehicle" \/ leg.fare = Nothing THEN 0 ELSE leg.fare

(* What is written on each leg: the day goes to the leg that controls it.   *)
LegValues(trip, tables) ==
  [i \in DOMAIN trip.legs |->
     LET d == trip.legs[i].date
     IN  IF Controlling(trip, d) = i
         THEN [pct |-> DayPct(trip, tables, d), amount |-> DayAmounts(trip, tables)[d]]
         ELSE [pct |-> 0, amount |-> 0]]

LegTotal(trip, tables, i) == Fare(trip.legs[i]) + LegValues(trip, tables)[i].amount

(* settle: exactly one of the two is due, or neither.                       *)
SettleBalance(grand, advance) ==
  [to_reimburse |-> IF grand > advance THEN grand - advance ELSE 0,
   to_refund    |-> IF advance > grand THEN advance - grand ELSE 0]

(* compute.py compute_claim_totals, _totals_json; a trip that is not        *)
(* computable is refused.                                                   *)
ComputeClaimTotals(trip, tables, advance) ==
  LET perDiem   == SumOf(DayAmounts(trip, tables))
      transport == SumOf([i \in DOMAIN trip.legs |-> Fare(trip.legs[i])])
      grand     == perDiem + transport + trip.other
      due       == SettleBalance(grand, advance)
  IN  [per_diem |-> perDiem, transport |-> transport, other |-> trip.other, grand |-> grand,
       advance |-> advance, to_reimburse |-> due.to_reimburse, to_refund |-> due.to_refund]

(* settlement.py settlement_mode.                                           *)
SettlementMode(totals) ==
  IF totals.to_refund > 0 THEN "refund"
  ELSE IF totals.to_reimburse > 0 THEN "over_advance" ELSE "exact"

-----------------------------------------------------------------------------
(* deadline.py.  A configured value is [days, basis]; Nothing stands for a  *)
(* missing or unreadable one.                                               *)
DefaultRule == [days |-> 30, basis |-> "calendar"]

ReadRule(value) ==
  IF value = Nothing \/ value.days = Nothing \/ value.days <= 0 THEN DefaultRule
  ELSE [days |-> value.days,
        basis |-> IF value.basis = "working" THEN "working" ELSE "calendar"]

LiquidationDeadline(returned, rule, nonworking) ==
  IF returned = Nothing THEN Nothing
  ELSE IF rule.basis = "working" THEN AddWorkingDays(returned, rule.days, nonworking)
  ELSE returned + rule.days

(* cash_advance.py resolve_deadline: the holidays are read over a window    *)
(* after the return.                                                        *)
ResolveDeadline(returned, value, holidays) ==
  LET rule == ReadRule(value)
  IN  IF returned = Nothing THEN Nothing
      ELSE LiquidationDeadline(returned, rule,
             LoadNonworkingDates(holidays, returned, returned + 4 * rule.days + 14))

DeadlineState(due, today) ==
  IF due = Nothing THEN Nothing
  ELSE IF due < today THEN "overdue"
  ELSE IF due - today <= 7 THEN "due_soon" ELSE "on_track"
=============================================================================
