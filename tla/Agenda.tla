------------------------------- MODULE Agenda -------------------------------
(***************************************************************************)
(* core/calendar: the agenda of a window of days, merged from sources that  *)
(* each apply their own scope rule and their own cap.  A row is a trip, an  *)
(* activity or the deadline of an advance: its first day, its last (Nothing *)
(* when it is a single day), and what its source asks of it.                *)
(***************************************************************************)
EXTENDS TravelMoney

CONSTANTS DEFAULT_WINDOW_DAYS, MAX_WINDOW_DAYS, SOURCE_CAP

(* A window that is the wrong way round is refused: Nothing.                *)
ResolveWindow(start, end, today) ==
  LET first   == IF start = Nothing THEN today ELSE start
      last    == IF end = Nothing THEN first + DEFAULT_WINDOW_DAYS ELSE end
      ceiling == first + MAX_WINDOW_DAYS
  IN  IF last < first THEN Nothing
      ELSE [start |-> first, end |-> IF last > ceiling THEN ceiling ELSE last,
            clamped |-> last > ceiling]

(* activities.py _overlaps and calendar.py _trip_overlaps.                  *)
Overlaps(row, w) ==
  /\ row.from # Nothing
  /\ row.from <= w.end
  /\ w.start <= IF row.to = Nothing THEN row.from ELSE row.to

Before(e, f) == e.from < f.from \/ (e.from = f.from /\ e.id < f.id)

(* ORDER BY first day, id LIMIT cap, beside the count before the limit.     *)
SourceResult(rows) ==
  LET shown == {e \in rows : Cardinality({f \in rows : Before(f, e)}) < SOURCE_CAP}
  IN  [events |-> shown, total |-> Cardinality(rows), capped |-> Cardinality(rows) > Cardinality(shown)]

FetchActivities(rows, w) ==
  SourceResult({row \in rows : row.source = "core.activity" /\ Overlaps(row, w)})

FetchTravel(rows, w) ==
  SourceResult({row \in rows : /\ row.source = "reimb.travel" /\ Overlaps(row, w)
                               /\ row.overseen \/ row.own})

UNLIQUIDATED_STATUSES == {"open", "liquidation_started", "overdue"}

FetchLiquidation(rows, w) ==
  SourceResult({row \in rows : /\ row.source = "reimb.liquidation" /\ Overlaps(row, w)
                               /\ row.own /\ row.status \in UNLIQUIDATED_STATUSES})

Urgency(row, today) ==
  LET state == DeadlineState(row.from, today)
  IN  IF row.source = "reimb.liquidation" /\ state \in {"due_soon", "overdue"} THEN state ELSE Nothing

(* A flag is on only while its row is there, enabled and not retired.       *)
FeatureEnabled(flag) == flag # Nothing /\ flag.enabled /\ flag.is_active

UsableSources(flag) ==
  {"core.activity"} \cup (IF FeatureEnabled(flag) THEN {"reimb.travel", "reimb.liquidation"} ELSE {})

Fetch(source, rows, w) ==
  CASE source = "core.activity"     -> FetchActivities(rows, w)
    [] source = "reimb.travel"      -> FetchTravel(rows, w)
    [] source = "reimb.liquidation" -> FetchLiquidation(rows, w)

(* The days that have something, each with its rows.  The holidays are read *)
(* for the window, though a row that began earlier stands under an earlier  *)
(* day.                                                                     *)
Collect(rows, flag, holidays, w, today) ==
  LET reports == [s \in UsableSources(flag) |-> Fetch(s, rows, w)]
      merged  == UNION {reports[s].events : s \in DOMAIN reports}
      labels  == LoadNonworkingDates(holidays, w.start, w.end)
  IN  [days    |-> [d \in {e.from : e \in merged} |->
                      [is_today      |-> d = today,
                       is_nonworking |-> d % 7 \in WEEKEND \/ d \in labels,
                       events        |-> {[row |-> e, urgency |-> Urgency(e, today)]
                                            : e \in {f \in merged : f.from = d}}]],
       total   |-> SumOf([s \in DOMAIN reports |-> reports[s].total]),
       reports |-> reports]
=============================================================================
