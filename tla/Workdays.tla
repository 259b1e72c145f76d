------------------------------ MODULE Workdays ------------------------------
(***************************************************************************)
(* core/workdays: working-day arithmetic.  A day is a number, day 0 is a    *)
(* Monday; `nonworking` holds the active holidays that are not worked.      *)
(***************************************************************************)
EXTENDS Integers, FiniteSets

WEEKEND == {5, 6}
NON_WORKING_HOLIDAY_TYPES == {"regular", "special_non_working", "work_suspension", "local"}

IsWorkingDay(day, nonworking) == day % 7 \notin WEEKEND /\ day \notin nonworking

(* The search of the two loops ends: a run of days off is never longer     *)
(* than a weekend for each holiday, and one more.                           *)
Reach(nonworking) == 3 * Cardinality(nonworking) + 3

NextWorkingDay(day, nonworking) ==
  CHOOSE d \in day .. day + Reach(nonworking) :
    IsWorkingDay(d, nonworking) /\ \A e \in day .. d - 1 : ~IsWorkingDay(e, nonworking)

PreviousWorkingDay(day, nonworking) ==
  CHOOSE d \in day - Reach(nonworking) .. day :
    IsWorkingDay(d, nonworking) /\ \A e \in d + 1 .. day : ~IsWorkingDay(e, nonworking)

(* n working days after start; a negative n counts back.                   *)
AddWorkingDays(start, n, nonworking) ==
  LET steps == IF n >= 0 THEN n ELSE -n
      after[k \in 0 .. steps] ==
        IF k = 0 THEN start
        ELSE IF n > 0 THEN NextWorkingDay(after[k - 1] + 1, nonworking)
                      ELSE PreviousWorkingDay(after[k - 1] - 1, nonworking)
  IN  after[steps]

(* The working days of (start, end], negative when end lies before start.  *)
WorkingDaysBetween(start, end, nonworking) ==
  LET count(lo, hi) == Cardinality({d \in lo + 1 .. hi : IsWorkingDay(d, nonworking)})
  IN  IF end >= start THEN count(start, end) ELSE -count(end, start)

AdjustToWorkingDay(day, nonworking, direction) ==
  IF direction = "backward" THEN PreviousWorkingDay(day, nonworking)
                            ELSE NextWorkingDay(day, nonworking)

(* The rows of core_holidays that count, in [start, end].                  *)
LoadNonworkingDates(holidays, start, end) ==
  {h.day : h \in {g \in holidays : /\ start <= g.day /\ g.day <= end /\ g.active
                                   /\ g.type \in NON_WORKING_HOLIDAY_TYPES}}
=============================================================================
