----------------------------- MODULE MCReminders -----------------------------
(* Reminders on a small bureau: two steps, three advances and a payment.    *)
(* A behaviour starts in one of five situations: two overdue steps under    *)
(* two ladders, the escalation task beside the ladder, an advance past its  *)
(* deadline being settled, an advance near it with the dispatch workers     *)
(* running, and an overdue step whose holder has muted the channel.         *)
EXTENDS Reminders

CONSTANTS beat1, beat2, task, desk, w1, w2, ana, ben

MCIds == 1 .. 5
MCSenders == {beat1, beat2, task, desk}
MCWorkers == {w1, w2}
MCSteps == {1, 2}
MCAdvances == {3, 4, 5}
MCFacts == {<<"settled", 3>>, <<"paid", 1>>}

(* Days count from a Monday: the steps fall due on Friday and Saturday; a   *)
(* behaviour ends on the second Monday.                                     *)
MCDays == {5, 6, 7}
MCDueOn == <<4, 5, 5, 10, 14>>
MCHolidays == {[day |-> 7, type |-> "special_working", active |-> TRUE]}

MCOwnerOf == <<ana, ben, ana, ana, ben>>
MCClaimantOf == [f \in MCFacts |-> ana]
MCPrefs == {[user |-> ana, chan |-> "in_app", module |-> "any", enabled |-> FALSE],
            [user |-> ana, chan |-> "in_app", module |-> "reimbursement", enabled |-> TRUE],
            [user |-> ben, chan |-> "in_app", module |-> "any", enabled |-> FALSE]}

MCDedupKeys ==
  {<<"sla", x, k>> : x \in MCSteps, k \in 0 .. 1}
  \cup {<<"liquidation", a, t, c>> : a \in MCAdvances, c \in Channels,
        t \in {<<"d7">>, <<"d3">>, <<"d0">>, <<"overdue", 0>>, <<"overdue", 1>>}}
  \cup {<<"fact", f>> : f \in MCFacts}

MCStarts ==
  {[today |-> 7, active |-> {1, 2}, open |-> {}, up |-> {beat1, beat2}],
   [today |-> 6, active |-> {1}, open |-> {5}, up |-> {beat1, task}],
   [today |-> 5, active |-> {}, open |-> {3}, up |-> {beat1, desk}],
   [today |-> 7, active |-> {}, open |-> {4}, up |-> {beat1, w1, w2}],
   [today |-> 7, active |-> {2}, open |-> {}, up |-> {beat1, w1}]}

(* For liveness: the ladder against decisions and a dying beat or sweep, and *)
(* one worker that may die.                                                  *)
MCLiveStarts ==
  {[today |-> 6, active |-> {1, 2}, open |-> {}, up |-> {beat1}],
   [today |-> 6, active |-> {1}, open |-> {}, up |-> {beat1, task}],
   [today |-> 7, active |-> {}, open |-> {4}, up |-> {beat1, w1}]}
=============================================================================
