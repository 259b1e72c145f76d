------------------------------ MODULE Reminders ------------------------------
(***************************************************************************)
(* The clocks of the reimbursement module and what they write to the        *)
(* outbox: the engine's SLA sweep (core/workflow/sla), the escalation task  *)
(* and the two daily ladders (services/notify, ops/reimbursement_tasks),    *)
(* and the announcements that travel in the transaction of the fact they    *)
(* announce.  Composed with Outbox: every notification below is staged,     *)
(* persisted, committed and dispatched by the actions of that module.       *)
(*                                                                         *)
(* Time is a day count (Workdays).  A step's SLA falls due during DueOn[x]; *)
(* an advance is to be liquidated by DueOn[a].                              *)
(***************************************************************************)
EXTENDS Outbox, Workdays, SequencesExt

CONSTANTS Steps,        \* workflow steps with an SLA (a set of numbers)
          Advances,     \* cash advances (numbers, distinct from the steps)
          Facts,        \* settlements, payments and relayed FMS statuses
          DueOn,        \* day a step's SLA or an advance's deadline falls on
          Nudgeable,    \* steps whose claim is held by a user, not by FMS
          OwnerOf,      \* step -> its holder; advance -> its claimant's login, or NoUser
          ClaimantOf,   \* fact -> its claimant's login, or NoUser
          Addressed,    \* users that have an e-mail address
          Holidays,     \* core_holidays rows
          Repeat,       \* sla.reminder_repeat_days
          PageSize, MaxPages,
          MaxTaskRetries, \* notify_workflow_escalation's max_retries
          Days,         \* bound: the days on which anything runs
          Room,         \* bound: free row ids a beat or a request needs to start
          MaxAttempts,  \* bound: and the attempts any row may have behind it
          Beats,        \* senders that run the daily ladders
          Notifiers,    \* senders that run notify_workflow_escalation
          Desks,        \* senders of requests that record a fact
          Starts        \* the situations a behaviour may start in

VARIABLES today,
          step,      \* per step: status and escalation_level
          advance,   \* per advance: status
          recorded,  \* facts whose transaction has committed
          trail,     \* reminder events: how many per dedup key
          sweep,     \* steps the open SLA sweep holds and has escalated
          nudges,    \* broker: notify_workflow_escalation messages per <<step, retries>>
          job,       \* per sender: the task or request it serves
          up         \* the worker and web processes that are running

clockVars == <<today, step, advance, recorded, trail, sweep, nudges, job, up>>
vars == <<outboxVars, clockVars>>

UnliquidatedStatuses == {"open", "liquidation_started", "overdue"}
NoJob == [kind |-> "none", now |-> 0, cursor |-> 0, pages |-> 0, last |-> FALSE,
          hold |-> {}, events |-> {}, item |-> 0, tries |-> 0]

TypeOK ==
  /\ OutboxTypeOK
  /\ today \in Days
  /\ step \in [Steps -> [status: {"active", "done"}, level: 0 .. 1]]
  /\ advance \in [Advances -> UnliquidatedStatuses \cup {"settled"}]
  /\ recorded \subseteq Facts /\ trail \in [DedupKeys -> Nat]
  /\ sweep \subseteq Steps /\ up \subseteq Workers \cup Senders
  /\ nudges \in [Steps \X (0 .. MaxTaskRetries) -> Nat]

-----------------------------------------------------------------------------
(* The ladders' keys and messages *)

Message(key, chan, user, class) ==
  [key |-> key, chan |-> chan, user |-> user, addressed |-> user \in Addressed,
   class |-> class, module |-> "reimbursement"]

OverdueDays(x, now) ==
  WorkingDaysBetween(DueOn[x], now,
    LoadNonworkingDates(Holidays, IF DueOn[x] < now THEN DueOn[x] ELSE now, now))
Rung(x, now) == IF Repeat > 0 THEN OverdueDays(x, now) \div Repeat ELSE 0

(* _send_nudge: one in-app message to the holder, never to a superior; a   *)
(* step that waits outside the bureau is not nudged.                       *)
SendNudge(x, k) ==
  IF x \in Nudgeable
  THEN <<Message(<<"sla", x, k>>, "in_app", OwnerOf[x], "operational")>>
  ELSE <<>>

(* The most urgent milestone reached.                                      *)
MilestoneFor(remaining) ==
  CASE remaining <= 0 -> "d0" [] remaining <= 3 -> "d3" [] OTHER -> "d7"

(* The in-app message of the rung, and at D-3 and D-0 the e-mail as well,  *)
(* each under a key of its own.                                            *)
SendLiquidationNudge(a, now) ==
  LET remaining == DueOn[a] - now
      token == IF remaining < 0 THEN <<"overdue", Rung(a, now)>> ELSE <<MilestoneFor(remaining)>>
      msg(chan) == Message(<<"liquidation", a, token, chan>>, chan, OwnerOf[a], "transactional")
  IN  IF OwnerOf[a] = NoUser THEN <<>>
      ELSE <<msg("in_app")>> \o
           IF token \in {<<"d3">>, <<"d0">>} /\ OwnerOf[a] \in Addressed
           THEN <<msg("email")>> ELSE <<>>

(* One in-app message per fact, to the claimant if they can log in; all of  *)
(* these can be muted.                                                     *)
ToClaimant(f) ==
  IF ClaimantOf[f] = NoUser THEN <<>>
  ELSE <<Message(<<"fact", f>>, "in_app", ClaimantOf[f], "operational")>>

NotifySettlement(a) == ToClaimant(<<"settled", a>>)
NotifyPaid(c) == ToClaimant(<<"paid", c>>)
NotifyExternalStatus(e) == ToClaimant(<<"relayed", e>>)

Announce(f) ==
  CASE f[1] = "settled" -> NotifySettlement(f[2])
    [] f[1] = "paid" -> NotifyPaid(f[2])
    [] f[1] = "relayed" -> NotifyExternalStatus(f[2])

-----------------------------------------------------------------------------
(* Row locks: FOR UPDATE SKIP LOCKED passes over what others hold *)

HeldBy(s) == job[s].hold
Held == sweep \cup UNION {HeldBy(s) : s \in Senders}

-----------------------------------------------------------------------------
(* sweep_due_steps.  The escalation task is sent before the commit.         *)
SweepDueSteps ==
  LET due == {x \in Steps \ Held : /\ step[x].status = "active" /\ step[x].level = 0
                                   /\ DueOn[x] <= today}
  IN  /\ sweep = {} /\ due # {}
      /\ sweep' = due
      /\ nudges' = [m \in DOMAIN nudges |->
                      IF m[1] \in due /\ m[2] = 0 THEN nudges[m] + 1 ELSE nudges[m]]
      /\ UNCHANGED <<outboxVars, today, step, advance, recorded, trail, job, up>>

SweepCommit ==
  /\ sweep # {}
  /\ step' = [x \in Steps |-> IF x \in sweep THEN [step[x] EXCEPT !.level = 1] ELSE step[x]]
  /\ sweep' = {}
  /\ UNCHANGED <<outboxVars, today, advance, recorded, trail, nudges, job, up>>

SweepCrash ==
  /\ sweep # {} /\ crashes < MaxCrashes
  /\ crashes' = crashes + 1 /\ sweep' = {}
  /\ UNCHANGED <<rows, tx, queue, work, copies, today, step, advance, recorded, trail,
                 nudges, job, up>>

-----------------------------------------------------------------------------
(* A process that is free to start a task or a request *)
Idles(s) ==
  /\ s \in up /\ job[s].kind = "none" /\ tx[s].pc = "idle"
  /\ Cardinality({i \in Ids : rows[i].status = "none"}) >= Room
  /\ \A i \in Ids : rows[i].attempts <= MaxAttempts

-----------------------------------------------------------------------------
(* The escalation task *)

(* Celery's retry of a task that wrote nothing.                            *)
TaskRetry(x, tries, count) ==
  IF tries < MaxTaskRetries THEN [count EXCEPT ![<<x, tries + 1>>] = @ + 1] ELSE count

(* notify_escalation re-reads committed state and does nothing unless the  *)
(* step is active and escalated; it takes no lock on the step.             *)
NotifyEscalation(s) ==
  /\ Idles(s)
  /\ \E m \in DOMAIN nudges :
       LET x == m[1]
           taken == [nudges EXCEPT ![m] = @ - 1]
           batch == IF step[x].status = "active" /\ step[x].level >= 1
                    THEN SendNudge(x, 0) ELSE <<>>
       IN  /\ nudges[m] > 0
           /\ \/ /\ batch = <<>>
                 /\ nudges' = TaskRetry(x, m[2], taken)
                 /\ UNCHANGED <<outboxVars, job>>
              \/ /\ batch # <<>>
                 /\ nudges' = taken
                 /\ Stage(s, batch)
                 /\ job' = [job EXCEPT ![s] =
                      [NoJob EXCEPT !.kind = "task", !.item = x, !.tries = m[2]]]
  /\ UNCHANGED <<today, step, advance, recorded, trail, sweep, up>>

-----------------------------------------------------------------------------
(* The daily ladders *)

(* Mutant: only what falls due on the day itself.                           *)
DueExactly(kind, now) ==
  IF kind = "sla"
  THEN {x \in Steps : step[x].status = "active" /\ step[x].level >= 1 /\ DueOn[x] = now}
  ELSE {a \in Advances : advance[a] \in UnliquidatedStatuses /\ DueOn[a] = now}

Eligible(kind, now) ==
  IF kind = "sla"
  THEN {x \in Steps : step[x].status = "active" /\ step[x].level >= 1 /\ DueOn[x] <= now}
  ELSE {a \in Advances : advance[a] \in UnliquidatedStatuses /\ DueOn[a] <= now + 7}

(* A beat starts; "now" is read once.  (One that finds no row due writes    *)
(* nothing.)                                                               *)
StartBeat(s, kind) ==
  /\ Idles(s) /\ Eligible(kind, today) # {}
  /\ job' = [job EXCEPT ![s] = [NoJob EXCEPT !.kind = kind, !.now = today]]
  /\ Stage(s, <<>>)
  /\ UNCHANGED <<today, step, advance, recorded, trail, sweep, nudges, up>>

Earlier(x, y) == DueOn[x] < DueOn[y] \/ (DueOn[x] = DueOn[y] /\ x < y)

(* One keyset page, most overdue first, past the cursor, skipping rows      *)
(* that another session holds.                                              *)
OverduePage(s) ==
  LET after == {x \in Eligible(job[s].kind, job[s].now) \ (Held \ HeldBy(s)) :
                  job[s].cursor = 0 \/ Earlier(job[s].cursor, x)}
      sorted == SetToSortSeq(after, Earlier)
  IN  SubSeq(sorted, 1, IF Len(sorted) < PageSize THEN Len(sorted) ELSE PageSize)

(* The loop over pages ends with a short page, or when its budget is spent. *)
TurnPage(s, messages) ==
  LET page == OverduePage(s)
  IN  /\ ~job[s].last /\ tx[s].pc = "open"
      /\ Stage(s, FlattenSeq(messages))
      /\ job' = [job EXCEPT ![s].hold = @ \cup ToSet(page),
                            ![s].cursor = IF page = <<>> THEN @ ELSE Last(page),
                            ![s].pages = @ + 1,
                            ![s].last = Len(page) < PageSize \/ job[s].pages + 1 = MaxPages]
      /\ UNCHANGED <<today, step, advance, recorded, trail, sweep, nudges, up>>

SweepSlaReminders(s) ==
  LET page == OverduePage(s)
  IN  /\ job[s].kind = "sla"
      /\ TurnPage(s, [n \in DOMAIN page |-> SendNudge(page[n], Rung(page[n], job[s].now))])

SweepLiquidationReminders(s) ==
  LET page == OverduePage(s)
  IN  /\ job[s].kind = "liquidation"
      /\ TurnPage(s, [n \in DOMAIN page |-> SendLiquidationNudge(page[n], job[s].now)])

NextPage(s) == SweepSlaReminders(s) \/ SweepLiquidationReminders(s)

(* The transaction of any sender moves on.  A repeat nudge that              *)
(* _already_sent did not find adds a reminder event to the transaction; a    *)
(* transaction the unique index refuses is lost with its locks and events.   *)
Persist(s) ==
  LET asked == Head(tx[s].todo).key
      repeat == tx[s].pc = "look" /\ tx'[s].pc = "check"
                /\ job[s].kind = "sla" /\ asked[3] > 0
  IN  /\ AlreadySent(s) \/ FindExisting(s) \/ PersistNotification(s)
      /\ job' = [job EXCEPT ![s] = IF tx'[s].pc = "idle" THEN NoJob
                                   ELSE [@ EXCEPT !.events = IF repeat THEN @ \cup {asked} ELSE @]]
      /\ UNCHANGED <<today, step, advance, recorded, trail, sweep, nudges, up>>

(* An advance past its deadline is flipped to overdue, whether or not      *)
(* anyone could be told.                                                   *)
MarkOverdue(s) ==
  [a \in Advances |->
     IF /\ job[s].kind = "liquidation" /\ a \in HeldBy(s) /\ DueOn[a] < job[s].now
        /\ advance[a] \in {"open", "liquidation_started"}
     THEN "overdue" ELSE advance[a]]

(* The commit makes everything of the transaction visible at once.  An     *)
(* escalation task that wrote nothing retries.                             *)
Finish(s) ==
  /\ job[s].kind \in {"sla", "liquidation"} => job[s].last
  /\ Commit(s)
  /\ advance' = [a \in Advances |->
       IF job[s].kind = "desk" /\ a \in HeldBy(s) THEN "settled" ELSE MarkOverdue(s)[a]]
  /\ recorded' = IF job[s].kind = "desk" THEN recorded \cup {job[s].item} ELSE recorded
  /\ trail' = [k \in DedupKeys |-> IF k \in job[s].events THEN trail[k] + 1 ELSE trail[k]]
  /\ nudges' = IF job[s].kind = "task" /\ tx[s].pend = {}
               THEN TaskRetry(job[s].item, job[s].tries, nudges) ELSE nudges
  /\ job' = [job EXCEPT ![s] = NoJob]
  /\ UNCHANGED <<today, step, sweep, up>>

Drain(s) ==
  /\ DrainPendingEnqueues(s)
  /\ UNCHANGED clockVars

(* A task that dies unacknowledged is delivered again.                     *)
SenderDies(s) ==
  /\ CrashSender(s)
  /\ nudges' = IF job[s].kind = "task"
               THEN [nudges EXCEPT ![<<job[s].item, job[s].tries>>] = @ + 1] ELSE nudges
  /\ job' = [job EXCEPT ![s] = NoJob]
  /\ UNCHANGED <<today, step, advance, recorded, trail, sweep, up>>

-----------------------------------------------------------------------------
(* The rest of the system: decisions, recorded facts, days, dispatch *)

(* Mutant: the decision does not lock the row.                              *)
DecideUnlocked(x) ==
  /\ step[x].status = "active"
  /\ step' = [step EXCEPT ![x].status = "done"]
  /\ UNCHANGED <<outboxVars, today, advance, recorded, trail, sweep, nudges, job, up>>

(* A decision on the step: it waits for whoever holds the row.             *)
Decide(x) ==
  /\ step[x].status = "active" /\ x \notin Held
  /\ step' = [step EXCEPT ![x].status = "done"]
  /\ UNCHANGED <<outboxVars, today, advance, recorded, trail, sweep, nudges, job, up>>

StartLiquidation(a) ==
  /\ advance[a] = "open" /\ a \notin Held
  /\ advance' = [advance EXCEPT ![a] = "liquidation_started"]
  /\ UNCHANGED <<outboxVars, today, step, recorded, trail, sweep, nudges, job, up>>

(* Mutant: the fact is committed before its announcement.                   *)
RecordFactFirst(s, f) ==
  /\ Idles(s) /\ f \notin recorded
  /\ recorded' = recorded \cup {f}
  /\ Stage(s, Announce(f))
  /\ job' = [job EXCEPT ![s] = [NoJob EXCEPT !.kind = "desk", !.item = f]]
  /\ UNCHANGED <<today, step, advance, trail, sweep, nudges, up>>

(* A settlement (a fact that is an advance's), a payment or an FMS status   *)
(* is recorded with its announcement in one transaction.                    *)
RecordFact(s, f) ==
  LET advances == {a \in Advances : f = <<"settled", a>>}
  IN  /\ Idles(s) /\ f \notin recorded
      /\ \A r \in Senders : job[r].kind = "desk" => job[r].item # f
      /\ advances \cap Held = {}
      /\ \A a \in advances : advance[a] \in UnliquidatedStatuses \ {"open"}
      /\ Stage(s, Announce(f))
      /\ job' = [job EXCEPT ![s] = [NoJob EXCEPT !.kind = "desk", !.item = f,
                                                 !.hold = advances]]
      /\ UNCHANGED <<today, step, advance, recorded, trail, sweep, nudges, up>>

NextDay ==
  /\ today' \in Days /\ today < today' /\ \A d \in Days : d > today => today' <= d
  /\ UNCHANGED <<outboxVars, step, advance, recorded, trail, sweep, nudges, job, up>>

Dispatch(w) ==
  /\ w \in up
  /\ WorkerStep(w)
  /\ UNCHANGED clockVars

WorkerDies(w) ==
  /\ CrashWorker(w)
  /\ UNCHANGED clockVars

-----------------------------------------------------------------------------
Init ==
  /\ OutboxInit
  /\ \E start \in Starts :
       /\ today = start.today /\ up = start.up
       /\ step = [x \in Steps |-> [status |-> IF x \in start.active THEN "active" ELSE "done",
                                   level |-> 0]]
       /\ advance = [a \in Advances |-> IF a \in start.open THEN "open" ELSE "settled"]
  /\ trail = [k \in DedupKeys |-> 0] /\ recorded = {}
  /\ sweep = {}
  /\ nudges = [m \in Steps \X (0 .. MaxTaskRetries) |-> 0]
  /\ job = [s \in Senders |-> NoJob]

Next ==
  \/ NextDay \/ SweepDueSteps \/ SweepCommit \/ SweepCrash
  \/ \E s \in Notifiers : NotifyEscalation(s)
  \/ \E s \in Beats : (\E kind \in {"sla", "liquidation"} : StartBeat(s, kind)) \/ NextPage(s)
  \/ \E s \in Desks, f \in Facts : RecordFact(s, f)
  \/ \E s \in Senders : Persist(s) \/ Finish(s) \/ Drain(s) \/ SenderDies(s)
  \/ \E x \in Steps : Decide(x)
  \/ \E a \in Advances : StartLiquidation(a)
  \/ \E w \in Workers : Dispatch(w) \/ WorkerDies(w)

Spec == Init /\ [][Next]_vars

(* The SLA sweep and the ladder run on Celery's beat schedule, a worker is  *)
(* there to take messages, a running transaction goes on, and days pass;    *)
(* nothing is assumed of people.                                            *)
Fairness ==
  /\ WF_vars(NextDay) /\ WF_vars(SweepDueSteps \/ SweepCommit)
  /\ SF_vars(\E s \in Beats : StartBeat(s, "sla"))
  /\ \A s \in Senders : WF_vars(NextPage(s) \/ Persist(s) \/ Finish(s) \/ Drain(s))
  /\ WF_vars(\E w \in Workers : Dispatch(w))

FairSpec == Spec /\ Fairness

-----------------------------------------------------------------------------
(* Properties *)

Posted(k) == {i \in Ids : rows[i].status # "none" /\ rows[i].by = Committed /\ rows[i].key = k}
SlaKeys == {k \in DedupKeys : k[1] = "sla"}

(* The decision trail and the outbox agree: a repeat rung of the SLA ladder *)
(* has one reminder event and one notification, however many beats overlap, *)
(* die or are delivered twice (services/notify: "one event per (step, k)"). *)
TrailMatchesNudges ==
  \A k \in SlaKeys :
    /\ Cardinality(Posted(k)) <= 1
    /\ trail[k] = IF k[3] > 0 THEN Cardinality(Posted(k)) ELSE 0

(* No rung is reached early: an SLA nudge is for an escalated step that is  *)
(* k times the cadence overdue in working days, and an overdue warning for  *)
(* an advance past its deadline and no longer merely open.                  *)
RungsAreDue ==
  \A k \in DedupKeys : Posted(k) # {} =>
    CASE k[1] = "sla" -> step[k[2]].level = 1 /\ OverdueDays(k[2], today) >= k[3] * Repeat
      [] k[1] = "liquidation" ->
           /\ DueOn[k[2]] <= today + 7
           /\ k[3][1] = "overdue" => DueOn[k[2]] < today /\ advance[k[2]] \in {"overdue", "settled"}
      [] OTHER -> k[2] \in recorded

(* The ladder is honest: it climbs when a rung is due and counts every rung *)
(* it climbed (sweep_sla_reminders, sweep_liquidation_reminders).           *)
LadderIsHonest == TrailMatchesNudges /\ RungsAreDue

(* A fact is announced in the transaction that records it: not before, and  *)
(* never recorded in silence when its claimant can log in.                  *)
FactsAreAnnounced ==
  \A f \in Facts : ClaimantOf[f] # NoUser =>
    (f \in recorded <=> Posted(<<"fact", f>>) # {})

(* The ladder never chases a step that has been decided: a repeat nudge     *)
(* appears only while its step is active, because the sweep holds the row.  *)
RepeatsChaseOpenSteps ==
  [][\A k \in SlaKeys : k[3] > 0 /\ Posted(k) = {} /\ Posted(k)' # {}
       => step[k[2]].status = "active"]_vars

(* An overdue step does not go unnoticed: it is escalated, and as long as   *)
(* it stays undecided its holder is nudged, whichever of the escalation     *)
(* task, its retries and the ladder gets there.                             *)
OverdueIsNudged ==
  \A x \in Nudgeable :
    (step[x].status = "active" /\ DueOn[x] <= today)
      ~> (step[x].status = "done" \/ \E k \in SlaKeys : k[2] = x /\ Posted(k) # {})

(* A message on the broker is worked off while workers run: its             *)
(* notification does not stay "queued", however often they die, because the *)
(* message is acknowledged late.                                            *)
Enqueued(i) == \E t \in 0 .. MaxRetries : queue[<<i, t>>] > 0
EnqueuedIsSettled ==
  \A i \in Ids : (Enqueued(i) /\ Workers \cap up # {})
                    ~> (~Enqueued(i) /\ rows[i].status # "queued")
=============================================================================
