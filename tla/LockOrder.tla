------------------------------ MODULE LockOrder ------------------------------
(***************************************************************************)
(* The row locks the reimbursement transactions take around one liquidation*)
(* claim, its workflow rows and its cash advance, and the audit chain's    *)
(* advisory lock, which every transaction takes at its first audited flush *)
(* and keeps until it ends (core/audit.py _write_audit_rows).  A route is  *)
(* its sequence of lock requests, in program order; what it reads and      *)
(* writes is in ClaimLifecycle.                                            *)
(*                                                                         *)
(* Locks: "advance", "claim", "instance", "gate" (the steps of an office   *)
(* gate, which carry an SLA stamp), "fms_gate" (those of handed_to_fms,    *)
(* which _stamp_sla leaves unstamped, so no sweep selects them), "counter" *)
(* (the reference sequence), "attachment" (a file of the claim) and        *)
(* "audit".  Modes are PostgreSQL's row-lock modes; UPDATE takes no_key, a *)
(* foreign-key check takes key_share, SELECT FOR UPDATE and the advisory   *)
(* lock take update.                                                       *)
(***************************************************************************)
EXTENDS Naturals, Sequences, FiniteSets

CONSTANTS
  Txns,      \* transactions that may be open at once
  Routes,    \* the routes they may serve
  NoRoute    \* the transaction is not open

For(lock) == [lock |-> lock, mode |-> "update", skip |-> FALSE]
Updates(lock) == [lock |-> lock, mode |-> "no_key", skip |-> FALSE]
Refers(lock) == [lock |-> lock, mode |-> "key_share", skip |-> FALSE]
SkipLocked(lock) == [lock |-> lock, mode |-> "update", skip |-> TRUE]

-----------------------------------------------------------------------------
(* claim_action("approve" | "return"): _locked_claim, execute_action's      *)
(* instance and gate rows, then the first flush; at an office gate and at   *)
(* FMS.                                                                     *)
DecideScript == <<For("claim"), For("instance"), For("gate"), For("audit")>>
FmsReturnScript == <<For("claim"), For("instance"), For("fms_gate"), For("audit")>>

(* record_payout: the payout flushes, then approve, then start_retention    *)
(* stamps the claim's files.                                                *)
MarkPaidScript ==
  <<For("claim"), For("audit"), For("instance"), For("fms_gate"), Updates("attachment")>>

(* submit_claim: _locked_claim, compute_claim_totals flushes, and the       *)
(* reference counter comes after the new instance's insert.                 *)
SubmitScript == <<For("claim"), For("audit"), For("counter")>>

(* claim_action("resubmit"): totals are flushed before the engine locks.    *)
ResubmitScript == <<For("claim"), For("audit"), For("instance")>>

(* cancel_draft_claim, and every edit of a draft (owned_editable_claim).    *)
EditScript == <<For("claim"), For("audit")>>

(* record_external_event: the insert's foreign key, then the flush's audit. *)
RelayScript == <<Refers("claim"), For("audit")>>

(* start_liquidation: the advance, then create_draft_claim flushes; mutant: *)
(* the draft first.                                                         *)
LiquidateDraftFirst == <<For("audit"), For("advance")>>
LiquidateScript == <<For("advance"), For("audit")>>

(* record_settlement: advance, claim, mark_settled flushes, then approve,   *)
(* then start_retention.                                                    *)
SettleScript ==
  <<For("advance"), For("claim"), For("audit"), For("instance"), For("fms_gate"),
    Updates("attachment")>>

(* sweep_liquidation_reminders.                                             *)
OverdueScript == <<SkipLocked("advance"), For("audit")>>

(* spawn_reimbursement: the source claim, create_draft_claim flushes, then  *)
(* the flush that sets cash_advance_id on the new claim checks its foreign  *)
(* key against the advance.                                                 *)
SpawnScript == <<For("claim"), For("audit"), Refers("advance")>>

(* PATCH /cash-advances: update_cash_advance flushes the UPDATE, then       *)
(* remirror_deadline updates the linked liquidation.                        *)
PatchScript == <<Updates("advance"), For("audit"), Updates("claim")>>

(* The document worker, generate_claim_documents, on a claim whose items    *)
(* exist: upload_attachment flushes, then the join row refers to the claim. *)
GenerateScript == <<For("audit"), Refers("claim")>>

(* sweep_due_steps locks an overdue step and inserts its escalation event,  *)
(* which refers to the instance; sweep_sla_reminders flushes the nudge      *)
(* before its reminder event.                                               *)
EscalateScript == <<SkipLocked("gate"), Refers("instance"), For("audit")>>
RemindScript == <<SkipLocked("gate"), For("audit"), Refers("instance")>>

(* process_attachment.                                                      *)
ScanScript == <<Updates("attachment"), For("audit")>>

Script ==
  [decide    |-> DecideScript,    fms_return |-> FmsReturnScript,
   mark_paid |-> MarkPaidScript,  submit     |-> SubmitScript,
   resubmit  |-> ResubmitScript,  edit       |-> EditScript,
   relay     |-> RelayScript,     liquidate  |-> LiquidateScript,
   settle    |-> SettleScript,    overdue    |-> OverdueScript,
   spawn     |-> SpawnScript,     patch      |-> PatchScript,
   generate  |-> GenerateScript,  escalate   |-> EscalateScript,
   remind    |-> RemindScript,    scan       |-> ScanScript]

(* The routes whose requests agree with one order of the locks.             *)
OrderlyRoutes ==
  {"decide", "fms_return", "mark_paid", "submit", "resubmit", "edit", "relay",
   "liquidate", "settle", "overdue"}

ASSUME RoutesAssumption == Routes \subseteq DOMAIN Script /\ NoRoute \notin Routes

-----------------------------------------------------------------------------
VARIABLES
  route,   \* transaction -> the route it serves, or NoRoute
  pc,      \* transaction -> lock requests completed
  held     \* transaction -> the lock requests granted to it

vars == <<route, pc, held>>

Init ==
  /\ route = [t \in Txns |-> NoRoute]
  /\ pc = [t \in Txns |-> 0]
  /\ held = [t \in Txns |-> {}]

(* PostgreSQL's conflict table for the modes used here.                     *)
Conflicts(m, n) ==
  \/ "update" \in {m, n}
  \/ m = "no_key" /\ n = "no_key"

Wants(t) == Script[route[t]][pc[t] + 1]

Requesting(t) == route[t] # NoRoute /\ pc[t] < Len(Script[route[t]])

(* u stands in the way of t's next request.                                 *)
BlockedBy(t, u) ==
  /\ u # t
  /\ \E l \in held[u] : l.lock = Wants(t).lock /\ Conflicts(l.mode, Wants(t).mode)

Free(t) == \A u \in Txns : ~BlockedBy(t, u)

Begin(t, r) ==
  /\ route[t] = NoRoute
  /\ route' = [route EXCEPT ![t] = r]
  /\ UNCHANGED <<pc, held>>

Acquire(t) ==
  /\ Requesting(t)
  /\ Free(t)
  /\ held' = [held EXCEPT ![t] = @ \cup {Wants(t)}]
  /\ pc' = [pc EXCEPT ![t] = @ + 1]
  /\ UNCHANGED route

(* FOR UPDATE SKIP LOCKED passes over a row somebody else has locked; the  *)
(* sweep then has nothing to write and nothing more to lock.                *)
Skip(t) ==
  /\ Requesting(t)
  /\ Wants(t).skip /\ ~Free(t)
  /\ pc' = [pc EXCEPT ![t] = Len(Script[route[t]])]
  /\ UNCHANGED <<route, held>>

(* Mutant: a retry loop that runs the transaction again after its COMMIT.   *)
FinishRetrying(t) ==
  /\ route[t] # NoRoute
  /\ pc[t] = Len(Script[route[t]])
  /\ pc' = [pc EXCEPT ![t] = 0]
  /\ held' = [held EXCEPT ![t] = {}]
  /\ UNCHANGED route

(* COMMIT, or the ROLLBACK of a refusal, releases everything.               *)
Finish(t) ==
  /\ route[t] # NoRoute
  /\ pc[t] = Len(Script[route[t]])
  /\ route' = [route EXCEPT ![t] = NoRoute]
  /\ pc' = [pc EXCEPT ![t] = 0]
  /\ held' = [held EXCEPT ![t] = {}]

Next ==
  \E t \in Txns :
    \/ \E r \in Routes : Begin(t, r)
    \/ Acquire(t) \/ Skip(t) \/ Finish(t)

Spec == Init /\ [][Next]_vars

(* A transaction that can run does, and PostgreSQL grants a lock to its     *)
(* waiters in the order they queued, so a request that is grantable again   *)
(* and again is granted.                                                    *)
FairSpec ==
  /\ Spec
  /\ \A t \in Txns : SF_vars(Acquire(t)) /\ WF_vars(Skip(t)) /\ WF_vars(Finish(t))

-----------------------------------------------------------------------------
(* Waiting on one another: every member of the group is stopped by another  *)
(* member.                                                                  *)
Stuck(group) ==
  \A t \in group : /\ Requesting(t) /\ ~Wants(t).skip
                   /\ \E u \in group : BlockedBy(t, u)

(* The lock order is consistent: no group of requests waits on itself, so   *)
(* PostgreSQL never has to break a deadlock by killing one (_locked_claim,  *)
(* record_settlement).                                                      *)
NoDeadlock == \A group \in SUBSET Txns : group # {} => ~Stuck(group)

(* Two transactions never hold one row in conflicting modes, and only the   *)
(* holder of the claim's lock works on its workflow instance.               *)
LocksExclude ==
  /\ \A t, u \in Txns : \A l \in held[t], m \in held[u] :
       (t # u /\ l.lock = m.lock) => ~Conflicts(l.mode, m.mode)
  /\ \A t \in Txns : For("instance") \in held[t] => For("claim") \in held[t]

(* Every request ends.                                                      *)
EveryRequestEnds == \A t \in Txns : route[t] # NoRoute ~> route[t] = NoRoute
=============================================================================
