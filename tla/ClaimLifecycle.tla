---------------------------- MODULE ClaimLifecycle ----------------------------
(***************************************************************************)
(* Reimbursement and liquidation claims and the cash advances they settle  *)
(* (modules/reimbursement/services: lifecycle, external, settlement,       *)
(* liquidation, cash_advance), driven by concurrent HTTP requests.         *)
(*                                                                         *)
(* A request is one database transaction that ends in one COMMIT.  A route *)
(* whose service takes the row lock before reading anything is one atomic  *)
(* action.  A route that reads a row BEFORE the lock keeps that object in  *)
(* its ORM session: the locking SELECT waits for the lock but does not     *)
(* refresh an object already loaded, and the final flush writes only the   *)
(* attributes whose value differs from the loaded one.  Such a route is    *)
(* two actions, Begin (the unlocked read, kept in req) and Commit.         *)
(*                                                                         *)
(* A refused request rolls back: its Commit only ends the request.         *)
(***************************************************************************)
EXTENDS WorkflowRules, FiniteSetsExt

D == INSTANCE ReimbursementDefinitions

CONSTANTS
  ClaimIds,      \* ids reimb_claims may hand out, an initial segment of 1, 2, ...
  AdvanceIds,    \* ids reimb_cash_advances may hand out
  Owner,         \* the login of the one claimant
  Scoped,        \* the <<user, permission>> grants held on an org unit (not global)
  Proximity,     \* user -> distance of their unit, ties broken by user id
  Sessions,      \* requests that may be in flight between Begin and Commit
  PayoutRefs,    \* payment references FMS reports
  Dates,         \* return dates / deadlines, a set of naturals
  Idle, NoClaim, NoAdvance, NoRef, NoDate,   \* NULLs
  Situations     \* the situations examined, see Situation

(* A situation bounds a behaviour: the ids, references and dates in play,   *)
(* what is assumed of requests between Begin and Commit ("submit", "patch": *)
(* that route is never overtaken; "round": no payment or settlement request *)
(* outlives the filing round it was read in), and at most so many requests  *)
(* in flight, row versions of an instance, instances, reimbursements opened *)
(* outside a settlement, and updates relayed.                               *)
Situation ==
  [claims: SUBSET ClaimIds, advances: SUBSET AdvanceIds, inflight: Nat,
   refs: SUBSET PayoutRefs, dates: SUBSET Dates,
   isolated: SUBSET {"submit", "patch", "round"},
   versions: Nat, instances: Nat, standalone: Nat, journey: Nat]

Kinds == {"reimbursement", "liquidation"}

(* models.py ReimbClaim, ReimbCashAdvance: the columns the routes touch.    *)
ClaimRow ==
  [kind: Kinds, holder: Users \cup {NoUser, "fms"}, ref: Nat, inst: Nat,
   status: STRING, payout: PayoutRefs \cup {NoRef},
   money: {"none", "refund", "exact", "over_advance"}, adv: AdvanceIds \cup {0},
   src: ClaimIds \cup {0}, deadline: Dates \cup {NoDate}]
AdvanceRow ==
  [status: {"open", "liquidation_started", "overdue", "settled"},
   mode: {"none", "refund", "exact", "over_advance"}, deadline: Dates]

ASSUME LifecycleAssumption ==
  /\ Definitions = D!ReimbDefinitions
  /\ Scoped \subseteq Grants
  /\ Owner \in Users
  /\ ClaimIds \subseteq Nat \ {0} /\ AdvanceIds \subseteq Nat \ {0}
  /\ NoRef \notin PayoutRefs /\ NoClaim \notin ClaimRow /\ NoAdvance \notin AdvanceRow
  /\ Situations \subseteq Situation

VARIABLES
  claims,     \* claim id -> row, or NoClaim
  insts,      \* workflow instances in id order
  subjects,   \* instance id -> the claim it was started for
  counter,    \* kind -> last reference number issued (core_reference_counters)
  advances,   \* advance id -> row, or NoAdvance
  history,    \* claim id -> reimb_status_history rows <<from, to>>
  returns,    \* claim id -> reimb_return_events rows, [gate, target]
  journey,    \* claim id -> statuses of its reimb_external_events rows
  flag,       \* the module's feature flag
  req,        \* session -> what it read before its lock, or Idle
  scope       \* the situation examined

db == <<claims, insts, subjects, counter, advances, history, returns, journey>>
vars == <<claims, insts, subjects, counter, advances, history, returns, journey,
          flag, req, scope>>

Live(c) == claims[c] # NoClaim
InstOf(row) == insts[row.inst]

Init ==
  /\ claims = [c \in ClaimIds |-> NoClaim]
  /\ insts = <<>> /\ subjects = <<>>
  /\ counter = [k \in Kinds |-> 0]
  /\ advances = [a \in AdvanceIds |-> NoAdvance]
  /\ history = [c \in ClaimIds |-> <<>>]
  /\ returns = [c \in ClaimIds |-> <<>>]
  /\ journey = [c \in ClaimIds |-> <<>>]
  /\ flag = TRUE
  /\ req = [p \in Sessions |-> Idle]
  /\ scope \in Situations

-----------------------------------------------------------------------------
(* The ORM: an UPDATE writes the attributes the session changed relative to *)
(* what it had loaded, over whatever the row holds now.                     *)
Flush(row, loaded, new) ==
  [f \in DOMAIN row |-> IF new[f] # loaded[f] THEN new[f] ELSE row[f]]

NextId(ids, table, null) ==
  Min({n \in ids : table[n] = null})

HasFree(ids, table, null) == \E n \in ids : table[n] = null

(* Mutant: the nearest holder of the permission, the maker included.        *)
ResolveHolderAnyone(kind, s, originator) ==
  LET st   == Definitions[kind].states[s]
      near == {u \in Users : <<u, st.perm>> \in Scoped}
  IN  IF st.kind = "terminal" THEN {NoUser}
      ELSE IF s \in D!ClaimantStatuses THEN {Owner}
      ELSE IF s \in D!ExternalStatuses THEN {"fms"}
      ELSE {u \in near : \A w \in near : Proximity[u] <= Proximity[w]}

(* lifecycle.py resolve_holder: the set of holders it may return, which is  *)
(* empty when no one is eligible.  "fms" is the external office, NoUser the *)
(* holder of a terminal claim.                                              *)
ResolveHolder(kind, s, originator) ==
  LET st   == Definitions[kind].states[s]
      near == {u \in Users : /\ <<u, st.perm>> \in Scoped
                             /\ ~(st.segregate /\ u = originator)}
  IN  IF st.kind = "terminal" THEN {NoUser}
      ELSE IF s \in D!ClaimantStatuses THEN {Owner}
      ELSE IF s \in D!ExternalStatuses THEN {"fms"}
      ELSE {u \in near : \A w \in near : Proximity[u] <= Proximity[w]}

(* lifecycle.py create_draft_claim: the row at birth.                       *)
DraftRow(kind) ==
  [kind |-> kind, status |-> "draft", holder |-> Owner, ref |-> 0, inst |-> 0,
   payout |-> NoRef, money |-> "none", adv |-> 0, src |-> 0, deadline |-> NoDate]

NewClaim(c, row) ==
  /\ claims' = [claims EXCEPT ![c] = row]
  /\ history' = [history EXCEPT ![c] = <<<<"none", "draft">>>>]

(* compute_claim_totals: which way the claim's money comes out; a claim     *)
(* that nets no advance is simply owed its total.                           *)
Outcomes(row) == IF row.adv = 0 THEN {"over_advance"} ELSE {"refund", "exact", "over_advance"}

-----------------------------------------------------------------------------
(* lifecycle.py is_claim_owner, may_see_claim.                              *)
MaySee(u) ==
  \/ u = Owner
  \/ \E p \in {D!ReviewPerm, D!FmsPerm, D!ApprovePerm} : <<u, p>> \in Grants

ActionKey(c, i, u, action) == <<action, c, i.revision, i.current, u>>

KeyedEvent(i, key) == i.events[CHOOSE k \in DOMAIN i.events : i.events[k].key = key]

(* execute_action as claim_action calls it, on the instance the session     *)
(* sees: a used key returns the recorded event and changes nothing.         *)
Executed(i, u, action, key, comment) ==
  IF Replays(i, key)
  THEN {[inst |-> i, to |-> KeyedEvent(i, key).to]}
  ELSE IF Accepts({}, i, u, action, comment)
  THEN {[inst |-> j, to |-> j.current] : j \in ExecuteAction({}, i, u, action, key)}
  ELSE {}

(* Mutant: the holder moves on, the status column does not.                 *)
SyncHolderOnly(row, to, holder) == [row EXCEPT !.holder = holder]

(* lifecycle.py _sync_claim_from_event on the session's claim object.       *)
SyncClaim(row, to, holder) ==
  IF to = row.status THEN row ELSE [row EXCEPT !.status = to, !.holder = holder]

(* The engine's result r mirrored onto the claim, one outcome per holder;   *)
(* none when the new state has no eligible holder, which refuses the call.  *)
Mirrored(row, i, r, returned) ==
  {[row |-> SyncClaim(row, r.to, h), inst |-> r.inst, from |-> row.status, to |-> r.to,
    returned |-> returned]
   : h \in IF r.to = row.status THEN {row.holder}
           ELSE ResolveHolder(i.def, r.to, i.originator)}

(* The terminal approve of either chain wants its money recorded first      *)
(* (_assert_advance_settled, _assert_payout_recorded); mutants: not at all, *)
(* or at every gate.                                                        *)
MoneyUnasked(row, action, cleared) == TRUE
MoneyEverywhere(row, action, cleared) == action = "approve" => cleared
MoneyRecorded(row, action, cleared) ==
  (action = "approve" /\ row.status = "handed_to_fms") => cleared

(* Whether claim_action files a return event.                               *)
RecordsReturn(i, action, key) == action = "return" /\ ~Replays(i, key)

(* lifecycle.py claim_action on the session's claim object row and the      *)
(* instance i, which is read under the claim's lock; cleared says whether   *)
(* the money of a claim at FMS is recorded.  The result is the set of       *)
(* outcomes, empty when the call is refused.                                *)
ClaimAction(c, row, i, u, action, comment, cleared) ==
  IF \/ ~MaySee(u)
     \/ row.inst = 0
     \/ action \in {"resubmit", "cancel"} /\ u # Owner /\ <<u, D!ReviewPerm>> \notin Grants
     \/ ~MoneyRecorded(row, action, cleared)
  THEN {}
  ELSE LET key == ActionKey(c, i, u, action)
       IN  UNION {Mirrored(row, i, r, RecordsReturn(i, action, key))
                  : r \in Executed(i, u, action, key, comment)}

(* The history row of a move.                                               *)
Moved(c, from, to) ==
  IF from = to THEN history ELSE [history EXCEPT ![c] = Append(@, <<from, to>>)]

(* The return event of an outcome: the gate it bounced from and to whom.    *)
ReturnEvents(o) ==
  IF ~o.returned THEN <<>>
  ELSE <<[gate |-> o.from, target |-> IF o.to = "returned" THEN "claimant" ELSE "previous_step"]>>

(* Writes the outcome o of an action of claim c, given the claim object the *)
(* session had loaded.                                                      *)
Write(c, loaded, o) ==
  /\ claims' = [claims EXCEPT ![c] = Flush(@, loaded, o.row)]
  /\ insts' = [insts EXCEPT ![loaded.inst] = o.inst]
  /\ history' = Moved(c, o.from, o.to)
  /\ returns' = [returns EXCEPT ![c] = @ \o ReturnEvents(o)]

Bounded(k) == insts[k].version < scope.versions

-----------------------------------------------------------------------------
(* Requests in flight.                                                      *)
Begin(p, record) ==
  /\ req[p] = Idle
  /\ Cardinality({q \in Sessions : req[q] # Idle}) < scope.inflight
  /\ req' = [req EXCEPT ![p] = record]
  /\ UNCHANGED <<db, flag>>

(* What claim c's request may rely on at its lock: nothing, unless its      *)
(* route is assumed isolated.                                               *)
NotOvertaken(r) == r.op \in scope.isolated => claims[r.claim] = r.row

End(p) == req' = [req EXCEPT ![p] = Idle] /\ UNCHANGED flag

SetFlag == flag' = ~flag /\ UNCHANGED <<db, req>>

-----------------------------------------------------------------------------
(* Drafts.  The wizard's routes are on the router gated by the flag.        *)
CreateDraft ==
  /\ flag
  /\ HasFree(scope.claims, claims, NoClaim)
  /\ Cardinality({c \in ClaimIds : Live(c) /\ claims[c].adv = 0}) < scope.standalone
  /\ NewClaim(NextId(scope.claims, claims, NoClaim), DraftRow("reimbursement"))
  /\ UNCHANGED <<insts, subjects, counter, advances, returns, journey, flag, req>>

(* lifecycle.py cancel_draft_claim: owner only, reads under the lock.       *)
CancelDraft(c) ==
  /\ flag /\ Live(c)
  /\ claims[c].inst = 0 /\ claims[c].status # "cancelled"
  /\ claims' = [claims EXCEPT ![c].status = "cancelled", ![c].holder = NoUser]
  /\ history' = Moved(c, claims[c].status, "cancelled")
  /\ UNCHANGED <<insts, subjects, counter, advances, returns, journey, flag, req>>

(* api/claims.py submit_claim: get_claim, then the lock.                    *)
BeginSubmit(p, u, c) ==
  /\ flag /\ Live(c)
  /\ Begin(p, [op |-> IF claims[c].status = "returned" THEN "resubmit" ELSE "submit",
               claim |-> c, row |-> claims[c], user |-> u])

(* The chain a kind is filed on (workflow.py definition_code).              *)
ChainOf(kind) == kind

(* submit_claim's refusals.                                                 *)
MayFile(u, loaded) == u = Owner /\ loaded.inst = 0 /\ loaded.status # "cancelled"

(* reference_numbers.py allocate_reference_number, for a claim without one; *)
(* mutant: the number returned is the one before the increment.             *)
AllocateStale(loaded) ==
  LET n == counter[loaded.kind]
  IN  [ref |-> n, last |-> n + 1]
Allocate(loaded) ==
  LET n == counter[loaded.kind] + 1
  IN  IF loaded.ref = 0 THEN [ref |-> n, last |-> n]
      ELSE [ref |-> loaded.ref, last |-> n - 1]

(* lifecycle.py submit_claim on the object the route loaded.                *)
FirstSubmit(u, c, loaded, money) ==
  LET k    == Len(insts) + 1
      i    == StartInstance(ChainOf(loaded.kind), Owner, NoAmount)
      n    == Allocate(loaded)
      row  == [loaded EXCEPT !.money = money, !.inst = k, !.ref = n.ref]
      outs == UNION {Mirrored(row, i, r, FALSE)
                     : r \in Executed(i, u, "submit", <<"submit", c, 1>>, FALSE)}
  IN  /\ flag /\ k <= scope.instances
      /\ MayFile(u, loaded)
      /\ ~(loaded.kind = "reimbursement" /\ loaded.adv # 0 /\ money = "refund")
      /\ \E o \in outs :
           /\ claims' = [claims EXCEPT ![c] = Flush(@, loaded, o.row)]
           /\ insts' = Append(insts, o.inst)
           /\ subjects' = Append(subjects, c)
           /\ counter' = [counter EXCEPT ![loaded.kind] = n.last]
           /\ history' = Moved(c, o.from, o.to)
      /\ UNCHANGED <<advances, returns, journey>>

(* lifecycle.py claim_action("resubmit") on the object the route loaded.    *)
Resubmit(u, c, loaded, money) ==
  /\ Bounded(loaded.inst)
  /\ \E o \in ClaimAction(c, [loaded EXCEPT !.money = money], InstOf(loaded), u,
                          "resubmit", FALSE, FALSE) :
       Write(c, loaded, o)
  /\ UNCHANGED <<subjects, counter, advances, journey>>

(* A payment or settlement read in the claim's present round is in flight.  *)
(* Committed in a later round it would sign whichever gate the claim is at: *)
(* record_payout asks the status of the object the route loaded.            *)
MoneyInFlight(c) ==
  \E q \in Sessions : /\ req[q] # Idle /\ req[q].op \in {"mark_paid", "settle"}
                      /\ req[q].claim = c

CommitSubmit(p) ==
  LET r == req[p]
  IN  /\ r # Idle /\ r.op \in {"submit", "resubmit"} /\ NotOvertaken(r)
      /\ \E money \in Outcomes(r.row) :
           \/ /\ r.op = "resubmit"
              /\ "round" \in scope.isolated => ~MoneyInFlight(r.claim)
              /\ Resubmit(r.user, r.claim, r.row, money)
           \/ r.op = "submit" /\ FirstSubmit(r.user, r.claim, r.row, money)
      /\ End(p)

(* The request is refused, or its client goes away: the transaction rolls   *)
(* back.                                                                    *)
Abandon(p) ==
  /\ req[p] # Idle
  /\ End(p) /\ UNCHANGED db

-----------------------------------------------------------------------------
(* Decisions, on the router the flag does not gate; api/actions.py approve  *)
(* and return read nothing before the lock.                                 *)
AdvanceSettled(row) == row.adv # 0 /\ advances[row.adv].status = "settled"

Decide(u, c, action, comment) ==
  /\ Live(c) /\ claims[c].inst # 0
  /\ Bounded(claims[c].inst)
  /\ \E o \in ClaimAction(c, claims[c], InstOf(claims[c]), u, action, comment,
                          IF claims[c].kind = "liquidation"
                          THEN AdvanceSettled(claims[c]) ELSE claims[c].payout # NoRef) :
       Write(c, claims[c], o)
  /\ UNCHANGED <<subjects, counter, advances, journey, flag, req>>

(* api/actions.py mark_claim_paid: get_claim keeps the claim in the session *)
(* (the instance has_scoped_grant looks up is released when it returns);    *)
(* external.py record_payout then locks.                                    *)
BeginMarkPaid(p, u, c, ref) ==
  /\ Live(c) /\ claims[c].inst # 0
  /\ <<u, D!FmsPerm>> \in Grants
  /\ Begin(p, [op |-> "mark_paid", claim |-> c, row |-> claims[c], user |-> u,
               payout |-> ref])

CommitMarkPaid(p) ==
  LET r == req[p]
  IN  /\ r # Idle /\ r.op = "mark_paid" /\ NotOvertaken(r)
      /\ r.row.kind = "reimbursement"
      /\ r.row.payout = NoRef /\ r.row.status = "handed_to_fms"
      /\ Bounded(r.row.inst)
      /\ \E o \in ClaimAction(r.claim, [r.row EXCEPT !.payout = r.payout], InstOf(r.row),
                              r.user, "approve", FALSE, TRUE) :
           Write(r.claim, r.row, o)
      /\ journey' = [journey EXCEPT ![r.claim] = Append(@, "paid")]
      /\ End(p)
      /\ UNCHANGED <<subjects, counter, advances>>

(* external.py RELAY_STATUSES: any of them may follow any other.            *)
RelayStatuses == {"with_budget", "with_accounting", "payment_processing"}

(* api/external.py: what FMS says of a claim is appended to its journey.    *)
(* The claim is read without a lock and moves nothing, so the row may land  *)
(* after the claim has left FMS.                                            *)
BeginRelay(p, u, c, status) ==
  /\ Len(journey[c]) < scope.journey
  /\ flag /\ Live(c) /\ claims[c].inst # 0
  /\ <<u, D!FmsPerm>> \in Grants
  /\ claims[c].status = "handed_to_fms"
  /\ Begin(p, [op |-> "relay", claim |-> c, status |-> status])

CommitRelay(p) ==
  LET r == req[p]
  IN  /\ r # Idle /\ r.op = "relay"
      /\ journey' = [journey EXCEPT ![r.claim] = Append(@, r.status)]
      /\ End(p)
      /\ UNCHANGED <<claims, insts, subjects, counter, advances, history, returns>>

-----------------------------------------------------------------------------
(* Cash advances of the claimant.                                           *)
Unliquidated == {"open", "liquidation_started", "overdue"}

(* uq_reimb_cash_advances_open_per_claimant (PD 1445 section 89).           *)
SlotFree(a, table) ==
  \A b \in AdvanceIds \ {a} : table[b] # NoAdvance => table[b].status \notin Unliquidated

CreateAdvance(d) ==
  LET a == NextId(scope.advances, advances, NoAdvance)
  IN  /\ flag
      /\ HasFree(scope.advances, advances, NoAdvance)
      /\ SlotFree(a, advances)
      /\ advances' = [advances EXCEPT ![a] = [status |-> "open", mode |-> "none",
                                              deadline |-> d]]
      /\ UNCHANGED <<claims, insts, subjects, counter, history, returns, journey, flag, req>>

(* PATCH /cash-advances/{id}: read, check and edit without a lock; the      *)
(* UPDATE and remirror_deadline come at the end.                            *)
BeginPatch(p, a, d) ==
  /\ flag /\ advances[a] # NoAdvance
  /\ advances[a].status # "settled"
  /\ advances[a].deadline # d
  /\ Begin(p, [op |-> "patch", adv |-> a, row |-> advances[a], deadline |-> d])

Redated(row, d) ==
  [row EXCEPT !.deadline = d, !.status = IF @ = "overdue" THEN "open" ELSE @]

(* cash_advance.py remirror_deadline.                                       *)
Remirror(a, d) ==
  [c \in ClaimIds |->
     IF Live(c) /\ claims[c].adv = a /\ claims[c].kind = "liquidation"
     THEN [claims[c] EXCEPT !.deadline = d] ELSE claims[c]]

CommitPatch(p) ==
  LET r    == req[p]
      new  == [advances EXCEPT ![r.adv] = Flush(@, r.row, Redated(r.row, r.deadline))]
  IN  /\ r # Idle /\ r.op = "patch"
      /\ "patch" \in scope.isolated => advances[r.adv] = r.row
      /\ new[r.adv].status \in Unliquidated => SlotFree(r.adv, new)
      /\ advances' = new
      /\ claims' = Remirror(r.adv, r.deadline)
      /\ End(p)
      /\ UNCHANGED <<insts, subjects, counter, history, returns, journey>>

(* notify.py sweep_liquidation_reminders -> mark_overdue, under the row     *)
(* lock; which deadlines have passed is up to the calendar.                 *)
MarkOverdue(a) ==
  /\ advances[a] # NoAdvance /\ advances[a].status \in {"open", "liquidation_started"}
  /\ advances' = [advances EXCEPT ![a].status = "overdue"]
  /\ UNCHANGED <<claims, insts, subjects, counter, history, returns, journey, flag, req>>

(* liquidation.py start_liquidation: the advance is locked throughout.      *)
LiquidationOf(a) ==
  {c \in ClaimIds : /\ Live(c) /\ claims[c].kind = "liquidation" /\ claims[c].adv = a
                    /\ claims[c].status # "cancelled"}

(* Mutant: no look for a liquidation already there.                         *)
StartLiquidationAgain(a) ==
  /\ flag /\ advances[a] # NoAdvance /\ advances[a].status # "settled"
  /\ HasFree(scope.claims, claims, NoClaim)
  /\ NewClaim(NextId(scope.claims, claims, NoClaim),
              [DraftRow("liquidation") EXCEPT !.adv = a, !.deadline = advances[a].deadline])
  /\ advances' = [advances EXCEPT ![a].status = IF @ = "open" THEN "liquidation_started" ELSE @]
  /\ UNCHANGED <<insts, subjects, counter, returns, journey, flag, req>>

StartLiquidation(a) ==
  /\ flag /\ advances[a] # NoAdvance /\ advances[a].status # "settled"
  /\ LiquidationOf(a) = {}
  /\ HasFree(scope.claims, claims, NoClaim)
  /\ NewClaim(NextId(scope.claims, claims, NoClaim),
              [DraftRow("liquidation") EXCEPT !.adv = a, !.deadline = advances[a].deadline])
  /\ advances' = [advances EXCEPT ![a].status = IF @ = "open" THEN "liquidation_started" ELSE @]
  /\ UNCHANGED <<insts, subjects, counter, returns, journey, flag, req>>

(* api/actions.py settle_claim loads the claim; settlement.py               *)
(* record_settlement locks the advance (first read), then the claim.        *)
BeginSettle(p, u, c) ==
  /\ Live(c) /\ claims[c].kind = "liquidation"
  /\ <<u, D!ManagePerm>> \in Grants
  /\ Begin(p, [op |-> "settle", claim |-> c, row |-> claims[c], user |-> u])

CommitSettle(p) ==
  LET r == req[p]
      a == r.row.adv
  IN  /\ r # Idle /\ r.op = "settle" /\ NotOvertaken(r)
      /\ advances[a].status # "settled"
      /\ r.row.status = "handed_to_fms"
      /\ Bounded(r.row.inst)
      /\ advances' = [advances EXCEPT ![a].status = "settled", ![a].mode = r.row.money]
      /\ \E o \in ClaimAction(r.claim, r.row, InstOf(r.row), r.user, "approve", FALSE, TRUE) :
           Write(r.claim, r.row, o)
      /\ End(p)
      /\ UNCHANGED <<subjects, counter, journey>>

(* settlement.py spawn_reimbursement, under the liquidation's row lock.     *)
SpawnOf(c) == {s \in ClaimIds : Live(s) /\ claims[s].src = c /\ claims[s].status # "cancelled"}

SpawnReimbursement(c) ==
  /\ flag /\ Live(c) /\ claims[c].kind = "liquidation"
  /\ advances[claims[c].adv].mode = "over_advance"
  /\ SpawnOf(c) = {}
  /\ HasFree(scope.claims, claims, NoClaim)
  /\ NewClaim(NextId(scope.claims, claims, NoClaim),
              [DraftRow("reimbursement") EXCEPT !.adv = claims[c].adv, !.src = c,
                                                !.money = "over_advance"])
  /\ UNCHANGED <<insts, subjects, counter, advances, returns, journey, flag, req>>

Step ==
  \/ CreateDraft \/ SetFlag
  \/ \E c \in scope.claims : CancelDraft(c) \/ SpawnReimbursement(c)
  \/ \E p \in Sessions :
       \/ Abandon(p) \/ CommitSubmit(p) \/ CommitMarkPaid(p) \/ CommitPatch(p) \/ CommitSettle(p)
       \/ CommitRelay(p)
       \/ \E u \in Users, c \in scope.claims, s \in RelayStatuses : BeginRelay(p, u, c, s)
       \/ \E u \in Users, c \in scope.claims : BeginSubmit(p, u, c) \/ BeginSettle(p, u, c)
       \/ \E u \in Users, c \in scope.claims, ref \in scope.refs : BeginMarkPaid(p, u, c, ref)
       \/ \E a \in scope.advances, d \in scope.dates : BeginPatch(p, a, d)
  \/ \E u \in Users, c \in scope.claims, action \in {"approve", "return", "cancel"},
        comment \in BOOLEAN : Decide(u, c, action, comment)
  \/ \E d \in scope.dates : CreateAdvance(d)
  \/ \E a \in scope.advances : MarkOverdue(a) \/ StartLiquidation(a)

Next == Step /\ UNCHANGED scope

Spec == Init /\ [][Next]_vars

-----------------------------------------------------------------------------
(* Properties.                                                              *)
Filed == {c \in ClaimIds : Live(c) /\ claims[c].inst # 0}

(* The read model and the engine agree: a filed claim's status column names *)
(* the state its workflow instance is in (_sync_claim_from_event).          *)
StatusMirrorsEngine ==
  \A c \in Filed : claims[c].status = InstOf(claims[c]).current

(* Every workflow instance is the instance of the claim it was started for: *)
(* none is left running beside the one the claim points at.                 *)
OneInstancePerClaim ==
  \A k \in DOMAIN insts : claims[subjects[k]].inst = k

(* Reference numbers: the numbers issued per kind are exactly those on the  *)
(* claims of that kind, each on one claim; a submit burns one number.       *)
NumbersAccounted ==
  \A k \in Kinds :
    LET numbered == {c \in ClaimIds : Live(c) /\ claims[c].kind = k /\ claims[c].ref # 0}
    IN  /\ {claims[c].ref : c \in numbered} = 1 .. counter[k]
        /\ Cardinality(numbered) = counter[k]

(* actions.py claim_actions: the verbs offered to a user, which is all the  *)
(* client knows.  (The packet's own part in it is ClaimPacket's.)           *)
CanRelay(u, row) == row.status = "handed_to_fms" /\ <<u, D!FmsPerm>> \in Grants

CanSpawn(u, c) ==
  /\ claims[c].kind = "liquidation" /\ claims[c].status = "settled" /\ u = Owner
  /\ advances[claims[c].adv].mode = "over_advance"
  /\ SpawnOf(c) = {}

TerminalVerb(row, verb) ==
  IF verb = "approve" /\ row.status = "handed_to_fms"
  THEN IF row.kind = "liquidation" THEN "settle" ELSE "mark_paid"
  ELSE verb

ClaimActions(u, c) ==
  LET row == claims[c]
  IN  IF row.inst = 0
      THEN IF row.status = "draft" /\ u = Owner THEN {"submit", "cancel"} ELSE {}
      ELSE {TerminalVerb(row, v) : v \in AvailableActions({}, InstOf(row), u)}
             \cup (IF CanRelay(u, row) THEN {"relay_fms"} ELSE {})
             \cup (IF CanSpawn(u, c) THEN {"spawn"} ELSE {})

(* What the verb's route asks, the feature flag apart.                      *)
Honours(u, c, verb) ==
  LET row == claims[c]
      does(action, cleared) == ClaimAction(c, row, InstOf(row), u, action, TRUE, cleared) # {}
  IN  CASE row.inst = 0       -> MayFile(u, row)
        [] verb = "relay_fms" -> row.status = "handed_to_fms" /\ MaySee(u)
        [] verb = "spawn"     -> row.kind = "liquidation" /\ MaySee(u)
        [] verb = "mark_paid" -> <<u, D!FmsPerm>> \in Grants /\ row.payout = NoRef
                                   /\ does("approve", TRUE)
        [] verb = "settle"    -> <<u, D!ManagePerm>> \in Grants
                                   /\ advances[row.adv].status # "settled"
                                   /\ does("approve", TRUE)
        [] OTHER              -> does(verb, FALSE)

(* The actions claim c's state has edges for.                               *)
Edges(i) == {t.action : t \in {t \in TransitionsOf(i.def) : t.from = i.current}}

(* The holder is somebody who can act: the person a claim waits on may take *)
(* its forward step, or some step where there is none (resolve_holder       *)
(* agrees with the engine's own authorization and segregation).             *)
HolderCanAct ==
  \A c \in Filed : claims[c].holder \in Users =>
    LET i       == InstOf(claims[c])
        offered == AvailableActions({}, i, claims[c].holder)
    IN  offered # {} /\ ("approve" \in Edges(i) => "approve" \in offered)

(* No request is in flight.  A property of the tables alone need only be    *)
(* asked then: Abandon leads from any state to such a one and keeps them.   *)
AtRest == \A p \in Sessions : req[p] = Idle

(* No button is certain to fail: every verb claim_actions offers anybody is *)
(* one its route accepts from them, and the claim's holder is offered the   *)
(* step the claim waits for.                                                *)
OffersAreHonoured == AtRest =>
  /\ HolderCanAct
  /\ \A c \in ClaimIds : Live(c) =>
       \A u \in Users : \A verb \in ClaimActions(u, c) : Honours(u, c, verb)

(* In-flight always finishes, through the routes the flag does not gate and *)
(* whatever was recorded before: each decision a gate has can be made by    *)
(* somebody, and the money a claim at FMS waits for is still to be recorded *)
(* (otherwise mark-paid and settle refuse it for ever).  The packet's own   *)
(* gate is ClaimPacket's OnlyFilesBlock.                                   *)
InFlightCanFinish == AtRest =>
  \A c \in Filed :
    LET row == claims[c]
        i   == InstOf(row)
    IN  /\ \A action \in Edges(i) \cap {"approve", "return"} :
             \E u \in Users :
               ClaimAction(c, row, i, u, action, TRUE, row.status = "handed_to_fms") # {}
        /\ row.status = "handed_to_fms" =>
             IF row.kind = "liquidation" THEN advances[row.adv].status # "settled"
             ELSE row.payout = NoRef

(* A claim is closed as paid exactly when a payout reference is on it, and  *)
(* the FMS chronology then holds exactly one paid row (record_payout).      *)
PaidIffPayout ==
  \A c \in ClaimIds : Live(c) =>
    /\ claims[c].status = "paid_closed" <=> claims[c].payout # NoRef
    /\ Cardinality({k \in DOMAIN journey[c] : journey[c][k] = "paid"})
         = (IF claims[c].status = "paid_closed" THEN 1 ELSE 0)

(* Money before the terminal state: a liquidation is settled exactly when   *)
(* its advance is, with the outcome the claim computed; a settled advance   *)
(* has such a liquidation (record_settlement).                              *)
SettledTogether ==
  /\ \A c \in ClaimIds : (Live(c) /\ claims[c].status = "settled") =>
       /\ advances[claims[c].adv].status = "settled"
       /\ advances[claims[c].adv].mode = claims[c].money
  /\ \A a \in AdvanceIds : (advances[a] # NoAdvance /\ advances[a].status = "settled") =>
       \E c \in LiquidationOf(a) : claims[c].status = "settled"

(* One answer per question: an advance has at most one live liquidation and *)
(* a liquidation at most one live spawn, drawn on an advance that was       *)
(* settled as over-advance (by a liquidation of it: spawn_reimbursement     *)
(* asks the advance, not whether its own source is the one that settled     *)
(* it).  The row locks alone give this, without the unique indexes.         *)
OneAnswer ==
  /\ \A a \in AdvanceIds : Cardinality(LiquidationOf(a)) <= 1
  /\ \A c \in ClaimIds :
       /\ Cardinality(SpawnOf(c)) <= 1
       /\ SpawnOf(c) # {} => /\ advances[claims[c].adv].status = "settled"
                             /\ advances[claims[c].adv].mode = "over_advance"

(* No money without signatures: a paid or settled claim passed both         *)
(* segregated gates of its chain in its current revision, each signed by    *)
(* somebody other than the claimant.                                        *)
SignaturesBehindMoney ==
  \A c \in Filed : claims[c].status \in {"paid_closed", "settled"} =>
    LET i == InstOf(claims[c])
    IN  \A s \in StatesOf(i.def) : StateOf(i.def, s).segregate =>
          \E st \in i.steps : /\ st.state = s /\ st.rev = i.revision
                              /\ st.status = "done" /\ st.actor # Owner

(* The status history reads as one path: each row leaves the status the     *)
(* previous one entered, and the last one entered the current status.       *)
HistoryChains ==
  \A c \in ClaimIds : Live(c) =>
    /\ \A k \in 2 .. Len(history[c]) : history[c][k][1] = history[c][k - 1][2]
    /\ history[c][Len(history[c])][2] = claims[c].status

(* A closed claim is never reopened, whether cancelled before or after it   *)
(* was filed, paid or settled: no history row follows.                      *)
ClosedIsFinal ==
  \A c \in ClaimIds : \A k \in DOMAIN history[c] :
    history[c][k][2] \in D!TerminalStatuses => k = Len(history[c])

(* The learning loop misses no return and counts none twice: the return     *)
(* events of a claim are the return actions of its instances.               *)
ReturnsOf(i) == {e \in DOMAIN i.events : i.events[e].action = "return"}
ReturnActions(c) ==
  UNION {{k} \X ReturnsOf(insts[k]) : k \in {n \in DOMAIN insts : subjects[n] = c}}
ReturnsRecorded ==
  \A c \in ClaimIds : Len(returns[c]) = Cardinality(ReturnActions(c))

(* api/tracking.py claim_timeline: the history rows that enter a returned   *)
(* status, by id; the n-th of them is paired with the n-th return event, or *)
(* none at all when there are not as many of the one as of the other.       *)
ReturnRows(c) ==
  {h \in DOMAIN history[c] : history[c][h][2] \in {"returned", "fms_returned"}}
Ordinal(c, h) == Cardinality({g \in ReturnRows(c) : g <= h})
Paired(c) ==
  IF Cardinality(ReturnRows(c)) # Len(returns[c]) THEN <<>>
  ELSE [h \in ReturnRows(c) |-> returns[c][Ordinal(c, h)]]

(* The tracker shows the reasons of every return, each on the return that   *)
(* gave them: the pairing by position is total, and pairs a return with its *)
(* own gate and target (claim_timeline).                                    *)
ReturnsExplained ==
  \A c \in ClaimIds :
    /\ DOMAIN Paired(c) = ReturnRows(c)
    /\ \A h \in ReturnRows(c) :
         /\ Paired(c)[h].gate = history[c][h][1]
         /\ Paired(c)[h].target = "claimant" <=> history[c][h][2] = "returned"

(* The mirrored deadline is the advance's, through every re-dating          *)
(* (remirror_deadline).                                                     *)
DeadlineMirrored ==
  \A c \in ClaimIds : (Live(c) /\ claims[c].kind = "liquidation") =>
    claims[c].deadline = advances[claims[c].adv].deadline

(* The claim's own records retell what the engine did: its status column,   *)
(* its status history and its return events (_sync_claim_from_event), and   *)
(* the tracker reads them back right (claim_timeline).                      *)
RecordsMirrorEngine ==
  /\ StatusMirrorsEngine /\ HistoryChains /\ ClosedIsFinal
  /\ ReturnsRecorded /\ ReturnsExplained

(* A draft is filed once: one instance and one number, however its submits  *)
(* and cancellations interleave (submit_claim).                             *)
FiledOnce == OneInstancePerClaim /\ NumbersAccounted

(* Closing and money go together on both chains: paid with its payout, or   *)
(* settled with its advance (record_payout, record_settlement).             *)
ClosedWithMoney == PaidIffPayout /\ SettledTogether

(* The live claims around an advance are its one liquidation, under its     *)
(* deadline, and the one reimbursement due from it (start_liquidation,      *)
(* spawn_reimbursement, remirror_deadline).                                 *)
AdvanceAnswered == OneAnswer /\ DeadlineMirrored
=============================================================================
