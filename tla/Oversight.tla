------------------------------- MODULE Oversight -------------------------------
(***************************************************************************)
(* Who sees which claim: the read gate of one claim (api/deps.py,           *)
(* services/lifecycle.py may_see_claim), the oversight queue, the pipeline  *)
(* board and the insights built on one scope query (services/queue.py,      *)
(* services/insights.py), My Work, and the travel calendar, while claims    *)
(* move, grants start and lapse and the directory is re-imported.           *)
(*                                                                          *)
(* A list resolves an actor's grants DOWN the unit tree and selects on the  *)
(* unit; the gate walks UP from one claim's unit.  Reads change nothing, so *)
(* they are operators over a state; the properties compare them.            *)
(***************************************************************************)
EXTENDS Directory, Workdays

CONSTANTS
  Users, StaffOf,      \* logins; login -> the employee it is linked to, or NoRow
  ClaimIds,            \* claims, an initial segment of 1, 2, ...
  KindOf, AmountOf,    \* claim -> kind, grand total
  TripOf,              \* claim -> [depart, return] days
  ClaimantOf,          \* claim -> employee who travels
  NoUser, NoDay,       \* NULLs
  NoPerm, NoAmount,
  Worlds,              \* starting worlds and what may happen in each
  FollowupDays, DoneWindow, InsightsWindow,   \* effective configuration, in days
  ScanCap, CardLimit, ListCap, SourceCap,     \* page bounds
  MaxReturns, MaxNow   \* bounds: returns of a claim, the last day

D == INSTANCE ReimbursementDefinitions
Chains == D!ReimbDefinitions

VARIABLES
  world,     \* the world this behaviour runs in
  grants,    \* live core_user_roles rows [user, role, unit, from, until]
  active,    \* logins with is_active
  claims,    \* claim -> row, or NoRow
  returns,   \* reimb_return_events, a set of [claim, n, at, reasons]
  now        \* the day

vars == <<directory, world, grants, active, claims, returns, now>>
people == <<units, staff, importing, grants, active, world>>

Init ==
  /\ world \in Worlds
  /\ units = world.units /\ staff = world.staff
  /\ importing = [p \in Importers |-> Idle]
  /\ grants = world.granted /\ active = Users
  /\ claims = [c \in ClaimIds |-> NoRow]
  /\ returns = {}
  /\ now = 0

-----------------------------------------------------------------------------
(* The first k of a set in an order; what ORDER BY ... LIMIT k returns.     *)
First(k, S, before(_, _)) == {c \in S : Cardinality({d \in S : before(d, c)}) < k}

Filed == {c \in ClaimIds : claims[c] # NoRow /\ claims[c].unit # NoUnit}
Drafted == {c \in ClaimIds : claims[c] # NoRow}
Terminal(c) == claims[c].status \in D!TerminalStatuses

(* holder_since ASC NULLS LAST, id.                                         *)
LongerWaiting(c, d) ==
  LET since(x) == IF claims[x].since = NoDay THEN MaxNow + 1 ELSE claims[x].since
  IN  since(c) < since(d) \/ (since(c) = since(d) /\ c < d)

(* api/deps.py claim_org_unit: the instance's unit, else the claimant's,    *)
(* whose row counts even once soft-deleted (_display_staff).                *)
PlacedAt(e) == IF staff[e].section # NoUnit THEN staff[e].section ELSE staff[e].division

ClaimOrgUnit(c) ==
  IF claims[c].unit # NoUnit THEN claims[c].unit ELSE PlacedAt(ClaimantOf[c])

OversightPerms == {"reimb.claim.review", "reimb.claim.fms_update", "reimb.claim.approve"}

ScopedReadPerms == {"reimb.claim.approve", "reimb.claim.review", "reimb.claim.fms_update"}

HasScopedGrant(u, c, perms) ==
  /\ ClaimOrgUnit(c) # NoUnit
  /\ \E perm \in perms : AuthorizeScoped(units, grants, u, perm, ClaimOrgUnit(c), now)

IsClaimOwner(u, c) == StaffOf[u] = ClaimantOf[c]

CanReadClaim(u, c) == IsClaimOwner(u, c) \/ HasScopedGrant(u, c, ScopedReadPerms)

(* lifecycle.py may_see_claim: the service's own copy of the rule.  Its     *)
(* session.get finds no soft-deleted claimant.                              *)
MaySeeClaim(u, c) ==
  LET unit == IF claims[c].unit # NoUnit THEN claims[c].unit
              ELSE IF staff[ClaimantOf[c]].live THEN PlacedAt(ClaimantOf[c]) ELSE NoUnit
  IN  \/ IsClaimOwner(u, c)
      \/ /\ unit # NoUnit
         /\ \E perm \in OversightPerms : AuthorizeScoped(units, grants, u, perm, unit, now)

-----------------------------------------------------------------------------
(* services/queue.py.                                                       *)
OversightScope(u) ==
  LET granted == UNION {ScopedOrgUnits(grants, u, perm, now) : perm \in OversightPerms}
  IN  [global |-> NoUnit \in granted,
       units  |-> IF NoUnit \in granted THEN {} ELSE DescendantsOrSelf(units, granted)]

ScopeClause(scope, c) == scope.global \/ claims[c].unit \in scope.units

BaseQuery(u, includeTerminal) ==
  LET scope == OversightScope(u)
  IN  {c \in Filed : (includeTerminal \/ ~Terminal(c)) /\ ScopeClause(scope, c)}

DaysWithFms(c) ==
  LET d == WorkingDaysBetween(claims[c].since, now, {})
  IN  IF d > 0 THEN d ELSE 0

HeldByFms(c) == claims[c].holderKind = "external_fms"

(* GET /claims: the plain page, and the external_over list, which filters   *)
(* the rows of a capped scan.  The scan orders by holder_since alone, so    *)
(* any choice among equals may come back.  Mutant: it starts at the newest. *)
WaitedAtLeast(c, d) == claims[c].since <= claims[d].since

Cuts(S, k, before(_, _)) ==
  {T \in SUBSET S : /\ Cardinality(T) = IF Cardinality(S) < k THEN Cardinality(S) ELSE k
                    /\ \A c \in T, d \in S \ T : before(c, d)}

ScansNewestFirst(S) == Cuts(S, ScanCap, LAMBDA c, d : WaitedAtLeast(d, c))
Scans(S) == Cuts(S, ScanCap, WaitedAtLeast)

ListClaims(u) == First(ListCap, BaseQuery(u, FALSE), LongerWaiting)

ListStalled(u) ==
  {{c \in scan : DaysWithFms(c) > FollowupDays} :
     scan \in Scans({c \in BaseQuery(u, FALSE) : HeldByFms(c)})}

-----------------------------------------------------------------------------
(* The pipeline board.  services/status.py: the column of a state, per kind *)
(* and, for the SQL that spans both kinds, per column.                      *)
Columns == {"in_bureau", "with_fms", "done"}

BoardColumn(kind, status) ==
  CASE status \in {"draft", "cancelled"}                             -> "off"
    [] status = "handed_to_fms"                                      -> "with_fms"
    [] kind = "reimbursement" /\ status = "paid_closed"              -> "done"
    [] kind = "liquidation" /\ status = "settled"                    -> "done"
    [] OTHER                                                         -> "in_bureau"

BoardColumnStates ==
  [column \in Columns |->
     UNION {{s \in DOMAIN Chains[k].states : BoardColumn(k, s) = column} : k \in DOMAIN Chains}]

(* _assert_board_columns, which runs at import.                             *)
BoardColumnsDisjoint ==
  \A k, l \in Columns : k # l => BoardColumnStates[k] \cap BoardColumnStates[l] = {}
ASSUME BoardAssumption == BoardColumnsDisjoint

(* Mutant: the window is asked of every row.                                *)
InDoneWindowAlways(c) == claims[c].updated >= now - DoneWindow
InDoneWindow(c) == ~Terminal(c) \/ claims[c].updated >= now - DoneWindow

(* column_totals: grouped by status over both kinds.                        *)
ColumnTotals(u, column) ==
  LET rows == {c \in BaseQuery(u, TRUE) : InDoneWindow(c) /\ claims[c].status \in BoardColumnStates[column]}
  IN  [count |-> Cardinality(rows), pesos |-> MapThenSumSet(LAMBDA c : AmountOf[c], rows)]

(* board_card_query.                                                        *)
BoardCards(u, column) ==
  LET rows == {c \in BaseQuery(u, TRUE) : InDoneWindow(c) /\ claims[c].status \in BoardColumnStates[column]}
      latest(c, d) == claims[c].updated > claims[d].updated \/ (claims[c].updated = claims[d].updated /\ c > d)
  IN  IF column = "done" THEN First(CardLimit, rows, latest) ELSE First(CardLimit, rows, LongerWaiting)

-----------------------------------------------------------------------------
(* GET /my-work: what waits on the caller, and the caller's claims that     *)
(* wait on someone else.  Mutant: only a named other holder counts.         *)
WaitingOnYou(u) ==
  First(ListCap, {c \in Drafted : /\ claims[c].holderKind = "user" /\ claims[c].holder = u
                                  /\ ~Terminal(c)}, LongerWaiting)

HeldByNamedOther(u, c) == claims[c].holderKind = "user" /\ claims[c].holder # u
HeldByOther(u, c) == claims[c].holderKind # "user" \/ claims[c].holder # u

InFlight(u) ==
  First(ListCap, {c \in Drafted : IsClaimOwner(u, c) /\ ~Terminal(c) /\ HeldByOther(u, c)},
        LAMBDA c, d : claims[c].updated > claims[d].updated
                      \/ (claims[c].updated = claims[d].updated /\ c < d))

(* modules/reimbursement/calendar.py fetch_travel, for the days a .. b.     *)
TripOverlaps(c, a, b) == TripOf[c].depart <= b /\ TripOf[c].return >= a

VisibleTrips(u, a, b) ==
  {c \in BaseQuery(u, TRUE) : TripOverlaps(c, a, b)}
    \cup {c \in Drafted : IsClaimOwner(u, c) /\ TripOverlaps(c, a, b)}

FetchTravel(u, a, b) ==
  First(SourceCap, VisibleTrips(u, a, b),
        LAMBDA c, d : TripOf[c].depart < TripOf[d].depart
                      \/ (TripOf[c].depart = TripOf[d].depart /\ c < d))

(* services/insights.py: the return events of both windows, and the counts  *)
(* of the current and of the prior one.                                     *)
EventsQuery(u) ==
  LET scoped == BaseQuery(u, TRUE)
  IN  {e \in returns : e.claim \in scoped /\ e.at >= now - 2 * InsightsWindow}

InWindow(e) == e.at >= now - InsightsWindow
InPrior(e) == e.at >= now - 2 * InsightsWindow /\ e.at < now - InsightsWindow

RankedReasons(u) ==
  LET events == EventsQuery(u)
      cited(r, in(_)) == Cardinality({e \in events : r \in e.reasons /\ in(e)})
  IN  [r \in UNION {e.reasons : e \in events} |->
         [count |-> cited(r, InWindow), prior |-> cited(r, InPrior)]]

TotalReturns(u) == Cardinality({e \in EventsQuery(u) : InWindow(e)})

-----------------------------------------------------------------------------
(* lifecycle.py resolve_holder: [kind, id], or NoRow when nobody qualifies. *)
OwnerLogin(c) == CHOOSE u \in Users : StaffOf[u] = ClaimantOf[c]

(* Mutant: grants outside their validity window count.                      *)
CandidatesEver(c, state, unit) ==
  {<<g.user, g.unit>> :
     g \in {h \in grants : /\ state.perm \in RoleGrants[h.role] /\ h.user \in active
                           /\ h.unit \in AncestorsOrSelf(units, unit)
                           /\ ~(state.segregate /\ h.user = OwnerLogin(c))}}

Candidates(c, state, unit) ==
  {h \in PermissionHolders(units, grants, active, state.perm, unit, now) :
     h[2] # NoUnit /\ ~(state.segregate /\ h[1] = OwnerLogin(c))}

Nearer(unit, g, h) ==
  LET p == Proximity(units, unit, g[2])
      q == Proximity(units, unit, h[2])
  IN  p < q \/ (p = q /\ g[1] <= h[1])

ResolveHolder(c, status, unit) ==
  LET state == Chains[KindOf[c]].states[status]
      who   == Candidates(c, state, unit)
  IN  CASE state.kind = "terminal"          -> [kind |-> NoUser, id |-> NoUser]
        [] status \in D!ClaimantStatuses    -> [kind |-> "user", id |-> OwnerLogin(c)]
        [] status \in D!ExternalStatuses    -> [kind |-> "external_fms", id |-> NoUser]
        [] OTHER -> IF who = {} THEN NoRow
                    ELSE [kind |-> "user",
                          id   |-> (CHOOSE h \in who : \A g \in who : Nearer(unit, h, g))[1]]

(* _sync_claim_from_event.                                                  *)
SyncClaim(c, status, unit) ==
  LET holder == ResolveHolder(c, status, unit)
  IN  /\ holder # NoRow
      /\ claims' = [claims EXCEPT ![c] =
           [status |-> status, unit |-> unit, holderKind |-> holder.kind, holder |-> holder.id,
            since |-> IF holder.kind = NoUser THEN NoDay ELSE now, updated |-> now]]

-----------------------------------------------------------------------------
CreateDraft(u, c) ==
  /\ claims[c] = NoRow /\ c \in world.filing
  /\ u \in active /\ IsClaimOwner(u, c) /\ ClaimantOf[c] \in LiveStaff(staff)
  /\ claims' = [claims EXCEPT ![c] =
       [status |-> "draft", unit |-> NoUnit, holderKind |-> "user", holder |-> u,
        since |-> now, updated |-> now]]
  /\ UNCHANGED <<people, returns, now>>

(* What else a submit and an action demand (the packet, the totals, the     *)
(* recorded payment) is ClaimLifecycle's and ClaimPacket's; without it more *)
(* claims move here than the code lets move.                                *)
SubmitClaim(u, c) ==
  /\ claims[c] # NoRow /\ claims[c].unit = NoUnit /\ claims[c].status # "cancelled"
  /\ u \in active /\ IsClaimOwner(u, c)
  /\ ClaimantOf[c] \in LiveStaff(staff) /\ PlacedAt(ClaimantOf[c]) # NoUnit
  /\ \E e \in Chains[KindOf[c]].transitions :
       /\ e.action = "submit"
       /\ SyncClaim(c, e.to, PlacedAt(ClaimantOf[c]))
  /\ UNCHANGED <<people, returns, now>>

CancelDraftClaim(u, c) ==
  /\ claims[c] # NoRow /\ claims[c].unit = NoUnit /\ claims[c].status # "cancelled"
  /\ u \in active /\ IsClaimOwner(u, c)
  /\ claims' = [claims EXCEPT ![c].status = "cancelled", ![c].holderKind = NoUser,
                              ![c].holder = NoUser, ![c].since = NoDay, ![c].updated = now]
  /\ UNCHANGED <<people, returns, now>>

(* transitions.py: who may take an edge.  A clerk's own delegations are     *)
(* WorkflowEngine's.                                                        *)
Authorized(u, c, e) ==
  LET state == Chains[KindOf[c]].states[e.from]
      may(perm) == AuthorizeScoped(units, grants, u, perm, claims[c].unit, now)
  IN  CASE e.action = "approve" -> may(state.perm) /\ ~(state.segregate /\ u = OwnerLogin(c))
        [] e.action = "return"  -> may(state.perm)
        [] OTHER                -> u = OwnerLogin(c) \/ may(e.perm)

(* claim_action, up to MaxReturns returns of a claim.                       *)
ClaimAction(u, c, e) ==
  /\ c \in Filed /\ u \in active
  /\ e \in Chains[KindOf[c]].transitions /\ e.from = claims[c].status
  /\ MaySeeClaim(u, c)
  /\ Authorized(u, c, e)
  /\ SyncClaim(c, e.to, claims[c].unit)
  /\ IF e.action = "return"
     THEN /\ Cardinality({r \in returns : r.claim = c}) < MaxReturns
          /\ \E reasons \in world.reasons :
               returns' = returns \cup
                 {[claim |-> c, n |-> Cardinality({r \in returns : r.claim = c}),
                   at |-> now, reasons |-> reasons]}
     ELSE UNCHANGED returns
  /\ UNCHANGED <<people, now>>

(* core/rbac.py: a grant is rewritten in place, and revoked.                *)
GrantRole(g) ==
  /\ g \in world.grantable /\ g \notin grants
  /\ grants' = {h \in grants : ~(h.user = g.user /\ h.role = g.role /\ h.unit = g.unit)} \cup {g}
  /\ UNCHANGED <<units, staff, importing, active, world, claims, returns, now>>

RevokeRole(g) ==
  /\ g \in grants \cap world.revocable
  /\ grants' = grants \ {g}
  /\ UNCHANGED <<units, staff, importing, active, world, claims, returns, now>>

DeactivateUser(u) ==
  /\ u \in active \cap world.leaving
  /\ active' = active \ {u}
  /\ UNCHANGED <<units, staff, importing, grants, world, claims, returns, now>>

Reorganise ==
  /\ \/ \E p \in world.importers, feed \in world.feeds : BeginImport(p, feed)
     \/ \E p \in world.importers : CommitImport(p)
     \/ \E x \in world.disbanding : DisbandUnit(x)
  /\ UNCHANGED <<world, grants, active, claims, returns, now>>

Tick ==
  /\ now < world.days
  /\ now' = now + 1
  /\ UNCHANGED <<people, claims, returns>>

Next ==
  \/ \E u \in Users, c \in ClaimIds :
       CreateDraft(u, c) \/ SubmitClaim(u, c) \/ CancelDraftClaim(u, c)
  \/ \E u \in Users, c \in ClaimIds :
       claims[c] # NoRow /\ \E e \in Chains[KindOf[c]].transitions : ClaimAction(u, c, e)
  \/ \E g \in world.grantable : GrantRole(g)
  \/ \E g \in world.revocable : RevokeRole(g)
  \/ \E u \in world.leaving : DeactivateUser(u)
  \/ Reorganise
  \/ Tick

Spec == Init /\ [][Next]_vars

-----------------------------------------------------------------------------
(* Every list shows exactly the filed claims its reader could open one by   *)
(* one: the queue and the board (base_query resolved down the tree), the    *)
(* travel calendar and the return insights agree with the read gate, and    *)
(* the gate with the service's copy of it (may_see_claim), whatever imports *)
(* did to the tree: a unit disbanded, moved, or its own ancestor.           *)
ListsMatchTheGate ==
  \A u \in Users :
    LET open == {c \in Filed : HasScopedGrant(u, c, ScopedReadPerms)}
    IN  /\ BaseQuery(u, TRUE) = open
        /\ ListClaims(u) \subseteq open
        /\ \A c \in Filed : MaySeeClaim(u, c) <=> CanReadClaim(u, c)
        /\ \A c \in FetchTravel(u, now, now + 1) : CanReadClaim(u, c)
        /\ \A r \in DOMAIN RankedReasons(u) :
             /\ \E e \in returns : e.claim \in open /\ r \in e.reasons
             /\ RankedReasons(u)[r].count <= TotalReturns(u)

(* Whoever a step makes the holder of a filed claim (resolve_holder) may    *)
(* open it and act on it past claim_action's own read check, and finds it   *)
(* under My Work; so, by ListsMatchTheGate, a gate's holder has it in their *)
(* queue too.                                                               *)
HolderSeesTheirWork ==
  [][\A c \in {d \in ClaimIds : claims'[d] # claims[d]} : \A u \in Users :
       claims'[c].holder = u /\ claims'[c].unit # NoUnit
         => CanReadClaim(u, c)' /\ MaySeeClaim(u, c)' /\ (c \in WaitingOnYou(u))']_vars

(* My Work loses no claim: every claim still in play is on exactly one of   *)
(* the two lists of the login linked to its claimant, and one held by a     *)
(* login is on that login's list, for lists below the cap.                  *)
NoClaimIsLost ==
  \A c \in Drafted : ~Terminal(c) =>
    /\ \A u \in Users : IsClaimOwner(u, c) =>
         (c \in WaitingOnYou(u)) # (c \in InFlight(u))
    /\ claims[c].holderKind = "user" => c \in WaitingOnYou(claims[c].holder)

(* "Board totals match DB": what the board counts in a column, by status    *)
(* over both kinds, is what a reader of each claim would count there by its *)
(* kind: every live claim and the finished ones of the window, no cancelled *)
(* one; the cards are claims of the column, all of them below the limit.    *)
OnBoard(u, column) ==
  {c \in Filed : /\ HasScopedGrant(u, c, ScopedReadPerms)
                 /\ BoardColumn(KindOf[c], claims[c].status) = column
                 /\ column = "done" => claims[c].updated >= now - DoneWindow}

BoardMatchesClaims ==
  \A u \in Users, column \in Columns :
    LET there == OnBoard(u, column)
        totals == ColumnTotals(u, column)
        cards == BoardCards(u, column)
    IN  /\ totals.count = Cardinality(there)
        /\ totals.pesos = MapThenSumSet(LAMBDA c : AmountOf[c], there)
        /\ cards \subseteq there
        /\ Cardinality(cards) =
             IF Cardinality(there) < CardLimit THEN Cardinality(there) ELSE CardLimit

(* The capped scan of the follow-up list drops no claim stalled with FMS    *)
(* while no more than the cap are stalled, whichever of equals it returns.  *)
FollowupListIsComplete ==
  \A u \in Users :
    LET stalled == {c \in BaseQuery(u, FALSE) : HeldByFms(c) /\ DaysWithFms(c) > FollowupDays}
    IN  Cardinality(stalled) <= ScanCap => \A list \in ListStalled(u) : list = stalled

(* No claim drops out of what the oversight screens count.                  *)
ListsCountEveryClaim == BoardMatchesClaims /\ FollowupListIsComplete

(* A feed that passed validation can be written: the units come out in an   *)
(* order that ends and in which each parent has its row first, also against *)
(* the parents an earlier import left.                                      *)
ValidatedFeedsApply ==
  \A p \in Importers :
    importing[p] # Idle => Placeable(importing[p].feed.units, importing[p].seen)
=============================================================================
