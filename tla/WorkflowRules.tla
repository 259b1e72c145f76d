---------------------------- MODULE WorkflowRules ----------------------------
(***************************************************************************)
(* The shared approval engine of core/workflow as operators on the rows of *)
(* one workflow instance: which transition an action selects, who may take *)
(* it, when a gate's fan-in is met, and the rows the transaction leaves.   *)
(*                                                                         *)
(* An instance is a record                                                 *)
(*    def        pinned definition version (core_workflow_instances        *)
(*               .definition_version_id)                                   *)
(*    current    current_state_id           originator  originator_user_id *)
(*    amount     amount, or NoAmount        version     row_version (CAS)  *)
(*    revision   revision_no                                               *)
(*    steps      its core_workflow_steps rows, a set                       *)
(*    events     its core_workflow_events rows of type started/transition, *)
(*               in id order (who acted is kept on the step rows only)     *)
(* Permissions are already resolved against the instance's org unit: Grants*)
(* is what authorize_scoped answers there.  A step's pinned permission,    *)
(* join type and quorum are those of its state, because a published        *)
(* version is never edited (definitions.py add_state, add_transition).     *)
(***************************************************************************)
EXTENDS Integers, Sequences, FiniteSets

CONSTANTS
  Users,         \* core_users ids
  NoUser,        \* NULL in a user column
  Perms,         \* permission strings
  NoPerm,        \* a NULL required_permission: an open gate
  Grants,        \* <<user, permission>> pairs authorize_scoped accepts
  Definitions,   \* published version -> [initial, states, transitions]
  Rank,          \* version -> state -> position in the resubmit-free graph
  NoAmount,      \* NULL amount or NULL amount bound
  NoKey          \* no idempotency key

GateActions == {"approve", "return", "reject"}
OriginatorActions == {"submit", "resubmit", "cancel"}
Actions == GateActions \cup OriginatorActions

Versions == DOMAIN Definitions
StatesOf(v) == DOMAIN Definitions[v].states
StateOf(v, s) == Definitions[v].states[s]
TransitionsOf(v) == Definitions[v].transitions

StateRecords ==
  [kind: {"initial", "normal", "terminal"}, gate: BOOLEAN,
   perm: Perms \cup {NoPerm}, join: {"all", "any", "quorum"},
   stepCount: Nat, quorum: Nat, segregate: BOOLEAN, comment: BOOLEAN]

-----------------------------------------------------------------------------
(* publish_version's validate_graph: one initial state, a terminal state,   *)
(* known endpoints, an exit from every non-terminal state, and every state  *)
(* reachable (the only transition-closed set holding the initial state is   *)
(* the whole graph).  The first clause is what the column types give.       *)
ValidateGraph(v) ==
  /\ \A s \in StatesOf(v) : StateOf(v, s) \in StateRecords
  /\ \A s \in StatesOf(v) :
       StateOf(v, s).kind = "initial" <=> s = Definitions[v].initial
  /\ Definitions[v].initial \in StatesOf(v)
  /\ \E s \in StatesOf(v) : StateOf(v, s).kind = "terminal"
  /\ \A t \in TransitionsOf(v) :
       /\ t.from \in StatesOf(v) /\ t.to \in StatesOf(v)
       /\ t.action \in Actions
       /\ t.order \in Nat
       /\ t.perm \in Perms \cup {NoPerm}
  /\ \A s \in StatesOf(v) :
       StateOf(v, s).kind # "terminal" => \E t \in TransitionsOf(v) : t.from = s
  /\ \A closed \in SUBSET StatesOf(v) :
       (/\ Definitions[v].initial \in closed
        /\ \A t \in TransitionsOf(v) : t.from \in closed => t.to \in closed)
         => closed = StatesOf(v)

SlotCount(state) == IF state.stepCount > 1 THEN state.stepCount ELSE 1

(* Three facts of every definition the platform publishes that validate_    *)
(* graph does not check: an originator action never leaves an open gate (it *)
(* would strand the gate's active steps); without resubmit the graph has no *)
(* cycle, so a revision never visits a gate twice; and a quorum can be      *)
(* filled by the gate's own slots (quorum 0 stands for NULL).               *)
WellBehaved(v) ==
  /\ \A t \in TransitionsOf(v) :
       /\ t.action \in OriginatorActions => ~StateOf(v, t.from).gate
       /\ t.action # "resubmit" => Rank[v][t.from] < Rank[v][t.to]
  /\ \A s \in StatesOf(v) :
       /\ Rank[v][s] \in Nat
       /\ StateOf(v, s).quorum <= SlotCount(StateOf(v, s))

ASSUME DefinitionsAssumption ==
  \A v \in Versions : ValidateGraph(v) /\ WellBehaved(v)

ASSUME NullsAssumption ==
  /\ NoUser \notin Users
  /\ NoPerm \notin Perms
  /\ Grants \subseteq Users \X Perms

-----------------------------------------------------------------------------
(* Routing (guards.py, transitions.py _select_transition).                  *)
AmountGuardPasses(t, amount) ==
  /\ t.min # NoAmount => amount # NoAmount /\ amount >= t.min
  /\ t.max # NoAmount => amount # NoAmount /\ amount <= t.max

Candidates(i, action) ==
  {t \in TransitionsOf(i.def) :
     /\ t.from = i.current
     /\ t.action = action
     /\ AmountGuardPasses(t, i.amount)}

SelectTransition(i, action) ==
  CHOOSE t \in Candidates(i, action) :
    \A u \in Candidates(i, action) : t.order <= u.order

-----------------------------------------------------------------------------
(* Authority (delegation.py resolve_authority).  oic is the set of          *)
(* <<delegator, delegate>> rows in their window now.  The result is the set *)
(* of on_behalf_of values the code may record: NoUser for a direct grant or *)
(* an open gate, otherwise any delegator who holds the permission (the rows *)
(* are read unordered and the first hit wins); empty when not authorized.   *)
ResolveAuthority(oic, u, perm) ==
  IF perm = NoPerm \/ <<u, perm>> \in Grants
  THEN {NoUser}
  ELSE {d \in Users : <<d, u>> \in oic /\ <<d, perm>> \in Grants}

AuthorizeOriginator(oic, i, t, u) ==
  IF i.originator # NoUser /\ u = i.originator
  THEN {NoUser}
  ELSE ResolveAuthority(oic, u, t.perm)

OrElsePerm(first, second) == IF first # NoPerm THEN first ELSE second

-----------------------------------------------------------------------------
(* Gate rows (steps.py).                                                    *)
GateSteps(i, state, revision) ==
  {s \in i.steps : s.state = state /\ s.rev = revision}

CurrentGate(i) == GateSteps(i, i.current, i.revision)

ActiveIn(steps) == {s \in steps : s.status = "active"}
DoneIn(steps) == {s \in steps : s.status = "done"}

(* Mutant: a quorum one signature short.                                    *)
RequiredShort(state, live) ==
  IF state.join = "any" THEN 1
  ELSE IF state.join = "quorum" /\ state.quorum # 0 THEN state.quorum - 1
  ELSE live

(* The number of done slots that opens the gate (steps.py join_satisfied);  *)
(* live is the number of active or done slots.                              *)
Required(state, live) ==
  IF state.join = "any" THEN 1
  ELSE IF state.join = "quorum" /\ state.quorum # 0 THEN state.quorum
  ELSE live

JoinSatisfied(state, steps) ==
  LET live == ActiveIn(steps) \cup DoneIn(steps)
  IN /\ live # {}
     /\ Cardinality(DoneIn(steps)) >= Required(state, Cardinality(live))

ActivateStateSteps(v, s, revision) ==
  IF StateOf(v, s).gate
  THEN {[state |-> s, rev |-> revision, seq |-> n, status |-> "active",
         actor |-> NoUser, behalf |-> NoUser] : n \in 1 .. SlotCount(StateOf(v, s))}
  ELSE {}

-----------------------------------------------------------------------------
(* Mutant: distinct checkers, but the maker may be one of them.             *)
AssertDistinctOnly(i, u) ==
  StateOf(i.def, i.current).segregate =>
    \A s \in DoneIn(CurrentGate(i)) : s.actor # u

(* maker_checker.py assert_segregation over the gate's earlier approvers    *)
(* and this actor, called only when the gate enforces it.                   *)
AssertSegregation(i, u) ==
  LET prior == DoneIn(CurrentGate(i))
  IN  (StateOf(i.def, i.current).segregate /\ i.originator # NoUser) =>
        /\ u # i.originator
        /\ \A s \in prior : s.actor \notin {i.originator, u}
        /\ \A s, t \in prior : s.actor = t.actor => s = t

AlreadyActed(i, u) == \E s \in DoneIn(CurrentGate(i)) : s.actor = u

(* Everything execute_action refuses once the row is locked and the key is  *)
(* new, per action family.                                                  *)
AcceptsRoute(i, action, comment) ==
  /\ StateOf(i.def, i.current).kind # "terminal"
  /\ Candidates(i, action) # {}
  /\ (SelectTransition(i, action).comment \/ StateOf(i.def, i.current).comment)
       => comment

AcceptsApprove(oic, i, u) ==
  /\ ~AlreadyActed(i, u)
  /\ ActiveIn(CurrentGate(i)) # {}
  /\ ResolveAuthority(oic, u, StateOf(i.def, i.current).perm) # {}
  /\ AssertSegregation(i, u)

SendBackAuthority(oic, i, u, action) ==
  ResolveAuthority(oic, u,
    OrElsePerm(StateOf(i.def, i.current).perm, SelectTransition(i, action).perm))

Accepts(oic, i, u, action, comment) ==
  /\ AcceptsRoute(i, action, comment)
  /\ action = "approve" => AcceptsApprove(oic, i, u)
  /\ action \in {"return", "reject"} => SendBackAuthority(oic, i, u, action) # {}
  /\ action \in OriginatorActions =>
       AuthorizeOriginator(oic, i, SelectTransition(i, action), u) # {}

-----------------------------------------------------------------------------
(* Mutants: a partial approval leaves row_version alone; a partial approval *)
(* overwrites the previous partial's event.                                 *)
AdvanceUnbumped(i, action, to, steps, revision, key) ==
  [i EXCEPT
     !.current  = to,
     !.version  = IF to = i.current THEN @ ELSE @ + 1,
     !.revision = revision,
     !.steps    = steps \cup (IF to # i.current
                              THEN ActivateStateSteps(i.def, to, revision) ELSE {}),
     !.events   = Append(@, [action |-> action, from |-> i.current, to |-> to,
                             key |-> key, rev |-> revision])]

(* The tail every accepted action shares: move, bump row_version, open the  *)
(* next gate, append the event.                                             *)
Advance(i, action, to, steps, revision, key) ==
  [i EXCEPT
     !.current  = to,
     !.version  = @ + 1,
     !.revision = revision,
     !.steps    = steps \cup (IF to # i.current
                              THEN ActivateStateSteps(i.def, to, revision) ELSE {}),
     !.events   = Append(@, [action |-> action, from |-> i.current, to |-> to,
                             key |-> key, rev |-> revision])]

ApproveGate(i, step, u, behalf) ==
  LET done == [step EXCEPT !.status = "done", !.actor = u, !.behalf = behalf]
  IN  (CurrentGate(i) \ {step}) \cup {done}

SkipActive(steps) ==
  {IF s.status = "active" THEN [s EXCEPT !.status = "skipped"] ELSE s : s \in steps}

AfterApprove(i, step, u, behalf, key) ==
  LET gate   == ApproveGate(i, step, u, behalf)
      opened == JoinSatisfied(StateOf(i.def, i.current), gate)
      others == i.steps \ CurrentGate(i)
  IN  IF opened
      THEN Advance(i, "approve", SelectTransition(i, "approve").to,
                   others \cup SkipActive(gate), i.revision, key)
      ELSE Advance(i, "approve", i.current, others \cup gate, i.revision, key)

(* 'pending' rows are resolved like active ones, but nothing creates them.  *)
ResolveGate(steps, action, u, behalf) ==
  {IF s.status = "active"
   THEN [s EXCEPT !.status = IF action = "return" THEN "returned" ELSE "skipped",
                  !.actor = u, !.behalf = behalf]
   ELSE s : s \in steps}

AfterSendBack(i, action, u, behalf, key) ==
  Advance(i, action, SelectTransition(i, action).to,
          (i.steps \ CurrentGate(i)) \cup ResolveGate(CurrentGate(i), action, u, behalf),
          i.revision, key)

AfterOriginator(i, action, key) ==
  Advance(i, action, SelectTransition(i, action).to, i.steps,
          IF action = "resubmit" THEN i.revision + 1 ELSE i.revision, key)

(* The rows an accepted execute_action may leave: one outcome per active    *)
(* slot it may take (gate_steps has no ORDER BY) and per delegator.         *)
ExecuteAction(oic, i, u, action, key) ==
  IF action = "approve"
  THEN {AfterApprove(i, step, u, b, key) :
          step \in ActiveIn(CurrentGate(i)),
          b \in ResolveAuthority(oic, u, StateOf(i.def, i.current).perm)}
  ELSE IF action \in {"return", "reject"}
  THEN {AfterSendBack(i, action, u, b, key) : b \in SendBackAuthority(oic, i, u, action)}
  ELSE {AfterOriginator(i, action, key)}

(* Mutant: a key is compared with the latest event only.                    *)
ReplaysLatest(i, key) == key # NoKey /\ i.events[Len(i.events)].key = key

Replays(i, key) == key # NoKey /\ \E k \in DOMAIN i.events : i.events[k].key = key

(* start_instance: first row, at the initial state, with its started event. *)
StartInstance(v, originator, amount) ==
  [def |-> v, current |-> Definitions[v].initial, originator |-> originator,
   amount |-> amount, version |-> 1, revision |-> 1,
   steps |-> ActivateStateSteps(v, Definitions[v].initial, 1),
   events |-> <<[action |-> "started", from |-> Definitions[v].initial,
                 to |-> Definitions[v].initial, key |-> NoKey, rev |-> 1]>>]

-----------------------------------------------------------------------------
(* Mutant: an approver who already signed is offered the verb again.        *)
OffersApproveAgain(i, u) ==
  /\ ActiveIn(CurrentGate(i)) # {}
  /\ ~(StateOf(i.def, i.current).segregate /\ u = i.originator)

(* transitions.py available_actions: what a GET renders for this actor.     *)
OffersApprove(i, u) ==
  /\ ActiveIn(CurrentGate(i)) # {}
  /\ ~AlreadyActed(i, u)
  /\ ~(StateOf(i.def, i.current).segregate /\ u = i.originator)

OffersVia(oic, i, u, t) ==
  /\ t.from = i.current
  /\ AmountGuardPasses(t, i.amount)
  /\ IF t.action \in GateActions
     THEN /\ t.action = "approve" => OffersApprove(i, u)
          /\ ResolveAuthority(oic, u, OrElsePerm(StateOf(i.def, i.current).perm, t.perm)) # {}
     ELSE AuthorizeOriginator(oic, i, t, u) # {}

AvailableActions(oic, i, u) ==
  IF StateOf(i.def, i.current).kind = "terminal" THEN {}
  ELSE {t.action : t \in {t \in TransitionsOf(i.def) : OffersVia(oic, i, u, t)}}

(* replay.py fold_events: the last started/transition event's target.       *)
FoldEvents(events) == events[Len(events)].to
=============================================================================
