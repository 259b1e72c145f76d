---------------------------- MODULE WorkflowEngine ----------------------------
(***************************************************************************)
(* The life of one workflow instance under concurrent clients.  Every      *)
(* execute_action call is one transaction that holds the instance row from *)
(* its first statement to COMMIT (SELECT ... FOR UPDATE), so it is one     *)
(* atomic step here; a refused call rolls back and changes nothing.        *)
(*                                                                         *)
(* view is what some client last read (a GET renders row_version together  *)
(* with the state); the client may send that version back as               *)
(* expected_version long after the row has moved on.                       *)
(***************************************************************************)
EXTENDS WorkflowRules

CONSTANTS
  Originators,   \* users an instance may be started for (NoUser: the system)
  Amounts,       \* amounts an instance may be started with
  Keys,          \* idempotency keys clients use
  Windows,       \* <<delegator, delegate>> rows administrators may file
  NotStarted,    \* no instance row yet
  NoView,        \* nothing read yet
  NoVersion,     \* expected_version omitted
  MaxVersion     \* bound: row_version reached by the explored behaviours

ASSUME EngineAssumption ==
  /\ MaxVersion \in Nat
  /\ NoVersion \notin Nat
  /\ NoKey \notin Keys
  /\ Windows \subseteq Users \X Users
  /\ Originators \subseteq Users \cup {NoUser}

VARIABLES
  inst,          \* the instance, or NotStarted
  oic,           \* <<delegator, delegate>> windows open now
  flag,          \* the module's feature flag
  view           \* [version, current, revision, steps] a client read, or NoView

vars == <<inst, oic, flag, view>>

Init ==
  /\ inst = NotStarted
  /\ oic = {}
  /\ flag \in BOOLEAN
  /\ view = NoView

(* service.py start_instance: the only place the flag is read.             *)
Start(v, u, amount) ==
  /\ inst = NotStarted
  /\ flag
  /\ inst' = StartInstance(v, u, amount)
  /\ UNCHANGED <<oic, flag, view>>

(* transitions.py execute_action.  A used key returns the recorded event   *)
(* and a stale token is refused: neither changes the rows.                 *)
Execute(u, action, key, expected, comment) ==
  /\ inst # NotStarted
  /\ inst.version < MaxVersion
  /\ ~Replays(inst, key)
  /\ expected # NoVersion => expected = inst.version
  /\ Accepts(oic, inst, u, action, comment)
  /\ inst' \in ExecuteAction(oic, inst, u, action, key)
  /\ UNCHANGED <<oic, flag, view>>

ExpectedVersions == {NoVersion} \cup (IF view = NoView THEN {} ELSE {view.version})

Snapshot(i) == [version |-> i.version, current |-> i.current,
                revision |-> i.revision, steps |-> i.steps]

Read ==
  /\ inst # NotStarted
  /\ view' = Snapshot(inst)
  /\ UNCHANGED <<inst, oic, flag>>

(* A delegation window opens or closes; rows are kept by administrators.   *)
OpenWindow(d, u) ==
  /\ <<d, u>> \in Windows \ oic
  /\ oic' = oic \cup {<<d, u>>}
  /\ UNCHANGED <<inst, flag, view>>

CloseWindow(d, u) ==
  /\ <<d, u>> \in oic
  /\ oic' = oic \ {<<d, u>>}
  /\ UNCHANGED <<inst, flag, view>>

(* The flag is switched.  Start alone reads it, so a switch after the start  *)
(* would change nothing else and is left out.                                *)
SetFlag ==
  /\ inst = NotStarted
  /\ flag' = ~flag
  /\ UNCHANGED <<inst, oic, view>>

Next ==
  \/ \E v \in Versions, u \in Originators, amount \in Amounts \cup {NoAmount} : Start(v, u, amount)
  \/ \E u \in Users, action \in Actions, key \in Keys \cup {NoKey},
        expected \in ExpectedVersions, comment \in BOOLEAN :
       Execute(u, action, key, expected, comment)
  \/ Read
  \/ \E d, u \in Users : OpenWindow(d, u) \/ CloseWindow(d, u)
  \/ SetFlag

Spec == Init /\ [][Next]_vars

-----------------------------------------------------------------------------
Statuses == {"active", "done", "skipped", "returned"}

AllStates == UNION {StatesOf(v) : v \in Versions}

StepRecords ==
  [state: AllStates, rev: Nat, seq: Nat, status: Statuses,
   actor: Users \cup {NoUser}, behalf: Users \cup {NoUser}]

EventRecords ==
  [action: Actions \cup {"started"}, from: AllStates, to: AllStates,
   key: Keys \cup {NoKey}, rev: Nat]

InstanceRecords ==
  [def: Versions, current: AllStates, originator: Originators,
   amount: Amounts \cup {NoAmount}, version: Nat, revision: Nat,
   steps: SUBSET StepRecords, events: Seq(EventRecords)]

ASSUME NotStartedAssumption == NotStarted \notin InstanceRecords

TypedInstance(i) == i \in InstanceRecords /\ i.current \in StatesOf(i.def)

Started == inst # NotStarted

(* Type invariant: the columns hold values of their types.                  *)
TypeOK ==
  /\ Started => TypedInstance(inst)
  /\ oic \subseteq Windows
  /\ flag \in BOOLEAN
  /\ view # NoView => view.version \in Nat

-----------------------------------------------------------------------------
(* Replay: folding the append-only log reproduces current_state_id (replay  *)
(* .py is_consistent), also after partial approvals, which append an event  *)
(* without moving; and row_version is the length of that log, so no action  *)
(* is recorded without a new CAS token and no token is burnt unrecorded.    *)
LogOf(i) ==
  /\ i.events # <<>>
  /\ FoldEvents(i.events) = i.current
  /\ i.version = Len(i.events)

LogReplays == Started => LogOf(inst)

(* An idempotency key is spent at most once, whoever sends it and whatever  *)
(* the action (execute_action's replay branch and its unique index).        *)
KeysOf(i) ==
  \A j, k \in 1 .. Len(i.events) :
    i.events[j].key = i.events[k].key /\ i.events[j].key # NoKey => j = k

KeySpentOnce == Started => KeysOf(inst)

(* Maker-checker: in a gate that enforces segregation no slot was ever      *)
(* filled by the originator, in any revision, not even under a delegation.  *)
NoSelfApprovalIn(i) ==
  \A s \in i.steps :
    s.status = "done" /\ StateOf(i.def, s.state).segregate => s.actor # i.originator

NoSelfApproval == Started => NoSelfApprovalIn(inst)

(* Four eyes: the slots of one visit to a gate carry distinct approvers.    *)
FourEyesIn(i) ==
  \A s, t \in i.steps :
    /\ s.status = "done" /\ t.status = "done"
    /\ s.state = t.state /\ s.rev = t.rev /\ s.actor = t.actor
    => s = t

FourEyes == Started => FourEyesIn(inst)

(* Only the gate the instance stands at, in its present revision, has open  *)
(* slots: a step of an earlier visit can neither be signed nor escalated.   *)
OpenSlotsCurrentIn(i) ==
  \A s \in i.steps : s.status = "active" => s.state = i.current /\ s.rev = i.revision

OpenSlotsAreCurrent == Started => OpenSlotsCurrentIn(inst)

(* A gate never closes on itself: while the instance stands at it some slot *)
(* is still open (otherwise approve answers already_acted for ever).        *)
GateOpenIn(i) == StateOf(i.def, i.current).gate => ActiveIn(CurrentGate(i)) # {}

GateStaysOpen == Started => GateOpenIn(inst)

(* The signatures a join asks for, over all the slots a visit opens.        *)
Needed(st) ==
  IF st.join = "any" THEN 1
  ELSE IF st.join = "quorum" /\ st.quorum # 0 THEN st.quorum
  ELSE SlotCount(st)

Passed(e) == e.action = "approve" /\ e.to # e.from

(* Fan-in: each approve event that moved the instance out of a gate rests,  *)
(* for ever after, on as many signed slots of that visit as its join asks.  *)
FanInIn(i) ==
  \A k \in 1 .. Len(i.events) :
    Passed(i.events[k]) =>
      Cardinality(DoneIn(GateSteps(i, i.events[k].from, i.events[k].rev)))
        >= Needed(StateOf(i.def, i.events[k].from))

FanInMet == Started => FanInIn(inst)

(* A visit (state and revision) no later than the one i stands at, and one  *)
(* strictly before it.                                                      *)
Behind(i, s, r) ==
  /\ s \in StatesOf(i.def)
  /\ r <= i.revision
  /\ r = i.revision => Rank[i.def][s] <= Rank[i.def][i.current]

Left(i, s, r) ==
  /\ s \in StatesOf(i.def)
  /\ r <= i.revision
  /\ r = i.revision => Rank[i.def][s] < Rank[i.def][i.current]

(* The shape of a history, which the three properties above rest on: every  *)
(* step and every passed gate lies behind the instance (an earlier revision *)
(* or a lower rank of this one), so no visit is ever re-opened or altered,  *)
(* and the gate the instance stands at has exactly its slots, signed or     *)
(* open.                                                                    *)
VisitsIn(i) ==
  /\ \A s \in i.steps : Behind(i, s.state, s.rev) /\ StateOf(i.def, s.state).gate
  /\ \A k \in 1 .. Len(i.events) :
       Passed(i.events[k]) => Left(i, i.events[k].from, i.events[k].rev)
  /\ StateOf(i.def, i.current).gate =>
       /\ IsFiniteSet(CurrentGate(i))
       /\ Cardinality(CurrentGate(i)) = SlotCount(StateOf(i.def, i.current))
       /\ \A s \in CurrentGate(i) : s.status \in {"active", "done"}

VisitsLieBehind == Started => VisitsIn(inst)

(* The CAS token is faithful: a client whose token still matches is looking *)
(* at the very state, revision and slots its action will be applied to.     *)
TokenNamesState ==
  Started /\ view # NoView =>
    /\ view.version <= inst.version
    /\ view.version = inst.version => view = Snapshot(inst)

(* What the engine keeps of an instance hangs together: the log reproduces  *)
(* the row (replay.py fold_events), and the token a client holds names what *)
(* it saw (the row_version check of execute_action).                        *)
StateMatchesLog == LogReplays /\ TokenNamesState

(* Maker-checker at every gate: neither the originator nor one approver     *)
(* twice, over returns, resubmissions and delegations                       *)
(* (assert_segregation and the already_acted check of execute_action).      *)
SegregationHolds == NoSelfApproval /\ FourEyes

(* A gate opens when its join is met, and only then: it never jams, keeps   *)
(* no open slot behind, and is never visited twice in one revision          *)
(* (steps.py activate_state_steps, join_satisfied).                         *)
GatesAreSound == FanInMet /\ GateStaysOpen /\ OpenSlotsAreCurrent /\ VisitsLieBehind

(* The contract of available_actions: an action it lists for an actor is    *)
(* one execute_action accepts from that actor now, given a comment.         *)
OfferedIsAccepted ==
  Started => \A u \in Users : \A a \in AvailableActions(oic, inst, u) :
    Accepts(oic, inst, u, a, TRUE)

(* A terminal instance never changes again, and events are only appended.   *)
LogIsAppendOnly ==
  [][Started =>
       /\ SubSeq(inst'.events, 1, Len(inst.events)) = inst.events
       /\ StateOf(inst.def, inst.current).kind = "terminal" => inst' = inst]_vars
=============================================================================
