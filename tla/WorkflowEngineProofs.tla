------------------------- MODULE WorkflowEngineProofs -------------------------
(***************************************************************************)
(* Proofs about the workflow engine, for every published definition that   *)
(* satisfies ValidateGraph and WellBehaved, any number of users, slots and *)
(* revisions.                                                              *)
(***************************************************************************)
EXTENDS WorkflowEngine, TLAPS, FiniteSetTheorems, SequenceTheorems,
        WellFoundedInduction

-----------------------------------------------------------------------------
(* Routing: a non-empty candidate set has a first member in guard order, so *)
(* _select_transition really returns one of the candidates.                 *)
LEMMA SelectIsCandidate ==
  ASSUME NEW i, i.def \in Versions, NEW action, Candidates(i, action) # {}
  PROVE  SelectTransition(i, action) \in Candidates(i, action)
<1> DEFINE C == Candidates(i, action)
           O == {t.order : t \in C}
<1>1. \A t \in C : t.order \in Nat
  BY DefinitionsAssumption, Zenon DEF Candidates, ValidateGraph
<1>2. O \subseteq Nat /\ O # {}
  BY <1>1, Zenon
<1>3. PICK m \in O : \A n \in O : ~(<<n, m>> \in OpToRel(<, Nat))
  <2> HIDE DEF O
  <2> QED BY <1>2, NatLessThanWellFounded, WFMin, Zenon
<1>4. \A n \in O : m <= n
  <2>1. \A n \in O : ~(n < m)
    BY <1>2, <1>3, Zenon DEF OpToRel
  <2> QED BY <1>2, <2>1
<1>5. PICK t \in C : t.order = m
  BY Zenon
<1>6. \A u \in C : t.order <= u.order
  BY <1>4, <1>5, Zenon
<1>7. (CHOOSE t1 \in C : \A u \in C : t1.order <= u.order) \in C
  BY <1>5, <1>6, Zenon
<1> QED BY <1>7, Zenon DEF SelectTransition

(* What a selected transition is: an edge of the instance's own definition, *)
(* leaving its current state.                                               *)
LEMMA SelectedEdge ==
  ASSUME NEW i, i.def \in Versions, NEW action, Candidates(i, action) # {}
  PROVE  LET t == SelectTransition(i, action)
         IN  /\ t \in TransitionsOf(i.def)
             /\ t.from = i.current /\ t.action = action
             /\ t.to \in StatesOf(i.def)
BY SelectIsCandidate, DefinitionsAssumption DEF Candidates, ValidateGraph

(* Following an edge that is not a resubmit strictly climbs the graph.      *)
LEMMA EdgeClimbs ==
  ASSUME NEW i, i.def \in Versions, NEW action, action # "resubmit",
         Candidates(i, action) # {}
  PROVE  LET to == SelectTransition(i, action).to
         IN  /\ Rank[i.def][i.current] < Rank[i.def][to]
             /\ to # i.current
<1>1. Rank[i.def][i.current] < Rank[i.def][SelectTransition(i, action).to]
  BY SelectedEdge, DefinitionsAssumption DEF WellBehaved
<1>2. i.current \in StatesOf(i.def)
  BY SelectedEdge, DefinitionsAssumption DEF ValidateGraph
<1>3. Rank[i.def][i.current] \in Nat
  BY <1>2, DefinitionsAssumption, Zenon DEF WellBehaved
<1> QED BY <1>1, <1>3

-----------------------------------------------------------------------------
(* The rows after the common tail of execute_action.                        *)
LEMMA AdvanceFields ==
  ASSUME NEW i \in InstanceRecords, NEW action, NEW to, NEW steps, NEW revision, NEW key
  PROVE  LET j == Advance(i, action, to, steps, revision, key)
         IN  /\ j.def = i.def /\ j.originator = i.originator /\ j.amount = i.amount
             /\ j.current = to
             /\ j.version = i.version + 1
             /\ j.revision = revision
             /\ j.steps = steps \cup (IF to # i.current
                                      THEN ActivateStateSteps(i.def, to, revision) ELSE {})
             /\ j.events = Append(i.events, [action |-> action, from |-> i.current,
                                             to |-> to, key |-> key, rev |-> revision])
BY Zenon DEF Advance, InstanceRecords

(* Advance keeps a typed instance typed, given typed steps and a typed target. *)
LEMMA AdvanceTyped ==
  ASSUME NEW i, TypedInstance(i), NEW action \in Actions,
         NEW to \in StatesOf(i.def), NEW steps \in SUBSET StepRecords,
         NEW revision \in Nat, NEW key \in Keys \cup {NoKey}
  PROVE  TypedInstance(Advance(i, action, to, steps, revision, key))
<1> DEFINE j == Advance(i, action, to, steps, revision, key)
           e == [action |-> action, from |-> i.current, to |-> to,
                 key |-> key, rev |-> revision]
           new == IF to # i.current THEN ActivateStateSteps(i.def, to, revision) ELSE {}
<1>1. i \in InstanceRecords /\ i.def \in Versions /\ i.current \in StatesOf(i.def)
  BY Zenon DEF TypedInstance, InstanceRecords
<1>2. to \in AllStates /\ i.current \in AllStates
  BY <1>1, Zenon DEF AllStates
<1>3. new \subseteq StepRecords
  BY <1>2 DEF ActivateStateSteps, StepRecords, Statuses
<1>4. e \in EventRecords
  BY <1>2, Zenon DEF EventRecords
<1>5. Append(i.events, e) \in Seq(EventRecords)
  <2>1. i.events \in Seq(EventRecords)
    BY <1>1, Zenon DEF InstanceRecords
  <2> HIDE DEF e
  <2> QED BY <1>4, <2>1
<1>6. i.version + 1 \in Nat
  BY <1>1 DEF InstanceRecords
<1>7. j = [i EXCEPT !.current = to, !.version = i.version + 1, !.revision = revision,
                    !.steps = steps \cup new, !.events = Append(i.events, e)]
  BY Zenon DEF Advance
<1>8. steps \cup new \in SUBSET StepRecords
  BY <1>3, Zenon
<1>9. j \in InstanceRecords
  <2> HIDE DEF e, new, j
  <2> QED BY <1>1, <1>2, <1>5, <1>6, <1>7, <1>8, Zenon DEF InstanceRecords
<1>10. j.current = to /\ j.def = i.def
  <2> HIDE DEF e, new, j
  <2> QED BY <1>1, <1>7, Zenon DEF InstanceRecords
<1> QED BY <1>9, <1>10, Zenon DEF TypedInstance

(* Logging one more action keeps the log foldable and the token in step.    *)
LEMMA AdvanceLogs ==
  ASSUME NEW i, TypedInstance(i), LogOf(i), NEW action \in Actions,
         NEW to \in StatesOf(i.def), NEW steps, NEW revision \in Nat,
         NEW key \in Keys \cup {NoKey}
  PROVE  LogOf(Advance(i, action, to, steps, revision, key))
<1> DEFINE j == Advance(i, action, to, steps, revision, key)
           e == [action |-> action, from |-> i.current, to |-> to,
                 key |-> key, rev |-> revision]
<1>1. /\ i \in InstanceRecords
      /\ i.events \in Seq(EventRecords)
      /\ i.version \in Nat
      /\ i.current \in AllStates /\ to \in AllStates
  BY Zenon DEF TypedInstance, InstanceRecords, AllStates
<1>2. e \in EventRecords
  BY <1>1, Zenon DEF EventRecords
<1>3. j.current = to /\ j.version = i.version + 1 /\ j.events = Append(i.events, e)
  BY <1>1, AdvanceFields
<1>4. /\ Append(i.events, e) # <<>>
      /\ Len(Append(i.events, e)) = Len(i.events) + 1
      /\ Append(i.events, e)[Len(i.events) + 1] = e
  <2> HIDE DEF e
  <2> QED BY <1>1, <1>2
<1>5. e.to = to
  BY Zenon
<1> QED BY <1>3, <1>4, <1>5, Zenon DEF LogOf, FoldEvents

(* A key the log does not hold yet can be logged once.                      *)
LEMMA AdvanceKeys ==
  ASSUME NEW i, TypedInstance(i), KeysOf(i), NEW action \in Actions,
         NEW to \in StatesOf(i.def), NEW steps, NEW revision \in Nat,
         NEW key \in Keys \cup {NoKey}, ~Replays(i, key)
  PROVE  KeysOf(Advance(i, action, to, steps, revision, key))
<1> DEFINE j == Advance(i, action, to, steps, revision, key)
           e == [action |-> action, from |-> i.current, to |-> to,
                 key |-> key, rev |-> revision]
<1>1. /\ i \in InstanceRecords
      /\ i.events \in Seq(EventRecords)
      /\ i.current \in AllStates /\ to \in AllStates
  BY Zenon DEF TypedInstance, InstanceRecords, AllStates
<1>2. e \in EventRecords /\ e.key = key
  BY <1>1, Zenon DEF EventRecords
<1>3. j.events = Append(i.events, e)
  BY <1>1, AdvanceFields
<1>4. /\ Len(j.events) = Len(i.events) + 1 /\ Len(i.events) \in Nat
      /\ j.events[Len(i.events) + 1] = e
      /\ \A k \in 1 .. Len(i.events) : j.events[k] = i.events[k]
  <2> HIDE DEF e, j
  <2> QED BY <1>1, <1>2, <1>3
<1>5. \A k \in 1 .. Len(i.events) : key # NoKey => i.events[k].key # key
  BY <1>1 DEF Replays
<1> HIDE DEF e, j
<1>6. \A m, k \in 1 .. Len(i.events) :
        j.events[m].key = j.events[k].key /\ j.events[m].key # NoKey => m = k
  BY <1>4, Zenon DEF KeysOf
<1>7. \A m, k \in 1 .. Len(j.events) :
        j.events[m].key = j.events[k].key /\ j.events[m].key # NoKey => m = k
  <2> SUFFICES ASSUME NEW m \in 1 .. Len(j.events), NEW k \in 1 .. Len(j.events),
                      j.events[m].key = j.events[k].key, j.events[m].key # NoKey
               PROVE  m = k
    BY Zenon
  <2>1. CASE m \in 1 .. Len(i.events) /\ k \in 1 .. Len(i.events)
    BY <1>6, <2>1, Zenon
  <2>2. CASE m = Len(i.events) + 1 /\ k \in 1 .. Len(i.events)
    BY <1>2, <1>4, <1>5, <2>2, Zenon
  <2>3. CASE m \in 1 .. Len(i.events) /\ k = Len(i.events) + 1
    BY <1>2, <1>4, <1>5, <2>3, Zenon
  <2>4. CASE m = Len(i.events) + 1 /\ k = Len(i.events) + 1
    BY <2>4, Zenon
  <2> QED BY <1>4, <2>1, <2>2, <2>3, <2>4
<1>8. KeysOf(j)
  BY <1>7, Zenon DEF KeysOf
<1> QED BY <1>8, Zenon DEF j

-----------------------------------------------------------------------------
(* What the step rows of an instance satisfy.                               *)
StepsInv(i) ==
  /\ NoSelfApprovalIn(i)
  /\ FourEyesIn(i)
  /\ OpenSlotsCurrentIn(i)
  /\ GateOpenIn(i)
  /\ FanInIn(i)
  /\ VisitsIn(i)

InstInv(i) == TypedInstance(i) /\ LogOf(i) /\ KeysOf(i) /\ StepsInv(i)

(* The facts about one instance that every proof below starts from.         *)
LEMMA InstanceFacts ==
  ASSUME NEW i, TypedInstance(i)
  PROVE  /\ i \in InstanceRecords /\ i.def \in Versions
         /\ i.current \in StatesOf(i.def) /\ i.revision \in Nat /\ i.version \in Nat
         /\ i.originator \in Users \cup {NoUser}
         /\ i.steps \subseteq StepRecords
         /\ i.events \in Seq(EventRecords)
         /\ Rank[i.def][i.current] \in Nat
         /\ StateOf(i.def, i.current) \in StateRecords
<1>1. i \in InstanceRecords /\ i.current \in StatesOf(i.def)
  BY Zenon DEF TypedInstance
<1>2. i.def \in Versions
  BY <1>1, Zenon DEF InstanceRecords
<1> QED BY <1>1, <1>2, EngineAssumption, DefinitionsAssumption DEF InstanceRecords, WellBehaved, ValidateGraph

(* A gate opens with exactly its slots, all of them active.                 *)
LEMMA FreshSlots ==
  ASSUME NEW v \in Versions, NEW s \in StatesOf(v), NEW revision \in Nat
  PROVE  LET A == ActivateStateSteps(v, s, revision)
         IN  /\ A # {} => StateOf(v, s).gate
             /\ \A a \in A : a.state = s /\ a.rev = revision /\ a.status = "active"
             /\ StateOf(v, s).gate =>
                  /\ A # {}
                  /\ IsFiniteSet(A) /\ Cardinality(A) = SlotCount(StateOf(v, s))
<1> DEFINE st == StateOf(v, s)
           n == SlotCount(st)
           A == ActivateStateSteps(v, s, revision)
           slot(k) == [state |-> s, rev |-> revision, seq |-> k, status |-> "active",
                       actor |-> NoUser, behalf |-> NoUser]
<1>1. st \in StateRecords
  BY DefinitionsAssumption, Zenon DEF ValidateGraph
<1>2. n \in Nat /\ n >= 1
  BY <1>1 DEF SlotCount, StateRecords
<1>3. A = IF st.gate THEN {slot(k) : k \in 1 .. n} ELSE {}
  BY Zenon DEF ActivateStateSteps
<1>4. \A a \in A : a.state = s /\ a.rev = revision /\ a.status = "active"
  BY <1>3
<1>5. ASSUME st.gate PROVE A # {} /\ IsFiniteSet(A) /\ Cardinality(A) = n
  <2> DEFINE f == [k \in 1 .. n |-> slot(k)]
  <2>1. A = {slot(k) : k \in 1 .. n}
    BY <1>3, <1>5, Zenon
  <2>2. f \in Bijection(1 .. n, A)
    <3>1. f \in Surjection(1 .. n, A)
      BY <2>1, Zenon DEF Surjection
    <3>2. f \in Injection(1 .. n, A)
      <4>1. \A k \in 1 .. n : f[k].seq = k
        BY Zenon
      <4>2. f \in [1 .. n -> A]
        BY <2>1, Zenon
      <4> HIDE DEF f
      <4> QED BY <4>1, <4>2, Zenon DEF Injection, IsInjective
    <3> QED BY <3>1, <3>2, Zenon DEF Bijection
  <2>3. IsFiniteSet(1 .. n) /\ Cardinality(1 .. n) = n
    BY <1>2, FS_Interval
  <2>4. ExistsBijection(1 .. n, A)
    BY <2>2, Zenon DEF ExistsBijection
  <2>5. IsFiniteSet(A) /\ Cardinality(A) = n
    <3> HIDE DEF A, n
    <3> QED BY <2>3, <2>4, FS_Bijection, Zenon
  <2>6. slot(1) \in A
    <3>1. 1 \in 1 .. n
      BY <1>2
    <3> HIDE DEF slot, n
    <3> QED BY <2>1, <3>1, Zenon
  <2> QED BY <2>5, <2>6, Zenon
<1> HIDE DEF slot
<1> QED BY <1>3, <1>4, <1>5, Zenon

-----------------------------------------------------------------------------
(* Rewriting the rows of the visit an instance stands at touches no other   *)
(* visit.                                                                   *)
LEMMA RewriteGate ==
  ASSUME NEW i, NEW G, \A g \in G : g.state = i.current /\ g.rev = i.revision
  PROVE  /\ {s \in (i.steps \ CurrentGate(i)) \cup G :
                s.state = i.current /\ s.rev = i.revision} = G
         /\ \A st, r : ~(st = i.current /\ r = i.revision) =>
              {s \in (i.steps \ CurrentGate(i)) \cup G : s.state = st /\ s.rev = r}
                = GateSteps(i, st, r)
BY Zenon DEF CurrentGate, GateSteps

(* Leaving a visit.  j is i after an action that moves it to a later visit, *)
(* G the rows of the visit it leaves; none of them is still open, and if    *)
(* the action is an approval enough of them are signed.                     *)
LEMMA LeaveVisit ==
  ASSUME NEW i, InstInv(i), NEW action \in Actions,
         NEW to \in StatesOf(i.def), NEW revision \in Nat,
         NEW key \in Keys \cup {NoKey},
         NEW G \in SUBSET StepRecords,
         i.revision <= revision,
         revision = i.revision => Rank[i.def][i.current] < Rank[i.def][to],
         revision # i.revision => action # "approve",
         to = i.current => ~StateOf(i.def, to).gate,
         G # {} => StateOf(i.def, i.current).gate,
         \A g \in G : /\ g.state = i.current /\ g.rev = i.revision
                      /\ g.status # "active"
                      /\ g.status = "done" /\ StateOf(i.def, g.state).segregate
                           => g.actor # i.originator,
         \A g, h \in G : g.status = "done" /\ h.status = "done" /\ g.actor = h.actor
                           => g = h,
         action = "approve" =>
           Cardinality(DoneIn(G)) >= Needed(StateOf(i.def, i.current))
  PROVE  StepsInv(Advance(i, action, to, (i.steps \ CurrentGate(i)) \cup G, revision, key))
<1> DEFINE rows == (i.steps \ CurrentGate(i)) \cup G
           j == Advance(i, action, to, rows, revision, key)
           new == IF to # i.current THEN ActivateStateSteps(i.def, to, revision) ELSE {}
           e == [action |-> action, from |-> i.current, to |-> to,
                 key |-> key, rev |-> revision]
<1>1. TypedInstance(i) /\ StepsInv(i)
  BY Zenon DEF InstInv
<1>2. /\ i \in InstanceRecords /\ i.def \in Versions
      /\ i.current \in StatesOf(i.def) /\ i.revision \in Nat
      /\ i.steps \subseteq StepRecords /\ i.events \in Seq(EventRecords)
      /\ Rank[i.def][i.current] \in Nat
  BY <1>1, InstanceFacts, Zenon
<1>3. /\ j.def = i.def /\ j.originator = i.originator /\ j.current = to
      /\ j.revision = revision /\ j.steps = rows \cup new
      /\ j.events = Append(i.events, e)
  <2>1. i \in InstanceRecords
    BY <1>2, Zenon
  <2> HIDE DEF rows
  <2> QED BY ONLY <2>1, Zenon DEF Advance, InstanceRecords
<1>4. /\ \A a \in new : a.state = to /\ a.rev = revision /\ a.status = "active"
                        /\ StateOf(i.def, to).gate
      /\ StateOf(i.def, to).gate =>
           /\ new # {} /\ IsFiniteSet(new)
           /\ Cardinality(new) = SlotCount(StateOf(i.def, to))
  <2> DEFINE fresh == ActivateStateSteps(i.def, to, revision)
  <2>1. /\ fresh # {} => StateOf(i.def, to).gate
        /\ \A a \in fresh : a.state = to /\ a.rev = revision /\ a.status = "active"
        /\ StateOf(i.def, to).gate =>
             /\ fresh # {} /\ IsFiniteSet(fresh)
             /\ Cardinality(fresh) = SlotCount(StateOf(i.def, to))
    BY ONLY <1>2, to \in StatesOf(i.def), revision \in Nat, FreshSlots
  <2>2. StateOf(i.def, to).gate => new = fresh
    BY Zenon DEF new
  <2>3. \A a \in new : a \in fresh
    BY Zenon DEF new
  <2> HIDE DEF fresh, new
  <2> QED BY ONLY <2>1, <2>2, <2>3, Zenon
<1>5. \A s \in StatesOf(i.def) : Rank[i.def][s] \in Nat
  BY <1>2, DefinitionsAssumption, Zenon DEF WellBehaved
<1>gate. /\ {s \in rows : s.state = i.current /\ s.rev = i.revision} = G
         /\ \A st, r : ~(st = i.current /\ r = i.revision) =>
              {s \in rows : s.state = st /\ s.rev = r} = GateSteps(i, st, r)
  <2>1. \A g \in G : g.state = i.current /\ g.rev = i.revision
    BY Zenon
  <2> QED BY ONLY <2>1, RewriteGate, Zenon
<1>6. \A s : \A r \in Nat : Behind(i, s, r) => Left(j, s, r)
  <2> HIDE DEF j, new, rows, e
  <2> SUFFICES ASSUME NEW s, NEW r \in Nat, Behind(i, s, r) PROVE Left(j, s, r)
    BY Zenon
  <2>1. s \in StatesOf(i.def) /\ r <= i.revision
        /\ (r = i.revision => Rank[i.def][s] <= Rank[i.def][i.current])
    BY Zenon DEF Behind
  <2>2. r <= revision
    BY <1>2, <2>1
  <2>3. r = revision => Rank[i.def][s] < Rank[i.def][to]
    <3> SUFFICES ASSUME r = revision PROVE Rank[i.def][s] < Rank[i.def][to]
      BY Zenon
    <3>1. r = i.revision /\ revision = i.revision
      BY <1>2, <2>1
    <3>2. Rank[i.def][s] \in Nat /\ Rank[i.def][to] \in Nat
      BY <1>5, <2>1, Zenon
    <3> QED BY <1>2, <2>1, <3>1, <3>2
  <2> QED BY <1>3, <2>1, <2>2, <2>3, Zenon DEF Left
<1>7. \A s, r : Left(j, s, r) => ~(s = to /\ r = revision)
  <2> HIDE DEF j, new, rows, e
  <2>1. Rank[i.def][to] \in Nat
    BY <1>5, Zenon
  <2> QED BY <1>3, <2>1 DEF Left
<1>8. \A s \in rows : s \in StepRecords /\ Behind(i, s.state, s.rev)
                      /\ StateOf(i.def, s.state).gate
  <2>1. \A g \in G : Behind(i, g.state, g.rev) /\ StateOf(i.def, g.state).gate
    BY <1>2 DEF Behind
  <2> QED BY <1>1, <1>2, <2>1, Zenon DEF StepsInv, VisitsIn
<1>9. \A s \in rows : s.rev \in Nat /\ Left(j, s.state, s.rev)
  <2> HIDE DEF rows, j
  <2>1. \A s \in rows : s.rev \in Nat
    BY <1>8, Zenon DEF StepRecords
  <2> QED BY <1>6, <1>8, <2>1, Zenon
<1>10. \A s \in rows : s.status # "active"
  BY <1>1, Zenon DEF StepsInv, OpenSlotsCurrentIn, CurrentGate, GateSteps
<1>11. NoSelfApprovalIn(j)
  <2>1. \A s \in rows : s.status = "done" /\ StateOf(i.def, s.state).segregate
                          => s.actor # i.originator
    BY <1>1, Zenon DEF StepsInv, NoSelfApprovalIn
  <2> HIDE DEF rows, new, j, e
  <2> QED BY <1>3, <1>4, <2>1, Zenon DEF NoSelfApprovalIn
<1>12. FourEyesIn(j)
  <2>1. \A s, t \in rows :
          s.status = "done" /\ t.status = "done" /\ s.state = t.state /\ s.rev = t.rev
            /\ s.actor = t.actor => s = t
    <3>1. \A s \in rows : s.state = i.current /\ s.rev = i.revision => s \in G
      BY Zenon DEF CurrentGate, GateSteps
    <3>2. \A s \in rows : ~(s.state = i.current /\ s.rev = i.revision) => s \in i.steps
      BY Zenon
    <3> HIDE DEF rows
    <3> QED BY <1>1, <3>1, <3>2, Zenon DEF StepsInv, FourEyesIn
  <2> HIDE DEF rows, new, j, e
  <2> QED BY <1>3, <1>4, <2>1, Zenon DEF FourEyesIn
<1>13. OpenSlotsCurrentIn(j)
  <2> HIDE DEF rows, new, j, e
  <2> QED BY <1>3, <1>4, <1>10, Zenon DEF OpenSlotsCurrentIn
<1>14. CurrentGate(j) = new
  <2> HIDE DEF rows, new, j, e
  <2>1. \A s \in rows : ~(s.state = to /\ s.rev = revision)
    BY <1>7, <1>9, Zenon
  <2> QED BY <1>3, <1>4, <2>1, Zenon DEF CurrentGate, GateSteps
<1>15. GateOpenIn(j)
  <2> HIDE DEF rows, new, j, e
  <2> QED BY <1>3, <1>4, <1>14, Zenon DEF GateOpenIn, ActiveIn
<1>16. /\ Len(j.events) = Len(i.events) + 1 /\ Len(i.events) \in Nat
       /\ j.events[Len(i.events) + 1] = e
       /\ \A k \in 1 .. Len(i.events) : j.events[k] = i.events[k]
  <2>1. e \in EventRecords
    BY <1>2, Zenon DEF EventRecords, AllStates
  <2> HIDE DEF e, j, rows, new
  <2> QED BY <1>2, <1>3, <2>1
<1>17. \A k \in 1 .. Len(j.events) :
         Passed(j.events[k]) =>
           /\ Left(j, j.events[k].from, j.events[k].rev)
           /\ Cardinality(DoneIn(GateSteps(j, j.events[k].from, j.events[k].rev)))
                >= Needed(StateOf(j.def, j.events[k].from))
  <2> SUFFICES ASSUME NEW k \in 1 .. Len(j.events), Passed(j.events[k])
               PROVE  /\ Left(j, j.events[k].from, j.events[k].rev)
                      /\ Cardinality(DoneIn(GateSteps(j, j.events[k].from, j.events[k].rev)))
                           >= Needed(StateOf(j.def, j.events[k].from))
    BY Zenon
  <2>1. CASE k \in 1 .. Len(i.events)
    <3> DEFINE f == i.events[k]
    <3>1. j.events[k] = f /\ Passed(f) /\ f \in EventRecords
      <4> HIDE DEF j, e, rows, new
      <4>1. j.events[k] = i.events[k]
        BY ONLY <1>16, <2>1, Zenon
      <4>2. i.events[k] \in EventRecords
        BY ONLY <1>2, <2>1
      <4> QED BY ONLY <4>1, <4>2, Passed(j.events[k]), Zenon
    <3>2. Left(i, f.from, f.rev) /\ f.rev \in Nat
      BY <1>1, <2>1, <3>1, Zenon DEF StepsInv, VisitsIn, EventRecords
    <3>3. Behind(i, f.from, f.rev) /\ ~(f.from = i.current /\ f.rev = i.revision)
      <4> HIDE DEF f
      <4>1. /\ f.from \in StatesOf(i.def) /\ f.rev <= i.revision
            /\ f.rev = i.revision => Rank[i.def][f.from] < Rank[i.def][i.current]
        BY ONLY <3>2, Zenon DEF Left
      <4>2. Rank[i.def][f.from] \in Nat /\ Rank[i.def][i.current] \in Nat
        BY ONLY <1>2, <1>5, <4>1, Zenon
      <4>3. Behind(i, f.from, f.rev)
        BY ONLY <4>1, <4>2 DEF Behind
      <4>4. ~(f.from = i.current /\ f.rev = i.revision)
        BY ONLY <4>1, <4>2
      <4> QED BY ONLY <4>3, <4>4, Zenon
    <3>4. Left(j, f.from, f.rev)
      <4> HIDE DEF f, j
      <4> QED BY <1>6, <3>2, <3>3, Zenon
    <3>5. GateSteps(j, f.from, f.rev) = GateSteps(i, f.from, f.rev)
      <4>1. ~(f.from = to /\ f.rev = revision)
        <5> HIDE DEF f, j
        <5> QED BY <1>7, <3>4, Zenon
      <4>2. {s \in rows : s.state = f.from /\ s.rev = f.rev} = GateSteps(i, f.from, f.rev)
        <5> HIDE DEF f, rows
        <5> QED BY ONLY <1>gate, <3>3, Zenon
      <4> HIDE DEF f, j, rows, new, e
      <4> QED BY <1>3, <1>4, <4>1, <4>2, Zenon DEF GateSteps
    <3>6. Cardinality(DoneIn(GateSteps(i, f.from, f.rev))) >= Needed(StateOf(i.def, f.from))
      BY <1>1, <2>1, <3>1, Zenon DEF StepsInv, FanInIn
    <3> HIDE DEF f, j
    <3> QED BY <1>3, <3>1, <3>4, <3>5, <3>6, Zenon
  <2>2. CASE k = Len(i.events) + 1
    <3>1. j.events[k] = e
      <4> HIDE DEF e, j
      <4> QED BY <1>16, <2>2, Zenon
    <3>2. action = "approve" /\ revision = i.revision
      <4>1. Passed(e)
        <5> HIDE DEF j, e
        <5> QED BY ONLY <3>1, Passed(j.events[k]), Zenon
      <4>2. action = "approve"
        BY ONLY <4>1, Zenon DEF Passed
      <4> QED BY <4>2, Zenon
    <3>3. Left(j, i.current, revision)
      <4>1. Behind(i, i.current, i.revision)
        BY ONLY <1>2 DEF Behind
      <4> HIDE DEF j
      <4> QED BY <1>2, <1>6, <3>2, <4>1, Zenon
    <3>4. GateSteps(j, i.current, revision) = G
      <4>1. ~(i.current = to /\ revision = j.revision)
        <5> HIDE DEF j
        <5> QED BY <1>3, <1>7, <3>3, Zenon
      <4> HIDE DEF j, rows, new, e
      <4> QED BY <1>3, <1>4, <1>gate, <3>2, <4>1, Zenon DEF GateSteps
    <3>5. e.from = i.current /\ e.rev = revision
      BY Zenon
    <3> HIDE DEF j, e, rows, new
    <3> QED BY <1>3, <3>1, <3>2, <3>3, <3>4, <3>5, Zenon
  <2> HIDE DEF j, e, rows, new
  <2>3. k \in 1 .. Len(i.events) \/ k = Len(i.events) + 1
    BY ONLY <1>16, k \in 1 .. Len(j.events)
  <2> QED BY <2>1, <2>2, <2>3, Zenon
<1>18. FanInIn(j)
  <2> HIDE DEF j
  <2> QED BY <1>17, Zenon DEF FanInIn
<1>19. VisitsIn(j)
  <2>1. \A s \in j.steps : Behind(j, s.state, s.rev) /\ StateOf(j.def, s.state).gate
    <3>1. \A s \in new : Behind(j, s.state, s.rev) /\ StateOf(i.def, s.state).gate
      <4> HIDE DEF j, new, rows, e
      <4>1. j.revision = revision /\ j.current = to /\ j.def = i.def /\ revision \in Nat
            /\ Rank[i.def][to] \in Nat /\ to \in StatesOf(i.def)
        BY <1>3, <1>5, Zenon
      <4>2. Behind(j, to, revision)
        BY ONLY <4>1 DEF Behind
      <4> QED BY ONLY <1>4, <4>2, Zenon
    <3>2. \A s \in rows : Behind(j, s.state, s.rev) /\ StateOf(i.def, s.state).gate
      <4> HIDE DEF j, new, rows, e
      <4>1. \A s \in StatesOf(j.def) : Rank[j.def][s] \in Nat
        BY <1>3, <1>5, Zenon
      <4>2. \A s, r : Left(j, s, r) => Behind(j, s, r)
        BY <1>3, <4>1 DEF Left, Behind
      <4> QED BY <1>8, <1>9, <4>2, Zenon
    <3> HIDE DEF j, new, rows, e
    <3> QED BY <1>3, <3>1, <3>2, Zenon
  <2>2. StateOf(j.def, j.current).gate =>
          /\ IsFiniteSet(CurrentGate(j))
          /\ Cardinality(CurrentGate(j)) = SlotCount(StateOf(j.def, j.current))
          /\ \A s \in CurrentGate(j) : s.status \in {"active", "done"}
    <3> HIDE DEF j, new, rows, e
    <3> QED BY <1>3, <1>4, <1>14, Zenon
  <2> HIDE DEF j
  <2> QED BY <1>17, <2>1, <2>2, Zenon DEF VisitsIn
<1> HIDE DEF j
<1> QED BY <1>11, <1>12, <1>13, <1>15, <1>18, <1>19, Zenon DEF StepsInv, j

-----------------------------------------------------------------------------
(* Signing one open slot: the visit keeps its slots, the signature is a new *)
(* person's and not a segregated maker's, the join is met only by enough    *)
(* signatures, and as long as it is not met a slot is open.                 *)
LEMMA SignSlot ==
  ASSUME NEW i, InstInv(i), NEW u \in Users, NEW ws, AcceptsApprove(ws, i, u),
         NEW step \in ActiveIn(CurrentGate(i)), NEW behalf \in Users \cup {NoUser}
  PROVE  LET G  == ApproveGate(i, step, u, behalf)
             st == StateOf(i.def, i.current)
         IN  /\ st.gate
             /\ G \subseteq StepRecords
             /\ IsFiniteSet(G) /\ Cardinality(G) = SlotCount(st)
             /\ \A g \in G : /\ g.state = i.current /\ g.rev = i.revision
                             /\ g.status \in {"active", "done"}
                             /\ g.status = "done" /\ st.segregate => g.actor # i.originator
             /\ \A g, h \in G : g.status = "done" /\ h.status = "done" /\ g.actor = h.actor
                                  => g = h
             /\ JoinSatisfied(st, G) => Cardinality(DoneIn(G)) >= Needed(st)
             /\ ~JoinSatisfied(st, G) => ActiveIn(G) # {}
<1> DEFINE C == CurrentGate(i)
           d == [step EXCEPT !.status = "done", !.actor = u, !.behalf = behalf]
           G == ApproveGate(i, step, u, behalf)
           st == StateOf(i.def, i.current)
<1>1. TypedInstance(i) /\ StepsInv(i)
  BY Zenon DEF InstInv
<1>2. /\ i.def \in Versions /\ i.current \in StatesOf(i.def) /\ i.revision \in Nat
      /\ i.steps \subseteq StepRecords /\ st \in StateRecords
  BY <1>1, InstanceFacts, Zenon
<1>3. C \subseteq StepRecords /\ C \subseteq i.steps
      /\ \A s \in C : s.state = i.current /\ s.rev = i.revision
  BY <1>2, Zenon DEF CurrentGate, GateSteps
<1>4. step \in C /\ step.status = "active"
  BY Zenon DEF ActiveIn
<1>5. st.gate
  BY <1>1, <1>3, <1>4, Zenon DEF StepsInv, VisitsIn
<1>6. IsFiniteSet(C) /\ Cardinality(C) = SlotCount(st)
      /\ \A s \in C : s.status \in {"active", "done"}
  BY <1>1, <1>5, Zenon DEF StepsInv, VisitsIn
<1>7. /\ d \in StepRecords /\ d.state = i.current /\ d.rev = i.revision
      /\ d.status = "done" /\ d.actor = u
  BY <1>3, <1>4, Zenon DEF StepRecords, Statuses
<1>8. \A s \in C : s.status = "done" => s.actor # u
  BY Zenon DEF AcceptsApprove, AlreadyActed, DoneIn
<1>9. G = (C \ {step}) \cup {d}
  BY Zenon DEF ApproveGate
<1> HIDE DEF C, d, G, st
<1>10. d \notin C
  BY <1>7, <1>8, Zenon
<1>11. IsFiniteSet(G) /\ Cardinality(G) = SlotCount(st)
  <2>1. IsFiniteSet(C \ {step}) /\ Cardinality(C \ {step}) = Cardinality(C) - 1
    BY <1>4, <1>6, FS_RemoveElement, Zenon
  <2>2. d \notin C \ {step}
    BY <1>10, Zenon
  <2>3. IsFiniteSet(G) /\ Cardinality(G) = Cardinality(C \ {step}) + 1
    BY <1>9, <2>1, <2>2, FS_AddElement, Zenon
  <2>4. Cardinality(C) \in Nat
    BY <1>6, FS_CardinalityType, Zenon
  <2> QED BY <1>6, <2>1, <2>3, <2>4
<1>12. G \subseteq StepRecords
       /\ \A g \in G : g.state = i.current /\ g.rev = i.revision
                       /\ g.status \in {"active", "done"}
  BY <1>3, <1>6, <1>7, <1>9, Zenon
<1>13. st.segregate => u # i.originator
  <2>1. i.originator # NoUser => (st.segregate => u # i.originator)
    BY Zenon DEF AcceptsApprove, AssertSegregation, st
  <2> QED BY <2>1, NullsAssumption, Zenon
<1>14. \A g \in G : g.status = "done" /\ st.segregate => g.actor # i.originator
  <2>1. \A s \in C : s.status = "done" /\ st.segregate => s.actor # i.originator
    BY <1>1, <1>3, Zenon DEF StepsInv, NoSelfApprovalIn, st
  <2> QED BY <1>7, <1>9, <1>13, <2>1, Zenon
<1>15. \A g, h \in G : g.status = "done" /\ h.status = "done" /\ g.actor = h.actor => g = h
  <2>1. \A g, h \in C : g.status = "done" /\ h.status = "done" /\ g.actor = h.actor => g = h
    BY <1>1, <1>3, Zenon DEF StepsInv, FourEyesIn
  <2> QED BY <1>7, <1>8, <1>9, <2>1, Zenon
<1>16. ActiveIn(G) \cup DoneIn(G) = G
  BY <1>12, Zenon DEF ActiveIn, DoneIn
<1>17. /\ IsFiniteSet(DoneIn(G)) /\ Cardinality(DoneIn(G)) \in Nat
       /\ Cardinality(DoneIn(G)) >= 1 /\ DoneIn(G) \subseteq G
  <2>1. DoneIn(G) \in SUBSET G /\ d \in DoneIn(G)
    BY <1>7, <1>9, Zenon DEF DoneIn
  <2>2. IsFiniteSet(DoneIn(G))
    BY <1>11, <2>1, FS_Subset, Zenon
  <2>3. Cardinality(DoneIn(G)) \in Nat /\ Cardinality(DoneIn(G)) # 0
    BY <2>1, <2>2, FS_CardinalityType, FS_EmptySet, Zenon
  <2> QED BY <2>1, <2>2, <2>3
<1>18. JoinSatisfied(st, G) <=> Cardinality(DoneIn(G)) >= Required(st, Cardinality(G))
  BY <1>7, <1>9, <1>16, Zenon DEF JoinSatisfied
<1>19. Required(st, Cardinality(G)) = Needed(st)
  BY <1>11, Zenon DEF Required, Needed
<1>20. SlotCount(st) \in Nat /\ SlotCount(st) >= 1
  BY <1>2 DEF StateRecords, SlotCount
<1>21. Needed(st) \in Nat /\ Needed(st) <= SlotCount(st)
  <2>1. st.quorum \in Nat /\ st.quorum <= SlotCount(st)
    BY <1>2, DefinitionsAssumption, Zenon DEF WellBehaved, StateRecords, st
  <2> QED BY <1>20, <2>1 DEF Needed
<1>22. ASSUME ~JoinSatisfied(st, G) PROVE ActiveIn(G) # {}
  <2>1. Cardinality(DoneIn(G)) < Cardinality(G)
    BY <1>11, <1>17, <1>18, <1>19, <1>20, <1>21, <1>22
  <2>2. DoneIn(G) # G
    BY <1>11, <1>17, <1>20, <2>1
  <2> QED BY <1>16, <2>2, Zenon
<1>23. JoinSatisfied(st, G) => Cardinality(DoneIn(G)) >= Needed(st)
  BY <1>18, <1>19, Zenon
<1> QED BY <1>5, <1>11, <1>12, <1>14, <1>15, <1>22, <1>23, Zenon DEF G, st

(* An approval that does not meet the join: the instance stays, one slot    *)
(* more is signed, and the rest of the visit is still open.                 *)
LEMMA StayAtGate ==
  ASSUME NEW i, InstInv(i), NEW key \in Keys \cup {NoKey}, NEW G \in SUBSET StepRecords,
         StateOf(i.def, i.current).gate,
         IsFiniteSet(G), Cardinality(G) = SlotCount(StateOf(i.def, i.current)),
         ActiveIn(G) # {},
         \A g \in G : /\ g.state = i.current /\ g.rev = i.revision
                      /\ g.status \in {"active", "done"}
                      /\ g.status = "done" /\ StateOf(i.def, i.current).segregate
                           => g.actor # i.originator,
         \A g, h \in G : g.status = "done" /\ h.status = "done" /\ g.actor = h.actor
                           => g = h
  PROVE  StepsInv(Advance(i, "approve", i.current, (i.steps \ CurrentGate(i)) \cup G,
                          i.revision, key))
<1> DEFINE rows == (i.steps \ CurrentGate(i)) \cup G
           j == Advance(i, "approve", i.current, rows, i.revision, key)
           e == [action |-> "approve", from |-> i.current, to |-> i.current,
                 key |-> key, rev |-> i.revision]
<1>1. TypedInstance(i) /\ StepsInv(i)
  BY Zenon DEF InstInv
<1>2. /\ i \in InstanceRecords /\ i.def \in Versions
      /\ i.current \in StatesOf(i.def) /\ i.revision \in Nat
      /\ i.steps \subseteq StepRecords /\ i.events \in Seq(EventRecords)
      /\ Rank[i.def][i.current] \in Nat
  BY <1>1, InstanceFacts, Zenon
<1>3. /\ j.def = i.def /\ j.originator = i.originator /\ j.current = i.current
      /\ j.revision = i.revision /\ j.steps = rows
      /\ j.events = Append(i.events, e)
  <2>1. i \in InstanceRecords
    BY <1>2, Zenon
  <2> HIDE DEF rows
  <2>2. /\ j.def = i.def /\ j.originator = i.originator /\ j.current = i.current
        /\ j.revision = i.revision /\ j.events = Append(i.events, e)
    BY ONLY <2>1, Zenon DEF Advance, InstanceRecords
  <2>3. j.steps = rows
    BY ONLY <2>1, Zenon DEF Advance, InstanceRecords
  <2> QED BY <2>2, <2>3, Zenon
<1>4. \A s \in rows : s.state = i.current /\ s.rev = i.revision => s \in G
  BY Zenon DEF CurrentGate, GateSteps
<1>5. \A s \in rows : ~(s.state = i.current /\ s.rev = i.revision) => s \in i.steps
  BY Zenon
<1>6. /\ Len(j.events) = Len(i.events) + 1 /\ Len(i.events) \in Nat
      /\ j.events[Len(i.events) + 1] = e
      /\ \A k \in 1 .. Len(i.events) : j.events[k] = i.events[k]
  <2>1. e \in EventRecords
    BY <1>2, Zenon DEF EventRecords, AllStates, Actions, GateActions
  <2> HIDE DEF e, j, rows
  <2> QED BY ONLY <1>2, <1>3, <2>1
<1>7. ~Passed(e)
  BY Zenon DEF Passed
<1>gate. /\ {s \in rows : s.state = i.current /\ s.rev = i.revision} = G
         /\ \A st, r : ~(st = i.current /\ r = i.revision) =>
              {s \in rows : s.state = st /\ s.rev = r} = GateSteps(i, st, r)
  <2>1. \A g \in G : g.state = i.current /\ g.rev = i.revision
    BY Zenon
  <2> QED BY ONLY <2>1, RewriteGate, Zenon
<1>8. CurrentGate(j) = G
  <2> HIDE DEF j, rows, e
  <2> QED BY ONLY <1>3, <1>gate, Zenon DEF CurrentGate, GateSteps
<1>9. \A st, r : ~(st = i.current /\ r = i.revision)
                   => GateSteps(j, st, r) = GateSteps(i, st, r)
  <2> HIDE DEF j, rows, e
  <2>1. \A st, r : GateSteps(j, st, r) = {s \in rows : s.state = st /\ s.rev = r}
    BY ONLY <1>3, Zenon DEF GateSteps
  <2> QED BY ONLY <1>gate, <2>1, Zenon
<1>10. \A s, r : Behind(j, s, r) <=> Behind(i, s, r)
  <2> HIDE DEF j, rows, e
  <2> QED BY <1>3, Zenon DEF Behind
<1>11. \A s, r : Left(j, s, r) <=> Left(i, s, r)
  <2> HIDE DEF j, rows, e
  <2> QED BY <1>3, Zenon DEF Left
<1>12. Behind(i, i.current, i.revision)
  BY ONLY <1>2 DEF Behind
<1> HIDE DEF j, rows, e
<1>13. NoSelfApprovalIn(j)
  BY <1>1, <1>3, <1>4, <1>5, Zenon DEF StepsInv, NoSelfApprovalIn
<1>14. FourEyesIn(j)
  <2>0. j.steps = rows
    BY ONLY <1>3, Zenon
  <2> SUFFICES ASSUME NEW s \in rows, NEW t \in rows,
                      s.status = "done", t.status = "done",
                      s.state = t.state, s.rev = t.rev, s.actor = t.actor
               PROVE  s = t
    BY <2>0, Zenon DEF FourEyesIn
  <2>1. CASE s.state = i.current /\ s.rev = i.revision
    <3>1. s \in G /\ t \in G
      BY ONLY <1>4, <2>1, s \in rows, t \in rows, s.state = t.state, s.rev = t.rev, Zenon
    <3> QED BY <3>1, Zenon
  <2>2. CASE ~(s.state = i.current /\ s.rev = i.revision)
    <3>1. s \in i.steps /\ t \in i.steps
      BY ONLY <1>5, <2>2, s \in rows, t \in rows, s.state = t.state, s.rev = t.rev, Zenon
    <3>2. FourEyesIn(i)
      BY <1>1, Zenon DEF StepsInv
    <3> QED BY <3>1, <3>2, Zenon DEF FourEyesIn
  <2> QED BY <2>1, <2>2, Zenon
<1>15. OpenSlotsCurrentIn(j)
  BY <1>1, <1>3, <1>5, Zenon DEF StepsInv, OpenSlotsCurrentIn
<1>16. GateOpenIn(j)
  BY <1>8, Zenon DEF GateOpenIn
<1>17. \A k \in 1 .. Len(j.events) : Passed(j.events[k]) =>
         k \in 1 .. Len(i.events) /\ j.events[k] = i.events[k]
  BY <1>6, <1>7
<1>18. FanInIn(j)
  <2> SUFFICES ASSUME NEW k \in 1 .. Len(j.events), Passed(j.events[k])
               PROVE  Cardinality(DoneIn(GateSteps(j, j.events[k].from, j.events[k].rev)))
                        >= Needed(StateOf(j.def, j.events[k].from))
    BY Zenon DEF FanInIn
  <2> DEFINE f == i.events[k]
  <2>1. k \in 1 .. Len(i.events) /\ j.events[k] = f /\ Passed(f)
    BY <1>17, Zenon
  <2>2. Left(i, f.from, f.rev)
    BY <1>1, <2>1, Zenon DEF StepsInv, VisitsIn
  <2>3. GateSteps(j, f.from, f.rev) = GateSteps(i, f.from, f.rev)
    <3> HIDE DEF f
    <3>1. ~(f.from = i.current /\ f.rev = i.revision)
      BY ONLY <1>2, <2>2 DEF Left
    <3> QED BY ONLY <1>9, <3>1, Zenon
  <2>4. Cardinality(DoneIn(GateSteps(i, f.from, f.rev))) >= Needed(StateOf(i.def, f.from))
    BY <1>1, <2>1, Zenon DEF StepsInv, FanInIn
  <2> QED BY <1>3, <2>1, <2>3, <2>4, Zenon
<1>19. VisitsIn(j)
  <2>1. \A s \in j.steps : Behind(j, s.state, s.rev) /\ StateOf(j.def, s.state).gate
    BY <1>1, <1>3, <1>4, <1>5, <1>10, <1>12, Zenon DEF StepsInv, VisitsIn
  <2>2. \A k \in 1 .. Len(j.events) :
          Passed(j.events[k]) => Left(j, j.events[k].from, j.events[k].rev)
    BY <1>1, <1>11, <1>17, Zenon DEF StepsInv, VisitsIn
  <2> QED BY <1>3, <1>8, <2>1, <2>2, Zenon DEF VisitsIn
<1> QED BY <1>13, <1>14, <1>15, <1>16, <1>18, <1>19, Zenon DEF StepsInv, j, rows

-----------------------------------------------------------------------------
(* An authority resolved for an action is nobody or a known delegator.      *)
LEMMA AuthorityIsUser ==
  ASSUME NEW ws, NEW u, NEW perm, NEW b \in ResolveAuthority(ws, u, perm)
  PROVE  b \in Users \cup {NoUser}
BY Zenon DEF ResolveAuthority

(* j's log is i's with one more event.                                      *)
Logged(i, j) == \E e \in EventRecords : j.events = Append(i.events, e)

(* Every accepted action, whoever takes it, preserves the instance's rows.  *)
LEMMA ExecutePreserves ==
  ASSUME NEW i, InstInv(i), NEW ws, NEW u \in Users, NEW action \in Actions,
         NEW key \in Keys \cup {NoKey}, NEW comment, ~Replays(i, key),
         Accepts(ws, i, u, action, comment),
         NEW j \in ExecuteAction(ws, i, u, action, key)
  PROVE  /\ InstInv(j)
         /\ j.version = i.version + 1
         /\ j.def = i.def
         /\ Logged(i, j)
<1> DEFINE t == SelectTransition(i, action)
           others == i.steps \ CurrentGate(i)
           C == CurrentGate(i)
<1>1. TypedInstance(i) /\ LogOf(i) /\ KeysOf(i) /\ StepsInv(i)
  BY Zenon DEF InstInv
<1>2. /\ i \in InstanceRecords /\ i.def \in Versions
      /\ i.current \in StatesOf(i.def) /\ i.revision \in Nat
      /\ i.steps \subseteq StepRecords
      /\ i.originator \in Users \cup {NoUser}
  BY <1>1, InstanceFacts, Zenon
<1>3. Candidates(i, action) # {} /\ StateOf(i.def, i.current).kind # "terminal"
  BY Zenon DEF Accepts, AcceptsRoute
<1>4. t \in TransitionsOf(i.def) /\ t.from = i.current /\ t.action = action
      /\ t.to \in StatesOf(i.def)
  BY <1>2, <1>3, SelectedEdge, Zenon
<1>5. action # "resubmit" => Rank[i.def][i.current] < Rank[i.def][t.to] /\ t.to # i.current
  BY <1>2, <1>3, EdgeClimbs, Zenon
<1> HIDE DEF t
<1>6. ASSUME NEW to \in StatesOf(i.def), NEW steps \in SUBSET StepRecords,
             NEW revision \in Nat, j = Advance(i, action, to, steps, revision, key),
             StepsInv(j)
      PROVE  /\ InstInv(j) /\ j.version = i.version + 1 /\ j.def = i.def
             /\ Logged(i, j)
  <2> DEFINE e == [action |-> action, from |-> i.current, to |-> to,
                   key |-> key, rev |-> revision]
  <2>1. TypedInstance(j)
    BY <1>1, <1>6, AdvanceTyped, Zenon
  <2>2. LogOf(j)
    BY <1>1, <1>6, AdvanceLogs, Zenon
  <2>3. KeysOf(j)
    BY <1>1, <1>6, AdvanceKeys, Zenon
  <2>4. j.version = i.version + 1 /\ j.def = i.def /\ j.events = Append(i.events, e)
    <3>1. i \in InstanceRecords /\ j = Advance(i, action, to, steps, revision, key)
      BY <1>2, <1>6, Zenon
    <3>2. j.version = i.version + 1 /\ j.def = i.def
      BY ONLY <3>1, Zenon DEF Advance, InstanceRecords
    <3>3. j.events = Append(i.events, e)
      BY ONLY <3>1, Zenon DEF Advance, InstanceRecords
    <3> QED BY <3>2, <3>3, Zenon
  <2>5. e \in EventRecords
    BY <1>2, Zenon DEF EventRecords, AllStates
  <2> QED BY <1>6, <2>1, <2>2, <2>3, <2>4, <2>5, Zenon DEF InstInv, Logged
<1>7. CASE action = "approve"
  <2>1. PICK step \in ActiveIn(C), b \in ResolveAuthority(ws, u, StateOf(i.def, i.current).perm) :
          j = AfterApprove(i, step, u, b, key)
    BY <1>7 DEF ExecuteAction
  <2>2. b \in Users \cup {NoUser}
    BY AuthorityIsUser, Zenon
  <2>3. AcceptsApprove(ws, i, u)
    BY <1>7, Zenon DEF Accepts
  <2> DEFINE G == ApproveGate(i, step, u, b)
             st == StateOf(i.def, i.current)
             S == SkipActive(G)
  <2>4. /\ st.gate /\ G \subseteq StepRecords
        /\ IsFiniteSet(G) /\ Cardinality(G) = SlotCount(st)
        /\ \A g \in G : /\ g.state = i.current /\ g.rev = i.revision
                        /\ g.status \in {"active", "done"}
                        /\ g.status = "done" /\ st.segregate => g.actor # i.originator
        /\ \A g, h \in G : g.status = "done" /\ h.status = "done" /\ g.actor = h.actor
                             => g = h
        /\ JoinSatisfied(st, G) => Cardinality(DoneIn(G)) >= Needed(st)
        /\ ~JoinSatisfied(st, G) => ActiveIn(G) # {}
    <3>1. InstInv(i) /\ u \in Users /\ step \in ActiveIn(CurrentGate(i))
      BY Zenon
    <3> QED BY ONLY <2>2, <2>3, <3>1, SignSlot, ZenonT(40)
  <2>5. IF JoinSatisfied(st, G)
        THEN j = Advance(i, "approve", SelectTransition(i, "approve").to, others \cup S,
                         i.revision, key)
        ELSE j = Advance(i, "approve", i.current, others \cup G, i.revision, key)
    BY <2>1, Zenon DEF AfterApprove
  <2> HIDE DEF G, st
  <2>6. CASE ~JoinSatisfied(st, G)
    <3>1. StepsInv(j)
      <4> DEFINE k == Advance(i, "approve", i.current, others \cup G, i.revision, key)
      <4>1. G \in SUBSET StepRecords /\ ActiveIn(G) # {}
        BY <2>4, <2>6, Zenon
      <4>2. StepsInv(k)
        BY <2>4, <4>1, StayAtGate, Zenon DEF st
      <4> QED BY <2>5, <2>6, <4>2, Zenon
    <3>2. others \cup G \in SUBSET StepRecords
      BY <1>2, <2>4, Zenon
    <3> QED BY <1>2, <1>6, <1>7, <2>5, <2>6, <3>1, <3>2, Zenon
  <2>7. CASE JoinSatisfied(st, G)
    <3>1. S \subseteq StepRecords
      BY <2>4, ZenonT(40) DEF SkipActive, StepRecords, Statuses
    <3>2. \A s \in S : \E g \in G :
            /\ s.state = g.state /\ s.rev = g.rev /\ s.status # "active"
            /\ s.status = "done" => s = g
      BY <2>4, Zenon DEF SkipActive, StepRecords
    <3>3. \A g \in G : g.status = "done" => g \in S
      BY Zenon DEF SkipActive
    <3> HIDE DEF S
    <3>4. DoneIn(S) = DoneIn(G)
      BY <3>2, <3>3, Zenon DEF DoneIn
    <3>5. /\ \A g \in S : /\ g.state = i.current /\ g.rev = i.revision
                          /\ g.status # "active"
                          /\ g.status = "done" /\ StateOf(i.def, g.state).segregate
                               => g.actor # i.originator
          /\ \A g, h \in S : g.status = "done" /\ h.status = "done" /\ g.actor = h.actor
                               => g = h
      <4>1. /\ \A g \in G : /\ g.state = i.current /\ g.rev = i.revision
                            /\ g.status = "done" /\ st.segregate => g.actor # i.originator
            /\ \A g, h \in G : g.status = "done" /\ h.status = "done" /\ g.actor = h.actor
                                 => g = h
        BY ONLY <2>4, Zenon
      <4>2. ASSUME NEW g \in S
            PROVE  /\ g.state = i.current /\ g.rev = i.revision /\ g.status # "active"
                   /\ g.status = "done" /\ st.segregate => g.actor # i.originator
        BY ONLY <3>2, <4>1, <4>2, Zenon
      <4>3. ASSUME NEW g \in S, NEW h \in S, g.status = "done", h.status = "done",
                   g.actor = h.actor
            PROVE  g = h
        <5>1. g \in G /\ h \in G
          BY ONLY <3>2, <4>3, Zenon
        <5> QED BY ONLY <4>1, <4>3, <5>1, Zenon
      <4> QED BY ONLY <4>2, <4>3, Zenon DEF st
    <3>6. Cardinality(DoneIn(S)) >= Needed(StateOf(i.def, i.current))
      BY <2>4, <2>7, <3>4, Zenon DEF st
    <3>7. j = Advance(i, action, t.to, others \cup S, i.revision, key)
      BY <1>7, <2>5, <2>7, Zenon DEF t
    <3>8. t.to # i.current /\ Rank[i.def][i.current] < Rank[i.def][t.to]
      BY <1>5, <1>7, Zenon
    <3>9. i.revision <= i.revision /\ StateOf(i.def, i.current).gate
      <4>1. i.revision \in Nat
        BY ONLY <1>2, Zenon
      <4>2. st.gate
        BY ONLY <2>4, Zenon
      <4> QED BY ONLY <4>1, <4>2 DEF st
    <3>10. StepsInv(Advance(i, action, t.to, others \cup S, i.revision, key))
      BY <1>2, <1>4, <3>1, <3>5, <3>6, <3>8, <3>9, LeaveVisit, Zenon
    <3>11. others \cup S \in SUBSET StepRecords
      BY <1>2, <3>1, Zenon
    <3> QED BY <1>2, <1>4, <1>6, <3>7, <3>10, <3>11, Zenon
  <2> QED BY <2>6, <2>7, Zenon
<1>8. CASE action \in {"return", "reject"}
  <2>1. PICK b \in SendBackAuthority(ws, i, u, action) :
          j = AfterSendBack(i, action, u, b, key)
    BY <1>8 DEF ExecuteAction
  <2>2. b \in Users \cup {NoUser}
    BY AuthorityIsUser, Zenon DEF SendBackAuthority
  <2> DEFINE S == ResolveGate(C, action, u, b)
  <2>3. j = Advance(i, action, t.to, others \cup S, i.revision, key)
    BY <2>1, Zenon DEF AfterSendBack, t
  <2>4. C \subseteq StepRecords /\ C \subseteq i.steps
        /\ \A c \in C : c.state = i.current /\ c.rev = i.revision
    BY <1>2, Zenon DEF CurrentGate, GateSteps
  <2>5. S \subseteq StepRecords
    <3> SUFFICES ASSUME NEW s \in S PROVE s \in StepRecords
      BY Zenon
    <3>1. PICK c \in C :
            s = IF c.status = "active"
                THEN [c EXCEPT !.status = IF action = "return" THEN "returned" ELSE "skipped",
                               !.actor = u, !.behalf = b]
                ELSE c
      BY ONLY s \in S, Zenon DEF ResolveGate
    <3>2. c \in StepRecords
      BY ONLY <2>4, c \in C, Zenon
    <3> QED BY ONLY <2>2, <3>1, <3>2, u \in Users, Zenon DEF StepRecords, Statuses
  <2>6. \A s \in S : \E c \in C :
          /\ s.state = c.state /\ s.rev = c.rev /\ s.status # "active"
          /\ s.status = "done" => s = c
    BY <1>8, <2>4, Zenon DEF ResolveGate, StepRecords
  <2> HIDE DEF S, C
  <2>7. S # {} => StateOf(i.def, i.current).gate
    BY <1>1, <2>4, <2>6, Zenon DEF StepsInv, VisitsIn
  <2>8. /\ \A g \in S : /\ g.state = i.current /\ g.rev = i.revision
                        /\ g.status # "active"
                        /\ g.status = "done" /\ StateOf(i.def, g.state).segregate
                             => g.actor # i.originator
        /\ \A g, h \in S : g.status = "done" /\ h.status = "done" /\ g.actor = h.actor
                             => g = h
    <3>1. \A c \in C : c.status = "done" /\ StateOf(i.def, c.state).segregate
                         => c.actor # i.originator
      BY <1>1, <2>4, Zenon DEF StepsInv, NoSelfApprovalIn
    <3>2. \A g, h \in C : g.status = "done" /\ h.status = "done" /\ g.actor = h.actor
                            => g = h
      BY <1>1, <2>4, Zenon DEF StepsInv, FourEyesIn
    <3> QED BY <2>4, <2>6, <3>1, <3>2, Zenon
  <2>9. t.to # i.current /\ Rank[i.def][i.current] < Rank[i.def][t.to]
    BY <1>5, <1>8, Zenon
  <2>10. i.revision <= i.revision
    <3>1. i.revision \in Nat
      BY ONLY <1>2, Zenon
    <3> QED BY ONLY <3>1
  <2>11. StepsInv(Advance(i, action, t.to, others \cup S, i.revision, key))
    BY <1>2, <1>4, <1>8, <2>5, <2>7, <2>8, <2>9, <2>10, LeaveVisit, Zenon
  <2>12. others \cup S \in SUBSET StepRecords
    BY <1>2, <2>5, Zenon
  <2> QED BY <1>2, <1>4, <1>6, <2>3, <2>11, <2>12, Zenon
<1>9. CASE action \in OriginatorActions
  <2> DEFINE rev == IF action = "resubmit" THEN i.revision + 1 ELSE i.revision
  <2>1. j = Advance(i, action, t.to, i.steps, rev, key)
    BY <1>9 DEF ExecuteAction, AfterOriginator, OriginatorActions, t
  <2>2. ~StateOf(i.def, i.current).gate
    BY <1>2, <1>4, <1>9, DefinitionsAssumption, Zenon DEF WellBehaved
  <2>3. C = {}
    BY <1>1, <2>2, Zenon DEF StepsInv, VisitsIn, CurrentGate, GateSteps
  <2>4. i.steps = others \cup {}
    BY <2>3, Zenon
  <2>5. /\ rev \in Nat /\ i.revision <= rev
        /\ rev = i.revision => Rank[i.def][i.current] < Rank[i.def][t.to]
        /\ action # "approve"
    BY ONLY <1>2, <1>5, <1>9 DEF OriginatorActions
  <2> HIDE DEF rev
  <2>6. StepsInv(Advance(i, action, t.to, others \cup {}, rev, key))
    <3> DEFINE N == {}
    <3>1. N \in SUBSET StepRecords /\ N = {}
      BY Zenon
    <3> HIDE DEF N
    <3>2. StepsInv(Advance(i, action, t.to, others \cup N, rev, key))
      BY <1>2, <1>4, <2>2, <2>5, <3>1, LeaveVisit, Zenon
    <3> QED BY <3>1, <3>2, Zenon
  <2> QED BY <1>2, <1>4, <1>6, <2>1, <2>4, <2>5, <2>6, Zenon
<1> QED BY <1>7, <1>8, <1>9, Zenon DEF Actions, GateActions

-----------------------------------------------------------------------------
(* start_instance leaves an instance that satisfies the invariant: a fresh  *)
(* log of one event and, when the initial state is a gate, its open slots.  *)
LEMMA StartEstablishes ==
  ASSUME NEW v \in Versions, NEW u \in Originators, NEW amount \in Amounts \cup {NoAmount}
  PROVE  InstInv(StartInstance(v, u, amount))
<1> DEFINE i == StartInstance(v, u, amount)
           s0 == Definitions[v].initial
           e == [action |-> "started", from |-> s0, to |-> s0, key |-> NoKey, rev |-> 1]
           A == ActivateStateSteps(v, s0, 1)
<1>1. s0 \in StatesOf(v) /\ s0 \in AllStates
  <2>1. ValidateGraph(v)
    BY DefinitionsAssumption, Zenon
  <2>2. s0 \in StatesOf(v)
    BY ONLY <2>1, Zenon DEF ValidateGraph
  <2> QED BY ONLY <2>2, v \in Versions, Zenon DEF AllStates
<1>2. e \in EventRecords
  BY <1>1, Zenon DEF EventRecords
<1>3. /\ i.def = v /\ i.current = s0 /\ i.originator = u /\ i.amount = amount
      /\ i.version = 1 /\ i.revision = 1 /\ i.steps = A /\ i.events = <<e>>
  BY Zenon DEF StartInstance
<1>4. A \subseteq StepRecords
  <2>1. SUFFICES ASSUME NEW x \in A PROVE x \in StepRecords
    BY Zenon
  <2>2. PICK n \in 1 .. SlotCount(StateOf(v, s0)) :
          x = [state |-> s0, rev |-> 1, seq |-> n, status |-> "active",
               actor |-> NoUser, behalf |-> NoUser]
    BY <2>1, Zenon DEF ActivateStateSteps
  <2>3. n \in Nat
    BY ONLY n \in 1 .. SlotCount(StateOf(v, s0))
  <2> HIDE DEF s0
  <2> QED BY ONLY <1>1, <2>2, <2>3, Zenon DEF StepRecords, Statuses
<1>5. <<e>> \in Seq(EventRecords) /\ Len(<<e>>) = 1 /\ <<e>>[1] = e /\ <<e>> # <<>>
  <2> HIDE DEF e
  <2> QED BY <1>2
<1>6. TypedInstance(i)
  <2>1. i = [def |-> v, current |-> s0, originator |-> u, amount |-> amount,
             version |-> 1, revision |-> 1, steps |-> A, events |-> <<e>>]
    BY Zenon DEF StartInstance
  <2>2. i \in InstanceRecords
    <3> HIDE DEF e, A, s0, i
    <3> QED BY <1>1, <1>4, <1>5, <2>1, Zenon DEF InstanceRecords
  <2> HIDE DEF i, s0
  <2> QED BY <1>1, <1>3, <2>2, Zenon DEF TypedInstance
<1>7. /\ \A a \in A : a.state = s0 /\ a.rev = 1 /\ a.status = "active" /\ StateOf(v, s0).gate
      /\ StateOf(v, s0).gate =>
           A # {} /\ IsFiniteSet(A) /\ Cardinality(A) = SlotCount(StateOf(v, s0))
  <2>1. s0 \in StatesOf(v) /\ 1 \in Nat
    BY <1>1, Zenon
  <2> HIDE DEF s0
  <2>2. /\ A # {} => StateOf(v, s0).gate
        /\ \A a \in A : a.state = s0 /\ a.rev = 1 /\ a.status = "active"
        /\ StateOf(v, s0).gate =>
             A # {} /\ IsFiniteSet(A) /\ Cardinality(A) = SlotCount(StateOf(v, s0))
    BY ONLY v \in Versions, <2>1, FreshSlots
  <2> HIDE DEF A
  <2> QED BY ONLY <2>2, Zenon
<1>8. ~Passed(e) /\ e.to = s0
  BY Zenon DEF Passed
<1>9. \A k \in 1 .. Len(i.events) : k = 1 /\ i.events[k] = e
  <2> HIDE DEF e, i
  <2> QED BY <1>3, <1>5
<1> HIDE DEF i, A, e, s0
<1>10. LogOf(i)
  BY <1>3, <1>5, <1>8, Zenon DEF LogOf, FoldEvents
<1>11. KeysOf(i)
  BY <1>9, Zenon DEF KeysOf
<1>12. CurrentGate(i) = A
  BY <1>3, <1>7, Zenon DEF CurrentGate, GateSteps
<1>13. NoSelfApprovalIn(i) /\ FourEyesIn(i) /\ OpenSlotsCurrentIn(i)
  BY <1>3, <1>7, Zenon DEF NoSelfApprovalIn, FourEyesIn, OpenSlotsCurrentIn
<1>14. GateOpenIn(i)
  BY <1>3, <1>7, <1>12, Zenon DEF GateOpenIn, ActiveIn
<1>15. FanInIn(i)
  BY <1>8, <1>9, Zenon DEF FanInIn
<1>16. VisitsIn(i)
  <2>1. Rank[v][s0] \in Nat
    BY <1>1, DefinitionsAssumption, Zenon DEF WellBehaved
  <2>2. Behind(i, s0, 1)
    BY <1>1, <1>3, <2>1 DEF Behind
  <2> QED BY <1>3, <1>7, <1>8, <1>9, <1>12, <2>2, Zenon DEF VisitsIn
<1> QED BY <1>6, <1>10, <1>11, <1>13, <1>14, <1>15, <1>16, Zenon DEF InstInv, StepsInv, i

-----------------------------------------------------------------------------
(* The inductive invariant of the engine: the rows of the started instance  *)
(* satisfy InstInv, and what a client read is a snapshot of a past or the   *)
(* present version.                                                         *)
IInv ==
  /\ TypeOK
  /\ Started => InstInv(inst)
  /\ TokenNamesState
  /\ ~Started => view = NoView

(* The specification keeps the inductive invariant.                         *)
THEOREM Inductive == Spec => []IInv
<1>1. Init => IInv
  BY Zenon DEF Init, IInv, TypeOK, Started, TokenNamesState
<1>2. IInv /\ [Next]_vars => IInv'
  <2> SUFFICES ASSUME IInv, [Next]_vars PROVE IInv'
    BY Zenon
  <2>1. ASSUME NEW v \in Versions, NEW u \in Originators,
               NEW amount \in Amounts \cup {NoAmount}, Start(v, u, amount)
        PROVE  IInv'
    <3>1. InstInv(inst')
      BY <2>1, StartEstablishes, Zenon DEF Start
    <3>2. TypedInstance(inst')
      BY <3>1, Zenon DEF InstInv
    <3>3. view' = NoView /\ inst' # NotStarted
      BY <2>1, <3>2, NotStartedAssumption, Zenon DEF IInv, Start, Started, TypedInstance
    <3> QED BY <2>1, <3>1, <3>2, <3>3, Zenon DEF IInv, TypeOK, Started, TokenNamesState, Start
  <2>2. ASSUME NEW u \in Users, NEW action \in Actions, NEW key \in Keys \cup {NoKey},
               NEW expected, NEW comment, Execute(u, action, key, expected, comment)
        PROVE  IInv'
    <3>1. InstInv(inst)
      BY <2>2, Zenon DEF IInv, Execute, Started
    <3>2. InstInv(inst') /\ inst'.version = inst.version + 1
      <4>1. /\ ~Replays(inst, key) /\ Accepts(oic, inst, u, action, comment)
            /\ inst' \in ExecuteAction(oic, inst, u, action, key)
        BY <2>2, Zenon DEF Execute
      <4> QED BY <3>1, <4>1, ExecutePreserves
    <3>3. TypedInstance(inst') /\ TypedInstance(inst)
      BY <3>1, <3>2, Zenon DEF InstInv
    <3>4. inst.version \in Nat
      BY <3>3, InstanceFacts, Zenon
    <3>5. view # NoView => view.version \in Nat /\ view.version <= inst.version
      BY <2>2, Zenon DEF IInv, TypeOK, TokenNamesState, Execute, Started
    <3>6. TokenNamesState'
      BY <2>2, <3>2, <3>4, <3>5 DEF TokenNamesState, Execute
    <3>7. TypeOK'
      BY <2>2, <3>3, Zenon DEF IInv, TypeOK, Execute
    <3>8. inst' # NotStarted
      BY <3>3, NotStartedAssumption, Zenon DEF TypedInstance
    <3> QED BY <3>2, <3>6, <3>7, <3>8, Zenon DEF IInv, Started
  <2>3. CASE Read
    <3>1. TypedInstance(inst)
      BY <2>3, Zenon DEF IInv, TypeOK, Started, Read
    <3>2. inst.version \in Nat
      BY <3>1, InstanceFacts, Zenon
    <3>3. /\ view' = Snapshot(inst) /\ inst' = inst /\ oic' = oic /\ flag' = flag
          /\ inst # NotStarted
      BY ONLY <2>3, Zenon DEF Read
    <3>4. view'.version = inst.version /\ inst.version <= inst.version
      BY ONLY <3>2, <3>3 DEF Snapshot
    <3>5. TypeOK'
      BY ONLY IInv, <3>2, <3>3, <3>4, Zenon DEF IInv, TypeOK, Started
    <3>6. TokenNamesState'
      BY ONLY <3>3, <3>4, Zenon DEF TokenNamesState
    <3>7. (Started => InstInv(inst))' /\ Started'
      BY ONLY IInv, <3>3, Zenon DEF IInv, Started
    <3> QED BY ONLY <3>5, <3>6, <3>7, Zenon DEF IInv
  <2>4. ASSUME NEW d \in Users, NEW u \in Users, OpenWindow(d, u) \/ CloseWindow(d, u)
        PROVE  IInv'
    BY <2>4, Zenon DEF IInv, TypeOK, TokenNamesState, Started, OpenWindow, CloseWindow
  <2>5. CASE SetFlag
    BY <2>5, Zenon DEF IInv, TypeOK, TokenNamesState, Started, SetFlag
  <2>6. CASE UNCHANGED vars
    BY <2>6, Zenon DEF IInv, TypeOK, TokenNamesState, Started, vars
  <2> QED BY <2>1, <2>2, <2>3, <2>4, <2>5, <2>6, Zenon DEF Next
<1> QED BY <1>1, <1>2, PTL DEF Spec

(* The columns always hold values of their types.                           *)
THEOREM TypeCorrect == Spec => []TypeOK
<1>1. IInv => TypeOK
  BY Zenon DEF IInv
<1> QED BY <1>1, Inductive, PTL

(* The decision log always folds to current_state_id and row_version counts *)
(* it (replay.py is_consistent; transitions.py execute_action).             *)
THEOREM LogAlwaysReplays == Spec => []LogReplays
<1>1. IInv => LogReplays
  BY Zenon DEF IInv, InstInv, LogReplays
<1> QED BY <1>1, Inductive, PTL

(* No idempotency key is ever recorded twice (transitions.py execute_action). *)
THEOREM KeysAreSpentOnce == Spec => []KeySpentOnce
<1>1. IInv => KeySpentOnce
  BY Zenon DEF IInv, InstInv, KeySpentOnce
<1> QED BY <1>1, Inductive, PTL

(* The originator of an instance never fills a slot of a segregated gate    *)
(* (maker_checker.py assert_segregation).                                   *)
THEOREM MakerIsNeverChecker == Spec => []NoSelfApproval
<1>1. IInv => NoSelfApproval
  BY Zenon DEF IInv, InstInv, StepsInv, NoSelfApproval
<1> QED BY <1>1, Inductive, PTL

(* One visit to a gate never carries the same approver twice (transitions.py *)
(* execute_action, already_acted).                                          *)
THEOREM CheckersAreDistinct == Spec => []FourEyes
<1>1. IInv => FourEyes
  BY Zenon DEF IInv, InstInv, StepsInv, FourEyes
<1> QED BY <1>1, Inductive, PTL

(* No slot of a visit the instance has left is still active.                *)
THEOREM NoStaleSlotIsOpen == Spec => []OpenSlotsAreCurrent
<1>1. IInv => OpenSlotsAreCurrent
  BY Zenon DEF IInv, InstInv, StepsInv, OpenSlotsAreCurrent
<1> QED BY <1>1, Inductive, PTL

(* A gate the instance stands at always has a slot left to sign (steps.py   *)
(* join_satisfied).                                                         *)
THEOREM GatesNeverJam == Spec => []GateStaysOpen
<1>1. IInv => GateStaysOpen
  BY Zenon DEF IInv, InstInv, StepsInv, GateStaysOpen
<1> QED BY <1>1, Inductive, PTL

(* Every gate that was passed by approval was passed with the signatures its *)
(* join asks for, and keeps them (steps.py join_satisfied).                 *)
THEOREM FanInAlwaysMet == Spec => []FanInMet
<1>1. IInv => FanInMet
  BY Zenon DEF IInv, InstInv, StepsInv, FanInMet
<1> QED BY <1>1, Inductive, PTL

(* Visits are never re-opened: the history lies behind the instance.        *)
THEOREM VisitsAlwaysLieBehind == Spec => []VisitsLieBehind
<1>1. IInv => VisitsLieBehind
  BY Zenon DEF IInv, InstInv, StepsInv, VisitsLieBehind
<1> QED BY <1>1, Inductive, PTL

(* Two reads that carry the same row_version are reads of the same rows.    *)
THEOREM TokensNameStates == Spec => []TokenNamesState
<1>1. IInv => TokenNamesState
  BY Zenon DEF IInv
<1> QED BY <1>1, Inductive, PTL

(* The instance row, its log and the tokens handed out never disagree.      *)
THEOREM StateAlwaysMatchesLog == Spec => []StateMatchesLog
<1>1. LogReplays /\ TokenNamesState => StateMatchesLog
  BY Zenon DEF StateMatchesLog
<1> QED BY <1>1, LogAlwaysReplays, TokensNameStates, PTL

(* Maker-checker and four eyes, at every gate of every published graph.     *)
THEOREM SegregationAlwaysHolds == Spec => []SegregationHolds
<1>1. NoSelfApproval /\ FourEyes => SegregationHolds
  BY Zenon DEF SegregationHolds
<1> QED BY <1>1, MakerIsNeverChecker, CheckersAreDistinct, PTL

(* No gate of a published graph opens early, jams or is re-opened.          *)
THEOREM GatesAreAlwaysSound == Spec => []GatesAreSound
<1>1. FanInMet /\ GateStaysOpen /\ OpenSlotsAreCurrent /\ VisitsLieBehind => GatesAreSound
  BY Zenon DEF GatesAreSound
<1> QED BY <1>1, FanInAlwaysMet, GatesNeverJam, NoStaleSlotIsOpen, VisitsAlwaysLieBehind, PTL

(* What was logged stays where it was when an event is appended.            *)
LEMMA AppendKeepsPrefix ==
  ASSUME NEW S, NEW s \in Seq(S), NEW e \in S
  PROVE  SubSeq(Append(s, e), 1, Len(s)) = s
  OBVIOUS

(* The log only grows, and a terminal instance never changes again.         *)
THEOREM LogOnlyGrows == Spec => LogIsAppendOnly
<1> DEFINE Grows == Started =>
             /\ SubSeq(inst'.events, 1, Len(inst.events)) = inst.events
             /\ StateOf(inst.def, inst.current).kind = "terminal" => inst' = inst
<1>1. IInv /\ [Next]_vars => [Grows]_vars
  <2> SUFFICES ASSUME IInv, Next, Started PROVE Grows
    BY Zenon DEF vars
  <2>1. InstInv(inst) /\ inst.events \in Seq(EventRecords)
    BY InstanceFacts, Zenon DEF IInv, InstInv
  <2>2. ASSUME inst' = inst PROVE Grows
    BY <2>1, <2>2, SubSeqFull, Zenon
  <2>3. ASSUME NEW u \in Users, NEW action \in Actions, NEW key \in Keys \cup {NoKey},
               NEW expected, NEW comment, Execute(u, action, key, expected, comment)
        PROVE  Grows
    <3>1. /\ ~Replays(inst, key) /\ Accepts(oic, inst, u, action, comment)
          /\ inst' \in ExecuteAction(oic, inst, u, action, key)
      BY <2>3, Zenon DEF Execute
    <3>2. PICK e \in EventRecords : inst'.events = Append(inst.events, e)
      <4>1. Logged(inst, inst')
        BY <2>1, <3>1, ExecutePreserves, Zenon
      <4> QED BY <4>1, Zenon DEF Logged
    <3>3. SubSeq(Append(inst.events, e), 1, Len(inst.events)) = inst.events
      BY <2>1, AppendKeepsPrefix, Zenon
    <3>4. StateOf(inst.def, inst.current).kind # "terminal"
      BY <3>1, Zenon DEF Accepts, AcceptsRoute
    <3> QED BY <3>2, <3>3, <3>4, Zenon
  <2>4. ASSUME NEW v, NEW u, NEW amount PROVE ~Start(v, u, amount)
    BY Zenon DEF Start, Started
  <2> HIDE DEF Grows
  <2> QED BY <2>2, <2>3, <2>4, Zenon DEF Next, Read, OpenWindow, CloseWindow, SetFlag
<1> QED BY <1>1, Inductive, PTL DEF Spec, LogIsAppendOnly
=============================================================================
