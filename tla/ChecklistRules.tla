---------------------------- MODULE ChecklistRules ----------------------------
(***************************************************************************)
(* core/checklist and the facts it reads (services/checklist_facts.py):    *)
(* the rules that decide which documents a claim needs, the automatic      *)
(* checks that flag what a reviewer should look at, and the fold of both   *)
(* into the answer of the submit gate.  All of it is pure; ClaimPacket     *)
(* puts it to work.                                                        *)
(*                                                                         *)
(* A JSON value is a record of its type and its content.  An amount is     *)
(* the two-decimals text money travels as, in centavos; a text is the      *)
(* sequence of its words; a list is a function of its elements' positions. *)
(***************************************************************************)
EXTENDS Integers, FiniteSets, Sequences

Elements(list) == {list[i] : i \in DOMAIN list}

Missing == [type |-> "missing"]
Null == [type |-> "null"]
Bool(b) == [type |-> "bool", val |-> b]
Number(n) == [type |-> "number", val |-> n]
Amount(n) == [type |-> "amount", val |-> n]
Text(words) == [type |-> "text", val |-> words]
Date(d) == [type |-> "date", val |-> d]
List(values) == [type |-> "list", val |-> values]
Map(fields) == [type |-> "map", val |-> fields]

(* A rule is the sequence of its nodes, the root first; a junction names    *)
(* its branches by their positions, which follow its own.  A garbled node   *)
(* stands for everything the grammar cannot read: null, not an object, two  *)
(* operators or an unknown one, an operand of the wrong type, a condition   *)
(* without a field or with an unknown comparator.                           *)
Always(b) == <<[op |-> "always", operand |-> b]>>
If(path, cmp, value) == <<[op |-> "if", field |-> path, cmp |-> cmp, against |-> value]>>
EmptyRule == <<[op |-> "empty"]>>
Garbled == <<[op |-> "garbled"]>>

Junctions == {"any", "all"}

(* The nodes of a rule moved n places down, and a junction of two rules.    *)
Shift(rule, n) ==
  [i \in DOMAIN rule |->
     IF rule[i].op \in Junctions
     THEN [rule[i] EXCEPT !.branches = {b + n : b \in @}] ELSE rule[i]]
OfNone(op) == <<[op |-> op, branches |-> {}]>>
OfOne(op, r) == <<[op |-> op, branches |-> {2}]>> \o Shift(r, 1)
OfTwo(op, r, s) ==
  <<[op |-> op, branches |-> {2, 2 + Len(r)}]>> \o Shift(r, 1) \o Shift(s, 1 + Len(r))

MaxRuleDepth == 8

-----------------------------------------------------------------------------
(* grammar.py resolve_field: one dotted segment at a time, projected across *)
(* a list of objects.                                                       *)
Segment(current, key) ==
  CASE current.type = "map" ->
         IF key \in DOMAIN current.val THEN current.val[key] ELSE Missing
    [] current.type = "list" ->
         LET holding == {i \in DOMAIN current.val :
                           current.val[i].type = "map" /\ key \in DOMAIN current.val[i].val}
         IN  IF holding = {} THEN Missing
             ELSE List([i \in holding |-> current.val[i].val[key]])
    [] OTHER -> Missing

ResolveField(known, path) ==
  LET at[i \in 0 .. Len(path)] == IF i = 0 THEN known ELSE Segment(at[i - 1], path[i])
  IN  IF path = <<>> THEN Missing ELSE at[Len(path)]

Same(a, b) ==
  a.type = b.type /\ (a.type \in {"missing", "null"} \/ a.val = b.val)

(* _as_decimal: money is text, and still a number to a rule; a truth value  *)
(* is not.                                                                  *)
IsDecimal(v) == v.type \in {"number", "amount"}

CmpEq(actual, expected) ==
  /\ actual.type # "missing"
  /\ IF IsDecimal(actual) /\ IsDecimal(expected) THEN actual.val = expected.val
     ELSE Same(actual, expected)

CmpContains(actual, expected) ==
  CASE actual.type = "text" ->
         /\ expected.type = "text"
         /\ \E i \in 0 .. Len(actual.val) - Len(expected.val) :
              SubSeq(actual.val, i + 1, i + Len(expected.val)) = expected.val
    [] actual.type = "list" -> \E i \in DOMAIN actual.val : Same(actual.val[i], expected)
    [] OTHER -> FALSE

CmpGt(actual, expected) ==
  IsDecimal(actual) /\ IsDecimal(expected) /\ actual.val > expected.val

Outcome(required) == [required |-> required, unparseable |-> FALSE]
Unparseable == [required |-> FALSE, unparseable |-> TRUE]

(* _evaluate_condition.                                                     *)
EvaluateCondition(node, known) ==
  LET actual == ResolveField(known, node.field)
  IN  Outcome(CASE node.cmp = "eq" -> CmpEq(actual, node.against)
                [] node.cmp = "contains" -> CmpContains(actual, node.against)
                [] node.cmp = "gt" -> CmpGt(actual, node.against))

(* _evaluate_junction over the outcomes of its branches: one branch that    *)
(* cannot be read poisons it.                                               *)
Junction(op, outcomes) ==
  IF \E o \in outcomes : o.unparseable THEN Unparseable
  ELSE IF op = "any" THEN Outcome(\E o \in outcomes : o.required)
  ELSE Outcome(\A o \in outcomes : o.required)

(* evaluate_required_rule: total, whatever the catalog says.                *)
EvaluateRequiredRule(rule, known) ==
  LET evaluate[i \in DOMAIN rule, depth \in 0 .. MaxRuleDepth + 1] ==
        CASE depth > MaxRuleDepth \/ rule[i].op = "garbled" -> Unparseable
          [] depth <= MaxRuleDepth /\ rule[i].op = "empty" -> Outcome(FALSE)
          [] depth <= MaxRuleDepth /\ rule[i].op = "always" -> Outcome(rule[i].operand)
          [] depth <= MaxRuleDepth /\ rule[i].op = "if" -> EvaluateCondition(rule[i], known)
          [] OTHER -> Junction(rule[i].op, {evaluate[b, depth + 1] : b \in rule[i].branches})
  IN  evaluate[1, 0]

(* validate_required_rule, the gate of the seeded catalog: stricter than    *)
(* the evaluator.                                                           *)
ValidateRequiredRule(rule) ==
  LET valid[i \in DOMAIN rule, depth \in 0 .. MaxRuleDepth + 1] ==
        /\ depth <= MaxRuleDepth
        /\ rule[i].op \notin {"garbled", "empty"}
        /\ rule[i].op \in Junctions =>
             /\ rule[i].branches # {}
             /\ \A b \in rule[i].branches : valid[b, depth + 1]
  IN  valid[1, 0]

(* What a rule means, without depths and without failures.                  *)
Holds(rule, known) ==
  LET holds[i \in DOMAIN rule] ==
        CASE rule[i].op = "always" -> rule[i].operand
          [] rule[i].op = "if" -> EvaluateCondition(rule[i], known).required
          [] rule[i].op = "any" -> \E b \in rule[i].branches : holds[b]
          [] rule[i].op = "all" -> \A b \in rule[i].branches : holds[b]
  IN  holds[1]

-----------------------------------------------------------------------------
(* checks.py.  A check passes, flags, or is skipped when what it needs is   *)
(* not there; it never gates.                                               *)
At(known, key) == IF key \in DOMAIN known.val THEN known.val[key] ELSE Missing

(* One value or a list of them, and the amounts among them.                 *)
Amounts(v) ==
  LET values == IF v.type = "list" THEN v.val ELSE <<v>>
  IN  [i \in {i \in DOMAIN values : IsDecimal(values[i])} |-> values[i].val]

(* _check_file_present: a file whose scan is pending counts.                *)
CheckFilePresent(item) ==
  IF item.infected > 0 \/ item.count = 0 THEN "flagged" ELSE "passed"

(* _config_amount: the key is looked up whole, dots included, and an        *)
(* {"amount": ...} object is unwrapped.                                     *)
ConfigAmount(known, key) ==
  LET value == At(At(known, "config"), key)
  IN  IF value.type = "map" THEN At(value, "amount") ELSE value

CheckAmountThreshold(spec, known) ==
  LET ceiling == ConfigAmount(known, spec.max_key)
      amounts == Elements(Amounts(ResolveField(known, spec.field)))
  IN  IF ~IsDecimal(ceiling) \/ amounts = {} THEN "skipped"
      ELSE IF \E n \in amounts : n > ceiling.val THEN "flagged" ELSE "passed"

CheckDateWithinTrip(known) ==
  LET depart == ResolveField(known, <<"trip", "depart">>)
      return == ResolveField(known, <<"trip", "return">>)
      legs   == ResolveField(known, <<"legs", "leg_date">>)
      dates  == {v \in IF legs.type = "list" THEN Elements(legs.val) ELSE {} : v.type = "date"}
                  \cup {v \in Elements(At(known, "evidence_dates").val) : v.type = "date"}
  IN  IF depart.type # "date" \/ return.type # "date" \/ dates = {} THEN "skipped"
      ELSE IF \E d \in dates : d.val \notin depart.val .. return.val THEN "flagged"
      ELSE "passed"

Sum(amounts) ==
  LET over[S \in SUBSET DOMAIN amounts] ==
        IF S = {} THEN 0
        ELSE LET i == CHOOSE i \in S : TRUE IN amounts[i] + over[S \ {i}]
  IN  over[DOMAIN amounts]

CheckSumMatches(spec, known) ==
  LET total == ResolveField(known, spec.vs)
      sum   == Sum(Amounts(ResolveField(known, spec.of)))
      delta == IF sum > total.val THEN sum - total.val ELSE total.val - sum
  IN  IF ~IsDecimal(total) THEN "skipped"
      ELSE IF delta <= spec.tolerance THEN "passed" ELSE "flagged"

CheckKeywordAbsent(spec, known) ==
  LET text == At(known, "ocr_text")
  IN  IF text.type # "text" THEN "skipped"
      ELSE IF \E k \in spec.keywords : CmpContains(text, k) THEN "flagged" ELSE "passed"

CheckDeadline(spec, known) ==
  LET due == At(At(known, "deadlines"), spec.key)
  IN  IF due.type # "date" THEN "skipped"
      ELSE IF At(known, "today").val <= due.val THEN "passed" ELSE "flagged"

(* run_auto_checks: the verdicts; a check of an unknown type is skipped.    *)
RunCheck(spec, known, item) ==
  CASE spec.type = "file_present" -> CheckFilePresent(item)
    [] spec.type = "amount_threshold" -> CheckAmountThreshold(spec, known)
    [] spec.type = "date_within_trip" -> CheckDateWithinTrip(known)
    [] spec.type = "sum_matches" -> CheckSumMatches(spec, known)
    [] spec.type = "keyword_absent" -> CheckKeywordAbsent(spec, known)
    [] spec.type = "deadline_check" -> CheckDeadline(spec, known)
    [] OTHER -> "skipped"

RunAutoChecks(checks, known, item) == {RunCheck(spec, known, item) : spec \in checks}

-----------------------------------------------------------------------------
(* engine.py.  An item is its catalog row's spec and the state of its row:  *)
(* a row ("none", "live" or "dormant"), whether it is generated, and the    *)
(* tally of its files.                                                      *)
BlockingEvidence == {"upload", "external_wet_sign"}

(* _derive: a generated document outranks an upload, and the data is its    *)
(* own evidence.  Mutant: a flagged upload does not count.                  *)
EvidenceIfPassed(spec, item, verdicts) ==
  CASE item.generated -> "generated"
    [] ~item.generated /\ (spec.evidence = "data_only"
                             \/ (item.count > 0 /\ "flagged" \notin verdicts)) -> "attached"
    [] OTHER -> "missing"
EvidenceState(spec, item, verdicts) ==
  CASE item.generated -> "generated"
    [] ~item.generated /\ (spec.evidence = "data_only" \/ item.count > 0) -> "attached"
    [] OTHER -> "missing"

(* _derive: the status shown, in which the verdicts describe the evidence.  *)
DerivedStatus(spec, item, verdicts) ==
  LET state == EvidenceState(spec, item, verdicts)
  IN  CASE state # "attached" -> state
        [] state = "attached" /\ "flagged" \in verdicts -> "auto_flagged"
        [] state = "attached" /\ "flagged" \notin verdicts
             /\ (spec.evidence = "data_only" \/ "passed" \in verdicts) -> "auto_passed"
        [] OTHER -> "attached"

SatisfiedStatuses == {"attached", "generated", "auto_passed", "auto_flagged", "waived"}

(* plan_checklist: whether a row is created, restored, kept, put away or    *)
(* left alone.  A rule that cannot be read creates a row so that somebody   *)
(* sees it.                                                                 *)
Action(outcome, row, holdsSomething) ==
  CASE row = "none" -> IF outcome.required \/ outcome.unparseable THEN "create" ELSE "none"
    [] row = "dormant" -> IF outcome.required THEN "restore" ELSE "none"
    [] row = "live" -> IF outcome.required \/ holdsSomething THEN "keep" ELSE "make_dormant"

(* The row after the action (refresh_checklist).                            *)
RowAfter(action, row) ==
  CASE action \in {"create", "restore"} -> "live"
    [] action = "make_dormant" -> "dormant"
    [] OTHER -> row

(* ItemPlan.blocking.                                                       *)
Blocks(spec, outcome, item, verdicts) ==
  /\ outcome.required
  /\ spec.evidence \in BlockingEvidence
  /\ EvidenceState(spec, item, verdicts) = "missing"

-----------------------------------------------------------------------------
(* checklist_facts.py effective_config: the latest row in force; on one     *)
(* date the tenant's own beats the platform's.                              *)
Newer(a, b) == a.from > b.from \/ (a.from = b.from /\ a.tenant /\ ~b.tenant)

EffectiveConfig(configs, today) ==
  LET inForce == {r \in configs : r.active /\ r.from <= today}
      best    == {r \in inForce : \A s \in inForce : s.key = r.key => ~Newer(s, r)}
  IN  [k \in {r.key : r \in inForce} |-> (CHOOSE r \in best : r.key = k).value]

(* _deadline_facts: only a liquidation is measured against its advance.     *)
DeadlineFacts(claim) ==
  IF claim.kind = "liquidation" /\ claim.deadline # Null
  THEN [k \in {"liquidation.deadline"} |-> claim.deadline]
  ELSE [k \in {} |-> Null]

(* build_claim_facts, for the fields the seeded rules and checks read; the  *)
(* claim's own other_total overlays the last computed totals.               *)
BuildClaimFacts(claim, configs, today) ==
  Map([is_jo_cos |-> Bool(claim.jo_cos),
       transport_modes |-> List([i \in {i \in DOMAIN claim.legs : claim.legs[i].mode # Null}
                                   |-> claim.legs[i].mode]),
       fare |-> List([i \in {i \in DOMAIN claim.legs : claim.legs[i].fare # Null}
                        |-> claim.legs[i].fare]),
       legs |-> List([i \in DOMAIN claim.legs |->
                        Map([leg_date |-> claim.legs[i].date, fare |-> claim.legs[i].fare])]),
       trip |-> Map([depart |-> claim.depart, return |-> claim.return]),
       totals |-> Map([k \in DOMAIN claim.totals \cup {"other"} |->
                         IF k = "other" THEN claim.other ELSE claim.totals[k]]),
       config |-> Map(EffectiveConfig(configs, today)),
       deadlines |-> Map(DeadlineFacts(claim)),
       evidence_dates |-> List(<<>>), ocr_text |-> Null, today |-> Date(today)])
=============================================================================
