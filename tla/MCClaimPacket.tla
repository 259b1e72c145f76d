----------------------------- MODULE MCClaimPacket -----------------------------
(* An instance of ClaimPacket: a letter is required of a traveller who took *)
(* a taxi or has other expenses, and a taxi fare over the ceiling is        *)
(* flagged; the next circular requires the letter of everybody.             *)
EXTENDS ClaimPacket, MCTravelMoney, TLC

Taxi == Text(<<"taxi">>)

MCConfigs ==
  {[key |-> "receipts.cenrr_max", from |-> 1, tenant |-> FALSE, active |-> TRUE,
    value |-> Map([amount |-> Amount(30000)])],
   [key |-> "receipts.cenrr_max", from |-> 1, tenant |-> TRUE, active |-> TRUE,
    value |-> Map([amount |-> Amount(20000)])],
   [key |-> "receipts.cenrr_max", from |-> 9, tenant |-> TRUE, active |-> TRUE,
    value |-> Map([amount |-> Amount(90000)])]}

(* A trip of three days with one leg, and the claim its totals make.        *)
TripBy(mode, fare, other) ==
  [legs |-> <<[date |-> 3, region |-> Nothing, mode |-> mode, fare |-> fare,
               lodging |-> FALSE, meals |-> FALSE]>>,
   depart |-> 2, return |-> 4, region |-> "A", within50km |-> FALSE, overnight |-> FALSE,
   other |-> other]
Claim(mode, fare, other) ==
  LET totals == ComputeClaimTotals(TripBy(mode, fare, other), MCTables, 0)
  IN  [kind |-> "reimbursement", jo_cos |-> FALSE, deadline |-> Null,
       legs |-> <<[mode |-> Text(<<mode>>), fare |-> Amount(fare), date |-> Date(3)]>>,
       depart |-> Date(2), return |-> Date(4), totals |-> [k \in DOMAIN totals |-> Amount(totals[k])],
       other |-> Amount(other)]

(* 0: a bus at 150.00; 1: a taxi at 250.00, over the office's own ceiling.  *)
MCFactsOf ==
  0 :> BuildClaimFacts(Claim("bus", 15000, 0), MCConfigs, 5)
    @@ 1 :> BuildClaimFacts(Claim("taxi", 25000, 0), MCConfigs, 5)

MCChecks ==
  {[type |-> "file_present"], [type |-> "date_within_trip"],
   [type |-> "amount_threshold", field |-> <<"fare">>, max_key |-> "receipts.cenrr_max"],
   [type |-> "sum_matches", of |-> <<"legs", "fare">>, vs |-> <<"totals", "transport">>,
    tolerance |-> 0],
   [type |-> "keyword_absent", keywords |-> {Text(<<"business", "class">>)}],
   [type |-> "deadline_check", key |-> "liquidation.deadline"]}

TaxiOrOther ==
  OfTwo("any", If(<<"transport_modes">>, "contains", Taxi),
        If(<<"totals", "other">>, "gt", Number(0)))

Upload(rule) == [rule |-> rule, evidence |-> "upload", checks |-> MCChecks]
Generated == [rule |-> Always(TRUE), evidence |-> "generated_doc", checks |-> {}]
MCCatalogs ==
  1 :> ("LTR" :> Upload(TaxiOrOther) @@ "IOT" :> Generated)
    @@ 2 :> ("LTR" :> Upload(Always(TRUE)) @@ "IOT" :> Generated)

MCFilesFor == [c \in Uploads |-> {"x"}]
MCNoFiles == [c \in Uploads |-> {}]

(* The claimant edits under one catalog while one pass runs at a time and   *)
(* is retried, or two at a time; or the catalog changes under one claim.    *)
Retried == [facts |-> Facts, catalogs |-> {1}, retries |-> 1, workers |-> 1]
Overlapping == [facts |-> Facts, catalogs |-> {1}, retries |-> 0, workers |-> 2]
Revised == [facts |-> {0}, catalogs |-> {1, 2}, retries |-> 0, workers |-> 2]
MCSituations == {Retried, Overlapping, Revised}
MCEdited == {Retried, Overlapping}
MCRevised == {Revised}

MCSymmetry == Permutations(Jobs)

-----------------------------------------------------------------------------
(* Rules up to two levels deep, readable or not.                            *)
Leaves ==
  {Always(TRUE), Always(FALSE), EmptyRule, Garbled,
   If(<<"transport_modes">>, "contains", Taxi), If(<<"totals", "other">>, "gt", Number(0)),
   If(<<"legs", "fare">>, "eq", Amount(25000)), If(<<"is_jo_cos">>, "eq", Number(0)),
   If(<<"is_jo_cos">>, "eq", Bool(FALSE)), If(<<"nowhere">>, "eq", Null)}
Joined(S) ==
  UNION {{OfNone(op)} \cup {OfOne(op, r) : r \in S} \cup {OfTwo(op, r, s) : r \in S, s \in S}
         : op \in Junctions}
SmallRules == Leaves \cup Joined(Leaves) \cup {OfOne("any", r) : r \in Joined(Leaves)}

(* A rule nested n levels deep.                                             *)
Nested(n) ==
  [i \in 1 .. n + 1 |-> IF i = n + 1 THEN [op |-> "always", operand |-> TRUE]
                        ELSE [op |-> "all", branches |-> {i + 1}]]

(* The validated rules of the catalog are always readable, and mean what    *)
(* the grammar says; no rule at all breaks the evaluator.                   *)
ASSUME RulesMeanWhatTheySay ==
  \A f \in Facts :
    /\ \A r \in SmallRules : ValidateRequiredRule(r) =>
         EvaluateRequiredRule(r, FactsOf[f]) = Outcome(Holds(r, FactsOf[f]))
    /\ \A n \in 0 .. 10 : ValidateRequiredRule(Nested(n)) <=>
         ~EvaluateRequiredRule(Nested(n), FactsOf[f]).unparseable

(* The status shown says "done" exactly when the evidence is there.         *)
ASSUME DoneIsDone ==
  \A evidence \in {"upload", "external_wet_sign", "generated_doc", "data_only"},
     count \in 0 .. 1, generate \in BOOLEAN,
     verdicts \in SUBSET {"passed", "flagged", "skipped"} :
    LET spec == [evidence |-> evidence]
        item == [count |-> count, infected |-> 0, generated |-> generate]
    IN  DerivedStatus(spec, item, verdicts) \in SatisfiedStatuses
          <=> EvidenceState(spec, item, verdicts) # "missing"
=============================================================================
