----------------------- MODULE ReimbursementDefinitions -----------------------
(***************************************************************************)
(* The two workflow definitions the reimbursement module authors and       *)
(* publishes (modules/reimbursement/workflow.py), as data for the engine   *)
(* of WorkflowRules, and the status vocabulary of services/status.py.      *)
(***************************************************************************)
EXTENDS Naturals

CONSTANTS NoPerm, NoAmount

ApprovePerm == "reimb.claim.approve"
ReviewPerm  == "reimb.claim.review"
FmsPerm     == "reimb.claim.fms_update"
CertifyPerm == "reimb.liquidation.certify"
ManagePerm  == "reimb.cash_advance.manage"
ReimbPerms  == {ApprovePerm, ReviewPerm, FmsPerm, CertifyPerm, ManagePerm}

(* add_state: the column defaults, then what the author overrides.          *)
Plain(kind) ==
  [kind |-> kind, gate |-> FALSE, perm |-> NoPerm, join |-> "all",
   stepCount |-> 1, quorum |-> 0, segregate |-> FALSE, comment |-> FALSE]

Gate(perm, segregate) ==
  [Plain("normal") EXCEPT !.gate = TRUE, !.perm = perm, !.segregate = segregate]

(* add_transition: no amount band is authored in either graph.              *)
Edge(from, action, to, perm, comment) ==
  [from |-> from, action |-> action, to |-> to, order |-> 0, perm |-> perm,
   min |-> NoAmount, max |-> NoAmount, comment |-> comment]

ClaimDefinition ==
  [initial |-> "draft",
   states  |->
     [s \in {"draft", "division_approval", "admin_review", "handed_to_fms",
             "fms_returned", "returned", "paid_closed", "cancelled"} |->
        CASE s = "draft"             -> Plain("initial")
          [] s = "division_approval" -> Gate(ApprovePerm, TRUE)
          [] s = "admin_review"      -> Gate(ReviewPerm, TRUE)
          [] s = "handed_to_fms"     -> Gate(FmsPerm, FALSE)
          [] s = "fms_returned"      -> Gate(ReviewPerm, FALSE)
          [] s = "returned"          -> Plain("normal")
          [] OTHER                   -> Plain("terminal")],
   transitions |->
     {Edge("draft", "submit", "division_approval", ReviewPerm, FALSE),
      Edge("draft", "cancel", "cancelled", ReviewPerm, TRUE),
      Edge("division_approval", "approve", "admin_review", NoPerm, FALSE),
      Edge("division_approval", "return", "returned", NoPerm, TRUE),
      Edge("admin_review", "approve", "handed_to_fms", NoPerm, FALSE),
      Edge("admin_review", "return", "returned", NoPerm, TRUE),
      Edge("handed_to_fms", "approve", "paid_closed", NoPerm, FALSE),
      Edge("handed_to_fms", "return", "fms_returned", NoPerm, TRUE),
      Edge("fms_returned", "return", "returned", NoPerm, TRUE),
      Edge("returned", "resubmit", "division_approval", ReviewPerm, FALSE),
      Edge("returned", "cancel", "cancelled", ReviewPerm, TRUE)}]

LiquidationDefinition ==
  [initial |-> "draft",
   states  |->
     [s \in {"draft", "certify_b", "certify_c", "handed_to_fms", "returned",
             "settled", "cancelled"} |->
        CASE s = "draft"         -> Plain("initial")
          [] s = "certify_b"     -> Gate(CertifyPerm, TRUE)
          [] s = "certify_c"     -> Gate(ReviewPerm, TRUE)
          [] s = "handed_to_fms" -> Gate(FmsPerm, FALSE)
          [] s = "returned"      -> Plain("normal")
          [] OTHER               -> Plain("terminal")],
   transitions |->
     {Edge("draft", "submit", "certify_b", ReviewPerm, FALSE),
      Edge("draft", "cancel", "cancelled", ReviewPerm, TRUE),
      Edge("certify_b", "approve", "certify_c", NoPerm, FALSE),
      Edge("certify_b", "return", "returned", NoPerm, TRUE),
      Edge("certify_c", "approve", "handed_to_fms", NoPerm, TRUE),
      Edge("certify_c", "return", "returned", NoPerm, TRUE),
      Edge("handed_to_fms", "approve", "settled", NoPerm, FALSE),
      Edge("handed_to_fms", "return", "returned", NoPerm, TRUE),
      Edge("returned", "resubmit", "certify_b", ReviewPerm, FALSE),
      Edge("returned", "cancel", "cancelled", ReviewPerm, TRUE)}]

ReimbDefinitions ==
  [k \in {"reimbursement", "liquidation"} |->
     IF k = "reimbursement" THEN ClaimDefinition ELSE LiquidationDefinition]

(* A topological position of each state once resubmit edges are removed.    *)
ReimbRank ==
  [k \in {"reimbursement", "liquidation"} |->
     [s \in DOMAIN ReimbDefinitions[k].states |->
        CASE s = "draft"                                    -> 0
          [] s \in {"division_approval", "certify_b"}       -> 1
          [] s \in {"admin_review", "certify_c"}            -> 2
          [] s = "handed_to_fms"                            -> 3
          [] s \in {"fms_returned", "paid_closed", "settled"} -> 4
          [] s = "returned"                                 -> 5
          [] OTHER                                          -> 6]]

(* status.py: the states of each kind and who holds a claim in them.        *)
TerminalStatuses == {"paid_closed", "settled", "cancelled"}
ClaimantStatuses == {"draft", "returned"}
ExternalStatuses == {"handed_to_fms"}
EditableStatuses == {"draft", "returned"}
=============================================================================
