--------------------------- MODULE MCClaimLifecycle ---------------------------
(* Small instances of the claim lifecycle: a claimant who is also an        *)
(* approver, a division chief, and an Admin Officer who reviews, works the  *)
(* FMS leg and manages cash advances.                                       *)
EXTENDS ClaimLifecycle, TLC

CONSTANTS owner, chief, officer, r1

OfficeScoped ==
  {<<owner, D!ApprovePerm>>, <<owner, D!CertifyPerm>>, <<chief, D!ApprovePerm>>,
   <<chief, D!CertifyPerm>>,
   <<officer, D!ReviewPerm>>, <<officer, D!FmsPerm>>, <<officer, D!ManagePerm>>}

OfficeProximity == [u \in Users |-> IF u = owner THEN 0 ELSE IF u = chief THEN 1 ELSE 2]

ReimbDefs == D!ReimbDefinitions
ReimbRanks == D!ReimbRank
ReimbPermissions == D!ReimbPerms

(* A reimbursement from draft to payment under two overlapping requests.    *)
Payout ==
  [claims |-> {1}, advances |-> {}, inflight |-> 2, refs |-> {r1},
   dates |-> {1}, isolated |-> {"submit", "round"}, versions |-> 8,
   instances |-> 2, standalone |-> 1, journey |-> 0]

(* A liquidation and its advance under two overlapping requests.            *)
Settlement ==
  [claims |-> {1}, advances |-> {1}, inflight |-> 2, refs |-> {},
   dates |-> {1}, isolated |-> {"submit", "patch", "round"}, versions |-> 6, instances |-> 1,
   standalone |-> 0, journey |-> 0]

(* Two claims around one advance, one request at a time.                    *)
Liquidation ==
  [claims |-> {1, 2}, advances |-> {1}, inflight |-> 1,
   refs |-> {r1}, dates |-> {1}, isolated |-> {"submit", "patch", "round"}, versions |-> 5,
   instances |-> 2, standalone |-> 0, journey |-> 0]

(* A liquidation whose advance is re-dated.                                 *)
Redating ==
  [claims |-> {1}, advances |-> {1}, inflight |-> 1, refs |-> {}, dates |-> {1, 2},
   isolated |-> {"submit", "patch", "round"}, versions |-> 5,
   instances |-> 1, standalone |-> 0, journey |-> 0]

(* A claim at FMS while updates are relayed and its payment recorded.       *)
Relayed ==
  [claims |-> {1}, advances |-> {}, inflight |-> 2, refs |-> {r1}, dates |-> {1},
   isolated |-> {"submit", "round"}, versions |-> 5, instances |-> 1, standalone |-> 1, journey |-> 1]

Office == {Payout, Relayed, Settlement, Liquidation, Redating}

(* A draft whose two submits may overtake one another.                      *)
DoubleClick ==
  {[claims |-> {1}, advances |-> {}, inflight |-> 2, refs |-> {r1}, dates |-> {1},
    isolated |-> {}, versions |-> 5, instances |-> 2, standalone |-> 1, journey |-> 0]}

(* An advance whose re-dating may be overtaken by its settlement.           *)
LateRedating ==
  {[claims |-> {1}, advances |-> {1}, inflight |-> 2, refs |-> {}, dates |-> {1, 2},
    isolated |-> {"submit", "round"}, versions |-> 5, instances |-> 1, standalone |-> 0, journey |-> 0]}

(* A payment whose claim may be handed back, refiled and approved anew      *)
(* before it is committed.                                                  *)
LatePayout ==
  {[claims |-> {1}, advances |-> {}, inflight |-> 2, refs |-> {r1}, dates |-> {1},
    isolated |-> {"submit"}, versions |-> 9, instances |-> 1, standalone |-> 1, journey |-> 0]}

AnySession == Permutations(Sessions)
=============================================================================
