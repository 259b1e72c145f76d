----------------------------- MODULE MCOversight -----------------------------
(* Model-checking instances of Oversight.                                   *)
EXTENDS Oversight, TLC

CONSTANTS Office, Division, Section, Branch

(* Logins 1 and 2 travel and approve, 3 reviews, 4 administers.             *)
MCStaffOf == <<1, 2, NoRow, NoRow>>
MCKindOf == <<"reimbursement", "liquidation", "liquidation">>
MCAmountOf == <<5, 7, 11>>
MCClaimantOf == <<1, 2, 1>>
MCTripOf == <<[depart |-> 0, return |-> 1], [depart |-> 1, return |-> 1], [depart |-> 2, return |-> 3]>>

Unit(parent, kind) == [parent |-> parent, kind |-> kind, live |-> TRUE]
Person(id, division, section) ==
  [id |-> id, division |-> division, section |-> section, email |-> NoEmail, live |-> TRUE]
Always(u, role, unit) == [user |-> u, role |-> role, unit |-> unit, from |-> 0, until |-> MaxNow + 1]

Tree == (Office :> Unit(NoUnit, "office") @@ Division :> Unit(Office, "division")
         @@ Section :> Unit(Division, "section") @@ Branch :> NoRow)
People == <<Person(1, Division, Section), Person(2, Division, NoUnit)>>
Admin == Always(4, "system_admin", NoUnit)
Desk == {Always(1, "staff", NoUnit), Always(2, "approver", Division),
         Always(3, "admin_officer", Office), Always(3, "approver", Office),
         Admin}
Feed(unitSpecs, staffSpecs, prune) ==
  [units |-> unitSpecs, staff |-> staffSpecs, prune |-> prune, malformed |-> FALSE]
NoUnits == [c \in {} |-> NoRow]
NoStaff == [e \in {} |-> NoRow]
At(division, section) == [division |-> division, section |-> section, email |-> NoEmail]

Still ==
  [units |-> Tree, staff |-> People, granted |-> Desk, filing |-> {}, reasons |-> {{"r1"}}, days |-> MaxNow,
   grantable |-> {}, revocable |-> {}, leaving |-> {}, importers |-> {1}, feeds |-> {},
   disbanding |-> {}]

(* Claims move and age under settled people.                                *)
Working == [Still EXCEPT !.filing = {1, 2}, !.reasons = {{"r1", "r2"}}]
Stalled == [Still EXCEPT !.filing = {1, 3}]

(* The tree is rebuilt while a claim is under way: a section moved up, the  *)
(* division hung below its own section, a branch inserted, a unit           *)
(* disbanded, the claimant moved or pruned.                                 *)
Rebuilt ==
  [Still EXCEPT
     !.filing = {1}, !.days = 0, !.disbanding = {Division, Section},
     !.feeds =
       {Feed(Section :> [parent |-> Office, kind |-> "section"], NoStaff, FALSE),
        Feed(Division :> [parent |-> Section, kind |-> "division"], NoStaff, FALSE),
        Feed(Branch :> [parent |-> Division, kind |-> "section"]
               @@ Section :> [parent |-> Branch, kind |-> "section"], 1 :> At(Division, Branch), FALSE),
        Feed(NoUnits, 2 :> At(Division, NoUnit), TRUE)}]

(* Two imports overlap, each valid against the tree it read.                *)
Overlapping ==
  [Still EXCEPT
     !.filing = {1}, !.days = 0, !.importers = {1, 2},
     !.feeds =
       {Feed(Section :> [parent |-> Office, kind |-> "section"], 1 :> At(NoUnit, Section), FALSE),
        Feed(Division :> [parent |-> Section, kind |-> "division"], NoStaff, FALSE)}]

(* People change: an approver leaves, a successor is appointed for some     *)
(* days, the reviewer's grant is narrowed.                                  *)
Staffed ==
  [Still EXCEPT
     !.filing = {1}, !.granted = Desk \ {Admin}, !.leaving = {2},
     !.revocable = {Always(2, "approver", Division), Always(3, "admin_officer", Office)},
     !.grantable = {[user |-> 4, role |-> "approver", unit |-> Section, from |-> 1, until |-> 2],
                    Always(3, "admin_officer", Section)}]

MCWorlds == {Working, Stalled, Rebuilt, Overlapping, Staffed}

(* A tenant that gives the liquidation certification on its own.            *)
TenantRoles ==
  [r \in {"certifier"} \cup DOMAIN SeededRoles |->
     IF r = "certifier" THEN {"reimb.claim.read", "reimb.liquidation.certify"} ELSE SeededRoles[r]]

Certified ==
  [Still EXCEPT !.filing = {3}, !.granted = (Desk \ {Admin}) \cup {Always(4, "certifier", Section)}]
MCCertified == {Certified}
=============================================================================
