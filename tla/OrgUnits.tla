------------------------------- MODULE OrgUnits -------------------------------
(***************************************************************************)
(* core/org_units.py: the walks over the org-unit tree and the scoped       *)
(* authorization built on them, over the roles of core/seeds/rbac.py.       *)
(*                                                                          *)
(* `units` maps a unit to its row of core_org_units or to NoRow.  Nothing   *)
(* here assumes that the parents form a tree: the walks are bounded by the  *)
(* depth guard alone.                                                       *)
(***************************************************************************)
EXTENDS Integers, FiniteSets

CONSTANTS
  Units,            \* org units
  NoRow,            \* no such row
  NoUnit,           \* NULL org_unit_id
  RoleGrants,       \* role -> the permissions it carries
  MaxAncestryDepth  \* _MAX_ANCESTRY_DEPTH

ASSUME OrgUnitsAssumption == MaxAncestryDepth \in Nat /\ NoUnit \notin Units

LiveUnit(units, x) == x # NoUnit /\ units[x] # NoRow /\ units[x].live

-----------------------------------------------------------------------------
(* ancestors_or_self: what the recursive CTE finds at each depth, NoUnit    *)
(* once the walk has ended.                                                 *)
AncestorAt(units, x) ==
  LET at[d \in 0 .. MaxAncestryDepth] ==
        LET below == at[d - 1]
            y == IF d = 0 THEN x ELSE IF below = NoUnit THEN NoUnit ELSE units[below].parent
        IN  IF LiveUnit(units, y) THEN y ELSE NoUnit
  IN  at

AncestorsOrSelf(units, x) ==
  {AncestorAt(units, x)[d] : d \in 0 .. MaxAncestryDepth} \ {NoUnit}

(* {unit: rank for rank, unit in enumerate(ancestry)}: of a unit met twice  *)
(* the last rank stays.                                                     *)
Proximity(units, x, y) ==
  CHOOSE d \in 0 .. MaxAncestryDepth :
    /\ AncestorAt(units, x)[d] = y
    /\ \A e \in d + 1 .. MaxAncestryDepth : AncestorAt(units, x)[e] # y

(* descendants_or_self: the generations below the live roots.               *)
Generation(units, roots) ==
  LET gen[d \in 0 .. MaxAncestryDepth] ==
        IF d = 0 THEN {x \in roots : LiveUnit(units, x)}
        ELSE LET above == gen[d - 1]
             IN  {x \in Units : LiveUnit(units, x) /\ units[x].parent \in above}
  IN  gen

(* Mutant: a disbanded unit still passes its children on.                   *)
DescendantsThroughDeleted(units, roots) ==
  LET gen[d \in 0 .. MaxAncestryDepth] ==
        IF d = 0 THEN roots
        ELSE {x \in Units : units[x] # NoRow /\ units[x].parent \in gen[d - 1]}
  IN  {x \in UNION {gen[d] : d \in 0 .. MaxAncestryDepth} : LiveUnit(units, x)}

DescendantsOrSelf(units, roots) ==
  UNION {Generation(units, roots)[d] : d \in 0 .. MaxAncestryDepth}

-----------------------------------------------------------------------------
(* core/seeds/rbac.py ROLE_GRANTS: what each role carries, of the           *)
(* permissions that are checked against an org unit.                        *)
ScopedPermissions ==
  {"reimb.claim.read", "reimb.claim.approve", "reimb.claim.review",
   "reimb.claim.fms_update", "reimb.liquidation.certify", "reimb.cash_advance.manage"}

SeededRoles ==
  [r \in {"system_admin", "approver", "admin_officer", "staff"} |->
     CASE r = "system_admin"  -> ScopedPermissions
       [] r = "approver"      -> {"reimb.claim.read", "reimb.claim.approve",
                                  "reimb.liquidation.certify"}
       [] r = "admin_officer" -> {"reimb.claim.read", "reimb.claim.review",
                                  "reimb.claim.fms_update", "reimb.cash_advance.manage"}
       [] r = "staff"         -> {"reimb.claim.read"}]

(* A live core_user_roles row inside its valid window.                      *)
InForce(g, now) == g.from <= now /\ now < g.until

(* scoped_org_units: NoUnit stands for a global grant.                      *)
ScopedOrgUnits(grants, u, perm, now) ==
  {g.unit : g \in {h \in grants : h.user = u /\ perm \in RoleGrants[h.role] /\ InForce(h, now)}}

(* permission_holders: <<user, unit of the grant>> pairs.                   *)
PermissionHolders(units, grants, active, perm, target, now) ==
  {<<g.user, g.unit>> :
     g \in {h \in grants : /\ perm \in RoleGrants[h.role] /\ InForce(h, now)
                           /\ h.user \in active
                           /\ h.unit \in AncestorsOrSelf(units, target) \cup {NoUnit}}}

(* authorize_scoped.                                                        *)
AuthorizeScoped(units, grants, u, perm, target, now) ==
  LET scopes == ScopedOrgUnits(grants, u, perm, now)
  IN  /\ scopes # {}
      /\ NoUnit \in scopes \/ scopes \cap AncestorsOrSelf(units, target) # {}
=============================================================================
